-------------------------- MODULE HostInputCodec --------------------------
(***************************************************************************)
(* The two pure stages between the physical keyboard and a terminal view,  *)
(* in cli/src/terminal_ui.rs and terminal_ui/prefix.rs:                    *)
(*                                                                         *)
(*  - HostInputCodec::feed cuts the byte stream of the local terminal into *)
(*    events: plain bytes, keys, mouse reports, whole pastes, and replies  *)
(*    of the local terminal that the child must never see;                 *)
(*  - CommandMode::route takes the local commands (Ctrl-] and a letter)    *)
(*    out of the events, and owns the releases of the keys it took.        *)
(*                                                                         *)
(* A byte is a string; a decimal number is one byte here ("93"), so that a *)
(* key report has the shape of the real one with fewer places to cut it.   *)
(***************************************************************************)
EXTENDS Naturals, Sequences, SequencesExt, FiniteSets

CONSTANTS
    OscBound,   \* 1024: bytes an unfinished OSC may hold before it is discarded
    SeqBound,   \* HOST_SEQUENCE_BOUND: bytes an unfinished CSI may hold
    PasteBound, \* RESUME_INPUT_BOUND: bytes of one bracketed paste
    MaxHeld     \* HELD_COMMAND_KEYS: keys the command mode may own at once

ASSUME BoundsAssumption ==
    /\ {OscBound, SeqBound, PasteBound} \subseteq Nat \ {0}
    /\ MaxHeld \in Nat

PASTE_START == <<"1b", "[", "200", "~">>
PASTE_END == <<"1b", "[", "201", "~">>
PAGE_UP == <<"1b", "[", "5", "~">>
PAGE_DOWN == <<"1b", "[", "6", "~">>

\* 0x40..=0x7e: the bytes that end a CSI or SS3 sequence.
Final(b) == b \in {"A", "I", "M", "m", "O", "u", "n", "x", "v", "c", "[", "]", "\\", "~"}
\* How many UTF-8 continuation bytes follow a byte, and what one looks like.
Utf8Tail(b) == CASE b = "c2" -> 1 [] b = "e2" -> 2 [] OTHER -> 0
Continues(b) == b \in {"80", "9b", "9c", "9d"}

NewCodec ==
    [pending |-> <<>>, paste |-> FALSE, osc |-> FALSE, oscTail |-> 0, csi |-> FALSE,
     tail |-> 0]

Event(kind, bytes) == [kind |-> kind, bytes |-> bytes]
Ignored(bytes) == Event("ignored", bytes)
\* push_host_bytes: a byte of its own, or the Ctrl-C that copies a selection.
HostByte(b) == IF b = "03" THEN Event("ctrlc", <<b>>) ELSE Event("bytes", <<b>>)

\* A turn of the loop in feed: wait for more bytes, fail, or go on with the events.
Wait(c) == [next |-> "wait", codec |-> c, events |-> <<>>]
Overflow(c) == [next |-> "overflow", codec |-> c, events |-> <<>>]
Go(c, es) == [next |-> "go", codec |-> c, events |-> es]

\* Takes the first n pending bytes as one event of a kind.
Take(c, n, kind) ==
    Go([c EXCEPT !.pending = SubSeq(@, n + 1, Len(@))],
       <<Event(kind, SubSeq(c.pending, 1, n))>>)

\* The least index of a sequence from a position on with a property, 0 if none.
FirstFrom(s, from, P(_)) ==
    LET at == {i \in from..Len(s) : P(i)} IN
    IF at = {} THEN 0 ELSE CHOOSE i \in at : \A j \in at : i <= j

\* A bracketed paste is held until its end marker and is then one event.
PasteTurn(c) ==
    LET s == c.pending
        at == FirstFrom(s, 1, LAMBDA i : IsPrefix(PASTE_END, SubSeq(s, i, Len(s))))
        end == at + Len(PASTE_END) - 1
    IN IF at # 0
       THEN IF end > PasteBound THEN Overflow(c)
            ELSE Take([c EXCEPT !.paste = FALSE], end, "paste")
       ELSE IF Len(s) > PasteBound THEN Overflow(c) ELSE Wait(c)

\* The rest of an overlong colour report is dropped up to its final byte.
CsiDiscardTurn(c) ==
    LET s == c.pending
        end == FirstFrom(s, 1, LAMBDA i : Final(s[i]))
        count == IF end = 0 THEN Len(s) ELSE end
    IN Go([c EXCEPT !.pending = SubSeq(s, count + 1, Len(s)), !.csi = end = 0],
          <<Ignored(SubSeq(s, 1, count))>>)

OscPrefix(s) ==
    IF IsPrefix(<<"1b", "]">>, s) THEN 2 ELSE IF Head(s) = "9d" THEN 1 ELSE 0

\* Scans an OSC from index i: [end, length] of its terminator (end = 0: none),
\* and the UTF-8 tail open at the end of what was scanned.
RECURSIVE OscScan(_, _, _)
OscScan(s, i, tail) ==
    IF i > Len(s) THEN [end |-> 0, length |-> 0, tail |-> tail]
    ELSE IF tail # 0 /\ Continues(s[i]) THEN OscScan(s, i + 1, tail - 1)
    ELSE IF s[i] \in {"07", "9c", "18"} THEN [end |-> i, length |-> 1, tail |-> 0]
    ELSE IF s[i] = "1b" /\ i < Len(s) /\ s[i + 1] = "\\"
    THEN [end |-> i, length |-> 2, tail |-> 0]
    ELSE OscScan(s, i + 1, Utf8Tail(s[i]))

\* host_colors::osc_replies: the colour replies it names, or something to ignore.
OscReply(body) == IF Len(body) > 1 /\ body[1] \in {"11", "4"} THEN "color" ELSE "ignored"

\* Mutant of OscTurn: an overlong OSC is discarded with the escape byte that may be
\* the first half of its terminator.
OscTurnForgets(c) ==
    LET s == c.pending
        start == IF c.osc THEN 0 ELSE OscPrefix(s)
        scan == OscScan(s, start + 1, IF c.osc THEN c.oscTail ELSE 0)
        count == scan.end + scan.length - 1
    IN IF scan.end # 0
       THEN Go([c EXCEPT !.pending = SubSeq(s, count + 1, Len(s)), !.osc = FALSE,
                         !.oscTail = 0],
               <<Event(IF c.osc \/ count > OscBound \/ s[scan.end] = "18" THEN "ignored"
                       ELSE OscReply(SubSeq(s, start + 1, scan.end - 1)),
                       SubSeq(s, 1, count))>>)
       ELSE IF Len(s) > OscBound
       THEN [next |-> "wait",
             codec |-> [c EXCEPT !.pending = <<>>, !.osc = TRUE, !.oscTail = scan.tail],
             events |-> <<Ignored(s)>>]
       ELSE Wait(c)

\* An OSC waits for its terminator; past the bound it is discarded as it arrives,
\* keeping an escape byte that may be the first half of the terminator.
OscTurn(c) ==
    LET s == c.pending
        start == IF c.osc THEN 0 ELSE OscPrefix(s)
        scan == OscScan(s, start + 1, IF c.osc THEN c.oscTail ELSE 0)
        count == scan.end + scan.length - 1
        keep == IF s[Len(s)] = "1b" THEN 1 ELSE 0
        drop == Len(s) - keep
    IN IF scan.end # 0
       THEN Go([c EXCEPT !.pending = SubSeq(s, count + 1, Len(s)), !.osc = FALSE,
                         !.oscTail = 0],
               <<Event(IF c.osc \/ count > OscBound \/ s[scan.end] = "18" THEN "ignored"
                       ELSE OscReply(SubSeq(s, start + 1, scan.end - 1)),
                       SubSeq(s, 1, count))>>)
       ELSE IF Len(s) > OscBound
       THEN [next |-> "wait",
             codec |-> [c EXCEPT !.pending = SubSeq(s, drop + 1, Len(s)), !.osc = TRUE,
                                 !.oscTail = scan.tail],
             events |-> <<Ignored(SubSeq(s, 1, drop))>>]
       ELSE Wait(c)

\* host_colors: what a complete CSI means, if it is a reply of the local terminal.
ColorCsi(s) == IsPrefix(<<"1b", "[", "?997">>, s) \/ IsPrefix(<<"9b", "?997">>, s)
CsiReply(raw) ==
    IF raw \in {<<"1b", "[", "0", "n">>, <<"9b", "0", "n">>} THEN "fence"
    ELSE IF ~ColorCsi(raw) THEN "none"
    ELSE IF raw[Len(raw)] = "n" /\ raw[Len(raw) - 1] \in {"1", "2"} /\ Len(raw) <= 6
    THEN "appearance" ELSE "ignored"

\* EnhancedKey::parse: CSI code ; modifiers : kind u, and the ~ and letter forms.
IsKey(raw) ==
    /\ IsPrefix(<<"1b", "[">>, raw)
    /\ Len(raw) > 2
    /\ \/ raw[Len(raw)] = "u" /\ Len(raw) > 3 /\ raw[3] \in {"93", "46", "120", "57442"}
       \/ raw[Len(raw)] = "~" /\ Len(raw) > 3 /\ raw[3] \in {"5", "6"}
       \/ raw[Len(raw)] = "A" /\ (Len(raw) = 3 \/ raw[3] = "1")
KeyOf(raw) ==
    [id |-> IF raw[Len(raw)] = "A" THEN "up" ELSE raw[3],
     control |-> Len(raw) > 5 /\ raw[5] = "5",
     kind |-> IF Len(raw) < 8 THEN "press"
              ELSE CASE raw[7] = "2" -> "repeat" [] raw[7] = "3" -> "release"
                     [] OTHER -> "press"]

\* A complete CSI or SS3 sequence is classified; an incomplete one is awaited up to
\* the bound, past which a colour report is discarded and anything else is text.
CsiKind(raw) ==
    IF CsiReply(raw) # "none" THEN CsiReply(raw)
    ELSE IF raw \in {<<"1b", "[", "I">>, <<"1b", "[", "O">>, <<"9b", "I">>, <<"9b", "O">>}
    THEN "focus"
    ELSE IF IsKey(raw) THEN "key" ELSE "opaque"

StartsCsi(s) == IsPrefix(<<"1b", "[">>, s) \/ IsPrefix(<<"1b", "O">>, s) \/ Head(s) = "9b"
CsiEnd(s) ==
    FirstFrom(s, IF Head(s) = "9b" THEN 2 ELSE 3, LAMBDA i : Final(s[i]))

MouseEnd(s) == FirstFrom(s, 1, LAMBDA i : s[i] \in {"M", "m"})
\* SgrMouse::parse: a report with three fields, none of them zero.
MouseKind(raw) == IF Len(raw) = 5 /\ raw[4] = "p" THEN "mouse" ELSE "opaque"

\* known_host_prefix: what is pending may still become a sequence of its own.
KnownPrefix(s) ==
    \E w \in {PAGE_UP, PAGE_DOWN, PASTE_START, <<"1b", "[", "<">>} : IsPrefix(s, w)

\* A legacy Alt key is one unit with its UTF-8 bytes.
AltLength(b) == CASE b = "O" -> 3 [] b = "c2" -> 3 [] b = "e2" -> 4 [] OTHER -> 2

PlainTurn(c) ==
    LET b == Head(c.pending) IN
    Go([c EXCEPT !.pending = Tail(@), !.tail = Utf8Tail(b)], <<HostByte(b)>>)

AltTurn(c) ==
    LET length == AltLength(c.pending[2]) IN
    IF Len(c.pending) < length THEN Wait(c) ELSE Take(c, length, "opaque")

\* What no sequence claims: the start of one, a legacy Alt key, or a byte of text.
TextTurn(c) ==
    IF KnownPrefix(c.pending) THEN Wait(c)
    ELSE IF Head(c.pending) = "1b" /\ ~IsPrefix(<<"1b", "[">>, c.pending) THEN AltTurn(c)
    ELSE PlainTurn(c)

\* A CSI or SS3 that is not complete: awaited, discarded, or (past the bound) text.
CsiTurn(c) ==
    LET s == c.pending IN
    IF CsiEnd(s) # 0 THEN Take(c, CsiEnd(s), CsiKind(SubSeq(s, 1, CsiEnd(s))))
    ELSE IF Len(s) < SeqBound THEN Wait(c)
    ELSE IF ColorCsi(s)
    THEN [next |-> "wait", codec |-> [c EXCEPT !.pending = <<>>, !.csi = TRUE],
          events |-> <<Ignored(s)>>]
    ELSE TextTurn(c)

\* A mouse report is awaited up to the bound, past which it is any other CSI.
MouseTurn(c) ==
    LET end == MouseEnd(c.pending) IN
    IF end # 0 THEN Take(c, end, MouseKind(SubSeq(c.pending, 1, end)))
    ELSE IF Len(c.pending) < SeqBound THEN Wait(c)
    ELSE CsiTurn(c)

\* One turn of the loop in feed, the alternatives in the order of the code. A C1
\* byte is a control only outside a UTF-8 character.
Turn(c) ==
    LET s == c.pending
        d == [c EXCEPT !.tail = 0]
    IN IF c.paste THEN PasteTurn(c)
       ELSE IF ~c.osc /\ ~c.csi /\ IsPrefix(PASTE_START, s)
       THEN Go([c EXCEPT !.paste = TRUE], <<>>)
       ELSE IF c.csi THEN CsiDiscardTurn(c)
       ELSE IF c.tail # 0 /\ Continues(Head(s))
       THEN Go([c EXCEPT !.pending = Tail(@), !.tail = @ - 1], <<HostByte(Head(s))>>)
       ELSE IF OscPrefix(s) # 0 \/ c.osc THEN OscTurn(d)
       ELSE IF IsPrefix(PAGE_UP, s) \/ IsPrefix(PAGE_DOWN, s) THEN Take(d, 4, "page")
       ELSE IF IsPrefix(<<"1b", "[", "<">>, s) THEN MouseTurn(d)
       ELSE IF StartsCsi(s) THEN CsiTurn(d)
       ELSE TextTurn(d)

\* feed: turns until the codec waits, fails or has nothing pending.
RECURSIVE Turns(_, _)
Turns(c, events) ==
    IF c.pending = <<>> THEN [codec |-> c, events |-> events, ok |-> TRUE]
    ELSE LET t == Turn(c) IN
         IF t.next = "go" THEN Turns(t.codec, events \o t.events)
         ELSE [codec |-> t.codec, events |-> events \o t.events, ok |-> t.next = "wait"]
Feed(c, bytes) == Turns([c EXCEPT !.pending = @ \o bytes], <<>>)

\* Nothing of an earlier chunk is still being collected or skipped.
Settled(c) == c.pending = <<>> /\ c.tail = 0 /\ ~c.osc /\ ~c.csi

-----------------------------------------------------------------------------
(* CommandMode *)

\* pending: a prefix waits for its letter (pending_deadline); owned: keys whose
\* release is local; tail: UTF-8 bytes left of a key the mode cancelled.
NewPrefix == [pending |-> FALSE, owned |-> {}, tail |-> 0, failed |-> FALSE]

\* KeyIdentity::from_legacy: the key a legacy byte stands for.
LegacyId(b) ==
    CASE b = "1d" -> "93" [] b = "." -> "46" [] b = "x" -> "120" [] b = "03" -> "99"
      [] b \in {"v", "c"} -> b [] OTHER -> "none"
LegacyKey(b) == [id |-> LegacyId(b), control |-> b \in {"1d", "03"}, kind |-> "press"]

IsPrefixKey(k) == k.id = "93" /\ k.control
\* BINDINGS: the letters after the prefix that are commands.
Bound(k) == k.id \in {"46", "v", "c"} /\ ~k.control
IsModifier(k) == k.id = "57442"

Routed(p, to) == [prefix |-> p, to |-> to]

\* Mutant of Own: the key is not owned, so its release is not.
OwnNothing(p, k, report, to) == Routed(p, to)

\* own: remembers a key taken locally while the terminal reports releases.
Own(p, k, report, to) ==
    IF ~report \/ k.id = "none" THEN Routed(p, to)
    ELSE IF Cardinality(p.owned) = MaxHeld THEN Routed([p EXCEPT !.failed = TRUE], "error")
    ELSE Routed([p EXCEPT !.owned = @ \cup {k.id}], to)

\* The part of CommandMode::key that a press reaches.
Press(p, k, report) ==
    LET q == [p EXCEPT !.pending = FALSE] IN
    IF p.pending
    THEN IF IsPrefixKey(k) THEN Routed(q, "child")
         ELSE Own(q, k, report, IF Bound(k) THEN "command" ELSE "local")
    ELSE IF IsPrefixKey(k) THEN Own([p EXCEPT !.pending = TRUE], k, report, "local")
    ELSE Routed(p, "child")

\* CommandMode::key for an enhanced key: repeats and the release of an owned key stay
\* local; other modifiers, repeats and releases keep the owner of their press.
EnhancedKey(p, k, report) ==
    LET owns == k.id \in p.owned
        q == IF owns /\ k.kind # "repeat" THEN [p EXCEPT !.owned = @ \ {k.id}] ELSE p
    IN IF owns /\ k.kind # "press" THEN Routed(q, "local")
       ELSE IF IsModifier(k) \/ k.kind # "press" THEN Routed(q, "child")
       ELSE Press(q, k, report)

\* CommandMode::key for a legacy byte.
LegacyPress(p, b, report) ==
    Press([p EXCEPT !.owned = @ \ {LegacyId(b)}], LegacyKey(b), report)

\* CommandMode::feed, a byte at a time: the UTF-8 rest of a cancelled key goes with it.
LegacyByte(p, b, report) ==
    IF p.tail # 0 /\ Continues(b) THEN Routed([p EXCEPT !.tail = @ - 1], "local")
    ELSE LET r == LegacyPress([p EXCEPT !.tail = 0], b, report) IN
         IF r.to = "local" THEN Routed([r.prefix EXCEPT !.tail = Utf8Tail(b)], "local")
         ELSE r

\* CommandMode::route: where an event goes.
Route(p, e, report) ==
    CASE e.kind \in {"ignored", "color", "fence", "appearance"} -> Routed(p, "reply")
      [] e.kind = "focus" -> Routed(p, "child")
      [] e.kind = "bytes" -> LegacyByte(p, e.bytes[1], report)
      [] e.kind = "ctrlc" -> LegacyPress(p, "03", report)
      [] e.kind \in {"key", "page"} -> EnhancedKey(p, KeyOf(e.bytes), report)
      [] e.kind = "opaque" ->
         Routed([p EXCEPT !.pending = FALSE], IF p.pending THEN "local" ELSE "child")
      [] e.kind \in {"paste", "mouse"} -> Routed([p EXCEPT !.pending = FALSE], "child")

\* Every event of a chunk in order, until a command mode that owns too many keys fails.
RouteAll(p, events, report) ==
    FoldLeft(LAMBDA acc, e :
                 IF acc.prefix.failed THEN acc
                 ELSE LET r == Route(acc.prefix, e, report) IN
                      [prefix |-> r.prefix,
                       out |-> Append(acc.out, [to |-> r.to, event |-> e])],
             [prefix |-> p, out |-> <<>>], events)
=============================================================================
