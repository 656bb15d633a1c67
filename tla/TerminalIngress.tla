-------------------------- MODULE TerminalIngress --------------------------
(***************************************************************************)
(* The policy between a PTY and the terminal engine (ingress.rs): it       *)
(* frames every escape sequence itself, answers the queries, keeps the     *)
(* modes and strings it owns, and hands the rest, one complete sequence at *)
(* a time, to the upstream parser, which frames the bytes once more.       *)
(* A byte is a model token; a number is one token.                         *)
(***************************************************************************)
EXTENDS Naturals, Sequences, SequencesExt

CONSTANTS Alphabets,     \* the tokens a program writes, by scenario
          MaxSequence,   \* MAX_CONTROL_SEQUENCE_BYTES
          MaxString,     \* MAX_CONTROL_STRING_BYTES
          MaxClipboard,  \* MAX_OSC52_BASE64_BYTES
          MaxEvents,     \* MAX_SIDE_EVENTS_PER_UPDATE
          MaxReplies,    \* MAX_REPLY_BYTES_PER_UPDATE, in replies
          MaxBurst       \* bound: events of one ingest

VARIABLES policy,  \* TerminalIngressPolicy
          engine,  \* the upstream parser, and what it was made to do
          out,     \* the UpdateCollector of the current ingest
          model,   \* TerminalModel's batch; what was reported
          alphabet

vars == <<policy, engine, out, model, alphabet>>

-----------------------------------------------------------------------------
(***************************************************************************)
(* Bytes.                                                                  *)
(***************************************************************************)
Numbers == {"1", "2", "4", "5", "6", "8", "9", "18", "52", "996", "1049", "2026", "2031"}
Markers == {"?", ">", "<", "="}
Intermediates == {"$", "#"}
HighBytes == {"CSI", "OSC", "ST", "LEAD", "CONT"}
Embedded == {"NUL", "BEL"}
Aborts == {"CAN"}
Finals == {"[", "]", "P", "_", "\\", "h", "l", "n", "c", "g", "p", "u", "b", "t", "m", "Q", "R"}
EscapeFinals == Finals \cup Numbers \cup Markers \cup {";"}

-----------------------------------------------------------------------------
(***************************************************************************)
(* External: the upstream parser, as ECMA-48 frames it, and the sequences  *)
(* that it would act on although the policy keeps them for itself.  A      *)
(* character cut between two calls, which it keeps in a buffer of its own, *)
(* frames nothing: the byte after it gives it up or completes it.  What is *)
(* printed of it is not part of this module.                               *)
(***************************************************************************)
RECURSIVE Fields(_)
Fields(body) ==
  IF body = <<>> THEN <<<<>>>>
  ELSE LET rest == Fields(Tail(body))
       IN IF Head(body) = ";" THEN <<<<>>>> \o rest
          ELSE <<<<Head(body)>> \o rest[1]>> \o Tail(rest)

Ordered(body) ==
  \A i, j \in 1..Len(body) :
    /\ (i < j /\ body[i] \in Intermediates) => body[j] \in Intermediates
    /\ body[j] \in Markers => j = 1

Kept(body, final) ==
  LET has(b) == \E i \in 1..Len(body) : body[i] = b
  IN \/ final \in {"c", "n", "t", "b"}
     \/ final = "u" /\ body = <<"?">>
     \/ final = "p" /\ has("$")
     \/ final \in {"P", "Q", "R"} /\ has("#")
     \/ /\ final \in {"h", "l"} /\ body # <<>>
        /\ body[1] = "?"
        /\ \E f \in Range(Fields(Tail(body))) : f \in {<<"5">>, <<"9">>, <<"2026">>, <<"2031">>}

UpstreamTakes(e, b) ==
  LET csi == e.at = "csi"
  IN IF e.at = "string" THEN e
     ELSE IF b \in Aborts THEN [e EXCEPT !.at = "ground", !.body = <<>>]
     ELSE IF b = "ESC" THEN [e EXCEPT !.at = "escape", !.body = <<>>]
     ELSE IF e.at = "ground" \/ b \in Embedded \cup HighBytes THEN e
     ELSE IF e.at = "escape" /\ e.body = <<>> /\ b = "[" THEN [e EXCEPT !.at = "csi"]
     ELSE IF e.at = "escape" /\ e.body = <<>> /\ b \in {"]", "P", "_"}
     THEN [e EXCEPT !.at = "string", !.seen = TRUE]
     ELSE IF (csi /\ b \in Finals) \/ (~csi /\ b \in EscapeFinals)
     THEN [e EXCEPT !.at = "ground", !.body = <<>>,
                    !.seen = @ \/ (csi /\ Ordered(e.body) /\ Kept(e.body, b))]
     ELSE [e EXCEPT !.body = Append(@, b)]

\* feed_raw.
Feed(s, bytes) == [s EXCEPT !.engine = FoldLeft(UpstreamTakes, @, bytes)]

-----------------------------------------------------------------------------
(***************************************************************************)
(* UpdateCollector.                                                        *)
(***************************************************************************)
NewOutput == [events |-> 0, dropped |-> 0, happened |-> 0, replies |-> 0]

Event(s) ==
  [s EXCEPT !.out.happened = @ + 1,
            !.out.events = IF @ < MaxEvents THEN @ + 1 ELSE @,
            !.out.dropped = IF s.out.events < MaxEvents THEN @ ELSE @ + 1]

Reply(s) ==
  IF s.failed THEN s
  ELSE IF s.out.replies + 1 > MaxReplies THEN [s EXCEPT !.failed = TRUE]
  ELSE [s EXCEPT !.out.replies = @ + 1]

\* Mutant: the event that makes room for the count is not counted.
ReportedUncounted(o) ==
  IF o.dropped = 0 THEN [kept |-> o.events, dropped |-> 0]
  ELSE [kept |-> IF o.events = MaxEvents THEN o.events - 1 ELSE o.events, dropped |-> o.dropped]

\* finish: the count takes the place of one event.
Reported(o) ==
  IF o.dropped = 0 THEN [kept |-> o.events, dropped |-> 0]
  ELSE IF o.events = MaxEvents THEN [kept |-> o.events - 1, dropped |-> o.dropped + 1]
  ELSE [kept |-> o.events, dropped |-> o.dropped]

-----------------------------------------------------------------------------
(***************************************************************************)
(* Sequence and ControlString.                                             *)
(***************************************************************************)
NewSequence(prefix) == [bytes |-> prefix, input |-> Len(prefix), over |-> FALSE]
Retains(q) == q.input < MaxSequence /\ ~q.over
Noted(q) == [q EXCEPT !.input = IF @ > MaxSequence THEN @ ELSE @ + 1, !.over = ~Retains(q)]
Pushed(q, b) ==
  [Noted(q) EXCEPT !.bytes = IF Retains(q) THEN Append(@, b) ELSE @]

NewString(kind) ==
  [kind |-> kind, bytes |-> <<>>, over |-> FALSE, escaped |-> FALSE,
   clipboard |-> FALSE, wants |-> FALSE]

\* A lead byte of the model wants one continuation.
Continues(t, b) == t.wants /\ b \in {"CONT", "ST", "CSI", "OSC"}
StringPushed(t, b) ==
  LET maximum == IF t.clipboard THEN MaxClipboard ELSE MaxString
      bytes == Append(t.bytes, b)
  IN IF Len(t.bytes) < maximum
     THEN [t EXCEPT !.wants = ~Continues(t, b) /\ b = "LEAD", !.bytes = bytes,
                    !.clipboard = @ \/ (t.kind = "osc" /\ bytes = <<"52", ";">>)]
     ELSE [t EXCEPT !.wants = ~Continues(t, b) /\ b = "LEAD", !.over = TRUE]

-----------------------------------------------------------------------------
(***************************************************************************)
(* Dispatch.                                                               *)
(***************************************************************************)
In(s, state) == [s EXCEPT !.policy.state = state]
Ground(s) == In(s, [at |-> "ground"])
InEscape(s, q) == In(s, [at |-> "escape", seq |-> q])
InCsi(s, q) == In(s, [at |-> "csi", seq |-> q])
InString(s, t) == In(s, [at |-> "string", str |-> t])

\* parse_parameters: <<>> when a field is not a number.
Parameters(body) ==
  LET bare == IF body # <<>> /\ Head(body) \in Markers THEN Tail(body) ELSE body
      fields == Fields(bare)
  IN IF bare = <<>> THEN <<<<>>>>
     ELSE IF \E i \in 1..Len(fields) : ~(Range(fields[i]) \subseteq Numbers) THEN <<>>
     ELSE <<[i \in 1..Len(fields) |->
               IF fields[i] = <<>> THEN "0"
               ELSE IF Len(fields[i]) = 1 THEN fields[i][1] ELSE "other"]>>
Marker(body) == IF body # <<>> /\ Head(body) \in Markers THEN Head(body) ELSE ""

\* print_character: accept_character may refuse a combining character, which
\* is never ASCII.
PrintCharacter(s, accepted) ==
  IF accepted THEN [Feed(s, <<"m">>) EXCEPT !.policy.prior = TRUE] ELSE Event(s)

\* dispatch_escape.
DispatchEscape(s, q) ==
  IF q.over THEN Event(s)
  ELSE IF q.bytes = <<"ESC", "g">> THEN Event(s)
  ELSE IF q.bytes = <<"ESC", "c">>
  THEN [Feed(s, q.bytes) EXCEPT !.policy.prior = FALSE, !.policy.sync = FALSE,
                                !.policy.boundary = <<[kind |-> "reset"]>>]
  ELSE Feed(s, q.bytes)

\* apply_private_modes: what the engine is handed is built anew.
ApplyPrivateModes(s, modes, enabled) ==
  LET own == {"5", "9", "2031"}
      handed == SelectSeq(modes, LAMBDA m : m \notin own)
  IN IF handed = <<>> THEN s
     ELSE Feed(s, <<"ESC", "[", "?">> \o handed \o <<IF enabled THEN "h" ELSE "l">>)

\* dispatch_keyboard_mode.
DispatchKeyboard(s, q, marker, parameters) ==
  LET bits == {"0", "1", "2", "4", "5", "6", "8", "9", "18"}
      few == IF parameters = <<>> THEN <<"other">> ELSE parameters[1]
  IN IF marker = "?" /\ few = <<>> THEN Reply(s)
     ELSE IF \/ marker \in {"=", ">"} /\ (few = <<>> \/ (Len(few) = 1 /\ few[1] \in bits))
             \/ marker = "=" /\ Len(few) = 2 /\ few[1] \in bits /\ few[2] \in {"0", "1", "2"}
             \/ marker = "<" /\ parameters # <<>> /\ Len(few) <= 1
     THEN Feed(s, q.bytes)
     ELSE Event(s)

\* A private mode list.  Mode 2026 stops the policy before its siblings.
SetsPrivateModes(s, parameters, enabled) ==
  IF parameters = <<>> THEN Event(s)
  ELSE IF \E i \in 1..Len(parameters[1]) : parameters[1][i] = "2026"
  THEN [s EXCEPT !.policy.sync = enabled,
                 !.policy.boundary = <<[kind |-> "batch", enabled |-> enabled,
                    modes |-> SelectSeq(parameters[1], LAMBDA m : m # "2026")]>>]
  ELSE ApplyPrivateModes(s, parameters[1], enabled)

RECURSIVE Times(_, _, _)
Times(Op(_), s, n) == IF n = 0 THEN s ELSE Times(Op, Op(s), n - 1)

\* dispatch_csi.
DispatchCsi(s, q) ==
  LET final == Last(q.bytes)
      body == SubSeq(q.bytes, 3, Len(q.bytes) - 1)
      marker == Marker(body)
      parameters == Parameters(body)
      is(list) == parameters = <<list>>
      bare == Front(body)
      several == Parameters(bare)
      count == IF several = <<>> THEN 0 ELSE Len(several[1])
  IN IF q.over \/ Len(q.bytes) < 3 THEN Event(s)
     ELSE IF body = <<"?", "996">> /\ final = "n" THEN Reply(s)
     ELSE IF final = "p" /\ body # <<>> /\ Last(body) = "$"
     THEN IF Marker(bare) \notin {"", "?"} THEN s ELSE Times(Reply, s, count)
     ELSE IF body # <<>> /\ Last(body) = "#" /\ final \in {"P", "Q", "R"}
     THEN IF final = "R" /\ body = <<"#">> THEN Reply(s) ELSE s
     ELSE IF final = "c" /\ marker = "" /\ (is(<<>>) \/ is(<<"0">>)) THEN Reply(s)
     ELSE IF final = "n"
     THEN IF (marker = "" /\ (is(<<"5">>) \/ is(<<"6">>))) \/ (marker = "?" /\ is(<<"6">>))
          THEN Reply(s) ELSE Event(s)
     ELSE IF final = "t"
     THEN IF body = <<"18">> THEN Reply(s) ELSE Event(s)
     ELSE IF final = "u"
     THEN IF body = <<>> THEN Feed(s, q.bytes) ELSE DispatchKeyboard(s, q, marker, parameters)
     ELSE IF final = "b"
     THEN IF marker = "" /\ (is(<<>>) \/ (parameters # <<>> /\ Len(parameters[1]) = 1))
          THEN IF s.policy.prior THEN PrintCharacter(s, TRUE) ELSE s
          ELSE Event(s)
     ELSE IF final \in {"h", "l"} /\ marker = "?" THEN SetsPrivateModes(s, parameters, final = "h")
     ELSE IF final = "c" \/ \E i \in 1..Len(body) : body[i] = "$" THEN Event(s)
     ELSE Feed(s, q.bytes)

\* dispatch_clipboard.
DispatchClipboard(s, payload) ==
  LET fields == Fields(payload)
  IN IF fields = <<<<"c">>, <<"m">>>> THEN s ELSE Event(s)

\* dispatch_string: a string that is not for the policy, or too long, is
\* dropped whole.  What a link, a title, a notification or a copy does is not
\* part of this module.
DispatchString(s, t) ==
  LET text == "LEAD" \notin Range(t.bytes) /\ "CONT" \notin Range(t.bytes)
      fields == Fields(t.bytes)
      command == fields[1]
      payload == IF Len(fields) > 1 THEN SubSeq(t.bytes, Len(command) + 2, Len(t.bytes)) ELSE <<>>
  IN IF t.over THEN Event(s)
     ELSE IF t.kind = "dcs" /\ text /\ IsPrefix(<<"$", "m">>, t.bytes) THEN Reply(s)
     ELSE IF t.kind # "osc" THEN Event(s)
     ELSE IF text /\ command = <<"4">> THEN Reply(s)
     ELSE IF command = <<"8">>
     THEN IF text /\ Len(payload) >= 2 THEN s ELSE Event(s)
     ELSE IF command \in {<<"1">>, <<"2">>} THEN Event(s)
     ELSE IF command = <<"9">>
     THEN IF text /\ payload \notin {<<>>, <<"4">>} /\ Head(payload) \notin Numbers THEN s ELSE Event(s)
     ELSE IF command = <<"52">> THEN DispatchClipboard(s, payload)
     ELSE Event(s)

-----------------------------------------------------------------------------
(***************************************************************************)
(* process_byte.                                                           *)
(***************************************************************************)
\* c1_introducer.
Introduced(s, b) ==
  IF b = "CSI" THEN InCsi(s, NewSequence(<<"ESC", "[">>)) ELSE InString(s, NewString("osc"))
Introducers == {"CSI", "OSC"}

\* dispatch_embedded_control.
Control(s, b) == IF b = "BEL" THEN Event(s) ELSE Feed(s, <<b>>)

\* flush_partial_utf8.
Flushed(s) ==
  IF s.policy.utf8 = <<>> THEN s
  ELSE [Feed(s, s.policy.utf8) EXCEPT !.policy.utf8 = <<>>, !.policy.prior = FALSE]

\* drain_utf8: a lead byte waits for its continuation.  An invalid byte goes
\* to the engine, which shows it as a replacement.
Drained(s, b, accepted) ==
  IF s.policy.utf8 = <<>>
  THEN IF b = "LEAD" THEN [s EXCEPT !.policy.utf8 = <<b>>]
       ELSE [Feed(s, <<b>>) EXCEPT !.policy.prior = FALSE]
  ELSE IF b \in HighBytes \ {"LEAD"}
  THEN PrintCharacter([s EXCEPT !.policy.utf8 = <<>>], accepted)
  ELSE IF b = "LEAD" THEN [Flushed(s) EXCEPT !.policy.utf8 = <<b>>]
  ELSE PrintCharacter(Flushed(s), accepted)

ProcessGround(s, b, accepted) ==
  IF b = "ESC" THEN InEscape(Flushed(s), NewSequence(<<"ESC">>))
  ELSE IF s.policy.utf8 = <<>> /\ b \in Introducers THEN Introduced(s, b)
  ELSE IF b \in Embedded \cup Aborts THEN Control(Flushed(s), b)
  ELSE IF b \notin HighBytes /\ s.policy.utf8 = <<>> THEN PrintCharacter(s, accepted)
  ELSE Drained(s, b, accepted)

\* What interrupts an escape or control sequence, in whichever state.
Interrupts == {"ESC"} \cup Aborts \cup Introducers
Interrupted(s, b) ==
  IF b \in Aborts THEN Ground(s)
  ELSE IF b = "ESC" THEN InEscape(s, NewSequence(<<"ESC">>))
  ELSE Introduced(s, b)

\* A byte that is not part of the sequence it is found in.
Beside(s, b, noted) ==
  IF ~Retains(s.policy.state.seq) THEN noted
  ELSE IF b \in Embedded THEN Control(noted, b) ELSE Event(noted)

\* Mutant: an escape goes on with the sequence that it interrupts.
ProcessEscapeNested(s, b) ==
  LET q == s.policy.state.seq
      pushed == Pushed(q, b)
      ends == Ground(DispatchEscape(s, pushed))
  IN IF b \in Interrupts \ {"ESC"} THEN Interrupted(s, b)
     ELSE IF b \in Embedded \cup HighBytes THEN Beside(s, b, InEscape(s, Noted(q)))
     ELSE IF Len(q.bytes) = 1 /\ ~q.over /\ b = "[" THEN InCsi(s, pushed)
     ELSE IF Len(q.bytes) = 1 /\ ~q.over /\ b \in {"]", "P", "_"}
     THEN InString(s, NewString(CASE b = "]" -> "osc" [] b = "P" -> "dcs" [] b = "_" -> "apc"))
     ELSE IF b \in EscapeFinals THEN ends ELSE InEscape(s, pushed)

ProcessEscape(s, b) ==
  LET q == s.policy.state.seq
      pushed == Pushed(q, b)
      ends == Ground(DispatchEscape(s, pushed))
  IN IF b \in Interrupts THEN Interrupted(s, b)
     ELSE IF b \in Embedded \cup HighBytes THEN Beside(s, b, InEscape(s, Noted(q)))
     ELSE IF Len(q.bytes) = 1 /\ ~q.over /\ b = "[" THEN InCsi(s, pushed)
     ELSE IF Len(q.bytes) = 1 /\ ~q.over /\ b \in {"]", "P", "_"}
     THEN InString(s, NewString(CASE b = "]" -> "osc" [] b = "P" -> "dcs" [] b = "_" -> "apc"))
     ELSE IF b \in EscapeFinals THEN ends ELSE InEscape(s, pushed)

ProcessCsi(s, b) ==
  LET q == s.policy.state.seq
      pushed == Pushed(q, b)
  IN IF b \in Interrupts THEN Interrupted(s, b)
     ELSE IF b \in Embedded \cup HighBytes THEN Beside(s, b, InCsi(s, Noted(q)))
     ELSE IF b \in Finals THEN DispatchCsi(Ground(s), pushed) ELSE InCsi(s, pushed)

\* A string ends at BEL or ST; the C1 form of ST may be part of a character.
ProcessString(s, b) ==
  LET t == s.policy.state.str
      resumed == IF t.escaped THEN [StringPushed(t, "ESC") EXCEPT !.escaped = FALSE] ELSE t
  IN IF b \in Aborts THEN Ground(s)
     ELSE IF \/ b = "ST" /\ (t.escaped \/ ~Continues(t, b))
             \/ b = "BEL" /\ t.kind = "osc"
             \/ b = "\\" /\ t.escaped
     THEN DispatchString(Ground(s), t)
     ELSE IF b = "ESC" THEN InString(s, [resumed EXCEPT !.escaped = TRUE])
     ELSE InString(s, StringPushed(resumed, b))

ProcessByte(s, b, accepted) ==
  CASE s.policy.state.at = "ground" -> ProcessGround(s, b, accepted)
    [] s.policy.state.at = "escape" -> ProcessEscape(s, b)
    [] s.policy.state.at = "csi" -> ProcessCsi(s, b)
    [] s.policy.state.at = "string" -> ProcessString(s, b)

-----------------------------------------------------------------------------
Init ==
  /\ policy = [state |-> [at |-> "ground"], utf8 |-> <<>>, prior |-> FALSE,
               boundary |-> <<>>, sync |-> FALSE]
  /\ engine = [at |-> "ground", body |-> <<>>, seen |-> FALSE]
  /\ out = NewOutput /\ alphabet \in Alphabets
  /\ model = [held |-> FALSE, failed |-> FALSE, accounted |-> TRUE]

\* ingest_observing at a boundary: a batch begins or ends with its sibling
\* modes; a reset ends one.
Bounded(s) ==
  LET at == s.policy.boundary[1]
      taken == [s EXCEPT !.policy.boundary = <<>>]
      applied == ApplyPrivateModes(taken, at.modes, at.enabled)
  IN IF s.policy.boundary = <<>> THEN s
     ELSE IF at.kind = "reset"
     THEN [taken EXCEPT !.held = FALSE, !.policy.sync = FALSE]
     ELSE IF at.enabled THEN [applied EXCEPT !.held = TRUE]
     ELSE [applied EXCEPT !.held = FALSE, !.policy.sync = FALSE]

\* process_until_boundary over one byte.
Ingests ==
  /\ ~model.failed /\ out.happened < MaxBurst
  /\ \E b \in alphabet : \E accepted \in IF b \in HighBytes THEN BOOLEAN ELSE {TRUE} :
       LET s == [policy |-> policy, engine |-> engine, out |-> out, failed |-> FALSE,
                 held |-> model.held]
           next == Bounded(ProcessByte(s, b, accepted))
       IN /\ policy' = next.policy /\ engine' = next.engine /\ out' = next.out
          /\ model' = [model EXCEPT !.held = next.held, !.failed = next.failed]
  /\ UNCHANGED alphabet

\* The ingest ends and reports.
Reports ==
  /\ ~model.failed /\ out # NewOutput
  /\ LET told == Reported(out)
     IN model' = [model EXCEPT !.accounted = (told.kept + told.dropped = out.happened)]
  /\ out' = NewOutput
  /\ UNCHANGED <<policy, engine, alphabet>>

\* Mutant: the policy is not told.
ReleasesAlone ==
  /\ model.held
  /\ model' = [model EXCEPT !.held = FALSE]
  /\ UNCHANGED <<policy, engine, out, alphabet>>

\* finish_synchronized_output: a batch expires, or ends with a resize.
Releases ==
  /\ model.held
  /\ model' = [model EXCEPT !.held = FALSE]
  /\ policy' = [policy EXCEPT !.sync = FALSE]
  /\ UNCHANGED <<engine, out, alphabet>>

Next == Ingests \/ Reports \/ Releases

Spec == Init /\ [][Next]_vars

-----------------------------------------------------------------------------
\* The policy and the upstream parser frame the same bytes: between two bytes
\* the engine is never left inside a sequence, whatever was nested, aborted
\* or too long, and it never acts on a string, a query or a mode that the
\* policy answers or keeps itself.
Mediated == engine.at = "ground" /\ ~engine.seen

\* What DECRQM answers for mode 2026 is whether the model is holding a batch,
\* over nested batches, resets, expiry and resizes.
SyncAgrees == policy.sync = model.held

\* An update that had to drop events says how many it does not show.
EventsAccounted == model.accounted
====
