------------------------------ MODULE HostInput ------------------------------
(***************************************************************************)
(* The byte stream of the local terminal meets the codec and the command   *)
(* mode in chunks that the kernel cuts wherever it likes.                  *)
(***************************************************************************)
EXTENDS HostInputCodec

CONSTANTS
    Streams,    \* the byte streams the terminal may send
    MaxChunk    \* the longest chunk short of all that is left

VARIABLES
    stream,     \* what the terminal sends, and how much of it has been read
    read,
    report,     \* the outer terminal reports key releases
    codec,
    prefix,
    out,        \* every event and where it went
    expired,    \* the prefix timed out at least once
    failed      \* the view ended with an error

vars == <<stream, read, report, codec, prefix, out, expired, failed>>

Init ==
    /\ stream \in Streams
    /\ report \in BOOLEAN
    /\ read = 0 /\ codec = NewCodec /\ prefix = NewPrefix
    /\ out = <<>> /\ expired = FALSE /\ failed = FALSE

\* One chunk: feed, then route every event of it.
Chunk ==
    /\ ~failed
    /\ \E n \in (1..(Len(stream) - read)) \cap (1..MaxChunk \cup {Len(stream) - read}) :
          LET f == Feed(codec, SubSeq(stream, read + 1, read + n))
              r == RouteAll(prefix, f.events, report)
          IN /\ read' = read + n
             /\ failed' = (~f.ok \/ r.prefix.failed)
             /\ codec' = f.codec
             /\ prefix' = r.prefix
             /\ out' = IF f.ok THEN out \o r.out ELSE out
    /\ UNCHANGED <<stream, report, expired>>

\* The prefix waited CONTROL_PREFIX_TIMEOUT for its letter.
Expire ==
    /\ ~failed /\ prefix.pending
    /\ prefix' = [prefix EXCEPT !.pending = FALSE]
    /\ expired' = TRUE
    /\ UNCHANGED <<stream, read, report, codec, out, failed>>

Next == Chunk \/ Expire

Spec == Init /\ [][Next]_vars

-----------------------------------------------------------------------------
\* What the child and the commands got, without the boundaries of the events.
Flat(o) ==
    FoldLeft(LAMBDA acc, e :
                 IF e.to \in {"child", "command"}
                 THEN acc \o [i \in 1..Len(e.event.bytes) |-> <<e.to, e.event.bytes[i]>>]
                 ELSE acc,
             <<>>, o)

\* A sequence of the input, read in one chunk, that is longer than an unfinished one
\* may be, and that meets a prefix waiting for its letter. Read whole it cancels the
\* prefix as one event; cut past the bound it is text, of which the prefix consumes
\* the first byte or key only.
MeetsPrefix(events) ==
    \E i \in DOMAIN events :
        /\ events[i].kind \in {"key", "opaque", "mouse", "focus"}
        /\ Len(events[i].bytes) > SeqBound
        /\ RouteAll(NewPrefix, SubSeq(events, 1, i - 1), report).prefix.pending

\* Where the kernel cuts the byte stream does not matter: once all of it has been
\* read, the codec and the command mode are in the state one chunk would have left
\* them in, and the child and the local commands got exactly what it would have
\* given them (HostInputCodec::feed keeps every unfinished sequence, paste, OSC and
\* character across calls), but for an overlong sequence right after a prefix, whose
\* bytes reach the child or not with the cut.
SplitInvariant ==
    read = Len(stream) /\ ~expired =>
        LET f == Feed(NewCodec, stream)
            r == RouteAll(NewPrefix, f.events, report)
        IN IF f.ok /\ ~r.prefix.failed
           THEN /\ ~failed
                /\ codec = f.codec /\ prefix = r.prefix
                /\ MeetsPrefix(f.events) \/ Flat(out) = Flat(r.out)
           ELSE failed

\* A key event of the log with its key, kind and receiver; a legacy byte is a press.
KeyLog ==
    LET keys == SelectSeq(out, LAMBDA e : e.event.kind \in {"key", "bytes", "page"})
    IN [i \in 1..Len(keys) |->
           [to |-> keys[i].to,
            key |-> IF keys[i].event.kind = "bytes" THEN LegacyKey(keys[i].event.bytes[1])
                    ELSE KeyOf(keys[i].event.bytes)]]

\* Whoever got a key's press gets its release: the child never sees the release of a
\* key that a local command consumed, and never misses the release of one it saw
\* (owned_keys), whatever other keys, timeouts and chunks come between.
ReleaseFollowsPress ==
    LET log == KeyLog IN
    report =>
        \A j \in DOMAIN log : \A i \in 1..(j - 1) :
            (/\ log[i].key.id = log[j].key.id
             /\ log[i].key.kind = "press" /\ log[j].key.kind = "release"
             /\ \A m \in (i + 1)..(j - 1) : log[m].key.id # log[i].key.id
                                            \/ log[m].key.kind = "repeat")
            => ((log[i].to = "child") <=> (log[j].to = "child"))

=============================================================================
