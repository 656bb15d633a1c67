---------------------------- MODULE ViewClient ----------------------------
(***************************************************************************)
(* The controller's half of a remote terminal view: SessionClient          *)
(* (client/src/session.rs), which owns the stream and replaces it when it  *)
(* is lost, and the driver task (client/src/view.rs), which alternates     *)
(* between the frontend's commands, the client's next event and handing    *)
(* queued events to the frontend.  A command that arrives while the driver *)
(* waits inside the client cancels that wait, so a reconnection under way  *)
(* starts over.                                                            *)
(*                                                                         *)
(* Path and round-trip observations are presentation only and left out, as *)
(* are the host's notifications and clipboard writes.                      *)
(***************************************************************************)
EXTENDS AttachmentHost

CONSTANTS
  EventCapacity       \* TERMINAL_DRIVER_CAPACITY

VARIABLES
  client,    \* SessionClient
  driver,    \* run_terminal_driver
  inbox,     \* the event channel to the frontend
  commands   \* the frontend's submitted commands, not yet handled

clientVars == <<client, driver, inbox, commands>>

\* Events of the client, as the driver and the frontend see them.
StateEvent(s) == [k |-> "state", state |-> s]
GapEvent == [k |-> "history", gap |-> TRUE, rev |-> NoRevision, size |-> 0]
ErrorEvent(e) == [k |-> "error", kind |-> e]

ConnectedClient(r) ==
  [applied |-> r, received |-> 0, reported |-> 0, lost |-> FALSE, full |-> FALSE,
   events |-> <<>>, history |-> FALSE, takeover |-> FALSE,
   resume |-> "none", known |-> NoRevision, stray |-> FALSE]

(***************************************************************************)
(* Losing and replacing the stream.                                        *)
(***************************************************************************)
\* enter_reconnecting: everything tied to the old stream is dropped; a history
\* request without its answer is answered with a gap.
Disconnected(c) ==
  IF c.lost THEN c
  ELSE [c EXCEPT !.lost = TRUE, !.received = 0, !.reported = 0, !.history = FALSE,
                 !.takeover = FALSE, !.resume = "none",
                 !.events = (IF c.history THEN <<GapEvent>> ELSE <<>>)
                              \o <<StateEvent("reconnecting")>>]

\* The client drops its end: the host sees a clean end or an error.
ClientEndDropped(cut) ==
  [stream EXCEPT !.open = FALSE, !.down = <<>>, !.cut = IF @ = "no" THEN cut ELSE @]

\* A write succeeds, or fails because the stream is already lost or closed.
MayFail == stream.cut # "no"

Sent(m) == [stream EXCEPT !.up = IF stream.cut = "no" THEN Append(@, m) ELSE @]

\* send for a message that is never replayed: a loss enters reconnection and is
\* no error to the caller.
SendBestEffort(m, c) ==
  \E outcome \in {"sent"} \cup (IF MayFail THEN {"fin", "reset"} ELSE {}) :
    IF outcome = "sent" THEN stream' = Sent(m) /\ client' = c
    ELSE stream' = ClientEndDropped(outcome) /\ client' = Disconnected(c)

\* reconnect_remote_once asks with the revision the frontend has applied.
AskResume ==
  /\ driver.run = "running" /\ driver.pending = <<>>
  /\ client.lost /\ client.events = <<>> /\ client.resume = "none"
  /\ client' = [client EXCEPT !.resume = "asked",
                              !.known = IF client.full THEN NoRevision ELSE client.applied]
  /\ UNCHANGED <<hostVars, driver, inbox, commands>>

\* The host answers: not yet, no, or with the initial update of a new stream.
AnswerWait ==
  /\ client.resume = "asked" /\ ~ResumeOccupied /\ ResumeWaits /\ ~session.over
  /\ client' = [client EXCEPT !.resume = "none"]
  /\ UNCHANGED <<hostVars, driver, inbox, commands>>

AnswerNo ==
  /\ client.resume = "asked" /\ (ResumeOccupied \/ session.over)
  /\ client' = [client EXCEPT !.resume = "none"]
  /\ driver' = [driver EXCEPT !.stop = TRUE,
       !.pending = Append(@, ErrorEvent(IF session.over THEN "session_not_found"
                                                        ELSE "session_occupied"))]
  /\ UNCHANGED <<hostVars, inbox, commands>>

AnswerAttach ==
  /\ client.resume = "asked" /\ ~ResumeOccupied /\ ~ResumeWaits /\ ~session.over
  /\ \E initial \in ResumeUpdates(client.known) :
       AttachResumed([open |-> TRUE, cut |-> "no", up |-> <<>>, down |-> <<initial>>])
  /\ client' = [client EXCEPT !.resume = "answered"]
  /\ UNCHANGED <<driver, inbox, commands>>

\* A request that was written before its reconnection was cancelled reaches the
\* host late: it attaches on a stream nobody reads, or is refused.
StrayAttach ==
  /\ client.stray
  /\ client' = [client EXCEPT !.stray = FALSE]
  /\ IF ResumeOccupied \/ ResumeWaits \/ session.over THEN UNCHANGED hostVars
     ELSE \E cut \in {"fin", "reset"} :
            AttachResumed([open |-> FALSE, cut |-> cut, up |-> <<>>, down |-> <<>>])
  /\ UNCHANGED <<driver, inbox, commands>>

\* The initial update must continue what the frontend shows by now.
ResumeContinues(c, frame) == frame.k = "delta" => frame.from = c.applied

ResumeEvent(frame) ==
  IF frame.k = "delta"
    THEN [k |-> "delta", from |-> frame.from, rev |-> frame.rev, resume |-> TRUE]
    ELSE [k |-> "snapshot", rev |-> frame.rev, size |-> frame.size]

AcceptResume ==
  /\ client.resume = "answered" /\ stream.down # <<>>
  /\ stream' = [stream EXCEPT !.down = Tail(@)]
  /\ IF ResumeContinues(client, Head(stream.down))
       THEN /\ client' = [client EXCEPT !.resume = "none", !.lost = FALSE, !.full = FALSE,
                            !.history = FALSE, !.takeover = FALSE,
                            !.events = <<StateEvent("synchronizing"),
                                         ResumeEvent(Head(stream.down))>>]
            /\ UNCHANGED driver
       ELSE /\ client' = [client EXCEPT !.resume = "none"]
            /\ driver' = [driver EXCEPT !.stop = TRUE,
                                        !.pending = Append(@, ErrorEvent("malformed"))]
  /\ UNCHANGED <<session, attach, host, inbox, commands>>

\* The new stream is lost before its initial update arrives: ask again.
ResumeLost ==
  /\ client.resume = "answered" /\ stream.cut # "no"
  /\ client' = [client EXCEPT !.resume = "none"]
  /\ stream' = ClientEndDropped("reset")
  /\ UNCHANGED <<session, attach, host, driver, inbox, commands>>

Reconnect ==
  \/ AskResume \/ AnswerWait \/ AnswerNo \/ AnswerAttach \/ StrayAttach
  \/ AcceptResume \/ ResumeLost

(***************************************************************************)
(* The driver: queue_local_attachment_event.                               *)
(***************************************************************************)
IdleDriver(state, takeover) ==
  [run |-> "running", stop |-> FALSE, pending |-> <<StateEvent(state)>>, last |-> state,
   takeover |-> takeover]

Announce(d, s) ==
  IF d.last = s THEN d
  ELSE [d EXCEPT !.last = s, !.pending = Append(@, StateEvent(s))]

RequiresSynchronizing(e) ==
  e.k \in {"snapshot", "sync"} \/ (e.k = "delta" /\ e.resume)

Queued(d, e) ==
  IF e.k = "taken"
    THEN IF d.takeover THEN [d EXCEPT !.takeover = FALSE, !.last = "active",
                                      !.pending = Append(@, StateEvent("active"))]
                       ELSE d
  ELSE IF e.k = "state" THEN Announce(d, e.state)
  ELSE LET ready == IF RequiresSynchronizing(e) THEN Announce(d, "synchronizing") ELSE d
       IN [ready EXCEPT !.pending = Append(@, e),
                        !.stop = @ \/ e.k \in {"lost", "ended", "error"}]

Reading == driver.run = "running" /\ driver.pending = <<>>

\* An event the client kept for itself.
ReadKept ==
  /\ Reading /\ client.resume = "none" /\ client.events # <<>>
  /\ client' = [client EXCEPT !.events = Tail(@)]
  /\ driver' = Queued(driver, Head(client.events))
  /\ UNCHANGED <<hostVars, inbox, commands>>

(***************************************************************************)
(* read_next_event_inner on the client's current stream.                   *)
(***************************************************************************)
Consecutive(f) == f.seq = 0 \/ f.seq = client.received + 1

FrameMalformed(f) ==
  \/ f.k \in {"snapshot", "delta"} /\ ~Consecutive(f)
  \/ f.k = "history" /\ ~client.history
  \/ f.k = "taken" /\ ~client.takeover

ClientAfter(f) ==
  [client EXCEPT
    !.received = IF f.k \in {"snapshot", "delta"} /\ f.seq # 0 THEN f.seq ELSE @,
    !.full = @ /\ f.k # "snapshot",
    !.history = @ /\ f.k # "history",
    !.takeover = @ /\ f.k # "taken"]

EventOf(f) ==
  CASE f.k = "delta" -> [k |-> "delta", from |-> f.from, rev |-> f.rev, resume |-> FALSE]
    [] f.k = "snapshot" -> [k |-> "snapshot", rev |-> f.rev, size |-> f.size]
    [] f.k = "history" -> [k |-> "history", gap |-> FALSE, rev |-> f.rev, size |-> f.size]
    [] f.k = "error" -> ErrorEvent(f.kind)
    [] OTHER -> f

\* report_surface_frames follows every event that was delivered.
ReportFrames(c) ==
  IF c.received > c.reported
    THEN \E outcome \in {"sent"} \cup (IF MayFail THEN {"fin", "reset"} ELSE {}) :
           IF outcome = "sent"
             THEN /\ client' = [c EXCEPT !.reported = c.received]
                  /\ stream' = [Sent([k |-> "receipt", seq |-> c.received]) EXCEPT !.down = Tail(@)]
             ELSE client' = Disconnected(c) /\ stream' = ClientEndDropped(outcome)
    ELSE client' = c /\ stream' = [stream EXCEPT !.down = Tail(@)]

ReadStream ==
  /\ Reading /\ ~client.lost /\ client.events = <<>> /\ stream.down # <<>>
  /\ LET f == Head(stream.down)
     IN IF FrameMalformed(f)
          THEN /\ driver' = Queued(driver, ErrorEvent("malformed"))
               /\ stream' = [stream EXCEPT !.down = Tail(@)]
               /\ UNCHANGED client
          ELSE /\ driver' = Queued(driver, EventOf(f))
               /\ IF driver'.stop
                    THEN client' = ClientAfter(f) /\ stream' = [stream EXCEPT !.down = Tail(@)]
                    ELSE ReportFrames(ClientAfter(f))
  /\ UNCHANGED <<session, attach, host, inbox, commands>>

\* A takeover without its answer, on a stream that the client drops: nobody
\* knows its outcome any more.
TakeoverUnknown ==
  /\ driver' = Queued(driver, ErrorEvent("outcome_unknown"))
  /\ client' = [client EXCEPT !.takeover = FALSE]
  /\ stream' = ClientEndDropped("reset")

\* The stream is over: reconnect, unless a takeover was waiting for its answer.
\* A stream that ended inside a frame is malformed, which is not retried.
NoticeLoss ==
  /\ Reading /\ ~client.lost /\ client.events = <<>>
  /\ stream.cut = "reset" \/ (stream.cut # "no" /\ stream.down = <<>>)
  /\ \/ client.takeover /\ TakeoverUnknown
     \/ /\ ~client.takeover
        /\ client' = Disconnected(client)
        /\ stream' = ClientEndDropped("reset")
        /\ UNCHANGED driver
     \/ /\ stream.cut = "torn"
        /\ driver' = Queued(driver, ErrorEvent("malformed"))
        /\ UNCHANGED <<client, stream>>
  /\ UNCHANGED <<session, attach, host, inbox, commands>>

\* read_next_event: the takeover's deadline passes before its answer.
TakeoverExpires ==
  /\ Reading /\ ~client.lost /\ client.events = <<>> /\ client.takeover
  /\ TakeoverUnknown
  /\ UNCHANGED <<session, attach, host, inbox, commands>>

\* events.reserve: one queued event goes to the frontend; the last one before a
\* stop ends the driver.
Deliver ==
  /\ driver.run = "running" /\ driver.pending # <<>> /\ Len(inbox) < EventCapacity
  /\ inbox' = Append(inbox, Head(driver.pending))
  /\ driver' = [driver EXCEPT !.pending = Tail(@),
                  !.run = IF driver.stop /\ Len(driver.pending) = 1 THEN "ended" ELSE @]
  /\ UNCHANGED <<hostVars, client, commands>>

(***************************************************************************)
(* The frontend's commands: handle_terminal_driver_command.                *)
(***************************************************************************)
\* Taking a command cancels a reconnection under way: a stream it had already
\* opened is dropped, a request it may have written can still reach the host.
CancelsResume(c) ==
  /\ stream' \in IF client.resume = "answered"
                  THEN {ClientEndDropped(cut) : cut \in {"fin", "reset"}} ELSE {stream}
  /\ \E written \in {FALSE, client.resume = "asked"} :
       client' = [c EXCEPT !.resume = "none", !.stray = @ \/ written]

\* With the client reconnecting nothing is written, and every command succeeds.
CommandSent(m, c) ==
  IF client.lost THEN CancelsResume(c) ELSE SendBestEffort(m, c)

\* An acknowledgement the client could send makes the view active.
CommandApplied(r) ==
  /\ CommandSent([k |-> "applied", rev |-> r], [client EXCEPT !.applied = r])
  /\ driver' = IF ~client'.lost /\ ~driver.takeover THEN Announce(driver, "active") ELSE driver
  /\ commands' = Tail(commands)

CommandSync ==
  /\ CommandSent([k |-> "sync"], [client EXCEPT !.full = TRUE])
  /\ commands' = Tail(commands)
  /\ UNCHANGED driver

CommandPlain(c) ==
  /\ CommandSent(c, client)
  /\ commands' = Tail(commands)
  /\ UNCHANGED driver

\* One history request at a time: a second one is refused before anything is
\* written.  Only the waiting frontend hears of it: as a failure, or, for a
\* prefetch, by forgetting the request as a gap would.
Refused(c) == IF c.optional THEN GapEvent ELSE ErrorEvent("rejected")

CommandHistory(c) ==
  /\ commands' = Tail(commands)
  /\ UNCHANGED driver
  /\ IF client.history
       THEN inbox' = <<Refused(c)>> \o inbox /\ UNCHANGED <<client, stream>>
       ELSE /\ UNCHANGED inbox
            /\ CommandSent([k |-> "history"],
                 IF client.lost THEN [client EXCEPT !.events = <<GapEvent>> \o @]
                                ELSE [client EXCEPT !.history = TRUE])

CommandDetach ==
  /\ CommandSent([k |-> "detach"], client)
  /\ driver' = [driver EXCEPT !.run = "ended"]
  /\ commands' = <<>>

Command ==
  /\ driver.run = "running" /\ commands # <<>>
  /\ LET c == Head(commands)
     IN \/ c.k = "applied" /\ CommandApplied(c.rev) /\ UNCHANGED inbox
        \/ c.k = "sync" /\ CommandSync /\ UNCHANGED inbox
        \/ c.k \in {"input", "resize"} /\ CommandPlain(c) /\ UNCHANGED inbox
        \/ c.k = "history" /\ CommandHistory(c)
        \/ c.k = "detach" /\ CommandDetach /\ UNCHANGED inbox
  /\ UNCHANGED <<session, attach, host>>

\* A command whose write outlives its deadline: the client drops the stream, the
\* driver stops and the waiting frontend gets the timeout.  (The wait of
\* correlate_terminal_command_closure belongs to local views: a remote client's
\* closed stream is retryable, so its commands reconnect instead.)
CommandExpires ==
  /\ driver.run = "running" /\ commands # <<>> /\ ~client.lost
  /\ stream' = ClientEndDropped("reset")
  /\ driver' = [driver EXCEPT !.run = "ended"]
  /\ inbox' = <<ErrorEvent("deadline")>> \o inbox
  /\ commands' = <<>>
  /\ UNCHANGED <<session, attach, host, client>>

\* A driver that has delivered its last event answers nothing more; the event
\* it queued is the outcome.
CommandAfterEnd ==
  /\ driver.run = "ended" /\ commands # <<>>
  /\ commands' = <<>>
  /\ UNCHANGED <<hostVars, client, driver, inbox>>

DriverStep == ReadKept \/ ReadStream \/ NoticeLoss \/ Deliver \/ Command \/ CommandAfterEnd

=============================================================================
