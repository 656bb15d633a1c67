--------------------------- MODULE TerminalView ---------------------------
(***************************************************************************)
(* A remote terminal view end to end: the host's attachment handler, the   *)
(* stream, the controller's client and driver, and the CLI's event loop.   *)
(*                                                                         *)
(* The first part is the frontend: the event loop of the CLI               *)
(* (cli/src/terminal_ui/session.rs), its ResizeCoalescer and the part of   *)
(* its ViewportController that decides when the screen is live, when it    *)
(* shows history and when it waits for a fresh snapshot.  Every handler    *)
(* runs to its end before the next one, submitting its commands to the     *)
(* driver and waiting for each; so the loop is idle exactly when           *)
(* `commands` is empty.  The second part is the view as a whole.           *)
(* Everything that comes from outside (output, a person, a rival           *)
(* controller, a broken link) is limited by the budget `left`.             *)
(***************************************************************************)
EXTENDS ViewClient

VARIABLES ui

viewVars == <<session, attach, stream, host, client, driver, inbox, commands, ui>>

\* `extent`: the viewport cache has an anchor; `rows`: it covers the desired
\* position; `window`: it waits for an answer; `discard`: the next answer
\* belongs to a forgotten request.
NewFrontend(r, size, physical) ==
  [result |-> "open", state |-> "synchronizing", mode |-> "live", applied |-> FALSE,
   shown |-> r, asked |-> FALSE, healthy |-> FALSE, retained |-> FALSE,
   physical |-> physical, pending |-> physical, submitted |-> size,
   extent |-> TRUE, rows |-> FALSE, window |-> FALSE, discard |-> FALSE]

NoSize == 0
Idle == ui.result = "open" /\ commands = <<>>

(***************************************************************************)
(* ResizeCoalescer: observe and enter_transport_state.                     *)
(***************************************************************************)
Observed(u) ==
  IF u.state = "active"
    THEN [u EXCEPT !.pending = NoSize, !.submitted = u.physical]
    ELSE [u EXCEPT !.pending = u.physical]

ObservedResize(u) ==
  IF u.state = "active" /\ u.submitted # u.physical
    THEN <<[k |-> "resize", size |-> u.physical]>> ELSE <<>>

EnterResize(u, s) ==
  IF s = "active" /\ u.pending \notin {NoSize, u.submitted}
    THEN <<[k |-> "resize", size |-> u.pending]>> ELSE <<>>

Entered(u, s) ==
  IF s # "active" THEN u
  ELSE [u EXCEPT !.pending = NoSize,
                 !.submitted = IF u.pending = NoSize THEN @ ELSE u.pending]

(***************************************************************************)
(* ViewportController.                                                     *)
(***************************************************************************)
\* Mutant: the forgotten request's answer is not discarded.
StartResumeForgets(u) ==
  [u EXCEPT !.mode = "resuming", !.applied = FALSE, !.retained = FALSE,
            !.window = FALSE, !.extent = FALSE, !.rows = FALSE]

\* start_resume: the cache forgets its request, so its answer is discarded.
StartResume(u) ==
  [u EXCEPT !.mode = "resuming", !.applied = FALSE, !.retained = FALSE,
            !.discard = @ \/ u.window, !.window = FALSE, !.extent = FALSE, !.rows = FALSE]

\* reset_presentation_for_reconnect.
ResetForReconnect(u) ==
  IF u.mode = "history" THEN StartResume(u)
  ELSE [u EXCEPT !.discard = @ \/ u.window, !.window = FALSE, !.extent = FALSE,
                 !.rows = FALSE, !.applied = FALSE]

\* finish_resume: only after a snapshot has been applied.
FinishResume(u) ==
  IF u.mode = "resuming" /\ u.applied THEN [u EXCEPT !.mode = "live", !.retained = FALSE] ELSE u

ResumeInput(u) ==
  IF u.mode = "resuming" /\ u.applied /\ u.retained THEN <<[k |-> "input"]>> ELSE <<>>

HistoryRequest(optional) == <<[k |-> "history", optional |-> optional]>>

\* prefetch_live and refetch_history_window: a request only if the cache misses
\* and waits for nothing.
Misses(u) == u.extent /\ ~u.rows /\ ~u.window /\ ~u.discard
Prefetches(u) == u.mode = "live" /\ Misses(u)
Refetches(u) == u.mode = "history" /\ Misses(u)

(***************************************************************************)
(* transition_transport.                                                   *)
(***************************************************************************)
Transition(u0, s0) ==
  LET resize == EnterResize(u0, s0)
      s == IF resize # <<>> THEN "synchronizing" ELSE s0
      entered == Entered(u0, s0)
      reset == IF s = "reconnecting" THEN ResetForReconnect([entered EXCEPT !.healthy = FALSE])
                                     ELSE entered
      finishes == s = "active" /\ ~reset.healthy
      live == IF finishes THEN FinishResume(reset) ELSE reset
      next == [live EXCEPT !.healthy = @ /\ s = "synchronizing", !.state = s]
      fetches == s = "active" /\ Prefetches(next)
  IN [ui |-> [next EXCEPT !.window = @ \/ fetches],
      commands |-> resize \o (IF finishes THEN ResumeInput(reset) ELSE <<>>)
                     \o (IF fetches THEN HistoryRequest(TRUE) ELSE <<>>)]

\* A size the coalescer submits at once: the view synchronizes locally.
SubmitResize(u) ==
  IF ObservedResize(u) = <<>> THEN [ui |-> Observed(u), commands |-> <<>>]
  ELSE LET t == Transition([Observed(u) EXCEPT !.healthy = u.mode = "live"], "synchronizing")
       IN [ui |-> t.ui, commands |-> ObservedResize(u) \o t.commands]

(***************************************************************************)
(* handle_event, one operator per kind of event.  Each gives the frontend  *)
(* after the handler and the commands it submitted.                        *)
(***************************************************************************)
Quiet(u) == [ui |-> u, commands |-> <<>>]
AppliedCommand(r) == <<[k |-> "applied", rev |-> r]>>

\* observe_anchor: a live view's rows never survive a newer revision; pinned
\* rows survive an append (`keeps`) but not a new epoch.
Anchored(u, keeps) == [u EXCEPT !.extent = TRUE, !.rows = @ /\ keeps /\ u.mode = "history"]

OnSnapshot(e, keeps) ==
  LET fenced == IF ui.mode = "resuming" THEN ui ELSE [ui EXCEPT !.state = "synchronizing"]
      drawn == Observed(Anchored([fenced EXCEPT !.shown = e.rev, !.asked = FALSE,
                                                !.applied = ui.mode = "resuming"], keeps))
      fetches == Refetches(drawn)
  IN [ui |-> [drawn EXCEPT !.window = @ \/ fetches],
      commands |-> AppliedCommand(e.rev) \o (IF fetches THEN HistoryRequest(FALSE) ELSE <<>>)]

RenderedLive(e) == ui.mode = "live" \/ (e.resume /\ ui.mode = "resuming")

OnDeltaApplied(e, keeps) ==
  LET drawn == Anchored([ui EXCEPT !.shown = e.rev, !.asked = FALSE,
                                   !.applied = @ \/ (e.resume /\ ui.mode = "resuming")], keeps)
      sized == IF RenderedLive(e) THEN SubmitResize(drawn) ELSE Quiet(drawn)
  IN [sized EXCEPT !.commands = @ \o (IF e.resume THEN AppliedCommand(e.rev) ELSE <<>>)]

\* A delta onto another revision: the frontend asks once for a full snapshot.
OnDeltaGap(e) ==
  LET resumed == IF ui.mode = "live" THEN StartResume(ui) ELSE ui
      fenced == [resumed EXCEPT !.healthy = FALSE, !.asked = TRUE,
                                !.state = IF resumed.mode = "resuming" THEN @
                                          ELSE "synchronizing"]
  IN [ui |-> fenced, commands |-> IF ui.asked THEN <<>> ELSE <<[k |-> "sync"]>>]

OnSyncRequired ==
  Quiet([IF ui.mode = "live" /\ ~ui.healthy THEN StartResume(ui) ELSE ui
         EXCEPT !.state = "synchronizing", !.asked = TRUE])

\* apply_view_history_window.
OnHistory(e, covers) ==
  IF ui.discard THEN
    LET kept == [ui EXCEPT !.discard = FALSE]
        fetches == Refetches(kept) \/ Prefetches(kept)
    IN [ui |-> [kept EXCEPT !.window = fetches],
        commands |-> IF fetches THEN HistoryRequest(FALSE) ELSE <<>>]
  ELSE IF e.gap THEN Quiet([ui EXCEPT !.window = FALSE, !.rows = FALSE])
  ELSE IF e.size # ui.physical THEN
    [ui |-> [ui EXCEPT !.window = ~ui.rows],
     commands |-> IF ui.rows THEN <<>> ELSE HistoryRequest(FALSE)]
  ELSE IF ui.mode = "live" THEN Quiet([ui EXCEPT !.window = FALSE, !.rows = e.rev >= ui.shown])
  ELSE [ui |-> [ui EXCEPT !.window = ~covers, !.rows = covers],
        commands |-> IF covers THEN <<>> ELSE HistoryRequest(FALSE)]

\* The loop ends: an attachment that is still there is detached.
Close(result) ==
  /\ ui' = [ui EXCEPT !.result = result]
  /\ commands' = IF driver.run = "running" THEN <<[k |-> "detach"]>> ELSE <<>>
  /\ UNCHANGED client

\* revision_applied records the drawn revision for a later resume without
\* waiting for the driver.
Handled(t, drawn) ==
  /\ ui' = t.ui
  /\ commands' = t.commands
  /\ client' = [client EXCEPT !.applied = IF drawn > @ THEN drawn ELSE @]

HandleEvent ==
  /\ Idle /\ inbox # <<>>
  /\ inbox' = Tail(inbox)
  /\ LET e == Head(inbox)
     IN \/ e.k = "state" /\ Handled(Transition(ui, e.state), NoRevision)
        \/ e.k = "snapshot" /\ \E keeps \in BOOLEAN : Handled(OnSnapshot(e, keeps), e.rev)
        \/ e.k = "delta" /\ IF e.from = ui.shown
             THEN \E keeps \in BOOLEAN : Handled(OnDeltaApplied(e, keeps), e.rev)
             ELSE Handled(OnDeltaGap(e), NoRevision)
        \/ e.k = "sync" /\ Handled(OnSyncRequired, NoRevision)
        \/ e.k = "history" /\ IF ui.discard \/ ui.window
             THEN \E covers \in BOOLEAN : Handled(OnHistory(e, covers), NoRevision)
             ELSE Close("unsolicited")
        \/ e.k \in {"lost", "ended"} /\ Close(e.k)
        \/ e.k = "error" /\ Close(e.kind)
  /\ UNCHANGED <<hostVars, driver>>

(***************************************************************************)
(* What the person at the terminal does.                                   *)
(***************************************************************************)
Acts(t) == Handled(t, NoRevision) /\ UNCHANGED <<hostVars, driver, inbox>>

\* navigate towards older rows: from the live screen only while active.
ScrollBack(covered) ==
  /\ Idle /\ ui.extent
  /\ ui.mode = "history" \/ (ui.mode = "live" /\ ui.state = "active")
  /\ LET u == [ui EXCEPT !.mode = "history", !.rows = @ /\ covered]
     IN Acts([ui |-> [u EXCEPT !.window = @ \/ Misses(u)],
              commands |-> IF Misses(u) THEN HistoryRequest(FALSE) ELSE <<>>])

\* Back to the bottom, or typing while history is shown: resume with a sync.
Return(typed) ==
  /\ Idle /\ ui.mode = "history"
  /\ Acts([ui |-> [StartResume(ui) EXCEPT !.asked = TRUE, !.retained = typed],
           commands |-> <<[k |-> "sync"]>>])

Type ==
  /\ Idle
  /\ \/ ui.mode = "live" /\ (ui.state = "active" \/ ui.healthy)
        /\ Acts([ui |-> ui, commands |-> <<[k |-> "input"]>>])
     \/ ui.mode = "resuming" /\ Acts(Quiet([ui EXCEPT !.retained = TRUE]))

\* SIGWINCH: set_layout, then the coalescer.
Winch(size) ==
  /\ Idle /\ ui.physical # size
  /\ Acts(SubmitResize([ui EXCEPT !.physical = size, !.rows = FALSE]))

Detach == Idle /\ Close("detached") /\ UNCHANGED <<hostVars, driver, inbox>>


-----------------------------------------------------------------------------
(* The view as a whole.                                                    *)

CONSTANTS Budgets     \* the budgets an execution may start with

VARIABLES
  left,       \* what remains of the budget
  meets       \* the kinds of event this execution may have

vars == <<viewVars, left, meets>>

Spend(what) == left[what] > 0 /\ left' = [left EXCEPT ![what] = @ - 1]

\* A view whose initial snapshot was drawn and acknowledged: an attached
\* controller, or one prepared to take the lease from another.
NewSession(lease) ==
  [rev |-> 1, size |-> 1, over |-> FALSE, lease |-> lease, saved |-> NoRevision,
   missed |-> FALSE, torn |-> FALSE]
OpenStream(up) == [open |-> TRUE, cut |-> "no", up |-> up, down |-> <<>>]

InitActive(physical) ==
  /\ session = NewSession("view")
  /\ attach = NewAttachment("active")
  /\ stream = OpenStream(<<[k |-> "applied", rev |-> 1]>>)
  /\ client = ConnectedClient(1)
  /\ driver = IdleDriver("active", FALSE)
  /\ ui = NewFrontend(1, 1, physical)

InitTakeover ==
  /\ session = NewSession("other")
  /\ attach = NewAttachment("takeover")
  /\ stream = OpenStream(<<[k |-> "applied", rev |-> 1], [k |-> "takeover"]>>)
  /\ client = [ConnectedClient(1) EXCEPT !.takeover = TRUE]
  /\ driver = IdleDriver("synchronizing", TRUE)
  /\ ui = NewFrontend(1, 1, 1)

Init ==
  /\ left \in Budgets
  /\ meets = {w \in DOMAIN left : left[w] > 0}
  /\ IF left.takeover = 1 THEN InitTakeover
     ELSE \E physical \in {1, 1 + left.winch} : InitActive(physical)
  /\ host = RunningHost
  /\ inbox = <<>> /\ commands = <<>>

Host == (WriterStep \/ ReaderStep) /\ UNCHANGED <<clientVars, ui, left, meets>>
Client == (Reconnect \/ DriverStep) /\ UNCHANGED <<ui, left, meets>>
Frontend == HandleEvent /\ UNCHANGED <<left, meets>>

\* A deadline of either side passes because the other one, or the link, stalls.
Stalls ==
  /\ Spend("stall")
  /\ \/ WriteExpires /\ UNCHANGED clientVars
     \/ TakeoverExpires
     \/ CommandExpires
  /\ UNCHANGED <<ui, meets>>

Outside ==
  /\ \/ Spend("output") /\ Output
     \/ Spend("rival") /\ RivalTakes
     \/ Spend("end") /\ SessionEnds
     \/ Spend("loss") /\ \E cut \in {"fin", "reset"} : LinkBreaks(cut)
     \/ UNCHANGED left /\ RivalLeaves
  /\ UNCHANGED <<clientVars, ui, meets>>

Person ==
  /\ \/ Spend("scroll") /\ \E covered \in BOOLEAN : ScrollBack(covered)
     \/ UNCHANGED left /\ Return(FALSE)
     \/ Spend("type") /\ (Return(TRUE) \/ Type)
     \/ Spend("winch") /\ \E z \in {1, 2} : Winch(z)
     \/ Spend("detach") /\ Detach
  /\ UNCHANGED meets

Next == Host \/ Client \/ Frontend \/ Stalls \/ Outside \/ Person

Spec == Init /\ [][Next]_vars

\* Every task is scheduled, and each branch of the driver's unbiased select that
\* stays ready is taken; nothing outside the program is fair.
Fairness ==
  /\ WF_vars(WriterStep /\ UNCHANGED <<clientVars, ui, left, meets>>)
  /\ WF_vars(ReaderStep /\ UNCHANGED <<clientVars, ui, left, meets>>)
  /\ WF_vars(Reconnect /\ UNCHANGED <<ui, left, meets>>)
  /\ WF_vars((ReadKept \/ ReadStream \/ NoticeLoss) /\ UNCHANGED <<ui, left, meets>>)
  /\ WF_vars(Deliver /\ UNCHANGED <<ui, left, meets>>)
  /\ WF_vars((Command \/ CommandAfterEnd) /\ UNCHANGED <<ui, left, meets>>)
  /\ WF_vars(Frontend)

FairSpec == Spec /\ Fairness

-----------------------------------------------------------------------------
\* The halves never disagree about the protocol: every numbered frame is the
\* next one, every resume delta continues what is drawn, every history or
\* takeover answer was asked for, and the frontend never asks for a second
\* history window while one is under way.  Otherwise the view ends with one of
\* these errors (read_next_event_inner, reconnect_remote_once,
\* apply_view_history_window, process_attachment_frame).  Only a stream whose
\* writer gave up inside a frame is malformed.
ProtocolHeld ==
  /\ ui.result \notin {"resource_exhausted", "unsolicited", "rejected"}
  /\ ui.result = "malformed" => session.torn

\* A view that reports the session's end has drawn its last screen
\* (finish_runtime, write_lifecycle_event), unless the end overtook a
\* replacement on its way from the actor to the writer.
EndedShowsFinal == ui.result = "ended" => ui.shown = session.rev \/ session.missed

\* Output, typing, resizing and a takeover alone never end a view: nothing is
\* sent before the host admits it (transition_transport, attachment_writer's
\* synchronize_before_reply).  A takeover while the program prints breaks it: its
\* success may be written before the screen it replaces.
Undisturbed == meets \subseteq {"output", "type", "winch", "takeover"}
QuietViewLives == Undisturbed => ui.result = "open"

\* The part of it that holds: without output during a takeover.
SteadyViewLives == Undisturbed /\ ~({"output", "takeover"} \subseteq meets) => ui.result = "open"

\* A view ends for a reason: no disagreement of its halves ends it, nothing a
\* person types or a program prints does (but for a takeover while it prints),
\* and the session's end does so only when the last screen is drawn.
ViewEndsRight == ProtocolHeld /\ EndedShowsFinal /\ SteadyViewLives

\* The frontend ends up with the host's latest revision, whatever was withheld
\* by the receipt window, coalesced, or lost with a stream
\* (SurfaceFrameWindow, reconnect_remote).
Converges == <>[](ui.result # "open" \/ ui.shown = session.rev)

\* A view that is over, however it ended, leaves no attachment behind
\* (SessionClient::detach, attachment_reader, finish_attachment_tasks).
ViewIsReleased == (ui.result # "open") ~> ~attach.live

\* The session takes the frontend's size: the client keeps the latest viewport
\* "across a tunnel epoch" (SessionClient::resize, ResizeCoalescer).
ViewportConverges == <>[](ui.result # "open" \/ session.size = ui.physical)

=============================================================================
