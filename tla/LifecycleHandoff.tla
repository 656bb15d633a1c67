-------------------------- MODULE LifecycleHandoff --------------------------
(***************************************************************************)
(* Stop, restart and update: the frontend in the user's terminal and the   *)
(* detached owner process it starts, their control channel, and the daemon *)
(* whose sessions the owner ends.  Stopping may end the terminal of the    *)
(* frontend, so the owner finishes alone what was handed over to it.       *)
(*                                                                         *)
(* A cut channel refuses every send; frames sent before the cut are still  *)
(* read.  A session is a number; "presented" collects the impacts shown.   *)
(***************************************************************************)
EXTENDS Naturals, Sequences

CONSTANTS Sessions,   \* session names the daemon may ever admit
          Orders,     \* the command lines: [op, approved]
          Budgets     \* faults and admissions per behaviour

VARIABLES fe,     \* the frontend: run_frontend
          ow,     \* the owner: run_worker
          down,   \* frames from the frontend to the owner
          up,     \* frames from the owner to the frontend
          cut,    \* the channel is unusable
          dm,     \* the daemon
          left

vars == <<fe, ow, down, up, cut, dm, left>>

Spend(kind) == left[kind] > 0 /\ left' = [left EXCEPT ![kind] = @ - 1]

Init ==
  /\ \E o \in Orders :
       /\ fe = [pc |-> "spawned", order |-> o, ready |-> FALSE, continued |-> FALSE, told |-> "", presented |-> {}]
       /\ ow = [pc |-> "boot", approved |-> o.approved, op |-> o.op, running |-> FALSE, impact |-> {},
                accepted |-> FALSE, result |-> ""]
  /\ down = <<>> /\ up = <<>> /\ cut = FALSE
  /\ left \in Budgets
  /\ dm \in {[up |-> b, live |-> l, ended |-> {}, stops |-> 0, exe |-> "old"] :
               b \in BOOLEAN, l \in {{}, {CHOOSE s \in Sessions : TRUE}}}
  /\ dm.up \/ dm.live = {}

\* Channel::send: a failed write makes the channel unusable in both directions.
Sent(queue, frame) == IF cut THEN queue ELSE Append(queue, frame)

----------------------------------------------------------------------------
(* The frontend.                                                           *)

FrontendEnds(told) == fe' = [fe EXCEPT !.pc = "done", !.told = told] /\ cut' = TRUE

\* run_frontend's last mapping: an unknown outcome before Continue was tried is
\* reported as "nothing was stopped or installed".
FrontendFails ==
  FrontendEnds(IF fe.continued THEN "unknown" ELSE "untouched")

Receive == /\ fe.pc \in {"spawned", "loop"} /\ up # <<>>
           /\ up' = Tail(up)
           /\ UNCHANGED <<ow, dm, left>>

\* The owner's Ready is answered with the command.
Begins ==
  /\ fe.pc = "spawned" /\ Receive /\ Head(up).kind = "Ready"
  /\ IF cut THEN FrontendFails /\ UNCHANGED down
     ELSE /\ fe' = [fe EXCEPT !.pc = "loop", !.ready = TRUE]
          /\ down' = Append(down, [kind |-> "Begin"])
          /\ UNCHANGED cut

\* A frame out of place ends the frontend.
Expected(frame) == CASE frame.kind = "Handoff"  -> ~fe.continued
                     [] frame.kind = "Accepted" -> fe.continued
                     [] OTHER -> frame.kind # "Ready"

\* Confirm: the user reads the impact and answers.
Confirms(yes) ==
  /\ fe.pc = "loop" /\ Receive /\ Head(up).kind = "Confirm"
  /\ down' = Sent(down, [kind |-> IF yes THEN "Approve" ELSE "Cancel"])
  /\ LET shown == fe.presented \cup Head(up).impact
     IN IF yes /\ ~cut
        THEN fe' = [fe EXCEPT !.presented = shown] /\ UNCHANGED cut
        ELSE /\ fe' = [fe EXCEPT !.pc = "done", !.presented = shown,
                                 !.told = IF ~yes THEN "cancelled" ELSE IF fe.continued THEN "unknown" ELSE "untouched"]
             /\ cut' = TRUE

\* Mutant: the frontend does not note that it sent Continue.
ContinuesUnmarked ==
  /\ fe.pc = "loop" /\ Receive /\ Head(up).kind = "Handoff"
  /\ down' = Sent(down, [kind |-> "Continue"])
  /\ IF cut THEN FrontendFails ELSE UNCHANGED <<fe, cut>>

\* Handoff: continued is set before Continue is written.
Continues ==
  /\ fe.pc = "loop" /\ Receive /\ Head(up).kind = "Handoff" /\ Expected(Head(up))
  /\ down' = Sent(down, [kind |-> "Continue"])
  /\ IF cut THEN fe' = [fe EXCEPT !.pc = "done", !.continued = TRUE, !.told = "unknown"] /\ cut' = TRUE
     ELSE fe' = [fe EXCEPT !.continued = TRUE] /\ UNCHANGED cut

Accepts ==
  /\ fe.pc = "loop" /\ Receive /\ Head(up).kind = "Accepted"
  /\ IF Expected(Head(up)) THEN UNCHANGED <<fe, cut>> ELSE FrontendFails
  /\ UNCHANGED down

Completes ==
  /\ fe.pc = "loop" /\ Receive /\ Head(up).kind = "Complete"
  /\ FrontendEnds(Head(up).result)
  /\ UNCHANGED down

\* The channel fails under a waiting frontend (owner gone, read error, Ready
\* late): OwnerChild::drop kills an owner that never became ready.
LosesOwner ==
  /\ fe.pc \in {"spawned", "loop"} /\ up = <<>>
  /\ cut \/ (fe.pc = "spawned" /\ left.break > 0)
  /\ FrontendFails
  /\ ow' = IF ~fe.ready /\ ow.pc # "done" THEN [ow EXCEPT !.pc = "done", !.result = "killed"] ELSE ow
  /\ left' = IF cut THEN left ELSE [left EXCEPT !.break = @ - 1]
  /\ UNCHANGED <<down, up, dm>>

\* The terminal of the frontend goes away.
FrontendDies ==
  /\ fe.pc # "done" /\ Spend("hangup")
  /\ fe' = [fe EXCEPT !.pc = "done", !.told = "dead"]
  /\ cut' = TRUE
  /\ UNCHANGED <<ow, down, up, dm>>

\* The channel breaks with both ends alive.
Breaks ==
  /\ ~cut /\ Spend("break")
  /\ cut' = TRUE
  /\ UNCHANGED <<fe, ow, down, up, dm>>

----------------------------------------------------------------------------
(* The owner.                                                              *)

OwnerAt(pc) == ow.pc = pc
Got(kind) == down # <<>> /\ Head(down).kind = kind
Hungup == down = <<>> /\ cut

\* run_worker sends the result, if anyone still listens.
OwnerEnds(result) ==
  /\ ow' = [ow EXCEPT !.pc = "done", !.result = result]
  /\ up' = Sent(up, [kind |-> "Complete", result |-> result])

OwnerBoots ==
  /\ OwnerAt("boot")
  /\ ow' = [ow EXCEPT !.pc = IF cut THEN "done" ELSE "begin", !.result = IF cut THEN "failed" ELSE ""]
  /\ up' = Sent(up, [kind |-> "Ready"])
  /\ UNCHANGED <<fe, down, cut, dm, left>>

OwnerBegins ==
  /\ OwnerAt("begin")
  /\ \/ /\ Got("Begin") /\ down' = Tail(down)
        /\ ow' = [ow EXCEPT !.pc = "observe"] /\ UNCHANGED up
     \/ /\ (down # <<>> /\ ~Got("Begin")) \/ Hungup
        /\ ow' = [ow EXCEPT !.pc = "done", !.result = "failed"] /\ UNCHANGED <<down, up>>
  /\ UNCHANGED <<fe, cut, dm, left>>

\* running_impact, update_preflight: the sessions now running.  An update has
\* prepared and verified its candidate before (or failed to).  A daemon that does
\* not answer ends the owner.
OwnerObserves ==
  /\ OwnerAt("observe")
  /\ \/ ow.op = "update" /\ Spend("prepare") /\ OwnerEnds("failed")
     \/ dm.up /\ Spend("request") /\ OwnerEnds("failed")
     \/ /\ ow' = [ow EXCEPT !.running = dm.up, !.impact = dm.live,
                            !.pc = IF dm.live # {} /\ ~ow.approved THEN "ask" ELSE "offer"]
        /\ UNCHANGED <<up, left>>
  /\ UNCHANGED <<fe, down, cut, dm>>

\* Worker::confirm, first half; ow.accepted tells the first from a repeated one.
OwnerAsks ==
  /\ OwnerAt("ask")
  /\ IF cut THEN OwnerEnds("failed")
     ELSE /\ up' = Append(up, [kind |-> "Confirm", impact |-> ow.impact])
          /\ ow' = [ow EXCEPT !.pc = "answer"]
  /\ UNCHANGED <<fe, down, cut, dm, left>>

OwnerHears ==
  /\ OwnerAt("answer")
  /\ \/ /\ Got("Approve") /\ down' = Tail(down)
        /\ ow' = [ow EXCEPT !.approved = TRUE, !.pc = IF ow.accepted THEN "stop" ELSE "offer"]
        /\ UNCHANGED up
     \/ /\ (down # <<>> /\ ~Got("Approve")) \/ Hungup
        /\ OwnerEnds(IF Hungup THEN "failed" ELSE "cancelled") /\ UNCHANGED down
  /\ UNCHANGED <<fe, cut, dm, left>>

\* Worker::handoff, first half; an update first proves its outcome log.
OwnerOffers ==
  /\ OwnerAt("offer")
  /\ \/ ow.op = "update" /\ Spend("log") /\ OwnerEnds("failed")
     \/ /\ IF cut THEN OwnerEnds("failed")
           ELSE up' = Append(up, [kind |-> "Handoff"]) /\ ow' = [ow EXCEPT !.pc = "offered"]
        /\ UNCHANGED left
  /\ UNCHANGED <<fe, down, cut, dm>>

\* Mutant: a lost acknowledgement ends the owner.
OwnerNeedsAck ==
  /\ OwnerAt("offered") /\ Got("Continue") /\ down' = Tail(down)
  /\ IF cut THEN ow' = [ow EXCEPT !.pc = "done", !.result = "failed", !.accepted = TRUE] /\ UNCHANGED up
     ELSE /\ up' = Append(up, [kind |-> "Accepted"])
          /\ ow' = [ow EXCEPT !.accepted = TRUE, !.pc = IF ow.running THEN "stop" ELSE "stopped"]
  /\ UNCHANGED <<fe, cut, dm, left>>

\* "The received Continue transfers ownership even if its ACK is lost."  Only the
\* durable log of an update can still fail.
OwnerTakesOver ==
  /\ OwnerAt("offered")
  /\ \/ /\ Got("Continue") /\ down' = Tail(down)
        /\ up' = Sent(up, [kind |-> "Accepted"])
        /\ ow' = [ow EXCEPT !.accepted = TRUE, !.pc = IF ow.running THEN "stop" ELSE "stopped"]
        /\ UNCHANGED left
     \/ /\ Got("Continue") /\ down' = Tail(down) /\ ow.op = "update" /\ Spend("log")
        /\ OwnerEnds("failed")
     \/ /\ (down # <<>> /\ ~Got("Continue")) \/ Hungup
        /\ OwnerEnds(IF Hungup THEN "failed" ELSE "cancelled") /\ UNCHANGED <<down, left>>
  /\ UNCHANGED <<fe, cut, dm>>

\* Mutant: every stop request ends what runs.
OwnerStopsAll ==
  /\ OwnerAt("stop")
  /\ dm' = IF dm.up THEN [dm EXCEPT !.up = FALSE, !.live = {}, !.ended = @ \cup dm.live, !.stops = 1] ELSE dm
  /\ ow' = [ow EXCEPT !.pc = "stopped"]
  /\ UNCHANGED <<fe, down, up, cut, left>>

\* The stop request of hand_off_and_stop: an unapproved one ends nothing while
\* sessions run, and its answer is a new impact to approve.
Stopping == [dm EXCEPT !.up = FALSE, !.live = {}, !.ended = @ \cup dm.live, !.stops = 1]
StopTaken == dm.up /\ (ow.approved \/ dm.live = {})
OwnerStops ==
  /\ OwnerAt("stop")
  /\ CASE ~dm.up -> ow' = [ow EXCEPT !.pc = "stopped"] /\ UNCHANGED dm
       [] StopTaken -> dm' = Stopping /\ ow' = [ow EXCEPT !.pc = "wait"]
       [] OTHER -> ow' = [ow EXCEPT !.pc = "ask", !.impact = dm.live] /\ UNCHANGED dm
  /\ UNCHANGED <<fe, down, up, cut, left>>

\* client.stop fails, before the daemon has the request or with its answer.
OwnerStopFails ==
  /\ OwnerAt("stop") /\ dm.up /\ Spend("request")
  /\ dm' \in {dm} \cup (IF StopTaken THEN {Stopping} ELSE {})
  /\ OwnerEnds("refused")
  /\ UNCHANGED <<fe, down, cut>>

\* wait_until_stopped: the daemon gives up its lock and socket within 5 s, or not.
OwnerWaits ==
  /\ OwnerAt("wait")
  /\ \/ ow' = [ow EXCEPT !.pc = "stopped"] /\ UNCHANGED <<up, left>>
     \/ Spend("request") /\ OwnerEnds("failed")
  /\ UNCHANGED <<fe, down, cut, dm>>

\* apply_stop returns; apply_restart starts the replacement; an update activates
\* its candidate (or rolls it back) and starts the daemon again.
OwnerFinishes ==
  /\ OwnerAt("stopped")
  /\ \/ /\ ow.op = "stop" /\ OwnerEnds("done") /\ UNCHANGED <<dm, left>>
     \/ /\ ow.op = "restart" /\ OwnerEnds("done") /\ dm' = [dm EXCEPT !.up = TRUE] /\ UNCHANGED left
     \/ /\ ow.op = "update" /\ OwnerEnds("done") /\ dm' = [dm EXCEPT !.up = TRUE, !.exe = "new"] /\ UNCHANGED left
     \/ /\ ow.op # "stop" /\ Spend("start") /\ OwnerEnds("failed") /\ UNCHANGED dm
  /\ UNCHANGED <<fe, down, cut>>

----------------------------------------------------------------------------
(* The daemon admits a session at any time.                                *)

Admits(s) ==
  /\ dm.up /\ dm.stops = 0 /\ s \notin dm.live \cup dm.ended /\ Spend("admit")
  /\ dm' = [dm EXCEPT !.live = @ \cup {s}]
  /\ UNCHANGED <<fe, ow, down, up, cut>>

OwnerStep == \/ OwnerBoots \/ OwnerBegins \/ OwnerObserves \/ OwnerAsks \/ OwnerHears \/ OwnerOffers
             \/ OwnerTakesOver \/ OwnerStops \/ OwnerWaits \/ OwnerFinishes

FrontendStep == \/ Begins \/ (\E yes \in BOOLEAN : Confirms(yes)) \/ Continues \/ Accepts \/ Completes \/ LosesOwner

Next == OwnerStep \/ OwnerStopFails \/ FrontendStep \/ FrontendDies \/ Breaks \/ (\E s \in Sessions : Admits(s))

\* The owner process runs and the frontend reads what is sent to it; nothing
\* forces a user to answer (Confirms), a session to come or a channel to break.
Fairness == WF_vars(OwnerStep) /\ WF_vars(Begins \/ Continues \/ Accepts \/ Completes \/ LosesOwner)

Spec == Init /\ [][Next]_vars /\ Fairness

----------------------------------------------------------------------------

\* run_frontend reports "nothing was stopped or installed" only when it is so,
\* then and later: no owner acts behind that report.
UntouchedHolds ==
  fe.told \in {"untouched", "cancelled"} => dm.stops = 0 /\ dm.exe = "old" /\ ow.pc \notin {"wait", "stopped"}

\* No session ends without an approval: by -y, or of an impact the frontend
\* showed to the user in this invocation.
EndedWasApproved == dm.ended # {} => fe.order.approved \/ fe.presented # {}

\* Once Continue is received the owner finishes without its terminal: an
\* approved stop is carried out whatever happens to the frontend, unless the
\* request to the daemon itself fails.
AcceptedFinishes ==
  (ow.accepted /\ ow.op # "update" /\ ow.approved /\ ow.running /\ fe.pc = "done")
     ~> (dm.stops = 1 \/ ~dm.up \/ ow.result = "refused")

\* Every owner ends, accepted or not, once its frontend is gone.
OwnerNeverLeaks == (fe.pc = "done") ~> OwnerAt("done")

\* "A newly admitted Session encountered by the stop request is presented in
\* the same invocation before it can be ended": without -y, every session the
\* stop ended was shown.
EndedWasPresented == ~fe.order.approved => dm.ended \subseteq fe.presented
=============================================================================
