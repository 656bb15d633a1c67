-------------------------- MODULE NetworkSupervisor --------------------------
(***************************************************************************)
(* The network supervisor of the daemon: it binds the endpoint, binds it   *)
(* again after a failure or a close, admits incoming connections under the *)
(* pre-authentication limits it shares with outbound pairing, publishes an *)
(* observation, and is shut down from another task.                        *)
(*                                                                         *)
(* Permits are owned by the tasks that hold them (RAII): the number in use *)
(* is the number of tasks at the steps that own one.                       *)
(***************************************************************************)
EXTENDS Naturals, FiniteSets, FiniteSetTheorems, TLAPS

CONSTANTS Incoming,      \* tasks for accepted connections
          Outgoing,     \* outbound pairing dials
          Peers,
          MaxNormal,    \* max_unauthenticated_connections
          MaxPairing,   \* max_pairing_handshakes
          MaxPerPeer,   \* max_*_per_endpoint
          Budgets

VARIABLES sup,   \* NetworkStartup::run: its step and its bind attempt
          ep,    \* the endpoint: "none", "open" or "closed"
          brk,   \* the broker: endpoint attached, quiescing
          obs,   \* NetworkObservation
          stop,  \* NetworkSupervisor::shutdown_until and the shutdown flag
          task,  \* the handshake tasks
          left

vars == <<sup, ep, brk, obs, stop, task, left>>

Spend(kind) == left[kind] > 0 /\ left' = [left EXCEPT ![kind] = @ - 1]
Idle == [pc |-> "idle", peer |-> CHOOSE p \in Peers : TRUE]

Init ==
  /\ sup = "check" /\ ep = "none"
  /\ brk = [attached |-> FALSE, quiescing |-> FALSE]
  /\ obs = [state |-> "Initializing", bound |-> FALSE]
  /\ stop = [pc |-> "idle", flag |-> FALSE, result |-> ""]
  /\ task = [t \in Incoming \cup Outgoing |-> Idle]
  /\ left \in Budgets

----------------------------------------------------------------------------
(* NetworkStartup::run.                                                    *)

\* finish_without_endpoint.
FinishWithout == /\ sup' = "ok"
                 /\ brk' = [brk EXCEPT !.quiescing = TRUE, !.attached = FALSE]
                 /\ obs' = [state |-> "Stopped", bound |-> FALSE]

Check ==
  /\ sup = "check"
  /\ IF stop.flag THEN FinishWithout ELSE sup' = "bind" /\ UNCHANGED <<obs, brk>>
  /\ UNCHANGED <<ep, stop, task, left>>

\* The bind races the shutdown flag.
BindFails ==
  /\ sup = "bind" /\ ~stop.flag /\ Spend("bind")
  /\ sup' = "retry"
  /\ obs' = [state |-> "Degraded", bound |-> FALSE]
  /\ UNCHANGED <<ep, brk, stop, task>>

BindCancelled ==
  /\ sup \in {"bind", "retry"} /\ stop.flag
  /\ FinishWithout
  /\ UNCHANGED <<ep, stop, task, left>>

\* A bound endpoint is attached to the broker, which refuses and closes it once
\* it is quiescing: the supervisor then returns that error.
Binds ==
  /\ sup = "bind"
  /\ IF brk.quiescing
     THEN sup' = "failed" /\ ep' = "closed" /\ UNCHANGED <<brk, obs>>
     ELSE /\ sup' = "bound" /\ ep' = "open"
          /\ brk' = [brk EXCEPT !.attached = TRUE]
          /\ obs' = [state |-> "Bound", bound |-> TRUE]
  /\ UNCHANGED <<stop, task, left>>

\* Mutant: the delay is a wait for the shutdown flag alone.
RetriesAtShutdown ==
  /\ sup = "retry" /\ stop.flag
  /\ sup' = "check"
  /\ UNCHANGED <<ep, brk, obs, stop, task, left>>

\* supervisor_retry_delay elapses.
Retries ==
  /\ sup = "retry" /\ ~stop.flag
  /\ sup' = "check"
  /\ UNCHANGED <<ep, brk, obs, stop, task, left>>

\* run_bound, biased: the shutdown flag, then the endpoint, then the relay.
RelayStatus(state) ==
  /\ sup = "bound" /\ ~stop.flag /\ ep = "open" /\ Spend("relay")
  /\ obs' = [obs EXCEPT !.state = state]
  /\ UNCHANGED <<sup, ep, brk, stop, task>>

Aborted == [t \in DOMAIN task |-> IF t \in Incoming THEN Idle ELSE task[t]]

EndpointCloses ==
  /\ ep = "open" /\ Spend("close")
  /\ ep' = "closed"
  /\ UNCHANGED <<sup, brk, obs, stop, task>>

\* The endpoint closed: handlers are aborted, the broker detached, bind again.
Detaches ==
  /\ sup = "bound" /\ ep = "closed" /\ ~stop.flag
  /\ sup' = "check"
  /\ brk' = [brk EXCEPT !.attached = FALSE]
  /\ obs' = [state |-> "Degraded", bound |-> FALSE]
  /\ task' = Aborted
  /\ UNCHANGED <<ep, stop, left>>

\* Mutant: the handlers are not aborted.
ClosesKeeping ==
  /\ sup = "bound" /\ stop.flag
  /\ sup' = "closing"
  /\ brk' = [brk EXCEPT !.quiescing = TRUE, !.attached = FALSE]
  /\ obs' = [obs EXCEPT !.state = "Stopping"]
  /\ UNCHANGED <<ep, stop, left, task>>

\* Shutdown: handlers are aborted, the broker quiesced; then the endpoint closes.
Closes ==
  /\ sup = "bound" /\ stop.flag
  /\ sup' = "closing"
  /\ brk' = [brk EXCEPT !.quiescing = TRUE, !.attached = FALSE]
  /\ obs' = [obs EXCEPT !.state = "Stopping"]
  /\ task' = Aborted
  /\ UNCHANGED <<ep, stop, left>>

Closed ==
  /\ sup = "closing"
  /\ sup' = "ok" /\ ep' = "closed"
  /\ obs' = [state |-> "Stopped", bound |-> FALSE]
  /\ UNCHANGED <<brk, stop, task, left>>

----------------------------------------------------------------------------
(* NetworkSupervisor::shutdown_until.                                      *)

\* quiesce_until: streams and pairing are refused at once; its wait for the
\* service handlers may exceed the deadline and fail the call.
QuiesceBegins ==
  /\ stop.pc = "idle" /\ stop.result # "ok"
  /\ stop' = [stop EXCEPT !.pc = "quiesce"]
  /\ brk' = [attached |-> FALSE, quiescing |-> TRUE]
  /\ UNCHANGED <<sup, ep, obs, task, left>>

QuiesceEnds ==
  /\ stop.pc = "quiesce"
  /\ \/ /\ stop' = [stop EXCEPT !.pc = "wait", !.flag = TRUE]
        /\ obs' = [obs EXCEPT !.state = "Stopping"] /\ UNCHANGED left
     \/ /\ Spend("late")
        /\ stop' = [stop EXCEPT !.pc = "idle", !.result = "late"] /\ UNCHANGED obs
  /\ UNCHANGED <<sup, ep, brk, task>>

StopJoins ==
  /\ stop.pc = "wait" /\ sup \in {"ok", "failed"}
  /\ stop' = [stop EXCEPT !.pc = "done", !.result = sup]
  /\ UNCHANGED <<sup, ep, brk, obs, task, left>>

\* The deadline passes first: the task is aborted and everything it owned,
\* handlers and endpoint included, is dropped.
StopAborts ==
  /\ stop.pc = "wait" /\ sup \notin {"ok", "failed"} /\ Spend("late")
  /\ stop' = [stop EXCEPT !.pc = "done", !.result = "aborted"]
  /\ sup' = "aborted" /\ ep' = "closed"
  /\ task' = Aborted
  /\ UNCHANGED <<brk, obs>>

\* NetworkSupervisor::drop, after a call that returned early: the flag is raised
\* and the task aborted, which takes effect when it is next polled.
StopDrops ==
  /\ stop.pc = "idle" /\ stop.result = "late"
  /\ stop' = [stop EXCEPT !.pc = "drop", !.flag = TRUE]
  /\ UNCHANGED <<sup, ep, brk, obs, task, left>>

Dropped ==
  /\ stop.pc = "drop"
  /\ stop' = [stop EXCEPT !.pc = "done"]
  /\ sup' = IF sup \in {"ok", "failed"} THEN sup ELSE "aborted"
  /\ ep' = "closed" /\ task' = Aborted
  /\ UNCHANGED <<brk, obs, left>>

----------------------------------------------------------------------------
(* Pre-authentication admission.                                           *)

In(steps) == {t \in DOMAIN task : task[t].pc \in steps}
OuterHeld == In({"alpn", "tls_n", "greet", "tls_p", "pair", "o_peer", "o_pair"})
GlobalHeld == In({"tls_p", "pair", "o_outer", "o_peer", "o_pair"})
NormalHeld == In({"tls_n", "greet"})
PeerHeld(s, p) == {t \in In(s) : task[t].peer = p}
Step(t, pc) == task' = [task EXCEPT ![t].pc = pc]
Drops(t) == task' = [task EXCEPT ![t] = Idle]

\* PairHandshakeAdmission::new: room for both categories.
OuterFree == Cardinality(OuterHeld) < MaxNormal + MaxPairing
GlobalFree == Cardinality(GlobalHeld) < MaxPairing

\* endpoint.accept in run_bound: without an outer permit the connection is refused.
Accepts(t) ==
  /\ t \in Incoming /\ task[t].pc = "idle" /\ sup = "bound" /\ ep = "open" /\ ~stop.flag
  /\ OuterFree /\ Spend("dial")
  /\ \E p \in Peers : task' = [task EXCEPT ![t] = [pc |-> "alpn", peer |-> p]]
  /\ UNCHANGED <<sup, ep, brk, obs, stop>>

\* route_incoming up to the category permit; a missing permit drops the socket.
Classifies(t, kind) ==
  /\ task[t].pc = "alpn"
  /\ CASE kind = "normal" /\ Cardinality(NormalHeld) < MaxNormal -> Step(t, "tls_n")
       [] kind = "pairing" /\ ~brk.quiescing /\ GlobalFree -> Step(t, "tls_p")
       [] OTHER -> Drops(t)
  /\ UNCHANGED <<sup, ep, brk, obs, stop, left>>

\* TLS names the peer: its share is checked.
Authenticates(t) ==
  /\ \/ /\ task[t].pc = "tls_n"
        /\ IF Cardinality(PeerHeld({"greet"}, task[t].peer)) < MaxPerPeer
           THEN Step(t, "greet") ELSE Drops(t)
     \/ /\ task[t].pc = "tls_p"
        /\ IF ~brk.quiescing /\ Cardinality(PeerHeld({"pair", "o_pair"}, task[t].peer)) < MaxPerPeer
           THEN Step(t, "pair") ELSE Drops(t)
  /\ UNCHANGED <<sup, ep, brk, obs, stop, left>>

\* The handshake ends, fails, exceeds its deadline or (pairing) is cancelled.
Finishes(t) ==
  /\ task[t].pc \in {"alpn", "tls_n", "greet", "tls_p", "pair", "o_global", "o_outer", "o_peer", "o_pair"}
  /\ Drops(t)
  /\ UNCHANGED <<sup, ep, brk, obs, stop, left>>

\* PairHandshakeAdmission::acquire: the pair-global permit first, then the outer
\* one, then the peer's.
Dials(t) ==
  /\ t \in Outgoing /\ task[t].pc = "idle" /\ ~brk.quiescing /\ Spend("pair")
  /\ \E p \in Peers : task' = [task EXCEPT ![t] = [pc |-> "o_global", peer |-> p]]
  /\ UNCHANGED <<sup, ep, brk, obs, stop>>

\* Mutant: the outer permit is taken before the wait for the pair-global one.
TakesOuterFirst(t) ==
  /\ task[t].pc = "o_global" /\ OuterFree /\ ~brk.quiescing
  /\ Step(t, "o_peer")
  /\ UNCHANGED <<sup, ep, brk, obs, stop, left>>

TakesGlobal(t) ==
  /\ task[t].pc = "o_global" /\ GlobalFree /\ ~brk.quiescing
  /\ Step(t, "o_outer")
  /\ UNCHANGED <<sup, ep, brk, obs, stop, left>>

TakesOuter(t) ==
  /\ task[t].pc = "o_outer" /\ OuterFree /\ ~brk.quiescing
  /\ Step(t, "o_peer")
  /\ UNCHANGED <<sup, ep, brk, obs, stop, left>>

BindsPeer(t) ==
  /\ task[t].pc = "o_peer"
  /\ IF ~brk.quiescing /\ Cardinality(PeerHeld({"pair", "o_pair"}, task[t].peer)) < MaxPerPeer
     THEN Step(t, "o_pair") ELSE Drops(t)
  /\ UNCHANGED <<sup, ep, brk, obs, stop, left>>

----------------------------------------------------------------------------

RunStep == Check \/ BindCancelled \/ Binds \/ Retries \/ Detaches \/ Closes \/ Closed
StopStep == QuiesceEnds \/ StopJoins \/ Dropped
TaskStep == \E t \in Incoming \cup Outgoing :
              \/ Accepts(t) \/ (\E k \in {"normal", "pairing", "other"} : Classifies(t, k))
              \/ Authenticates(t) \/ Finishes(t)
              \/ Dials(t) \/ TakesGlobal(t) \/ TakesOuter(t) \/ BindsPeer(t)

Next == \/ RunStep \/ StopStep \/ TaskStep \/ BindFails \/ EndpointCloses \/ QuiesceBegins \/ StopAborts
        \/ StopDrops
        \/ (\E s \in {"Online", "Degraded", "Bound"} : RelayStatus(s))

\* The supervisor task and a started shutdown run; handshakes need no fairness.
Fairness == WF_vars(RunStep) /\ WF_vars(StopStep)

Spec == Init /\ [][Next]_vars /\ Fairness

----------------------------------------------------------------------------

\* "Queued outbound pair work never occupies the capacity reserved for normal
\* inbound pre-authentication": when the outer permits run out, connections not
\* yet known to be pairing hold the whole normal share.
NormalReserved ==
  ~OuterFree => Cardinality(In({"alpn", "tls_n", "greet"})) >= MaxNormal

\* shutdown_until returns with the broker refusing and without an endpoint, even
\* when the wait for the handlers exceeded the deadline and it returned early.
\* When it came to join the supervisor, or the supervisor has been dropped since,
\* the endpoint is closed and no incoming handshake is left; after success the
\* observation says so too.
ReturnedIsReleased ==
  /\ stop.result # "" => brk.quiescing /\ ~brk.attached
  /\ stop.pc = "done" =>
    /\ ep # "open"
    /\ \A t \in Incoming : task[t].pc = "idle"
    /\ stop.result = "ok" => obs = [state |-> "Stopped", bound |-> FALSE]

\* A failed bind or a lost endpoint is followed by another bind until shutdown.
BindsAgain == (sup # "bound") ~> (sup = "bound" \/ brk.quiescing)

\* A shutdown whose quiesce finished returns.
ShutdownReturns == (stop.pc = "wait") ~> (stop.pc = "done")

-----------------------------------------------------------------------------
(* Proofs.  A returned shutdown: the supervisor that has ended owns nothing. *)

Tasks == Incoming \cup Outgoing

TaskShape(f) ==
  /\ f = [t \in Tasks |-> f[t]]
  /\ \A t \in Tasks : f[t] = [pc |-> f[t].pc, peer |-> f[t].peer]

NetTypes ==
  /\ brk \in [attached : BOOLEAN, quiescing : BOOLEAN]
  /\ stop \in [pc : {"idle", "quiesce", "wait", "drop", "done"}, flag : BOOLEAN,
               result : {"", "late", "ok", "failed", "aborted"}]
  /\ TaskShape(task)

\* What ends before what: the flag is raised after the broker was told to
\* refuse, the supervisor ends well only after the flag, and what it owns, the
\* endpoint and the incoming handshakes, goes before it ends.
ReleaseInv ==
  /\ NetTypes
  /\ stop.flag <=> stop.pc \in {"wait", "drop", "done"}
  /\ stop.pc # "idle" \/ stop.result # "" => brk.quiescing
  /\ stop.pc = "drop" => stop.result = "late"
  /\ brk.attached => ~brk.quiescing
  /\ ep = "open" => sup \in {"bound", "closing"}
  /\ sup \in {"closing", "ok"} => stop.flag
  /\ sup = "ok" => obs = [state |-> "Stopped", bound |-> FALSE]
  /\ \A t \in Incoming : task[t].pc # "idle" => sup = "bound"
  /\ stop.pc = "done" => /\ sup \in {"ok", "failed", "aborted"}
                         /\ stop.result = "ok" => sup = "ok"

\* The record of a handshake that does not exist.
LEMMA IdleRecord == Idle.pc = "idle" /\ Idle = [pc |-> "idle", peer |-> Idle.peer]
<1>1. PICK p : p = CHOOSE q \in Peers : TRUE
  BY Zenon
<1>2. Idle = [pc |-> "idle", peer |-> p]
  BY Zenon, <1>1 DEF Idle
<1> QED  BY <1>2

\* Steps at which a handshake holds the pair-global permit.
GlobalSteps == {"tls_p", "pair", "o_outer", "o_peer", "o_pair"}

\* What a step of one handshake may do: an incoming one begins under a bound
\* supervisor, and the pair-global permit is taken only while one is free.
TaskMoved(t) ==
  /\ \A u \in Tasks \ {t} : task'[u] = task[u]
  /\ task[t].pc = "idle" => t \in Outgoing \/ sup = "bound"
  /\ task'[t].pc \in GlobalSteps => task[t].pc \in GlobalSteps \/ GlobalFree

\* Every step of a handshake is such a step, and leaves the supervisor alone.
LEMMA TaskMoves ==
  ASSUME NetTypes, TaskStep
  PROVE  /\ NetTypes' /\ UNCHANGED <<sup, ep, brk, obs, stop>>
         /\ \E t \in Tasks : TaskMoved(t)
<1>1. PICK t \in Tasks :
        \/ Accepts(t) \/ (\E k \in {"normal", "pairing", "other"} : Classifies(t, k))
        \/ Authenticates(t) \/ Finishes(t)
        \/ Dials(t) \/ TakesGlobal(t) \/ TakesOuter(t) \/ BindsPeer(t)
  BY DEF TaskStep, Tasks
<1>2. TaskShape(task) /\ Idle.pc = "idle" /\ Idle = [pc |-> "idle", peer |-> Idle.peer]
  BY IdleRecord DEF NetTypes
<1>3. ASSUME NEW pc, Step(t, pc)
      PROVE  TaskShape(task') /\ task'[t].pc = pc
             /\ \A u \in Tasks \ {t} : task'[u] = task[u]
  BY <1>2, <1>3 DEF Step, TaskShape
<1>4. ASSUME Drops(t)
      PROVE  TaskShape(task') /\ task'[t].pc = "idle"
             /\ \A u \in Tasks \ {t} : task'[u] = task[u]
  BY <1>2, <1>4 DEF Drops, TaskShape
<1>5. ASSUME NEW pc, NEW p \in Peers,
             task' = [task EXCEPT ![t] = [pc |-> pc, peer |-> p]]
      PROVE  TaskShape(task') /\ task'[t].pc = pc
             /\ \A u \in Tasks \ {t} : task'[u] = task[u]
  BY <1>2, <1>5 DEF TaskShape
<1>6. UNCHANGED <<sup, ep, brk, obs, stop>>
  BY <1>1 DEF Accepts, Classifies, Authenticates, Finishes, Dials, TakesGlobal, TakesOuter,
              BindsPeer
<1>7. TaskShape(task') /\ TaskMoved(t)
  <2>1. CASE Accepts(t)
    <3>1. PICK p \in Peers : task' = [task EXCEPT ![t] = [pc |-> "alpn", peer |-> p]]
      BY <2>1 DEF Accepts
    <3>2. /\ TaskShape(task') /\ task'[t].pc = "alpn"
          /\ \A u \in Tasks \ {t} : task'[u] = task[u]
      BY <1>5, <3>1
    <3> QED  BY <2>1, <3>2 DEF Accepts, TaskMoved, GlobalSteps
  <2>2. CASE \E k \in {"normal", "pairing", "other"} : Classifies(t, k)
    <3>1. task[t].pc = "alpn"
          /\ (Step(t, "tls_n") \/ (Step(t, "tls_p") /\ GlobalFree) \/ Drops(t))
      BY <2>2 DEF Classifies
    <3> QED  BY <1>3, <1>4, <3>1 DEF TaskMoved, GlobalSteps
  <2>3. CASE Authenticates(t)
    <3>1. \/ task[t].pc = "tls_n" /\ (Step(t, "greet") \/ Drops(t))
          \/ task[t].pc = "tls_p" /\ (Step(t, "pair") \/ Drops(t))
      BY <2>3 DEF Authenticates
    <3> QED  BY <1>3, <1>4, <3>1 DEF TaskMoved, GlobalSteps
  <2>4. CASE Finishes(t)
    BY <1>4, <2>4 DEF Finishes, TaskMoved, GlobalSteps
  <2>5. CASE Dials(t)
    <3>1. PICK p \in Peers : task' = [task EXCEPT ![t] = [pc |-> "o_global", peer |-> p]]
      BY <2>5 DEF Dials
    <3>2. /\ TaskShape(task') /\ task'[t].pc = "o_global"
          /\ \A u \in Tasks \ {t} : task'[u] = task[u]
      BY <1>5, <3>1
    <3> QED  BY <2>5, <3>2 DEF Dials, TaskMoved, GlobalSteps
  <2>6. CASE TakesGlobal(t) \/ TakesOuter(t) \/ BindsPeer(t)
    <3>1. \/ task[t].pc = "o_global" /\ GlobalFree /\ Step(t, "o_outer")
          \/ task[t].pc = "o_outer" /\ Step(t, "o_peer")
          \/ task[t].pc = "o_peer" /\ (Step(t, "o_pair") \/ Drops(t))
      BY <2>6 DEF TakesGlobal, TakesOuter, BindsPeer
    <3> QED  BY <1>3, <1>4, <3>1 DEF TaskMoved, GlobalSteps
  <2> QED  BY <1>1, <2>1, <2>2, <2>3, <2>4, <2>5, <2>6
<1> QED  BY <1>6, <1>7 DEF NetTypes

\* The other steps keep the types too.
LEMMA AbortedTypes ==
  ASSUME NetTypes
  PROVE  /\ TaskShape(Aborted)
         /\ \A t \in Incoming : Aborted[t].pc = "idle"
         /\ \A t \in Tasks \ Incoming : Aborted[t] = task[t]
BY IdleRecord DEF NetTypes, TaskShape, Tasks, Aborted

\* The invariant holds at the start and no step breaks it.
LEMMA ReleaseInvariant ==
  ASSUME Incoming \cap Outgoing = {}
  PROVE  Spec => []ReleaseInv
<1>1. Init => ReleaseInv
  <2> SUFFICES ASSUME Init  PROVE  ReleaseInv
    OBVIOUS
  <2>1. TaskShape(task) /\ \A t \in Incoming : task[t].pc = "idle"
    BY IdleRecord DEF Init, TaskShape, Tasks
  <2> QED  BY <2>1 DEF Init, ReleaseInv, NetTypes
<1>2. ReleaseInv /\ [Next]_vars => ReleaseInv'
  <2> SUFFICES ASSUME ReleaseInv, [Next]_vars  PROVE  ReleaseInv'
    OBVIOUS
  <2> USE DEF ReleaseInv
  <2>1. CASE Check \/ BindCancelled \/ Retries
    BY <2>1 DEF Check, BindCancelled, Retries, FinishWithout, NetTypes
  <2>2. CASE Binds
    BY <2>2 DEF Binds, NetTypes
  <2>3. CASE Detaches \/ Closes
    BY <2>3, AbortedTypes DEF Detaches, Closes, NetTypes
  <2>4. CASE Closed \/ EndpointCloses \/ BindFails
    BY <2>4 DEF Closed, EndpointCloses, BindFails, NetTypes
  <2>5. CASE QuiesceEnds \/ StopJoins
    BY <2>5 DEF QuiesceEnds, StopJoins, NetTypes
  <2>6. CASE TaskStep
    <3>1. NetTypes /\ NetTypes' /\ UNCHANGED <<sup, ep, brk, obs, stop>>
      BY <2>6, TaskMoves
    <3>2. PICK t \in Tasks : TaskMoved(t)
      BY <2>6, TaskMoves
    <3>3. \A u \in Incoming : task'[u].pc # "idle" => sup' = "bound"
      BY <3>1, <3>2 DEF TaskMoved, Tasks
    <3> QED  BY <3>1, <3>3
  <2>7. CASE QuiesceBegins
    BY <2>7 DEF QuiesceBegins, NetTypes
  <2>8. CASE StopAborts
    BY <2>8, AbortedTypes DEF StopAborts, NetTypes
  <2>9. CASE StopDrops
    BY <2>9 DEF StopDrops, NetTypes
  <2>10. CASE Dropped
    <3>1. /\ ep' = "closed" /\ task' = Aborted /\ UNCHANGED <<brk, obs>>
          /\ stop' = [stop EXCEPT !.pc = "done"] /\ stop.pc = "drop"
      BY Zenon, <2>10 DEF Dropped
    <3>2. /\ sup' \in {"ok", "failed", "aborted"}
          /\ sup' = "ok" => sup = "ok"
      BY <2>10 DEF Dropped
    <3>3. stop'.pc = "done" /\ stop'.result = "late" /\ stop'.flag = TRUE /\ NetTypes'
      BY <3>1, AbortedTypes DEF NetTypes
    <3>4. \A t \in Incoming : task'[t].pc = "idle"
      BY <3>1, AbortedTypes
    <3> QED  BY <3>1, <3>2, <3>3, <3>4
  <2>11. CASE \E s \in {"Online", "Degraded", "Bound"} : RelayStatus(s)
    BY <2>11 DEF RelayStatus, NetTypes
  <2>12. CASE UNCHANGED vars
    BY <2>12 DEF vars, NetTypes
  <2> QED
    BY <2>1, <2>2, <2>3, <2>4, <2>5, <2>6, <2>7, <2>8, <2>9, <2>10, <2>11, <2>12
       DEF Next, RunStep, StopStep
<1> QED  BY <1>1, <1>2, PTL DEF Spec

\* shutdown_until leaves a broker that admits nothing, and it or the drop after
\* it leaves nothing of the network, however its deadline, a failing bind and a
\* closing endpoint race.
THEOREM ReturnedSafe ==
  ASSUME Incoming \cap Outgoing = {}
  PROVE  Spec => []ReturnedIsReleased
<1>1. ReleaseInv => ReturnedIsReleased
  BY DEF ReleaseInv, ReturnedIsReleased
<1> QED  BY <1>1, ReleaseInvariant, PTL

\* The pair-global permits are never exceeded.
GlobalBounded ==
  NetTypes /\ IsFiniteSet(GlobalHeld) /\ Cardinality(GlobalHeld) <= MaxPairing

\* Outbound pairing that waits cannot take the capacity of normal
\* connections: a pairing takes its outer permit only under the pair-global
\* one, of which there are MaxPairing.
THEOREM ReservedSafe ==
  ASSUME IsFiniteSet(Incoming), IsFiniteSet(Outgoing),
         MaxNormal \in Nat, MaxPairing \in Nat
  PROVE  Spec => []NormalReserved
<1>1. IsFiniteSet(Tasks)
  BY FS_Union DEF Tasks
<1>2. Init => GlobalBounded
  <2> SUFFICES ASSUME Init  PROVE  GlobalBounded
    OBVIOUS
  <2>1. NetTypes /\ GlobalHeld = {}
    BY IdleRecord DEF Init, NetTypes, TaskShape, Tasks, GlobalHeld, In
  <2> QED  BY <2>1, FS_EmptySet DEF GlobalBounded
<1>3. GlobalBounded /\ [Next]_vars => GlobalBounded'
  <2> SUFFICES ASSUME GlobalBounded, [Next]_vars  PROVE  GlobalBounded'
    OBVIOUS
  <2>1. NetTypes /\ DOMAIN task = Tasks
    BY DEF GlobalBounded, NetTypes, TaskShape
  <2>2. ASSUME NetTypes', GlobalHeld' \subseteq GlobalHeld  PROVE  GlobalBounded'
    BY <2>2, FS_Subset, FS_CardinalityType DEF GlobalBounded
  <2>3. CASE TaskStep
    <3>1. NetTypes' /\ DOMAIN task' = Tasks
      BY <2>1, <2>3, TaskMoves DEF NetTypes, TaskShape
    <3>2. PICK t \in Tasks : TaskMoved(t)
      BY <2>1, <2>3, TaskMoves
    <3>3. CASE GlobalHeld' \subseteq GlobalHeld
      BY <2>2, <3>1, <3>3
    <3>4. CASE ~(GlobalHeld' \subseteq GlobalHeld)
      <4>1. GlobalHeld' \subseteq GlobalHeld \cup {t} /\ GlobalFree
        BY <2>1, <3>1, <3>2, <3>4 DEF TaskMoved, GlobalHeld, In, GlobalSteps
      <4>2. /\ IsFiniteSet(GlobalHeld \cup {t})
            /\ Cardinality(GlobalHeld \cup {t}) <= Cardinality(GlobalHeld) + 1
            /\ Cardinality(GlobalHeld) \in Nat
            /\ Cardinality(GlobalHeld \cup {t}) \in Nat
        <5> DEFINE S == GlobalHeld
        <5>1. IsFiniteSet(S) /\ Cardinality(S) \in Nat
          BY FS_CardinalityType DEF GlobalBounded
        <5> HIDE DEF S
        <5>2. /\ IsFiniteSet(S \cup {t})
              /\ Cardinality(S \cup {t}) = IF t \in S THEN Cardinality(S) ELSE Cardinality(S) + 1
          BY <5>1, FS_AddElement
        <5> QED  BY <5>1, <5>2 DEF S
      <4>3. /\ IsFiniteSet(GlobalHeld') /\ Cardinality(GlobalHeld') \in Nat
            /\ Cardinality(GlobalHeld') <= Cardinality(GlobalHeld \cup {t})
        BY <4>1, <4>2, FS_Subset, FS_CardinalityType
      <4> QED  BY <3>1, <4>1, <4>2, <4>3 DEF GlobalFree, GlobalBounded
    <3> QED  BY <3>3, <3>4
  <2>4. CASE Detaches \/ Closes \/ StopAborts \/ Dropped
    <3>1. NetTypes'
      BY <2>1, <2>4, AbortedTypes DEF Detaches, Closes, StopAborts, Dropped, NetTypes
    <3>2. task' = Aborted
      BY <2>4 DEF Detaches, Closes, StopAborts, Dropped
    <3>3. \A t \in Tasks : task'[t].pc = "idle" \/ task'[t] = task[t]
      BY <2>1, <3>2, AbortedTypes
    <3>4. GlobalHeld' \subseteq GlobalHeld
      <4>1. DOMAIN task' = Tasks
        BY <3>1 DEF NetTypes, TaskShape
      <4> QED  BY <2>1, <3>3, <4>1 DEF GlobalHeld, In
    <3> QED  BY <2>2, <3>1, <3>4
  <2>5. CASE \/ Check \/ BindCancelled \/ Binds \/ Retries \/ Closed \/ QuiesceEnds \/ StopJoins
             \/ BindFails \/ EndpointCloses \/ QuiesceBegins \/ StopDrops
             \/ (\E s \in {"Online", "Degraded", "Bound"} : RelayStatus(s)) \/ UNCHANGED vars
    <3>1. task' = task
      BY <2>5 DEF Check, BindCancelled, Binds, Retries, Closed, QuiesceEnds, StopJoins,
         BindFails, EndpointCloses, QuiesceBegins, StopDrops, RelayStatus, vars
    <3>2. ASSUME \/ Retries \/ Closed \/ BindFails \/ EndpointCloses \/ UNCHANGED vars
                 \/ (\E s \in {"Online", "Degraded", "Bound"} : RelayStatus(s))
          PROVE  NetTypes'
      BY <2>1, <3>2 DEF Retries, Closed, BindFails, EndpointCloses, RelayStatus, vars, NetTypes
    <3>3. ASSUME Check \/ BindCancelled \/ Binds
          PROVE  NetTypes'
      BY <2>1, <3>1, <3>3 DEF Check, BindCancelled, Binds, FinishWithout, NetTypes
    <3>4. ASSUME QuiesceEnds \/ StopJoins \/ QuiesceBegins \/ StopDrops
          PROVE  NetTypes'
      <4>1. CASE QuiesceEnds
        BY <2>1, <3>1, <4>1 DEF QuiesceEnds, NetTypes
      <4>2. CASE StopJoins
        BY <2>1, <3>1, <4>2 DEF StopJoins, NetTypes
      <4>3. CASE QuiesceBegins
        BY <2>1, <3>1, <4>3 DEF QuiesceBegins, NetTypes
      <4>4. CASE StopDrops
        BY <2>1, <3>1, <4>4 DEF StopDrops, NetTypes
      <4> QED  BY <3>4, <4>1, <4>2, <4>3, <4>4
    <3>5. NetTypes'
      BY <2>5, <3>2, <3>3, <3>4
    <3> QED  BY <2>2, <3>1, <3>5 DEF GlobalHeld, In
  <2> QED  BY <2>3, <2>4, <2>5 DEF Next, RunStep, StopStep
<1>4. GlobalBounded => NormalReserved
  <2> SUFFICES ASSUME GlobalBounded, ~OuterFree
      PROVE  Cardinality(In({"alpn", "tls_n", "greet"})) >= MaxNormal
    BY DEF NormalReserved
  <2> DEFINE A == In({"alpn", "tls_n", "greet"})
  <2>1. DOMAIN task = Tasks
    BY DEF GlobalBounded, NetTypes, TaskShape
  <2>2. IsFiniteSet(A) /\ Cardinality(A) \in Nat
    BY <1>1, <2>1, FS_Subset, FS_CardinalityType DEF In
  <2>3. IsFiniteSet(GlobalHeld) /\ Cardinality(GlobalHeld) \in Nat
    BY FS_CardinalityType DEF GlobalBounded
  <2>4. /\ IsFiniteSet(A \cup GlobalHeld) /\ Cardinality(A \cup GlobalHeld) \in Nat
        /\ Cardinality(A \cup GlobalHeld) <= Cardinality(A) + Cardinality(GlobalHeld)
    <3> DEFINE B == GlobalHeld
    <3> HIDE DEF A, B
    <3>1. IsFiniteSet(A) /\ IsFiniteSet(B) /\ Cardinality(A) \in Nat /\ Cardinality(B) \in Nat
      BY <2>2, <2>3 DEF B
    <3>2. /\ IsFiniteSet(A \cup B)
          /\ Cardinality(A \cup B) = Cardinality(A) + Cardinality(B) - Cardinality(A \cap B)
      BY <3>1, FS_Union
    <3>3. IsFiniteSet(A \cap B)
      BY <3>1, FS_Intersection
    <3>4. Cardinality(A \cap B) \in Nat /\ Cardinality(A \cup B) \in Nat
      BY <3>2, <3>3, FS_CardinalityType
    <3> QED  BY <3>1, <3>2, <3>4 DEF B
  <2>5. OuterHeld \subseteq A \cup GlobalHeld
    BY DEF OuterHeld, GlobalHeld, In
  <2>6. Cardinality(OuterHeld) <= Cardinality(A \cup GlobalHeld) /\ Cardinality(OuterHeld) \in Nat
    BY <2>4, <2>5, FS_Subset, FS_CardinalityType
  <2> HIDE DEF A
  <2>7. Cardinality(A) >= MaxNormal
    BY <2>2, <2>3, <2>4, <2>6 DEF OuterFree, GlobalBounded
  <2> QED  BY <2>7 DEF A
<1> QED  BY <1>2, <1>3, <1>4, PTL DEF Spec
=============================================================================
