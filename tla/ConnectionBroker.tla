-------------------------- MODULE ConnectionBroker --------------------------
(***************************************************************************)
(* The connections between two devices: crates/daemon/src/                 *)
(* connection_broker.rs (candidates, duplicate arbitration, incarnations,  *)
(* demand, dial worker, stream admission), composed with itself, one       *)
(* broker at each end, over QUIC connections that either end may lose      *)
(* first.  crates/client/src/handshake.rs is the greeting they exchange.   *)
(*                                                                         *)
(* A step is what one task does between two awaits, or under one hold of   *)
(* the slot's lock.  Slots of different peers share only the semaphores,   *)
(* whose exhaustion is a retryable failure of a dial here.  A connection   *)
(* is named by its candidate key, initiator first, attempt second; a name  *)
(* is used again once both ends have let go of it, and so is an            *)
(* incarnation nobody remembers: both are random numbers in the code.      *)
(* Counters for the status display are left out.                           *)
(***************************************************************************)
EXTENDS Naturals, FiniteSets, FiniteSetsExt

CONSTANTS
  Attempts,     \* attempt numbers of one initiator, naturals
  Incarnations, \* random identities of an end as connection owner, naturals
  MaxRetired,   \* max_remote_connections, the bound on retired incarnations
  Users,        \* consumers of connectivity: an end and a name each
  Old,          \* ends that may run a release whose greeting names no owner
  FaultKinds,   \* what may go wrong
  MaxFaults,    \* how often
  None

Nodes == {1, 2}
Other(n) == 3 - n
Keys == Nodes \X Attempts

\* What a greeting without an incarnation is seen as.
Bare == <<0, 0>>

ASSUME BrokerAssumption ==
  /\ Attempts \subseteq Nat /\ Incarnations \subseteq Nat
  /\ IsFiniteSet(Attempts) /\ IsFiniteSet(Incarnations)
  /\ MaxRetired \in Nat /\ MaxFaults \in Nat
  /\ \A u \in Users : u[1] \in Nodes
  /\ None \notin Keys \cup (Nodes \X Incarnations) \cup {Bare}

VARIABLES
  slot,      \* PeerState: the registry of each end
  conn,      \* each connection: what it carries, and its task at each end
  worker,    \* the dial worker of each end
  user,      \* the consumers of each end
  endpoint,  \* whether each end's endpoint is bound
  quiescing, \* BrokerLifecycle.shutting_down
  admits,    \* whether each end's authorization registry admits the other
  faults     \* faults so far

vars == <<slot, conn, worker, user, endpoint, quiescing, admits, faults>>

(***************************************************************************)
(* Candidate keys, in the order of their bytes.                            *)
(***************************************************************************)
Before(k, l) == k[1] < l[1] \/ (k[1] = l[1] /\ k[2] < l[2])

\* designated_primary: the least key.
Designated(keys) == CHOOSE k \in keys : \A l \in keys \ {k} : Before(k, l)

(***************************************************************************)
(* State.  accepted stands for remote_acceptance: it is the incarnation    *)
(* that sent the Welcome whose generation the code keeps; bare says that   *)
(* this end runs a release that does not name its incarnation.             *)
(***************************************************************************)
NewSlot ==
  [candidates |-> {}, primary |-> None, accepted |-> None, local |-> None,
   current |-> None, retired |-> {}, error |-> "none", spare |-> FALSE,
   bare |-> FALSE]
FreshSlot(bare) == [NewSlot EXCEPT !.bare = bare]

\* A task of a connection: its next step, the remote_incarnation it has seen,
\* and whether this end holds the link open, has lost it or has closed it.
NewEnd(step) == [step |-> step, saw |-> None, link |-> "open"]
NoConn ==
  [hello |-> None, welcome |-> None, delivered |-> FALSE, refused |-> FALSE,
   end |-> [n \in Nodes |-> NewEnd("none")]]

OffWorker == [step |-> "off", key |-> None, spare |-> FALSE]
NoUser == [step |-> "idle", first |-> FALSE, key |-> None, accepted |-> None]

Init ==
  /\ \E old \in SUBSET Old : slot = [n \in Nodes |-> FreshSlot(n \in old)]
  /\ conn = [k \in Keys |-> NoConn]
  /\ worker = [n \in Nodes |-> OffWorker]
  /\ user \in [Users -> {NoUser, [NoUser EXCEPT !.step = "done"]}]
  /\ endpoint = [n \in Nodes |-> TRUE]
  /\ quiescing = [n \in Nodes |-> FALSE]
  /\ admits = [n \in Nodes |-> TRUE]
  /\ faults \in 0..MaxFaults

End(n, k) == conn[k].end[n]
Step(n, k) == End(n, k).step
Linked(n, k) == End(n, k).link = "open"
Outbound(n, k) == k[1] = n

\* DemandState.count: every consumer between acquire and drop.
Demand(n) ==
  Cardinality({u \in Users : u[1] = n /\ user[u].step \notin {"idle", "done"}})

\* What wait_for_confirmed_primary selects.
Confirmed(n) == slot[n].primary # None /\ slot[n].accepted # None

\* peer_needs_outbound_attempt.
NeedsOutbound(n) ==
  IF slot[n].primary = None
  THEN slot[n].candidates = {}
  ELSE /\ slot[n].accepted = None
       /\ \A k \in slot[n].candidates : ~Outbound(n, k)

(***************************************************************************)
(* What the steps are made of.  Notify::notify_waiters wakes the tasks     *)
(* that wait at this moment and nobody else.                               *)
(***************************************************************************)
Wake(cs, n) ==
  [k \in Keys |-> [cs[k] EXCEPT
     !.end[n].step = IF @ = "waiting" THEN "ready" ELSE @]]
WokenUsers(n) ==
  [u \in Users |->
     IF u[1] = n /\ user[u].step = "waiting"
     THEN [user[u] EXCEPT !.step = "check"] ELSE user[u]]
WakeUsers(n) == user' = WokenUsers(n)

\* Candidate::cancel: the connection is closed at this end.
Cancel(cs, n, keys, unauthorized) ==
  [k \in Keys |->
     IF k \in keys
     THEN [cs[k] EXCEPT !.end[n].link = "closed",
                        !.refused = @ \/ unauthorized]
     ELSE cs[k]]

\* CandidateRegistry::remove.
Without(s, keys) ==
  [s EXCEPT !.candidates = @ \ keys,
            !.primary = IF @ \in keys THEN None ELSE @]

\* The acceptance goes with the last candidate.
Forget(s, keys) ==
  LET left == Without(s, keys)
  IN [left EXCEPT !.accepted = IF left.candidates = {} THEN None ELSE @]

\* PeerState::close_candidates.
CloseCandidates(s) ==
  [s EXCEPT !.candidates = {}, !.primary = None, !.accepted = None,
            !.spare = FALSE]

\* The task of this end is over; a name both ends left is free again.
Over(cs, n, k) ==
  LET c == [cs[k] EXCEPT !.end[n] = [NewEnd("gone") EXCEPT !.link = "closed"]]
  IN [cs EXCEPT ![k] =
        IF \A m \in Nodes : c.end[m].step \in {"none", "gone"}
        THEN NoConn ELSE c]

\* A fresh random incarnation.
Remembered ==
  UNION {slot[n].retired \cup {slot[n].local, slot[n].current,
                               slot[n].accepted} : n \in Nodes}
  \cup UNION {{conn[k].hello, conn[k].welcome}
              \cup {End(n, k).saw : n \in Nodes} : k \in Keys}
FreshIncarnation(n) ==
  <<n, Min({i \in Incarnations : <<n, i>> \notin Remembered})>>

\* ensure_dial_worker, claim_dial_worker: one worker at a time.
Ensured(w) == IF w.step = "off" THEN [OffWorker EXCEPT !.step = "loop"] ELSE w
EnsureDialWorker(n) ==
  worker' = [worker EXCEPT ![n] = IF quiescing[n] THEN @ ELSE Ensured(@)]

\* register_candidate: an owner without any candidate becomes a new one.
RegisterCandidate(n, k) ==
  slot' = [slot EXCEPT
    ![n].local = IF slot[n].candidates = {} THEN FreshIncarnation(n) ELSE @,
    ![n].candidates = @ \cup {k}]

\* PeerIncarnation::observe: whether the handshake is refused or news.
ObserveRefuses(s, inc) ==
  /\ inc # Bare /\ s.current # inc
  /\ \/ inc \in s.retired
     \/ s.current # None /\ Cardinality(s.retired) >= MaxRetired
Observe(s, inc) ==
  [s EXCEPT !.current = inc,
            !.retired = IF s.current \in {None, inc} THEN @ ELSE @ \cup {s.current}]

\* Mutant: the candidates of the owner before are kept.
ObserveKeeping(n, k, inc) ==
  /\ slot' = [slot EXCEPT ![n] = Observe(@, inc)]
  /\ conn' = Wake([conn EXCEPT ![k].end[n].saw = inc,
                               ![k].end[n].step = "observed"], n)
  /\ WakeUsers(n)

\* observe_incarnation: a new owner at the other end retires the candidates
\* known to belong to another one or to none, and what that one had accepted.  A
\* greeting that names no owner changes nothing.
ObserveIncarnation(n, k, inc) ==
  LET old == {l \in slot[n].candidates \ {k} : End(n, l).saw \notin {None, inc}}
      seen == [conn EXCEPT ![k].end[n].saw = inc, ![k].end[n].step = "observed"]
  IN IF inc \in {Bare, slot[n].current}
     THEN slot' = slot /\ conn' = seen /\ UNCHANGED user
     ELSE /\ slot' = [slot EXCEPT ![n] =
               [Without(Observe(@, inc), old) EXCEPT !.accepted = None]]
          /\ conn' = Wake(Cancel(seen, n, old, FALSE), n)
          /\ WakeUsers(n)

\* Mutant: only the connection is closed.
RemoveConnection(n, k, unauthorized) ==
  /\ conn' = Wake(Over(Cancel(conn, n, {k}, unauthorized), n, k), n)
  /\ WakeUsers(n)
  /\ UNCHANGED slot

\* remove_candidate, and the end of the handshake it was called from.
RemoveCandidate(n, k, unauthorized) ==
  /\ slot' = [slot EXCEPT ![n] = Forget(@, {k})]
  /\ conn' = Wake(Over(Cancel(conn, n, {k}, unauthorized), n, k), n)
  /\ WakeUsers(n)

\* candidate_closed: as remove_candidate, and somebody dials if still wanted.
CandidateClosed(n, k) ==
  /\ slot' = [slot EXCEPT ![n] = Forget(@, {k})]
  /\ IF Demand(n) > 0 THEN EnsureDialWorker(n) ELSE UNCHANGED worker

\* close_remote: every candidate of the slot.
CloseRemote(n, unauthorized) ==
  /\ slot' = [slot EXCEPT ![n] = CloseCandidates(@)]
  /\ conn' = Wake(Cancel(conn, n, slot[n].candidates, unauthorized), n)
  /\ WakeUsers(n)

Fault(kind) ==
  kind \in FaultKinds /\ faults < MaxFaults /\ faults' = faults + 1

(***************************************************************************)
(* The dial worker: run_dial_worker and dial_once.                         *)
(***************************************************************************)
WorkerAt(n, step) == worker[n].step = step
WorkerTo(n, step) ==
  worker' = [worker EXCEPT ![n] = [@ EXCEPT !.step = step, !.spare = FALSE]]

WorkerLoop(n) ==
  /\ WorkerAt(n, "loop")
  /\ WorkerTo(n, IF quiescing[n] \/ Demand(n) = 0 \/ slot[n].error = "fatal"
                 THEN "leave"
                 ELSE IF NeedsOutbound(n) THEN "dial" ELSE "idle")
  /\ UNCHANGED <<slot, conn, user, endpoint, quiescing, admits, faults>>

\* Woken, or thirty seconds later.
WorkerWakes(n) ==
  /\ WorkerAt(n, "idle")
  /\ WorkerTo(n, "loop")
  /\ UNCHANGED <<slot, conn, user, endpoint, quiescing, admits, faults>>

\* Needs a bound endpoint; takes the transport a failed request left.
DialOnce(n) ==
  /\ WorkerAt(n, "dial")
  /\ IF endpoint[n]
     THEN /\ worker' = [worker EXCEPT ![n].step = "connecting",
                                      ![n].spare = slot[n].spare]
          /\ slot' = [slot EXCEPT ![n].spare = FALSE]
     ELSE WorkerTo(n, "failed") /\ UNCHANGED slot
  /\ UNCHANGED <<conn, user, endpoint, quiescing, admits, faults>>

\* The demand is looked at once more before a fresh dial.
DialCancelled(n) ==
  /\ WorkerAt(n, "connecting")
  /\ quiescing[n] \/ Demand(n) = 0
  /\ WorkerTo(n, "refused")
  /\ UNCHANGED <<slot, conn, user, endpoint, quiescing, admits, faults>>

\* The transport is authenticated; the candidate is registered.
DialConnects(n) ==
  /\ WorkerAt(n, "connecting")
  /\ endpoint[n] /\ endpoint[Other(n)]
  /\ worker[n].spare \/ (Demand(n) > 0 /\ ~quiescing[n])
  /\ \E a \in Attempts :
       LET k == <<n, a>>
       IN /\ conn[k] = NoConn
          /\ \A b \in Attempts : b < a => conn[<<n, b>>] # NoConn
          /\ IF quiescing[n]
             THEN WorkerTo(n, "unavailable") /\ UNCHANGED <<slot, conn, user>>
             ELSE /\ RegisterCandidate(n, k)
                  /\ conn' = Wake([conn EXCEPT
                       ![k].end[n] = NewEnd("registered"),
                       ![k].end[Other(n)] = NewEnd("accepting")], n)
                  /\ worker' = [worker EXCEPT ![n] =
                       [step |-> "handshake", key |-> k, spare |-> FALSE]]
                  /\ WakeUsers(n)
  /\ UNCHANGED <<endpoint, quiescing, admits, faults>>

\* No route, no permit, or the deadline passes.
DialFails(n) ==
  /\ WorkerAt(n, "connecting")
  /\ IF endpoint[n] /\ endpoint[Other(n)] THEN Fault("timeout") ELSE UNCHANGED faults
  /\ WorkerTo(n, "failed")
  /\ UNCHANGED <<slot, conn, user, endpoint, quiescing, admits>>

\* The outbound handshake of key k ends: what the worker learns of it.
DialEnds(n, k, result) ==
  IF Outbound(n, k) /\ worker[n].key = k
  THEN worker' = [worker EXCEPT ![n] = [OffWorker EXCEPT !.step = result]]
  ELSE UNCHANGED worker

\* A handshake that proved acceptance and only lost the arbitration is no
\* failure; a retryable error is kept during the back-off; another one ends
\* the worker.
DialEnded(n) ==
  /\ worker[n].step \in {"unavailable", "failed", "refused"}
  /\ IF /\ WorkerAt(n, "unavailable")
        /\ slot[n].accepted # None /\ slot[n].candidates # {}
     THEN WorkerTo(n, "loop") /\ UNCHANGED <<slot, conn, user>>
     ELSE LET fatal == WorkerAt(n, "refused")
          IN /\ slot' = [slot EXCEPT ![n].error =
                           IF fatal THEN "fatal" ELSE "retry"]
             /\ WorkerTo(n, IF fatal THEN "leave" ELSE "backoff")
             /\ conn' = Wake(conn, n)
             /\ WakeUsers(n)
  /\ UNCHANGED <<endpoint, quiescing, admits, faults>>

BackoffEnds(n) ==
  /\ WorkerAt(n, "backoff")
  /\ slot' = [slot EXCEPT ![n].error = IF @ = "retry" THEN "none" ELSE @]
  /\ WorkerTo(n, "loop")
  /\ UNCHANGED <<conn, user, endpoint, quiescing, admits, faults>>

\* Mutant: the worker leaves without looking again.
NeverRestart(n) == FALSE

\* Under the lock that clears dial_worker_running, a demand made meanwhile
\* keeps the worker.
ShouldRestart(n) ==
  /\ ~quiescing[n] /\ Demand(n) > 0
  /\ slot[n].error = "none" /\ ~Confirmed(n)
WorkerLeaves(n) ==
  /\ WorkerAt(n, "leave")
  /\ WorkerTo(n, IF ShouldRestart(n) THEN "loop" ELSE "off")
  /\ UNCHANGED <<slot, conn, user, endpoint, quiescing, admits, faults>>

(***************************************************************************)
(* The greeting: run_outbound_handshake, run_inbound_handshake.            *)
(***************************************************************************)
\* connection_identity: the owner that a greeting names.
Identity(n) == IF slot[n].bare THEN Bare ELSE slot[n].local

SendHello(n, k) ==
  /\ Outbound(n, k) /\ Step(n, k) = "registered" /\ Linked(n, k)
  /\ conn' = [conn EXCEPT ![k].hello = Identity(n), ![k].end[n].step = "hello"]
  /\ UNCHANGED <<slot, worker, user, endpoint, quiescing, admits, faults>>

\* A Welcome that was delivered can still be read after the peer closed.
Readable(n, k) ==
  Linked(n, k)
  \/ (Step(n, k) = "hello" /\ End(n, k).link = "lost" /\ conn[k].delivered)

ReadWelcome(n, k) ==
  /\ Outbound(n, k) /\ Step(n, k) = "hello" /\ conn[k].welcome # None
  /\ Readable(n, k)
  /\ IF ObserveRefuses(slot[n], conn[k].welcome)
     THEN RemoveCandidate(n, k, FALSE) /\ DialEnds(n, k, "unavailable")
     ELSE ObserveIncarnation(n, k, conn[k].welcome) /\ UNCHANGED worker
  /\ UNCHANGED <<endpoint, quiescing, admits, faults>>

HandshakeFails(n, k) ==
  /\ Outbound(n, k) /\ Step(n, k) \in {"registered", "hello"}
  /\ IF Readable(n, k) THEN Fault("timeout") ELSE UNCHANGED faults
  /\ RemoveCandidate(n, k, FALSE)
  /\ DialEnds(n, k, IF Readable(n, k) THEN "failed"
                    ELSE IF End(n, k).link = "lost" /\ conn[k].refused
                    THEN "refused" ELSE "unavailable")
  /\ UNCHANGED <<endpoint, quiescing, admits>>

\* Another hold of the lock than the one that observed the incarnation.
RecordAcceptance(n, k) ==
  /\ Outbound(n, k) /\ Step(n, k) = "observed"
  /\ slot' = [slot EXCEPT ![n].accepted = conn[k].welcome, ![n].error = "none"]
  /\ conn' = Wake([conn EXCEPT ![k].end[n].step = "ready"], n)
  /\ WakeUsers(n)
  /\ UNCHANGED <<worker, endpoint, quiescing, admits, faults>>

\* accept_normal, then the Hello.
ReceiveHello(n, k) ==
  /\ Step(n, k) = "accepting" /\ Linked(n, k)
  /\ IF admits[n]
     THEN /\ conn[k].hello # None
          /\ conn' = [conn EXCEPT ![k].end[n].step = "arrived"]
     ELSE conn' = Over(Cancel(conn, n, {k}, TRUE), n, k)
  /\ UNCHANGED <<slot, worker, user, endpoint, quiescing, admits, faults>>

AcceptFails(n, k) ==
  /\ Step(n, k) \in {"accepting", "arrived"}
  /\ ~Linked(n, k) \/ ~endpoint[n]
  /\ conn' = Over(conn, n, k)
  /\ UNCHANGED <<slot, worker, user, endpoint, quiescing, admits, faults>>

RegisterInbound(n, k) ==
  /\ Step(n, k) = "arrived"
  /\ IF quiescing[n]
     THEN conn' = Over(conn, n, k) /\ UNCHANGED <<slot, user>>
     ELSE /\ RegisterCandidate(n, k)
          /\ conn' = Wake([conn EXCEPT ![k].end[n].step = "registered"], n)
          /\ WakeUsers(n)
  /\ UNCHANGED <<worker, endpoint, quiescing, admits, faults>>

\* The admission is checked again after registration.
ObserveHello(n, k) ==
  /\ ~Outbound(n, k) /\ Step(n, k) = "registered"
  /\ IF ~admits[n] \/ ObserveRefuses(slot[n], conn[k].hello)
     THEN RemoveCandidate(n, k, ~admits[n])
     ELSE ObserveIncarnation(n, k, conn[k].hello)
  /\ UNCHANGED <<worker, endpoint, quiescing, admits, faults>>

SendWelcome(n, k) ==
  /\ ~Outbound(n, k) /\ Step(n, k) = "observed"
  /\ IF Linked(n, k)
     THEN /\ conn' = [conn EXCEPT ![k].welcome = Identity(n),
                                  ![k].end[n].step = "sent"]
          /\ UNCHANGED <<slot, user>>
     ELSE RemoveCandidate(n, k, FALSE)
  /\ UNCHANGED <<worker, endpoint, quiescing, admits, faults>>

\* Mutant: arbitration does not wait.
PromoteUndelivered(n, k) ==
  /\ ~Outbound(n, k) /\ Step(n, k) = "sent"
  /\ conn' = [conn EXCEPT ![k].end[n].step = "ready"]
  /\ UNCHANGED <<slot, worker, user, endpoint, quiescing, admits, faults>>

\* Arbitration waits until the Welcome has reached the other end.
AwaitDelivery(n, k) ==
  /\ ~Outbound(n, k) /\ Step(n, k) = "sent"
  /\ Linked(n, k) /\ Linked(Other(n), k)
  /\ conn' = [conn EXCEPT ![k].delivered = TRUE, ![k].end[n].step = "ready"]
  /\ UNCHANGED <<slot, worker, user, endpoint, quiescing, admits, faults>>

DeliveryFails(n, k) ==
  /\ ~Outbound(n, k) /\ Step(n, k) = "sent"
  /\ IF Linked(n, k) THEN Fault("timeout") ELSE UNCHANGED faults
  /\ RemoveCandidate(n, k, FALSE)
  /\ UNCHANGED <<worker, endpoint, quiescing, admits>>

(***************************************************************************)
(* Arbitration: promote_candidate around mark_ready_and_decide.            *)
(***************************************************************************)
Outranked(s, k) == IF s.primary = None THEN FALSE ELSE Before(s.primary, k)

Promote(n, k) ==
  /\ Step(n, k) = "ready"
  /\ LET s == slot[n] IN
     \/ /\ k \notin s.candidates
        /\ conn' = Over(Cancel(conn, n, {k}, FALSE), n, k)
        /\ DialEnds(n, k, "unavailable")
        /\ UNCHANGED <<slot, user>>
     \/ /\ k \in s.candidates
        /\ Outranked(s, k)
        /\ slot' = [slot EXCEPT ![n] = Without(@, {k})]
        /\ conn' = Wake(Over(Cancel(conn, n, {k}, FALSE), n, k), n)
        /\ WakeUsers(n)
        /\ DialEnds(n, k, "unavailable")
     \/ /\ k \in s.candidates
        /\ ~Outranked(s, k)
        /\ Designated(s.candidates) # k
        /\ conn' = [conn EXCEPT ![k].end[n].step = "decided"]
        /\ UNCHANGED <<slot, worker, user>>
     \/ /\ k \in s.candidates
        /\ ~Outranked(s, k)
        /\ Designated(s.candidates) = k
        /\ slot' = [slot EXCEPT ![n].primary = k, ![n].candidates = {k}]
        /\ conn' = Wake([Cancel(conn, n, s.candidates \ {k}, FALSE) EXCEPT
                           ![k].end[n].step = "actor"], n)
        /\ WakeUsers(n)
        /\ DialEnds(n, k, "loop")
  /\ UNCHANGED <<endpoint, quiescing, admits, faults>>

\* A notification between the decision and the wait is lost.
WaitForNotify(n, k) ==
  /\ Step(n, k) = "decided"
  /\ conn' = [conn EXCEPT ![k].end[n].step = "waiting"]
  /\ UNCHANGED <<slot, worker, user, endpoint, quiescing, admits, faults>>

\* The deadline of the wait passes: it must when no notification is to come,
\* it may (a fault) when one is.
Settled(n, k) ==
  \/ k \notin slot[n].candidates \/ Outranked(slot[n], k)
  \/ Designated(slot[n].candidates) = k
WaitTimesOut(n, k) ==
  /\ Step(n, k) \in {"decided", "waiting"}
  /\ IF Settled(n, k) THEN UNCHANGED faults ELSE Fault("timeout")
  /\ RemoveCandidate(n, k, FALSE)
  /\ DialEnds(n, k, "failed")
  /\ UNCHANGED <<endpoint, quiescing, admits>>

\* Mutant: the actor only listens for its cancellation.
ActorCancelled(n, k) ==
  /\ Step(n, k) = "actor"
  /\ End(n, k).link = "closed"
  /\ CandidateClosed(n, k)
  /\ conn' = Wake(Over(conn, n, k), n)
  /\ WakeUsers(n)
  /\ UNCHANGED <<endpoint, quiescing, admits, faults>>

\* run_connection_actor ends: cancelled, closed, or no longer admitted.
ActorEnds(n, k) ==
  /\ Step(n, k) = "actor"
  /\ ~Linked(n, k) \/ (~Outbound(n, k) /\ ~admits[n])
  /\ CandidateClosed(n, k)
  /\ conn' = Wake(Over(Cancel(conn, n, {k}, Linked(n, k)), n, k), n)
  /\ WakeUsers(n)
  /\ UNCHANGED <<endpoint, quiescing, admits, faults>>

\* The other end is gone, or (a fault) silent for too long: either end may
\* find out first.
LinkLost(n, k) ==
  /\ Step(n, k) \notin {"none", "gone"} /\ Linked(n, k)
  /\ IF Linked(Other(n), k) THEN Fault("link") ELSE UNCHANGED faults
  /\ conn' = [conn EXCEPT ![k].end[n].link = "lost"]
  /\ UNCHANGED <<slot, worker, user, endpoint, quiescing, admits>>

(***************************************************************************)
(* Consumers: ConnectionDemand.                                            *)
(***************************************************************************)
UserAt(u, step) == user[u].step = step
UserTo(u, step) == user' = [user EXCEPT ![u].step = step]

\* DemandState::acquire: the count first,
AcquireDemand(n, u) ==
  /\ u[1] = n
  /\ UserAt(u, "idle") /\ ~quiescing[n]
  /\ user' = [user EXCEPT ![u] =
                [NoUser EXCEPT !.step = "acquired", !.first = Demand(n) = 0]]
  /\ UNCHANGED <<slot, conn, worker, endpoint, quiescing, admits, faults>>

\* then begin_demand_cycle and the worker.
BeginDemand(n, u) ==
  /\ u[1] = n
  /\ UserAt(u, "acquired")
  /\ slot' = [slot EXCEPT ![n].error = IF user[u].first THEN "none" ELSE @]
  /\ EnsureDialWorker(n)
  /\ conn' = Wake(conn, n)
  /\ user' = [WokenUsers(n) EXCEPT ![u] =
       [NoUser EXCEPT !.step = IF quiescing[n] THEN "failed" ELSE "check"]]
  /\ UNCHANGED <<endpoint, quiescing, admits, faults>>

\* wait_for_confirmed_primary: registered for notification before it looks.
CheckPrimary(n, u) ==
  /\ u[1] = n
  /\ UserAt(u, "check")
  /\ IF quiescing[n] \/ slot[n].error = "fatal"
     THEN UserTo(u, "failed") /\ UNCHANGED worker
     ELSE IF Confirmed(n)
     THEN /\ user' = [user EXCEPT ![u] =
               [@ EXCEPT !.step = "picked", !.key = slot[n].primary,
                         !.accepted = slot[n].accepted]]
          /\ UNCHANGED worker
     ELSE UserTo(u, "waiting") /\ EnsureDialWorker(n)
  /\ UNCHANGED <<slot, conn, endpoint, quiescing, admits, faults>>

\* open_bi: the selection must still stand after the stream permit.
OpenBi(n, u) ==
  /\ u[1] = n
  /\ UserAt(u, "picked")
  /\ LET k == user[u].key
         stands == slot[n].primary = k /\ slot[n].accepted = user[u].accepted
     IN IF stands /\ ~Linked(n, k)
        THEN /\ CandidateClosed(n, k)
             /\ conn' = Wake(Cancel(conn, n, {k}, FALSE), n)
             /\ user' = [WokenUsers(n) EXCEPT ![u] =
                          [NoUser EXCEPT !.step = "check"]]
        ELSE /\ user' = [user EXCEPT ![u] =
                  IF stands THEN [@ EXCEPT !.step = "stream", !.accepted = None]
                  ELSE [NoUser EXCEPT !.step = "check"]]
             /\ UNCHANGED <<slot, conn, worker>>
  /\ UNCHANGED <<endpoint, quiescing, admits, faults>>

\* The request's deadline passes, or its caller gives up.
UserDeadline(n, u) ==
  /\ u[1] = n
  /\ user[u].step \in {"waiting", "picked"}
  /\ user' = [user EXCEPT ![u] = [NoUser EXCEPT !.step = "failed"]]
  /\ UNCHANGED <<slot, conn, worker, endpoint, quiescing, admits, faults>>

\* Drop, after the stream or the error.
ReleaseDemand(n, u) ==
  /\ u[1] = n
  /\ user[u].step \in {"stream", "failed"}
  /\ user' = [WokenUsers(n) EXCEPT ![u] = [NoUser EXCEPT !.step = "done"]]
  /\ conn' = Wake(conn, n)
  /\ UNCHANGED <<slot, worker, endpoint, quiescing, admits, faults>>

\* Streams of either end on the connection, other than the one that failed.
Busy(u, k) ==
  \E v \in Users \ {u} : UserAt(v, "stream") /\ user[v].key = k

\* retire_failed_candidate after a request got no answer: nothing is done when
\* somebody else holds the slot's lock.  The consumer then asks for a stream
\* again, with or without a transport dialed meanwhile.
RetireFailedCandidate(n, u) ==
  /\ u[1] = n
  /\ UserAt(u, "stream")
  /\ LET k == user[u].key IN
     /\ IF k = slot[n].primary /\ Linked(n, k) THEN Fault("silence") ELSE UNCHANGED faults
     /\ \E silent, spare, locked \in BOOLEAN :
          IF locked /\ k = slot[n].primary /\ (silent \/ ~Busy(u, k))
          THEN /\ slot' = [slot EXCEPT ![n] =
                    [Forget(@, {k}) EXCEPT !.spare = spare]]
               /\ conn' = Wake(Cancel(conn, n, {k}, FALSE), n)
          ELSE UNCHANGED <<slot, conn>>
  /\ user' = [WokenUsers(n) EXCEPT ![u] = [NoUser EXCEPT !.step = "check"]]
  /\ UNCHANGED <<worker, endpoint, quiescing, admits>>

(***************************************************************************)
(* The endpoint, its supervisor, and the authorization of the other end.   *)
(***************************************************************************)
\* detach_endpoint.
DetachEndpoint(n) ==
  /\ endpoint[n] /\ Fault("detach")
  /\ endpoint' = [endpoint EXCEPT ![n] = FALSE]
  /\ CloseRemote(n, FALSE)
  /\ UNCHANGED <<worker, quiescing, admits>>

\* attach_endpoint: of the errors that are retried, TransportUnavailable alone is
\* cleared.
AttachEndpoint(n) ==
  /\ ~endpoint[n] /\ ~quiescing[n]
  /\ endpoint' = [endpoint EXCEPT ![n] = TRUE]
  /\ \E e \in {slot[n].error} \cup (IF slot[n].error = "retry" THEN {"none"} ELSE {}) :
       slot' = [slot EXCEPT ![n].error = e]
  /\ conn' = Wake(conn, n)
  /\ WakeUsers(n)
  /\ UNCHANGED <<worker, quiescing, admits, faults>>

\* quiesce_until.
Quiesce(n) ==
  /\ ~quiescing[n] /\ Fault("quiesce")
  /\ quiescing' = [quiescing EXCEPT ![n] = TRUE]
  /\ endpoint' = [endpoint EXCEPT ![n] = FALSE]
  /\ CloseRemote(n, FALSE)
  /\ UNCHANGED <<worker, admits>>

\* The process dies and comes back without a trace of its connections, and maybe
\* in a later release.
Restart(n) ==
  /\ Fault("restart")
  /\ \E bare \in {FALSE, slot[n].bare} : slot' = [slot EXCEPT ![n] = FreshSlot(bare)]
  /\ conn' = [k \in Keys |->
       IF Step(n, k) = "none" THEN conn[k] ELSE Over(conn, n, k)[k]]
  /\ worker' = [worker EXCEPT ![n] = OffWorker]
  /\ user' = [u \in Users |->
       IF u[1] = n /\ user[u].step # "idle"
       THEN [NoUser EXCEPT !.step = "done"] ELSE user[u]]
  /\ endpoint' = [endpoint EXCEPT ![n] = TRUE]
  /\ quiescing' = [quiescing EXCEPT ![n] = FALSE]
  /\ UNCHANGED admits

\* A revocation publishes first and closes then.
Revoke(n) ==
  /\ admits[n] /\ Fault("revoke")
  /\ admits' = [admits EXCEPT ![n] = FALSE]
  /\ CloseRemote(n, TRUE)
  /\ UNCHANGED <<worker, endpoint, quiescing>>

\* A retired incarnation is forgotten at its deadline, which is meant to outlast
\* every handshake that carries it and is not checked against any: that one does
\* outlive it is a fault.
ExpireRetired(n, inc) ==
  /\ inc \in slot[n].retired
  /\ IF \E k \in Keys : inc \in {conn[k].hello, conn[k].welcome}
     THEN Fault("outlived") ELSE UNCHANGED faults
  /\ slot' = [slot EXCEPT ![n].retired = @ \ {inc}]
  /\ UNCHANGED <<conn, worker, user, endpoint, quiescing, admits>>

-----------------------------------------------------------------------------
WorkerStep(n) ==
  \/ WorkerLoop(n) \/ WorkerWakes(n) \/ DialOnce(n) \/ DialCancelled(n)
  \/ DialConnects(n) \/ DialFails(n) \/ DialEnded(n) \/ BackoffEnds(n) \/ WorkerLeaves(n)

TaskStep(n, k) ==
  \/ SendHello(n, k) \/ ReadWelcome(n, k) \/ RecordAcceptance(n, k)
  \/ ReceiveHello(n, k) \/ AcceptFails(n, k) \/ RegisterInbound(n, k)
  \/ ObserveHello(n, k) \/ SendWelcome(n, k) \/ AwaitDelivery(n, k)
  \/ HandshakeFails(n, k) \/ DeliveryFails(n, k)
  \/ Promote(n, k) \/ WaitForNotify(n, k) \/ WaitTimesOut(n, k)
  \/ ActorEnds(n, k)

UserStep(n, u) == BeginDemand(n, u) \/ CheckPrimary(n, u) \/ OpenBi(n, u)

Next ==
  \E n \in Nodes :
    \/ WorkerStep(n)
    \/ \E k \in Keys : TaskStep(n, k) \/ LinkLost(n, k)
    \/ \E u \in Users :
         \/ AcquireDemand(n, u) \/ UserStep(n, u) \/ UserDeadline(n, u)
         \/ ReleaseDemand(n, u) \/ RetireFailedCandidate(n, u)
    \/ DetachEndpoint(n) \/ AttachEndpoint(n) \/ Quiesce(n) \/ Restart(n)
    \/ Revoke(n)
    \/ \E i \in Incarnations : ExpireRetired(n, <<Other(n), i>>)

Spec == Init /\ [][Next]_vars

\* The runtime schedules every task; QUIC reports a peer that is gone; the
\* endpoint supervisor binds again; old incarnations expire.  Nothing is
\* assumed of consumers' deadlines or of what they do with a stream.
Fairness ==
  /\ \A n \in Nodes :
       /\ WF_vars(WorkerStep(n))
       /\ WF_vars(AttachEndpoint(n))
       /\ WF_vars(\E inc \in slot[n].retired : ExpireRetired(n, inc))
       /\ \A k \in Keys :
            /\ WF_vars(TaskStep(n, k))
            /\ WF_vars(~Linked(Other(n), k) /\ LinkLost(n, k))
  /\ \A u \in Users : WF_vars(UserStep(u[1], u))
FairSpec == Spec /\ Fairness

-----------------------------------------------------------------------------
(***************************************************************************)
(* Properties.                                                             *)
(***************************************************************************)
\* A candidate in the registry has a task that will promote or remove it
\* (every exit of the handshakes, promote_candidate and the actor): an
\* orphan would keep peer_needs_outbound_attempt from ever dialing again.
CandidatesHaveTasks ==
  \A n \in Nodes : \A k \in slot[n].candidates :
    Step(n, k) \notin {"none", "gone", "accepting", "arrived"}

\* The promoted connection belongs to the owner seen last at the other end, or to
\* one that names none (observe_incarnation, mark_ready_and_decide): also when the
\* handshake of a retired owner outlives its retirement and takes the place back.
PrimaryIsCurrent ==
  \A n \in Nodes : slot[n].primary # None =>
    /\ slot[n].primary \in slot[n].candidates
    /\ End(n, slot[n].primary).saw \in {Bare, slot[n].current}

\* The registry of an end holds connections that are alive, and promotes one
\* of the owner that is alive.
CandidatesSound == CandidatesHaveTasks /\ PrimaryIsCurrent

\* A consumer that waits has a dial worker at work for it (the check under
\* the lock in run_dial_worker), however demand comes and goes.
WaitingIsServed ==
  \A u \in Users : UserAt(u, "waiting") => worker[u[1]].step # "off"

\* Both ends come to keep the same connection, whoever dialed first and
\* whatever was lost on the way (promote_candidate after the Welcome is
\* delivered, candidate_closed).
Converges == <>[](slot[1].primary = slot[2].primary)

\* A consumer gets its stream or is told why not (wait_for_confirmed_primary,
\* run_dial_worker): it does not wait for ever on a peer that runs.
Served ==
  \A u \in Users :
    UserAt(u, "acquired") ~>
      \/ user[u].step \in {"stream", "failed", "done"}
      \/ quiescing[Other(u[1])]

=============================================================================
