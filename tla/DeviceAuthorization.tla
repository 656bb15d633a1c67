------------------------ MODULE DeviceAuthorization ------------------------
(***************************************************************************)
(* Who may control this host: the authorization of one remote device, from *)
(* the pairing that grants it to the revocation that takes it away.        *)
(* crates/daemon/src/: authorization.rs (the in-memory entry and its fair  *)
(* lock), store.rs (the durable row behind the store actor),               *)
(* pairing_service.rs (authorize_consumption), service.rs                  *)
(* (device_revoke_reply), connection_broker.rs (inbound candidates and     *)
(* streams), session_wire.rs (run_effect) and session.rs (the command      *)
(* mailbox of the session actor that runs a remote effect).                *)
(*                                                                         *)
(* Locks, rows and connections of two devices never meet, so the module    *)
(* has one device, the controller.  A step is what a task does between two *)
(* awaits.  Deadlines may pass at any moment (the GiveUp actions).         *)
(***************************************************************************)
EXTENDS Naturals, Sequences, FiniteSets

CONSTANTS
  Inbound,        \* connections the device opens, one stream each
  Outbound,       \* connections this host dials to the device
  Revokers,       \* revoke requests of the local user
  Pairers,        \* inbound pairing handshakes of the device
  Offers,         \* pairing offers
  None,           \* no entry, no waiter, no offer
  MaxGeneration   \* AuthGeneration::MAX, the SQLite integer ceiling

Conns == Inbound \cup Outbound
Writers == Revokers \cup Pairers
Snapshots ==
  [status : {"none", "authorized", "revoked"}, generation : 0 .. MaxGeneration]

ASSUME AuthorizationAssumption ==
  /\ Inbound \cap Outbound = {} /\ Revokers \cap Pairers = {}
  /\ Conns \cap Writers = {}
  /\ None \notin Conns \cup Writers \cup Offers \cup Snapshots
  /\ MaxGeneration \in Nat \ {0}

VARIABLES
  row,        \* device_auth: the durable status and generation
  entry,      \* AuthEntry: the snapshot under the lock and in the watch
  lock,       \* AuthEntry.state: holders, and waiters in order of arrival
  store,      \* the store actor's commands, the first may be running
  candidate,  \* each connection: how far it is, and what it was admitted with
  effect,     \* each connection's stream: its generation and its effect
  actor,      \* the session actor's commands, the first may be running
  attached,   \* generations under which the device has attachments
  revoke,     \* each revoke request
  pair,       \* each pairing handshake
  offer,      \* each offer's state
  granted,    \* history: how often an offer has authorized the device
  revoked,    \* history: the generation of the last revoke reported done
  behind      \* history: a row was committed whose writer had given up

broker == <<candidate, effect>>
history == <<granted, revoked, behind>>
vars == <<row, entry, lock, store, broker, actor, attached, revoke, pair,
          offer, history>>

Snapshot(status, generation) ==
  [status |-> status, generation |-> generation]
NoRow == Snapshot("none", 0)

\* preload: every durable row becomes an entry.
Preloaded(durable) == IF durable = NoRow THEN None ELSE durable

NoCandidate == [step |-> "none", accepted |-> NoRow]
NoEffect == [step |-> "none", generation |-> 0]
IdleWriter == [step |-> "idle", generation |-> 0, offer |-> None]

\* What does not survive the process: the lock, connections and requests.
NoLock == [holders |-> {}, queue |-> <<>>]
NoCandidates == [c \in Conns |-> NoCandidate]
NoEffects == [c \in Conns |-> NoEffect]
Idle(writers) == [w \in writers |-> IdleWriter]

Init ==
  /\ lock = NoLock /\ store = <<>> /\ actor = <<>> /\ attached = {}
  /\ candidate = NoCandidates /\ effect = NoEffects
  /\ revoke = Idle(Revokers) /\ pair = Idle(Pairers)
  /\ row \in {NoRow, Snapshot("authorized", 1)}
  /\ entry = Preloaded(row)
  /\ offer = [o \in Offers |-> "ready"]
  /\ granted = [o \in Offers |-> 0]
  /\ revoked = 0 /\ behind = FALSE

(***************************************************************************)
(* The fair lock.                                                          *)
(***************************************************************************)

\* A queue without one of its places.
Leave(queue, i) ==
  [j \in 1 .. Len(queue) - 1 |-> IF j < i THEN queue[j] ELSE queue[j + 1]]

\* A task waits at one place at most.
Without(queue, x) ==
  IF \E i \in DOMAIN queue : queue[i] = x
  THEN Leave(queue, CHOOSE i \in DOMAIN queue : queue[i] = x) ELSE queue
Queued(x) == [lock EXCEPT !.queue = Append(@, x)]
Released(x) == [holders |-> lock.holders \ {x}, queue |-> Without(lock.queue, x)]

\* A reader shares the lock with readers, a writer with nobody, and nobody
\* overtakes the first waiter.
Grantable(x) ==
  /\ lock.queue # <<>> /\ Head(lock.queue) = x
  /\ IF x \in Conns THEN lock.holders \cap Writers = {} ELSE lock.holders = {}
Held(x) == [holders |-> lock.holders \cup {x}, queue |-> Tail(lock.queue)]

(***************************************************************************)
(* Two actors that take commands one by one behind a gate: the store and   *)
(* the session.  A command whose waiter gives up before it starts is       *)
(* expired and never runs; a started one runs to its end.                  *)
(***************************************************************************)

Command(kind, by, generation, o) ==
  [kind |-> kind, by |-> by, generation |-> generation, offer |-> o,
   gate |-> "queued"]

\* try_start
Startable(queue) == queue # <<>> /\ Head(queue).gate = "queued"
Running(queue) == queue # <<>> /\ Head(queue).gate = "started"
Started(queue) == [queue EXCEPT ![1].gate = "started"]

\* wait_for_*_response after its deadline: expire the command, or abandon it.
StartedFor(queue, x) == Running(queue) /\ Head(queue).by = x
Expired(queue, x) ==
  IF StartedFor(queue, x) THEN [queue EXCEPT ![1].by = None]
  ELSE IF \E i \in DOMAIN queue : queue[i].by = x
  THEN Leave(queue, CHOOSE i \in DOMAIN queue : queue[i].by = x) ELSE queue

StoreStart ==
  /\ Startable(store)
  /\ store' = Started(store)
  /\ UNCHANGED <<row, entry, lock, broker, actor, attached, revoke, pair,
                 offer, history>>

\* The waiter, if it is still there, gets the outcome.
Told(writers, x, step, generation) ==
  [w \in DOMAIN writers |->
     IF w = x THEN [writers[w] EXCEPT !.step = step, !.generation = generation]
     ELSE writers[w]]

\* Mutant: authorizing again keeps the generation.
AuthorizeSame == Snapshot("authorized", row.generation)

\* authorize_device: always the next generation.
AuthorizeDevice == Snapshot("authorized", row.generation + 1)

\* revoke_device: the next generation, unless the row is a tombstone already.
RevokeDevice ==
  IF row.status = "revoked" THEN row
  ELSE Snapshot("revoked", row.generation + 1)

\* A transaction of the store actor commits and its waiter is answered.
StoreCommit ==
  LET command == Head(store)
      next == IF command.kind = "authorize" THEN AuthorizeDevice
              ELSE RevokeDevice
  IN /\ Running(store)
     /\ command.kind = "revoke" => row # NoRow
     /\ next.generation <= MaxGeneration
     /\ row' = next
     /\ store' = Tail(store)
     /\ granted' = [o \in Offers |-> IF o = command.offer THEN granted[o] + 1
                                     ELSE granted[o]]
     /\ revoke' = Told(revoke, command.by, "stored", next.generation)
     /\ pair' = Told(pair, command.by, "stored", next.generation)
     /\ behind' = (behind \/ command.by = None)
     /\ UNCHANGED <<entry, lock, broker, actor, attached, offer, revoked>>

\* It fails: no row to revoke, no generation left, or SQLite refuses.
StoreFail ==
  /\ Running(store)
  /\ store' = Tail(store)
  /\ revoke' = Told(revoke, Head(store).by, "failed", 0)
  /\ pair' = Told(pair, Head(store).by, "failed", 0)
  /\ UNCHANGED <<row, entry, lock, broker, actor, attached, offer, history>>

(***************************************************************************)
(* Connections of the device and their streams.                            *)
(***************************************************************************)

\* admit: the snapshot of an authorized device, from the watch.
Admits == entry # None /\ entry.status = "authorized"

Step(c, step) == [candidate EXCEPT ![c].step = step]
brokerOnly == <<row, entry, lock, store, actor, attached, revoke, pair, offer,
                history>>

\* accept_normal, then the wait for the Hello.
AcceptNormal(c) ==
  /\ c \in Inbound /\ candidate[c].step = "none" /\ effect[c].step = "none"
  /\ Admits
  /\ candidate' = [candidate EXCEPT ![c] =
       [step |-> "admitted", accepted |-> entry]]
  /\ UNCHANGED <<effect, brokerOnly>>

\* register_candidate of an inbound and of a dialled connection.
RegisterCandidate(c) ==
  /\ \/ c \in Inbound /\ candidate[c].step = "admitted"
     \/ c \in Outbound /\ candidate[c].step = "none" /\ effect[c].step = "none"
  /\ candidate' = Step(c, "registered")
  /\ UNCHANGED <<effect, brokerOnly>>

\* recheck_inbound_admission: still exactly the snapshot it was admitted with.
StillAdmitted(c) == Admits /\ entry = candidate[c].accepted

RecheckAdmission(c) ==
  /\ candidate[c].step = "registered"
  /\ candidate' = IF c \in Outbound \/ StillAdmitted(c) THEN Step(c, "ready")
                  ELSE [candidate EXCEPT ![c] = NoCandidate]
  /\ UNCHANGED <<effect, brokerOnly>>

\* promote_candidate and the start of run_connection_actor: an inbound
\* connection needs its admission once more, a dialled one takes what there is.
StartConnectionActor(c) ==
  /\ candidate[c].step = "ready"
  /\ candidate' = [candidate EXCEPT ![c] =
       IF c \in Outbound
       THEN [step |-> "open", accepted |-> IF Admits THEN entry ELSE NoRow]
       ELSE IF StillAdmitted(c) THEN [@ EXCEPT !.step = "open"]
       ELSE NoCandidate]
  /\ UNCHANGED <<effect, brokerOnly>>

\* wait_for_authorization_change, a lost connection or a failed handshake.
CandidateClosed(c) ==
  /\ candidate[c].step # "none"
  /\ candidate' = [candidate EXCEPT ![c] = NoCandidate]
  /\ UNCHANGED <<effect, brokerOnly>>

\* receiver_generation_for_stream
OpenStream(c) ==
  /\ candidate[c].step = "open" /\ effect[c].step = "none"
  /\ Admits
  /\ c \in Inbound =>
       entry.generation = candidate[c].accepted.generation
  /\ effect' = [effect EXCEPT ![c] =
       [step |-> "stream", generation |-> entry.generation]]
  /\ UNCHANGED <<candidate, brokerOnly>>

\* The connection actor ends and aborts its handlers; an effect that runs on
\* a blocking thread goes on.
AbortStream(c) ==
  /\ candidate[c].step = "none" /\ effect[c].step \in {"stream", "waiting"}
  /\ effect' = [effect EXCEPT ![c] = NoEffect]
  /\ lock' = Released(c)
  /\ UNCHANGED <<row, entry, store, candidate, actor, attached, revoke, pair,
                 offer, history>>

(***************************************************************************)
(* run_effect: a remote effect runs under a read permit.                   *)
(***************************************************************************)

EffectStep(c, step) == [effect EXCEPT ![c].step = step]
effectOnly == <<row, entry, store, candidate, attached, revoke, pair, offer,
                history>>

RequestEffect(c) ==
  /\ effect[c].step = "stream"
  /\ effect' = EffectStep(c, "waiting")
  /\ lock' = Queued(c)
  /\ UNCHANGED <<actor, effectOnly>>

\* acquire_commit: the entry must be authorized, at the stream's generation.
Authorizes(c) == Admits /\ entry.generation = effect[c].generation

AcquireCommit(c) ==
  /\ effect[c].step = "waiting" /\ Grantable(c)
  /\ IF Authorizes(c)
     THEN lock' = Held(c) /\ effect' = EffectStep(c, "running")
     ELSE lock' = Released(c) /\ effect' = EffectStep(c, "stream")
  /\ UNCHANGED <<actor, effectOnly>>

GiveUpCommit(c) ==
  /\ effect[c].step = "waiting"
  /\ effect' = EffectStep(c, "stream")
  /\ lock' = Released(c)
  /\ UNCHANGED <<actor, effectOnly>>

\* enqueue_command from the effect's blocking thread.
SendCommand(c) ==
  /\ effect[c].step = "running"
  /\ effect' = EffectStep(c, "sent")
  /\ actor' = Append(actor, Command("effect", c, effect[c].generation, None))
  /\ UNCHANGED <<lock, effectOnly>>

\* Mutant: a started command is abandoned at its deadline too.
CommandAbandoned(c) ==
  /\ effect[c].step = "sent"
  /\ effect' = EffectStep(c, "done")
  /\ UNCHANGED <<actor, lock, effectOnly>>

\* wait_for_command_response: only a command that has not started is given
\* up; for a started one the thread waits as long as it takes.
CommandExpires(c) ==
  /\ effect[c].step = "sent" /\ ~StartedFor(actor, c)
  /\ actor' = Expired(actor, c)
  /\ effect' = EffectStep(c, "done")
  /\ UNCHANGED <<lock, effectOnly>>

\* Mutant: the permit is not dropped.
FinishEffectLeaks(c) ==
  /\ effect[c].step = "done"
  /\ effect' = EffectStep(c, "stream")
  /\ UNCHANGED <<lock, actor, effectOnly>>

\* The blocking thread ends and drops the permit.
FinishEffect(c) ==
  /\ effect[c].step = "done"
  /\ effect' = EffectStep(c, "stream")
  /\ lock' = Released(c)
  /\ UNCHANGED <<actor, effectOnly>>

ActorStart ==
  /\ Startable(actor)
  /\ actor' = Started(actor)
  /\ UNCHANGED <<row, entry, lock, store, broker, attached, revoke, pair,
                 offer, history>>

\* The session actor runs a command: an effect attaches or detaches, or does
\* neither; a DetachRemotePrincipal leaves no attachment of the device.
ActorRun ==
  LET command == Head(actor)
  IN /\ Running(actor)
     /\ actor' = Tail(actor)
     /\ IF command.kind = "effect"
        THEN /\ attached' \in {attached, attached \cup {command.generation},
                               attached \ {command.generation}}
             /\ effect' = EffectStep(command.by, "done")
             /\ UNCHANGED revoke
        ELSE /\ attached' = {}
             /\ revoke' = [r \in Revokers |->
                  IF r = command.by THEN [revoke[r] EXCEPT !.step = "detached"]
                  ELSE revoke[r]]
             /\ UNCHANGED effect
     /\ UNCHANGED <<row, entry, lock, store, candidate, pair, offer, history>>

(***************************************************************************)
(* device_revoke_reply                                                     *)
(***************************************************************************)

RevokeStep(r, step) == [revoke EXCEPT ![r].step = step]
revokeOnly == <<row, pair, offer, granted>>

\* revoke_guard: there is an entry to lock.
Revoke(r) ==
  /\ revoke[r].step = "idle" /\ entry # None
  /\ revoke' = RevokeStep(r, "waiting")
  /\ lock' = Queued(r)
  /\ UNCHANGED <<entry, store, broker, actor, attached, revoked, behind,
                 revokeOnly>>

\* Mutant: published before it is durable.
RevokeLockPublishes(r) ==
  /\ revoke[r].step = "waiting" /\ Grantable(r)
  /\ revoke' = RevokeStep(r, "storing")
  /\ lock' = Held(r)
  /\ store' = Append(store, Command("revoke", r, 0, None))
  /\ entry' = Snapshot("revoked", entry.generation + 1)
  /\ UNCHANGED <<broker, actor, attached, revoked, behind, revokeOnly>>

RevokeLock(r) ==
  /\ revoke[r].step = "waiting" /\ Grantable(r)
  /\ revoke' = RevokeStep(r, "storing")
  /\ lock' = Held(r)
  /\ store' = Append(store, Command("revoke", r, 0, None))
  /\ UNCHANGED <<entry, broker, actor, attached, revoked, behind, revokeOnly>>

RevokePublish(r) ==
  /\ revoke[r].step = "stored"
  /\ revoke' = RevokeStep(r, "closing")
  /\ entry' = Snapshot("revoked", revoke[r].generation)
  /\ behind' = FALSE
  /\ UNCHANGED <<lock, store, broker, actor, attached, revoked, revokeOnly>>

\* Mutant: provisional candidates are left alone.
CloseRemoteOpen(r) ==
  /\ revoke[r].step = "closing"
  /\ revoke' = RevokeStep(r, "closed")
  /\ candidate' = [c \in Conns |->
       IF candidate[c].step = "open" THEN NoCandidate ELSE candidate[c]]
  /\ UNCHANGED <<entry, lock, store, effect, actor, attached, revoked, behind,
                 revokeOnly>>

\* close_remote: every registered candidate is removed and cancelled.
CloseRemote(r) ==
  /\ revoke[r].step = "closing"
  /\ revoke' = RevokeStep(r, "closed")
  /\ candidate' = [c \in Conns |->
       IF candidate[c].step = "admitted" THEN candidate[c] ELSE NoCandidate]
  /\ UNCHANGED <<entry, lock, store, effect, actor, attached, revoked, behind,
                 revokeOnly>>

DetachPrincipal(r) ==
  /\ revoke[r].step = "closed"
  /\ revoke' = RevokeStep(r, "detaching")
  /\ actor' = Append(actor, Command("detach", r, 0, None))
  /\ UNCHANGED <<entry, lock, store, broker, attached, revoked, behind,
                 revokeOnly>>

\* The permit is dropped and the revocation is reported.
RevokeDone(r) ==
  /\ revoke[r].step = "detached"
  /\ revoke' = [revoke EXCEPT ![r] = IdleWriter]
  /\ lock' = Released(r)
  /\ revoked' = revoke[r].generation
  /\ UNCHANGED <<entry, store, broker, actor, attached, behind, revokeOnly>>

\* The request fails or runs into its deadline: the permit is dropped, what
\* has happened stays, and a command that is running goes on without it.
RevokeGiveUp(r) ==
  /\ revoke[r].step \notin {"idle", "detached"}
  /\ revoke' = [revoke EXCEPT ![r] = IdleWriter]
  /\ lock' = Released(r)
  /\ store' = Expired(store, r)
  /\ actor' = Expired(actor, r)
  /\ behind' = (behind \/ revoke[r].step = "stored")
  /\ UNCHANGED <<entry, broker, attached, revoked, revokeOnly>>

(***************************************************************************)
(* authorize_consumption                                                   *)
(***************************************************************************)

PairStep(p, step) == [pair EXCEPT ![p].step = step]
pairOnly == <<row, broker, actor, attached, revoke, granted, revoked>>

\* try_consume_until, then authorize_guard, which makes the entry if need be.
TryConsume(p, o) ==
  /\ pair[p].step = "idle" /\ offer[o] = "ready"
  /\ pair' = [pair EXCEPT ![p] =
       [step |-> "waiting", generation |-> 0, offer |-> o]]
  /\ offer' = [offer EXCEPT ![o] = "consuming"]
  /\ entry' = IF entry = None THEN NoRow ELSE entry
  /\ lock' = Queued(p)
  /\ UNCHANGED <<store, behind, pairOnly>>

PairLock(p) ==
  /\ pair[p].step = "waiting" /\ Grantable(p)
  /\ pair' = PairStep(p, "storing")
  /\ lock' = Held(p)
  /\ store' = Append(store, Command("authorize", p, 0, pair[p].offer))
  /\ UNCHANGED <<entry, offer, behind, pairOnly>>

\* rollback: the store has certainly not authorized; the offer opens again,
\* or it has expired.
PairRollback(p) ==
  /\ pair[p].step \in {"waiting", "storing", "failed"}
  /\ ~StartedFor(store, p)
  /\ \E state \in {"ready", "expired"} :
       offer' = [offer EXCEPT ![pair[p].offer] = state]
  /\ pair' = [pair EXCEPT ![p] = IdleWriter]
  /\ lock' = Released(p)
  /\ store' = Expired(store, p)
  /\ UNCHANGED <<entry, behind, pairOnly>>

\* Mutant: an unknown outcome is rolled back like a failure.
PairUnknownReopens(p) ==
  /\ StartedFor(store, p)
  /\ pair' = [pair EXCEPT ![p] = IdleWriter]
  /\ offer' = [offer EXCEPT ![pair[p].offer] = "ready"]
  /\ lock' = Released(p)
  /\ store' = Expired(store, p)
  /\ UNCHANGED <<entry, behind, pairOnly>>

\* OperationOutcomeUnknown: the deadline that has passed also refuses the
\* read-back, so the permit is dropped and the offer stays consuming.
PairUnknown(p) ==
  /\ StartedFor(store, p)
  /\ pair' = [pair EXCEPT ![p] = IdleWriter]
  /\ lock' = Released(p)
  /\ store' = Expired(store, p)
  /\ UNCHANGED <<entry, offer, behind, pairOnly>>

\* Mutant: the new authorization is not published.
PairCommitUnpublished(p) ==
  /\ pair[p].step = "stored"
  /\ offer' = [offer EXCEPT ![pair[p].offer] = "consumed"]
  /\ pair' = PairStep(p, "accepting")
  /\ UNCHANGED <<entry, lock, store, behind, pairOnly>>

\* commit, publish, and the reply to the device, still under the permit.  A
\* commit that fails leaves the offer as it is; the row is published all the
\* same and the permit dropped.
PairCommit(p) ==
  /\ pair[p].step = "stored"
  /\ entry' = Snapshot("authorized", pair[p].generation)
  /\ behind' = FALSE
  /\ \/ /\ offer' = [offer EXCEPT ![pair[p].offer] = "consumed"]
        /\ pair' = PairStep(p, "accepting") /\ UNCHANGED lock
     \/ /\ pair' = [pair EXCEPT ![p] = IdleWriter]
        /\ lock' = Released(p) /\ UNCHANGED offer
  /\ UNCHANGED <<store, pairOnly>>

PairReply(p) ==
  /\ pair[p].step = "accepting"
  /\ pair' = [pair EXCEPT ![p] = IdleWriter]
  /\ lock' = Released(p)
  /\ UNCHANGED <<entry, store, offer, behind, pairOnly>>

\* Mutant: an offer expires although a handshake holds it.
OfferExpiresHeld(o) ==
  /\ offer[o] \in {"ready", "consuming"}
  /\ offer' = [offer EXCEPT ![o] = "expired"]
  /\ UNCHANGED <<row, entry, lock, store, broker, actor, attached, revoke,
                 pair, history>>

\* expire_ready_locked
OfferExpires(o) ==
  /\ offer[o] = "ready"
  /\ offer' = [offer EXCEPT ![o] = "expired"]
  /\ UNCHANGED <<row, entry, lock, store, broker, actor, attached, revoke,
                 pair, history>>

\* The daemon dies and starts again: it has the durable rows and no offers.
Restart ==
  /\ lock' = NoLock /\ store' = <<>> /\ actor' = <<>> /\ attached' = {}
  /\ candidate' = NoCandidates /\ effect' = NoEffects
  /\ revoke' = Idle(Revokers) /\ pair' = Idle(Pairers)
  /\ entry' = Preloaded(row)
  /\ offer' = [o \in Offers |->
       IF offer[o] = "consumed" THEN "consumed" ELSE "expired"]
  /\ behind' = FALSE
  /\ UNCHANGED <<row, granted, revoked>>

Connection(c) ==
  \/ AcceptNormal(c) \/ RegisterCandidate(c) \/ RecheckAdmission(c)
  \/ StartConnectionActor(c) \/ CandidateClosed(c) \/ OpenStream(c)
  \/ AbortStream(c)
Effect(c) ==
  \/ RequestEffect(c) \/ AcquireCommit(c) \/ GiveUpCommit(c)
  \/ SendCommand(c) \/ CommandExpires(c) \/ FinishEffect(c)
RevokeProceeds(r) ==
  \/ RevokeLock(r) \/ RevokePublish(r) \/ CloseRemote(r)
  \/ DetachPrincipal(r) \/ RevokeDone(r)
PairProceeds(p) == PairLock(p) \/ PairCommit(p) \/ PairReply(p)
Actors == StoreStart \/ StoreCommit \/ StoreFail \/ ActorStart \/ ActorRun

Next ==
  \/ Actors \/ Restart
  \/ \E c \in Conns : Connection(c) \/ Effect(c)
  \/ \E r \in Revokers : Revoke(r) \/ RevokeProceeds(r) \/ RevokeGiveUp(r)
  \/ \E p \in Pairers : PairProceeds(p) \/ PairRollback(p) \/ PairUnknown(p)
  \/ \E p \in Pairers, o \in Offers : TryConsume(p, o)
  \/ \E o \in Offers : OfferExpires(o)

Spec == Init /\ [][Next]_vars

\* Tasks that hold the permit or serve a holder run on; nobody has to ask for
\* anything, and no deadline has to pass.
FairSpec ==
  /\ Spec
  /\ WF_vars(StoreStart) /\ WF_vars(StoreCommit \/ StoreFail)
  /\ WF_vars(ActorStart) /\ WF_vars(ActorRun)
  /\ \A c \in Conns :
       /\ WF_vars(AcquireCommit(c)) /\ WF_vars(SendCommand(c))
       /\ WF_vars(FinishEffect(c))
  /\ \A r \in Revokers :
       /\ WF_vars(RevokeProceeds(r))
       /\ WF_vars(revoke[r].step = "failed" /\ RevokeGiveUp(r))
  /\ \A p \in Pairers :
       /\ WF_vars(PairProceeds(p))
       /\ WF_vars(pair[p].step = "failed" /\ PairRollback(p))

-----------------------------------------------------------------------------
(***************************************************************************)
(* Properties                                                              *)
(***************************************************************************)

WriterSteps == {"idle", "waiting", "storing", "stored", "failed", "closing",
                "closed", "detaching", "detached", "accepting"}
Commands ==
  [kind : {"authorize", "revoke", "effect", "detach"},
   by : Conns \cup Writers \cup {None}, generation : 0 .. MaxGeneration,
   offer : Offers \cup {None}, gate : {"queued", "started"}]

\* The state has its shape; a snapshot has generation zero exactly when it has
\* no row behind it (validate_snapshot, project_authorization).
TypeOK ==
  /\ row \in Snapshots /\ entry \in Snapshots \cup {None}
  /\ row.status = "none" <=> row.generation = 0
  /\ entry # None => (entry.status = "none" <=> entry.generation = 0)
  /\ lock \in [holders : SUBSET (Conns \cup Writers), queue : Seq(Conns \cup Writers)]
  /\ store \in Seq(Commands) /\ actor \in Seq(Commands)
  /\ candidate \in [Conns -> [step : {"none", "admitted", "registered",
                                      "ready", "open"}, accepted : Snapshots]]
  /\ effect \in [Conns -> [step : {"none", "stream", "waiting", "running",
                                   "sent", "done"},
                           generation : 0 .. MaxGeneration]]
  /\ attached \subseteq 1 .. MaxGeneration
  /\ revoke \in [Revokers -> [step : WriterSteps, offer : {None},
                              generation : 0 .. MaxGeneration]]
  /\ pair \in [Pairers -> [step : WriterSteps, offer : Offers \cup {None},
                           generation : 0 .. MaxGeneration]]
  /\ offer \in [Offers -> {"ready", "consuming", "consumed", "expired"}]

\* A remote effect, from its permit until the session actor has run its
\* command, sees the authorization it was admitted with: no revocation and no
\* new pairing is published under it, whatever deadlines pass.
EffectAuthorized ==
  /\ \A c \in Conns : effect[c].step \in {"running", "sent", "done"} =>
       Admits /\ entry.generation = effect[c].generation
  /\ \A i \in DOMAIN actor : actor[i].kind = "effect" =>
       Admits /\ entry.generation = actor[i].generation

\* Once a revocation is reported done, nothing of the device is left from
\* before: no admitted connection, no effect, no command in the session actor
\* and no attachment, whatever was in flight when it began.
RevokedIsGone ==
  /\ entry # None => entry.generation >= revoked
  /\ \A c \in Inbound : candidate[c].step \in {"ready", "open"} =>
       candidate[c].accepted.generation > revoked
  /\ \A c \in Conns : effect[c].step \in {"running", "sent", "done"} =>
       effect[c].generation > revoked
  /\ \A g \in attached : g > revoked

\* Memory follows the disk: the entry never grants what the durable row does
\* not, and at the row's generation it is the row.  A crash between the two
\* writes loses no revocation.
DurableFirst ==
  entry # None =>
    /\ entry.generation <= row.generation
    /\ entry.generation = row.generation => entry = row

\* An offer authorizes the device at most once, and an offer that is open has
\* never done so: neither a lost answer of the store nor a rollback reopens a
\* ticket that has been used.
OfferSingleUse ==
  \A o \in Offers :
    /\ granted[o] <= 1
    /\ offer[o] = "ready" => granted[o] = 0

\* An offer as a ticket: the handshake that holds it is at work on it.
TicketOf(o) ==
  LET holders == {p \in Pairers : pair[p].offer = o}
  IN CASE offer[o] = "ready" -> [state |-> "ready", by |-> None]
       [] offer[o] = "consumed" -> [state |-> "used", by |-> None]
       [] offer[o] = "expired" -> [state |-> "void", by |-> None]
       [] offer[o] = "consuming" ->
            [state |-> "held",
             by |-> IF holders = {} THEN None ELSE CHOOSE p \in holders : TRUE]

Tickets == INSTANCE OneTimeTicket WITH
  Tickets <- Offers, Holders <- Pairers,
  ticket <- [o \in Offers |-> TicketOf(o)]

\* The offers that authorize devices here are the one-time tickets of
\* PairingOffers: a handshake whose permit was dropped, an expiry or a
\* restart never hands one on (authorize_consumption).
ImplementsTickets == Tickets!TicketSpec

\* When nobody holds the permit and the store is idle, the entry is the
\* durable row: "this registry preloads and mirrors it"
\* (crates/daemon/src/authorization.rs:4).  Only a command that outlives the
\* deadline of its writer leaves it behind, until a pairing or a revocation is
\* next published or the daemon restarts.
MirrorsStore ==
  lock.holders \cap Writers = {} /\ store = <<>> /\ ~behind =>
    entry = row \/ (entry = None /\ row = NoRow)

\* A revoke request that is made ends: readers do not starve it, and no holder
\* of the permit waits for it.
RevokeEnds ==
  \A r \in Revokers : revoke[r].step # "idle" ~> revoke[r].step = "idle"
=============================================================================
