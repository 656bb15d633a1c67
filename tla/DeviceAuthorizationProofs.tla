--------------------- MODULE DeviceAuthorizationProofs ---------------------
(***************************************************************************)
(* Proofs about DeviceAuthorization, for any number of connections, revoke *)
(* requests, pairing handshakes, offers and generations, whether or not a  *)
(* store command may outlive its waiter.                                   *)
(***************************************************************************)
EXTENDS DeviceAuthorization, TLAPS

-----------------------------------------------------------------------------
(* Queues.                                                                 *)

\* Who leaves a queue leaves the others in their order.
LEMMA Leaves ==
  ASSUME NEW S, NEW q \in Seq(S), NEW i \in DOMAIN q, NEW e, e = Leave(q, i)
  PROVE  /\ e \in Seq(S)
         /\ \E f \in [DOMAIN e -> DOMAIN q \ {i}] :
              /\ \A j \in DOMAIN e : e[j] = q[f[j]] /\ f[j] >= j
              /\ \A j, k \in DOMAIN e : f[j] = f[k] => j = k
<1> DEFINE n == Len(q)
           f == [j \in 1 .. n - 1 |-> IF j < i THEN j ELSE j + 1]
<1>1. n \in Nat /\ i \in 1 .. n /\ DOMAIN q = 1 .. n /\ \A j \in 1 .. n : q[j] \in S
  OBVIOUS
<1>2. e = [j \in 1 .. n - 1 |-> IF j < i THEN q[j] ELSE q[j + 1]]
  BY Zenon DEF Leave
<1>3. e \in Seq(S) /\ DOMAIN e = 1 .. n - 1
  BY <1>1, <1>2
<1>4. f \in [DOMAIN e -> DOMAIN q \ {i}]
  BY <1>1, <1>3
<1>5. \A j \in DOMAIN e : e[j] = q[f[j]] /\ f[j] >= j
  BY <1>1, <1>2, <1>3
<1>6. \A j, k \in DOMAIN e : f[j] = f[k] => j = k
  BY <1>1, <1>3
<1> QED  BY Zenon, <1>3, <1>4, <1>5, <1>6

\* A waiter that leaves the lock's queue.
LEMMA WithoutTyped ==
  ASSUME NEW S, NEW q \in Seq(S), NEW x  PROVE  Without(q, x) \in Seq(S)
<1>1. CASE \E i \in DOMAIN q : q[i] = x
  <2>1. PICK i \in DOMAIN q : i = CHOOSE k \in DOMAIN q : q[k] = x
    BY Zenon, <1>1
  <2>2. Without(q, x) = Leave(q, i)
    BY Zenon, <1>1, <2>1 DEF Without
  <2> QED  BY <2>2, Leaves
<1>2. CASE ~\E i \in DOMAIN q : q[i] = x
  BY Zenon, <1>2 DEF Without
<1> QED  BY Zenon, <1>1, <1>2

\* A waiter gives its command up: it has one at most, which is gone, or has
\* started and is nobody's.
LEMMA Expires ==
  ASSUME NEW q \in Seq(Commands), NEW x,
         \A i, j \in DOMAIN q : q[i].by = x /\ q[j].by = x => i = j,
         NEW e, e = Expired(q, x)
  PROVE  /\ e \in Seq(Commands)
         /\ \E f \in [DOMAIN e -> DOMAIN q] :
              /\ \A j, k \in DOMAIN e : f[j] = f[k] => j = k
              /\ \A j \in DOMAIN e :
                   /\ f[j] >= j
                   /\ \/ e[j] = q[f[j]] /\ q[f[j]].by # x
                      \/ /\ StartedFor(q, x) /\ j = 1 /\ f[j] = 1
                         /\ e[j] = [q[1] EXCEPT !.by = None] /\ q[1].by = x
<1>1. CASE StartedFor(q, x)
  <2>1. 1 \in DOMAIN q /\ q[1].by = x /\ q[1].gate = "started"
    BY <1>1 DEF StartedFor, Running
  <2>2. e = [q EXCEPT ![1].by = None]
    BY Zenon, <1>1 DEF Expired
  <2>3. q[1] \in Commands
    BY <2>1
  <2>4. [q[1] EXCEPT !.by = None] \in Commands
    BY Zenon, <2>3 DEF Commands
  <2>5. /\ e \in Seq(Commands) /\ DOMAIN e = DOMAIN q /\ e[1] = [q[1] EXCEPT !.by = None]
        /\ \A j \in DOMAIN q \ {1} : e[j] = q[j]
    BY <2>1, <2>2, <2>4
  <2> DEFINE f == [j \in DOMAIN e |-> j]
  <2>6. /\ f \in [DOMAIN e -> DOMAIN q] /\ \A j, k \in DOMAIN e : f[j] = f[k] => j = k
        /\ \A j \in DOMAIN e : f[j] >= j
    BY <2>5
  <2>7. \A j \in DOMAIN e : j # 1 => e[j] = q[f[j]] /\ q[f[j]].by # x
    BY Zenon, <2>1, <2>5
  <2>8. \A j \in DOMAIN e : j = 1 => f[j] = 1 /\ e[j] = [q[1] EXCEPT !.by = None]
    BY Zenon, <2>5
  <2> HIDE DEF f
  <2>9. \A j \in DOMAIN e :
          \/ e[j] = q[f[j]] /\ q[f[j]].by # x
          \/ /\ StartedFor(q, x) /\ j = 1 /\ f[j] = 1
             /\ e[j] = [q[1] EXCEPT !.by = None] /\ q[1].by = x
    BY <1>1, <2>1, <2>7, <2>8, Zenon
  <2> QED  BY <2>5, <2>6, <2>9, Zenon
<1>2. CASE ~StartedFor(q, x) /\ \E i \in DOMAIN q : q[i].by = x
  <2>1. PICK i \in DOMAIN q : i = CHOOSE k \in DOMAIN q : q[k].by = x
    BY Zenon, <1>2
  <2>2. q[i].by = x /\ e = Leave(q, i)
    BY Zenon, <1>2, <2>1 DEF Expired
  <2>3. PICK f \in [DOMAIN e -> DOMAIN q \ {i}] :
              /\ \A j \in DOMAIN e : e[j] = q[f[j]] /\ f[j] >= j
              /\ \A j, k \in DOMAIN e : f[j] = f[k] => j = k
    BY <2>2, Leaves
  <2>4. e \in Seq(Commands)
    BY <2>2, Leaves
  <2>5. f \in [DOMAIN e -> DOMAIN q] /\ \A j \in DOMAIN e : q[f[j]].by # x
    BY Zenon, <2>2, <2>3
  <2> QED  BY <2>3, <2>4, <2>5
<1>3. CASE ~StartedFor(q, x) /\ ~\E i \in DOMAIN q : q[i].by = x
  <2>1. e = q
    BY Zenon, <1>3 DEF Expired
  <2> DEFINE f == [j \in DOMAIN e |-> j]
  <2>2. /\ f \in [DOMAIN e -> DOMAIN q] /\ \A j, k \in DOMAIN e : f[j] = f[k] => j = k
        /\ \A j \in DOMAIN e : f[j] >= j /\ e[j] = q[f[j]] /\ q[f[j]].by # x
    BY <1>3, <2>1
  <2> HIDE DEF f
  <2> QED  BY Zenon, <2>1, <2>2
<1> QED  BY Zenon, <1>1, <1>2, <1>3

-----------------------------------------------------------------------------
(* The inductive invariant.                                                *)

\* The steps of a writer at which it holds the permit.
Working == {"storing", "stored", "failed", "closing", "closed", "detaching",
            "detached", "accepting"}
\* The steps of a revocation that has published its tombstone.
Published == {"closing", "closed", "detaching", "detached"}
\* The steps of an effect at which its stream holds the permit.
Permitted == {"running", "sent", "done"}

\* A writer holds the lock alone, and whoever is at work holds it.
LockInv ==
  /\ \A w \in Writers : w \in lock.holders => lock.holders = {w}
  /\ \A r \in Revokers : revoke[r].step \in Working => r \in lock.holders
  /\ \A p \in Pairers : pair[p].step \in Working => p \in lock.holders
  /\ \A c \in Conns : effect[c].step \in Permitted => c \in lock.holders

\* A store command is its waiter's, which waits for it; only one that runs,
\* and is the first, may be nobody's.  A writer that has its answer has left
\* the store nothing to do.
StoreInv ==
  /\ \A i \in DOMAIN store :
       /\ store[i].by \in Writers \cup {None}
       /\ store[i].kind \in {"authorize", "revoke"}
       /\ store[i].by \in Revokers =>
            store[i].kind = "revoke" /\ revoke[store[i].by].step = "storing"
       /\ store[i].by \in Pairers =>
            store[i].kind = "authorize" /\ pair[store[i].by].step = "storing"
       /\ store[i].by = None => i = 1 /\ store[i].gate = "started"
  /\ \A i, j \in DOMAIN store :
       store[i].by # None /\ store[j].by # None => i = j
  /\ \A r \in Revokers :
       revoke[r].step \in Working \ {"storing"} => store = <<>>
  /\ \A p \in Pairers : pair[p].step \in Working \ {"storing"} => store = <<>>

\* What a writer knows at each of its steps.
WriterInv ==
  /\ \A r \in Revokers :
       /\ revoke[r].step = "stored" =>
            row = Snapshot("revoked", revoke[r].generation)
       /\ revoke[r].step \in Published =>
            entry = Snapshot("revoked", revoke[r].generation)
       /\ revoke[r].step \in {"closed", "detaching", "detached"} =>
            \A c \in Inbound : candidate[c].step \notin {"ready", "open"}
       /\ revoke[r].step = "detached" => attached = {}
       /\ revoke[r].step # "accepting"
  /\ \A p \in Pairers :
       /\ pair[p].step = "stored" =>
            /\ row = Snapshot("authorized", pair[p].generation)
            /\ pair[p].generation > entry.generation
       /\ pair[p].step \notin Published

\* The row and the entry against the last revocation reported done; without
\* an entry nobody is at work.
RowInv ==
  /\ revoked \in Nat /\ row.generation >= revoked
  /\ row.status = "authorized" => row.generation > revoked
  /\ entry = None =>
       /\ row = NoRow /\ store = <<>>
       /\ \A r \in Revokers : revoke[r].step = "idle"
       /\ \A p \in Pairers : pair[p].step = "idle"
  /\ entry # None /\ entry.status = "authorized" => entry.generation > revoked
  /\ DurableFirst

\* A command of the session actor is an effect whose thread waits for it, or
\* the detach of a revocation that waits for it, or one that was given up.
ActorInv ==
  /\ \A i \in DOMAIN actor :
       /\ actor[i].kind \in {"effect", "detach"}
       /\ actor[i].kind = "effect" =>
            /\ actor[i].by \in Conns /\ effect[actor[i].by].step = "sent"
            /\ effect[actor[i].by].generation = actor[i].generation
       /\ actor[i].kind = "detach" => actor[i].by \in Revokers \cup {None}
       /\ actor[i].by \in Revokers => revoke[actor[i].by].step = "detaching"
  /\ \A i, j \in DOMAIN actor :
       actor[i].by = actor[j].by /\ actor[i].by # None => i = j

\* Unless a row was committed whose writer had given up, only a writer with its
\* answer in hand stands between the row and the entry.
MirrorInv ==
  ~behind =>
    \/ entry = row \/ (entry = None /\ row = NoRow)
    \/ \E r \in Revokers : revoke[r].step = "stored"
    \/ \E p \in Pairers : pair[p].step = "stored"

AuthInv ==
  /\ TypeOK /\ LockInv /\ StoreInv /\ WriterInv /\ RowInv /\ ActorInv
  /\ EffectAuthorized /\ RevokedIsGone /\ MirrorInv

\* None is not the name of anything, and a snapshot is read off its fields.
LEMMA Names ==
  /\ None \notin Conns /\ None \notin Writers /\ None \notin Snapshots
  /\ None \notin Offers /\ Conns \cap Writers = {} /\ Revokers \cap Pairers = {}
  /\ Inbound \cap Outbound = {} /\ MaxGeneration \in Nat \ {0}
  BY Zenon, AuthorizationAssumption

\* What a step leaves alone stays as the invariant says.
LEMMA Frames ==
  /\ LockInv /\ UNCHANGED <<lock, revoke, pair, effect>> => LockInv'
  /\ StoreInv /\ UNCHANGED <<store, revoke, pair>> => StoreInv'
  /\ WriterInv /\ UNCHANGED <<revoke, pair, row, entry, candidate, attached>> =>
       WriterInv'
  /\ RowInv /\ UNCHANGED <<revoked, row, entry, store, revoke, pair>> => RowInv'
  /\ ActorInv /\ UNCHANGED <<actor, effect, revoke>> => ActorInv'
  /\ EffectAuthorized /\ UNCHANGED <<effect, actor, entry>> => EffectAuthorized'
  /\ RevokedIsGone /\ UNCHANGED <<entry, revoked, candidate, effect, attached>> =>
       RevokedIsGone'
  /\ MirrorInv /\ UNCHANGED <<entry, row, revoke, pair, behind>> => MirrorInv'
<1>1. LockInv /\ UNCHANGED <<lock, revoke, pair, effect>> => LockInv'
  BY Zenon DEF LockInv
<1>2. StoreInv /\ UNCHANGED <<store, revoke, pair>> => StoreInv'
  BY DEF StoreInv
<1>3. WriterInv /\ UNCHANGED <<revoke, pair, row, entry, candidate, attached>> =>
        WriterInv'
  BY Zenon DEF WriterInv
<1>4. RowInv /\ UNCHANGED <<revoked, row, entry, store, revoke, pair>> => RowInv'
  BY Zenon DEF RowInv, DurableFirst
<1>5. ActorInv /\ UNCHANGED <<actor, effect, revoke>> => ActorInv'
  BY DEF ActorInv
<1>6. EffectAuthorized /\ UNCHANGED <<effect, actor, entry>> => EffectAuthorized'
  BY Zenon DEF EffectAuthorized, Admits
<1>7. RevokedIsGone /\ UNCHANGED <<entry, revoked, candidate, effect, attached>> =>
        RevokedIsGone'
  BY Zenon DEF RevokedIsGone
<1>8. MirrorInv /\ UNCHANGED <<entry, row, revoke, pair, behind>> => MirrorInv'
  BY DEF MirrorInv
<1> QED  BY Zenon, <1>1, <1>2, <1>3, <1>4, <1>5, <1>6, <1>7, <1>8

\* The first states.
LEMMA AuthInit == Init => AuthInv
<1> SUFFICES ASSUME Init PROVE AuthInv
  BY Zenon
<1> USE Names DEF Init
<1>1. NoRow \in Snapshots /\ Snapshot("authorized", 1) \in Snapshots
  BY DEF Snapshots, Snapshot, NoRow
<1>2. row \in Snapshots /\ entry \in Snapshots \cup {None}
  BY Zenon, <1>1 DEF Preloaded
<1>3. TypeOK
  <2>1. /\ candidate \in [Conns -> [step : {"none"}, accepted : Snapshots]]
        /\ effect \in [Conns -> [step : {"none"}, generation : 0 .. MaxGeneration]]
    BY <1>1 DEF NoCandidates, NoCandidate, NoEffects, NoEffect
  <2>2. /\ revoke \in [Revokers -> [step : {"idle"}, offer : {None},
                                    generation : 0 .. MaxGeneration]]
        /\ pair \in [Pairers -> [step : {"idle"}, offer : {None},
                                 generation : 0 .. MaxGeneration]]
    BY DEF Idle, IdleWriter
  <2>3. /\ row.status = "none" <=> row.generation = 0
        /\ entry # None => (entry.status = "none" <=> entry.generation = 0)
    BY <1>1 DEF NoRow, Snapshot, Preloaded
  <2>4. lock \in [holders : SUBSET (Conns \cup Writers), queue : Seq(Conns \cup Writers)]
    BY DEF NoLock
  <2> QED  BY <1>2, <2>1, <2>2, <2>3, <2>4 DEF TypeOK, WriterSteps
<1>4. LockInv /\ StoreInv /\ WriterInv /\ ActorInv
  BY DEF LockInv, StoreInv, WriterInv, ActorInv, NoLock, NoEffects, NoEffect,
         Idle, IdleWriter, Working, Published, Permitted
<1>5. RowInv /\ MirrorInv
  BY <1>1, <1>2 DEF RowInv, DurableFirst, MirrorInv, Idle, IdleWriter, NoRow,
                    Snapshot, Preloaded
<1>6. EffectAuthorized /\ RevokedIsGone
  BY <1>2 DEF EffectAuthorized, RevokedIsGone, NoEffects, NoEffect, NoCandidates,
         NoCandidate, Conns, Snapshots
<1> QED  BY Zenon, <1>3, <1>4, <1>5, <1>6 DEF AuthInv

-----------------------------------------------------------------------------
(* The lock, and the step of one task.                                     *)

Locks == [holders : SUBSET (Conns \cup Writers), queue : Seq(Conns \cup Writers)]
Effects == [step : {"none", "stream", "waiting", "running", "sent", "done"},
            generation : 0 .. MaxGeneration]
RevokeStates == [step : WriterSteps, offer : {None}, generation : 0 .. MaxGeneration]
PairStates ==
  [step : WriterSteps, offer : Offers \cup {None}, generation : 0 .. MaxGeneration]

\* A task queues for the lock, leaves it, or gets it.
LEMMA LockMoves ==
  ASSUME TypeOK, NEW x \in Conns \cup Writers
  PROVE  /\ Queued(x) \in Locks /\ Queued(x).holders = lock.holders
         /\ Released(x) \in Locks /\ Released(x).holders = lock.holders \ {x}
         /\ Grantable(x) =>
              Held(x) \in Locks /\ Held(x).holders = lock.holders \cup {x}
<1>1. lock \in Locks
  BY Zenon DEF TypeOK, Locks
<1>2. Queued(x) \in Locks /\ Queued(x).holders = lock.holders
  BY <1>1 DEF Locks, Queued
<1>3. Without(lock.queue, x) \in Seq(Conns \cup Writers)
  BY Zenon, <1>1, WithoutTyped DEF Locks
<1>4. Released(x) \in Locks /\ Released(x).holders = lock.holders \ {x}
  BY Zenon, <1>1, <1>3 DEF Locks, Released
<1>5. Grantable(x) => Held(x) \in Locks /\ Held(x).holders = lock.holders \cup {x}
  BY <1>1 DEF Locks, Held, Grantable
<1> QED  BY Zenon, <1>2, <1>4, <1>5

\* A stream takes a step and keeps its generation; the others stay.
LEMMA EffectMoves ==
  ASSUME TypeOK, NEW c \in Conns,
         NEW step \in {"none", "stream", "waiting", "running", "sent", "done"}
  PROVE  /\ EffectStep(c, step) \in [Conns -> Effects]
         /\ \A d \in Conns : d # c => EffectStep(c, step)[d] = effect[d]
         /\ EffectStep(c, step)[c].step = step
         /\ EffectStep(c, step)[c].generation = effect[c].generation
<1>1. effect \in [Conns -> Effects]
  BY Zenon DEF TypeOK, Effects
<1> QED  BY Zenon, <1>1 DEF Effects, EffectStep

\* A revocation takes a step.
LEMMA RevokeMoves ==
  ASSUME TypeOK, NEW r \in Revokers, NEW step \in WriterSteps
  PROVE  /\ RevokeStep(r, step) \in [Revokers -> RevokeStates]
         /\ \A q \in Revokers : q # r => RevokeStep(r, step)[q] = revoke[q]
         /\ RevokeStep(r, step)[r].step = step
         /\ RevokeStep(r, step)[r].generation = revoke[r].generation
<1>1. revoke \in [Revokers -> RevokeStates]
  BY Zenon DEF TypeOK, RevokeStates
<1> QED  BY Zenon, <1>1 DEF RevokeStates, RevokeStep

\* A handshake takes a step.
LEMMA PairMoves ==
  ASSUME TypeOK, NEW p \in Pairers, NEW step \in WriterSteps
  PROVE  /\ PairStep(p, step) \in [Pairers -> PairStates]
         /\ \A q \in Pairers : q # p => PairStep(p, step)[q] = pair[q]
         /\ PairStep(p, step)[p].step = step
         /\ PairStep(p, step)[p].generation = pair[p].generation
         /\ PairStep(p, step)[p].offer = pair[p].offer
<1>1. pair \in [Pairers -> PairStates]
  BY Zenon DEF TypeOK, PairStates
<1> QED  BY Zenon, <1>1 DEF PairStates, PairStep

\* A writer is done with its request.
LEMMA WriterRests ==
  ASSUME TypeOK
  PROVE  /\ \A r \in Revokers :
              /\ [revoke EXCEPT ![r] = IdleWriter] \in [Revokers -> RevokeStates]
              /\ \A q \in Revokers : [revoke EXCEPT ![r] = IdleWriter][q] =
                   IF q = r THEN IdleWriter ELSE revoke[q]
         /\ \A p \in Pairers :
              /\ [pair EXCEPT ![p] = IdleWriter] \in [Pairers -> PairStates]
              /\ \A q \in Pairers : [pair EXCEPT ![p] = IdleWriter][q] =
                   IF q = p THEN IdleWriter ELSE pair[q]
<1>1. /\ revoke \in [Revokers -> RevokeStates] /\ pair \in [Pairers -> PairStates]
      /\ IdleWriter \in RevokeStates /\ IdleWriter \in PairStates
  BY Names DEF TypeOK, RevokeStates, PairStates, IdleWriter, WriterSteps
<1> QED  BY Zenon, <1>1

-----------------------------------------------------------------------------
(* Connections.                                                            *)

\* A connection advances: it is ready or open with an admission it has shown
\* to be the entry, or had before.
LEMMA CandidateStep ==
  ASSUME AuthInv, NEW c \in Conns,
         \/ AcceptNormal(c) \/ RegisterCandidate(c) \/ RecheckAdmission(c)
         \/ StartConnectionActor(c) \/ CandidateClosed(c)
  PROVE  AuthInv'
<1> USE Names
<1>1. TypeOK /\ NoRow \in Snapshots /\ UNCHANGED <<effect, brokerOnly>>
  BY SMTT(30) DEF AuthInv, TypeOK, NoRow, Snapshot, Snapshots, AcceptNormal,
         RegisterCandidate, RecheckAdmission, StartConnectionActor, CandidateClosed
<1>2. UNCHANGED <<row, entry, lock, store, effect, actor, attached, revoke, pair,
                  offer, granted, revoked, behind>>
  BY Zenon, <1>1 DEF brokerOnly, history
<1> DEFINE Steps == {"none", "admitted", "registered", "ready", "open"}
           Fits(k) == k \in [step : Steps, accepted : Snapshots]
           Shown(k, l) == l.step \in {"ready", "open"} =>
             \/ k.step \in {"ready", "open"} /\ l.accepted = k.accepted
             \/ Admits /\ l.accepted = entry
           Good(l) == Fits(l) /\ (c \in Inbound => Shown(candidate[c], l))
<1>3. Fits(candidate[c]) /\ (Admits => entry \in Snapshots) /\ Good(NoCandidate)
  BY Zenon, <1>1 DEF TypeOK, Admits, NoCandidate
<1>4. \E l : Good(l) /\ candidate' = [candidate EXCEPT ![c] = l]
  <2>1. CASE AcceptNormal(c)
    BY Zenon, <2>1, <1>3 DEF AcceptNormal
  <2>2. CASE RegisterCandidate(c)
    <3> DEFINE l == [candidate[c] EXCEPT !.step = "registered"]
    <3>1. Good(l)
      BY Zenon, <1>3
    <3>2. candidate' = [candidate EXCEPT ![c] = l]
      BY Zenon, <2>2 DEF RegisterCandidate, Step
    <3> QED  BY <3>1, <3>2, Zenon
  <2>3. CASE RecheckAdmission(c)
    <3> DEFINE l == [candidate[c] EXCEPT !.step = "ready"]
    <3>1. c \in Outbound \/ StillAdmitted(c) => Good(l)
      BY Zenon, <1>3 DEF StillAdmitted
    <3>2. \/ c \in Outbound \/ StillAdmitted(c)
          \/ candidate' = [candidate EXCEPT ![c] = NoCandidate]
      BY Zenon, <2>3 DEF RecheckAdmission
    <3>3. c \in Outbound \/ StillAdmitted(c) => candidate' = [candidate EXCEPT ![c] = l]
      BY Zenon, <2>3 DEF RecheckAdmission, Step
    <3> QED  BY <3>1, <3>2, <3>3, <1>3, Zenon
  <2>4. CASE StartConnectionActor(c)
    <3> DEFINE l == IF c \in Outbound
                    THEN [step |-> "open", accepted |-> IF Admits THEN entry ELSE NoRow]
                    ELSE IF StillAdmitted(c) THEN [candidate[c] EXCEPT !.step = "open"]
                    ELSE NoCandidate
    <3>1. Good(l)
      BY Zenon, <1>1, <1>3 DEF StillAdmitted
    <3>2. candidate' = [candidate EXCEPT ![c] = l]
      BY Zenon, <2>4 DEF StartConnectionActor
    <3> QED  BY <3>1, <3>2, Zenon
  <2>5. CASE CandidateClosed(c)
    BY <2>5, <1>3, Zenon DEF CandidateClosed
  <2> QED  BY Zenon, <2>1, <2>2, <2>3, <2>4, <2>5
<1>10. candidate \in [Conns -> [step : Steps, accepted : Snapshots]]
  BY Zenon, <1>1 DEF TypeOK
<1>11. /\ candidate' \in [Conns -> [step : Steps, accepted : Snapshots]]
       /\ \A d \in Inbound : Shown(candidate[d], candidate'[d])
  BY <1>4, <1>10 DEF Conns
<1>12. TypeOK'
  BY Zenon, <1>1, <1>2, <1>11 DEF TypeOK
<1>5. WriterInv'
  BY <1>2, <1>11 DEF AuthInv, WriterInv, Admits, Snapshot, Published
<1>6. RevokedIsGone'
  BY Zenon, <1>2, <1>11 DEF AuthInv, RevokedIsGone, RowInv, Admits
<1> QED  BY Zenon, <1>2, <1>12, <1>5, <1>6, Frames DEF AuthInv

\* A stream opens at the entry's generation.
LEMMA OpenStreamStep ==
  ASSUME AuthInv, NEW c \in Conns, OpenStream(c)  PROVE  AuthInv'
<1> USE Names
<1>1. UNCHANGED <<row, entry, lock, store, candidate, actor, attached, revoke, pair,
                  offer, granted, revoked, behind>>
  BY Zenon DEF OpenStream, brokerOnly, history
<1>2. /\ effect[c].step = "none" /\ Admits
      /\ effect' = [effect EXCEPT ![c] =
           [step |-> "stream", generation |-> entry.generation]]
  BY Zenon DEF OpenStream
<1>3. TypeOK'
  BY Zenon, <1>1, <1>2 DEF AuthInv, TypeOK, Admits, Snapshots
<1>4. \A d \in Conns : d # c => effect'[d] = effect[d]
  BY Zenon, <1>2 DEF AuthInv, TypeOK
<1>5. effect'[c].step = "stream"
  BY Zenon, <1>2 DEF AuthInv, TypeOK
<1>6. LockInv'
  BY Zenon, <1>1, <1>4, <1>5 DEF AuthInv, LockInv, Permitted
<1>7. ActorInv'
  BY <1>1, <1>2, <1>4, <1>5 DEF AuthInv, ActorInv
<1>8. EffectAuthorized'
  BY Zenon, <1>1, <1>4, <1>5 DEF AuthInv, EffectAuthorized, Admits
<1>9. RevokedIsGone'
  BY Zenon, <1>1, <1>4, <1>5 DEF AuthInv, RevokedIsGone
<1> QED  BY Zenon, <1>1, <1>3, <1>6, <1>7, <1>8, <1>9, Frames DEF AuthInv

-----------------------------------------------------------------------------
(* Effects.                                                                *)

\* A stream waits for the permit, leaves the queue, or drops the permit.
LEMMA LeaveStep ==
  ASSUME AuthInv, NEW c \in Conns,
         \/ AbortStream(c) \/ RequestEffect(c) \/ GiveUpCommit(c) \/ FinishEffect(c)
         \/ AcquireCommit(c) /\ ~Authorizes(c)
  PROVE  AuthInv'
<1> USE Names
<1>1. UNCHANGED <<row, entry, store, candidate, actor, attached, revoke, pair,
                  offer, granted, revoked, behind>>
  BY Zenon DEF AbortStream, RequestEffect, GiveUpCommit, FinishEffect, AcquireCommit,
         effectOnly, history
<1>2. TypeOK /\ effect \in [Conns -> Effects] /\ effect[c].step # "sent"
  BY Zenon DEF AuthInv, TypeOK, Effects, AbortStream, RequestEffect, GiveUpCommit,
         FinishEffect, AcquireCommit
<1>3. \/ effect' = [effect EXCEPT ![c] = NoEffect]
      \/ effect' = EffectStep(c, "stream") \/ effect' = EffectStep(c, "waiting")
  BY Zenon DEF AbortStream, RequestEffect, GiveUpCommit, FinishEffect, AcquireCommit
<1>4. lock' = Released(c) \/ lock' = Queued(c)
  BY Zenon DEF AbortStream, RequestEffect, GiveUpCommit, FinishEffect, AcquireCommit
<1>5. lock' \in Locks /\ lock'.holders \in {lock.holders, lock.holders \ {c}}
  BY <1>2, <1>4, LockMoves
<1>6. NoEffect \in Effects /\ NoEffect.step = "none"
  BY DEF NoEffect, Effects
<1>7. /\ effect' \in [Conns -> Effects]
      /\ \A d \in Conns : d # c => effect'[d] = effect[d]
      /\ effect'[c].step \in {"none", "stream", "waiting"}
  <2>1. CASE effect' = [effect EXCEPT ![c] = NoEffect]
    BY Zenon, <1>2, <1>6, <2>1
  <2>2. CASE effect' = EffectStep(c, "stream")
    BY <1>2, <2>2, EffectMoves
  <2>3. CASE effect' = EffectStep(c, "waiting")
    BY <1>2, <2>3, EffectMoves
  <2> QED  BY Zenon, <1>3, <2>1, <2>2, <2>3
<1>8. TypeOK'
  BY Zenon, <1>1, <1>2, <1>5, <1>7 DEF TypeOK, Locks, Effects
<1>9. LockInv'
  BY <1>1, <1>5, <1>7 DEF AuthInv, LockInv, Permitted, Writers
<1>10. ActorInv'
  BY <1>1, <1>2, <1>7 DEF AuthInv, ActorInv
<1>11. EffectAuthorized' /\ RevokedIsGone'
  BY Zenon, <1>1, <1>7 DEF AuthInv, EffectAuthorized, RevokedIsGone, Admits
<1> QED  BY Zenon, <1>1, <1>8, <1>9, <1>10, <1>11, Frames DEF AuthInv

\* A stream gets the permit at the generation it was opened with.
LEMMA AcquireStep ==
  ASSUME AuthInv, NEW c \in Conns, AcquireCommit(c), Authorizes(c)  PROVE  AuthInv'
<1> USE Names
<1>1. /\ UNCHANGED <<row, entry, store, candidate, actor, attached, revoke, pair,
                     offer, granted, revoked, behind>>
      /\ TypeOK /\ effect[c].step = "waiting" /\ Grantable(c) /\ lock' = Held(c)
      /\ effect' = EffectStep(c, "running")
  BY Zenon DEF AuthInv, AcquireCommit, effectOnly, history
<1>2. /\ effect' \in [Conns -> Effects]
      /\ \A d \in Conns : d # c => effect'[d] = effect[d]
      /\ effect'[c].step = "running" /\ effect'[c].generation = effect[c].generation
  BY <1>1, EffectMoves
<1>3. /\ lock' \in Locks /\ lock'.holders = lock.holders \cup {c}
      /\ lock.holders \cap Writers = {}
  BY Zenon, <1>1, LockMoves DEF Grantable
<1>4. TypeOK'
  BY Zenon, <1>1, <1>2, <1>3 DEF TypeOK, Locks, Effects
<1>5. LockInv'
  BY Zenon, <1>1, <1>2, <1>3 DEF AuthInv, LockInv, Permitted, Writers
<1>6. ActorInv'
  BY <1>1, <1>2 DEF AuthInv, ActorInv
<1>7. EffectAuthorized' /\ RevokedIsGone'
  BY <1>1, <1>2 DEF AuthInv, EffectAuthorized, RevokedIsGone, RowInv, Authorizes, Admits
<1> QED  BY Zenon, <1>1, <1>4, <1>5, <1>6, <1>7, Frames DEF AuthInv

\* The thread of an effect sends its command to the session actor.
LEMMA SendStep ==
  ASSUME AuthInv, NEW c \in Conns, SendCommand(c)  PROVE  AuthInv'
<1> USE Names
<1>1. /\ UNCHANGED <<row, entry, lock, store, candidate, attached, revoke, pair,
                     offer, granted, revoked, behind>>
      /\ TypeOK /\ effect[c].step = "running" /\ effect' = EffectStep(c, "sent")
      /\ actor' = Append(actor, Command("effect", c, effect[c].generation, None))
  BY Zenon DEF AuthInv, SendCommand, effectOnly, history
<1>2. /\ effect' \in [Conns -> Effects]
      /\ \A d \in Conns : d # c => effect'[d] = effect[d]
      /\ effect'[c].step = "sent" /\ effect'[c].generation = effect[c].generation
  BY <1>1, EffectMoves
<1> DEFINE k == Command("effect", c, effect[c].generation, None)
<1>3. /\ k \in Commands /\ k.kind = "effect" /\ k.by = c
      /\ k.generation = effect[c].generation
  BY Zenon, <1>1 DEF TypeOK, Commands, Command
<1> HIDE DEF k
<1>4. /\ actor' \in Seq(Commands) /\ DOMAIN actor' = DOMAIN actor \cup {Len(actor) + 1}
      /\ \A i \in DOMAIN actor : actor'[i] = actor[i] /\ i # Len(actor) + 1
      /\ actor'[Len(actor) + 1] = k
  BY <1>1, <1>3 DEF TypeOK, k
<1>5. TypeOK'
  BY Zenon, <1>1, <1>2, <1>4 DEF TypeOK, Effects
<1>6. LockInv'
  BY Zenon, <1>1, <1>2 DEF AuthInv, LockInv, Permitted
<1>7. \A i \in DOMAIN actor : actor[i].by # c
  BY Zenon, <1>1 DEF AuthInv, ActorInv, Writers
<1>8. ActorInv'
  BY SMTT(30), <1>1, <1>2, <1>3, <1>4, <1>7 DEF AuthInv, ActorInv, Writers
<1>9. Admits /\ entry.generation = effect[c].generation
  BY Zenon, <1>1 DEF AuthInv, EffectAuthorized
<1>10. EffectAuthorized'
  BY <1>1, <1>2, <1>3, <1>4, <1>9 DEF AuthInv, EffectAuthorized, Admits
<1>11. RevokedIsGone'
  BY Zenon, <1>1, <1>2 DEF AuthInv, RevokedIsGone
<1> QED  BY Zenon, <1>1, <1>5, <1>6, <1>8, <1>10, <1>11, Frames DEF AuthInv

\* An effect gives up a command that has not started.
LEMMA CommandExpiresStep ==
  ASSUME AuthInv, NEW c \in Conns, CommandExpires(c)  PROVE  AuthInv'
<1> USE Names
<1>1. /\ UNCHANGED <<row, entry, lock, store, candidate, attached, revoke, pair,
                     offer, granted, revoked, behind>>
      /\ TypeOK /\ effect[c].step = "sent" /\ effect' = EffectStep(c, "done")
      /\ ~StartedFor(actor, c) /\ actor' = Expired(actor, c)
  BY Zenon DEF AuthInv, CommandExpires, effectOnly, history
<1>2. /\ effect' \in [Conns -> Effects]
      /\ \A d \in Conns : d # c => effect'[d] = effect[d]
      /\ effect'[c].step = "done" /\ effect'[c].generation = effect[c].generation
  BY <1>1, EffectMoves
<1>3. actor \in Seq(Commands) /\ \A i, j \in DOMAIN actor :
        actor[i].by = c /\ actor[j].by = c => i = j
  BY <1>1 DEF AuthInv, ActorInv, TypeOK
<1>4. PICK e : e = actor'
  BY Zenon
<1>5. /\ e \in Seq(Commands)
      /\ \E f \in [DOMAIN e -> DOMAIN actor] :
           /\ \A j, k \in DOMAIN e : f[j] = f[k] => j = k
           /\ \A j \in DOMAIN e : e[j] = actor[f[j]] /\ actor[f[j]].by # c
  BY <1>1, <1>3, <1>4, Expires
<1>6. PICK f \in [DOMAIN e -> DOMAIN actor] :
        /\ \A j, k \in DOMAIN e : f[j] = f[k] => j = k
        /\ \A j \in DOMAIN e : e[j] = actor[f[j]] /\ actor[f[j]].by # c
  BY Zenon, <1>5
<1>7. TypeOK'
  BY Zenon, <1>1, <1>2, <1>4, <1>5 DEF TypeOK, Effects
<1>8. LockInv'
  BY Zenon, <1>1, <1>2 DEF AuthInv, LockInv, Permitted
<1>9. ActorInv'
  BY <1>1, <1>2, <1>4, <1>6 DEF AuthInv, ActorInv
<1>10. EffectAuthorized'
  BY <1>1, <1>2, <1>4, <1>6 DEF AuthInv, EffectAuthorized, Admits
<1>11. RevokedIsGone'
  BY Zenon, <1>1, <1>2 DEF AuthInv, RevokedIsGone
<1> QED  BY Zenon, <1>1, <1>7, <1>8, <1>9, <1>10, <1>11, Frames DEF AuthInv

-----------------------------------------------------------------------------
(* The two actors.                                                         *)

\* An actor starts its first command.
LEMMA Starts ==
  ASSUME NEW q \in Seq(Commands), Startable(q), NEW e, e = Started(q)
  PROVE  /\ e \in Seq(Commands) /\ DOMAIN e = DOMAIN q /\ e # <<>> /\ q # <<>>
         /\ \A i \in DOMAIN q :
              /\ e[i].kind = q[i].kind /\ e[i].by = q[i].by
              /\ e[i].generation = q[i].generation
              /\ q[i].gate = "started" => e[i].gate = "started"
<1>1. q # <<>> /\ 1 \in DOMAIN q /\ q[1] \in Commands
  BY DEF Startable
<1>2. [q[1] EXCEPT !.gate = "started"] \in Commands
  BY Zenon, <1>1 DEF Commands
<1>3. e = [q EXCEPT ![1] = [q[1] EXCEPT !.gate = "started"]]
  BY Zenon DEF Started
<1>4. \A i \in DOMAIN q : e[i] = IF i = 1 THEN [q[1] EXCEPT !.gate = "started"] ELSE q[i]
  BY Zenon, <1>1, <1>3
<1>5. \A i \in DOMAIN q :
              /\ e[i].kind = q[i].kind /\ e[i].by = q[i].by
              /\ e[i].generation = q[i].generation
              /\ q[i].gate = "started" => e[i].gate = "started"
  BY SMTT(30), <1>1, <1>4 DEF Commands
<1> QED  BY <1>1, <1>2, <1>3, <1>5

\* The store actor starts a command.
LEMMA StoreStartStep ==
  ASSUME AuthInv, StoreStart  PROVE  AuthInv'
<1>1. /\ UNCHANGED <<row, entry, lock, candidate, effect, actor, attached, revoke,
                     pair, offer, granted, revoked, behind>>
      /\ TypeOK /\ Startable(store) /\ store' = Started(store)
  BY Zenon DEF AuthInv, StoreStart, broker, history
<1>2. store \in Seq(Commands)
  BY Zenon, <1>1 DEF TypeOK
<1>3. /\ store' \in Seq(Commands) /\ DOMAIN store' = DOMAIN store /\ store # <<>>
      /\ \A i \in DOMAIN store :
           /\ store'[i].kind = store[i].kind /\ store'[i].by = store[i].by
           /\ store[i].gate = "started" => store'[i].gate = "started"
  BY <1>1, <1>2, Starts
<1>4. TypeOK'
  BY Zenon, <1>1, <1>3 DEF TypeOK
<1>5. StoreInv'
  BY <1>1, <1>3 DEF AuthInv, StoreInv
<1>6. RowInv'
  BY Zenon, <1>1, <1>3 DEF AuthInv, RowInv, DurableFirst
<1> QED  BY Zenon, <1>1, <1>4, <1>5, <1>6, Frames DEF AuthInv

\* The session actor starts a command.
LEMMA ActorStartStep ==
  ASSUME AuthInv, ActorStart  PROVE  AuthInv'
<1>1. /\ UNCHANGED <<row, entry, lock, store, candidate, effect, attached, revoke,
                     pair, offer, granted, revoked, behind>>
      /\ TypeOK /\ Startable(actor) /\ actor' = Started(actor)
  BY Zenon DEF AuthInv, ActorStart, broker, history
<1>2. actor \in Seq(Commands)
  BY Zenon, <1>1 DEF TypeOK
<1>3. /\ actor' \in Seq(Commands) /\ DOMAIN actor' = DOMAIN actor
      /\ \A i \in DOMAIN actor :
           /\ actor'[i].kind = actor[i].kind /\ actor'[i].by = actor[i].by
           /\ actor'[i].generation = actor[i].generation
  BY <1>1, <1>2, Starts
<1>4. TypeOK'
  BY Zenon, <1>1, <1>3 DEF TypeOK
<1>5. ActorInv' /\ EffectAuthorized'
  BY <1>1, <1>3 DEF AuthInv, ActorInv, EffectAuthorized, Admits
<1> QED  BY Zenon, <1>1, <1>4, <1>5, Frames DEF AuthInv

\* A store command ends.  A waiter that is told had the only command, so that
\* it is left with an empty store; nobody else had an answer before.
LEMMA StoreAnswers ==
  ASSUME AuthInv, Running(store), NEW step \in {"stored", "failed"},
         NEW g \in 0 .. MaxGeneration, NEW command, command = Head(store),
         store' = Tail(store), revoke' = Told(revoke, command.by, step, g),
         pair' = Told(pair, command.by, step, g)
  PROVE  /\ store' \in Seq(Commands) /\ revoke' \in [Revokers -> RevokeStates]
         /\ pair' \in [Pairers -> PairStates]
         /\ entry # None /\ StoreInv'
         /\ command.by \in Writers \cup {None}
         /\ \A r \in Revokers :
              /\ revoke[r].step \notin Working \ {"storing"}
              /\ r # command.by => revoke'[r] = revoke[r]
              /\ r = command.by =>
                   /\ revoke[r].step = "storing" /\ command.kind = "revoke"
                   /\ revoke'[r].step = step /\ revoke'[r].generation = g
         /\ \A p \in Pairers :
              /\ pair[p].step \notin Working \ {"storing"}
              /\ p # command.by => pair'[p] = pair[p]
              /\ p = command.by =>
                   /\ pair[p].step = "storing" /\ command.kind = "authorize"
                   /\ pair'[p].step = step /\ pair'[p].generation = g
<1> USE Names
<1>1. /\ TypeOK /\ store \in Seq(Commands) /\ store # <<>> /\ command = store[1]
      /\ 1 \in DOMAIN store /\ command.gate = "started" /\ StoreInv /\ RowInv
  BY SMTT(30) DEF AuthInv, TypeOK, Running
<1>2. /\ store' \in Seq(Commands) /\ DOMAIN store' = 1 .. Len(store) - 1
      /\ DOMAIN store = 1 .. Len(store) /\ Len(store) \in Nat
      /\ \A i \in DOMAIN store' : i + 1 \in DOMAIN store /\ store'[i] = store[i + 1]
      /\ Len(store) = 1 => store' = <<>>
  BY <1>1
<1>3. /\ revoke' \in [Revokers -> RevokeStates] /\ pair' \in [Pairers -> PairStates]
      /\ \A r \in Revokers :
           /\ r # command.by => revoke'[r] = revoke[r]
           /\ r = command.by => revoke'[r].step = step /\ revoke'[r].generation = g
      /\ \A p \in Pairers :
           /\ p # command.by => pair'[p] = pair[p]
           /\ p = command.by => pair'[p].step = step /\ pair'[p].generation = g
  <2>1. PICK x : x = command.by
    BY Zenon
  <2>2. revoke' = Told(revoke, x, step, g) /\ pair' = Told(pair, x, step, g)
    BY Zenon, <2>1
  <2>3. /\ revoke \in [Revokers -> RevokeStates] /\ DOMAIN revoke = Revokers
        /\ pair \in [Pairers -> PairStates] /\ DOMAIN pair = Pairers
        /\ step \in WriterSteps
    BY Zenon, <1>1 DEF TypeOK, RevokeStates, PairStates, WriterSteps
  <2>4. /\ revoke' \in [Revokers -> RevokeStates]
        /\ \A r \in Revokers :
             /\ r # x => revoke'[r] = revoke[r]
             /\ r = x => revoke'[r].step = step /\ revoke'[r].generation = g
    <3>1. revoke' = [r \in Revokers |->
             IF r = x THEN [revoke[r] EXCEPT !.step = step, !.generation = g]
             ELSE revoke[r]]
      BY <2>2, <2>3, Zenon DEF Told
    <3>3. \A r \in Revokers : revoke'[r] =
            IF r = x THEN [revoke[r] EXCEPT !.step = step, !.generation = g] ELSE revoke[r]
      BY <3>1, Zenon
    <3>4. \A r \in Revokers :
            /\ revoke'[r] \in RevokeStates
            /\ r # x => revoke'[r] = revoke[r]
            /\ r = x => revoke'[r].step = step /\ revoke'[r].generation = g
      <4> SUFFICES ASSUME NEW r \in Revokers
                   PROVE  /\ revoke'[r] \in RevokeStates
                          /\ r # x => revoke'[r] = revoke[r]
                          /\ r = x =>
                               revoke'[r].step = step /\ revoke'[r].generation = g
        BY Zenon
      <4>1. revoke[r] \in RevokeStates
        BY Zenon, <2>3
      <4>2. CASE r = x
        <5>1. revoke'[r] = [revoke[r] EXCEPT !.step = step, !.generation = g]
          BY Zenon, <3>3, <4>2
        <5> QED  BY ZenonT(30), <2>3, <4>1, <4>2, <5>1 DEF RevokeStates
      <4>3. CASE r # x
        BY Zenon, <3>3, <4>1, <4>3
      <4> QED  BY Zenon, <4>2, <4>3
    <3>5. revoke' \in [Revokers -> RevokeStates]
      BY <3>1, <3>3, <3>4, Zenon
    <3> QED  BY Zenon, <3>4, <3>5
  <2>5. /\ pair' \in [Pairers -> PairStates]
        /\ \A p \in Pairers :
             /\ p # x => pair'[p] = pair[p]
             /\ p = x => pair'[p].step = step /\ pair'[p].generation = g
    <3>1. pair' = [p \in Pairers |->
             IF p = x THEN [pair[p] EXCEPT !.step = step, !.generation = g]
             ELSE pair[p]]
      BY <2>2, <2>3, Zenon DEF Told
    <3>3. \A p \in Pairers : pair'[p] =
            IF p = x THEN [pair[p] EXCEPT !.step = step, !.generation = g] ELSE pair[p]
      BY <3>1, Zenon
    <3>4. \A p \in Pairers :
            /\ pair'[p] \in PairStates
            /\ p # x => pair'[p] = pair[p]
            /\ p = x => pair'[p].step = step /\ pair'[p].generation = g
      <4> SUFFICES ASSUME NEW p \in Pairers
                   PROVE  /\ pair'[p] \in PairStates
                          /\ p # x => pair'[p] = pair[p]
                          /\ p = x =>
                               pair'[p].step = step /\ pair'[p].generation = g
        BY Zenon
      <4>1. pair[p] \in PairStates
        BY Zenon, <2>3
      <4>2. CASE p = x
        <5>1. pair'[p] = [pair[p] EXCEPT !.step = step, !.generation = g]
          BY Zenon, <3>3, <4>2
        <5> QED  BY ZenonT(30), <2>3, <4>1, <4>2, <5>1 DEF PairStates
      <4>3. CASE p # x
        BY Zenon, <3>3, <4>1, <4>3
      <4> QED  BY Zenon, <4>2, <4>3
    <3>5. pair' \in [Pairers -> PairStates]
      BY <3>1, <3>3, <3>4, Zenon
    <3> QED  BY Zenon, <3>4, <3>5
  <2> QED  BY <2>1, <2>4, <2>5, Zenon
<1>4. /\ command.by \in Writers \cup {None}
      /\ command.by \in Revokers =>
           command.kind = "revoke" /\ revoke[command.by].step = "storing"
      /\ command.by \in Pairers =>
           command.kind = "authorize" /\ pair[command.by].step = "storing"
  <2>1. /\ store[1].by \in Writers \cup {None}
        /\ store[1].by \in Revokers =>
             store[1].kind = "revoke" /\ revoke[store[1].by].step = "storing"
        /\ store[1].by \in Pairers =>
             store[1].kind = "authorize" /\ pair[store[1].by].step = "storing"
    BY <1>1, Zenon DEF StoreInv
  <2> QED  BY <1>1, <2>1, Zenon
<1>5. /\ \A r \in Revokers : revoke[r].step \notin Working \ {"storing"}
      /\ \A p \in Pairers : pair[p].step \notin Working \ {"storing"}
  BY Zenon, <1>1 DEF StoreInv
<1>6. command.by \in Writers => store' = <<>>
  <2> SUFFICES ASSUME command.by \in Writers PROVE Len(store) = 1
    BY Zenon, <1>2
  <2>1. \A i \in DOMAIN store : i = 1
    BY Zenon, <1>1 DEF StoreInv
  <2> QED  BY <1>1, <1>2, <2>1
<1>7. \A i \in DOMAIN store' : store'[i].by \in Writers /\ store'[i].by # command.by
  <2> SUFFICES ASSUME NEW i \in DOMAIN store'
               PROVE  store'[i].by \in Writers /\ store'[i].by # command.by
    BY Zenon
  <2>1. i + 1 \in DOMAIN store /\ i + 1 # 1 /\ store'[i] = store[i + 1]
    BY <1>2
  <2>2. store[i + 1].by \in Writers
    BY Zenon, <1>1, <2>1 DEF StoreInv
  <2>3. store[i + 1].by # command.by
    BY SMTT(30), <1>1, <2>1, <2>2 DEF StoreInv
  <2> QED  BY Zenon, <2>1, <2>2, <2>3
<1>8. StoreInv'
  <2>1. \A i \in DOMAIN store' :
       /\ store'[i].by \in Writers \cup {None}
       /\ store'[i].kind \in {"authorize", "revoke"}
       /\ store'[i].by \in Revokers =>
            store'[i].kind = "revoke" /\ revoke'[store'[i].by].step = "storing"
       /\ store'[i].by \in Pairers =>
            store'[i].kind = "authorize" /\ pair'[store'[i].by].step = "storing"
       /\ store'[i].by = None => i = 1 /\ store'[i].gate = "started"
    BY <1>1, <1>2, <1>3, <1>7 DEF StoreInv
  <2>2. \A i, j \in DOMAIN store' :
          store'[i].by # None /\ store'[j].by # None => i = j
    <3> SUFFICES ASSUME NEW i \in DOMAIN store', NEW j \in DOMAIN store',
                        store'[i].by # None, store'[j].by # None
                 PROVE  i = j
      BY Zenon
    <3>1. i + 1 = j + 1
      BY <1>1, <1>2 DEF StoreInv
    <3> QED  BY <3>1, <1>2
  <2>3. \A r \in Revokers : revoke'[r].step \in Working \ {"storing"} => store' = <<>>
    BY Zenon, <1>3, <1>5, <1>6 DEF Writers
  <2>4. \A p \in Pairers : pair'[p].step \in Working \ {"storing"} => store' = <<>>
    BY Zenon, <1>3, <1>5, <1>6 DEF Writers
  <2> QED  BY ZenonT(30), <2>1, <2>2, <2>3, <2>4 DEF StoreInv
<1>9. entry # None
  BY Zenon, <1>1 DEF RowInv
<1> QED  BY <1>2, <1>3, <1>4, <1>5, <1>8, <1>9

\* The store commits: its waiter knows the row, which only grows.
LEMMA StoreCommitStep ==
  ASSUME AuthInv, StoreCommit  PROVE  AuthInv'
<1> USE Names
<1>1. PICK command : command = Head(store)
  BY Zenon
<1>2. PICK next : next = IF command.kind = "authorize" THEN AuthorizeDevice
                         ELSE RevokeDevice
  BY Zenon
<1>3. /\ UNCHANGED <<entry, lock, candidate, effect, actor, attached, offer, revoked>>
      /\ behind' = (behind \/ command.by = None)
      /\ TypeOK /\ Running(store) /\ next.generation <= MaxGeneration /\ row' = next
      /\ store' = Tail(store)
      /\ revoke' = Told(revoke, command.by, "stored", next.generation)
      /\ pair' = Told(pair, command.by, "stored", next.generation)
  BY <1>1, <1>2, Zenon DEF AuthInv, StoreCommit, broker, history
<1>4. /\ row \in Snapshots /\ row.generation \in Nat /\ next \in Snapshots
      /\ next.status = "none" <=> next.generation = 0
      /\ next = row \/ next.generation > row.generation
      /\ command.kind = "authorize" => /\ next = Snapshot("authorized", next.generation)
                                       /\ next.generation > row.generation
      /\ command.kind # "authorize" => next = Snapshot("revoked", next.generation)
  BY <1>2, <1>3 DEF TypeOK, Snapshots, AuthorizeDevice, RevokeDevice, Snapshot
<1>5. PICK g \in 0 .. MaxGeneration : g = next.generation
  BY Zenon, <1>3, <1>4 DEF Snapshots
<1>6. /\ store' \in Seq(Commands) /\ revoke' \in [Revokers -> RevokeStates]
      /\ pair' \in [Pairers -> PairStates]
      /\ entry # None /\ StoreInv'
      /\ command.by \in Writers \cup {None}
      /\ \A r \in Revokers :
           /\ revoke[r].step \notin Working \ {"storing"}
           /\ r # command.by => revoke'[r] = revoke[r]
           /\ r = command.by =>
                /\ revoke[r].step = "storing" /\ command.kind = "revoke"
                /\ revoke'[r].step = "stored" /\ revoke'[r].generation = g
      /\ \A p \in Pairers :
           /\ pair[p].step \notin Working \ {"storing"}
           /\ p # command.by => pair'[p] = pair[p]
           /\ p = command.by =>
                /\ pair[p].step = "storing" /\ command.kind = "authorize"
                /\ pair'[p].step = "stored" /\ pair'[p].generation = g
  BY SMTT(30), <1>1, <1>3, <1>5, StoreAnswers
<1>7. TypeOK'
  BY Zenon, <1>3, <1>4, <1>6 DEF TypeOK, RevokeStates, PairStates
<1>8. LockInv'
  BY ZenonT(30), <1>3, <1>6 DEF AuthInv, LockInv, Working
<1>9. RowInv'
  BY SMTT(30), <1>3, <1>4, <1>6 DEF AuthInv, TypeOK, RowInv, DurableFirst, Snapshot, Snapshots
<1>10. entry.generation <= row.generation /\ entry.generation \in Nat
  BY <1>3, <1>6 DEF AuthInv, TypeOK, RowInv, DurableFirst, Snapshots
<1>11. WriterInv'
  <2>1. \A r \in Revokers : revoke'[r].step \notin Published \cup {"accepting"}
    BY Zenon, <1>6 DEF Working, Published
  <2>2. \A p \in Pairers : pair'[p].step \notin Published
    BY <1>6 DEF Working, Published
  <2>3. \A r \in Revokers : revoke'[r].step = "stored" =>
          row' = Snapshot("revoked", revoke'[r].generation)
    BY <1>3, <1>4, <1>5, <1>6 DEF Working
  <2>4. \A p \in Pairers : pair'[p].step = "stored" =>
          /\ row' = Snapshot("authorized", pair'[p].generation)
          /\ pair'[p].generation > entry'.generation
    BY SMTT(30), <1>3, <1>4, <1>5, <1>6, <1>10 DEF Working
  <2> QED  BY Zenon, <2>1, <2>2, <2>3, <2>4 DEF WriterInv, Published
<1>12. ActorInv'
  BY <1>3, <1>6 DEF AuthInv, ActorInv
<1>13. MirrorInv'
  BY Zenon, <1>3, <1>6 DEF MirrorInv, Writers
<1> QED  BY Zenon, <1>3, <1>6, <1>7, <1>8, <1>9, <1>11, <1>12, <1>13, Frames DEF AuthInv

\* The store fails a command: the row stays.
LEMMA StoreFailStep ==
  ASSUME AuthInv, StoreFail  PROVE  AuthInv'
<1> USE Names
<1>1. PICK command : command = Head(store)
  BY Zenon
<1>2. /\ UNCHANGED <<row, entry, lock, candidate, effect, actor, attached, offer, revoked, behind>>
      /\ TypeOK /\ Running(store) /\ store' = Tail(store)
      /\ revoke' = Told(revoke, command.by, "failed", 0)
      /\ pair' = Told(pair, command.by, "failed", 0)
  BY <1>1, Zenon DEF AuthInv, StoreFail, broker, history
<1>3. PICK g \in 0 .. MaxGeneration :
        /\ revoke' = Told(revoke, command.by, "failed", g)
        /\ pair' = Told(pair, command.by, "failed", g)
  BY SMTT(30), <1>2
<1>4. /\ store' \in Seq(Commands) /\ revoke' \in [Revokers -> RevokeStates]
      /\ pair' \in [Pairers -> PairStates]
      /\ entry # None /\ StoreInv'
      /\ \A r \in Revokers :
           /\ revoke[r].step \notin Working \ {"storing"}
           /\ r # command.by => revoke'[r] = revoke[r]
           /\ r = command.by => revoke[r].step = "storing" /\ revoke'[r].step = "failed"
      /\ \A p \in Pairers :
           /\ pair[p].step \notin Working \ {"storing"}
           /\ p # command.by => pair'[p] = pair[p]
           /\ p = command.by => pair[p].step = "storing" /\ pair'[p].step = "failed"
  BY <1>1, <1>2, <1>3, StoreAnswers
<1>5. TypeOK'
  BY Zenon, <1>2, <1>4 DEF TypeOK, RevokeStates, PairStates
<1>6. LockInv'
  BY Zenon, <1>2, <1>4 DEF AuthInv, LockInv, Working
<1>7. RowInv'
  BY ZenonT(30), <1>2, <1>4 DEF AuthInv, RowInv, DurableFirst
<1>8. WriterInv'
  BY <1>2, <1>4 DEF AuthInv, WriterInv, Working, Published
<1>9. ActorInv'
  BY <1>2, <1>4 DEF AuthInv, ActorInv
<1>10. MirrorInv'
  BY Zenon, <1>2, <1>4 DEF AuthInv, MirrorInv, Working
<1> QED  BY Zenon, <1>2, <1>4, <1>5, <1>6, <1>7, <1>8, <1>9, <1>10, Frames DEF AuthInv

\* The session actor runs a command.  An effect still has its permit, so that
\* the entry admits the device; a detach leaves nothing attached.
LEMMA ActorRunStep ==
  ASSUME AuthInv, ActorRun  PROVE  AuthInv'
<1> USE Names
<1>1. PICK command : command = Head(actor)
  BY Zenon
<1>2. /\ UNCHANGED <<row, entry, lock, store, candidate, pair, offer, granted, revoked, behind>>
      /\ TypeOK /\ Running(actor) /\ actor' = Tail(actor) /\ ActorInv
  BY Zenon DEF AuthInv, ActorRun, history
<1>3. /\ actor \in Seq(Commands) /\ command = actor[1] /\ 1 \in DOMAIN actor
      /\ command \in Commands
  BY <1>1, <1>2 DEF TypeOK, Running
<1>4. /\ actor' \in Seq(Commands)
      /\ \A i \in DOMAIN actor' :
           i + 1 \in DOMAIN actor /\ i + 1 # 1 /\ actor'[i] = actor[i + 1]
      /\ \A i, j \in DOMAIN actor' : i + 1 = j + 1 => i = j
  BY <1>2, <1>3
<1>5. \A i \in DOMAIN actor' : command.by # None => actor'[i].by # command.by
  BY <1>2, <1>3, <1>4 DEF ActorInv
<1>6. CASE command.kind = "effect"
  <2>1. /\ attached' \in {attached, attached \cup {command.generation},
                          attached \ {command.generation}}
        /\ effect' = EffectStep(command.by, "done") /\ UNCHANGED revoke
    BY Zenon, <1>1, <1>6 DEF ActorRun
  <2>2. PICK c \in Conns : /\ c = command.by /\ effect[c].step = "sent"
                           /\ effect[c].generation = command.generation
    BY <1>2, <1>3, <1>6 DEF ActorInv
  <2>3. /\ effect' \in [Conns -> Effects]
        /\ \A d \in Conns : d # c => effect'[d] = effect[d]
        /\ effect'[c].step = "done" /\ effect'[c].generation = effect[c].generation
    BY <1>2, <2>1, <2>2, EffectMoves
  <2>4. /\ Admits /\ entry.generation = command.generation
        /\ command.generation \in 1 .. MaxGeneration /\ command.generation > revoked
    BY <1>2, <2>2 DEF AuthInv, EffectAuthorized, TypeOK, Snapshots, Admits, RowInv
  <2>5. TypeOK'
    BY Zenon, <1>2, <1>4, <2>1, <2>3, <2>4 DEF TypeOK, Effects
  <2>6. LockInv'
    BY Zenon, <1>2, <2>1, <2>2, <2>3 DEF AuthInv, LockInv, Permitted
  <2>7. \A r \in Revokers : revoke[r].step \notin Published
    BY <2>4 DEF AuthInv, WriterInv, Admits, Snapshot
  <2>8. WriterInv'
    BY Zenon, <1>2, <2>1, <2>7 DEF AuthInv, WriterInv, Published
  <2>9. ActorInv'
    <3>1. \A i \in DOMAIN actor' :
       /\ actor'[i].kind \in {"effect", "detach"}
       /\ actor'[i].kind = "effect" =>
            /\ actor'[i].by \in Conns /\ effect'[actor'[i].by].step = "sent"
            /\ effect'[actor'[i].by].generation = actor'[i].generation
       /\ actor'[i].kind = "detach" => actor'[i].by \in Revokers \cup {None}
       /\ actor'[i].by \in Revokers => revoke'[actor'[i].by].step = "detaching"
      BY <1>2, <1>4, <1>5, <2>1, <2>2, <2>3 DEF ActorInv
    <3>2. \A i, j \in DOMAIN actor' :
            actor'[i].by = actor'[j].by /\ actor'[i].by # None => i = j
      BY <1>2, <1>4 DEF ActorInv
    <3> QED  BY Zenon, <3>1, <3>2 DEF ActorInv
  <2>10. EffectAuthorized'
    BY <1>2, <1>4, <2>2, <2>3 DEF AuthInv, EffectAuthorized, Permitted, Admits
  <2>11. RevokedIsGone'
    BY Zenon, <1>2, <2>1, <2>2, <2>3, <2>4 DEF AuthInv, RevokedIsGone
  <2> QED  BY Zenon, <1>2, <2>1, <2>5, <2>6, <2>8, <2>9, <2>10, <2>11, Frames DEF AuthInv
<1>7. CASE command.kind # "effect"
  <2>1. /\ attached' = {} /\ UNCHANGED effect
        /\ revoke' = [r \in Revokers |->
             IF r = command.by THEN [revoke[r] EXCEPT !.step = "detached"] ELSE revoke[r]]
    BY Zenon, <1>1, <1>7 DEF ActorRun
  <2>2. \A r \in Revokers : r = command.by => revoke[r].step = "detaching"
    BY <1>2, <1>3 DEF ActorInv
  <2>3. /\ revoke' \in [Revokers -> RevokeStates]
        /\ \A r \in Revokers :
             /\ r # command.by => revoke'[r] = revoke[r]
             /\ r = command.by => /\ revoke'[r].step = "detached"
                                  /\ revoke'[r].generation = revoke[r].generation
    <3>1. /\ revoke \in [Revokers -> RevokeStates] /\ "detached" \in WriterSteps
          /\ \A r \in Revokers : revoke'[r] =
               IF r = command.by THEN [revoke[r] EXCEPT !.step = "detached"] ELSE revoke[r]
      BY Zenon, <1>2, <2>1 DEF TypeOK, RevokeStates, WriterSteps
    <3>2. \A r \in Revokers :
            /\ revoke'[r] \in RevokeStates
            /\ r # command.by => revoke'[r] = revoke[r]
            /\ r = command.by => /\ revoke'[r].step = "detached"
                                 /\ revoke'[r].generation = revoke[r].generation
      <4> SUFFICES ASSUME NEW r \in Revokers
                   PROVE  /\ revoke'[r] \in RevokeStates
                          /\ r # command.by => revoke'[r] = revoke[r]
                          /\ r = command.by =>
                               /\ revoke'[r].step = "detached"
                               /\ revoke'[r].generation = revoke[r].generation
        BY Zenon
      <4>1. CASE r = command.by
        <5>1. revoke'[r] = [revoke[r] EXCEPT !.step = "detached"]
          BY Zenon, <3>1, <4>1
        <5> QED  BY <3>1, <4>1, <5>1 DEF RevokeStates
      <4>2. CASE r # command.by
        BY Zenon, <3>1, <4>2
      <4> QED  BY Zenon, <4>1, <4>2
    <3>3. revoke' \in [Revokers -> RevokeStates]
      BY <2>1, <3>2, Zenon
    <3> QED  BY Zenon, <3>2, <3>3
  <2>4. TypeOK'
    BY Zenon, <1>2, <1>4, <2>1, <2>3 DEF TypeOK, RevokeStates
  <2>5. LockInv' /\ StoreInv'
    BY <1>2, <2>1, <2>2, <2>3 DEF AuthInv, LockInv, StoreInv, Working
  <2>6. WriterInv'
    BY <1>2, <2>1, <2>2, <2>3 DEF AuthInv, WriterInv, Published
  <2>7. RowInv' /\ MirrorInv'
    BY Zenon, <1>2, <2>2, <2>3 DEF AuthInv, RowInv, DurableFirst, MirrorInv
  <2>8. ActorInv'
    <3>1. \A i \in DOMAIN actor' : actor'[i].by \in Revokers =>
            revoke'[actor'[i].by].step = "detaching"
      <4> SUFFICES ASSUME NEW i \in DOMAIN actor', NEW r \in Revokers, r = actor'[i].by
                   PROVE  revoke'[r].step = "detaching"
        BY Zenon
      <4>1. revoke[r].step = "detaching"
        BY <1>2, <1>4 DEF ActorInv
      <4>2. r # command.by
        BY Zenon, <1>5 DEF Writers
      <4> QED  BY Zenon, <2>3, <4>1, <4>2
    <3> QED  BY SMTT(30), <1>2, <1>4, <2>1, <3>1 DEF ActorInv
  <2>9. EffectAuthorized' /\ RevokedIsGone'
    BY <1>2, <1>4, <2>1 DEF AuthInv, EffectAuthorized, RevokedIsGone, Admits
  <2> QED  BY Zenon, <2>4, <2>5, <2>6, <2>7, <2>8, <2>9 DEF AuthInv
<1> QED  BY Zenon, <1>6, <1>7

-----------------------------------------------------------------------------
(* Writers.                                                                *)

\* Whoever holds the lock to write is the only one at work.
LEMMA Alone ==
  ASSUME AuthInv, NEW w \in Writers, w \in lock.holders
  PROVE  /\ lock.holders = {w}
         /\ \A r \in Revokers : r # w => revoke[r].step \notin Working
         /\ \A p \in Pairers : p # w => pair[p].step \notin Working
         /\ \A c \in Conns : effect[c].step \notin Permitted
         /\ \A i \in DOMAIN actor : actor[i].kind = "detach"
<1>1. lock.holders = {w}
  BY Zenon DEF AuthInv, LockInv
<1>2. /\ \A r \in Revokers : r # w => revoke[r].step \notin Working
      /\ \A p \in Pairers : p # w => pair[p].step \notin Working
  BY Zenon, <1>1 DEF AuthInv, LockInv
<1>3. \A c \in Conns : effect[c].step \notin Permitted
  BY Zenon, <1>1, Names DEF AuthInv, LockInv
<1>4. \A i \in DOMAIN actor : actor[i].kind = "detach"
  BY Zenon, <1>3 DEF AuthInv, ActorInv, Permitted
<1> QED  BY Zenon, <1>1, <1>2, <1>3, <1>4

\* A writer gives its store command up.
LEMMA StoreExpires ==
  ASSUME AuthInv, NEW w \in Writers, store' = Expired(store, w),
         \A r \in Revokers : revoke'[r] = IF r = w THEN IdleWriter ELSE revoke[r],
         \A p \in Pairers : pair'[p] = IF p = w THEN IdleWriter ELSE pair[p]
  PROVE  store' \in Seq(Commands) /\ StoreInv' /\ (store = <<>> => store' = <<>>)
<1> USE Names
<1>1. store \in Seq(Commands) /\ StoreInv
  BY Zenon DEF AuthInv, TypeOK
<1>2. \A i, j \in DOMAIN store : store[i].by = w /\ store[j].by = w => i = j
  BY Zenon, <1>1 DEF StoreInv
<1>3. PICK e : e = store'
  BY Zenon
<1>4. e \in Seq(Commands)
  BY Zenon, <1>1, <1>2, <1>3, Expires
<1>5. PICK f \in [DOMAIN e -> DOMAIN store] :
         /\ \A j, k \in DOMAIN e : f[j] = f[k] => j = k
         /\ \A j \in DOMAIN e :
              /\ f[j] >= j
              /\ \/ e[j] = store[f[j]] /\ store[f[j]].by # w
                 \/ /\ StartedFor(store, w) /\ j = 1 /\ f[j] = 1
                    /\ e[j] = [store[1] EXCEPT !.by = None] /\ store[1].by = w
  BY <1>1, <1>2, <1>3, Expires
<1>6. IdleWriter.step = "idle" /\ "idle" \notin Working
  BY Zenon DEF IdleWriter, Working
<1>7. \A j \in DOMAIN e :
        /\ e[j].by \in Writers \cup {None} /\ e[j].by # w
        /\ e[j].kind \in {"authorize", "revoke"}
        /\ e[j].by \in Revokers =>
             e[j].kind = "revoke" /\ revoke'[e[j].by].step = "storing"
        /\ e[j].by \in Pairers =>
             e[j].kind = "authorize" /\ pair'[e[j].by].step = "storing"
        /\ e[j].by = None => j = 1 /\ e[j].gate = "started"
  <2> SUFFICES ASSUME NEW j \in DOMAIN e
               PROVE  /\ e[j].by \in Writers \cup {None} /\ e[j].by # w
                      /\ e[j].kind \in {"authorize", "revoke"}
                      /\ e[j].by \in Revokers =>
                           e[j].kind = "revoke" /\ revoke'[e[j].by].step = "storing"
                      /\ e[j].by \in Pairers =>
                           e[j].kind = "authorize" /\ pair'[e[j].by].step = "storing"
                      /\ e[j].by = None => j = 1 /\ e[j].gate = "started"
    BY Zenon
  <2>1. CASE e[j] = store[f[j]] /\ store[f[j]].by # w
    <3>1. f[j] \in DOMAIN store /\ (f[j] = 1 => j = 1)
      BY <1>4, <1>5
    <3> QED  BY <1>1, <2>1, <3>1 DEF StoreInv, Writers
  <2>2. CASE /\ StartedFor(store, w) /\ j = 1
             /\ e[j] = [store[1] EXCEPT !.by = None] /\ store[1].by = w
    <3>1. 1 \in DOMAIN store /\ store[1] \in Commands /\ store[1].gate = "started"
      BY <1>1, <2>2 DEF StartedFor, Running
    <3>2. e[j].by = None /\ e[j].kind = store[1].kind /\ e[j].gate = "started"
      BY Zenon, <2>2, <3>1 DEF Commands
    <3>3. store[1].kind \in {"authorize", "revoke"}
      BY Zenon, <1>1, <3>1 DEF StoreInv
    <3> QED  BY Zenon, <2>2, <3>2, <3>3 DEF Writers
  <2> QED  BY Zenon, <1>5, <2>1, <2>2
<1>8. \A i, j \in DOMAIN e : e[i].by # None /\ e[j].by # None => i = j
  <2>1. \A j \in DOMAIN e : e[j].by # None => e[j] = store[f[j]] /\ f[j] \in DOMAIN store
    <3> SUFFICES ASSUME NEW j \in DOMAIN e, e[j].by # None PROVE e[j] = store[f[j]]
      BY Zenon
    <3>1. ASSUME StartedFor(store, w), e[j] = [store[1] EXCEPT !.by = None] PROVE FALSE
      BY <1>1, <3>1 DEF StartedFor, Running, Commands
    <3> QED  BY Zenon, <1>5, <3>1
  <2>2. \A i, j \in DOMAIN store : store[i].by # None /\ store[j].by # None => i = j
    BY <1>1, Zenon DEF StoreInv
  <2> SUFFICES ASSUME NEW i \in DOMAIN e, NEW j \in DOMAIN e,
                      e[i].by # None, e[j].by # None
               PROVE  i = j
    BY Zenon
  <2>3. f[i] = f[j]
    BY <2>1, <2>2
  <2> QED  BY <1>5, <2>3, Zenon
<1>9. store = <<>> => e = <<>>
  BY <1>4, <1>5
<1>10. /\ \A r \in Revokers : revoke'[r].step \in Working \ {"storing"} => e = <<>>
       /\ \A p \in Pairers : pair'[p].step \in Working \ {"storing"} => e = <<>>
  BY <1>1, <1>6, <1>9 DEF StoreInv
<1> QED  BY <1>3, <1>4, <1>7, <1>8, <1>9, <1>10 DEF StoreInv

\* A writer that has just got the lock sends its store command.
LEMMA StoreAppends ==
  ASSUME AuthInv, NEW w \in Writers, lock.holders = {}, NEW k \in Commands, k.by = w,
         store' = Append(store, k),
         w \in Revokers => k.kind = "revoke" /\ revoke'[w].step = "storing",
         w \in Pairers => k.kind = "authorize" /\ pair'[w].step = "storing",
         \A r \in Revokers : r # w => revoke'[r] = revoke[r],
         \A p \in Pairers : p # w => pair'[p] = pair[p]
  PROVE  store' \in Seq(Commands) /\ StoreInv'
<1> USE Names
<1>1. store \in Seq(Commands) /\ StoreInv /\ LockInv
  BY Zenon DEF AuthInv, TypeOK
<1>2. /\ store' \in Seq(Commands) /\ DOMAIN store' = DOMAIN store \cup {Len(store) + 1}
      /\ \A i \in DOMAIN store : store'[i] = store[i] /\ i # Len(store) + 1
      /\ store'[Len(store) + 1] = k
  BY <1>1
<1>3. /\ \A r \in Revokers : revoke[r].step \notin Working
      /\ \A p \in Pairers : pair[p].step \notin Working
  BY Zenon, <1>1 DEF LockInv
<1>4. \A i \in DOMAIN store : store[i].by = None
  BY Zenon, <1>1, <1>3 DEF StoreInv, Writers, Working
<1>5. \A i \in DOMAIN store' :
        /\ store'[i].by \in Writers \cup {None}
        /\ store'[i].kind \in {"authorize", "revoke"}
        /\ store'[i].by \in Revokers =>
             store'[i].kind = "revoke" /\ revoke'[store'[i].by].step = "storing"
        /\ store'[i].by \in Pairers =>
             store'[i].kind = "authorize" /\ pair'[store'[i].by].step = "storing"
        /\ store'[i].by = None => i = 1 /\ store'[i].gate = "started"
  <2>1. ASSUME NEW i \in DOMAIN store
        PROVE  /\ store'[i].by = None /\ store'[i].kind \in {"authorize", "revoke"}
               /\ i = 1 /\ store'[i].gate = "started"
    BY <1>1, <1>2, <1>4 DEF StoreInv
  <2>2. /\ k.by \in Writers /\ k.kind \in {"authorize", "revoke"}
        /\ k.by \in Revokers => k.kind = "revoke" /\ revoke'[k.by].step = "storing"
        /\ k.by \in Pairers => k.kind = "authorize" /\ pair'[k.by].step = "storing"
    BY Zenon DEF Writers
  <2> QED  BY <1>2, <2>1, <2>2 DEF Writers
<1>6. \A i, j \in DOMAIN store' : store'[i].by # None /\ store'[j].by # None => i = j
  BY <1>2, <1>4
<1>7. /\ \A r \in Revokers : revoke'[r].step \notin Working \ {"storing"}
      /\ \A p \in Pairers : pair'[p].step \notin Working \ {"storing"}
  BY Zenon, <1>3 DEF Working
<1> QED  BY Zenon, <1>2, <1>5, <1>6, <1>7 DEF StoreInv

\* A revocation queues for the lock.
LEMMA RevokeBegins ==
  ASSUME AuthInv, NEW r \in Revokers, Revoke(r)  PROVE  AuthInv'
<1> USE Names
<1>1. /\ UNCHANGED <<row, entry, store, candidate, effect, actor, attached, pair,
                     offer, granted, revoked, behind>>
      /\ TypeOK /\ revoke[r].step = "idle" /\ entry # None
      /\ revoke' = RevokeStep(r, "waiting") /\ lock' = Queued(r)
  BY Zenon DEF AuthInv, Revoke, revokeOnly, broker
<1>2. /\ revoke' \in [Revokers -> RevokeStates]
      /\ \A q \in Revokers : q # r => revoke'[q] = revoke[q]
      /\ revoke'[r].step = "waiting"
  <2>1. TypeOK /\ revoke' = RevokeStep(r, "waiting")
    BY Zenon, <1>1
  <2> QED  BY <2>1, RevokeMoves DEF WriterSteps
<1>3. lock' \in Locks /\ lock'.holders = lock.holders
  BY Zenon, <1>1, LockMoves DEF Writers
<1>4. TypeOK'
  BY ZenonT(30), <1>1, <1>2, <1>3 DEF TypeOK, Locks, RevokeStates
<1>5. LockInv' /\ StoreInv' /\ WriterInv'
  <2>1. LockInv'
    BY ZenonT(30), <1>1, <1>2, <1>3 DEF AuthInv, LockInv, Working
  <2>2. StoreInv'
    BY SMTT(30), <1>1, <1>2 DEF AuthInv, StoreInv, Working
  <2>3. WriterInv'
    BY ZenonT(30), <1>1, <1>2 DEF AuthInv, WriterInv, Published
  <2> QED  BY Zenon, <2>1, <2>2, <2>3
<1>6. RowInv' /\ ActorInv' /\ MirrorInv'
  BY <1>1, <1>2 DEF AuthInv, RowInv, DurableFirst, ActorInv, MirrorInv
<1> QED  BY Zenon, <1>1, <1>4, <1>5, <1>6, Frames DEF AuthInv

\* It gets the lock and sends its command to the store.
LEMMA RevokeLocks ==
  ASSUME AuthInv, NEW r \in Revokers, RevokeLock(r)  PROVE  AuthInv'
<1> USE Names
<1>1. /\ UNCHANGED <<row, entry, candidate, effect, actor, attached, pair,
                     offer, granted, revoked, behind>>
      /\ TypeOK /\ revoke[r].step = "waiting" /\ Grantable(r)
      /\ revoke' = RevokeStep(r, "storing") /\ lock' = Held(r)
      /\ store' = Append(store, Command("revoke", r, 0, None))
  BY Zenon DEF AuthInv, RevokeLock, revokeOnly, broker
<1>2. /\ revoke' \in [Revokers -> RevokeStates]
      /\ \A q \in Revokers : q # r => revoke'[q] = revoke[q]
      /\ revoke'[r].step = "storing"
  <2>1. TypeOK /\ revoke' = RevokeStep(r, "storing")
    BY Zenon, <1>1
  <2> QED  BY <2>1, RevokeMoves DEF WriterSteps
<1>3. lock.holders = {} /\ lock' \in Locks /\ lock'.holders = {r}
  <2>1. /\ TypeOK /\ Grantable(r) /\ lock' = Held(r)
        /\ r \in Conns \cup Writers /\ r \notin Conns
    BY Zenon, <1>1 DEF Writers
  <2>2. lock.holders = {}
    BY Zenon, <2>1 DEF Grantable
  <2>3. lock' \in Locks /\ lock'.holders = lock.holders \cup {r}
    BY Zenon, <2>1, LockMoves
  <2> QED  BY Zenon, <2>2, <2>3
<1>4. PICK k \in Commands : /\ k = Command("revoke", r, 0, None)
                            /\ k.by = r /\ k.kind = "revoke"
  <2> DEFINE k == Command("revoke", r, 0, None)
  <2>1. k \in Commands /\ k.by = r /\ k.kind = "revoke"
    BY DEF Command, Commands, Writers
  <2> QED  BY <2>1, Zenon
<1>5. store' \in Seq(Commands) /\ StoreInv'
  <2>1. r \in Writers /\ r \notin Pairers
    BY Zenon DEF Writers
  <2>2. store' = Append(store, k) /\ \A p \in Pairers : p # r => pair'[p] = pair[p]
    BY Zenon, <1>1, <1>4
  <2> QED  BY Zenon, <1>2, <1>3, <1>4, <2>1, <2>2, StoreAppends
<1>6. TypeOK'
  BY Zenon, <1>1, <1>2, <1>3, <1>5 DEF TypeOK, Locks, RevokeStates
<1>7. LockInv'
  BY ZenonT(30), <1>1, <1>2, <1>3 DEF AuthInv, LockInv, Writers
<1>8. WriterInv'
  BY <1>1, <1>2 DEF AuthInv, WriterInv, Published
<1>9. RowInv' /\ MirrorInv'
  BY Zenon, <1>1, <1>2 DEF AuthInv, RowInv, DurableFirst, MirrorInv
<1>10. ActorInv'
  BY <1>1, <1>2 DEF AuthInv, ActorInv
<1> QED  BY Zenon, <1>1, <1>5, <1>6, <1>7, <1>8, <1>9, <1>10, Frames DEF AuthInv

\* It publishes the tombstone that is durable, under no effect.
LEMMA RevokePublishes ==
  ASSUME AuthInv, NEW r \in Revokers, RevokePublish(r)  PROVE  AuthInv'
<1> USE Names
<1>1. /\ UNCHANGED <<row, lock, store, candidate, effect, actor, attached, pair,
                     offer, granted, revoked>>
      /\ TypeOK /\ revoke[r].step = "stored" /\ revoke' = RevokeStep(r, "closing")
      /\ entry' = Snapshot("revoked", revoke[r].generation)
  BY Zenon DEF AuthInv, RevokePublish, revokeOnly, broker
<1>2. /\ revoke' \in [Revokers -> RevokeStates]
      /\ \A q \in Revokers : q # r => revoke'[q] = revoke[q]
      /\ revoke'[r].step = "closing" /\ revoke'[r].generation = revoke[r].generation
  <2>1. TypeOK /\ revoke' = RevokeStep(r, "closing")
    BY Zenon, <1>1
  <2> QED  BY <2>1, RevokeMoves DEF WriterSteps
<1>3. r \in Writers /\ r \in lock.holders
  BY Zenon, <1>1 DEF AuthInv, LockInv, Working, Writers
<1>4. /\ \A q \in Revokers : q # r => revoke[q].step \notin Working
      /\ \A p \in Pairers : p # r => pair[p].step \notin Working
      /\ \A c \in Conns : effect[c].step \notin Permitted
      /\ \A i \in DOMAIN actor : actor[i].kind = "detach"
  BY ZenonT(30), <1>3, Alone
<1>5. /\ entry' = row /\ row \in Snapshots /\ row.status = "revoked"
      /\ store = <<>>
  BY <1>1 DEF AuthInv, TypeOK, WriterInv, StoreInv, Working, Snapshot
<1>6. TypeOK'
  BY Zenon, <1>1, <1>2, <1>5 DEF TypeOK, RevokeStates
<1>7. LockInv' /\ StoreInv'
  <2>1. LockInv'
    BY Zenon, <1>1, <1>2, <1>3 DEF AuthInv, LockInv
  <2>2. DOMAIN store = {}
    BY <1>5
  <2>3. StoreInv'
    BY Zenon, <1>1, <1>5, <2>2 DEF StoreInv
  <2> QED  BY Zenon, <2>1, <2>3
<1>8. WriterInv'
  <2>1. \A q \in Revokers : q # r => revoke'[q].step \notin Working
    BY Zenon, <1>2, <1>4
  <2>2. \A p \in Pairers : pair'[p].step \notin Working
    BY Zenon, <1>1, <1>4
  <2>3. revoke'[r].step = "closing" /\ entry' = Snapshot("revoked", revoke'[r].generation)
    BY Zenon, <1>1, <1>2
  <2> QED  BY SMT, <2>1, <2>2, <2>3 DEF WriterInv, Working, Published
<1>9. RowInv'
  <2>1. RowInv /\ row' = row /\ revoked' = revoked
    BY Zenon, <1>1 DEF AuthInv
  <2>2. entry' # None
    BY Zenon, <1>5
  <2>3. DurableFirst'
    BY <1>5, <2>1 DEF DurableFirst, Snapshots
  <2> QED  BY Zenon, <1>5, <2>1, <2>2, <2>3 DEF RowInv
<1>10. ActorInv'
  BY <1>1, <1>2, <1>4 DEF AuthInv, ActorInv
<1>11. EffectAuthorized'
  BY Zenon, <1>1, <1>4 DEF EffectAuthorized, Permitted
<1>12. RevokedIsGone'
  BY Zenon, <1>1, <1>5 DEF AuthInv, RevokedIsGone, RowInv
<1>13. MirrorInv'
  BY Zenon, <1>1, <1>5 DEF MirrorInv
<1> QED  BY Zenon, <1>6, <1>7, <1>8, <1>9, <1>10, <1>11, <1>12, <1>13 DEF AuthInv

\* It closes the connections of the device: none is ready or open after that,
\* and none becomes so while the entry is the tombstone.
LEMMA RemoteCloses ==
  ASSUME AuthInv, NEW r \in Revokers, CloseRemote(r)  PROVE  AuthInv'
<1> USE Names
<1>1. /\ UNCHANGED <<row, entry, lock, store, effect, actor, attached, pair,
                     offer, granted, revoked, behind>>
      /\ TypeOK /\ revoke[r].step = "closing" /\ revoke' = RevokeStep(r, "closed")
      /\ candidate' = [c \in Conns |->
           IF candidate[c].step = "admitted" THEN candidate[c] ELSE NoCandidate]
  BY Zenon DEF AuthInv, CloseRemote, revokeOnly
<1>2. /\ revoke' \in [Revokers -> RevokeStates]
      /\ \A q \in Revokers : q # r => revoke'[q] = revoke[q]
      /\ revoke'[r].step = "closed" /\ revoke'[r].generation = revoke[r].generation
  <2>1. TypeOK /\ revoke' = RevokeStep(r, "closed")
    BY Zenon, <1>1
  <2> QED  BY <2>1, RevokeMoves DEF WriterSteps
<1> DEFINE Steps == {"none", "admitted", "registered", "ready", "open"}
<1>3. NoCandidate \in [step : Steps, accepted : Snapshots] /\ NoCandidate.step = "none"
  BY DEF NoCandidate, NoRow, Snapshot, Snapshots
<1>4. /\ candidate' \in [Conns -> [step : Steps, accepted : Snapshots]]
      /\ \A c \in Conns : candidate'[c].step \notin {"ready", "open"}
  BY Zenon, <1>1, <1>3 DEF TypeOK
<1>5. TypeOK'
  BY ZenonT(30), <1>1, <1>2, <1>4 DEF TypeOK, RevokeStates
<1>6. LockInv' /\ StoreInv'
  BY <1>1, <1>2 DEF AuthInv, LockInv, StoreInv, Working
<1>7. WriterInv'
  <2>1. /\ \A q \in Revokers :
            /\ revoke'[q].step = "stored" =>
                 row' = Snapshot("revoked", revoke'[q].generation)
            /\ revoke'[q].step \in Published =>
                 entry' = Snapshot("revoked", revoke'[q].generation)
            /\ revoke'[q].step = "detached" => attached' = {}
            /\ revoke'[q].step # "accepting"
    BY <1>1, <1>2 DEF AuthInv, WriterInv, Published
  <2>2. \A c \in Inbound : candidate'[c].step \notin {"ready", "open"}
    BY Zenon, <1>4 DEF Conns
  <2> QED  BY Zenon, <1>1, <2>1, <2>2 DEF AuthInv, WriterInv
<1>8. RowInv' /\ MirrorInv'
  BY Zenon, <1>1, <1>2 DEF AuthInv, RowInv, DurableFirst, MirrorInv
<1>9. ActorInv'
  BY <1>1, <1>2 DEF AuthInv, ActorInv
<1>10. RevokedIsGone'
  BY Zenon, <1>1, <1>4 DEF AuthInv, RevokedIsGone, Conns
<1> QED  BY Zenon, <1>1, <1>5, <1>6, <1>7, <1>8, <1>9, <1>10, Frames DEF AuthInv

\* It sends its detach to the session actor.
LEMMA Detaches ==
  ASSUME AuthInv, NEW r \in Revokers, DetachPrincipal(r)  PROVE  AuthInv'
<1> USE Names
<1>1. /\ UNCHANGED <<row, entry, lock, store, candidate, effect, attached, pair,
                     offer, granted, revoked, behind>>
      /\ TypeOK /\ revoke[r].step = "closed" /\ revoke' = RevokeStep(r, "detaching")
      /\ actor' = Append(actor, Command("detach", r, 0, None))
  BY Zenon DEF AuthInv, DetachPrincipal, revokeOnly, broker
<1>2. /\ revoke' \in [Revokers -> RevokeStates]
      /\ \A q \in Revokers : q # r => revoke'[q] = revoke[q]
      /\ revoke'[r].step = "detaching" /\ revoke'[r].generation = revoke[r].generation
  <2>1. TypeOK /\ revoke' = RevokeStep(r, "detaching")
    BY Zenon, <1>1
  <2> QED  BY <2>1, RevokeMoves DEF WriterSteps
<1> DEFINE k == Command("detach", r, 0, None)
<1>3. k \in Commands /\ k.kind = "detach" /\ k.by = r
  BY DEF Commands, Command, Writers
<1> HIDE DEF k
<1>4. /\ actor' \in Seq(Commands) /\ DOMAIN actor' = DOMAIN actor \cup {Len(actor) + 1}
      /\ \A i \in DOMAIN actor : actor'[i] = actor[i] /\ i # Len(actor) + 1
      /\ actor'[Len(actor) + 1] = k
  BY <1>1, <1>3 DEF TypeOK, k
<1>5. TypeOK'
  BY Zenon, <1>1, <1>2, <1>4 DEF TypeOK, RevokeStates
<1>6. LockInv' /\ StoreInv'
  <2>1. LockInv'
    BY Zenon, <1>1, <1>2 DEF AuthInv, LockInv, Working
  <2>2. store' = <<>> /\ StoreInv
    BY Zenon, <1>1 DEF AuthInv, StoreInv, Working
  <2>3. DOMAIN store' = {}
    BY <2>2
  <2> QED  BY Zenon, <2>1, <2>2, <2>3 DEF StoreInv
<1>7. WriterInv'
  BY <1>1, <1>2 DEF AuthInv, WriterInv, Published
<1>8. RowInv' /\ MirrorInv'
  BY Zenon, <1>1, <1>2 DEF AuthInv, RowInv, DurableFirst, MirrorInv
<1>9. \A i \in DOMAIN actor : actor[i].by # r
  BY Zenon, <1>1 DEF AuthInv, ActorInv
<1>10. ActorInv'
  <2> DEFINE n == Len(actor) + 1
  <2>1. /\ DOMAIN actor' = DOMAIN actor \cup {n} /\ actor'[n] = k
        /\ \A i \in DOMAIN actor : actor'[i] = actor[i] /\ i # n
    BY Zenon, <1>4
  <2> HIDE DEF n
  <2>2. ActorInv /\ effect' = effect
    BY Zenon, <1>1 DEF AuthInv
  <2>3. \A i \in DOMAIN actor :
          /\ actor[i].kind \in {"effect", "detach"}
          /\ actor[i].kind = "effect" =>
               /\ actor[i].by \in Conns /\ effect'[actor[i].by].step = "sent"
               /\ effect'[actor[i].by].generation = actor[i].generation
          /\ actor[i].kind = "detach" => actor[i].by \in Revokers \cup {None}
          /\ actor[i].by \in Revokers => revoke'[actor[i].by].step = "detaching"
    BY Zenon, <1>2, <1>9, <2>2 DEF ActorInv
  <2>4. \A i \in DOMAIN actor' :
          /\ actor'[i].kind \in {"effect", "detach"}
          /\ actor'[i].kind = "effect" =>
               /\ actor'[i].by \in Conns /\ effect'[actor'[i].by].step = "sent"
               /\ effect'[actor'[i].by].generation = actor'[i].generation
          /\ actor'[i].kind = "detach" => actor'[i].by \in Revokers \cup {None}
          /\ actor'[i].by \in Revokers => revoke'[actor'[i].by].step = "detaching"
    <3> TAKE i \in DOMAIN actor'
    <3>1. CASE i \in DOMAIN actor
      BY Zenon, <2>1, <2>3, <3>1
    <3>2. CASE i = n
      <4>1. actor'[i] = k /\ k.kind # "effect"
        BY Zenon, <1>3, <2>1, <3>2
      <4> QED  BY Zenon, <1>2, <1>3, <4>1
    <3> QED  BY Zenon, <2>1, <3>1, <3>2
  <2>5. \A i, j \in DOMAIN actor' :
          actor'[i].by = actor'[j].by /\ actor'[i].by # None => i = j
    <3> TAKE i, j \in DOMAIN actor'
    <3> HAVE actor'[i].by = actor'[j].by /\ actor'[i].by # None
    <3>1. \A m \in DOMAIN actor : actor'[m].by # actor'[n].by
      BY Zenon, <1>3, <1>9, <2>1
    <3>2. CASE i \in DOMAIN actor /\ j \in DOMAIN actor
      <4>1. actor[i].by = actor[j].by /\ actor[i].by # None
        BY Zenon, <2>1, <3>2
      <4> QED  BY Zenon, <2>2, <3>2, <4>1 DEF ActorInv
    <3>3. CASE i = n
      BY Zenon, <2>1, <3>1, <3>3
    <3>4. CASE j = n
      BY Zenon, <2>1, <3>1, <3>4
    <3> QED  BY Zenon, <2>1, <3>2, <3>3, <3>4
  <2> QED  BY Zenon, <2>4, <2>5 DEF ActorInv
<1>11. EffectAuthorized'
  BY <1>1, <1>3, <1>4 DEF AuthInv, EffectAuthorized, Admits
<1> QED  BY Zenon, <1>1, <1>5, <1>6, <1>7, <1>8, <1>10, <1>11, Frames DEF AuthInv

\* It is reported done: nothing of the device is left from before.
LEMMA RevokeEndsWell ==
  ASSUME AuthInv, NEW r \in Revokers, RevokeDone(r)  PROVE  AuthInv'
<1> USE Names
<1>1. /\ UNCHANGED <<row, entry, store, candidate, effect, actor, attached, pair,
                     offer, granted, behind>>
      /\ TypeOK /\ revoke[r].step = "detached" /\ revoked' = revoke[r].generation
      /\ revoke' = [revoke EXCEPT ![r] = IdleWriter] /\ lock' = Released(r)
  BY Zenon DEF AuthInv, RevokeDone, revokeOnly, broker
<1>2. /\ revoke' \in [Revokers -> RevokeStates]
      /\ \A q \in Revokers : revoke'[q] = IF q = r THEN IdleWriter ELSE revoke[q]
      /\ IdleWriter.step = "idle"
  BY Zenon, <1>1, WriterRests DEF IdleWriter
<1>3. r \in Writers /\ r \in lock.holders /\ store = <<>>
  BY Zenon, <1>1 DEF AuthInv, LockInv, StoreInv, Working, Writers
<1>4. /\ \A q \in Revokers : q # r => revoke[q].step \notin Working
      /\ \A p \in Pairers : p # r => pair[p].step \notin Working
      /\ \A c \in Conns : effect[c].step \notin Permitted
      /\ lock.holders = {r}
  BY Zenon, <1>3, Alone
<1>5. lock' \in Locks /\ lock'.holders = {}
  BY Zenon, <1>1, <1>3, <1>4, LockMoves
<1>6. TypeOK'
  BY Zenon, <1>1, <1>2, <1>5 DEF TypeOK, Locks, RevokeStates
<1>7. LockInv'
  BY Zenon, <1>1, <1>2, <1>4, <1>5 DEF LockInv, Working, Writers
<1>8. StoreInv' /\ WriterInv'
  <2>1. DOMAIN store = {}
    BY <1>3
  <2>2. StoreInv'
    BY Zenon, <1>1, <1>3, <2>1 DEF StoreInv
  <2>3. WriterInv'
    BY Zenon, <1>1, <1>2 DEF AuthInv, WriterInv, Published
  <2> QED  BY Zenon, <2>2, <2>3
<1>9. /\ entry = Snapshot("revoked", revoke[r].generation) /\ entry # None
      /\ attached = {} /\ \A c \in Inbound : candidate[c].step \notin {"ready", "open"}
      /\ revoke[r].generation \in Nat
  <2>1. /\ entry = Snapshot("revoked", revoke[r].generation)
        /\ attached = {} /\ \A c \in Inbound : candidate[c].step \notin {"ready", "open"}
    BY Zenon, <1>1 DEF AuthInv, WriterInv, Published
  <2>2. entry # None
    BY Zenon, <1>1 DEF AuthInv, RowInv
  <2>3. revoke[r].generation \in 0 .. MaxGeneration
    BY Zenon, <1>1 DEF TypeOK
  <2> QED  BY <2>1, <2>2, <2>3
<1>10. entry.status = "revoked" /\ entry.generation = revoked'
  BY Zenon, <1>1, <1>9 DEF Snapshot
<1>11. RowInv'
  <2>1. /\ DurableFirst /\ row \in Snapshots /\ UNCHANGED <<row, entry>>
        /\ revoked' \in Nat
    BY Zenon, <1>1, <1>9 DEF AuthInv, RowInv, TypeOK
  <2>2. /\ row.generation >= revoked'
        /\ row.status = "authorized" => row.generation > revoked'
    BY <1>9, <1>10, <2>1 DEF DurableFirst, Snapshots
  <2> QED  BY Zenon, <1>9, <1>10, <2>1, <2>2 DEF RowInv, DurableFirst
<1>12. ActorInv'
  BY Zenon, <1>1, <1>2 DEF AuthInv, ActorInv
<1>13. RevokedIsGone'
  BY <1>1, <1>4, <1>9, <1>10 DEF RevokedIsGone, Permitted
<1>14. MirrorInv'
  BY Zenon, <1>1, <1>2 DEF AuthInv, MirrorInv
<1> QED  BY Zenon, <1>1, <1>6, <1>7, <1>8, <1>11, <1>12, <1>13, <1>14, Frames DEF AuthInv

\* A request that fails or gives up drops the permit; what it has left in the
\* two actors is nobody's, or gone.
LEMMA RevokeGivesUp ==
  ASSUME AuthInv, NEW r \in Revokers, RevokeGiveUp(r)  PROVE  AuthInv'
<1> USE Names
<1>1. /\ UNCHANGED <<row, entry, candidate, effect, attached, pair, offer, granted, revoked>>
      /\ TypeOK /\ revoke[r].step # "idle"
      /\ behind' = (behind \/ revoke[r].step = "stored")
      /\ revoke' = [revoke EXCEPT ![r] = IdleWriter] /\ lock' = Released(r)
      /\ store' = Expired(store, r) /\ actor' = Expired(actor, r)
  BY Zenon DEF AuthInv, RevokeGiveUp, revokeOnly, broker
<1>2. /\ revoke' \in [Revokers -> RevokeStates]
      /\ \A q \in Revokers : revoke'[q] = IF q = r THEN IdleWriter ELSE revoke[q]
      /\ IdleWriter.step = "idle"
  BY Zenon, <1>1, WriterRests DEF IdleWriter
<1>3. r \in Writers /\ r \notin Pairers /\ r \notin Conns
  BY Zenon DEF Writers
<1>4. lock' \in Locks /\ lock'.holders = lock.holders \ {r}
  BY Zenon, <1>1, <1>3, LockMoves
<1>5. store' \in Seq(Commands) /\ StoreInv' /\ (store = <<>> => store' = <<>>)
  <2>1. \A p \in Pairers : pair'[p] = IF p = r THEN IdleWriter ELSE pair[p]
    BY Zenon, <1>1, <1>3
  <2> QED  BY Zenon, <1>1, <1>2, <1>3, <2>1, StoreExpires
<1>6. actor \in Seq(Commands) /\ \A i, j \in DOMAIN actor :
        actor[i].by = r /\ actor[j].by = r => i = j
  <2>1. actor \in Seq(Commands) /\ ActorInv /\ r # None
    BY Zenon, <1>1, <1>3 DEF AuthInv, TypeOK
  <2> QED  BY Zenon, <2>1 DEF ActorInv
<1>7. PICK e : e = actor'
  BY Zenon
<1>8. e \in Seq(Commands)
  BY Zenon, <1>1, <1>6, <1>7, Expires
<1>9. PICK f \in [DOMAIN e -> DOMAIN actor] :
         /\ \A j, k \in DOMAIN e : f[j] = f[k] => j = k
         /\ \A j \in DOMAIN e :
              /\ f[j] >= j
              /\ \/ e[j] = actor[f[j]] /\ actor[f[j]].by # r
                 \/ /\ StartedFor(actor, r) /\ j = 1 /\ f[j] = 1
                    /\ e[j] = [actor[1] EXCEPT !.by = None] /\ actor[1].by = r
  <2>1. e = Expired(actor, r)
    BY Zenon, <1>1, <1>7
  <2> QED  BY <1>6, <2>1, Expires
<1>10. \A j \in DOMAIN e :
         \/ e[j] = actor[f[j]] /\ actor[f[j]].by # r
         \/ e[j].kind = "detach" /\ e[j].by = None
  <2>1. ASSUME StartedFor(actor, r), NEW j \in DOMAIN e,
               e[j] = [actor[1] EXCEPT !.by = None], actor[1].by = r
        PROVE  e[j].kind = "detach" /\ e[j].by = None
    <3>1. 1 \in DOMAIN actor /\ actor[1] \in Commands
      BY <1>6, <2>1 DEF StartedFor, Running
    <3>2. actor[1].kind = "detach"
      BY Zenon, <1>3, <2>1, <3>1 DEF AuthInv, ActorInv
    <3> QED  BY Zenon, <2>1, <3>1, <3>2 DEF Commands
  <2> QED  BY Zenon, <1>9, <2>1
<1>11. TypeOK'
  BY Zenon, <1>1, <1>2, <1>4, <1>5, <1>7, <1>8 DEF TypeOK, Locks, RevokeStates
<1>12. LockInv'
  <2>1. r \notin Conns /\ LockInv /\ "idle" \notin Working
    BY Zenon, <1>3 DEF AuthInv, Working
  <2>2. \A w \in Writers : w \in lock'.holders => lock'.holders = {w}
    BY Zenon, <1>4, <2>1 DEF LockInv
  <2>3. \A q \in Revokers : revoke'[q].step \in Working => q \in lock'.holders
    BY Zenon, <1>2, <1>4, <2>1 DEF LockInv
  <2>4. \A p \in Pairers : pair'[p].step \in Working => p \in lock'.holders
    BY Zenon, <1>1, <1>3, <1>4, <2>1 DEF LockInv
  <2>5. \A c \in Conns : effect'[c].step \in Permitted => c \in lock'.holders
    BY Zenon, <1>1, <1>4, <2>1 DEF LockInv
  <2> QED  BY Zenon, <2>2, <2>3, <2>4, <2>5 DEF LockInv
<1>13. WriterInv'
  BY Zenon, <1>1, <1>2 DEF AuthInv, WriterInv, Published
<1>14. RowInv'
  BY Zenon, <1>1, <1>2, <1>5 DEF AuthInv, RowInv, DurableFirst
<1>15. ActorInv'
  <2>1. \A j \in DOMAIN e :
       /\ e[j].kind \in {"effect", "detach"}
       /\ e[j].kind = "effect" =>
            /\ e[j].by \in Conns /\ effect'[e[j].by].step = "sent"
            /\ effect'[e[j].by].generation = e[j].generation
       /\ e[j].kind = "detach" => e[j].by \in Revokers \cup {None}
       /\ e[j].by \in Revokers => revoke'[e[j].by].step = "detaching"
    BY <1>1, <1>2, <1>9, <1>10 DEF AuthInv, ActorInv, Writers
  <2>2. \A i, j \in DOMAIN e : e[i].by = e[j].by /\ e[i].by # None => i = j
    <3> SUFFICES ASSUME NEW i \in DOMAIN e, NEW j \in DOMAIN e,
                        e[i].by = e[j].by, e[i].by # None
                 PROVE  i = j
      BY Zenon
    <3>1. e[i] = actor[f[i]] /\ e[j] = actor[f[j]]
      BY Zenon, <1>10
    <3>2. f[i] = f[j]
      BY <1>9, <3>1 DEF AuthInv, ActorInv
    <3> QED  BY <1>9, <3>2, Zenon
  <2> QED  BY <1>7, <2>1, <2>2 DEF ActorInv
<1>16. EffectAuthorized'
  <2>1. \A j \in DOMAIN e : e[j].kind = "effect" =>
          Admits /\ entry.generation = e[j].generation
    BY <1>9, <1>10 DEF AuthInv, EffectAuthorized
  <2> QED  BY Zenon, <1>1, <1>7, <2>1 DEF AuthInv, EffectAuthorized, Admits
<1>17. MirrorInv'
  BY Zenon, <1>1, <1>2 DEF AuthInv, MirrorInv
<1> QED  BY Zenon, <1>1, <1>5, <1>11, <1>12, <1>13, <1>14, <1>15, <1>16, <1>17, Frames
         DEF AuthInv

\* A handshake takes an offer and queues for the lock of the entry, which it
\* makes if there is none.
LEMMA Consumes ==
  ASSUME AuthInv, NEW p \in Pairers, NEW o \in Offers, TryConsume(p, o)  PROVE  AuthInv'
<1> USE Names
<1>1. /\ UNCHANGED <<row, store, candidate, effect, actor, attached, revoke, granted,
                     revoked, behind>>
      /\ TypeOK /\ pair[p].step = "idle"
      /\ pair' = [pair EXCEPT ![p] = [step |-> "waiting", generation |-> 0, offer |-> o]]
      /\ offer' = [offer EXCEPT ![o] = "consuming"]
      /\ entry' = IF entry = None THEN NoRow ELSE entry
      /\ lock' = Queued(p)
  BY Zenon DEF AuthInv, TryConsume, pairOnly, broker, history
<1>2. /\ pair' \in [Pairers -> PairStates]
      /\ \A q \in Pairers : q # p => pair'[q] = pair[q]
      /\ pair'[p].step = "waiting"
  BY <1>1 DEF TypeOK, PairStates, WriterSteps
<1>3. lock' \in Locks /\ lock'.holders = lock.holders
  BY Zenon, <1>1, LockMoves DEF Writers
<1>4. NoRow \in Snapshots /\ NoRow.status = "none" /\ NoRow.generation = 0
  BY DEF NoRow, Snapshot, Snapshots
<1>5. /\ offer' \in [Offers -> {"ready", "consuming", "consumed", "expired"}]
      /\ entry' \in Snapshots /\ (entry'.status = "none" <=> entry'.generation = 0)
  BY Zenon, <1>1, <1>4 DEF TypeOK
<1>6. TypeOK'
  BY ZenonT(30), <1>1, <1>2, <1>3, <1>5 DEF TypeOK, Locks, PairStates
<1>7. LockInv' /\ StoreInv'
  BY <1>1, <1>2, <1>3 DEF AuthInv, LockInv, StoreInv, Working
<1>8. /\ entry # None => entry' = entry
      /\ entry = None => entry' = NoRow /\ row = NoRow /\ entry' = row
      /\ entry = None => ~Admits
  BY Zenon, <1>1, <1>4 DEF AuthInv, RowInv, Admits
<1>9. entry = None => /\ \A r \in Revokers : revoke[r].step = "idle"
                      /\ \A q \in Pairers : pair[q].step = "idle"
  BY Zenon DEF AuthInv, RowInv
<1>10. WriterInv'
  BY ZenonT(30), <1>1, <1>2, <1>8, <1>9 DEF AuthInv, WriterInv, Published
<1>11. RowInv'
  BY <1>1, <1>2, <1>4, <1>5, <1>8 DEF AuthInv, RowInv, DurableFirst
<1>12. EffectAuthorized'
  BY Zenon, <1>1, <1>8 DEF AuthInv, EffectAuthorized, Admits
<1>13. RevokedIsGone'
  BY Zenon, <1>1, <1>4, <1>8 DEF AuthInv, RevokedIsGone, RowInv
<1>14. MirrorInv'
  BY Zenon, <1>1, <1>2, <1>8 DEF AuthInv, MirrorInv
<1> QED  BY Zenon, <1>1, <1>6, <1>7, <1>10, <1>11, <1>12, <1>13, <1>14, Frames DEF AuthInv

\* A handshake gets the lock and sends its command to the store.
LEMMA PairLocks ==
  ASSUME AuthInv, NEW p \in Pairers, PairLock(p)  PROVE  AuthInv'
<1> USE Names
<1>1. /\ UNCHANGED <<row, entry, candidate, effect, actor, attached, revoke,
                     offer, granted, revoked, behind>>
      /\ TypeOK /\ pair[p].step = "waiting" /\ Grantable(p)
      /\ pair' = PairStep(p, "storing") /\ lock' = Held(p)
      /\ store' = Append(store, Command("authorize", p, 0, pair[p].offer))
  BY Zenon DEF AuthInv, PairLock, pairOnly, broker, history
<1>2. /\ pair' \in [Pairers -> PairStates]
      /\ \A q \in Pairers : q # p => pair'[q] = pair[q]
      /\ pair'[p].step = "storing"
  <2>1. TypeOK /\ pair' = PairStep(p, "storing")
    BY Zenon, <1>1
  <2> QED  BY <2>1, PairMoves DEF WriterSteps
<1>3. lock.holders = {} /\ lock' \in Locks /\ lock'.holders = {p}
  <2>1. /\ TypeOK /\ Grantable(p) /\ lock' = Held(p)
        /\ p \in Conns \cup Writers /\ p \notin Conns
    BY Zenon, <1>1 DEF Writers
  <2>2. lock.holders = {}
    BY Zenon, <2>1 DEF Grantable
  <2>3. lock' \in Locks /\ lock'.holders = lock.holders \cup {p}
    BY Zenon, <2>1, LockMoves
  <2> QED  BY Zenon, <2>2, <2>3
<1>4. PICK k \in Commands : /\ k = Command("authorize", p, 0, pair[p].offer)
                            /\ k.by = p /\ k.kind = "authorize"
  <2> DEFINE k == Command("authorize", p, 0, pair[p].offer)
  <2>1. pair[p].offer \in Offers \cup {None}
    BY ZenonT(30), <1>1 DEF TypeOK
  <2>2. k \in Commands /\ k.by = p /\ k.kind = "authorize"
    BY <2>1 DEF Command, Commands, Writers
  <2> QED  BY <2>2, Zenon
<1>5. store' \in Seq(Commands) /\ StoreInv'
  <2>1. p \in Writers /\ p \notin Revokers
    BY Zenon DEF Writers
  <2>2. store' = Append(store, k) /\ \A r \in Revokers : r # p => revoke'[r] = revoke[r]
    BY Zenon, <1>1, <1>4
  <2> QED  BY Zenon, <1>2, <1>3, <1>4, <2>1, <2>2, StoreAppends
<1>6. TypeOK'
  BY Zenon, <1>1, <1>2, <1>3, <1>5 DEF TypeOK, Locks, PairStates
<1>7. LockInv'
  BY Zenon, <1>1, <1>2, <1>3 DEF AuthInv, LockInv, Writers
<1>8. WriterInv'
  BY Zenon, <1>1, <1>2 DEF AuthInv, WriterInv, Published
<1>9. RowInv' /\ MirrorInv'
  BY Zenon, <1>1, <1>2 DEF AuthInv, RowInv, DurableFirst, MirrorInv
<1> QED  BY Zenon, <1>1, <1>5, <1>6, <1>7, <1>8, <1>9, Frames DEF AuthInv

\* A handshake ends without an answer of the store, or after its reply.
LEMMA PairEnds ==
  ASSUME AuthInv, NEW p \in Pairers, PairRollback(p) \/ PairUnknown(p) \/ PairReply(p)
  PROVE  AuthInv'
<1> USE Names
<1>1. /\ UNCHANGED <<row, entry, candidate, effect, actor, attached, revoke, granted,
                     revoked, behind>>
      /\ TypeOK
      /\ pair' = [pair EXCEPT ![p] = IdleWriter] /\ lock' = Released(p)
  BY Zenon DEF AuthInv, PairRollback, PairUnknown, PairReply, pairOnly, broker, history
<1>2. p \in Writers /\ p \notin Revokers
  BY Zenon DEF Writers
<1>3. /\ pair' \in [Pairers -> PairStates]
      /\ \A q \in Pairers : pair'[q] = IF q = p THEN IdleWriter ELSE pair[q]
      /\ IdleWriter.step = "idle"
  BY Zenon, <1>1, WriterRests DEF IdleWriter
<1>4. lock' \in Locks /\ lock'.holders = lock.holders \ {p}
  BY Zenon, <1>1, <1>2, LockMoves
<1>5. offer' \in [Offers -> {"ready", "consuming", "consumed", "expired"}]
  BY Zenon, <1>1 DEF TypeOK, PairRollback, PairUnknown, PairReply
<1>6. pair[p].step # "stored" /\ pair[p].step # "idle"
  <2>1. CASE PairRollback(p) \/ PairReply(p)
    BY Zenon, <2>1 DEF PairRollback, PairReply
  <2>2. CASE PairUnknown(p)
    <3>1. 1 \in DOMAIN store /\ store[1].by = p
      BY <1>1, <2>2 DEF PairUnknown, StartedFor, Running, TypeOK
    <3> QED  BY ZenonT(30), <1>2, <3>1 DEF AuthInv, StoreInv
  <2> QED  BY Zenon, <2>1, <2>2
<1>7. store' \in Seq(Commands) /\ StoreInv' /\ (store = <<>> => store' = <<>>)
  <2>1. \A r \in Revokers : revoke'[r] = IF r = p THEN IdleWriter ELSE revoke[r]
    BY Zenon, <1>1, <1>2
  <2>2. CASE PairRollback(p) \/ PairUnknown(p)
    <3>1. store' = Expired(store, p)
      BY Zenon, <2>2 DEF PairRollback, PairUnknown
    <3> QED  BY Zenon, <1>2, <1>3, <2>1, <3>1, StoreExpires
  <2>3. CASE PairReply(p)
    <3>1. store = <<>> /\ store' = store /\ store \in Seq(Commands)
      BY Zenon, <1>1, <2>3 DEF AuthInv, TypeOK, StoreInv, PairReply, Working
    <3>2. DOMAIN store' = {}
      BY <3>1
    <3> QED  BY Zenon, <3>1, <3>2 DEF StoreInv
  <2> QED  BY Zenon, <2>2, <2>3
<1>8. TypeOK'
  BY Zenon, <1>1, <1>3, <1>4, <1>5, <1>7 DEF TypeOK, Locks, PairStates
<1>9. LockInv'
  <2>1. p \notin Conns /\ LockInv /\ "idle" \notin Working
    BY Zenon, <1>2 DEF AuthInv, Working
  <2>2. \A w \in Writers : w \in lock'.holders => lock'.holders = {w}
    BY Zenon, <1>2, <1>4, <2>1 DEF LockInv
  <2>3. \A r \in Revokers : revoke'[r].step \in Working => r \in lock'.holders
    BY Zenon, <1>1, <1>2, <1>4, <2>1 DEF LockInv
  <2>4. \A q \in Pairers : pair'[q].step \in Working => q \in lock'.holders
    BY Zenon, <1>3, <1>4, <2>1 DEF LockInv
  <2>5. \A c \in Conns : effect'[c].step \in Permitted => c \in lock'.holders
    BY Zenon, <1>1, <1>4, <2>1 DEF LockInv
  <2> QED  BY Zenon, <2>2, <2>3, <2>4, <2>5 DEF LockInv
<1>10. WriterInv'
  BY Zenon, <1>1, <1>3 DEF AuthInv, WriterInv, Published
<1>11. RowInv' /\ MirrorInv'
  BY Zenon, <1>1, <1>3, <1>6, <1>7 DEF AuthInv, RowInv, DurableFirst, MirrorInv
<1> QED  BY Zenon, <1>1, <1>7, <1>8, <1>9, <1>10, <1>11, Frames DEF AuthInv

\* A handshake publishes the authorization that is durable, under no effect.
LEMMA PairCommits ==
  ASSUME AuthInv, NEW p \in Pairers, PairCommit(p)  PROVE  AuthInv'
<1> USE Names
<1>1. /\ UNCHANGED <<row, store, candidate, effect, actor, attached, revoke,
                     granted, revoked>>
      /\ TypeOK /\ pair[p].step = "stored"
      /\ entry' = Snapshot("authorized", pair[p].generation)
      /\ \/ /\ offer' = [offer EXCEPT ![pair[p].offer] = "consumed"]
            /\ pair' = PairStep(p, "accepting") /\ UNCHANGED lock
         \/ /\ pair' = [pair EXCEPT ![p] = IdleWriter]
            /\ lock' = Released(p) /\ UNCHANGED offer
  BY Zenon DEF AuthInv, PairCommit, pairOnly, broker
<1>2. p \in Writers /\ p \in lock.holders /\ p \notin Revokers
  BY Zenon, <1>1 DEF AuthInv, LockInv, Working, Writers
<1>3. /\ pair' \in [Pairers -> PairStates] /\ lock' \in Locks
      /\ \A q \in Pairers : q # p => pair'[q] = pair[q]
      /\ \/ pair'[p].step = "accepting" /\ lock'.holders = lock.holders
         \/ pair'[p].step = "idle" /\ lock'.holders = lock.holders \ {p}
      /\ offer' \in [Offers -> {"ready", "consuming", "consumed", "expired"}]
  <2>1. CASE /\ offer' = [offer EXCEPT ![pair[p].offer] = "consumed"]
             /\ pair' = PairStep(p, "accepting") /\ UNCHANGED lock
    <3>1. /\ pair' \in [Pairers -> PairStates]
          /\ \A q \in Pairers : q # p => pair'[q] = pair[q]
          /\ pair'[p].step = "accepting"
      BY <1>1, <2>1, PairMoves DEF WriterSteps
    <3> QED  BY Zenon, <1>1, <2>1, <3>1 DEF TypeOK, Locks
  <2>2. CASE /\ pair' = [pair EXCEPT ![p] = IdleWriter]
             /\ lock' = Released(p) /\ UNCHANGED offer
    <3>1. /\ pair' \in [Pairers -> PairStates]
          /\ \A q \in Pairers : pair'[q] = IF q = p THEN IdleWriter ELSE pair[q]
          /\ IdleWriter.step = "idle"
      BY Zenon, <1>1, <2>2, WriterRests DEF IdleWriter
    <3>2. lock' \in Locks /\ lock'.holders = lock.holders \ {p}
      BY Zenon, <1>1, <1>2, <2>2, LockMoves
    <3> QED  BY Zenon, <1>1, <2>2, <3>1, <3>2 DEF TypeOK
  <2> QED  BY Zenon, <1>1, <2>1, <2>2
<1>4. /\ \A r \in Revokers : r # p => revoke[r].step \notin Working
      /\ \A q \in Pairers : q # p => pair[q].step \notin Working
      /\ \A c \in Conns : effect[c].step \notin Permitted
      /\ \A i \in DOMAIN actor : actor[i].kind = "detach"
  BY ZenonT(30), <1>2, Alone
<1>5. entry' = row /\ row \in Snapshots /\ row.status = "authorized" /\ store = <<>>
  BY <1>1 DEF AuthInv, TypeOK, WriterInv, StoreInv, Working, Snapshot
<1>6. TypeOK'
  BY Zenon, <1>1, <1>3, <1>5 DEF TypeOK, PairStates, Locks
<1>7. LockInv' /\ StoreInv'
  <2>1. LockInv'
    BY ZenonT(30), <1>1, <1>2, <1>3, <1>4 DEF AuthInv, LockInv, Working
  <2>2. DOMAIN store = {}
    BY <1>5
  <2>3. StoreInv'
    BY ZenonT(30), <1>1, <1>5, <2>2 DEF StoreInv
  <2> QED  BY Zenon, <2>1, <2>3
<1>8. WriterInv'
  BY <1>1, <1>2, <1>3, <1>4 DEF AuthInv, WriterInv, Working, Published
<1>9. RowInv'
  <2>1. RowInv /\ row' = row /\ revoked' = revoked
    BY Zenon, <1>1 DEF AuthInv
  <2>2. entry' # None
    BY Zenon, <1>5
  <2>3. DurableFirst'
    BY <1>5, <2>1 DEF DurableFirst, Snapshots
  <2> QED  BY Zenon, <1>5, <2>1, <2>2, <2>3 DEF RowInv
<1>10. EffectAuthorized'
  BY Zenon, <1>1, <1>4 DEF EffectAuthorized, Permitted
<1>11. RevokedIsGone'
  BY Zenon, <1>1, <1>5 DEF AuthInv, RevokedIsGone, RowInv
<1>12. MirrorInv'
  BY Zenon, <1>1, <1>5 DEF MirrorInv
<1> QED  BY Zenon, <1>1, <1>6, <1>7, <1>8, <1>9, <1>10, <1>11, <1>12, Frames DEF AuthInv

\* The daemon starts again from the durable row.
LEMMA Restarts ==
  ASSUME AuthInv, Restart  PROVE  AuthInv'
<1> USE Names
<1>1. /\ TypeOK /\ UNCHANGED <<row, granted, revoked>>
      /\ lock' = NoLock /\ store' = <<>> /\ actor' = <<>> /\ attached' = {}
      /\ candidate' = NoCandidates /\ effect' = NoEffects
      /\ revoke' = Idle(Revokers) /\ pair' = Idle(Pairers)
      /\ entry' = Preloaded(row)
      /\ offer' \in [Offers -> {"ready", "consuming", "consumed", "expired"}]
  BY Zenon DEF AuthInv, Restart, history, TypeOK
<1>2. /\ candidate' \in [Conns -> [step : {"none"}, accepted : Snapshots]]
      /\ effect' \in [Conns -> [step : {"none"}, generation : 0 .. MaxGeneration]]
  BY <1>1 DEF NoCandidates, NoCandidate, NoEffects, NoEffect, NoRow, Snapshot, Snapshots
<1>3. /\ revoke' \in [Revokers -> [step : {"idle"}, offer : {None},
                                   generation : 0 .. MaxGeneration]]
      /\ pair' \in [Pairers -> [step : {"idle"}, offer : {None},
                                generation : 0 .. MaxGeneration]]
  BY <1>1 DEF Idle, IdleWriter
<1>4. /\ lock' \in Locks /\ lock'.holders = {} /\ row \in Snapshots
      /\ (row = NoRow /\ entry' = None) \/ (entry' = row /\ row # NoRow /\ entry' # None)
  BY <1>1 DEF NoLock, Locks, Preloaded, TypeOK
<1>5. TypeOK'
  BY <1>1, <1>2, <1>3, <1>4 DEF TypeOK, Locks, WriterSteps
<1>6. LockInv' /\ StoreInv' /\ WriterInv' /\ ActorInv'
  <2>1. /\ \A r \in Revokers : revoke'[r].step = "idle"
        /\ \A p \in Pairers : pair'[p].step = "idle"
        /\ \A c \in Conns : effect'[c].step = "none"
    BY Zenon, <1>2, <1>3
  <2>2. DOMAIN store' = {} /\ DOMAIN actor' = {}
    BY <1>1
  <2>3. LockInv'
    BY Zenon, <1>4, <2>1 DEF LockInv, Working, Permitted
  <2>4. StoreInv' /\ ActorInv'
    BY Zenon, <1>1, <2>2 DEF StoreInv, ActorInv
  <2>5. WriterInv'
    BY Zenon, <2>1 DEF WriterInv, Published
  <2> QED  BY Zenon, <2>3, <2>4, <2>5
<1>7. RowInv' /\ MirrorInv'
  <2>1. RowInv /\ UNCHANGED <<row, revoked>> /\ store' = <<>>
    BY Zenon, <1>1 DEF AuthInv
  <2>2. /\ \A r \in Revokers : revoke'[r].step = "idle"
        /\ \A p \in Pairers : pair'[p].step = "idle"
    BY Zenon, <1>3
  <2>3. DurableFirst'
    BY <1>4, <2>1 DEF DurableFirst, Snapshots
  <2>4. RowInv'
    BY ZenonT(30), <1>4, <2>1, <2>2, <2>3 DEF RowInv
  <2> QED  BY Zenon, <1>4, <2>1, <2>4 DEF MirrorInv
<1>8. EffectAuthorized' /\ RevokedIsGone'
  BY <1>1, <1>2, <1>4 DEF AuthInv, EffectAuthorized, RevokedIsGone, RowInv, Conns
<1> QED  BY Zenon, <1>5, <1>6, <1>7, <1>8 DEF AuthInv

\* An offer that nobody holds expires.
LEMMA OfferExpiresStep ==
  ASSUME AuthInv, NEW o \in Offers, OfferExpires(o)  PROVE  AuthInv'
<1>1. /\ UNCHANGED <<row, entry, lock, store, candidate, effect, actor, attached,
                     revoke, pair, granted, revoked, behind>>
      /\ TypeOK /\ offer' = [offer EXCEPT ![o] = "expired"]
  BY Zenon DEF AuthInv, OfferExpires, broker, history
<1>2. TypeOK'
  BY Zenon, <1>1 DEF TypeOK
<1> QED  BY Zenon, <1>1, <1>2, Frames DEF AuthInv

-----------------------------------------------------------------------------
(* The theorems.                                                           *)

\* The invariant holds in every state.
LEMMA AuthInvariant == Spec => []AuthInv
<1>1. Init => AuthInv
  BY Zenon, AuthInit
<1>2. AuthInv /\ [Next]_vars => AuthInv'
  <2> SUFFICES ASSUME AuthInv, [Next]_vars PROVE AuthInv'
    BY Zenon
  <2>1. ASSUME NEW c \in Conns, Connection(c) \/ Effect(c) PROVE AuthInv'
    BY Zenon, <2>1, CandidateStep, OpenStreamStep, LeaveStep, AcquireStep, SendStep,
       CommandExpiresStep, Zenon DEF Connection, Effect
  <2>2. CASE Actors
    BY Zenon, <2>2, StoreStartStep, StoreCommitStep, StoreFailStep, ActorStartStep,
       ActorRunStep, Zenon DEF Actors
  <2>3. ASSUME NEW r \in Revokers, Revoke(r) \/ RevokeProceeds(r) \/ RevokeGiveUp(r)
        PROVE  AuthInv'
    BY Zenon, <2>3, RevokeBegins, RevokeLocks, RevokePublishes, RemoteCloses, Detaches,
       RevokeEndsWell, RevokeGivesUp, Zenon DEF RevokeProceeds
  <2>4. ASSUME NEW p \in Pairers, PairProceeds(p) \/ PairRollback(p) \/ PairUnknown(p)
        PROVE  AuthInv'
    BY <2>4, PairLocks, PairEnds, PairCommits, Zenon DEF PairProceeds
  <2>5. CASE UNCHANGED vars
    <3>1. TypeOK'
      BY Zenon, <2>5 DEF AuthInv, TypeOK, vars, broker
    <3> QED  BY Zenon, <2>5, <3>1, Frames DEF AuthInv, vars, broker, history
  <2> QED  BY <2>1, <2>2, <2>3, <2>4, <2>5, Restarts, Consumes, OfferExpiresStep, Zenon
           DEF Next
<1> QED  BY <1>1, <1>2, PTL DEF Spec

\* The state has its shape, for any number of connections and requests.
THEOREM TypeCorrect == Spec => []TypeOK
<1>1. AuthInv => TypeOK
  BY Zenon DEF AuthInv
<1> QED  BY <1>1, AuthInvariant, PTL

\* Once a revocation is reported done (device_revoke_reply), nothing of the
\* device is left from before it, in whatever order the tasks ran and whatever
\* deadlines passed.
THEOREM RevokedSafe == Spec => []RevokedIsGone
<1>1. AuthInv => RevokedIsGone
  BY Zenon DEF AuthInv
<1> QED  BY <1>1, AuthInvariant, PTL

\* A remote effect keeps the authorization it was admitted with until the
\* session actor has run its command (run_effect).
THEOREM EffectsSafe == Spec => []EffectAuthorized
<1>1. AuthInv => EffectAuthorized
  BY Zenon DEF AuthInv
<1> QED  BY <1>1, AuthInvariant, PTL

\* The entry never runs ahead of the durable row (publish after commit).
THEOREM DurableSafe == Spec => []DurableFirst
<1>1. AuthInv => DurableFirst
  BY Zenon DEF AuthInv, RowInv
<1> QED  BY <1>1, AuthInvariant, PTL

\* The entry mirrors the durable row whenever nobody is at work on it, unless a
\* store command outlived the deadline of its writer (wait_for_store_response)
\* and nothing was published since.
THEOREM MirrorSafe == Spec => []MirrorsStore
<1>1. AuthInv => MirrorsStore
  BY Zenon DEF AuthInv, MirrorInv, MirrorsStore, LockInv, Working, Writers
<1> QED  BY <1>1, AuthInvariant, PTL

=============================================================================
