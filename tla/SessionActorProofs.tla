------------------------- MODULE SessionActorProofs -------------------------
(***************************************************************************)
(* Proofs about SessionActor.  Whatever a command does to the screen, to   *)
(* the lease it does one of eight things: the moves defined below.  Every  *)
(* step is a move (lemma StepIsMove); the moves preserve the invariant and *)
(* each of them is a step of ControllerLease, or changes nothing there.    *)
(***************************************************************************)
EXTENDS SessionActor, TLAPS

\* The part of TypeOK the lease rests on.
CoreTypes ==
  /\ drawn \subseteq Attachments
  /\ resident \subseteq drawn
  /\ target \in [Attachments -> 0 .. MaxGeneration]
  /\ controller \in Leases
  /\ generation \in 0 .. MaxGeneration

\* The rest of TypeOK.
OtherTypes ==
  /\ pc \in {"loop", "recv", "ended"}
  /\ everActive \subseteq Attachments
  /\ operation \in Operations \cup {None}
  /\ effectTarget \in Attachments \cup {None}
  /\ cached \in BOOLEAN
  /\ writer \in Leases
  /\ admissions \subseteq Leases

\* A generation is not used before it is drawn, nor by an identity not drawn.
Fresher ==
  \A a \in Attachments :
    /\ target[a] <= generation
    /\ target[a] # 0 => a \in drawn

\* No operation is recorded for a generation that has not been drawn.
Recorded ==
  /\ leaseOperation \in [1 .. MaxGeneration -> Operations \cup {None}]
  /\ \A g \in 1 .. MaxGeneration : g > generation => leaseOperation[g] = None

LeaseInv == CoreTypes /\ SingleController /\ Fresher
OperationInv == Recorded /\ OperationOfLease
IInv == LeaseInv /\ OperationInv /\ OtherTypes /\ DerivedStateCurrent

-----------------------------------------------------------------------------
(* The moves.                                                              *)

Held == UNCHANGED <<controller, resident, target, drawn>>
Logged == UNCHANGED <<operation, leaseOperation>>

Stay == Held /\ Logged /\ UNCHANGED <<generation, writer>>

Written ==
  /\ Held /\ Logged
  /\ controller # NoLease
  /\ writer' = controller
  /\ UNCHANGED generation

Drawn ==
  /\ Held /\ Logged
  /\ generation < MaxGeneration
  /\ generation' = generation + 1
  /\ UNCHANGED writer

Kept(o) ==
  /\ Held
  /\ controller # NoLease
  /\ operation' = o
  /\ leaseOperation' = [leaseOperation EXCEPT ![controller.generation] = o]
  /\ UNCHANGED <<generation, writer>>

Removed(gone) ==
  /\ controller' = LeaseWithout(gone)
  /\ resident' = resident \ gone
  /\ operation' = OperationWithout(gone)
  /\ UNCHANGED <<target, drawn, generation, leaseOperation, writer>>

\* A takeover is prepared by a, while the lease stays where it is.
Waits(a, res) ==
  /\ a \in Attachments \ drawn
  /\ res \subseteq resident
  /\ controller # NoLease
  /\ controller.attachment \in res
  /\ \A b \in res : target[b] # 0
  /\ resident' = res \cup {a}
  /\ drawn' = drawn \cup {a}
  /\ UNCHANGED <<controller, target, generation, writer>>
  /\ Logged

\* The lease goes to a, from nobody or from an attachment that leaves.
Granted(a, o, res) ==
  /\ a \in Attachments
  /\ target[a] = 0
  /\ res \subseteq resident
  /\ controller.attachment \notin res
  /\ generation < MaxGeneration
  /\ generation' = generation + 1
  /\ controller' = [attachment |-> a, generation |-> generation + 1]
  /\ target' = [target EXCEPT ![a] = generation + 1]
  /\ resident' = res \cup {a}
  /\ drawn' = drawn \cup {a}
  /\ operation' = o
  /\ leaseOperation' = [leaseOperation EXCEPT ![generation + 1] = o]
  /\ UNCHANGED writer

Finished ==
  /\ pc' = "ended"
  /\ controller' = NoLease
  /\ operation' = None
  /\ UNCHANGED <<resident, target, drawn, generation, leaseOperation, writer>>

Move ==
  /\ pc # "ended"
  /\ \/ Stay \/ Written \/ Drawn \/ Finished
     \/ \E o \in Operations : Kept(o)
     \/ \E gone \in SUBSET resident : Removed(gone)
     \/ \E a \in Attachments, res \in SUBSET resident : Waits(a, res)
     \/ \E a \in Attachments, o \in Operations \cup {None},
           res \in SUBSET resident : Granted(a, o, res)

-----------------------------------------------------------------------------
(* Every step is a move.                                                   *)

\* An attach, to a vacant lease or for a takeover, is a grant or a wait.
LEMMA AttachMove ==
  ASSUME LeaseInv, OperationInv,
         NEW p, NEW a \in Attachments, NEW takeover, NEW view, NEW c,
         PrepareAttach(p, a, takeover, view, c)
  PROVE  Move
<1> DEFINE lease == LeaseWithout(Detached)
           res == resident \ Detached
<1>1. pc # "ended" /\ a \notin drawn /\ ~Occupied(takeover, lease, res)
      /\ drawn' = drawn \cup {a} /\ writer' = writer
      /\ leaseOperation' = leaseOperation
  BY Zenon DEF PrepareAttach, Recv
<1>2. res \in SUBSET resident
  BY Zenon
<1>3. target[a] = 0 /\ a \notin resident
  BY Zenon, <1>1 DEF LeaseInv, CoreTypes, Fresher
<1>4. CASE lease = NoLease
  <2>1. AttachVacant(a, res)
    BY Zenon, <1>4 DEF PrepareAttach
  <2>2. /\ generation < MaxGeneration
        /\ generation' = generation + 1
        /\ controller' = [attachment |-> a, generation |-> generation + 1]
        /\ target' = [target EXCEPT ![a] = generation + 1]
        /\ resident' = res \cup {a}
        /\ operation' = None
    BY Zenon, <2>1 DEF AttachVacant, Settle
  <2>3. controller.attachment \notin res
    BY <1>4, ActorAssumption
    DEF LeaseWithout, NoLease, LeaseInv, CoreTypes
  <2>4. leaseOperation' = [leaseOperation EXCEPT ![generation + 1] = None]
    <3>1. generation + 1 \in 1 .. MaxGeneration /\ generation + 1 > generation
      BY <2>2, ActorAssumption DEF LeaseInv, CoreTypes
    <3>2. leaseOperation[generation + 1] = None
      BY Zenon, <3>1 DEF OperationInv, Recorded
    <3> QED  BY Zenon, <1>1, <3>1, <3>2 DEF OperationInv, Recorded
  <2>5. Granted(a, None, res)
    BY Zenon, <1>1, <1>2, <1>3, <2>2, <2>3, <2>4 DEF Granted
  <2> QED  BY Zenon, <1>1, <1>2, <2>5 DEF Move
<1>5. CASE lease # NoLease
  <2>1. AttachForTakeover(a, lease, res)
    BY Zenon, <1>5 DEF PrepareAttach
  <2>2. lease = controller /\ controller.attachment \notin Detached
    BY Zenon, <1>5 DEF LeaseWithout
  <2>3. controller.attachment \in res
    BY Zenon, <1>5, <2>2 DEF LeaseInv, SingleController
  <2>4. \A b \in res : target[b] # 0
    BY Zenon, <1>1, <1>5 DEF Occupied
  <2>5. Waits(a, res)
    BY Zenon, <1>1, <1>2, <1>5, <2>1, <2>2, <2>3, <2>4
    DEF Waits, AttachForTakeover, Settle, Logged
  <2> QED  BY Zenon, <1>1, <1>2, <2>5 DEF Move
<1> QED  BY Zenon, <1>4, <1>5

\* A takeover keeps the lease, takes it, or only draws a generation.
LEMMA TakeoverMove ==
  ASSUME LeaseInv,
         NEW p, NEW a \in Attachments, NEW o \in Operations, NEW k \in BOOLEAN,
         Takeover(p, a, o, k)
  PROVE  Move
<1>1. pc # "ended" /\ a \in resident /\ writer' = writer /\ drawn' = drawn
  BY Zenon DEF Takeover, Recv, logVars
<1>2. CASE TakeoverKept(p, a, o, k)
  <2>1. controller # NoLease
    BY <1>2, ActorAssumption DEF TakeoverKept, NoLease
  <2>2. Stay \/ Kept(o)
    BY Zenon, <1>1, <1>2, <2>1 DEF TakeoverKept, Stay, Kept, Held, Logged, leaseVars
  <2> QED  BY Zenon, <1>1, <2>2 DEF Move
<1>3. CASE ReadyToTakeOver(a) /\ TakeoverNotBegun(a)
  BY Zenon, <1>1, <1>3 DEF ReadyToTakeOver, TakeoverNotBegun, Move, Drawn, Held,
                    Logged, leaseVars
<1>4. CASE ReadyToTakeOver(a)
           /\ (TakeoverCommitted(p, a, o) \/ TakeoverHalfDone(a, o))
  <2> DEFINE res == resident \ Displaced
  <2>1. a \in res /\ target[a] = 0 /\ generation < MaxGeneration
    BY Zenon, <1>1, <1>4 DEF ReadyToTakeOver, Prepared, Displaced
  <2>2. controller.attachment \notin res
    BY Zenon DEF Displaced
  <2>3. /\ generation' = generation + 1
        /\ operation' = o
        /\ leaseOperation' = [leaseOperation EXCEPT ![generation + 1] = o]
        /\ controller' = [attachment |-> a, generation |-> generation + 1]
        /\ target' = [target EXCEPT ![a] = generation + 1]
        /\ resident' = res
    BY Zenon, <1>4 DEF TakeoverCommitted, TakeoverHalfDone, Grant, Settle
  <2>4. resident' = res \cup {a} /\ drawn' = drawn \cup {a}
    BY Zenon, <1>1, <2>1, <2>3 DEF LeaseInv, CoreTypes
  <2>5. Granted(a, o, res)
    BY Zenon, <1>1, <2>1, <2>2, <2>3, <2>4 DEF Granted
  <2> QED  BY Zenon, <1>1, <2>5 DEF Move
<1> QED  BY Zenon, <1>2, <1>3, <1>4 DEF Takeover

\* Reaping and the removals of attachments that detach.
LEMMA RemoveMove ==
  ASSUME pc # "ended",
         NEW gone \in SUBSET resident,
         Remove(gone) \/ UNCHANGED <<leaseVars, operation>>,
         UNCHANGED <<generation, leaseOperation, drawn, writer>>
  PROVE  Move
BY Zenon DEF Remove, Settle, Move, Removed, Stay, Held, Logged, leaseVars

\* The steps that synchronize a screen leave the lease alone.
LEMMA ScreenMove ==
  ASSUME NEW a \in Attachments, NEW r,
         SnapshotApplied(a, r) \/ SyncLatest(a) \/ NextUpdate(a)
  PROVE  Move
<1>1. pc # "ended" /\ UNCHANGED <<grantVars, logVars>>
  BY Zenon DEF SnapshotApplied, SyncLatest, NextUpdate, Recv
<1>2. UNCHANGED <<controller, resident, target>>
  BY Zenon DEF SnapshotApplied, SyncLatest, NextUpdate, Acknowledge, AcknowledgeOther,
         Replace, HandPending, HandChange, Settle, leaseVars
<1> QED  BY Zenon, <1>1, <1>2 DEF Move, Stay, Held, Logged, grantVars, logVars

\* Every step of the session is a move.
LEMMA StepIsMove ==
  ASSUME LeaseInv, OperationInv, Next
  PROVE  Move
<1>1. CASE Reap
  BY Zenon, <1>1, RemoveMove DEF Reap, Detached, logVars
<1>2. CASE NoEffect
  BY Zenon, <1>2 DEF NoEffect, Recv, Move, Stay, Held, Logged, leaseVars, grantVars,
              logVars
<1>3. CASE \E p \in Principals, a \in Attachments, takeover \in BOOLEAN,
              view \in Views \cup {None}, c \in Colors :
             PrepareAttach(p, a, takeover, view, c)
  BY Zenon, <1>3, AttachMove
<1>4. CASE \E takeover \in BOOLEAN, c \in Colors : AttachRefused(takeover, c)
  BY Zenon, <1>4, RemoveMove DEF AttachRefused, Recv, Detached, logVars
<1>5. CASE \/ \E a \in Attachments : \E r \in attachment[a].handed :
                SnapshotApplied(a, r)
           \/ \E a \in Attachments : SyncLatest(a)
           \/ \E a \in Attachments : NextUpdate(a)
  BY Zenon, <1>5, ScreenMove
<1>6. CASE \E a \in Attachments : WriteInput(a)
  <2>1. PICK a \in Attachments : WriteInput(a)
    BY Zenon, <1>6
  <2>2. controller # NoLease
    BY Zenon, <2>1, ActorAssumption DEF WriteInput, MayControl, MayResize, NoLease
  <2> QED  BY Zenon, <2>1, <2>2 DEF WriteInput, Recv, Move, Written, Held, Logged,
                             leaseVars, grantVars
<1>7. CASE \/ \E a \in Attachments : Resize(a)
           \/ \E a \in Attachments, c \in Colors : UpdateColors(a, c)
  BY Zenon, <1>7 DEF Resize, UpdateColors, Recv, Move, Stay, Held, Logged, leaseVars,
              grantVars, logVars
<1>8. CASE \E p \in Principals, a \in Attachments : AdmitUpload(p, a)
  BY Zenon, <1>8 DEF AdmitUpload, Recv, Move, Stay, Held, Logged, leaseVars, grantVars
<1>9. CASE \E p \in Principals, a \in Attachments, o \in Operations,
              k \in BOOLEAN : Takeover(p, a, o, k)
  BY Zenon, <1>9, TakeoverMove
<1>10. CASE \E a \in Attachments : Detach(a)
  BY Zenon, <1>10 DEF Detach, Move, Stay, Held, Logged, leaseVars, grantVars, logVars
<1>11. CASE \E a \in Attachments : DetachForRemoteResume(a)
  <2>1. PICK a \in Attachments : DetachForRemoteResume(a)
    BY Zenon, <1>11
  <2>2. /\ pc # "ended" /\ {a} \in SUBSET resident /\ Remove({a})
        /\ UNCHANGED <<generation, leaseOperation, drawn, writer>>
    BY Zenon, <2>1 DEF DetachForRemoteResume, Recv, logVars
  <2> QED  BY Zenon, <2>2, RemoveMove
<1>12. CASE \E d \in Devices : DetachRemotePrincipal(d)
  <2>1. PICK d \in Devices : DetachRemotePrincipal(d)
    BY Zenon, <1>12
  <2> DEFINE gone == {a \in resident : attachment[a].principal = d}
  <2>2. /\ pc # "ended" /\ gone \in SUBSET resident
        /\ Remove(gone) \/ UNCHANGED <<leaseVars, operation>>
        /\ UNCHANGED <<generation, leaseOperation, drawn, writer>>
    BY Zenon, <2>1 DEF DetachRemotePrincipal, Recv
  <2> QED  BY Zenon, <2>2, RemoveMove
<1>13. CASE Publish \/ DriverFails
  BY Zenon, <1>13 DEF Publish, DriverFails, Move, Stay, Held, Logged, leaseVars,
               grantVars, logVars
<1>14. CASE \E full \in BOOLEAN : FinishRuntime(full)
  BY Zenon, <1>14 DEF FinishRuntime, Settle, Move, Finished, logVars
<1> QED  BY Zenon, <1>1, <1>2, <1>3, <1>4, <1>5, <1>6, <1>7, <1>8, <1>9, <1>10,
            <1>11, <1>12, <1>13, <1>14 DEF Next

-----------------------------------------------------------------------------
(* The moves preserve the lease.                                           *)

\* Who holds the lease, in the form the moves use.
LEMMA HolderFacts ==
  ASSUME LeaseInv
  PROVE  /\ NoLease.attachment = None /\ NoLease.generation = 0
         /\ None \notin Attachments
         /\ controller.attachment = None <=> controller = NoLease
         /\ controller # NoLease => /\ controller.attachment \in resident
                                    /\ controller.attachment \in Attachments
                                    /\ target[controller.attachment] # 0
                                    /\ controller.generation \in 1 .. generation
                                    /\ controller.generation
                                         = target[controller.attachment]
<1>1. NoLease.attachment = None /\ NoLease.generation = 0
  BY Zenon DEF NoLease
<1>2. None \notin Attachments
  BY Zenon, ActorAssumption
<1>3. controller # NoLease => controller.attachment \in resident
  BY Zenon DEF LeaseInv, SingleController
<1>4. resident \subseteq Attachments
  BY Zenon DEF LeaseInv, CoreTypes
<1>5. ASSUME controller # NoLease
      PROVE  /\ controller.generation = target[controller.attachment]
             /\ controller.generation \in 1 .. generation
             /\ controller.generation # 0
  BY <1>5 DEF LeaseInv, SingleController, CoreTypes
<1> QED  BY Zenon, <1>1, <1>2, <1>3, <1>4, <1>5

\* The fields keep their types.
LEMMA MoveTypes ==
  ASSUME LeaseInv, Move
  PROVE  CoreTypes'
<1> USE DEF LeaseInv, CoreTypes
<1>1. CASE Stay \/ Written \/ Drawn \/ \E o \in Operations : Kept(o)
  BY <1>1, ActorAssumption DEF Stay, Written, Drawn, Kept, Held
<1>2. NoLease \in Leases
  BY ActorAssumption DEF NoLease, Leases
<1>3. CASE Finished \/ \E gone \in SUBSET resident : Removed(gone)
  BY Zenon, <1>2, <1>3 DEF Finished, Removed, LeaseWithout
<1>4. CASE \E a \in Attachments, res \in SUBSET resident : Waits(a, res)
  BY Zenon, <1>4 DEF Waits
<1>5. ASSUME NEW a \in Attachments, NEW o, NEW res, Granted(a, o, res)
      PROVE  CoreTypes'
  <2>1. generation + 1 \in 0 .. MaxGeneration
    BY <1>5, ActorAssumption DEF Granted
  <2>2. controller' \in Leases /\ generation' \in 0 .. MaxGeneration
    BY Zenon, <1>5, <2>1 DEF Granted, Leases
  <2>3. target' \in [Attachments -> 0 .. MaxGeneration]
    BY Zenon, <1>5, <2>1 DEF Granted
  <2>4. resident' \subseteq drawn' /\ drawn' \subseteq Attachments
    BY Zenon, <1>5 DEF Granted
  <2> QED  BY Zenon, <2>2, <2>3, <2>4
<1> QED  BY Zenon, <1>1, <1>3, <1>4, <1>5 DEF Move

\* Targets stay below the generation, and zero until the identity is drawn.
LEMMA MoveFresher ==
  ASSUME LeaseInv, Move
  PROVE  Fresher'
<1> USE DEF LeaseInv, CoreTypes, Fresher
<1>1. CASE UNCHANGED target /\ drawn \subseteq drawn'
           /\ generation' \in {generation, generation + 1}
  BY <1>1
<1>2. CASE \/ Stay \/ Written \/ Drawn \/ Finished
           \/ \E o \in Operations : Kept(o)
           \/ \E gone \in SUBSET resident : Removed(gone)
           \/ \E a \in Attachments, res \in SUBSET resident : Waits(a, res)
  BY Zenon, <1>1, <1>2 DEF Stay, Written, Drawn, Finished, Kept, Held, Removed, Waits
<1>3. ASSUME NEW a \in Attachments, NEW o, NEW res, Granted(a, o, res),
             NEW b \in Attachments
      PROVE  target'[b] <= generation' /\ (target'[b] # 0 => b \in drawn')
  BY <1>3 DEF Granted
<1> QED  BY Zenon, <1>2, <1>3 DEF Move

\* One controller, and one attachment waiting to take over.
LEMMA MoveSingle ==
  ASSUME LeaseInv, Move
  PROVE  SingleController'
<1> USE HolderFacts
<1>1. CASE Stay \/ Written \/ Drawn \/ \E o \in Operations : Kept(o)
  <2>1. /\ Held /\ pc # "ended"
        /\ generation' \in {generation, generation + 1}
    BY Zenon, <1>1 DEF Stay, Written, Drawn, Kept, Move
  <2>2. controller' # NoLease => controller'.generation \in 1 .. generation'
    BY <2>1 DEF Held, LeaseInv, CoreTypes
  <2> QED  BY Zenon, <2>1, <2>2 DEF Held, LeaseInv, SingleController
<1>2. CASE Finished
  BY Zenon, <1>2 DEF Finished, LeaseInv, SingleController
<1>3. ASSUME NEW gone \in SUBSET resident, Removed(gone), pc # "ended"
      PROVE  SingleController'
  BY Zenon, <1>3 DEF Removed, LeaseWithout, LeaseInv, SingleController
<1>4. ASSUME NEW a \in Attachments, NEW res \in SUBSET resident, Waits(a, res),
             pc # "ended"
      PROVE  SingleController'
  <2>1. target[a] = 0 /\ a \notin resident
    BY Zenon, <1>4 DEF Waits, LeaseInv, Fresher, CoreTypes
  <2>2. controller.attachment \in resident'
    BY Zenon, <1>4 DEF Waits
  <2>3. \A b \in resident' : target[b] # 0 => controller.attachment = b
    BY Zenon, <1>4, <2>1 DEF Waits, LeaseInv, SingleController
  <2>4. \A b, c \in resident' : target[b] = 0 /\ target[c] = 0 => b = c
    BY Zenon, <1>4 DEF Waits
  <2> QED  BY Zenon, <1>4, <2>2, <2>3, <2>4 DEF Waits, SingleController
<1>5. ASSUME NEW a \in Attachments, NEW o, NEW res \in SUBSET resident,
             Granted(a, o, res), pc # "ended"
      PROVE  SingleController'
  <2>1. \A b \in res : b \in Attachments /\ (b # a => target'[b] = target[b])
    BY Zenon, <1>5 DEF Granted, LeaseInv, CoreTypes
  <2>2. \A b \in res : target[b] = 0
    BY Zenon, <1>5, <2>1 DEF Granted, LeaseInv, SingleController
  <2>3. target'[a] = generation' /\ generation' \in 1 .. generation'
    BY <1>5 DEF Granted, LeaseInv, CoreTypes
  <2>4. \A b \in resident' : target'[b] # 0 => b = a
    BY Zenon, <1>5, <2>1, <2>2 DEF Granted
  <2>5. target'[a] # 0
    BY <2>3, <1>5 DEF LeaseInv, CoreTypes, Granted
  <2>6. \A b, c \in resident' : target'[b] = 0 /\ target'[c] = 0 => b = c
    <3>1. \A b \in resident' : target'[b] = 0 => b \in res
      BY Zenon, <1>5, <2>5 DEF Granted
    <3> QED  BY Zenon, <2>2, <3>1 DEF LeaseInv, SingleController
  <2>7. /\ controller'.attachment = a /\ controller'.generation = generation'
        /\ a \in resident'
    BY Zenon, <1>5 DEF Granted
  <2> QED  BY Zenon, <2>3, <2>4, <2>6, <2>7 DEF SingleController
<1> QED  BY Zenon, <1>1, <1>2, <1>3, <1>4, <1>5 DEF Move

\* Every move preserves the invariant of the lease.
LEMMA MoveLeaseInv ==
  ASSUME LeaseInv, Move
  PROVE  LeaseInv'
BY Zenon, MoveTypes, MoveFresher, MoveSingle DEF LeaseInv

-----------------------------------------------------------------------------
(* The operation recorded with the lease.                                  *)

\* Every move preserves the log of operations, and controller_operation with it.
LEMMA MoveOperationInv ==
  ASSUME LeaseInv, OperationInv, Move
  PROVE  OperationInv'
<1> USE HolderFacts
<1>1. generation \in Nat /\ MaxGeneration \in Nat
      /\ 1 .. generation \subseteq 1 .. MaxGeneration
  BY ActorAssumption DEF LeaseInv, CoreTypes
<1>2. CASE Stay \/ Written \/ Drawn
  <2>1. /\ UNCHANGED <<controller, operation, leaseOperation>>
        /\ generation' \in {generation, generation + 1}
    BY Zenon, <1>2 DEF Stay, Written, Drawn, Held, Logged
  <2> QED  BY <1>1, <2>1 DEF OperationInv, Recorded, OperationOfLease
<1>3. CASE Finished
  BY Zenon, <1>3 DEF Finished, OperationInv, Recorded, OperationOfLease
<1>4. ASSUME NEW gone \in SUBSET resident, Removed(gone)
      PROVE  OperationInv'
  BY Zenon, <1>4 DEF Removed, LeaseWithout, OperationWithout, OperationInv, Recorded,
              OperationOfLease
<1>5. ASSUME NEW a, NEW res, Waits(a, res)
      PROVE  OperationInv'
  BY Zenon, <1>5 DEF Waits, Logged, OperationInv, Recorded, OperationOfLease
<1>6. ASSUME NEW o \in Operations, Kept(o)
      PROVE  OperationInv'
  <2>1. controller.generation \in 1 .. generation /\ controller # NoLease
    BY Zenon, <1>6 DEF Kept
  <2>2. Recorded'
    BY <1>1, <1>6, <2>1 DEF Kept, OperationInv, Recorded
  <2>3. leaseOperation'[controller.generation] = o
    BY Zenon, <1>1, <1>6, <2>1 DEF Kept, OperationInv, Recorded
  <2>4. OperationOfLease'
    BY Zenon, <1>6, <2>1, <2>3 DEF Kept, Held, OperationOfLease
  <2> QED  BY Zenon, <2>2, <2>4 DEF OperationInv
<1>7. ASSUME NEW a \in Attachments, NEW o \in Operations \cup {None}, NEW res,
             Granted(a, o, res)
      PROVE  OperationInv'
  <2>1. generation + 1 \in 1 .. MaxGeneration /\ generation' = generation + 1
    BY <1>1, <1>7 DEF Granted
  <2>2. leaseOperation' = [leaseOperation EXCEPT ![generation + 1] = o]
    BY Zenon, <1>7 DEF Granted
  <2>3. Recorded'
    BY <1>1, <2>1, <2>2 DEF OperationInv, Recorded
  <2>4. leaseOperation'[generation'] = o
    BY Zenon, <2>1, <2>2 DEF OperationInv, Recorded
  <2>5. controller'.generation = generation' /\ operation' = o
        /\ controller'.attachment = a
    BY Zenon, <1>7 DEF Granted
  <2>6. controller' # NoLease
    BY Zenon, <2>5
  <2> QED  BY Zenon, <2>3, <2>4, <2>5, <2>6 DEF OperationInv, OperationOfLease
<1> QED  BY Zenon, <1>2, <1>3, <1>4, <1>5, <1>6, <1>7 DEF Move

-----------------------------------------------------------------------------
(* What is derived from the lease.                                         *)

\* After reconcile_effect_target and update_cached the derived state is current.
LEMMA SettleDerives ==
  ASSUME NEW lease, NEW res, NEW tgt, NEW active,
         res \subseteq Attachments,
         Settle(lease, res, tgt, active)
  PROVE  /\ DerivedStateCurrent'
         /\ effectTarget' \in Attachments \cup {None}
         /\ cached' \in BOOLEAN
<1>1. effectTarget' = EffectTargetOf(lease, res, tgt, active)
      /\ cached' = (lease # NoLease)
      /\ controller' = lease /\ resident' = res /\ target' = tgt
      /\ everActive' = active
  BY Zenon DEF Settle
<1>2. DerivedStateCurrent'
  BY Zenon, <1>1 DEF DerivedStateCurrent, EffectTargetOf
<1>3. EffectTargetOf(lease, res, tgt, active) \in Attachments \cup {None}
  BY Zenon DEF EffectTargetOf
<1> QED  BY Zenon, <1>1, <1>2, <1>3

\* What the lemma about a step has to show of the derived state.
Derives ==
  /\ everActive' \subseteq Attachments
  /\ effectTarget' \in Attachments \cup {None}
  /\ cached' \in BOOLEAN
  /\ DerivedStateCurrent'

\* A driver that has failed does not recover, and leaves the lease alone.
LEMMA UnchangedDerives ==
  ASSUME OtherTypes, DerivedStateCurrent, UNCHANGED leaseVars, failed => failed'
  PROVE  Derives
<1>1. everActive' \subseteq Attachments /\ effectTarget' \in Attachments \cup {None}
      /\ cached' \in BOOLEAN
  BY Zenon DEF OtherTypes, leaseVars
<1>2. DerivedStateCurrent'
  BY Zenon DEF DerivedStateCurrent, EffectTargetOf, leaseVars
<1> QED  BY Zenon, <1>1, <1>2 DEF Derives

\* Removing attachments leaves the derived state current.
LEMMA RemoveDerives ==
  ASSUME LeaseInv, OtherTypes, DerivedStateCurrent, NEW gone,
         Remove(gone) \/ UNCHANGED <<leaseVars, operation>>,
         failed => failed'
  PROVE  Derives
<1>1. CASE Remove(gone)
  <2>1. Settle(LeaseWithout(gone), resident \ gone, target, everActive)
    BY Zenon, <1>1 DEF Remove
  <2>2. resident \ gone \subseteq Attachments
    BY Zenon DEF LeaseInv, CoreTypes
  <2>3. everActive' \subseteq Attachments
    BY Zenon, <2>1 DEF Settle, OtherTypes
  <2> QED  BY Zenon, <2>1, <2>2, <2>3, SettleDerives DEF Derives
<1>2. CASE UNCHANGED <<leaseVars, operation>>
  BY Zenon, <1>2, UnchangedDerives
<1> QED  BY Zenon, <1>1, <1>2

\* The snapshots and acknowledgements of one attachment.
LEMMA ScreenDerives ==
  ASSUME LeaseInv, OtherTypes, DerivedStateCurrent,
         NEW a \in Attachments, NEW r,
         SnapshotApplied(a, r) \/ SyncLatest(a) \/ NextUpdate(a)
  PROVE  Derives
<1>1. failed' = failed
  BY Zenon DEF SnapshotApplied, SyncLatest, NextUpdate, driverVars
<1>2. \/ UNCHANGED leaseVars
      \/ Settle(controller, resident, target, everActive)
      \/ Settle(controller, resident, target, everActive \cup {a})
  BY Zenon DEF SnapshotApplied, SyncLatest, NextUpdate, Acknowledge, AcknowledgeOther,
         Replace, HandPending, HandChange
<1>3. CASE UNCHANGED leaseVars
  BY Zenon, <1>1, <1>3, UnchangedDerives
<1>4. resident \subseteq Attachments
  BY Zenon DEF LeaseInv, CoreTypes
<1>5. ASSUME NEW active \in {everActive, everActive \cup {a}},
             Settle(controller, resident, target, active)
      PROVE  Derives
  <2>1. everActive' \subseteq Attachments
    BY Zenon, <1>5 DEF Settle, OtherTypes
  <2> QED  BY Zenon, <1>4, <1>5, <2>1, SettleDerives DEF Derives
<1> QED  BY Zenon, <1>2, <1>3, <1>5

\* An attach that is granted, or prepared for a takeover.
LEMMA AttachDerives ==
  ASSUME LeaseInv, OtherTypes,
         NEW p, NEW a \in Attachments, NEW takeover, NEW view, NEW c,
         PrepareAttach(p, a, takeover, view, c)
  PROVE  Derives
<1> DEFINE res == (resident \ Detached) \cup {a}
<1>1. \E lease, tgt : Settle(lease, res, tgt, everActive)
  BY Zenon DEF PrepareAttach, AttachVacant, AttachForTakeover
<1>2. res \subseteq Attachments
  BY Zenon DEF LeaseInv, CoreTypes
<1>3. everActive' = everActive
  BY Zenon, <1>1 DEF Settle
<1> QED  BY Zenon, <1>1, <1>2, <1>3, SettleDerives DEF Derives, OtherTypes

\* A takeover that is committed reconciles; one that breaks off half way has
\* found the driver failed.
LEMMA TakeoverDerives ==
  ASSUME LeaseInv, OtherTypes, DerivedStateCurrent,
         NEW p, NEW a \in Attachments, NEW o, NEW k, Takeover(p, a, o, k)
  PROVE  Derives
<1>1. CASE TakeoverKept(p, a, o, k) \/ TakeoverNotBegun(a)
  <2>1. UNCHANGED leaseVars /\ (failed => failed')
    BY <1>1 DEF TakeoverKept, TakeoverNotBegun
  <2> QED  BY Zenon, <2>1, UnchangedDerives
<1>2. CASE TakeoverCommitted(p, a, o)
  <2> DEFINE lease == [attachment |-> a, generation |-> generation + 1]
             tgt == [target EXCEPT ![a] = generation + 1]
             active == IF attachment[a].awaiting = 0
                          /\ ~(colors # attachment[a].colors)
                       THEN everActive \cup {a} ELSE everActive
  <2>1. Settle(lease, resident \ Displaced, tgt, active)
    BY Zenon, <1>2 DEF TakeoverCommitted
  <2>2. resident \ Displaced \subseteq Attachments
    BY Zenon DEF LeaseInv, CoreTypes
  <2>3. everActive' \subseteq Attachments
    BY Zenon, <2>1 DEF Settle, OtherTypes
  <2> QED  BY Zenon, <2>1, <2>2, <2>3, SettleDerives DEF Derives
<1>3. CASE TakeoverHalfDone(a, o)
  <2>1. failed' /\ UNCHANGED <<everActive, effectTarget, cached>>
    BY Zenon, <1>3 DEF TakeoverHalfDone
  <2> QED  BY Zenon, <2>1 DEF Derives, OtherTypes, DerivedStateCurrent
<1> QED  BY Zenon, <1>1, <1>2, <1>3 DEF Takeover

\* Every step leaves the derived state current.
LEMMA StepDerives ==
  ASSUME LeaseInv, OtherTypes, DerivedStateCurrent, Next
  PROVE  Derives
<1>1. CASE Reap
  BY Zenon, <1>1, RemoveDerives DEF Reap, driverVars
<1>2. CASE \/ NoEffect \/ Publish \/ DriverFails
           \/ \E a \in Attachments : WriteInput(a)
           \/ \E a \in Attachments : Resize(a)
           \/ \E a \in Attachments, c \in Colors : UpdateColors(a, c)
           \/ \E p \in Principals, a \in Attachments : AdmitUpload(p, a)
           \/ \E a \in Attachments : Detach(a)
  <2>1. UNCHANGED leaseVars /\ (failed => failed')
    BY <1>2 DEF NoEffect, Publish, DriverFails, WriteInput, Resize,
                UpdateColors, AdmitUpload, Detach, driverVars
  <2> QED  BY Zenon, <2>1, UnchangedDerives
<1>3. CASE \E p \in Principals, a \in Attachments, takeover \in BOOLEAN,
              view \in Views \cup {None}, c \in Colors :
             PrepareAttach(p, a, takeover, view, c)
  BY Zenon, <1>3, AttachDerives
<1>4. CASE \E takeover \in BOOLEAN, c \in Colors : AttachRefused(takeover, c)
  BY <1>4, RemoveDerives DEF AttachRefused, driverVars
<1>5. CASE \/ \E a \in Attachments : \E r \in attachment[a].handed :
                SnapshotApplied(a, r)
           \/ \E a \in Attachments : SyncLatest(a)
           \/ \E a \in Attachments : NextUpdate(a)
  BY Zenon, <1>5, ScreenDerives
<1>6. CASE \E p \in Principals, a \in Attachments, o \in Operations,
              k \in BOOLEAN : Takeover(p, a, o, k)
  BY Zenon, <1>6, TakeoverDerives
<1>7. CASE \E a \in Attachments : DetachForRemoteResume(a)
  BY <1>7, RemoveDerives DEF DetachForRemoteResume, driverVars
<1>8. CASE \E d \in Devices : DetachRemotePrincipal(d)
  <2>1. PICK d \in Devices : DetachRemotePrincipal(d)
    BY Zenon, <1>8
  <2>2. failed' = failed /\ \E gone : Remove(gone)
                                      \/ UNCHANGED <<leaseVars, operation>>
    BY Zenon, <2>1 DEF DetachRemotePrincipal, driverVars
  <2> QED  BY Zenon, <2>2, RemoveDerives
<1>9. CASE \E full \in BOOLEAN : FinishRuntime(full)
  <2>1. Settle(NoLease, resident, target, everActive)
    BY Zenon, <1>9 DEF FinishRuntime
  <2>2. resident \subseteq Attachments /\ everActive' \subseteq Attachments
    BY Zenon, <2>1 DEF LeaseInv, CoreTypes, Settle, OtherTypes
  <2> QED  BY Zenon, <2>1, <2>2, SettleDerives DEF Derives
<1> QED  BY Zenon, <1>1, <1>2, <1>3, <1>4, <1>5, <1>6, <1>7, <1>8, <1>9 DEF Next

\* The loop goes on after every step but the last.
LEMMA StepCounter ==
  ASSUME pc \in {"loop", "recv", "ended"}, Next
  PROVE  pc' \in {"loop", "recv", "ended"}
BY Zenon DEF Next, Reap, NoEffect, PrepareAttach, AttachRefused, SnapshotApplied,
       SyncLatest, NextUpdate, WriteInput, Resize, UpdateColors, AdmitUpload,
       Takeover, Detach, DetachForRemoteResume, DetachRemotePrincipal, Publish,
       DriverFails, FinishRuntime, Loop

\* Only leases that were held are written under or admit an upload.
LEMMA StepLogs ==
  ASSUME LeaseInv, OtherTypes, Next
  PROVE  admissions' \subseteq Leases
<1>1. controller \in Leases /\ admissions \subseteq Leases
  BY Zenon DEF LeaseInv, CoreTypes, OtherTypes
<1>2. admissions' \in {admissions, admissions \cup {controller}}
  BY Zenon DEF Next, Reap, NoEffect, PrepareAttach, AttachRefused, SnapshotApplied,
         SyncLatest, NextUpdate, WriteInput, Resize, UpdateColors, AdmitUpload,
         Takeover, Detach, DetachForRemoteResume, DetachRemotePrincipal,
         Publish, DriverFails, FinishRuntime, logVars
<1> QED  BY Zenon, <1>1, <1>2

\* The invariant is inductive.
LEMMA Inductive == IInv /\ [Next]_vars => IInv'
<1> SUFFICES ASSUME IInv, [Next]_vars PROVE IInv'
  BY Zenon
<1>1. CASE UNCHANGED vars
  BY Zenon, <1>1 DEF vars, leaseVars, grantVars, driverVars, logVars, IInv, LeaseInv,
     CoreTypes, SingleController, Fresher, OperationInv, Recorded,
     OperationOfLease, OtherTypes, DerivedStateCurrent, EffectTargetOf
<1>2. CASE Next
  <2>1. LeaseInv /\ OperationInv /\ OtherTypes /\ DerivedStateCurrent
    BY Zenon DEF IInv
  <2>2. Move
    BY Zenon, <1>2, <2>1, StepIsMove
  <2>3. LeaseInv' /\ OperationInv'
    BY Zenon, <2>1, <2>2, MoveLeaseInv, MoveOperationInv
  <2>4. Derives
    BY Zenon, <1>2, <2>1, StepDerives
  <2>5. writer' \in Leases
    BY Zenon, <2>1, <2>2 DEF Move, Stay, Written, Drawn, Finished, Kept, Removed,
                      Waits, Granted, LeaseInv, CoreTypes, OtherTypes
  <2>6. operation' \in Operations \cup {None}
    BY Zenon, <2>1, <2>2 DEF Move, Stay, Written, Drawn, Finished, Kept, Removed,
                      Waits, Granted, Logged, OperationWithout, OtherTypes
  <2>7. pc' \in {"loop", "recv", "ended"} /\ admissions' \subseteq Leases
    BY Zenon, <1>2, <2>1, StepCounter, StepLogs DEF OtherTypes
  <2>8. OtherTypes'
    BY Zenon, <2>4, <2>5, <2>6, <2>7 DEF OtherTypes, Derives
  <2> QED  BY Zenon, <2>3, <2>4, <2>8 DEF IInv, Derives
<1> QED  BY Zenon, <1>1, <1>2

\* The invariant holds when the actor starts.
LEMMA Starts == Init => IInv
<1> SUFFICES ASSUME Init PROVE IInv
  BY Zenon
<1>1. NoLease \in Leases /\ None \notin Attachments /\ MaxGeneration \in Nat
  BY ActorAssumption DEF NoLease, Leases
<1>2. LeaseInv
  BY <1>1 DEF Init, LeaseInv, CoreTypes, SingleController, Fresher
<1>3. OperationInv
  BY Zenon, <1>1 DEF Init, OperationInv, Recorded, OperationOfLease
<1>4. OtherTypes
  BY Zenon, <1>1 DEF Init, OtherTypes
<1>5. DerivedStateCurrent
  BY Zenon, <1>1 DEF Init, DerivedStateCurrent, EffectTargetOf, NoLease
<1> QED  BY Zenon, <1>2, <1>3, <1>4, <1>5 DEF IInv

\* The invariant holds throughout.
LEMMA Invariant == Spec => []IInv
BY Starts, Inductive, PTL DEF Spec

\* The fields of the runtime keep their types, generations their width.
THEOREM TypeCorrect == Spec => []TypeOK
<1>1. IInv => TypeOK
  BY Zenon DEF IInv, LeaseInv, CoreTypes, OtherTypes, TypeOK
<1> QED  BY <1>1, Invariant, PTL

\* For any number of clients, takeovers and generations: never two controllers,
\* never a second pending takeover, never an effect target or a summary that
\* disagrees with the lease, never an operation that did not grant the lease.
THEOREM LeaseSafe ==
  Spec => [](SingleController /\ OperationOfLease /\ DerivedStateCurrent)
<1>1. IInv => SingleController /\ OperationOfLease /\ DerivedStateCurrent
  BY Zenon DEF IInv, LeaseInv, OperationInv
<1> QED  BY <1>1, Invariant, PTL

-----------------------------------------------------------------------------
(* The session implements ControllerLease.                                 *)

\* What becomes of the attachments that lost the lease, move by move.
LEMMA LostGrows ==
  ASSUME LeaseInv, LeaseInv', UNCHANGED target, controller' = NoLease
  PROVE  Lost' = Lost \cup ({controller.attachment} \ {None})
BY Zenon, HolderFacts DEF Lost

\* A lease granted is lost by whoever held it, and was never lost by a.
LEMMA LostByGrant ==
  ASSUME LeaseInv, NEW a \in Attachments, NEW o, NEW res, Granted(a, o, res)
  PROVE  /\ a \notin Lost
         /\ Lost' = Lost \cup ({controller.attachment} \ {None})
<1>1. target[a] = 0 /\ controller'.attachment = a
  BY Zenon DEF Granted
<1>2. \A b \in Attachments : b # a => target'[b] = target[b]
  BY Zenon DEF Granted, LeaseInv, CoreTypes
<1>3. controller.attachment # a
  BY Zenon, <1>1, HolderFacts
<1> QED  BY <1>1, <1>2, <1>3, HolderFacts DEF Lost

\* Every move is a step of the lease or leaves it alone.
LEMMA MoveRefines ==
  ASSUME LeaseInv, LeaseInv', Move
  PROVE  [Lease!LeaseNext]_<<controller, generation, Lost, writer>>
<1>1. CASE \/ Stay \/ \E o \in Operations : Kept(o)
           \/ \E a \in Attachments, res \in SUBSET resident : Waits(a, res)
  BY Zenon, <1>1 DEF Stay, Kept, Waits, Held, Lost
<1>2. CASE Written
  BY Zenon, <1>2 DEF Written, Held, Lost, Lease!LeaseNext, Lease!Write,
              Lease!NobodyHolds, NoLease
<1>3. CASE Drawn
  <2>1. generation' > generation
    BY <1>3 DEF Drawn, LeaseInv, CoreTypes
  <2> QED  BY Zenon, <1>3, <2>1 DEF Drawn, Held, Lost, Lease!LeaseNext, Lease!Draw
<1>4. CASE Finished \/ \E gone \in SUBSET resident : Removed(gone)
  <2>1. /\ UNCHANGED <<target, generation, writer>>
        /\ controller' \in {controller, NoLease}
    BY Zenon, <1>4 DEF Finished, Removed, LeaseWithout
  <2>2. CASE controller' = controller
    BY Zenon, <2>1, <2>2 DEF Lost
  <2>3. CASE controller' # controller
    <3>1. controller' = NoLease /\ controller # NoLease
      BY Zenon, <2>1, <2>3
    <3>2. Lost' = Lost \cup {controller.attachment}
      BY Zenon, <2>1, <3>1, LostGrows, HolderFacts
    <3> QED  BY Zenon, <2>1, <3>1, <3>2
             DEF Lease!LeaseNext, Lease!Release, Lease!NobodyHolds, NoLease
  <2> QED  BY Zenon, <2>2, <2>3
<1>5. ASSUME NEW a \in Attachments, NEW o, NEW res, Granted(a, o, res)
      PROVE  Lease!LeaseNext
  <2>1. /\ generation' > generation
        /\ controller' = [attachment |-> a, generation |-> generation']
        /\ writer' = writer
    BY <1>5 DEF Granted, LeaseInv, CoreTypes
  <2>2. Lease!GrantTo(a)
    BY Zenon, <1>5, <2>1, LostByGrant DEF Lease!GrantTo
  <2> QED  BY Zenon, <2>2 DEF Lease!LeaseNext
<1> QED  BY Zenon, <1>1, <1>2, <1>3, <1>4, <1>5 DEF Move

\* The actor's lease implements the abstract one: exclusive, with generations
\* that only grow, and never granted again to an attachment that lost it.
THEOREM RefinesLease == Spec => ImplementsLease
<1>1. Init => Lease!LeaseInit
  BY Zenon, ActorAssumption DEF Init, Lease!LeaseInit, Lease!NobodyHolds, NoLease, Lost
<1>2. IInv /\ IInv' /\ [Next]_vars => [Lease!LeaseNext]_Lease!leaseVars
  <2> SUFFICES ASSUME IInv, IInv', [Next]_vars
               PROVE  [Lease!LeaseNext]_Lease!leaseVars
    BY Zenon
  <2>1. LeaseInv /\ OperationInv /\ LeaseInv'
    BY Zenon DEF IInv
  <2>2. CASE UNCHANGED vars
    BY Zenon, <2>2 DEF vars, leaseVars, grantVars, logVars, Lease!leaseVars, Lost
  <2>3. CASE Next
    BY Zenon, <2>1, <2>3, StepIsMove, MoveRefines DEF Lease!leaseVars
  <2> QED  BY Zenon, <2>2, <2>3
<1> QED  BY <1>1, <1>2, Invariant, PTL DEF Spec, ImplementsLease, Lease!LeaseSpec

-----------------------------------------------------------------------------
(* Late retries.                                                           *)

\* A lease that passes on under an operation passes on in a takeover.
LEMMA PassedByTakeover ==
  ASSUME LeaseInv, Next, controller # NoLease, controller' # NoLease,
         controller' # controller, operation' # None
  PROVE  \E p \in Principals, a \in Attachments, o \in Operations, k \in BOOLEAN :
           /\ Executes(p, o, k) /\ MayContinue(o, k)
           /\ operation' = o
<1>1. ASSUME UNCHANGED leaseVars PROVE FALSE
  BY Zenon, <1>1 DEF leaseVars
<1>2. ASSUME NEW gone, Remove(gone) PROVE FALSE
  BY Zenon, <1>2 DEF Remove, Settle, LeaseWithout
<1>3. ASSUME NEW p, NEW a, NEW takeover, NEW view, NEW c,
             PrepareAttach(p, a, takeover, view, c)
      PROVE  FALSE
  BY Zenon, <1>3 DEF PrepareAttach, AttachVacant, AttachForTakeover, Settle, LeaseWithout
<1>4. ASSUME NEW a, NEW r, SnapshotApplied(a, r) \/ SyncLatest(a) \/ NextUpdate(a)
      PROVE  FALSE
  BY Zenon, <1>1, <1>4 DEF SnapshotApplied, SyncLatest, NextUpdate, Acknowledge,
     AcknowledgeOther, Replace, HandPending, HandChange, Settle
<1>5. ASSUME NEW full, FinishRuntime(full) PROVE FALSE
  BY Zenon, <1>5 DEF FinishRuntime, Settle
<1>6. ASSUME NEW p \in Principals, NEW a \in Attachments, NEW o \in Operations,
             NEW k \in BOOLEAN, Takeover(p, a, o, k)
      PROVE  Executes(p, o, k) /\ MayContinue(o, k) /\ operation' = o
  <2>1. ~TakeoverKept(p, a, o, k) /\ ~TakeoverNotBegun(a)
    BY Zenon, <1>1 DEF TakeoverKept, TakeoverNotBegun
  <2>2. TakeoverCommitted(p, a, o) \/ TakeoverHalfDone(a, o)
    BY Zenon, <1>6, <2>1 DEF Takeover
  <2> QED  BY Zenon, <1>6, <2>1, <2>2
           DEF Takeover, TakeoverCommitted, TakeoverHalfDone, Grant
<1> QED
  <2>1. ~Reap /\ ~NoEffect /\ ~Publish /\ ~DriverFails
    BY Zenon, <1>1, <1>2 DEF Reap, NoEffect, Publish, DriverFails
  <2>2. /\ ~\E takeover \in BOOLEAN, c \in Colors : AttachRefused(takeover, c)
        /\ ~\E a \in Attachments : DetachForRemoteResume(a)
        /\ ~\E d \in Devices : DetachRemotePrincipal(d)
    BY Zenon, <1>1, <1>2 DEF AttachRefused, DetachForRemoteResume, DetachRemotePrincipal
  <2>3. /\ ~\E a \in Attachments : WriteInput(a) \/ Resize(a) \/ Detach(a)
        /\ ~\E a \in Attachments, c \in Colors : UpdateColors(a, c)
        /\ ~\E p \in Principals, a \in Attachments : AdmitUpload(p, a)
    BY Zenon, <1>1 DEF WriteInput, Resize, Detach, UpdateColors, AdmitUpload
  <2> QED  BY Zenon, <1>3, <1>4, <1>5, <1>6, <2>1, <2>2, <2>3 DEF Next

\* However late a takeover is retried, and from whichever attachment of its
\* client, it displaces no lease but one that it had itself granted.
THEOREM RetriesAreOwn == Spec => RetryDisplacesOwn
<1> DEFINE Own == controller # NoLease /\ controller' # NoLease
                  /\ controller' # controller /\ operation' # None
                  => \/ performed[operation'] = None
                     \/ leaseOperation[controller.generation] = operation'
<1>1. IInv /\ [Next]_vars => [Own]_vars
  <2> SUFFICES ASSUME IInv, Next, controller # NoLease, controller' # NoLease,
                      controller' # controller, operation' # None
               PROVE  \/ performed[operation'] = None
                      \/ leaseOperation[controller.generation] = operation'
    BY Zenon DEF vars, leaseVars
  <2>1. PICK p \in Principals, a \in Attachments, o \in Operations, k \in BOOLEAN :
          /\ Executes(p, o, k) /\ MayContinue(o, k)
          /\ operation' = o
    BY Zenon, PassedByTakeover DEF IInv
  <2>2. CASE k
    BY Zenon, <2>1, <2>2 DEF MayContinue, IInv, OperationInv, OperationOfLease
  <2>3. CASE ~k
    BY Zenon, <2>1, <2>3 DEF Executes
  <2> QED  BY Zenon, <2>2, <2>3
<1> QED  BY <1>1, Invariant, PTL DEF Spec, RetryDisplacesOwn

-----------------------------------------------------------------------------
(* The screens of the attachments.                                         *)

\* The types of what SessionActor's TypeOK leaves out.
AttachmentRecords ==
  [principal : Principals \cup {None}, view : Views \cup {None},
   colors : Colors \cup {None}, awaiting : Nat, preparedApplied : BOOLEAN,
   applied : Nat, checkpoint : Nat, pendingColor : Nat,
   lifecycle : [state : {"unused", "awaiting", "prepared", "active", "lost", "ended"},
                n : Nat],
   detached : BOOLEAN, shown : Nat, handed : SUBSET Nat]

Checkpoints ==
  [principal : Principals \cup {None}, view : Views \cup {None},
   revision : Nat, from : Attachments \cup {None}]

ScreenTypes ==
  /\ attachment \in [Attachments -> AttachmentRecords]
  /\ resume \in Checkpoints
  /\ revision \in Nat \ {0}
  /\ expelled \subseteq Devices
  /\ everActive \subseteq drawn
  /\ writer # NoLease => writer.attachment \in drawn

\* What an attachment's record says of its client while the actor runs, at
\* the published revision n: it has been handed what it may acknowledge, the
\* snapshot captured by a takeover is the one awaited and newer than anything
\* handed, and the checkpoint is otherwise what the client shows.
Tracks(r, n) ==
  /\ \A s \in r.handed : s # 0 /\ s <= r.shown
  /\ r.shown <= n
  /\ r.pendingColor # 0 => /\ r.awaiting = r.pendingColor
                           /\ r.checkpoint \in {0, r.pendingColor}
                           /\ r.shown <= r.pendingColor /\ r.pendingColor <= n
  /\ r.pendingColor = 0 /\ r.checkpoint # 0 => r.checkpoint = r.shown
  /\ r.awaiting = 0 => r.applied # 0

ScreensTrack ==
  pc # "ended" =>
    /\ \A a \in drawn : Tracks(attachment[a], revision)
    /\ \A a \in everActive : attachment[a].applied # 0
    /\ ~failed => \A a \in resident : attachment[a].checkpoint # 0
    /\ resume # NoCheckpoint => resume.from \in drawn \ resident

ScreenInv ==
  /\ ScreenTypes /\ ScreensTrack
  /\ InputAfterSnapshot /\ UpdatesContinue /\ ExpelledIsGone /\ FinalScreenShown

\* What a step does to the record of an attachment whose client it may hand
\* the revision n: nothing that counts here, the client's acknowledgement, a
\* snapshot handed over or captured for later, the checkpoint dropped, the
\* captured snapshot handed over, a delta.
SameScreen(r, t) ==
  /\ t.awaiting = r.awaiting /\ t.applied = r.applied
  /\ t.checkpoint = r.checkpoint /\ t.pendingColor = r.pendingColor
  /\ t.shown = r.shown /\ t.handed = r.handed

Acked(r, t) ==
  /\ r.awaiting \in r.handed
  /\ t.awaiting = 0 /\ t.applied = r.awaiting /\ t.pendingColor = 0
  /\ t.checkpoint = r.checkpoint /\ t.shown = r.shown /\ t.handed = r.handed

Snapshot(r, t, n) ==
  /\ t.awaiting = n /\ t.checkpoint = n /\ t.shown = n /\ t.pendingColor = 0
  /\ t.handed = r.handed \cup {n} /\ t.applied = r.applied

Captured(r, t, n) ==
  /\ t.awaiting = n /\ t.checkpoint = n /\ t.pendingColor = n
  /\ t.shown = r.shown /\ t.handed = r.handed /\ t.applied = r.applied

Dropped(r, t) ==
  /\ t.checkpoint = 0 /\ t.pendingColor \in {0, r.pendingColor}
  /\ t.awaiting = r.awaiting /\ t.applied = r.applied
  /\ t.shown = r.shown /\ t.handed = r.handed

HandedOver(r, t) ==
  /\ r.pendingColor # 0 /\ t.shown = r.pendingColor /\ t.pendingColor = 0
  /\ t.handed = r.handed \cup {r.pendingColor}
  /\ t.awaiting = r.awaiting /\ t.applied = r.applied /\ t.checkpoint = r.checkpoint

Advanced(r, t, n) ==
  /\ t.checkpoint = n /\ t.shown = n
  /\ r.pendingColor = 0 /\ t.pendingColor = 0
  /\ t.awaiting = r.awaiting /\ t.applied = r.applied /\ t.handed = r.handed

RecordMove(r, t, n) ==
  /\ t.principal = r.principal
  /\ \/ SameScreen(r, t) \/ Acked(r, t) \/ Snapshot(r, t, n) \/ Captured(r, t, n)
     \/ Dropped(r, t) \/ HandedOver(r, t) \/ Advanced(r, t, n)

\* The record goes on tracking the client, whichever it is: an acknowledgement
\* that crosses the capture of a snapshot is one of that very revision.
LEMMA MoveTracks ==
  ASSUME NEW r \in AttachmentRecords, NEW t \in AttachmentRecords,
         NEW m \in Nat, NEW n \in Nat \ {0}, m <= n,
         Tracks(r, m), RecordMove(r, t, n)
  PROVE  Tracks(t, n) /\ (r.applied # 0 => t.applied # 0)
<1>1. /\ r.awaiting \in Nat /\ r.applied \in Nat /\ r.checkpoint \in Nat
      /\ r.pendingColor \in Nat /\ r.shown \in Nat /\ r.handed \subseteq Nat
  BY Zenon DEF AttachmentRecords
<1>2. CASE SameScreen(r, t)
  BY <1>1, <1>2 DEF SameScreen, Tracks
<1>3. CASE Acked(r, t)
  <2>1. r.awaiting # 0 /\ r.awaiting <= r.shown
    BY Zenon, <1>3 DEF Acked, Tracks
  <2>2. r.pendingColor # 0 => r.pendingColor = r.shown
    BY <1>1, <2>1 DEF Tracks
  <2>3. t.checkpoint # 0 => t.checkpoint = t.shown
    BY Zenon, <1>3, <2>2 DEF Acked, Tracks
  <2> QED  BY <1>1, <1>3, <2>1, <2>3 DEF Acked, Tracks
<1>4. CASE Snapshot(r, t, n)
  BY <1>1, <1>4 DEF Snapshot, Tracks
<1>5. CASE Captured(r, t, n)
  BY <1>1, <1>5 DEF Captured, Tracks
<1>6. CASE Dropped(r, t)
  BY <1>1, <1>6 DEF Dropped, Tracks
<1>7. CASE HandedOver(r, t)
  BY <1>1, <1>7 DEF HandedOver, Tracks
<1>8. CASE Advanced(r, t, n)
  BY <1>1, <1>8 DEF Advanced, Tracks
<1> QED  BY Zenon, <1>2, <1>3, <1>4, <1>5, <1>6, <1>7, <1>8 DEF RecordMove

\* What a step does to all the screens.
Follows ==
  /\ attachment' \in [Attachments -> AttachmentRecords]
  /\ revision' \in Nat /\ revision <= revision'
  /\ failed => failed'
  /\ resident' \cap drawn \subseteq resident
  /\ \A b \in drawn : RecordMove(attachment[b], attachment'[b], revision')
  /\ \A b \in drawn \ resident : attachment'[b].shown = attachment[b].shown
  /\ \A b \in resident' \cap drawn :
       attachment'[b].checkpoint = 0 => attachment[b].checkpoint = 0 \/ failed'
  /\ \A b \in everActive' :
       b \in everActive \/ (b \in drawn /\ attachment'[b].applied # 0)

\* A step that leaves the screens alone.
LEMMA StillFollows ==
  ASSUME ScreenTypes, LeaseInv,
         attachment' \in [Attachments -> AttachmentRecords],
         \A b \in drawn : /\ SameScreen(attachment[b], attachment'[b])
                          /\ attachment'[b].principal = attachment[b].principal,
         resident' \subseteq resident, everActive' = everActive,
         failed => failed', revision' \in Nat, revision <= revision'
  PROVE  Follows
<1>1. \A b \in drawn : RecordMove(attachment[b], attachment'[b], revision')
  BY Zenon DEF RecordMove
<1> QED  BY Zenon, <1>1 DEF Follows, SameScreen

\* An attachment's record replaced by another that is typed.
LEMMA OneRecord ==
  ASSUME ScreenTypes, NEW a \in Attachments, NEW t \in AttachmentRecords,
         attachment' = [attachment EXCEPT ![a] = t]
  PROVE  /\ attachment' \in [Attachments -> AttachmentRecords]
         /\ attachment'[a] = t
         /\ \A b \in Attachments : b # a => attachment'[b] = attachment[b]
BY Zenon DEF ScreenTypes

\* A full snapshot keeps the record typed and hands over, or captures, the
\* revision of the screen.
LEMMA ResyncMoves ==
  ASSUME NEW r \in AttachmentRecords, NEW later \in BOOLEAN, NEW n \in Nat
  PROVE  /\ Resync(r, later, n) \in AttachmentRecords
         /\ RecordMove(r, Resync(r, later, n), n)
         /\ Resync(r, later, n).checkpoint = n
<1> DEFINE t == Resync(r, later, n)
<1>1. t \in AttachmentRecords
  BY ZenonT(30) DEF Resync, AttachmentRecords, Lifecycle
<1>2. t.principal = r.principal /\ t.checkpoint = n
  BY Zenon DEF Resync, AttachmentRecords
<1>3. ASSUME later PROVE RecordMove(r, t, n)
  <2>1. Captured(r, t, n)
    BY Zenon, <1>3 DEF Resync, AttachmentRecords, Captured
  <2> HIDE DEF t
  <2> QED  BY Zenon, <1>2, <2>1 DEF RecordMove
<1>4. ASSUME ~later PROVE RecordMove(r, t, n)
  <2>1. Snapshot(r, t, n)
    BY Zenon, <1>4 DEF Resync, AttachmentRecords, Snapshot
  <2> HIDE DEF t
  <2> QED  BY Zenon, <1>2, <2>1 DEF RecordMove
<1> QED  BY Zenon, <1>1, <1>2, <1>3, <1>4

\* The synchronization of one resident attachment, whose record becomes t.
LEMMA OneFollows ==
  ASSUME ScreenTypes, LeaseInv, NEW a \in resident, NEW t \in AttachmentRecords,
         attachment' = [attachment EXCEPT ![a] = t],
         RecordMove(attachment[a], t, revision),
         t.checkpoint = 0 => attachment[a].checkpoint = 0 \/ failed,
         resident' = resident,
         everActive' = everActive \/ (everActive' = everActive \cup {a} /\ t.applied # 0),
         UNCHANGED driverVars
  PROVE  Follows
<1>1. a \in Attachments /\ drawn \subseteq Attachments /\ a \in drawn
  BY Zenon DEF LeaseInv, CoreTypes
<1>2. /\ attachment' \in [Attachments -> AttachmentRecords]
      /\ attachment'[a] = t
      /\ \A b \in Attachments : b # a => attachment'[b] = attachment[b]
  BY Zenon, <1>1, OneRecord
<1>3. revision' = revision /\ failed' = failed /\ revision \in Nat
  BY Zenon DEF driverVars, ScreenTypes
<1>4. \A b \in drawn : RecordMove(attachment[b], attachment'[b], revision')
  <2> SUFFICES ASSUME NEW b \in drawn
               PROVE  RecordMove(attachment[b], attachment'[b], revision')
    BY Zenon
  <2>1. CASE b = a
    BY Zenon, <1>2, <1>3, <2>1
  <2>2. CASE b # a
    BY Zenon, <1>1, <1>2, <2>2 DEF RecordMove, SameScreen
  <2> QED  BY Zenon, <2>1, <2>2
<1>5. \A b \in drawn \ resident : attachment'[b].shown = attachment[b].shown
  BY Zenon, <1>1, <1>2
<1>6. \A b \in resident' \cap drawn :
        attachment'[b].checkpoint = 0 => attachment[b].checkpoint = 0 \/ failed'
  BY Zenon, <1>1, <1>2, <1>3
<1>7. \A b \in everActive' : b \in everActive \/ (b \in drawn /\ attachment'[b].applied # 0)
  BY Zenon, <1>1, <1>2
<1> QED  BY <1>2, <1>3, <1>4, <1>5, <1>6, <1>7 DEF Follows

\* The record of an attachment that acknowledges, is sent the screen anew, is
\* handed its pending snapshot or a delta.
LEMMA SyncFollows ==
  ASSUME ScreenTypes, LeaseInv, NEW a \in Attachments,
         \/ \E r \in attachment[a].handed : r # 0 /\ SnapshotApplied(a, r)
         \/ SyncLatest(a) \/ NextUpdate(a)
  PROVE  Follows
<1> DEFINE q == attachment[a]
<1>1. /\ a \in resident /\ UNCHANGED driverVars /\ q \in AttachmentRecords
      /\ revision \in Nat
  BY Zenon DEF SnapshotApplied, SyncLatest, NextUpdate, ScreenTypes
<1>2. ASSUME NEW t \in AttachmentRecords, attachment' = [attachment EXCEPT ![a] = t],
             RecordMove(q, t, revision),
             t.checkpoint = 0 => q.checkpoint = 0 \/ failed,
             resident' = resident, everActive' = everActive
      PROVE  Follows
  BY Zenon, <1>1, <1>2, OneFollows
<1>3. ASSUME Replace(a) PROVE Follows
  <2>1. resident' = resident /\ everActive' = everActive
    BY Zenon, <1>3 DEF Replace, Settle, leaseVars
  <2>2. CASE failed
    <3> DEFINE t == [q EXCEPT !.checkpoint = 0, !.pendingColor = 0]
    <3>1. attachment' = [attachment EXCEPT ![a] = t]
      BY Zenon, <1>3, <2>2 DEF Replace
    <3>2. t \in AttachmentRecords
      BY Zenon, <1>1 DEF AttachmentRecords
    <3>3. RecordMove(q, t, revision)
      BY Zenon, <1>1 DEF AttachmentRecords, RecordMove, Dropped
    <3> HIDE DEF t
    <3> QED  BY Zenon, <1>2, <2>1, <2>2, <3>1, <3>2, <3>3
  <2>3. CASE ~failed
    <3>1. attachment' = [attachment EXCEPT ![a] = Resync(q, FALSE, revision)]
      BY Zenon, <1>3, <2>3 DEF Replace
    <3>2. revision # 0
      BY Zenon DEF ScreenTypes
    <3> QED  BY Zenon, <1>1, <1>2, <2>1, <3>1, <3>2, ResyncMoves
  <2> QED  BY Zenon, <2>2, <2>3
<1>4. ASSUME NEW r \in attachment[a].handed, r # 0, Acknowledge(a, r) PROVE Follows
  <2> DEFINE t == [q EXCEPT !.applied = r, !.awaiting = 0, !.pendingColor = 0,
                            !.preparedApplied = @ \/ target[a] = 0,
                            !.lifecycle = IF target[a] = 0 THEN Lifecycle("prepared", 0)
                                          ELSE Lifecycle("active", target[a])]
  <2>1. attachment' = [attachment EXCEPT ![a] = t] /\ q.awaiting = r
    BY Zenon, <1>1, <1>4 DEF Acknowledge, AttachmentRecords, ScreenTypes
  <2>2. r \in Nat /\ target[a] \in Nat
    BY <1>1, <1>4 DEF AttachmentRecords, LeaseInv, CoreTypes
  <2>3. t \in AttachmentRecords
    BY ZenonT(30), <1>1, <2>2 DEF AttachmentRecords, Lifecycle
  <2>4. RecordMove(q, t, revision) /\ t.applied = r /\ t.checkpoint = q.checkpoint
    BY Zenon, <1>1, <1>4, <2>1 DEF AttachmentRecords, RecordMove, Acked
  <2>5. resident' = resident /\ everActive' \in {everActive, everActive \cup {a}}
    BY Zenon, <1>4 DEF Acknowledge, Settle
  <2> HIDE DEF t
  <2> QED  BY Zenon, <1>1, <1>4, <2>1, <2>3, <2>4, <2>5, OneFollows
<1>5. ASSUME HandPending(a) PROVE Follows
  <2> DEFINE t == [q EXCEPT !.shown = q.pendingColor, !.pendingColor = 0,
                            !.handed = @ \cup {q.pendingColor}]
  <2>1. attachment' = [attachment EXCEPT ![a] = t] /\ q.pendingColor # 0
    BY Zenon, <1>1, <1>5 DEF HandPending, AttachmentRecords, ScreenTypes
  <2>2. t \in AttachmentRecords
    BY Zenon, <1>1 DEF AttachmentRecords
  <2>3. RecordMove(q, t, revision) /\ t.checkpoint = q.checkpoint
    BY Zenon, <1>1, <2>1 DEF AttachmentRecords, RecordMove, HandedOver
  <2>4. resident' = resident /\ everActive' = everActive
    BY Zenon, <1>5 DEF HandPending, leaseVars
  <2> HIDE DEF t
  <2> QED  BY Zenon, <1>2, <2>1, <2>2, <2>3, <2>4
<1>6. ASSUME HandChange(a) PROVE Follows
  <2> DEFINE t == [q EXCEPT !.checkpoint = revision, !.shown = revision]
  <2>1. CASE Replace(a)
    BY Zenon, <1>3, <2>1
  <2>2. CASE ~Replace(a)
    <3>1. /\ attachment' = [attachment EXCEPT ![a] = t] /\ q.pendingColor = 0
          /\ UNCHANGED leaseVars
      BY Zenon, <1>1, <1>6, <2>2 DEF HandChange, AttachmentRecords, ScreenTypes
    <3>2. t \in AttachmentRecords
      BY Zenon, <1>1 DEF AttachmentRecords
    <3>3. RecordMove(q, t, revision) /\ t.checkpoint = revision
      BY Zenon, <1>1, <3>1 DEF AttachmentRecords, RecordMove, Advanced
    <3>4. resident' = resident /\ everActive' = everActive /\ revision # 0
      BY Zenon, <3>1 DEF leaseVars, ScreenTypes
    <3> HIDE DEF t
    <3> QED  BY Zenon, <1>2, <3>1, <3>2, <3>3, <3>4
  <2> QED  BY Zenon, <2>1, <2>2
<1> QED  BY Zenon, <1>3, <1>4, <1>5, <1>6 DEF SnapshotApplied, SyncLatest, NextUpdate,
            AcknowledgeOther

\* Installing colors publishes at most one revision.
LEMMA ColorsPublish ==
  ASSUME NEW c, ScreenTypes, InstallColors(c)
  PROVE  revision' \in Nat \ {0} /\ revision <= revision'
BY ActorAssumption DEF InstallColors, ScreenTypes

\* The attachment that arrives has been handed the snapshot it is to
\* acknowledge; nothing is done to the others.
LEMMA AttachFollows ==
  ASSUME ScreenTypes, LeaseInv,
         NEW p \in Principals, NEW a \in Attachments, NEW takeover,
         NEW view \in Views \cup {None}, NEW c \in Colors,
         PrepareAttach(p, a, takeover, view, c)
  PROVE  /\ Follows
         /\ Tracks(attachment'[a], revision') /\ attachment'[a].checkpoint # 0
         /\ attachment'[a].principal = p
         /\ a \notin everActive' /\ resident' \subseteq resident \cup {a}
<1> DEFINE new == [Unused EXCEPT !.principal = p, !.view = view, !.colors = c]
           t == Resync(new, FALSE, revision')
<1>1. /\ revision' \in Nat \ {0} /\ revision <= revision'
      /\ failed' = failed /\ a \notin drawn
      /\ attachment' = [attachment EXCEPT ![a] = t]
  <2>1. InstallColors(c) \/ revision' = revision
    BY Zenon DEF PrepareAttach
  <2>2. revision' \in Nat \ {0} /\ revision <= revision'
    BY <2>1, ColorsPublish DEF ScreenTypes
  <2> QED  BY Zenon, <2>2 DEF PrepareAttach, Fresh
<1>2. new \in AttachmentRecords /\ new.handed = {} /\ new.principal = p
  BY Zenon DEF Unused, AttachmentRecords, Lifecycle
<1>3. t \in AttachmentRecords
  BY Zenon, <1>1, <1>2, ResyncMoves
<1>4. /\ t.handed = {revision'} /\ t.shown = revision' /\ t.pendingColor = 0
      /\ t.checkpoint = revision' /\ t.awaiting = revision' /\ t.principal = p
  BY Zenon, <1>2 DEF Resync, AttachmentRecords
<1> HIDE DEF t, new
<1>5. /\ attachment' \in [Attachments -> AttachmentRecords] /\ attachment'[a] = t
      /\ \A b \in drawn : attachment'[b] = attachment[b]
  BY Zenon, <1>1, <1>3, OneRecord DEF LeaseInv, CoreTypes
<1>6. Tracks(attachment'[a], revision') /\ attachment'[a].checkpoint # 0
  BY <1>1, <1>4, <1>5 DEF Tracks
<1>7. everActive' = everActive /\ resident' \subseteq resident \cup {a}
  BY Zenon DEF PrepareAttach, AttachVacant, AttachForTakeover, Settle
<1>8. a \notin everActive'
  BY Zenon, <1>1, <1>7 DEF ScreenTypes
<1>9. Follows
  <2>1. \A b \in drawn : RecordMove(attachment[b], attachment'[b], revision')
    BY Zenon, <1>5 DEF RecordMove, SameScreen
  <2> QED  BY Zenon, <1>1, <1>5, <1>7, <2>1 DEF Follows
<1> QED  BY Zenon, <1>4, <1>5, <1>6, <1>7, <1>8, <1>9

\* A takeover captures the recolored screen for its attachment, or finds the
\* screen it has acknowledged; the attachment it displaces is let go.
LEMMA TakeoverFollows ==
  ASSUME ScreenTypes, LeaseInv, pc # "ended", ScreensTrack,
         NEW p, NEW a \in Attachments, NEW o, NEW k, Takeover(p, a, o, k)
  PROVE  Follows
<1> DEFINE q == attachment[a]
<1>1. /\ a \in resident /\ a \in drawn /\ drawn \subseteq Attachments
      /\ resident \subseteq drawn /\ q \in AttachmentRecords
      /\ attachment \in [Attachments -> AttachmentRecords]
      /\ revision \in Nat \ {0} /\ generation \in Nat
  BY DEF Takeover, LeaseInv, CoreTypes, ScreenTypes
<1>2. CASE TakeoverKept(p, a, o, k) \/ TakeoverNotBegun(a)
  <2>1. /\ attachment' = attachment /\ UNCHANGED leaseVars /\ (failed => failed')
        /\ revision' \in Nat /\ revision <= revision'
    BY <1>1, <1>2, ColorsPublish DEF TakeoverKept, TakeoverNotBegun
  <2> QED  BY Zenon, <1>1, <2>1, StillFollows DEF leaseVars, SameScreen
<1>3. CASE TakeoverHalfDone(a, o)
  <2> DEFINE t == [q EXCEPT !.checkpoint = 0]
  <2>1. /\ attachment' = [attachment EXCEPT ![a] = t]
        /\ failed /\ failed' /\ everActive' = everActive /\ resident' \subseteq resident
        /\ revision' \in Nat /\ revision <= revision'
    BY Zenon, <1>1, <1>3, ColorsPublish DEF TakeoverHalfDone
  <2>2. t \in AttachmentRecords
    BY Zenon, <1>1 DEF AttachmentRecords
  <2>3. RecordMove(q, t, revision') /\ t.shown = q.shown
    BY Zenon, <1>1 DEF AttachmentRecords, RecordMove, Dropped
  <2> HIDE DEF t
  <2>4. /\ attachment' \in [Attachments -> AttachmentRecords] /\ attachment'[a] = t
        /\ \A b \in Attachments : b # a => attachment'[b] = attachment[b]
    BY ZenonT(30), <2>1, <2>2, OneRecord
  <2>5. \A b \in drawn : RecordMove(attachment[b], attachment'[b], revision')
    BY Zenon, <1>1, <2>3, <2>4 DEF RecordMove, SameScreen
  <2> QED  BY Zenon, <1>1, <2>1, <2>4, <2>5 DEF Follows
<1>4. CASE ReadyToTakeOver(a) /\ TakeoverCommitted(p, a, o)
  <2> DEFINE changed == colors # q.colors
             settled == q.awaiting = 0
             g == generation + 1
             as(state) == Lifecycle(state, g)
             lost(r) == [r EXCEPT !.checkpoint = 0, !.lifecycle = as("lost")]
             won == IF changed THEN Resync(q, TRUE, revision')
                    ELSE IF settled THEN [q EXCEPT !.lifecycle = as("active")]
                    ELSE q
  <2>1. /\ InstallColors(q.colors) /\ failed' = failed
        /\ resident' = resident \ Displaced
        /\ everActive' \in {everActive, everActive \cup {a}}
        /\ everActive' = everActive \cup {a} => (settled /\ ~changed) \/ a \in everActive
    BY Zenon, <1>4 DEF TakeoverCommitted, Settle
  <2>2. attachment' = [b \in Attachments |-> IF b \in Displaced THEN lost(attachment[b])
                                             ELSE IF b # a THEN attachment[b] ELSE won]
    BY Zenon, <1>4 DEF TakeoverCommitted
  <2>3. revision' \in Nat \ {0} /\ revision <= revision'
    BY Zenon, <2>1, ColorsPublish
  <2>a. \A state \in {"lost", "active"} :
          as(state) \in [state : {"unused", "awaiting", "prepared", "active", "lost",
                                 "ended"}, n : Nat]
    BY <1>1 DEF Lifecycle
  <2> HIDE DEF as
  <2>4. \A r \in AttachmentRecords : /\ lost(r) \in AttachmentRecords
                                     /\ RecordMove(r, lost(r), revision')
                                     /\ lost(r).shown = r.shown
    <3> SUFFICES ASSUME NEW r \in AttachmentRecords
                 PROVE  /\ lost(r) \in AttachmentRecords
                        /\ RecordMove(r, lost(r), revision')
                        /\ lost(r).shown = r.shown
      BY Zenon
    <3>1. lost(r) \in AttachmentRecords
      BY Zenon, <2>a DEF AttachmentRecords
    <3>2. Dropped(r, lost(r)) /\ lost(r).principal = r.principal /\ lost(r).shown = r.shown
      BY Zenon DEF AttachmentRecords, Dropped
    <3> HIDE DEF lost
    <3> QED  BY Zenon, <3>1, <3>2 DEF RecordMove
  <2>5. /\ won \in AttachmentRecords /\ RecordMove(q, won, revision')
        /\ won.checkpoint = 0 => q.checkpoint = 0
        /\ ~changed => won.applied = q.applied
    <3>1. CASE changed
      <4>1. won = Resync(q, TRUE, revision')
        BY Zenon, <3>1
      <4> HIDE DEF won
      <4> QED  BY Zenon, <1>1, <2>3, <3>1, <4>1, ResyncMoves
    <3>2. CASE ~changed /\ settled
      <4>1. won = [q EXCEPT !.lifecycle = as("active")]
        BY Zenon, <3>2
      <4>2. won \in AttachmentRecords
        BY Zenon, <1>1, <2>a, <4>1 DEF AttachmentRecords
      <4>3. SameScreen(q, won) /\ won.principal = q.principal
        BY Zenon, <1>1, <4>1 DEF AttachmentRecords, SameScreen
      <4> HIDE DEF won
      <4> QED  BY Zenon, <4>2, <4>3 DEF RecordMove, SameScreen
    <3>3. CASE ~changed /\ ~settled
      <4>1. won = q
        BY Zenon, <3>3
      <4> HIDE DEF won
      <4> QED  BY Zenon, <1>1, <4>1 DEF RecordMove, SameScreen
    <3> QED  BY Zenon, <3>1, <3>2, <3>3
  <2> HIDE DEF lost, won
  <2>6. attachment' \in [Attachments -> AttachmentRecords]
    BY Zenon, <1>1, <2>2, <2>4, <2>5
  <2>7. /\ a \notin Displaced => attachment'[a] = won
        /\ \A b \in Displaced : attachment'[b] = lost(attachment[b])
        /\ \A b \in drawn \ Displaced : b # a => attachment'[b] = attachment[b]
    BY Zenon, <1>1, <2>2 DEF Displaced
  <2>8. a \notin Displaced
    BY Zenon, <1>4 DEF Displaced, ReadyToTakeOver
  <2>9. \A b \in drawn : RecordMove(attachment[b], attachment'[b], revision')
    <3> SUFFICES ASSUME NEW b \in drawn
                 PROVE  RecordMove(attachment[b], attachment'[b], revision')
      BY Zenon
    <3>1. attachment[b] \in AttachmentRecords
      BY Zenon, <1>1
    <3>2. CASE b \in Displaced
      BY Zenon, <2>4, <2>7, <3>1, <3>2
    <3>3. CASE b = a
      BY Zenon, <2>5, <2>7, <2>8, <3>3
    <3>4. CASE b \notin Displaced /\ b # a
      BY Zenon, <2>7, <3>4 DEF RecordMove, SameScreen
    <3> QED  BY Zenon, <3>2, <3>3, <3>4
  <2>10. \A b \in drawn \ resident : attachment'[b].shown = attachment[b].shown
    BY Zenon, <1>1, <2>7 DEF Displaced
  <2>11. \A b \in resident' \cap drawn :
           attachment'[b].checkpoint = 0 => attachment[b].checkpoint = 0 \/ failed'
    BY Zenon, <1>1, <2>1, <2>5, <2>7
  <2>12. settled => q.applied # 0
    BY Zenon, <1>1 DEF ScreensTrack, Tracks
  <2>13. \A b \in everActive' :
           b \in everActive \/ (b \in drawn /\ attachment'[b].applied # 0)
    BY Zenon, <1>1, <2>1, <2>5, <2>7, <2>8, <2>12
  <2> QED  BY Zenon, <2>1, <2>3, <2>6, <2>9, <2>10, <2>11, <2>13 DEF Follows
<1> QED  BY Zenon, <1>2, <1>3, <1>4 DEF Takeover

\* Every step but the last does to the screens what Follows says.
LEMMA StepFollows ==
  ASSUME ScreenTypes, LeaseInv, pc # "ended", ScreensTrack, Next, pc' # "ended"
  PROVE  Follows
<1>1. /\ resident \subseteq drawn /\ drawn \subseteq Attachments
      /\ attachment \in [Attachments -> AttachmentRecords]
      /\ revision \in Nat /\ revision + 1 \in Nat
  BY DEF LeaseInv, CoreTypes, ScreenTypes
<1>2. ASSUME attachment' = attachment, resident' \subseteq resident,
             everActive' = everActive, failed => failed',
             revision' \in Nat, revision <= revision'
      PROVE  Follows
  BY Zenon, <1>1, <1>2, StillFollows DEF SameScreen
<1>3. ASSUME NEW gone, Remove(gone) \/ UNCHANGED <<leaseVars, operation>>
      PROVE  resident' \subseteq resident /\ everActive' = everActive
  BY Zenon, <1>3 DEF Remove, Settle, leaseVars
<1>4. CASE \/ Reap \/ NoEffect \/ Publish \/ DriverFails
           \/ \E a \in Attachments : WriteInput(a)
           \/ \E a \in Attachments : Resize(a)
           \/ \E p \in Principals, a \in Attachments : AdmitUpload(p, a)
  <2>1. attachment' = attachment /\ (failed => failed')
    BY <1>4 DEF Reap, NoEffect, Publish, DriverFails, WriteInput, Resize, AdmitUpload,
                driverVars
  <2>2. resident' \subseteq resident /\ everActive' = everActive
    BY Zenon, <1>3, <1>4 DEF Reap, NoEffect, Publish, DriverFails, WriteInput, Resize,
                      AdmitUpload, leaseVars
  <2>3. revision' \in {revision, revision + 1}
    BY Zenon, <1>4 DEF Reap, NoEffect, Publish, DriverFails, WriteInput, Resize, AdmitUpload,
                driverVars
  <2> QED  BY <1>1, <1>2, <2>1, <2>2, <2>3
<1>5. CASE \E takeover \in BOOLEAN, c \in Colors : AttachRefused(takeover, c)
  <2>1. PICK takeover \in BOOLEAN, c \in Colors : AttachRefused(takeover, c)
    BY Zenon, <1>5
  <2>2. /\ attachment' = attachment /\ (failed => failed')
        /\ resident' \subseteq resident /\ everActive' = everActive
    BY <1>3, <2>1 DEF AttachRefused, driverVars
  <2>3. revision' = revision \/ InstallColors(c)
    BY Zenon, <2>1 DEF AttachRefused, driverVars
  <2> QED  BY <1>1, <1>2, <2>2, <2>3, ColorsPublish
<1>6. CASE \E a \in Attachments, c \in Colors : UpdateColors(a, c)
  <2>1. PICK a \in Attachments, c \in Colors : UpdateColors(a, c)
    BY Zenon, <1>6
  <2> DEFINE t == [attachment[a] EXCEPT !.colors = c]
  <2>2. /\ (failed => failed') /\ resident' = resident /\ everActive' = everActive
        /\ revision' \in Nat /\ revision <= revision'
    <3>1. InstallColors(c) /\ (failed => failed') /\ UNCHANGED leaseVars
      BY <2>1 DEF UpdateColors
    <3> QED  BY Zenon, <3>1, ColorsPublish DEF leaseVars
  <2>3. CASE attachment' = attachment
    BY Zenon, <1>2, <2>2, <2>3
  <2>4. CASE attachment' = [attachment EXCEPT ![a] = t]
    <3>1. /\ t \in AttachmentRecords /\ SameScreen(attachment[a], t)
          /\ t.principal = attachment[a].principal
      BY <1>1 DEF AttachmentRecords, SameScreen
    <3> HIDE DEF t
    <3>2. \A b \in drawn : /\ SameScreen(attachment[b], attachment'[b])
                           /\ attachment'[b].principal = attachment[b].principal
      BY Zenon, <1>1, <2>4, <3>1 DEF SameScreen
    <3>3. attachment' \in [Attachments -> AttachmentRecords]
      BY Zenon, <2>4, <3>1, OneRecord
    <3> QED  BY Zenon, <2>2, <3>2, <3>3, StillFollows
  <2> QED  BY Zenon, <2>1, <2>3, <2>4 DEF UpdateColors
<1>7. ASSUME NEW gone \in SUBSET resident,
             attachment' = [b \in Attachments |->
               IF b \in gone THEN [attachment[b] EXCEPT !.detached = TRUE]
                             ELSE attachment[b]],
             resident' \subseteq resident, everActive' = everActive,
             UNCHANGED driverVars
      PROVE  Follows
  <2>1. \A r \in AttachmentRecords :
          /\ [r EXCEPT !.detached = TRUE] \in AttachmentRecords
          /\ SameScreen(r, [r EXCEPT !.detached = TRUE])
          /\ [r EXCEPT !.detached = TRUE].principal = r.principal
    BY Zenon DEF AttachmentRecords, SameScreen
  <2>2. attachment' \in [Attachments -> AttachmentRecords]
    BY Zenon, <1>1, <1>7, <2>1
  <2>3. \A b \in drawn : /\ SameScreen(attachment[b], attachment'[b])
                         /\ attachment'[b].principal = attachment[b].principal
    <3> SUFFICES ASSUME NEW b \in drawn
                 PROVE  /\ SameScreen(attachment[b], attachment'[b])
                        /\ attachment'[b].principal = attachment[b].principal
      BY Zenon
    <3>1. attachment[b] \in AttachmentRecords /\ b \in Attachments
      BY Zenon, <1>1
    <3>2. CASE b \in gone
      <4>1. attachment'[b] = [attachment[b] EXCEPT !.detached = TRUE]
        BY Zenon, <1>7, <3>1, <3>2
      <4> QED  BY Zenon, <2>1, <3>1, <4>1
    <3>3. CASE b \notin gone
      <4>1. attachment'[b] = attachment[b]
        BY Zenon, <1>7, <3>1, <3>3
      <4> QED  BY Zenon, <4>1 DEF SameScreen
    <3> QED  BY Zenon, <3>2, <3>3
  <2>4. revision' = revision /\ failed' = failed
    BY Zenon, <1>7 DEF driverVars
  <2> QED  BY SMTT(30), <1>1, <1>7, <2>2, <2>3, <2>4, StillFollows
<1>8. CASE \E a \in Attachments : Detach(a) \/ DetachForRemoteResume(a)
  <2>1. PICK a \in Attachments : Detach(a) \/ DetachForRemoteResume(a)
    BY Zenon, <1>8
  <2>2. attachment' = [attachment EXCEPT ![a].detached = TRUE]
    BY Zenon, <2>1 DEF Detach, DetachForRemoteResume
  <2>3. attachment' = [b \in Attachments |->
          IF b \in {a} THEN [attachment[b] EXCEPT !.detached = TRUE] ELSE attachment[b]]
    BY Zenon, <1>1, <2>2
  <2>4. /\ {a} \in SUBSET resident /\ resident' \subseteq resident
        /\ everActive' = everActive /\ UNCHANGED driverVars
    BY Zenon, <1>3, <2>1 DEF Detach, DetachForRemoteResume, leaseVars
  <2> QED  BY Zenon, <1>7, <2>3, <2>4
<1>9. CASE \E d \in Devices : DetachRemotePrincipal(d)
  <2>1. PICK d \in Devices : DetachRemotePrincipal(d)
    BY Zenon, <1>9
  <2> DEFINE gone == {a \in resident : attachment[a].principal = d}
  <2>2. /\ attachment' = [b \in Attachments |->
             IF b \in gone THEN [attachment[b] EXCEPT !.detached = TRUE]
                           ELSE attachment[b]]
        /\ UNCHANGED driverVars
        /\ Remove(gone) \/ UNCHANGED <<leaseVars, operation>>
    BY Zenon, <2>1 DEF DetachRemotePrincipal
  <2>3. resident' \subseteq resident /\ everActive' = everActive
    BY Zenon, <1>3, <2>2
  <2>4. gone \in SUBSET resident
    BY Zenon
  <2> HIDE DEF gone
  <2> QED  BY Zenon, <1>7, <2>2, <2>3, <2>4
<1>10. CASE \/ \E a \in Attachments : \E r \in attachment[a].handed : SnapshotApplied(a, r)
            \/ \E a \in Attachments : SyncLatest(a)
            \/ \E a \in Attachments : NextUpdate(a)
  <2>1. \A a \in Attachments : \A r \in attachment[a].handed : SnapshotApplied(a, r) => r # 0
    BY Zenon, <1>1 DEF SnapshotApplied, ScreensTrack, Tracks
  <2> QED  BY Zenon, <1>10, <2>1, SyncFollows
<1>11. CASE \E p \in Principals, a \in Attachments, takeover \in BOOLEAN,
               view \in Views \cup {None}, c \in Colors :
              PrepareAttach(p, a, takeover, view, c)
  BY Zenon, <1>11, AttachFollows
<1>12. CASE \E p \in Principals, a \in Attachments, o \in Operations,
               k \in BOOLEAN : Takeover(p, a, o, k)
  BY Zenon, <1>12, TakeoverFollows
<1>13. ~\E full \in BOOLEAN : FinishRuntime(full)
  BY Zenon DEF FinishRuntime
<1> QED  BY Zenon, <1>4, <1>5, <1>6, <1>8, <1>9, <1>10, <1>11, <1>12, <1>13 DEF Next

\* The records go on tracking the clients.
LEMMA TracksFollow ==
  ASSUME ScreenTypes, LeaseInv, LeaseInv', pc # "ended", pc' # "ended", ScreensTrack,
         Follows, drawn \subseteq drawn',
         \A a \in drawn' \ drawn :
           Tracks(attachment'[a], revision') /\ attachment'[a].checkpoint # 0
  PROVE  /\ revision' \in Nat \ {0}
         /\ \A a \in drawn' : Tracks(attachment'[a], revision')
         /\ \A a \in everActive' : a \in drawn' /\ attachment'[a].applied # 0
         /\ ~failed' => \A a \in resident' : attachment'[a].checkpoint # 0
         /\ \A a \in drawn : attachment[a].applied # 0 => attachment'[a].applied # 0
         /\ \A a \in drawn : attachment'[a].principal = attachment[a].principal
         /\ DeltaContinues'
<1>1. /\ resident' \subseteq drawn' /\ drawn' \subseteq Attachments
      /\ drawn \subseteq Attachments
      /\ attachment \in [Attachments -> AttachmentRecords]
      /\ attachment' \in [Attachments -> AttachmentRecords]
  BY Zenon DEF LeaseInv, CoreTypes, ScreenTypes, Follows
<1>2. revision \in Nat /\ revision' \in Nat \ {0} /\ revision <= revision'
  BY DEF ScreenTypes, Follows
<1>3. ASSUME NEW a \in drawn
      PROVE  /\ Tracks(attachment'[a], revision')
             /\ attachment[a].applied # 0 => attachment'[a].applied # 0
             /\ attachment'[a].principal = attachment[a].principal
  <2>1. /\ attachment[a] \in AttachmentRecords /\ attachment'[a] \in AttachmentRecords
        /\ Tracks(attachment[a], revision)
        /\ RecordMove(attachment[a], attachment'[a], revision')
    BY Zenon, <1>1 DEF ScreensTrack, Follows
  <2>2. attachment'[a].principal = attachment[a].principal
    BY Zenon, <2>1 DEF RecordMove
  <2> QED  BY Zenon, <1>2, <2>1, <2>2, MoveTracks
<1>4. \A a \in drawn' : Tracks(attachment'[a], revision')
  BY Zenon, <1>3
<1>5. \A a \in everActive' : a \in drawn' /\ attachment'[a].applied # 0
  BY Zenon, <1>3 DEF Follows, ScreensTrack, ScreenTypes
<1>6. ASSUME ~failed', NEW a \in resident' PROVE attachment'[a].checkpoint # 0
  BY Zenon, <1>1, <1>6 DEF Follows, ScreensTrack
<1>7. DeltaContinues'
  BY Zenon, <1>1, <1>4 DEF DeltaContinues, Tracks
<1> QED  BY Zenon, <1>2, <1>3, <1>4, <1>5, <1>6, <1>7

\* The lease under which input is written is one whose attachment has
\* acknowledged a snapshot.
LEMMA WriterFollows ==
  ASSUME ScreenTypes, LeaseInv, pc # "ended", ScreensTrack, InputAfterSnapshot, Next,
         \A a \in drawn : attachment[a].applied # 0 => attachment'[a].applied # 0
  PROVE  /\ InputAfterSnapshot'
         /\ writer' # NoLease => writer'.attachment \in drawn
<1>1. CASE writer' = writer
  BY Zenon, <1>1 DEF InputAfterSnapshot, ScreenTypes
<1>2. CASE \E a \in Attachments : WriteInput(a)
  <2>1. PICK a \in Attachments : WriteInput(a)
    BY Zenon, <1>2
  <2>2. a \in drawn /\ MayControl(a) /\ writer' = controller /\ controller.attachment = a
    BY Zenon, <2>1 DEF WriteInput, MayControl, MayResize, LeaseInv, CoreTypes
  <2>3. attachment[a].applied # 0
    BY Zenon, <2>2 DEF MayControl, ScreensTrack, Tracks
  <2> QED  BY Zenon, <2>2, <2>3 DEF InputAfterSnapshot
<1>3. writer' = writer \/ \E a \in Attachments : WriteInput(a)
  BY Zenon DEF Next, Reap, NoEffect, PrepareAttach, AttachRefused, SnapshotApplied,
         SyncLatest, NextUpdate, Resize, UpdateColors, AdmitUpload,
         Takeover, Detach, DetachForRemoteResume, DetachRemotePrincipal,
         Publish, DriverFails, FinishRuntime, logVars
<1> QED  BY Zenon, <1>1, <1>2, <1>3

\* The resume cell is kept, cleared, or filled with the checkpoint of a
\* settled controller that goes.
LEMMA ResumeMoves ==
  ASSUME Next
  PROVE  \/ resume' = NoCheckpoint
         \/ resume' = resume
         \/ \E a \in resident :
              /\ Resumable(a) /\ resident' = resident \ {a}
              /\ attachment' = [attachment EXCEPT ![a].detached = TRUE]
              /\ resume' = [principal |-> attachment[a].principal,
                            view |-> attachment[a].view,
                            revision |-> attachment[a].checkpoint, from |-> a]
<1>1. CASE \E a \in Attachments : DetachForRemoteResume(a)
  <2>1. PICK a \in Attachments : DetachForRemoteResume(a)
    BY Zenon, <1>1
  <2>2. a \in resident /\ resident' = resident \ {a}
    BY Zenon, <2>1 DEF DetachForRemoteResume, Remove, Settle
  <2>3. CASE Resumable(a)
    BY Zenon, <2>1, <2>2, <2>3 DEF DetachForRemoteResume
  <2>4. CASE ~Resumable(a)
    BY Zenon, <2>1, <2>4 DEF DetachForRemoteResume
  <2> QED  BY Zenon, <2>3, <2>4
<1>2. CASE ~\E a \in Attachments : DetachForRemoteResume(a)
  BY Zenon, <1>2 DEF Next, Reap, NoEffect, PrepareAttach, AttachRefused, SnapshotApplied,
         SyncLatest, NextUpdate, WriteInput, Resize, UpdateColors, AdmitUpload,
         Takeover, Detach, DetachRemotePrincipal, ResumeWithout,
         Publish, DriverFails, FinishRuntime
<1> QED  BY Zenon, <1>1, <1>2

\* The checkpoint a view can resume is the screen its client was left with.
LEMMA ResumeFollows ==
  ASSUME ScreenTypes, LeaseInv, LeaseInv', pc # "ended", ScreensTrack, ResumeWasShown,
         Next, Follows, drawn \subseteq drawn'
  PROVE  /\ resume' \in Checkpoints
         /\ resume' # NoCheckpoint => resume'.from \in drawn' \ resident'
         /\ ResumeWasShown'
<1>1. CASE resume' = NoCheckpoint
  BY Zenon, <1>1 DEF NoCheckpoint, Checkpoints, ResumeWasShown
<1>2. CASE resume' = resume
  <2>1. resume # NoCheckpoint => resume.from \in drawn \ resident
    BY Zenon DEF ScreensTrack
  <2>2. resume # NoCheckpoint => resume.from \notin resident'
    BY Zenon, <2>1 DEF Follows
  <2> QED  BY Zenon, <1>2, <2>1, <2>2 DEF ScreenTypes, ResumeWasShown, Follows
<1>3. ASSUME NEW a \in resident, Resumable(a), resident' = resident \ {a},
             attachment' = [attachment EXCEPT ![a].detached = TRUE],
             resume' = [principal |-> attachment[a].principal,
                        view |-> attachment[a].view,
                        revision |-> attachment[a].checkpoint, from |-> a]
      PROVE  /\ resume' \in Checkpoints
             /\ resume'.from \in drawn' \ resident'
             /\ ResumeWasShown'
  <2>1. a \in Attachments /\ a \in drawn /\ attachment[a] \in AttachmentRecords
    BY Zenon DEF LeaseInv, CoreTypes, ScreenTypes
  <2>2. resume' \in Checkpoints
    BY Zenon, <1>3, <2>1 DEF AttachmentRecords, Checkpoints
  <2>3. resume'.from = a /\ resume'.revision = attachment[a].checkpoint
    BY Zenon, <1>3
  <2>4. attachment[a].checkpoint = attachment[a].shown
    BY Zenon, <1>3, <2>1 DEF Resumable, ScreensTrack, Tracks
  <2>5. attachment'[a].shown = attachment[a].shown
    BY Zenon, <1>3, <2>1 DEF ScreenTypes, AttachmentRecords
  <2> QED  BY Zenon, <1>3, <2>1, <2>2, <2>3, <2>4, <2>5 DEF ResumeWasShown
<1> QED  BY Zenon, <1>1, <1>2, <1>3, ResumeMoves

\* A device that has been detached leaves nothing behind, and what it would
\* resume from goes with it.
LEMMA ExpelledFollows ==
  ASSUME ScreenTypes, LeaseInv, LeaseInv', pc # "ended", ScreensTrack,
         ExpelledIsGone, Next, pc' # "ended", Follows,
         \A a \in drawn : attachment'[a].principal = attachment[a].principal
  PROVE  expelled' \subseteq Devices /\ ExpelledIsGone'
<1>1. NoCheckpoint.principal \notin Devices
  BY Zenon, ActorAssumption DEF NoCheckpoint, Devices
<1>2. /\ resident \subseteq drawn /\ resident' \subseteq drawn'
      /\ expelled \subseteq Devices /\ resident' \cap drawn \subseteq resident
  BY Zenon DEF LeaseInv, CoreTypes, ScreenTypes, Follows
<1>3. CASE \E d \in Devices : DetachRemotePrincipal(d)
  <2>1. PICK d \in Devices : DetachRemotePrincipal(d)
    BY Zenon, <1>3
  <2> DEFINE gone == {a \in resident : attachment[a].principal = d}
  <2>2. /\ expelled' = expelled \cup {d} /\ drawn' = drawn
        /\ resume' = ResumeWithout(d)
        /\ gone # {} => Remove(gone)
    BY Zenon, <2>1 DEF DetachRemotePrincipal
  <2>3. \A a \in resident' : a \in resident /\ attachment[a].principal # d
    <3>1. CASE gone = {}
      BY Zenon, <1>2, <2>2, <3>1
    <3>2. CASE gone # {}
      BY Zenon, <1>2, <2>2, <3>2 DEF Remove, Settle
    <3> QED  BY Zenon, <3>1, <3>2
  <2>4. \A e \in expelled' : resume'.principal # e
    BY Zenon, <1>1, <1>2, <2>2 DEF ResumeWithout, ExpelledIsGone
  <2>5. \A e \in expelled' : \A a \in resident' : attachment'[a].principal # e
    BY Zenon, <1>2, <2>2, <2>3 DEF ExpelledIsGone
  <2> QED  BY Zenon, <1>2, <2>2, <2>4, <2>5 DEF ExpelledIsGone
<1>4. CASE \E p \in Principals, a \in Attachments, takeover \in BOOLEAN,
              view \in Views \cup {None}, c \in Colors :
             PrepareAttach(p, a, takeover, view, c)
  <2>1. PICK p \in Principals, a \in Attachments, takeover \in BOOLEAN,
             view \in Views \cup {None}, c \in Colors :
               PrepareAttach(p, a, takeover, view, c)
    BY Zenon, <1>4
  <2>2. /\ expelled' = expelled \ {p} /\ resume' = NoCheckpoint
        /\ drawn' = drawn \cup {a}
    BY Zenon, <2>1 DEF PrepareAttach
  <2>3. attachment'[a].principal = p
    BY Zenon, <2>1, AttachFollows
  <2> QED  BY Zenon, <1>1, <1>2, <2>2, <2>3 DEF ExpelledIsGone
<1>5. CASE /\ ~\E d \in Devices : DetachRemotePrincipal(d)
           /\ ~\E p \in Principals, a \in Attachments, takeover \in BOOLEAN,
                  view \in Views \cup {None}, c \in Colors :
                 PrepareAttach(p, a, takeover, view, c)
  <2>1. expelled' = expelled /\ drawn' = drawn
    BY Zenon, <1>5 DEF Next, Reap, NoEffect, AttachRefused, SnapshotApplied,
         SyncLatest, NextUpdate, WriteInput, Resize, UpdateColors, AdmitUpload,
         Takeover, Detach, DetachForRemoteResume, Publish, DriverFails,
         FinishRuntime, logVars
  <2>2. resume'.principal \in Devices =>
          \/ resume'.principal = resume.principal
          \/ \E a \in resident : resume'.principal = attachment[a].principal
    BY <1>1, ResumeMoves
  <2> QED  BY Zenon, <1>2, <2>1, <2>2 DEF ExpelledIsGone
<1> QED  BY Zenon, <1>3, <1>4, <1>5

\* finish_runtime leaves every client with the screen of the drained terminal.
LEMMA FinishFollows ==
  ASSUME ScreenInv, LeaseInv, pc # "ended", NEW full \in BOOLEAN, FinishRuntime(full)
  PROVE  ScreenInv'
<1>1. /\ pc' = "ended" /\ resident' = resident /\ drawn' = drawn
      /\ everActive' = everActive /\ writer' = writer /\ expelled' = expelled
      /\ resume' = NoCheckpoint /\ failed' = failed
      /\ revision' \in {revision} \cup {n \in {revision + 1} : n <= MaxRevision}
  BY Zenon DEF FinishRuntime, Settle, logVars
<1>2. /\ attachment \in [Attachments -> AttachmentRecords] /\ revision' \in Nat \ {0}
      /\ resident \subseteq Attachments /\ drawn \subseteq Attachments
      /\ resident \subseteq drawn
  BY <1>1 DEF ScreenInv, ScreenTypes, LeaseInv, CoreTypes
<1>3. ASSUME NEW r \in AttachmentRecords
      PROVE  /\ Ended(r, full, revision') \in AttachmentRecords
             /\ Ended(r, full, revision').applied = r.applied
             /\ Ended(r, full, revision').principal = r.principal
             /\ Ended(r, full, revision').pendingColor = r.pendingColor
             /\ ~failed /\ r.checkpoint = r.shown
                  => Ended(r, full, revision').shown = revision'
  BY ZenonT(30), <1>2 DEF AttachmentRecords, Ended, Lifecycle
<1>4. /\ attachment' = [a \in Attachments |->
           IF a \in resident THEN Ended(attachment[a], full, revision')
                             ELSE attachment[a]]
  BY Zenon DEF FinishRuntime
<1>5. attachment' \in [Attachments -> AttachmentRecords]
  BY Zenon, <1>2, <1>3, <1>4
<1>6. \A a \in Attachments : /\ attachment'[a].applied = attachment[a].applied
                             /\ attachment'[a].principal = attachment[a].principal
  BY Zenon, <1>2, <1>3, <1>4
<1>7. ScreenTypes'
  <2>1. NoCheckpoint \in Checkpoints
    BY Zenon DEF NoCheckpoint, Checkpoints
  <2> QED  BY Zenon, <1>1, <1>2, <1>5, <2>1 DEF ScreenInv, ScreenTypes
<1>8. InputAfterSnapshot'
  BY Zenon, <1>1, <1>2, <1>6 DEF ScreenInv, ScreenTypes, InputAfterSnapshot
<1>9. UpdatesContinue' /\ ScreensTrack'
  BY Zenon, <1>1 DEF UpdatesContinue, DeltaContinues, ResumeWasShown, ScreensTrack
<1>10. ExpelledIsGone'
  <2>1. NoCheckpoint.principal \notin Devices
    BY Zenon, ActorAssumption DEF NoCheckpoint, Devices
  <2> QED  BY Zenon, <1>1, <1>2, <1>6, <2>1 DEF ScreenInv, ScreenTypes, ExpelledIsGone
<1>11. FinalScreenShown'
  <2> SUFFICES ASSUME ~failed, NEW a \in resident, attachment'[a].pendingColor = 0
               PROVE  attachment'[a].shown = revision'
    BY Zenon, <1>1 DEF FinalScreenShown
  <2>1. attachment[a] \in AttachmentRecords
    BY Zenon, <1>2
  <2>2. attachment'[a] = Ended(attachment[a], full, revision')
    BY Zenon, <1>2, <1>4
  <2>3. attachment[a].pendingColor = 0
    BY Zenon, <1>3, <2>1, <2>2
  <2>4. attachment[a].checkpoint # 0
    BY Zenon DEF ScreenInv, ScreensTrack
  <2>5. attachment[a].checkpoint = attachment[a].shown
    BY Zenon, <1>2, <2>3, <2>4 DEF ScreenInv, ScreensTrack, Tracks
  <2> QED  BY <1>3, <2>1, <2>2, <2>5
<1> QED  BY Zenon, <1>7, <1>8, <1>9, <1>10, <1>11 DEF ScreenInv

\* The invariant of the screens is inductive, on top of that of the lease.
LEMMA ScreenInductive ==
  ASSUME IInv, IInv', ScreenInv, [Next]_vars
  PROVE  ScreenInv'
<1>1. CASE UNCHANGED vars
  BY Zenon, <1>1 DEF vars, leaseVars, grantVars, driverVars, logVars, ScreenInv, ScreenTypes,
     ScreensTrack, InputAfterSnapshot, UpdatesContinue, DeltaContinues, ResumeWasShown,
     ExpelledIsGone, FinalScreenShown
<1>2. CASE Next
  <2>1. LeaseInv /\ LeaseInv' /\ ScreenTypes /\ ScreensTrack
    BY Zenon DEF IInv, ScreenInv
  <2>2. pc # "ended"
    BY Zenon, <1>2, <2>1, StepIsMove DEF IInv, Move
  <2>3. CASE \E full \in BOOLEAN : FinishRuntime(full)
    BY Zenon, <2>1, <2>2, <2>3, FinishFollows
  <2>4. CASE ~\E full \in BOOLEAN : FinishRuntime(full)
    <3>1. pc' # "ended"
      BY ZenonT(30), <1>2, <2>2, <2>4 DEF Next, Reap, NoEffect, PrepareAttach, AttachRefused,
         SnapshotApplied, SyncLatest, NextUpdate, WriteInput, Resize, UpdateColors,
         AdmitUpload, Takeover, Detach, DetachForRemoteResume, DetachRemotePrincipal,
         Publish, DriverFails, Loop
    <3>2. Follows
      BY Zenon, <1>2, <2>1, <2>2, <3>1, StepFollows
    <3>3. /\ drawn \subseteq drawn'
          /\ \A a \in drawn' \ drawn :
               Tracks(attachment'[a], revision') /\ attachment'[a].checkpoint # 0
      <4>1. CASE \E p \in Principals, a \in Attachments, takeover \in BOOLEAN,
                    view \in Views \cup {None}, c \in Colors :
                   PrepareAttach(p, a, takeover, view, c)
        <5>1. PICK p \in Principals, a \in Attachments, takeover \in BOOLEAN,
                   view \in Views \cup {None}, c \in Colors :
                     PrepareAttach(p, a, takeover, view, c)
          BY Zenon, <4>1
        <5>2. drawn' = drawn \cup {a}
          BY Zenon, <5>1 DEF PrepareAttach
        <5> QED  BY SMTT(30), <2>1, <5>1, <5>2, AttachFollows
      <4>2. CASE ~\E p \in Principals, a \in Attachments, takeover \in BOOLEAN,
                     view \in Views \cup {None}, c \in Colors :
                    PrepareAttach(p, a, takeover, view, c)
        <5>1. drawn' = drawn
          BY ZenonT(30), <1>2, <2>4, <4>2 DEF Next, Reap, NoEffect, AttachRefused,
             SnapshotApplied, SyncLatest, NextUpdate, WriteInput, Resize,
             UpdateColors, AdmitUpload, Takeover, Detach, DetachForRemoteResume,
             DetachRemotePrincipal, Publish, DriverFails, logVars
        <5> QED  BY Zenon, <5>1
      <4> QED  BY Zenon, <4>1, <4>2
    <3>4. /\ revision' \in Nat \ {0}
          /\ \A a \in drawn' : Tracks(attachment'[a], revision')
          /\ \A a \in everActive' : a \in drawn' /\ attachment'[a].applied # 0
          /\ ~failed' => \A a \in resident' : attachment'[a].checkpoint # 0
          /\ \A a \in drawn : attachment[a].applied # 0 => attachment'[a].applied # 0
          /\ \A a \in drawn : attachment'[a].principal = attachment[a].principal
          /\ DeltaContinues'
      BY Zenon, <2>1, <2>2, <3>1, <3>2, <3>3, TracksFollow
    <3>5. /\ InputAfterSnapshot'
          /\ writer' # NoLease => writer'.attachment \in drawn
      BY Zenon, <1>2, <2>1, <2>2, <3>4, WriterFollows DEF ScreenInv
    <3>6. /\ resume' \in Checkpoints
          /\ resume' # NoCheckpoint => resume'.from \in drawn' \ resident'
          /\ ResumeWasShown'
      BY Zenon, <1>2, <2>1, <2>2, <3>2, <3>3, ResumeFollows DEF ScreenInv, UpdatesContinue
    <3>7. expelled' \subseteq Devices /\ ExpelledIsGone'
      BY Zenon, <1>2, <2>1, <2>2, <3>1, <3>2, <3>4, ExpelledFollows DEF ScreenInv
    <3>8. ScreenTypes'
      BY Zenon, <3>2, <3>3, <3>4, <3>5, <3>6, <3>7 DEF ScreenTypes, Follows
    <3>9. ScreensTrack'
      BY Zenon, <3>4, <3>6 DEF ScreensTrack
    <3>10. FinalScreenShown'
      BY Zenon, <3>1 DEF FinalScreenShown
    <3> QED  BY Zenon, <3>4, <3>5, <3>6, <3>7, <3>8, <3>9, <3>10 DEF ScreenInv, UpdatesContinue
  <2> QED  BY Zenon, <2>3, <2>4
<1> QED  BY Zenon, <1>1, <1>2

\* The invariant of the screens holds throughout.
LEMMA ScreenInvariant == Spec => []ScreenInv
<1>1. Init => ScreenInv
  <2> SUFFICES ASSUME Init PROVE ScreenInv
    BY Zenon
  <2>1. Unused \in AttachmentRecords /\ NoCheckpoint \in Checkpoints
    BY Zenon DEF Unused, AttachmentRecords, NoCheckpoint, Checkpoints, Lifecycle
  <2>2. ScreenTypes
    BY <2>1 DEF Init, ScreenTypes
  <2> QED  BY Zenon, <2>2 DEF Init, ScreenInv, ScreensTrack, InputAfterSnapshot,
              UpdatesContinue, DeltaContinues, ResumeWasShown, ExpelledIsGone,
              FinalScreenShown
<1> QED  BY <1>1, ScreenInductive, Invariant, PTL DEF Spec

\* Input is written only under the lease of an attachment that has acknowledged
\* a snapshot, however takeovers, late acknowledgements and color changes cross.
THEOREM InputSafe == Spec => []InputAfterSnapshot
<1>1. ScreenInv => InputAfterSnapshot
  BY Zenon DEF ScreenInv
<1> QED  BY <1>1, ScreenInvariant, PTL

\* Every delta, and every view that is resumed, continues the very screen its
\* client shows, for any number of attachments and revisions.
THEOREM UpdatesSafe == Spec => []UpdatesContinue
<1>1. ScreenInv => UpdatesContinue
  BY Zenon DEF ScreenInv
<1> QED  BY <1>1, ScreenInvariant, PTL

\* A device whose attachments were detached has neither an attachment nor a
\* checkpoint to resume from until it attaches again.
THEOREM ExpelledSafe == Spec => []ExpelledIsGone
<1>1. ScreenInv => ExpelledIsGone
  BY Zenon DEF ScreenInv
<1> QED  BY <1>1, ScreenInvariant, PTL

\* finish_runtime leaves every client with the last screen, unless a recolored
\* snapshot was still to be handed over or the driver has failed.
THEOREM FinalSafe == Spec => []FinalScreenShown
<1>1. ScreenInv => FinalScreenShown
  BY Zenon DEF ScreenInv
<1> QED  BY <1>1, ScreenInvariant, PTL

=============================================================================
