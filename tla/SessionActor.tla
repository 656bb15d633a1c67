---------------------------- MODULE SessionActor ----------------------------
(***************************************************************************)
(* One session of the daemon: the actor thread that owns a PTY and decides *)
(* which attachment controls it.  run_session_actor, the commands it       *)
(* dispatches and the runtime they change, crates/daemon/src/session.rs.   *)
(*                                                                         *)
(* The thread takes one command at a time, so each command is one step.    *)
(* Around it run the threads of the clients, which set an attachment's     *)
(* detached flag at any moment, and those of the terminal driver, which    *)
(* publish revisions of the screen and may fail.                           *)
(*                                                                         *)
(* An attachment awaits the acknowledgement of a snapshot or is settled;   *)
(* its target is the generation of the lease it holds, or 0 for a takeover *)
(* it has only prepared.  Revisions start at 1; 0 stands for None.         *)
(***************************************************************************)
EXTENDS Naturals, FiniteSets

CONSTANTS
  Attachments,    \* attachment identities, random and never drawn twice
  Principals,     \* Local, or a remote device with its authorization
  Local,          \* the principal of the same-user clients
  Views,          \* ResumeViewId of a remote client's window
  Operations,     \* ReplayOperationKey of a takeover
  None,           \* no attachment, view, operation or principal
  Colors,         \* base color profiles observed by clients
  MaxGeneration,  \* u64::MAX, of controller generations
  MaxRevision     \* bound: revisions published in one behaviour

Devices == Principals \ {Local}

ASSUME ActorAssumption ==
  /\ None \notin Attachments \cup Views \cup Operations \cup Principals
  /\ MaxGeneration \in Nat
  /\ MaxRevision \in Nat \ {0}

VARIABLES
  pc,             \* "recv": a command is next; "loop": reap first; "ended"
  drawn,          \* the attachment identities drawn so far
  resident,       \* the keys of runtime.attachments
  target,         \* SyncTarget of an attachment: its generation, 0 prepared
  everActive,     \* the attachments with ever_active
  attachment,     \* the other fields of each attachment
  controller,     \* runtime.controller
  operation,      \* runtime.controller_operation
  generation,     \* runtime.next_generation
  resume,         \* runtime.resume
  effectTarget,   \* target of the driver's effect broker
  cached,         \* has_controller of the summary other threads read
  revision,       \* the latest published revision
  colors,         \* the base colors installed in the terminal model
  failed,         \* the driver has recorded a failure
  performed,      \* history: the principal a takeover succeeded for
  leaseOperation, \* history: the last operation committed to a generation
  expelled,       \* history: the devices detached since they last attached
  admissions,     \* history: the upload admissions handed out
  writer          \* history: the lease under which input was last written

leaseVars == <<resident, target, everActive, controller, effectTarget, cached>>
grantVars == <<generation, operation, performed, leaseOperation>>
driverVars == <<revision, colors, failed>>
logVars == <<drawn, expelled, admissions, writer>>
vars == <<pc, leaseVars, grantVars, attachment, resume, driverVars, logVars>>

NoLease == [attachment |-> None, generation |-> 0]
NoCheckpoint ==
  [principal |-> None, view |-> None, revision |-> 0, from |-> None]

Lifecycle(state, n) == [state |-> state, n |-> n]

\* An identity that has not been drawn.
Unused ==
  [principal |-> None, view |-> None, colors |-> None,
   awaiting |-> 0, preparedApplied |-> FALSE, applied |-> 0, checkpoint |-> 0,
   pendingColor |-> 0, lifecycle |-> Lifecycle("unused", 0), detached |-> FALSE,
   shown |-> 0, handed |-> {}]

\* shown is the revision of the screen the client has been handed, handed the
\* snapshots it may acknowledge: the client's side, kept for the properties.

Init ==
  /\ pc = "recv"
  /\ drawn = {}
  /\ resident = {}
  /\ target = [a \in Attachments |-> 0]
  /\ everActive = {}
  /\ attachment = [a \in Attachments |-> Unused]
  /\ controller = NoLease
  /\ operation = None
  /\ generation = 0
  /\ resume = NoCheckpoint
  /\ effectTarget = None
  /\ cached = FALSE
  /\ revision = 1
  /\ colors \in Colors
  /\ failed = FALSE
  /\ performed = [o \in Operations |-> None]
  /\ leaseOperation = [g \in 1 .. MaxGeneration |-> None]
  /\ expelled = {}
  /\ admissions = {}
  /\ writer = NoLease

-----------------------------------------------------------------------------
(* Who controls.                                                           *)

Prepared(a) == a \in resident /\ target[a] = 0

\* require_resize_controller: the lease is this attachment's, at its generation.
MayResize(a) ==
  /\ a \in resident
  /\ target[a] # 0
  /\ controller = [attachment |-> a, generation |-> target[a]]

\* Mutant: a takeover that has not been acknowledged may already write.
MayControlUnfenced(a) == MayResize(a)

\* require_existing_visual_sync_controller: and it has been active before.
MayControl(a) ==
  /\ MayResize(a)
  /\ attachment[a].awaiting # 0 => a \in everActive

\* reconcile_effect_target: the controller, once it has been active.
EffectTargetOf(lease, res, tgt, active) ==
  IF /\ lease.attachment \in res \cap active
     /\ tgt[lease.attachment] = lease.generation
  THEN lease.attachment ELSE None

\* The lease after the attachments in gone have been removed.
LeaseWithout(gone) ==
  IF controller.attachment \in gone THEN NoLease ELSE controller

\* Mutant: the operation of a lease survives its release.
OperationKept(gone) == operation

OperationWithout(gone) ==
  IF controller.attachment \in gone THEN None ELSE operation

\* The new lease, its effect target and the summary: reconcile_effect_target
\* and update_cached, with which every command ends that moves the lease.
Settle(lease, res, tgt, active) ==
  /\ controller' = lease
  /\ resident' = res
  /\ target' = tgt
  /\ everActive' = active
  /\ effectTarget' = EffectTargetOf(lease, res, tgt, active)
  /\ cached' = (lease # NoLease)

\* Mutant: the effect target is not reconciled.
RemoveUnreconciled(gone) ==
  /\ controller' = LeaseWithout(gone)
  /\ resident' = resident \ gone
  /\ cached' = (LeaseWithout(gone) # NoLease)
  /\ operation' = OperationWithout(gone)
  /\ UNCHANGED <<target, everActive, effectTarget>>

\* Removing attachments, with the lease if one of them held it.
Remove(gone) ==
  /\ Settle(LeaseWithout(gone), resident \ gone, target, everActive)
  /\ operation' = OperationWithout(gone)

\* Installing colors publishes a revision when they differ, unless a batch of
\* synchronized output holds the publication.
InstallColors(c) ==
  /\ colors' = c
  /\ revision' \in IF c # colors /\ revision < MaxRevision
                   THEN {revision, revision + 1} ELSE {revision}

\* A full snapshot of the terminal is captured for a; the client is to
\* acknowledge it.  handed over now, or later as the pending color snapshot.
Resync(r, later, at) ==
  [r EXCEPT !.checkpoint = at, !.awaiting = at,
            !.lifecycle = Lifecycle("awaiting", at),
            !.pendingColor = IF later THEN at ELSE 0,
            !.shown = IF later THEN @ ELSE at,
            !.handed = IF later THEN @ ELSE @ \cup {at}]

-----------------------------------------------------------------------------
(* The loop: reap, poll the end and the driver, take one command.          *)

Detached == {a \in resident : attachment[a].detached}

\* reap_detached, at the head of the loop.
Reap ==
  /\ pc = "loop"
  /\ pc' = "recv"
  /\ IF Detached = {} THEN UNCHANGED <<leaseVars, operation>>
                      ELSE Remove(Detached)
  /\ UNCHANGED <<generation, performed, leaseOperation, attachment, resume,
                 driverVars, logVars>>

\* Before the next command the loop reaps, if a flag has been set by then.
Loop ==
  pc' = IF \E a \in resident' : attachment'[a].detached THEN "loop" ELSE "recv"

Recv == pc = "recv"

\* A wake-up, a timeout, a read or a command that is refused.
NoEffect ==
  /\ Recv
  /\ UNCHANGED <<leaseVars, grantVars, attachment, resume, driverVars, logVars>>
  /\ Loop

-----------------------------------------------------------------------------
(* Attaching.  take_resume_terminal consumes or clears the resume cell,    *)
(* whether the attach then succeeds or not; the answer, a full snapshot or *)
(* a delta on the resumed checkpoint, shows the published revision.        *)

\* Mutant: a second takeover may be prepared.
OccupiedByController(takeover, lease, res) == lease # NoLease /\ ~takeover

\* A controller and no takeover asked for, or one that is already pending.
Occupied(takeover, lease, res) ==
  /\ lease # NoLease
  /\ ~takeover \/ \E b \in res : target[b] = 0

Fresh(p, view, c) ==
  Resync([Unused EXCEPT !.principal = p, !.view = view, !.colors = c],
         FALSE, revision')

\* Mutant: a lease that has been released is handed on as it was.
AttachVacantSame(a, res) ==
  LET g == IF generation = 0 THEN 1 ELSE generation
      lease == [attachment |-> a, generation |-> g]
  IN /\ Settle(lease, res \cup {a}, [target EXCEPT ![a] = g], everActive)
     /\ generation' = g
     /\ operation' = None

AttachVacant(a, res) ==
  LET lease == [attachment |-> a, generation |-> generation + 1]
  IN /\ generation < MaxGeneration
     /\ Settle(lease, res \cup {a}, [target EXCEPT ![a] = generation + 1],
               everActive)
     /\ generation' = generation + 1
     /\ operation' = None

AttachForTakeover(a, lease, res) ==
  /\ Settle(lease, res \cup {a}, target, everActive)
  /\ UNCHANGED <<generation, operation>>

PrepareAttach(p, a, takeover, view, c) ==
  LET lease == LeaseWithout(Detached)
      res == resident \ Detached
  IN /\ Recv
     /\ a \notin drawn
     /\ p \in Devices <=> view # None
     /\ ~Occupied(takeover, lease, res)
     /\ ~failed
     /\ IF lease = NoLease
        THEN InstallColors(c) /\ AttachVacant(a, res)
        ELSE UNCHANGED <<colors, revision>> /\ AttachForTakeover(a, lease, res)
     /\ attachment' = [attachment EXCEPT ![a] = Fresh(p, view, c)]
     /\ resume' = NoCheckpoint
     /\ drawn' = drawn \cup {a}
     /\ expelled' = expelled \ {p}
     /\ UNCHANGED <<performed, leaseOperation, failed, admissions, writer>>
     /\ Loop

\* Refused, or broken off by a driver that has failed or fails to answer the
\* program about its new colors: what has been reaped and the resume cell are
\* gone all the same, and the colors may be installed.
AttachRefused(takeover, c) ==
  LET lease == LeaseWithout(Detached)
      res == resident \ Detached
  IN /\ Recv
     /\ \/ /\ \/ Occupied(takeover, lease, res)
              \/ lease = NoLease /\ generation = MaxGeneration
           /\ UNCHANGED driverVars
        \/ /\ failed \/ (lease = NoLease /\ c # colors)
           /\ IF lease = NoLease THEN InstallColors(c)
                                 ELSE UNCHANGED <<colors, revision>>
           /\ failed' = TRUE
     /\ IF Detached = {} THEN UNCHANGED <<leaseVars, operation>>
                         ELSE Remove(Detached)
     /\ resume' = NoCheckpoint
     /\ UNCHANGED <<generation, performed, leaseOperation, attachment, logVars>>
     /\ Loop

-----------------------------------------------------------------------------
(* Synchronizing the screen.                                               *)

\* snapshot_applied with the revision awaited.
Acknowledge(a, r) ==
  /\ attachment[a].awaiting = r
  /\ attachment' = [attachment EXCEPT
       ![a].applied = r, ![a].awaiting = 0, ![a].pendingColor = 0,
       ![a].preparedApplied = @ \/ target[a] = 0,
       ![a].lifecycle = IF target[a] = 0 THEN Lifecycle("prepared", 0)
                        ELSE Lifecycle("active", target[a])]
  /\ Settle(controller, resident, target,
            IF target[a] = 0 THEN everActive ELSE everActive \cup {a})

\* A full snapshot in place of the one the client no longer waits for; if the
\* driver has failed the checkpoint is discarded and nothing replaces it.
Replace(a) ==
  /\ attachment' = [attachment EXCEPT ![a] =
       IF failed THEN [@ EXCEPT !.checkpoint = 0, !.pendingColor = 0]
       ELSE Resync(@, FALSE, revision)]
  /\ IF failed THEN UNCHANGED leaseVars
     ELSE Settle(controller, resident, target, everActive)

\* snapshot_applied with another revision, one not yet acknowledged.
AcknowledgeOther(a, r) ==
  /\ attachment[a].awaiting \notin {0, r}
  /\ attachment[a].applied # r
  /\ Replace(a)

SnapshotApplied(a, r) ==
  /\ Recv
  /\ a \in resident
  /\ Acknowledge(a, r) \/ AcknowledgeOther(a, r)
  /\ UNCHANGED <<grantVars, resume, driverVars, logVars>>
  /\ Loop

SyncLatest(a) ==
  /\ Recv
  /\ a \in resident
  /\ Replace(a)
  /\ UNCHANGED <<grantVars, resume, driverVars, logVars>>
  /\ Loop

\* Mutant: the pending snapshot is dropped.
HandPendingLast(a) ==
  /\ attachment[a].pendingColor # 0
  /\ attachment' = [attachment EXCEPT ![a].pendingColor = 0]
  /\ UNCHANGED leaseVars

\* The snapshot a takeover captured, before anything else.
HandPending(a) ==
  /\ attachment[a].pendingColor # 0
  /\ attachment' = [attachment EXCEPT
       ![a].shown = attachment[a].pendingColor, ![a].pendingColor = 0,
       ![a].handed = @ \cup {attachment[a].pendingColor}]
  /\ UNCHANGED leaseVars

\* sync_changed: a delta on the checkpoint, or a full snapshot to acknowledge.
HandChange(a) ==
  /\ attachment[a].pendingColor = 0
  /\ attachment[a].awaiting = 0
  /\ ~failed
  /\ attachment[a].checkpoint # revision
  /\ \/ /\ attachment[a].checkpoint # 0
        /\ attachment' = [attachment EXCEPT ![a].checkpoint = revision,
                                            ![a].shown = revision]
        /\ UNCHANGED leaseVars
     \/ Replace(a)

NextUpdate(a) ==
  /\ Recv
  /\ a \in resident
  /\ HandPending(a) \/ HandChange(a)
  /\ UNCHANGED <<grantVars, resume, driverVars, logVars>>
  /\ Loop
-----------------------------------------------------------------------------
(* What the controller may do.                                             *)

WriteInput(a) ==
  /\ Recv
  /\ MayControl(a)
  /\ writer' = controller
  /\ UNCHANGED <<leaseVars, grantVars, attachment, resume, driverVars, drawn,
                 expelled, admissions>>
  /\ Loop

Resize(a) ==
  /\ Recv
  /\ MayResize(a)
  /\ revision < MaxRevision
  /\ revision' = revision + 1
  /\ UNCHANGED <<leaseVars, grantVars, attachment, resume, colors, failed,
                 logVars>>
  /\ Loop

\* Mutant: the attachment does not keep its observation.
UpdateColorsUnrecorded(a, c) ==
  /\ Recv
  /\ MayResize(a)
  /\ InstallColors(c)
  /\ UNCHANGED <<leaseVars, grantVars, attachment, resume, failed, logVars>>
  /\ Loop

\* An observation with a sequence above the attachment's last one.
UpdateColors(a, c) ==
  /\ Recv
  /\ MayResize(a)
  /\ InstallColors(c)
  /\ \/ /\ attachment' = [attachment EXCEPT ![a].colors = c]
        /\ UNCHANGED failed
     \/ /\ c # colors
        /\ failed' = TRUE
        /\ UNCHANGED attachment
  /\ UNCHANGED <<leaseVars, grantVars, resume, logVars>>
  /\ Loop

\* The admission outlives the command: its upload polls is_current.
AdmitUpload(p, a) ==
  /\ Recv
  /\ MayControl(a)
  /\ attachment[a].principal = p
  /\ ~attachment[a].detached
  /\ admissions' = admissions \cup {controller}
  /\ UNCHANGED <<leaseVars, grantVars, attachment, resume, driverVars, drawn,
                 expelled, writer>>
  /\ Loop

\* Mutant: the detached flag is not read.
IsCurrentUndetached(lease) ==
  LET r == attachment[lease.attachment]
  IN \/ r.lifecycle = Lifecycle("active", lease.generation)
     \/ r.lifecycle.state = "awaiting"

\* UploadAdmission::is_current
IsCurrent(lease) ==
  LET r == attachment[lease.attachment]
  IN /\ ~r.detached
     /\ \/ r.lifecycle = Lifecycle("active", lease.generation)
        \/ r.lifecycle.state = "awaiting"

-----------------------------------------------------------------------------
(* Takeover.  An operation executes once (module ReplayRegistry); a retry  *)
(* of one that succeeded continues it, perhaps from another attachment of  *)
(* the same principal.                                                     *)

Executes(p, o, continuation) ==
  IF continuation THEN performed[o] = p ELSE performed[o] = None

\* The lease is already the attachment's: nothing to take over.
TakeoverKept(p, a, o, continuation) ==
  /\ controller.attachment = a
  /\ MayControl(a)
  /\ IF continuation THEN UNCHANGED <<operation, leaseOperation, performed>>
     ELSE /\ operation' = o
          /\ leaseOperation' = [leaseOperation EXCEPT ![controller.generation] = o]
          /\ performed' = [performed EXCEPT ![o] = p]
  /\ UNCHANGED <<leaseVars, generation, attachment, colors, revision, failed>>

\* Mutant: the generation is not checked against its maximum.
ReadyUnchecked(a) ==
  /\ controller.attachment # a
  /\ Prepared(a)
  /\ attachment[a].awaiting = 0 \/ attachment[a].preparedApplied

ReadyToTakeOver(a) ==
  /\ controller.attachment # a
  /\ Prepared(a)
  /\ attachment[a].awaiting = 0 \/ attachment[a].preparedApplied
  /\ generation < MaxGeneration

\* Mutant: a retry takes the lease from whoever has it.
AnyMayContinue(o, continuation) == TRUE

\* A retry does not displace a lease that a later operation has granted.
MayContinue(o, continuation) ==
  continuation => controller = NoLease \/ operation = o

\* The lease is granted to a under operation o, before the screen follows.
Grant(a, o) ==
  /\ generation' = generation + 1
  /\ operation' = o
  /\ leaseOperation' = [leaseOperation EXCEPT ![generation + 1] = o]

Displaced == {controller.attachment} \cap resident

\* Without a change of colors the driver is not asked for a screen, and one
\* that has failed does not stop the takeover.
TakeoverCommitted(p, a, o) ==
  LET g == generation + 1
      changed == colors # attachment[a].colors
      settled == attachment[a].awaiting = 0
  IN /\ Grant(a, o)
     /\ performed' = [performed EXCEPT ![o] = p]
     /\ InstallColors(attachment[a].colors)
     /\ changed => ~failed
     /\ UNCHANGED failed
     /\ Settle([attachment |-> a, generation |-> g], resident \ Displaced,
               [target EXCEPT ![a] = g],
               IF settled /\ ~changed THEN everActive \cup {a} ELSE everActive)
     /\ attachment' = [b \in Attachments |->
          LET r == attachment[b]
          IN IF b \in Displaced
             THEN [r EXCEPT !.checkpoint = 0, !.lifecycle = Lifecycle("lost", g)]
             ELSE IF b # a THEN r
             ELSE IF changed THEN Resync(r, TRUE, revision')
             ELSE IF settled THEN [r EXCEPT !.lifecycle = Lifecycle("active", g)]
             ELSE r]

\* The colors reach the model, but their reply cannot be written to the PTY.
TakeoverNotBegun(a) ==
  /\ colors # attachment[a].colors
  /\ InstallColors(attachment[a].colors)
  /\ failed' = TRUE
  /\ generation' = generation + 1
  /\ UNCHANGED <<leaseVars, operation, performed, leaseOperation, attachment>>

\* The driver has failed when the recolored screen is to be captured: the
\* lease has moved, and neither the effect target nor the clients have heard.
TakeoverHalfDone(a, o) ==
  /\ failed /\ UNCHANGED failed
  /\ colors # attachment[a].colors
  /\ InstallColors(attachment[a].colors)
  /\ Grant(a, o)
  /\ controller' = [attachment |-> a, generation |-> generation + 1]
  /\ target' = [target EXCEPT ![a] = generation + 1]
  /\ resident' = resident \ Displaced
  /\ attachment' = [attachment EXCEPT ![a].checkpoint = 0]
  /\ UNCHANGED <<everActive, effectTarget, cached, performed>>

Takeover(p, a, o, continuation) ==
  /\ Recv
  /\ a \in resident
  /\ attachment[a].principal = p
  /\ Executes(p, o, continuation)
  /\ \/ TakeoverKept(p, a, o, continuation)
     \/ /\ ReadyToTakeOver(a)
        /\ MayContinue(o, continuation)
        /\ \/ TakeoverCommitted(p, a, o)
           \/ TakeoverNotBegun(a)
           \/ TakeoverHalfDone(a, o)
  /\ UNCHANGED <<resume, logVars>>
  /\ Loop

-----------------------------------------------------------------------------
(* Detaching.                                                              *)

\* A client thread drops its handle: only the flag is set.
Detach(a) ==
  /\ pc # "ended"
  /\ a \in resident
  /\ ~attachment[a].detached
  /\ attachment' = [attachment EXCEPT ![a].detached = TRUE]
  /\ UNCHANGED <<pc, leaseVars, grantVars, resume, driverVars, logVars>>

\* Mutant: the checkpoint is kept whatever the attachment awaits.
ResumableAwaiting(a) ==
  /\ controller.attachment = a
  /\ attachment[a].principal \in Devices
  /\ attachment[a].checkpoint # 0

\* A settled controller of a remote view leaves its checkpoint behind.
Resumable(a) ==
  /\ controller.attachment = a
  /\ target[a] # 0 /\ attachment[a].awaiting = 0
  /\ attachment[a].principal \in Devices
  /\ attachment[a].checkpoint # 0

DetachForRemoteResume(a) ==
  LET r == attachment[a]
  IN /\ Recv
     /\ a \in resident
     /\ Remove({a})
     /\ attachment' = [attachment EXCEPT ![a].detached = TRUE]
     /\ resume' = IF Resumable(a)
                  THEN [principal |-> r.principal, view |-> r.view,
                        revision |-> r.checkpoint, from |-> a]
                  ELSE NoCheckpoint
     /\ UNCHANGED <<generation, performed, leaseOperation, driverVars, logVars>>
     /\ Loop

\* Mutant: the attachments go, the checkpoint stays.
ResumeKept(d) == resume

ResumeWithout(d) == IF resume.principal = d THEN NoCheckpoint ELSE resume

\* detach_remote_principal, when the device is no longer authorized.
DetachRemotePrincipal(d) ==
  LET gone == {a \in resident : attachment[a].principal = d}
  IN /\ Recv
     /\ IF gone = {} /\ resume.principal # d
        THEN UNCHANGED <<leaseVars, operation>> ELSE Remove(gone)
     /\ attachment' = [a \in Attachments |->
          IF a \in gone THEN [attachment[a] EXCEPT !.detached = TRUE]
                        ELSE attachment[a]]
     /\ resume' = ResumeWithout(d)
     /\ expelled' = expelled \cup {d}
     /\ UNCHANGED <<generation, performed, leaseOperation, driverVars,
                    drawn, admissions, writer>>
     /\ Loop
-----------------------------------------------------------------------------
(* The driver's threads, and the end.                                      *)

Publish ==
  /\ pc # "ended"
  /\ revision < MaxRevision
  /\ revision' = revision + 1
  /\ UNCHANGED <<pc, leaseVars, grantVars, attachment, resume, colors, failed,
                 logVars>>

DriverFails ==
  /\ pc # "ended"
  /\ ~failed
  /\ failed' = TRUE
  /\ UNCHANGED <<pc, leaseVars, grantVars, attachment, resume, revision, colors,
                 logVars>>

\* Mutant: the final update is taken before the terminal is drained.
EndedUndrained(r, full, at) ==
  [r EXCEPT !.lifecycle = Lifecycle("ended", 0),
            !.checkpoint = IF failed THEN @ ELSE revision,
            !.shown = IF ~failed /\ r.checkpoint # revision
                         /\ (full \/ @ = r.checkpoint)
                      THEN revision ELSE @]

\* The final update of one attachment: what the drained terminal shows beyond
\* the checkpoint, in full or as a delta that a client on it can apply.
Ended(r, full, at) ==
  [r EXCEPT !.lifecycle = Lifecycle("ended", 0),
            !.checkpoint = IF failed THEN @ ELSE at,
            !.shown = IF ~failed /\ r.checkpoint # at /\ (full \/ @ = r.checkpoint)
                      THEN at ELSE @]

\* finish_runtime: a requested end, the exit of the shell or a failed driver.
\* The terminal is drained first; then every attachment gets its last update.
FinishRuntime(full) ==
  /\ pc = "recv"
  /\ pc' = "ended"
  /\ revision' \in {revision} \cup {n \in {revision + 1} : n <= MaxRevision}
  /\ attachment' = [a \in Attachments |->
       IF a \in resident THEN Ended(attachment[a], full, revision')
                         ELSE attachment[a]]
  /\ resume' = NoCheckpoint
  /\ operation' = None
  /\ Settle(NoLease, resident, target, everActive)
  /\ UNCHANGED <<generation, performed, leaseOperation, colors, failed, logVars>>

Next ==
  \/ Reap
  \/ NoEffect
  \/ \E p \in Principals, a \in Attachments, takeover \in BOOLEAN,
        view \in Views \cup {None}, c \in Colors :
       PrepareAttach(p, a, takeover, view, c)
  \/ \E takeover \in BOOLEAN, c \in Colors : AttachRefused(takeover, c)
  \/ \E a \in Attachments : \E r \in attachment[a].handed : SnapshotApplied(a, r)
  \/ \E a \in Attachments : SyncLatest(a)
  \/ \E a \in Attachments : NextUpdate(a)
  \/ \E a \in Attachments : WriteInput(a)
  \/ \E a \in Attachments : Resize(a)
  \/ \E a \in Attachments, c \in Colors : UpdateColors(a, c)
  \/ \E p \in Principals, a \in Attachments : AdmitUpload(p, a)
  \/ \E p \in Principals, a \in Attachments, o \in Operations, k \in BOOLEAN :
       Takeover(p, a, o, k)
  \/ \E a \in Attachments : Detach(a)
  \/ \E a \in Attachments : DetachForRemoteResume(a)
  \/ \E d \in Devices : DetachRemotePrincipal(d)
  \/ Publish
  \/ DriverFails
  \/ \E full \in BOOLEAN : FinishRuntime(full)

Spec == Init /\ [][Next]_vars

-----------------------------------------------------------------------------
(* Properties.                                                             *)

Leases == [attachment : Attachments \cup {None}, generation : 0 .. MaxGeneration]
Revisions == 0 .. MaxRevision

\* The runtime's fields have the types of the Rust structs.
TypeOK ==
  /\ pc \in {"loop", "recv", "ended"}
  /\ resident \subseteq drawn /\ drawn \subseteq Attachments
  /\ target \in [Attachments -> 0 .. MaxGeneration]
  /\ everActive \subseteq Attachments
  /\ controller \in Leases
  /\ operation \in Operations \cup {None}
  /\ generation \in 0 .. MaxGeneration
  /\ effectTarget \in Attachments \cup {None}
  /\ cached \in BOOLEAN
  /\ writer \in Leases
  /\ admissions \subseteq Leases

\* The controller is a resident attachment whose target is the lease's own
\* generation, every other resident attachment has only prepared a takeover,
\* and at most one has: no attach, takeover, detach or reap, in any order,
\* leaves two attachments that believe they own the input.
SingleController ==
  /\ controller # NoLease =>
       /\ controller.attachment \in resident
       /\ controller.generation = target[controller.attachment]
       /\ controller.generation \in 1 .. generation
  /\ pc # "ended" => \A a \in resident : target[a] # 0 => controller.attachment = a
  /\ \A a, b \in resident : target[a] = 0 /\ target[b] = 0 => a = b

\* What other threads read follows the lease: clipboard and notification
\* effects go to the controller that has been active, and to nobody else, and
\* the summary reports a controller exactly when there is one.
DerivedStateCurrent ==
  ~failed =>
    /\ effectTarget = EffectTargetOf(controller, resident, target, everActive)
    /\ cached = (controller # NoLease)

\* controller_operation is the last operation committed to the present lease,
\* and to no earlier one: a retried takeover that finds its own operation
\* there displaces only the lease it had itself granted.
OperationOfLease ==
  operation = IF controller = NoLease THEN None
              ELSE leaseOperation[controller.generation]

\* Input is written only by an attachment that has acknowledged a snapshot.
InputAfterSnapshot ==
  writer # NoLease => attachment[writer.attachment].applied # 0

\* The next delta of an attachment starts from the very revision its client
\* has been handed, also after crossing acknowledgements and a takeover that
\* captured a recolored snapshot.
DeltaContinues ==
  \A a \in resident :
    LET r == attachment[a]
    IN pc # "ended" /\ r.checkpoint # 0 /\ r.pendingColor = 0
         => r.checkpoint = r.shown

\* The checkpoint kept for a remote view is one its client has been handed,
\* so that a resumed delta has a base.
ResumeWasShown ==
  resume # NoCheckpoint => resume.revision = attachment[resume.from].shown

\* Whatever an attachment or a resumed view is sent next continues what its
\* client has been handed.
UpdatesContinue == DeltaContinues /\ ResumeWasShown

\* An upload admission that still calls itself current is the present lease.
AdmissionIsLease ==
  ~failed => \A lease \in admissions : IsCurrent(lease) => controller = lease

\* The terminal wears the colors of its controller.
ColorsFollowController ==
  ~failed /\ controller # NoLease =>
    colors = attachment[controller.attachment].colors

\* A device that was detached has neither attachment nor resume checkpoint
\* until it attaches again.
ExpelledIsGone ==
  \A d \in expelled :
    /\ resume.principal # d
    /\ \A a \in resident : attachment[a].principal # d

\* The final update leaves every client with the last screen, unless a
\* recolored snapshot was still to be handed over.
FinalScreenShown ==
  pc = "ended" /\ ~failed =>
    \A a \in resident : attachment[a].pendingColor = 0
                          => attachment[a].shown = revision

\* As FinalScreenShown, for every attachment: what "the final drained update"
\* of docs/persistent-sessions.md promises.
FinalScreenAlwaysShown ==
  pc = "ended" /\ ~failed =>
    \A a \in resident : attachment[a].shown = revision

\* The attachments that have held the lease and hold it no longer.
Lost == {a \in Attachments : target[a] # 0 /\ controller.attachment # a}

Lease == INSTANCE ControllerLease
           WITH lease <- controller, lost <- Lost

\* The session implements the controller lease: one holder, generations that
\* grow with every grant, input under the held lease only, and no attachment
\* that lost the lease ever gets it back.
ImplementsLease == Lease!LeaseSpec

\* When a lease passes from one attachment to another, it does so under an
\* operation that had not succeeded before, or that had granted the very
\* lease it now displaces: a late retry of a takeover never undoes a later one.
RetryDisplacesOwn ==
  [][controller # NoLease /\ controller' # NoLease /\ controller' # controller
       /\ operation' # None
     => \/ performed[operation'] = None
        \/ leaseOperation[controller.generation] = operation']_vars
=============================================================================
