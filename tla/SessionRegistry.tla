--------------------------- MODULE SessionRegistry ---------------------------
(***************************************************************************)
(* The daemon's table of sessions: names, identities, reservations and the *)
(* owners of started actors.  RegistryInner, CreationOwner, the life of an *)
(* actor's worker thread and shutdown_with_approval_until,                 *)
(* crates/daemon/src/session.rs.                                           *)
(*                                                                         *)
(* Threads: each member of Creations is one caller that creates a session, *)
(* together with the worker and the close thread of the actor it starts;   *)
(* each member of Stoppers is one stop request.  A section under the       *)
(* registry's lock is one step.  A creation's OwnershipToken and its actor *)
(* are as unique as the creation itself and are represented by it.         *)
(***************************************************************************)
EXTENDS Naturals, FiniteSets

CONSTANTS
  Creations,       \* calls that create a session
  Names,           \* session names
  Main,            \* the reserved name
  Ids,             \* random session identities
  Stoppers,        \* stop requests
  None,            \* no name, identity or creation
  MaxLive,         \* limits.max_live_sessions
  StoreBuffering   \* an Acquire load may overtake an earlier Release store

ASSUME RegistryAssumption ==
  /\ None \notin Names \cup Ids \cup Creations
  /\ Main \in Names
  /\ MaxLive \in Nat
  /\ StoreBuffering \in BOOLEAN

VARIABLES
  accepting,    \* state.accepting
  slot,         \* state.by_name
  byId,         \* state.by_id
  provisional,  \* state.provisional
  cleanupOnly,  \* state.cleanup_only
  reservation,  \* reservations: the token that holds an identity
  creation,     \* each creation: its thread and its CreationCell
  actor,        \* each creation's actor: worker, interrupt, ownership flag
  stop          \* each stop request

tables == <<slot, byId, provisional, cleanupOnly, reservation>>
vars == <<accepting, tables, creation, actor, stop>>

NoSlot == [state |-> "free", by |-> None, id |-> None]
Slot(state, c, id) == [state |-> state, by |-> c, id |-> id]
NoEntry == [by |-> None, name |-> None]
Entry(c, n) == [by |-> c, name |-> n]

Init ==
  /\ accepting = TRUE
  /\ slot = [n \in Names |-> NoSlot]
  /\ byId = [i \in Ids |-> NoEntry]
  /\ provisional = [i \in Ids |-> NoEntry]
  /\ cleanupOnly = {}
  /\ reservation = [i \in Ids |-> None]
  /\ creation = [c \in Creations |->
       [step |-> "idle", name |-> None, id |-> None, cancelled |-> FALSE,
        mark |-> "none", next |-> "none"]]
  /\ actor = [c \in Creations |->
       [worker |-> "none", owned |-> FALSE, interrupt |-> "idle"]]
  /\ stop = [s \in Stoppers |->
       [step |-> "idle", approved |-> FALSE, cancel |-> {}, observed |-> {},
        ended |-> FALSE, errors |-> FALSE]]

-----------------------------------------------------------------------------
(* What the tables say.                                                    *)

\* The creations whose actors the registry owns: owned_entries.
Owned ==
  ({byId[i].by : i \in Ids} \cup {provisional[i].by : i \in Ids}
     \cup {e.by : e \in cleanupOnly}) \ {None}

Reserved == {i \in Ids : reservation[i] # None}

IdInUse(i) ==
  \/ byId[i] # NoEntry
  \/ provisional[i] # NoEntry
  \/ \E e \in cleanupOnly : e.id = i

HoldsStarting(c) ==
  slot[creation[c].name] = Slot("starting", c, creation[c].id)

Step(c, step) == creation' = [creation EXCEPT ![c].step = step]

\* begin_end, on one actor: a thread closes the PTY unless one does already
\* or has done.  Once the worker is past its loop nobody acts on that.
BeginEnd(r) ==
  IF r.worker = "running" /\ r.interrupt \in {"idle", "err"}
  THEN [r EXCEPT !.interrupt = "pending"] ELSE r

\* RegistryInner::complete: the actor's entry goes, and with it the name and
\* the reservation if they are its own.
Complete(c, i) ==
  LET live == byId[i].by = c
      prov == ~live /\ provisional[i].by = c
      name == IF live THEN byId[i].name ELSE creation[c].name
  IN IF c \notin Owned THEN UNCHANGED tables
     ELSE /\ byId' = IF live THEN [byId EXCEPT ![i] = NoEntry] ELSE byId
          /\ provisional' =
               IF prov THEN [provisional EXCEPT ![i] = NoEntry] ELSE provisional
          /\ cleanupOnly' = IF live \/ prov THEN cleanupOnly
                            ELSE {e \in cleanupOnly : e.by # c}
          /\ slot' = IF slot[name].by = c /\ slot[name].id = i
                     THEN [slot EXCEPT ![name] = NoSlot] ELSE slot
          /\ reservation' = IF reservation[i] = c
                            THEN [reservation EXCEPT ![i] = None]
                            ELSE reservation

-----------------------------------------------------------------------------
(* Creating a session: create_reserved_inner and the CreationOwner.        *)

\* reserve_name, of a name that is free.
ReserveName(c, n) ==
  /\ creation[c].step = "idle"
  /\ accepting
  /\ slot[n] = NoSlot
  /\ slot' = [slot EXCEPT ![n] = Slot("starting", c, None)]
  /\ creation' = [creation EXCEPT ![c].step = "reserved", ![c].name = n]
  /\ UNCHANGED <<accepting, byId, provisional, cleanupOnly, reservation, actor,
                 stop>>

UnderLimit == Cardinality(Reserved) < MaxLive

\* reserve_creation_session: the identity and the place among the live
\* sessions, under both locks.
ReserveCreationSession(c) ==
  /\ creation[c].step = "reserved"
  /\ accepting
  /\ ~creation[c].cancelled
  /\ HoldsStarting(c)
  /\ UnderLimit
  /\ \E i \in Ids \ Reserved :
       /\ ~IdInUse(i)
       /\ reservation' = [reservation EXCEPT ![i] = c]
       /\ slot' = [slot EXCEPT ![creation[c].name].id = i]
       /\ creation' = [creation EXCEPT ![c].step = "identified", ![c].id = i]
  /\ UNCHANGED <<accepting, byId, provisional, cleanupOnly, actor, stop>>

\* The PTY is spawned, its driver and the actor's worker started.
Start(c) ==
  /\ creation[c].step = "identified"
  /\ Step(c, "started")
  /\ actor' = [actor EXCEPT ![c].worker = "running"]
  /\ UNCHANGED <<accepting, tables, stop>>

\* Any step before that may fail: a deadline, a cancellation, a limit, the
\* spawn itself.
FailBeforeStart(c) ==
  /\ creation[c].step \in {"reserved", "identified"}
  /\ Step(c, "failing")
  /\ UNCHANGED <<accepting, tables, actor, stop>>

\* Mutant: the slot is marked free and keeps its owner.
ReleasedState(c) ==
  IF HoldsStarting(c) THEN [slot EXCEPT ![creation[c].name].state = "free"]
  ELSE slot

ReleasedSlots(c) ==
  IF HoldsStarting(c) THEN [slot EXCEPT ![creation[c].name] = NoSlot] ELSE slot

\* release_creation: no actor was started.
ReleaseCreation(c) ==
  LET i == creation[c].id
  IN /\ creation[c].step = "failing"
     /\ actor[c].worker = "none"
     /\ slot' = ReleasedSlots(c)
     /\ reservation' = [j \in Ids |-> IF j = i /\ reservation[j] = c
                                      THEN None ELSE reservation[j]]
     /\ Step(c, "answering")
     /\ UNCHANGED <<accepting, byId, provisional, cleanupOnly, actor, stop>>

RegisterProvisional(c) ==
  LET i == creation[c].id
  IN /\ creation[c].step = "started"
     /\ ~IdInUse(i)
     /\ HoldsStarting(c)
     /\ provisional' = [provisional EXCEPT ![i] = Entry(c, creation[c].name)]
     /\ creation' = [creation EXCEPT ![c].step = "marking",
                                     ![c].next = "registered"]
     /\ UNCHANGED <<accepting, slot, byId, cleanupOnly, reservation, actor, stop>>

\* Mutant: the actor that could not be registered is left alone.
RetainNothing(c) == UNCHANGED tables

\* retain_provisional_for_cleanup: the started actor stays visible, in the
\* place it has, in its provisional place, or beside the tables.
Retain(c) ==
  LET i == creation[c].id
      e == Entry(c, creation[c].name)
  IN /\ UNCHANGED <<slot, byId, reservation>>
     /\ IF c \in Owned THEN UNCHANGED <<provisional, cleanupOnly>>
        ELSE IF /\ HoldsStarting(c)
                /\ reservation[i] = c
                /\ byId[i] = NoEntry /\ provisional[i] = NoEntry
        THEN /\ provisional' = [provisional EXCEPT ![i] = e]
             /\ UNCHANGED cleanupOnly
        ELSE /\ cleanupOnly' = cleanupOnly \cup
                  {[by |-> c, name |-> e.name, id |-> i]}
             /\ UNCHANGED provisional

\* The registration failed, with a poisoned lock for instance.
RegisterFails(c) ==
  /\ creation[c].step = "started"
  /\ Retain(c)
  /\ creation' = [creation EXCEPT ![c].step = "marking", ![c].next = "failing"]
  /\ UNCHANGED <<accepting, actor, stop>>

Marked(c) ==
  creation' = [creation EXCEPT ![c].step = creation[c].next,
                               ![c].mark = "none", ![c].next = "none"]

WorkerDone(c) == actor[c].worker \in {"stored", "ended", "finalized"}

\* mark_registry_owned: registry_owned is stored, then worker_done is read.
MarkStore(c) ==
  /\ creation[c].step = "marking"
  /\ actor' = [actor EXCEPT ![c].owned = TRUE]
  /\ \/ /\ creation[c].mark = "none"
        /\ creation' = [creation EXCEPT ![c].mark = "stored"]
     \/ /\ creation[c].mark = "loaded"
        /\ Marked(c)
  /\ UNCHANGED <<accepting, tables, stop>>

\* Mutant: a worker that is already done is not noticed.
MarkLoadBlind(c) ==
  /\ creation[c].step = "marking"
  /\ creation[c].mark = "stored"
  /\ UNCHANGED tables
  /\ Marked(c)
  /\ UNCHANGED <<accepting, actor, stop>>

MarkLoad(c) ==
  /\ creation[c].step = "marking"
  /\ creation[c].mark = "stored"
  /\ IF WorkerDone(c) THEN Complete(c, creation[c].id) ELSE UNCHANGED tables
  /\ Marked(c)
  /\ UNCHANGED <<accepting, actor, stop>>

\* Release and Acquire do not order a store before a later load of another
\* location: the load may have been served before the store is visible.
MarkLoadEarly(c) ==
  /\ StoreBuffering
  /\ creation[c].step = "marking"
  /\ creation[c].mark = "none"
  /\ ~actor[c].owned
  /\ ~WorkerDone(c)
  /\ creation' = [creation EXCEPT ![c].mark = "loaded"]
  /\ UNCHANGED <<accepting, tables, actor, stop>>

\* publish_name, or its refusal.
PublishName(c) ==
  LET i == creation[c].id
      n == creation[c].name
  IN /\ creation[c].step = "registered"
     /\ IF /\ accepting
           /\ ~creation[c].cancelled
           /\ HoldsStarting(c)
           /\ provisional[i].by = c
        THEN /\ provisional' = [provisional EXCEPT ![i] = NoEntry]
             /\ slot' = [slot EXCEPT ![n] = Slot("live", c, i)]
             /\ byId' = [byId EXCEPT ![i] = Entry(c, n)]
             /\ Step(c, "published")
        ELSE /\ Step(c, "failing")
             /\ UNCHANGED <<provisional, slot, byId>>
     /\ UNCHANGED <<accepting, cleanupOnly, reservation, actor, stop>>

\* cleanup_owned, of a creation that failed after the start.
CleanupOwned(c) ==
  /\ creation[c].step = "failing"
  /\ actor[c].worker # "none"
  /\ Retain(c)
  /\ creation' = [creation EXCEPT ![c].step = "marking", ![c].next = "ending"]
  /\ UNCHANGED <<accepting, actor, stop>>

EndOwned(c) ==
  /\ creation[c].step = "ending"
  /\ actor' = [actor EXCEPT ![c] = BeginEnd(@)]
  /\ Step(c, "answering")
  /\ UNCHANGED <<accepting, tables, stop>>

\* Mutant: only a success is stored in the cell.
AnswerPublished(c) ==
  /\ creation[c].step = "published"
  /\ Step(c, "done")
  /\ UNCHANGED <<accepting, tables, actor, stop>>

\* CreationCell::complete, once the actor is published, released or ending;
\* the wait for its end is bounded by the deadline.
Answer(c) ==
  /\ creation[c].step \in {"published", "answering"}
  /\ Step(c, "done")
  /\ UNCHANGED <<accepting, tables, actor, stop>>

CreationNext(c) ==
  \/ \E n \in Names : ReserveName(c, n)
  \/ ReserveCreationSession(c)
  \/ Start(c)
  \/ FailBeforeStart(c)
  \/ ReleaseCreation(c)
  \/ RegisterProvisional(c)
  \/ RegisterFails(c)
  \/ MarkStore(c)
  \/ MarkLoad(c)
  \/ MarkLoadEarly(c)
  \/ PublishName(c)
  \/ CleanupOwned(c)
  \/ EndOwned(c)
  \/ Answer(c)

-----------------------------------------------------------------------------
(* The actor's worker, and the thread that closes its PTY.                 *)

\* Child and driver threads are gone, worker_done is stored.  The shell may
\* have exited by itself; or the end was requested and the PTY is closed.
WorkerStops(c) ==
  /\ actor[c].worker = "running"
  /\ actor' = [actor EXCEPT ![c].worker = "stored", ![c].interrupt = "idle"]
  /\ UNCHANGED <<accepting, tables, creation, stop>>

WorkerStopsOnRequest(c) ==
  /\ actor[c].interrupt = "ok"
  /\ WorkerStops(c)

FinishEnd(c) ==
  /\ actor[c].worker = "stored"
  /\ actor' = [actor EXCEPT ![c].worker = "ended"]
  /\ UNCHANGED <<accepting, tables, creation, stop>>

\* The rest of ActorWorkerFinalizer::complete.
Finalize(c) ==
  /\ actor[c].worker = "ended"
  /\ IF actor[c].owned THEN Complete(c, creation[c].id) ELSE UNCHANGED tables
  /\ actor' = [actor EXCEPT ![c].worker = "finalized"]
  /\ UNCHANGED <<accepting, creation, stop>>

\* finish_interrupt
FinishInterrupt(c) ==
  /\ actor[c].interrupt = "pending"
  /\ \E r \in {"ok", "err"} : actor' = [actor EXCEPT ![c].interrupt = r]
  /\ UNCHANGED <<accepting, tables, creation, stop>>

-----------------------------------------------------------------------------
(* Renaming and closing a live session.                                    *)

\* Mutant: the old name stays in its slot.
MovedNameKept(old, new, c, i) ==
  [slot EXCEPT ![new] = Slot("live", c, i)]

MovedName(old, new, c, i) ==
  [slot EXCEPT ![old] = NoSlot, ![new] = Slot("live", c, i)]

Rename(i, new) ==
  LET e == byId[i]
  IN /\ accepting
     /\ e # NoEntry
     /\ Main \notin {e.name, new}
     /\ slot[new] = NoSlot
     /\ slot[e.name] = Slot("live", e.by, i)
     /\ slot' = MovedName(e.name, new, e.by, i)
     /\ byId' = [byId EXCEPT ![i].name = new]
     /\ UNCHANGED <<accepting, provisional, cleanupOnly, reservation, creation,
                    actor, stop>>

Close(i) ==
  /\ byId[i] # NoEntry
  /\ actor' = [actor EXCEPT ![byId[i].by] = BeginEnd(@)]
  /\ UNCHANGED <<accepting, tables, creation, stop>>

-----------------------------------------------------------------------------
(* Stopping: shutdown_with_approval_until.                                 *)

StopStep(s, step) == stop' = [stop EXCEPT ![s].step = step]

\* Mutant: only the published sessions are counted.
IdleIfNoneLive == \A i \in Ids : byId[i] = NoEntry

Idle ==
  /\ \A n \in Names : slot[n] = NoSlot
  /\ Owned = {}
  /\ Reserved = {}

\* begin_shutdown: the idle decision and the end of admission are one step.
BeginShutdown(s, approved) ==
  /\ stop[s].step = "idle"
  /\ IF ~approved /\ ~Idle
     THEN StopStep(s, "refused") /\ UNCHANGED accepting
     ELSE /\ accepting' = FALSE
          /\ stop' = [stop EXCEPT ![s].step = "cancelling",
               ![s].approved = approved,
               ![s].cancel = {slot[n].by : n \in
                                {m \in Names : slot[m].state = "starting"}}]
  /\ UNCHANGED <<tables, creation, actor>>

\* CreationCell::cancel
CancelCreation(s, c) ==
  /\ c \in stop[s].cancel
  /\ stop' = [stop EXCEPT ![s].cancel = @ \ {c}]
  /\ creation' = [creation EXCEPT ![c].cancelled = TRUE]
  /\ UNCHANGED <<accepting, tables, actor>>

\* Every owner is asked to end, the ones that have appeared since included;
\* ended remembers whether one of them was running.
Sweep(s) ==
  /\ stop[s].step \in {"cancelling", "sweeping"}
  /\ stop[s].cancel = {}
  /\ actor' = [c \in Creations |->
                 IF c \in Owned THEN BeginEnd(actor[c]) ELSE actor[c]]
  /\ stop' = [stop EXCEPT ![s].step = "joining", ![s].observed = @ \cup Owned,
                          ![s].ended = @ \/ \E c \in Owned : ~WorkerDone(c)]
  /\ UNCHANGED <<accepting, tables, creation>>

\* The workers that are done are waited for and joined, which leaves in
\* observed those that are not; an end or a wait may have failed.
Join(s) ==
  LET done == {c \in stop[s].observed : WorkerDone(c)}
  IN /\ stop[s].step = "joining"
     /\ \A c \in done : actor[c].worker = "finalized"
     /\ \E failed \in IF done = {} THEN {FALSE} ELSE BOOLEAN :
          stop' = [stop EXCEPT ![s].step = "checking",
                               ![s].observed = @ \ done,
                               ![s].errors = @ \/ failed]
     /\ UNCHANGED <<accepting, tables, creation, actor>>

\* Is nothing owned any more?  Then the reservations are counted, under
\* another lock.
CheckOwned(s) ==
  /\ stop[s].step = "checking"
  /\ StopStep(s, IF Owned = {} THEN "counting" ELSE "waiting")
  /\ UNCHANGED <<accepting, tables, creation, actor>>

\* Mutant: the reservations are not counted.
AllReleasedUncounted(s) == stop[s].observed = {}

AllReleased(s) ==
  /\ Reserved = {}
  /\ stop[s].observed = {}

CheckReservations(s) ==
  /\ stop[s].step = "counting"
  /\ StopStep(s, IF ~AllReleased(s) THEN "waiting"
                 ELSE IF stop[s].errors THEN "failing" ELSE "stopped")
  /\ UNCHANGED <<accepting, tables, creation, actor>>

\* Another round, or the deadline.
Wait(s) ==
  /\ stop[s].step = "waiting"
  /\ \E step \in {"sweeping", "failing"} : StopStep(s, step)
  /\ UNCHANGED <<accepting, tables, creation, actor>>

\* resume_after_failed_shutdown
Resume(s) ==
  /\ stop[s].step = "failing"
  /\ accepting' = TRUE
  /\ stop' = [stop EXCEPT ![s].step = "failed", ![s].observed = {}]
  /\ UNCHANGED <<tables, creation, actor>>

StopNext(s) ==
  \/ \E approved \in BOOLEAN : BeginShutdown(s, approved)
  \/ \E c \in Creations : CancelCreation(s, c)
  \/ Sweep(s)
  \/ Join(s)
  \/ CheckOwned(s)
  \/ CheckReservations(s)
  \/ Wait(s)
  \/ Resume(s)

Next ==
  \/ \E c \in Creations : \/ CreationNext(c)
                          \/ WorkerStops(c)
                          \/ FinishEnd(c)
                          \/ Finalize(c)
                          \/ FinishInterrupt(c)
  \/ \E i \in Ids, n \in Names : Rename(i, n)
  \/ \E i \in Ids : Close(i)
  \/ \E s \in Stoppers : StopNext(s)

Spec == Init /\ [][Next]_vars

\* The threads of the process are scheduled: a creation that has begun goes
\* on, a worker asked to end does when its PTY is closed, and finalizes.
FairSpec ==
  /\ Spec
  /\ \A c \in Creations :
       /\ WF_vars(creation[c].step # "idle" /\ CreationNext(c))
       /\ WF_vars(WorkerStopsOnRequest(c))
       /\ WF_vars(FinishEnd(c))
       /\ WF_vars(Finalize(c))

-----------------------------------------------------------------------------
(* Properties.                                                             *)

Entries == [by : Creations \cup {None}, name : Names \cup {None}]

\* The tables have the shape of RegistryState: a free name belongs to nobody,
\* a live one has an identity, and the reservations stay within the limit.
TypeOK ==
  /\ accepting \in BOOLEAN
  /\ slot \in [Names -> [state : {"free", "starting", "live"},
                         by : Creations \cup {None}, id : Ids \cup {None}]]
  /\ \A n \in Names : /\ slot[n].state = "free" => slot[n] = NoSlot
                      /\ slot[n].state = "live" => slot[n].id # None
  /\ byId \in [Ids -> Entries]
  /\ provisional \in [Ids -> Entries]
  /\ cleanupOnly \subseteq [by : Creations, name : Names, id : Ids]
  /\ reservation \in [Ids -> Creations \cup {None}]
  /\ Cardinality(Reserved) <= MaxLive

\* Names, identities and tokens agree: a live name leads to an entry of that
\* name and back, a provisional entry to its starting slot, and every entry
\* holds the reservation of its identity.
TablesAgree ==
  /\ \A n \in Names : slot[n].state = "live" =>
       byId[slot[n].id] = Entry(slot[n].by, n)
  /\ \A i \in Ids : byId[i] # NoEntry =>
       /\ slot[byId[i].name] = Slot("live", byId[i].by, i)
       /\ reservation[i] = byId[i].by
       /\ provisional[i] = NoEntry
  /\ \A i \in Ids : provisional[i] # NoEntry =>
       /\ slot[provisional[i].name] = Slot("starting", provisional[i].by, i)
       /\ reservation[i] = provisional[i].by
  /\ \A n \in Names : slot[n].state = "starting" /\ slot[n].id # None =>
       reservation[slot[n].id] = slot[n].by

\* As long as a session's worker runs, its name and its place among the live
\* sessions are held for it, cancelled and failed creations included; and once
\* its creation has returned it is in the tables, where a stop finds it.
RunningIsAccounted ==
  \A c \in Creations : actor[c].worker = "running" =>
    /\ reservation[creation[c].id] = c
    /\ \E n \in Names : slot[n].by = c /\ slot[n].id = creation[c].id
    /\ creation[c].step \in {"published", "done"} => c \in Owned

\* The tables agree with each other and with the sessions that run.
SessionsAccounted == TablesAgree /\ RunningIsAccounted

\* A stop that reports success has left no worker and no reservation behind,
\* and none can come back.
StoppedReleasedAll ==
  \A s \in Stoppers : stop[s].step = "stopped" =>
    /\ ~accepting
    /\ Reserved = {}
    /\ \A c \in Creations : actor[c].worker # "running"

\* An unapproved stop ends no session: creation admission and the idle
\* decision share a lock, so nothing can appear between them.
IdleStopEndsNothing ==
  \A s \in Stoppers : stop[s].ended => stop[s].approved

\* Every creation is answered, by its thread or by a stop, so nobody waits for
\* its cell in vain.
CreationAnswered ==
  \A c \in Creations :
    creation[c].step = "reserved"
      ~> creation[c].cancelled \/ creation[c].step = "done"

\* Whatever the order in which a worker ends and its creation marks it as
\* owned, one of the two removes it from the tables: its name becomes free.
ReleasedEventually ==
  \A c \in Creations : actor[c].worker = "stored" ~> c \notin Owned
=============================================================================
