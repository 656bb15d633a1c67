------------------------ MODULE SessionRegistryProofs ------------------------
(***************************************************************************)
(* Proofs about SessionRegistry, for any number of creations, names,       *)
(* identities and sessions.  The argument goes by who may touch an entry:  *)
(* a name that is starting, a provisional entry, a live entry and the      *)
(* reservation of an identity all carry the creation they belong to, and   *)
(* only that creation, its worker or a rename of its live entry moves them.*)
(***************************************************************************)
EXTENDS SessionRegistry, TLAPS

Steps ==
  {"idle", "reserved", "identified", "started", "marking", "registered",
   "published", "failing", "ending", "answering", "done"}

\* The steps of a creation whose actor has been handed to the registry.
HandedOver ==
  {"marking", "registered", "published", "failing", "ending", "answering", "done"}

CreationRecords ==
  [step : Steps, name : Names \cup {None}, id : Ids \cup {None},
   cancelled : BOOLEAN, mark : {"none", "stored", "loaded"},
   next : {"none", "registered", "failing", "ending"}]

ActorRecords ==
  [worker : {"none", "running", "stored", "ended", "finalized"},
   owned : BOOLEAN, interrupt : {"idle", "pending", "ok", "err"}]

\* The types of the tables, the creations and their actors.
Types ==
  /\ slot \in [Names -> [state : {"free", "starting", "live"},
                         by : Creations \cup {None}, id : Ids \cup {None}]]
  /\ byId \in [Ids -> Entries]
  /\ provisional \in [Ids -> Entries]
  /\ cleanupOnly \subseteq [by : Creations, name : Names, id : Ids]
  /\ reservation \in [Ids -> Creations \cup {None}]
  /\ creation \in [Creations -> CreationRecords]
  /\ actor \in [Creations -> ActorRecords]

\* A live entry has its name and the reservation of its identity, and belongs
\* to a creation that has been published.
LiveOwn ==
  \A i \in Ids : byId[i] # NoEntry =>
    /\ byId[i].by \in Creations /\ byId[i].name \in Names
    /\ creation[byId[i].by].id = i
    /\ creation[byId[i].by].step \in {"published", "done"}
    /\ slot[byId[i].name] = Slot("live", byId[i].by, i)
    /\ reservation[i] = byId[i].by
    /\ provisional[i] = NoEntry

\* A provisional entry is the one its creation asked for, under its name.
ProvisionalOwn ==
  \A i \in Ids : provisional[i] # NoEntry =>
    /\ provisional[i].by \in Creations
    /\ creation[provisional[i].by].id = i
    /\ creation[provisional[i].by].step \in HandedOver \ {"published"}
    /\ actor[provisional[i].by].worker # "none"
    /\ provisional[i].name = creation[provisional[i].by].name
    /\ slot[provisional[i].name] = Slot("starting", provisional[i].by, i)
    /\ reservation[i] = provisional[i].by

\* A starting name belongs to a creation that has not been published, with
\* the reservation once it has one; a live name leads to its entry; a free
\* one to nobody.
NameOwn(n) ==
  /\ slot[n].state = "free" => slot[n] = NoSlot
  /\ slot[n].state = "starting" =>
       /\ slot[n].by \in Creations
       /\ creation[slot[n].by].name = n
       /\ creation[slot[n].by].id = slot[n].id
       /\ creation[slot[n].by].step # "idle"
       /\ slot[n].id # None => /\ reservation[slot[n].id] = slot[n].by
                               /\ byId[slot[n].id] = NoEntry
  /\ slot[n].state = "live" =>
       /\ slot[n].id \in Ids
       /\ byId[slot[n].id] = Entry(slot[n].by, n)

NamesOwn == \A n \in Names : NameOwn(n)

\* A creation that has been cleaned up after: it will not be published.
Retiring(c) ==
  \/ creation[c].step \in {"ending", "answering", "done"}
  \/ creation[c].step = "marking" /\ creation[c].next = "ending"

\* Only a worker that is done is retained beside the tables, for a creation
\* that has failed.
CleanupDone == \A e \in cleanupOnly : WorkerDone(e.by) /\ Retiring(e.by)

\* What a creation has, at each of its steps.
Progress ==
  \A c \in Creations :
    /\ creation[c].step = "marking" <=> creation[c].next # "none"
    /\ creation[c].step \in {"idle", "reserved", "identified"} => actor[c].worker = "none"
    /\ creation[c].step \in {"started", "marking", "registered", "published", "ending"} =>
         actor[c].worker # "none"
    /\ creation[c].step # "idle" => creation[c].name \in Names
    /\ creation[c].step \in {"idle", "reserved"} => creation[c].id = None
    /\ creation[c].step = "identified" \/ actor[c].worker # "none" => creation[c].id \in Ids

\* The steps at which a creation itself holds its starting name.
Holding(c) ==
  \/ creation[c].step \in {"reserved", "identified", "started"}
  \/ creation[c].step = "failing" /\ actor[c].worker = "none"

StartingHeld == \A c \in Creations : Holding(c) => HoldsStarting(c)

\* A worker that runs is in the tables, once it has been handed to them.
RunningHeld ==
  \A c \in Creations : actor[c].worker = "running" =>
    /\ creation[c].step \in HandedOver =>
         \/ provisional[creation[c].id].by = c
         \/ byId[creation[c].id].by = c
    /\ creation[c].step = "published" => byId[creation[c].id].by = c

RegistryInv ==
  /\ Types /\ LiveOwn /\ ProvisionalOwn /\ NamesOwn /\ CleanupDone /\ Progress
  /\ StartingHeld /\ RunningHeld

-----------------------------------------------------------------------------
(* The step of a creation that takes nothing from others.                  *)

\* What a step of a thread may do to a creation and its actor without
\* looking at the tables: it goes on and never back.
Onward(c) ==
  /\ creation'[c].name = creation[c].name
  /\ creation'[c].id = creation[c].id
  /\ creation[c].step # "idle" => creation'[c].step # "idle"
  /\ creation[c].step \in {"published", "done"} =>
       creation'[c].step \in {"published", "done"}
  /\ creation[c].step \in HandedOver \ {"published"} =>
       creation'[c].step \in HandedOver \ {"published"}
  /\ WorkerDone(c) => WorkerDone(c)'
  /\ Retiring(c) => Retiring(c)'
  /\ actor[c].worker # "none" => actor'[c].worker # "none"
  /\ Holding(c)' => Holding(c)

\* It starts no worker that the tables should hold, and publishes none.
StillHeld(c) ==
  actor'[c].worker = "running" =>
    /\ creation'[c].step \in HandedOver =>
         actor[c].worker = "running" /\ creation[c].step \in HandedOver
    /\ creation'[c].step = "published" => creation[c].step = "published"

\* A step that leaves the tables alone keeps what they say, when every
\* creation goes onward: most steps of creations, workers and stops.
LEMMA SameTables ==
  ASSUME RegistryInv, UNCHANGED tables, Types', Progress',
         \A c \in Creations : Onward(c) /\ StillHeld(c)
  PROVE  RegistryInv'
<1> USE DEF tables
<1>1. LiveOwn'
  <2> SUFFICES ASSUME NEW i \in Ids, byId[i] # NoEntry
               PROVE  /\ byId[i].by \in Creations /\ byId[i].name \in Names
                      /\ creation'[byId[i].by].id = i
                      /\ creation'[byId[i].by].step \in {"published", "done"}
                      /\ slot[byId[i].name] = Slot("live", byId[i].by, i)
                      /\ reservation[i] = byId[i].by
                      /\ provisional[i] = NoEntry
    BY Zenon DEF LiveOwn
  <2> QED  BY Zenon DEF RegistryInv, LiveOwn, Onward
<1>2. ProvisionalOwn'
  <2> SUFFICES ASSUME NEW i \in Ids, provisional[i] # NoEntry
               PROVE  /\ provisional[i].by \in Creations
                      /\ creation'[provisional[i].by].id = i
                      /\ creation'[provisional[i].by].step \in HandedOver \ {"published"}
                      /\ actor'[provisional[i].by].worker # "none"
                      /\ provisional[i].name = creation'[provisional[i].by].name
                      /\ slot[provisional[i].name] = Slot("starting", provisional[i].by, i)
                      /\ reservation[i] = provisional[i].by
    BY Zenon DEF ProvisionalOwn
  <2> QED  BY Zenon DEF RegistryInv, ProvisionalOwn, Onward
<1>3. NamesOwn'
  BY DEF RegistryInv, NamesOwn, NameOwn, Onward, Slot, NoSlot, Entry
<1>4. CleanupDone'
  <2> SUFFICES ASSUME NEW e \in cleanupOnly
               PROVE  WorkerDone(e.by)' /\ Retiring(e.by)'
    BY Zenon DEF CleanupDone
  <2>1. e.by \in Creations  BY Zenon DEF RegistryInv, Types
  <2> QED  BY <2>1, Zenon DEF RegistryInv, CleanupDone, Onward
<1>5. StartingHeld'
  BY Zenon DEF RegistryInv, StartingHeld, Onward, HoldsStarting
<1>6. RunningHeld'
  BY Zenon DEF RegistryInv, RunningHeld, Onward, StillHeld, HandedOver
<1> QED  BY Zenon, <1>1, <1>2, <1>3, <1>4, <1>5, <1>6 DEF RegistryInv

\* The record of a creation after a step of its thread, and nobody else's.
Moved(c, step, next, name, id) ==
  /\ creation' \in [Creations -> CreationRecords]
  /\ creation'[c].step = step
  /\ creation'[c].next = next
  /\ creation'[c].name = name
  /\ creation'[c].id = id
  /\ \A d \in Creations \ {c} : creation'[d] = creation[d]

\* The state of an actor's worker after a step, and nobody else's.
Worked(c, worker) ==
  /\ actor' \in [Creations -> ActorRecords]
  /\ actor'[c].worker = worker
  /\ \A d \in Creations \ {c} : actor'[d] = actor[d]

\* What the updates of a creation's record amount to.
LEMMA CreationMoves ==
  ASSUME creation \in [Creations -> CreationRecords], NEW c \in Creations
  PROVE  /\ \A step \in Steps : Step(c, step) =>
              Moved(c, step, creation[c].next, creation[c].name, creation[c].id)
         /\ \A n \in Names :
              creation' = [creation EXCEPT ![c].step = "reserved", ![c].name = n] =>
                Moved(c, "reserved", creation[c].next, n, creation[c].id)
         /\ \A i \in Ids :
              creation' = [creation EXCEPT ![c].step = "identified", ![c].id = i] =>
                Moved(c, "identified", creation[c].next, creation[c].name, i)
         /\ \A next \in {"registered", "failing", "ending"} :
              creation' = [creation EXCEPT ![c].step = "marking", ![c].next = next] =>
                Moved(c, "marking", next, creation[c].name, creation[c].id)
         /\ \A mark \in {"stored", "loaded"} :
              creation' = [creation EXCEPT ![c].mark = mark] =>
                Moved(c, creation[c].step, creation[c].next, creation[c].name,
                      creation[c].id)
         /\ creation[c].next # "none" /\ Marked(c) =>
              Moved(c, creation[c].next, "none", creation[c].name, creation[c].id)
<1> USE DEF Moved
<1>1. \A step \in Steps : Step(c, step) =>
        Moved(c, step, creation[c].next, creation[c].name, creation[c].id)
  BY DEF Step, CreationRecords
<1>2. ASSUME NEW n \in Names,
             creation' = [creation EXCEPT ![c].step = "reserved", ![c].name = n]
      PROVE  Moved(c, "reserved", creation[c].next, n, creation[c].id)
  <2>1. creation[c] \in CreationRecords
    BY Zenon
  <2>2. [creation[c] EXCEPT !.step = "reserved", !.name = n] \in CreationRecords
    BY Zenon, <2>1 DEF CreationRecords, Steps
  <2>3. creation' = [creation EXCEPT
                       ![c] = [creation[c] EXCEPT !.step = "reserved", !.name = n]]
    BY Zenon, <1>2
  <2> QED  BY Zenon, <2>1, <2>2, <2>3 DEF CreationRecords
<1>3. ASSUME NEW i \in Ids,
             creation' = [creation EXCEPT ![c].step = "identified", ![c].id = i]
      PROVE  Moved(c, "identified", creation[c].next, creation[c].name, i)
  <2>1. creation[c] \in CreationRecords
    BY Zenon
  <2>2. [creation[c] EXCEPT !.step = "identified", !.id = i] \in CreationRecords
    BY Zenon, <2>1 DEF CreationRecords, Steps
  <2>3. creation' = [creation EXCEPT
                       ![c] = [creation[c] EXCEPT !.step = "identified", !.id = i]]
    BY Zenon, <1>3
  <2> QED  BY Zenon, <2>1, <2>2, <2>3 DEF CreationRecords
<1>4. ASSUME NEW next \in {"registered", "failing", "ending"},
             creation' = [creation EXCEPT ![c].step = "marking", ![c].next = next]
      PROVE  Moved(c, "marking", next, creation[c].name, creation[c].id)
  <2>1. creation[c] \in CreationRecords
    BY Zenon
  <2>2. [creation[c] EXCEPT !.step = "marking", !.next = next] \in CreationRecords
    BY Zenon, <2>1 DEF CreationRecords, Steps
  <2>3. creation' = [creation EXCEPT
                       ![c] = [creation[c] EXCEPT !.step = "marking", !.next = next]]
    BY Zenon, <1>4
  <2> QED  BY Zenon, <2>1, <2>2, <2>3 DEF CreationRecords
<1>5. ASSUME NEW mark \in {"stored", "loaded"},
             creation' = [creation EXCEPT ![c].mark = mark]
      PROVE  Moved(c, creation[c].step, creation[c].next, creation[c].name,
                   creation[c].id)
  BY <1>5 DEF CreationRecords
<1>6. ASSUME creation[c].next # "none", Marked(c)
      PROVE  Moved(c, creation[c].next, "none", creation[c].name, creation[c].id)
  <2>1. creation[c].next \in {"registered", "failing", "ending"}
    BY Zenon, <1>6 DEF CreationRecords
  <2>2. creation[c].next \in Steps
    BY Zenon, <2>1 DEF Steps
  <2>3. creation' = [creation EXCEPT ![c].step = creation[c].next,
                                     ![c].mark = "none", ![c].next = "none"]
    BY Zenon, <1>6 DEF Marked
  <2>4. creation[c] \in CreationRecords
    BY Zenon
  <2>5. [creation[c] EXCEPT !.step = creation[c].next, !.mark = "none", !.next = "none"]
          \in CreationRecords
    BY Zenon, <2>2, <2>4 DEF CreationRecords
  <2>6. creation' = [creation EXCEPT ![c] =
          [creation[c] EXCEPT !.step = creation[c].next, !.mark = "none", !.next = "none"]]
    BY Zenon, <2>3
  <2> QED  BY Zenon, <2>4, <2>5, <2>6 DEF CreationRecords
<1> HIDE DEF Moved
<1> QED  BY Zenon, <1>1, <1>2, <1>3, <1>4, <1>5, <1>6

\* Asking an actor to end leaves its worker where it is.
LEMMA EndKeepsWorker ==
  ASSUME NEW r \in ActorRecords
  PROVE  BeginEnd(r) \in ActorRecords /\ BeginEnd(r).worker = r.worker
BY Zenon DEF BeginEnd, ActorRecords

\* What the updates of an actor amount to.
LEMMA ActorMoves ==
  ASSUME actor \in [Creations -> ActorRecords], NEW c \in Creations
  PROVE  /\ UNCHANGED actor => Worked(c, actor[c].worker)
         /\ actor' = [actor EXCEPT ![c].owned = TRUE] => Worked(c, actor[c].worker)
         /\ actor' = [actor EXCEPT ![c] = BeginEnd(@)] => Worked(c, actor[c].worker)
         /\ \A w \in {"running", "ended", "finalized"} :
              actor' = [actor EXCEPT ![c].worker = w] => Worked(c, w)
         /\ actor' = [actor EXCEPT ![c].worker = "stored", ![c].interrupt = "idle"] =>
              Worked(c, "stored")
         /\ \A r \in {"ok", "err"} :
              actor' = [actor EXCEPT ![c].interrupt = r] => Worked(c, actor[c].worker)
<1> USE DEF Worked
<1>1. UNCHANGED actor => Worked(c, actor[c].worker)
  BY Zenon
<1>2. actor' = [actor EXCEPT ![c].owned = TRUE] => Worked(c, actor[c].worker)
  BY Zenon DEF ActorRecords
<1>3. actor' = [actor EXCEPT ![c] = BeginEnd(@)] => Worked(c, actor[c].worker)
  BY Zenon, EndKeepsWorker
<1>4. ASSUME NEW w \in {"running", "ended", "finalized"},
             actor' = [actor EXCEPT ![c].worker = w]
      PROVE  Worked(c, w)
  <2>1. [actor[c] EXCEPT !.worker = w] \in ActorRecords
    BY Zenon DEF ActorRecords
  <2> QED  BY Zenon, <1>4, <2>1 DEF ActorRecords
<1>5. actor' = [actor EXCEPT ![c].worker = "stored", ![c].interrupt = "idle"] =>
        Worked(c, "stored")
  <2>1. [actor[c] EXCEPT !.worker = "stored", !.interrupt = "idle"] \in ActorRecords
    BY Zenon DEF ActorRecords
  <2> QED  BY <2>1 DEF ActorRecords
<1>6. ASSUME NEW r \in {"ok", "err"}, actor' = [actor EXCEPT ![c].interrupt = r]
      PROVE  Worked(c, actor[c].worker)
  BY Zenon, <1>6 DEF ActorRecords
<1> HIDE DEF Worked
<1> QED  BY Zenon, <1>1, <1>2, <1>3, <1>4, <1>5, <1>6

\* The steps of a creation's thread that leave the tables alone, seen as a
\* move from one step to another.
LEMMA ThreadKeeps ==
  ASSUME RegistryInv, UNCHANGED tables, NEW c \in Creations,
         NEW step \in Steps, NEW next, NEW worker,
         Moved(c, step, next, creation[c].name, creation[c].id),
         Worked(c, worker),
         step = "marking" <=> next # "none",
         \/ creation[c].step = "identified" /\ step = "started" /\ worker = "running"
         \/ /\ creation[c].step \in {"reserved", "identified"}
            /\ step = "failing" /\ worker = actor[c].worker
         \/ /\ creation[c].step \in HandedOver \ {"published", "done"}
            /\ step \in HandedOver \ {"published"}
            /\ worker = actor[c].worker
            /\ step \in {"marking", "registered", "ending"} => worker # "none"
            /\ step = "failing" => worker # "none"
            /\ Retiring(c) => \/ step \in {"ending", "answering", "done"}
                              \/ step = "marking" /\ next = "ending"
         \/ creation[c].step = "published" /\ step = "done" /\ worker = actor[c].worker
  PROVE  RegistryInv'
<1>1. Types'
  BY Zenon DEF RegistryInv, Types, tables, Moved, Worked
<1>2. \A d \in Creations \ {c} : creation'[d] = creation[d] /\ actor'[d] = actor[d]
  BY Zenon DEF Moved, Worked
<1>3. Progress'
  BY SMTT(30), <1>2 DEF RegistryInv, Progress, Moved, Worked, HandedOver
<1>4. \A d \in Creations \ {c} : Onward(d) /\ StillHeld(d)
  BY Zenon, <1>2 DEF Onward, StillHeld, WorkerDone, Holding, Retiring
<1>5. Onward(c) /\ StillHeld(c)
  <2>1. /\ creation'[c].step = step /\ creation'[c].name = creation[c].name
        /\ creation'[c].id = creation[c].id /\ actor'[c].worker = worker
    BY Zenon DEF Moved, Worked
  <2>2. creation[c].step \in {"reserved", "identified"} => actor[c].worker = "none"
    BY Zenon DEF RegistryInv, Progress
  <2>3. /\ WorkerDone(c) => WorkerDone(c)'
        /\ actor[c].worker # "none" => actor'[c].worker # "none"
    BY Zenon, <2>1, <2>2 DEF WorkerDone
  <2>4. Holding(c)' => Holding(c)
    BY Zenon, <2>1 DEF Holding, HandedOver
  <2>5. StillHeld(c)
    BY Zenon, <2>1, <2>2 DEF StillHeld, HandedOver
  <2>6. Retiring(c) => Retiring(c)'
    BY Zenon, <2>1 DEF Retiring, Moved, HandedOver
  <2> QED  BY Zenon, <2>1, <2>3, <2>4, <2>5, <2>6 DEF Onward, HandedOver
<1> QED  BY Zenon, <1>1, <1>3, <1>4, <1>5, SameTables

\* Starting the actor, failing before that, the store and the early load of
\* mark_registry_owned, asking for the end and the answer.
LEMMA ThreadSteps ==
  ASSUME RegistryInv, NEW c \in Creations,
         \/ Start(c) \/ FailBeforeStart(c) \/ MarkStore(c) \/ MarkLoadEarly(c)
         \/ EndOwned(c) \/ Answer(c)
  PROVE  RegistryInv'
<1>1. creation \in [Creations -> CreationRecords] /\ actor \in [Creations -> ActorRecords]
  BY Zenon DEF RegistryInv, Types
<1>2. creation[c].step = "marking" <=> creation[c].next # "none"
  BY Zenon DEF RegistryInv, Progress
<1>3. creation[c].step \in {"marking", "ending"} => actor[c].worker # "none"
  BY Zenon DEF RegistryInv, Progress
<1>4. CASE Start(c)
  <2>1. Moved(c, "started", creation[c].next, creation[c].name, creation[c].id)
    BY Zenon, <1>1, <1>4, CreationMoves DEF Start, Steps
  <2>2. Worked(c, "running")
    BY Zenon, <1>1, <1>4, ActorMoves DEF Start
  <2> QED  BY Zenon, <1>2, <1>4, <2>1, <2>2, ThreadKeeps DEF Start, Steps, Retiring
<1>5. CASE FailBeforeStart(c)
  <2>1. Moved(c, "failing", creation[c].next, creation[c].name, creation[c].id)
    BY Zenon, <1>1, <1>5, CreationMoves DEF FailBeforeStart, Steps
  <2>2. Worked(c, actor[c].worker)
    BY Zenon, <1>1, <1>5, ActorMoves DEF FailBeforeStart
  <2> QED  BY Zenon, <1>2, <1>5, <2>1, <2>2, ThreadKeeps DEF FailBeforeStart, Steps
<1>6. CASE MarkStore(c) \/ MarkLoadEarly(c)
  <2>1. Worked(c, actor[c].worker)
    BY Zenon, <1>1, <1>6, ActorMoves DEF MarkStore, MarkLoadEarly
  <2>2. creation[c].next \in {"registered", "failing", "ending"}
    BY Zenon, <1>1, <1>2, <1>6 DEF MarkStore, MarkLoadEarly, CreationRecords
  <2>3. \/ Moved(c, "marking", creation[c].next, creation[c].name, creation[c].id)
        \/ Moved(c, creation[c].next, "none", creation[c].name, creation[c].id)
    BY Zenon, <1>1, <1>6, <2>2, CreationMoves DEF MarkStore, MarkLoadEarly
  <2>4. creation[c].step = "marking" /\ UNCHANGED tables
    BY Zenon, <1>6 DEF MarkStore, MarkLoadEarly
  <2>5. CASE Moved(c, "marking", creation[c].next, creation[c].name, creation[c].id)
    BY Zenon, <1>2, <1>3, <2>1, <2>4, <2>5, ThreadKeeps DEF Steps, HandedOver, Retiring
  <2>6. CASE Moved(c, creation[c].next, "none", creation[c].name, creation[c].id)
    BY <1>2, <1>3, <2>1, <2>2, <2>4, <2>6, ThreadKeeps DEF Steps, HandedOver, Retiring
  <2> QED  BY Zenon, <2>3, <2>5, <2>6
<1>7. CASE EndOwned(c)
  <2>1. Moved(c, "answering", creation[c].next, creation[c].name, creation[c].id)
    BY Zenon, <1>1, <1>7, CreationMoves DEF EndOwned, Steps
  <2>2. Worked(c, actor[c].worker)
    BY Zenon, <1>1, <1>7, ActorMoves DEF EndOwned
  <2> QED  BY SMTT(30), <1>2, <1>7, <2>1, <2>2, ThreadKeeps DEF EndOwned, Steps, HandedOver, Retiring
<1>8. CASE Answer(c)
  <2>1. Moved(c, "done", creation[c].next, creation[c].name, creation[c].id)
    BY Zenon, <1>1, <1>8, CreationMoves DEF Answer, Steps
  <2>2. Worked(c, actor[c].worker)
    BY Zenon, <1>1, <1>8, ActorMoves DEF Answer
  <2> QED  BY <1>2, <1>8, <2>1, <2>2, ThreadKeeps DEF Answer, Steps, HandedOver, Retiring
<1> QED  BY Zenon, <1>4, <1>5, <1>6, <1>7, <1>8

\* The worker's own steps, its interrupt, a close and the steps of a stop
\* move no creation and take no worker out of being done.
LEMMA WorkersKeep ==
  ASSUME RegistryInv, UNCHANGED tables,
         creation' \in [Creations -> CreationRecords],
         actor' \in [Creations -> ActorRecords],
         \A d \in Creations :
           /\ creation'[d].step = creation[d].step
           /\ creation'[d].next = creation[d].next
           /\ creation'[d].name = creation[d].name
           /\ creation'[d].id = creation[d].id
           /\ \/ actor'[d].worker = actor[d].worker
              \/ /\ actor[d].worker \in {"running", "stored", "ended", "finalized"}
                 /\ actor'[d].worker \in {"stored", "ended", "finalized"}
  PROVE  RegistryInv'
<1>1. Types'
  BY Zenon DEF RegistryInv, Types, tables
<1>2. Progress'
  BY DEF RegistryInv, Progress
<1>3. \A d \in Creations : Onward(d) /\ StillHeld(d)
  BY DEF Onward, StillHeld, HandedOver, WorkerDone, Holding, Retiring
<1> QED  BY Zenon, <1>1, <1>2, <1>3, SameTables

-----------------------------------------------------------------------------
(* The steps that change the tables.                                       *)

\* Where a provisional entry stands.
LEMMA ProvisionalPlace ==
  ASSUME RegistryInv, NEW i \in Ids, provisional[i] # NoEntry
  PROVE  /\ provisional[i].by \in Creations
         /\ creation[provisional[i].by].id = i
         /\ creation[provisional[i].by].step \in HandedOver \ {"published"}
         /\ actor[provisional[i].by].worker # "none"
         /\ provisional[i].name = creation[provisional[i].by].name
         /\ provisional[i].name \in Names
         /\ slot[provisional[i].name] = Slot("starting", provisional[i].by, i)
         /\ reservation[i] = provisional[i].by
<1>1. /\ provisional[i].by \in Creations
      /\ creation[provisional[i].by].id = i
      /\ creation[provisional[i].by].step \in HandedOver \ {"published"}
      /\ actor[provisional[i].by].worker # "none"
      /\ provisional[i].name = creation[provisional[i].by].name
      /\ slot[provisional[i].name] = Slot("starting", provisional[i].by, i)
      /\ reservation[i] = provisional[i].by
  BY Zenon DEF RegistryInv, ProvisionalOwn
<1>2. provisional[i].name \in Names
  BY Zenon, <1>1 DEF RegistryInv, Progress, HandedOver
<1> QED  BY Zenon, <1>1, <1>2

\* Reserving a free name.
LEMMA ReserveKeeps ==
  ASSUME RegistryInv, NEW c \in Creations, NEW n \in Names, ReserveName(c, n)
  PROVE  RegistryInv'
<1> USE RegistryAssumption
<1>1. Moved(c, "reserved", creation[c].next, n, creation[c].id) /\ Worked(c, actor[c].worker)
  BY Zenon, CreationMoves, ActorMoves DEF RegistryInv, Types, ReserveName
<1>2. /\ creation'[c].step = "reserved" /\ creation'[c].next = creation[c].next
      /\ creation'[c].name = n /\ creation'[c].id = creation[c].id
      /\ \A d \in Creations \ {c} : creation'[d] = creation[d]
      /\ UNCHANGED actor
  BY Zenon, <1>1 DEF Moved, ReserveName
<1>3. /\ slot'[n] = Slot("starting", c, None)
      /\ \A m \in Names \ {n} : slot'[m] = slot[m]
      /\ slot[n] = NoSlot
      /\ UNCHANGED <<byId, provisional, cleanupOnly, reservation>>
  BY Zenon DEF RegistryInv, Types, ReserveName
<1>4. creation[c].step = "idle" /\ creation[c].id = None
  BY Zenon DEF RegistryInv, Progress, ReserveName
<1>5. Types'
  BY Zenon, <1>1 DEF RegistryInv, Types, ReserveName, Slot, Moved, Worked
<1>6. LiveOwn'
  BY <1>2, <1>3, <1>4 DEF RegistryInv, LiveOwn, NoSlot, Slot
<1>7. ProvisionalOwn'
  <2>1. ASSUME NEW i \in Ids, provisional[i] # NoEntry
        PROVE  provisional[i].by \in Creations \ {c} /\ provisional[i].name \in Names \ {n}
    <3>1. provisional[i].by # c
      BY Zenon, <1>4, <2>1, ProvisionalPlace DEF HandedOver
    <3>2. slot[provisional[i].name] # NoSlot
      <4>1. slot[provisional[i].name] = Slot("starting", provisional[i].by, i)
        BY Zenon, <2>1, ProvisionalPlace
      <4> QED  BY <4>1 DEF NoSlot, Slot
    <3> QED  BY Zenon, <1>3, <2>1, <3>1, <3>2, ProvisionalPlace
  <2> QED  BY <1>2, <1>3, <2>1 DEF RegistryInv, ProvisionalOwn
<1>8. NamesOwn'
  BY <1>2, <1>3, <1>4 DEF RegistryInv, NamesOwn, NameOwn, NoSlot, Slot
<1>9. CleanupDone'
  BY <1>2, <1>3, <1>4 DEF RegistryInv, Types, CleanupDone, WorkerDone, Retiring
<1>10. Progress'
  BY <1>2, <1>4 DEF RegistryInv, Progress
<1>11. StartingHeld'
  <2>1. HoldsStarting(c)'
    BY Zenon, <1>2, <1>3, <1>4 DEF HoldsStarting
  <2>2. ASSUME NEW d \in Creations \ {c}, Holding(d)'
        PROVE  HoldsStarting(d)'
    <3>1. Holding(d) /\ HoldsStarting(d)
      BY Zenon, <1>2, <2>2 DEF RegistryInv, StartingHeld, Holding
    <3>2. creation[d].name \in Names \ {n}
      BY <1>3, <3>1 DEF RegistryInv, Progress, Holding, HoldsStarting, NoSlot, Slot
    <3> QED  BY Zenon, <1>2, <1>3, <3>1, <3>2 DEF HoldsStarting
  <2> QED  BY Zenon, <2>1, <2>2 DEF StartingHeld
<1>12. RunningHeld'
  BY <1>2, <1>3, <1>4 DEF RegistryInv, RunningHeld, HandedOver
<1> QED  BY Zenon, <1>5, <1>6, <1>7, <1>8, <1>9, <1>10, <1>11, <1>12 DEF RegistryInv

\* Reserving an identity that nobody uses, for a creation that holds its name.
LEMMA IdentifyKeeps ==
  ASSUME RegistryInv, NEW c \in Creations, ReserveCreationSession(c)
  PROVE  RegistryInv'
<1> USE RegistryAssumption
<1>1. PICK i \in Ids \ Reserved :
        /\ ~IdInUse(i)
        /\ reservation' = [reservation EXCEPT ![i] = c]
        /\ slot' = [slot EXCEPT ![creation[c].name].id = i]
        /\ creation' = [creation EXCEPT ![c].step = "identified", ![c].id = i]
  BY Zenon DEF ReserveCreationSession
<1> DEFINE n == creation[c].name
<1>2. /\ Moved(c, "identified", creation[c].next, n, i)
      /\ Worked(c, actor[c].worker)
  BY Zenon, <1>1, CreationMoves, ActorMoves DEF RegistryInv, Types, ReserveCreationSession
<1>3. /\ creation'[c].step = "identified" /\ creation'[c].next = creation[c].next
      /\ creation'[c].name = n /\ creation'[c].id = i
      /\ \A d \in Creations \ {c} : creation'[d] = creation[d]
      /\ UNCHANGED actor
  BY Zenon, <1>2 DEF Moved, ReserveCreationSession
<1>4. /\ creation[c].step = "reserved" /\ creation[c].id = None /\ n \in Names
      /\ slot[n] = Slot("starting", c, None)
  BY Zenon DEF RegistryInv, Progress, ReserveCreationSession, HoldsStarting
<1>5. /\ slot'[n] = Slot("starting", c, i)
      /\ \A m \in Names \ {n} : slot'[m] = slot[m]
      /\ reservation'[i] = c /\ reservation[i] = None
      /\ \A j \in Ids \ {i} : reservation'[j] = reservation[j]
      /\ UNCHANGED <<byId, provisional, cleanupOnly>>
      /\ byId[i] = NoEntry /\ provisional[i] = NoEntry
  BY <1>1, <1>4 DEF RegistryInv, Types, ReserveCreationSession, Reserved, IdInUse, Slot
<1> HIDE DEF n
<1>6. Types'
  <2>1. slot' \in [Names -> [state : {"free", "starting", "live"},
                             by : Creations \cup {None}, id : Ids \cup {None}]]
    BY SMTT(30), <1>1, <1>4 DEF RegistryInv, Types, n
  <2> QED  BY Zenon, <1>1, <1>2, <1>5, <2>1 DEF RegistryInv, Types, Moved, Worked
<1>7. LiveOwn'
  <2>1. ASSUME NEW j \in Ids, byId[j] # NoEntry
        PROVE  byId[j].by # c /\ byId[j].name # n /\ j # i
    <3>1. /\ slot[byId[j].name] = Slot("live", byId[j].by, j)
          /\ creation[byId[j].by].step \in {"published", "done"}
      BY Zenon, <2>1 DEF RegistryInv, LiveOwn
    <3>2. slot[byId[j].name] # slot[n]
      BY <1>4, <3>1 DEF Slot
    <3> QED  BY Zenon, <1>4, <1>5, <2>1, <3>1, <3>2
  <2> QED  BY <1>3, <1>5, <2>1 DEF RegistryInv, LiveOwn
<1>8. ProvisionalOwn'
  <2>1. ASSUME NEW j \in Ids, provisional[j] # NoEntry
        PROVE  /\ provisional[j].by \in Creations \ {c}
               /\ provisional[j].name \in Names \ {n}
               /\ j # i
    <3>1. provisional[j].by # c
      BY Zenon, <1>4, <2>1, ProvisionalPlace DEF HandedOver
    <3>2. slot[provisional[j].name] = Slot("starting", provisional[j].by, j)
      BY Zenon, <2>1, ProvisionalPlace
    <3>3. slot[provisional[j].name] # slot[n]
      BY <1>4, <3>1, <3>2 DEF Slot
    <3> QED  BY Zenon, <1>5, <2>1, <3>1, <3>3, ProvisionalPlace
  <2> QED  BY <1>3, <1>5, <2>1 DEF RegistryInv, ProvisionalOwn
<1>9. NamesOwn'
  <2>1. ASSUME NEW m \in Names \ {n}, slot[m].state = "starting"
        PROVE  slot[m].by \in Creations \ {c} /\ slot[m].id # i
    BY <1>4, <1>5, <2>1 DEF RegistryInv, NamesOwn, NameOwn, n
  <2>2. ASSUME NEW m \in Names \ {n}
        PROVE  NameOwn(m)'
    <3>1. slot'[m] = slot[m]
      BY Zenon, <1>5
    <3>2. slot[m].id \in Ids \cup {None}
      BY Zenon DEF RegistryInv, Types
    <3> QED  BY <1>3, <1>5, <2>1, <3>1, <3>2 DEF RegistryInv, NamesOwn, NameOwn
  <2>3. /\ slot'[n].state = "starting" /\ slot'[n].by = c /\ slot'[n].id = i
    BY <1>5 DEF Slot
  <2> QED  BY <1>3, <1>4, <1>5, <2>2, <2>3 DEF NamesOwn, NameOwn
<1>10. CleanupDone'
  BY <1>3, <1>4, <1>5 DEF RegistryInv, Types, CleanupDone, WorkerDone, Retiring
<1>11. Progress'
  BY <1>3, <1>4 DEF RegistryInv, Progress
<1>12. StartingHeld'
  <2>1. HoldsStarting(c)'
    BY Zenon, <1>3, <1>5 DEF HoldsStarting
  <2>2. ASSUME NEW d \in Creations \ {c}, Holding(d)'
        PROVE  HoldsStarting(d)'
    <3>1. Holding(d) /\ HoldsStarting(d)
      BY Zenon, <1>3, <2>2 DEF RegistryInv, StartingHeld, Holding
    <3>2. creation[d].name \in Names \ {n}
      BY <1>4, <3>1 DEF RegistryInv, Progress, Holding, HoldsStarting, Slot
    <3> QED  BY <1>3, <1>5, <3>1, <3>2 DEF HoldsStarting
  <2> QED  BY Zenon, <2>1, <2>2 DEF StartingHeld
<1>13. RunningHeld'
  BY <1>3, <1>4, <1>5 DEF RegistryInv, RunningHeld, HandedOver
<1> QED  BY Zenon, <1>6, <1>7, <1>8, <1>9, <1>10, <1>11, <1>12, <1>13 DEF RegistryInv

\* Releasing the name and the identity of a creation that started no actor.
LEMMA ReleaseKeeps ==
  ASSUME RegistryInv, NEW c \in Creations, ReleaseCreation(c)
  PROVE  RegistryInv'
<1> USE RegistryAssumption
<1> DEFINE n == creation[c].name
           i == creation[c].id
<1>1. /\ creation[c].step = "failing" /\ actor[c].worker = "none"
      /\ n \in Names /\ i \in Ids \cup {None}
      /\ HoldsStarting(c) /\ slot[n] = Slot("starting", c, i)
  BY Zenon DEF RegistryInv, Types, CreationRecords, Progress, StartingHeld, Holding,
         HoldsStarting, ReleaseCreation
<1>2. Moved(c, "answering", creation[c].next, n, i) /\ Worked(c, actor[c].worker)
  BY Zenon, CreationMoves, ActorMoves DEF RegistryInv, Types, ReleaseCreation, Steps
<1>3. /\ creation'[c].step = "answering" /\ creation'[c].next = creation[c].next
      /\ creation'[c].name = n /\ creation'[c].id = i
      /\ \A d \in Creations \ {c} : creation'[d] = creation[d]
      /\ UNCHANGED actor
  BY Zenon, <1>2 DEF Moved, ReleaseCreation
<1>4. /\ slot'[n] = NoSlot
      /\ \A m \in Names \ {n} : slot'[m] = slot[m]
      /\ \A j \in Ids : reservation[j] # c => reservation'[j] = reservation[j]
      /\ UNCHANGED <<byId, provisional, cleanupOnly>>
  BY Zenon, <1>1 DEF RegistryInv, Types, ReleaseCreation, ReleasedSlots
<1>5. Types'
  <2>1. slot' \in [Names -> [state : {"free", "starting", "live"},
                             by : Creations \cup {None}, id : Ids \cup {None}]]
    BY Zenon, <1>1 DEF RegistryInv, Types, ReleaseCreation, ReleasedSlots, NoSlot
  <2> QED  BY Zenon, <1>2, <1>4, <2>1 DEF RegistryInv, Types, Moved, Worked, ReleaseCreation
<1> HIDE DEF n, i
<1>6. ASSUME NEW j \in Ids, byId[j] # NoEntry
      PROVE  byId[j].by # c /\ byId[j].name # n
  <2>1. /\ slot[byId[j].name] = Slot("live", byId[j].by, j)
        /\ creation[byId[j].by].step \in {"published", "done"}
    BY Zenon, <1>6 DEF RegistryInv, LiveOwn
  <2>2. slot[byId[j].name] # slot[n]
    BY <1>1, <2>1 DEF Slot
  <2> QED  BY Zenon, <1>1, <2>1, <2>2
<1>7. LiveOwn'
  BY <1>3, <1>4, <1>6 DEF RegistryInv, LiveOwn
<1>8. ASSUME NEW j \in Ids, provisional[j] # NoEntry
      PROVE  provisional[j].by \in Creations \ {c} /\ provisional[j].name \in Names \ {n}
  <2>1. provisional[j].by # c
    BY <1>1, <1>8, ProvisionalPlace
  <2>2. slot[provisional[j].name] = Slot("starting", provisional[j].by, j)
    BY Zenon, <1>8, ProvisionalPlace
  <2>3. slot[provisional[j].name] # slot[n]
    BY <1>1, <2>1, <2>2 DEF Slot
  <2> QED  BY Zenon, <1>8, <2>1, <2>3, ProvisionalPlace
<1>9. ProvisionalOwn'
  BY <1>3, <1>4, <1>8 DEF RegistryInv, ProvisionalOwn
<1>10. NamesOwn'
  <2>1. ASSUME NEW m \in Names \ {n}  PROVE  NameOwn(m)'
    <3>1. slot'[m] = slot[m] /\ NameOwn(m)
      BY Zenon, <1>4 DEF RegistryInv, NamesOwn
    <3>2. slot[m].state = "starting" => slot[m].by # c
      BY Zenon, <3>1 DEF NameOwn, n
    <3>3. slot[m].id \in Ids \cup {None}
      BY Zenon DEF RegistryInv, Types
    <3> QED  BY <1>3, <1>4, <3>1, <3>2, <3>3 DEF NameOwn
  <2>2. ASSUME NEW m \in Names, m = n  PROVE  NameOwn(m)'
    BY <1>4, <2>2 DEF NameOwn, NoSlot
  <2> QED  BY Zenon, <2>1, <2>2 DEF NamesOwn
<1>11. CleanupDone'
  BY <1>1, <1>3, <1>4 DEF RegistryInv, Types, CleanupDone, WorkerDone, Retiring
<1>12. Progress'
  BY <1>1, <1>3 DEF RegistryInv, Progress, n, i
<1>13. StartingHeld'
  <2>1. ~Holding(c)'
    BY Zenon, <1>3 DEF Holding
  <2>2. ASSUME NEW d \in Creations \ {c}, Holding(d)'
        PROVE  HoldsStarting(d)'
    <3>1. Holding(d) /\ HoldsStarting(d)
      BY Zenon, <1>3, <2>2 DEF RegistryInv, StartingHeld, Holding
    <3>2. creation[d].name \in Names \ {n}
      BY <1>1, <3>1 DEF RegistryInv, Progress, Holding, HoldsStarting, Slot
    <3> QED  BY Zenon, <1>3, <1>4, <3>1, <3>2 DEF HoldsStarting
  <2> QED  BY Zenon, <2>1, <2>2 DEF StartingHeld
<1>14. RunningHeld'
  BY <1>1, <1>3, <1>4 DEF RegistryInv, RunningHeld
<1> QED  BY Zenon, <1>5, <1>7, <1>9, <1>10, <1>11, <1>12, <1>13, <1>14 DEF RegistryInv

\* Entering the actor of a creation that holds its starting name.
LEMMA EnterKeeps ==
  ASSUME RegistryInv, NEW c \in Creations,
         NEW next \in {"registered", "failing", "ending"},
         NEW n, n = creation[c].name, NEW i, i = creation[c].id,
         creation[c].step \in {"started", "failing"}, actor[c].worker # "none",
         slot[n] = Slot("starting", c, i), reservation[i] = c,
         byId[i] = NoEntry, provisional[i] = NoEntry,
         provisional' \in [Ids -> Entries], provisional'[i] = Entry(c, n),
         \A j \in Ids \ {i} : provisional'[j] = provisional[j],
         Moved(c, "marking", next, n, i),
         UNCHANGED <<slot, byId, cleanupOnly, reservation, actor>>
  PROVE  RegistryInv'
<1> USE RegistryAssumption
<1>1. n \in Names /\ i \in Ids
  BY Zenon DEF RegistryInv, Progress
<1>3. /\ creation'[c].step = "marking" /\ creation'[c].next = next
      /\ creation'[c].name = n /\ creation'[c].id = i
      /\ \A d \in Creations \ {c} : creation'[d] = creation[d]
  BY Zenon DEF Moved
<1>6. Types'
  BY Zenon DEF RegistryInv, Types, Moved
<1>7. LiveOwn'
  <2>1. ASSUME NEW j \in Ids, byId[j] # NoEntry
        PROVE  byId[j].by # c /\ j # i
    BY Zenon, <2>1 DEF RegistryInv, LiveOwn
  <2> QED  BY <1>3, <2>1 DEF RegistryInv, LiveOwn
<1>8. ProvisionalOwn'
  <2>1. ASSUME NEW j \in Ids \ {i}, provisional[j] # NoEntry
        PROVE  provisional[j].by \in Creations \ {c}
    BY <2>1, ProvisionalPlace
  <2>2. provisional'[i].by = c /\ provisional'[i].name = n
    BY SMTT(30) DEF Entry
  <2>3. ASSUME NEW j \in Ids, j = i
        PROVE  /\ provisional'[j].by \in Creations
               /\ creation'[provisional'[j].by].id = j
               /\ creation'[provisional'[j].by].step \in HandedOver \ {"published"}
               /\ actor[provisional'[j].by].worker # "none"
               /\ provisional'[j].name = creation'[provisional'[j].by].name
               /\ slot[provisional'[j].name] = Slot("starting", provisional'[j].by, j)
               /\ reservation[j] = provisional'[j].by
    BY Zenon, <1>3, <2>2, <2>3 DEF HandedOver
  <2> QED  BY SMTT(30), <1>3, <2>1, <2>3 DEF RegistryInv, ProvisionalOwn
<1>9. NamesOwn'
  BY <1>3 DEF RegistryInv, NamesOwn, NameOwn
<1>10. CleanupDone'
  BY <1>3 DEF RegistryInv, Types, CleanupDone, WorkerDone, Retiring
<1>11. Progress'
  BY <1>1, <1>3 DEF RegistryInv, Progress
<1>12. StartingHeld'
  BY SMTT(30), <1>3 DEF RegistryInv, StartingHeld, Holding, HoldsStarting
<1>13. RunningHeld'
  <2>1. ASSUME NEW d \in Creations \ {c}, actor[d].worker = "running",
               creation[d].step \in HandedOver, provisional[creation[d].id].by = d
        PROVE  creation[d].id \in Ids \ {i}
    BY <2>1 DEF RegistryInv, Progress, NoEntry
  <2>2. provisional'[i].by = c
    BY DEF Entry
  <2> QED  BY <1>3, <2>1, <2>2 DEF RegistryInv, RunningHeld, HandedOver
<1> QED  BY Zenon, <1>6, <1>7, <1>8, <1>9, <1>10, <1>11, <1>12, <1>13 DEF RegistryInv

\* A creation whose actor is started, and not yet handed over, owns its place
\* alone: nothing is registered under its identity.
LEMMA StartedAlone ==
  ASSUME RegistryInv, NEW c \in Creations, creation[c].step = "started"
  PROVE  /\ c \notin Owned
         /\ creation[c].name \in Names /\ creation[c].id \in Ids
         /\ actor[c].worker # "none"
         /\ HoldsStarting(c) /\ reservation[creation[c].id] = c
         /\ byId[creation[c].id] = NoEntry /\ provisional[creation[c].id] = NoEntry
<1> USE RegistryAssumption
<1>1. /\ creation[c].name \in Names /\ creation[c].id \in Ids
      /\ actor[c].worker # "none" /\ HoldsStarting(c)
  BY Zenon DEF RegistryInv, Progress, StartingHeld, Holding
<1>2. /\ slot[creation[c].name].state = "starting" /\ slot[creation[c].name].by = c
      /\ slot[creation[c].name].id = creation[c].id
  BY <1>1 DEF HoldsStarting, Slot
<1>3. reservation[creation[c].id] = c
  BY <1>1, <1>2 DEF RegistryInv, NamesOwn, NameOwn
<1>4. \A i \in Ids : byId[i].by # c
  BY DEF RegistryInv, LiveOwn, NoEntry
<1>5. \A i \in Ids : provisional[i].by # c
  BY DEF RegistryInv, ProvisionalOwn, NoEntry, HandedOver
<1>6. \A e \in cleanupOnly : e.by # c
  BY Zenon DEF RegistryInv, CleanupDone, Retiring
<1>7. c \notin Owned
  BY Zenon, <1>4, <1>5, <1>6 DEF Owned
<1>8. byId[creation[c].id] = NoEntry /\ provisional[creation[c].id] = NoEntry
  BY <1>1, <1>3, <1>4, <1>5 DEF RegistryInv, LiveOwn, ProvisionalOwn
<1> QED  BY Zenon, <1>1, <1>3, <1>7, <1>8

\* Retaining beside the tables the actor of a creation whose worker is done.
LEMMA BesideKeeps ==
  ASSUME RegistryInv, NEW c \in Creations,
         creation[c].step = "failing", WorkerDone(c),
         Moved(c, "marking", "ending", creation[c].name, creation[c].id),
         cleanupOnly' = cleanupOnly \cup
           {[by |-> c, name |-> creation[c].name, id |-> creation[c].id]},
         UNCHANGED <<slot, byId, provisional, reservation, actor>>
  PROVE  RegistryInv'
<1>1. creation[c].name \in Names /\ creation[c].id \in Ids
  BY Zenon DEF RegistryInv, Progress, WorkerDone
<1>2. /\ creation'[c].step = "marking" /\ creation'[c].next = "ending"
      /\ creation'[c].name = creation[c].name /\ creation'[c].id = creation[c].id
      /\ \A d \in Creations \ {c} : creation'[d] = creation[d]
  BY Zenon DEF Moved
<1>3. Types'
  BY <1>1 DEF RegistryInv, Types, Moved
<1>4. LiveOwn'
  BY SMTT(30), <1>2 DEF RegistryInv, LiveOwn
<1>5. ProvisionalOwn'
  BY <1>2 DEF RegistryInv, ProvisionalOwn, HandedOver
<1>6. NamesOwn'
  BY <1>2 DEF RegistryInv, NamesOwn, NameOwn
<1>7. CleanupDone'
  BY <1>2 DEF RegistryInv, Types, CleanupDone, WorkerDone, Retiring
<1>8. Progress'
  BY <1>1, <1>2 DEF RegistryInv, Progress, WorkerDone
<1>9. StartingHeld'
  BY <1>2 DEF RegistryInv, StartingHeld, Holding, HoldsStarting
<1>10. RunningHeld'
  BY Zenon, <1>2 DEF RegistryInv, RunningHeld, HandedOver, WorkerDone
<1> QED  BY Zenon, <1>3, <1>4, <1>5, <1>6, <1>7, <1>8, <1>9, <1>10 DEF RegistryInv

\* Handing an actor to the registry, whether its registration succeeds or not.
LEMMA RegistrationKeeps ==
  ASSUME RegistryInv, NEW c \in Creations,
         RegisterProvisional(c) \/ RegisterFails(c) \/ CleanupOwned(c)
  PROVE  RegistryInv'
<1> USE RegistryAssumption
<1> DEFINE n == creation[c].name
           i == creation[c].id
<1>1. creation \in [Creations -> CreationRecords] /\ actor \in [Creations -> ActorRecords]
      /\ provisional \in [Ids -> Entries]
  BY Zenon DEF RegistryInv, Types
<1>2. n \in Names /\ i \in Ids
  BY Zenon DEF RegistryInv, Progress, RegisterProvisional, RegisterFails, CleanupOwned
<1>3. PICK next \in {"registered", "failing", "ending"} :
        /\ Moved(c, "marking", next, n, i)
        /\ creation[c].step = "failing" => next = "ending"
  BY Zenon, <1>1, CreationMoves DEF RegisterProvisional, RegisterFails, CleanupOwned
<1>4. /\ creation[c].step \in {"started", "failing"}
      /\ actor[c].worker # "none"
      /\ UNCHANGED <<slot, byId, reservation, actor>>
  BY Zenon, StartedAlone DEF RegisterProvisional, RegisterFails, CleanupOwned, Retain
<1>5. /\ provisional' = [provisional EXCEPT ![i] = Entry(c, n)] =>
           /\ provisional'[i] = Entry(c, n)
           /\ \A j \in Ids \ {i} : provisional'[j] = provisional[j]
           /\ provisional' \in [Ids -> Entries]
  BY <1>1, <1>2 DEF Entry, Entries
<1>6. ASSUME HoldsStarting(c), reservation[i] = c, byId[i] = NoEntry,
             provisional[i] = NoEntry, UNCHANGED cleanupOnly,
             provisional' = [provisional EXCEPT ![i] = Entry(c, n)]
      PROVE  RegistryInv'
  BY <1>3, <1>4, <1>5, <1>6, EnterKeeps DEF HoldsStarting
<1>7. CASE RegisterProvisional(c)
  BY Zenon, <1>6, <1>7, StartedAlone DEF RegisterProvisional
<1>8. CASE RegisterFails(c)
  BY Zenon, <1>6, <1>8, StartedAlone DEF RegisterFails, Retain
<1>9. CASE CleanupOwned(c)
  <2>1. CASE c \in Owned
    <3>1. UNCHANGED tables
      BY Zenon, <1>9, <2>1 DEF CleanupOwned, Retain, tables
    <3>2. Worked(c, actor[c].worker)
      BY Zenon, <1>1, <1>4, ActorMoves
    <3> QED  BY Zenon, <1>3, <1>4, <1>9, <3>1, <3>2, ThreadKeeps DEF CleanupOwned, Steps, HandedOver, Retiring
  <2>2. CASE c \notin Owned
    <3>1. provisional[i].by # c /\ byId[i].by # c
      BY Zenon, <1>2, <2>2 DEF Owned
    <3>2. actor[c].worker # "running"
      BY Zenon, <1>9, <3>1 DEF RegistryInv, RunningHeld, HandedOver, CleanupOwned
    <3>3. WorkerDone(c)
      BY Zenon, <1>1, <1>4, <3>2 DEF WorkerDone, ActorRecords
    <3>4. CASE HoldsStarting(c) /\ reservation[i] = c /\ byId[i] = NoEntry
               /\ provisional[i] = NoEntry
      BY Zenon, <1>6, <1>9, <2>2, <3>4 DEF CleanupOwned, Retain
    <3>5. CASE ~(HoldsStarting(c) /\ reservation[i] = c /\ byId[i] = NoEntry
                 /\ provisional[i] = NoEntry)
      <4>1. /\ cleanupOnly' = cleanupOnly \cup {[by |-> c, name |-> n, id |-> i]}
            /\ UNCHANGED provisional
        BY Zenon, <1>9, <2>2, <3>5 DEF CleanupOwned, Retain, Entry
      <4> QED  BY Zenon, <1>3, <1>4, <1>9, <3>3, <4>1, BesideKeeps DEF CleanupOwned
    <3> QED  BY Zenon, <3>4, <3>5
  <2> QED  BY Zenon, <2>1, <2>2
<1> QED  BY Zenon, <1>7, <1>8, <1>9

\* RegistryInner::complete takes from the tables what belongs to a worker that
\* is done, all of it, and nothing that belongs to another.
LEMMA CompleteKeeps ==
  ASSUME RegistryInv, NEW c \in Creations, WorkerDone(c),
         Complete(c, creation[c].id),
         creation' \in [Creations -> CreationRecords],
         actor' \in [Creations -> ActorRecords], Progress',
         \A d \in Creations : Onward(d) /\ StillHeld(d)
  PROVE  RegistryInv'
<1> USE RegistryAssumption
<1>1. CASE c \notin Owned
  <2>1. UNCHANGED tables
    BY Zenon, <1>1 DEF Complete
  <2>2. Types'
    BY Zenon, <2>1 DEF RegistryInv, Types, tables
  <2> QED  BY Zenon, <2>1, <2>2, SameTables
<1>2. CASE c \in Owned
  <2> DEFINE i == creation[c].id
             live == byId[i].by = c
             prov == ~live /\ provisional[i].by = c
             name == IF live THEN byId[i].name ELSE creation[c].name
  <2>1. i \in Ids /\ creation[c].name \in Names
    BY Zenon DEF RegistryInv, Progress, WorkerDone
  <2>2. name \in Names
    BY SMTT(30), <2>1 DEF RegistryInv, LiveOwn, NoEntry
  <2>3. /\ byId' = IF live THEN [byId EXCEPT ![i] = NoEntry] ELSE byId
        /\ provisional' =
             IF prov THEN [provisional EXCEPT ![i] = NoEntry] ELSE provisional
        /\ cleanupOnly' = IF live \/ prov THEN cleanupOnly
                          ELSE {e \in cleanupOnly : e.by # c}
        /\ slot' = IF slot[name].by = c /\ slot[name].id = i
                   THEN [slot EXCEPT ![name] = NoSlot] ELSE slot
        /\ reservation' = IF reservation[i] = c
                          THEN [reservation EXCEPT ![i] = None]
                          ELSE reservation
    BY Zenon, <1>2 DEF Complete
  <2> HIDE DEF name, live, prov, i
  <2>4. Types'
    <3>1. slot' \in [Names -> [state : {"free", "starting", "live"},
                               by : Creations \cup {None}, id : Ids \cup {None}]]
      BY Zenon, <2>1, <2>2, <2>3 DEF RegistryInv, Types, NoSlot
    <3>2. byId' \in [Ids -> Entries] /\ provisional' \in [Ids -> Entries]
      BY Zenon, <2>1, <2>3 DEF RegistryInv, Types, NoEntry, Entries
    <3>3. cleanupOnly' \subseteq cleanupOnly /\ reservation' \in [Ids -> Creations \cup {None}]
      BY Zenon, <2>1, <2>3 DEF RegistryInv, Types
    <3> QED  BY Zenon, <3>1, <3>2, <3>3 DEF RegistryInv, Types
  <2>5. ASSUME NEW j \in Ids, byId[j].by # c \/ byId[j] = NoEntry  PROVE  byId'[j] = byId[j]
    BY Zenon, <2>1, <2>3, <2>5 DEF RegistryInv, Types, live, NoEntry
  <2>6. ASSUME NEW j \in Ids, byId[j].by = c  PROVE  byId'[j] = NoEntry
    <3>1. j = i
      BY <2>6 DEF RegistryInv, LiveOwn, NoEntry, i
    <3> QED  BY Zenon, <2>1, <2>3, <2>6, <3>1 DEF RegistryInv, Types, live
  <2>7. ASSUME NEW j \in Ids, provisional[j].by # c  PROVE  provisional'[j] = provisional[j]
    BY Zenon, <2>1, <2>3, <2>7 DEF RegistryInv, Types, prov
  <2>8. ASSUME NEW j \in Ids, provisional[j].by = c  PROVE  provisional'[j] = NoEntry
    <3>1. j = i
      BY SMTT(30), <2>8 DEF RegistryInv, ProvisionalOwn, NoEntry, i
    <3>2. ~live
      BY SMTT(30), <2>8, <3>1 DEF RegistryInv, LiveOwn, NoEntry, live
    <3> QED  BY Zenon, <2>1, <2>3, <2>8, <3>1, <3>2 DEF RegistryInv, Types, prov
  <2>9. ASSUME NEW m \in Names, slot[m].by # c  PROVE  slot'[m] = slot[m]
    BY Zenon, <2>2, <2>3, <2>9 DEF RegistryInv, Types
  <2>10. ASSUME NEW m \in Names, slot[m].by = c, slot[m].state # "free"
         PROVE  slot'[m] = NoSlot
    <3>1. NameOwn(m) /\ slot[m].state \in {"starting", "live"}
          /\ slot[m].id \in Ids \cup {None}
      BY Zenon, <2>10 DEF RegistryInv, NamesOwn, Types
    <3>2. CASE slot[m].state = "starting"
      <4>1. m = creation[c].name /\ slot[m].id = i
        BY ZenonT(30), <2>10, <3>1, <3>2 DEF NameOwn, i
      <4>2. ~live
        BY SMTT(30), <2>1, <3>1, <3>2, <4>1 DEF NameOwn, live, NoEntry
      <4> QED  BY Zenon, <2>3, <2>10, <4>1, <4>2 DEF RegistryInv, Types, name
    <3>3. CASE slot[m].state = "live"
      <4>1. byId[slot[m].id].by = c /\ byId[slot[m].id].name = m /\ slot[m].id \in Ids
        BY SMTT(30), <2>10, <3>1, <3>3 DEF NameOwn, Entry
      <4>2. slot[m].id = i
        BY <4>1 DEF RegistryInv, LiveOwn, NoEntry, i
      <4> QED  BY Zenon, <2>3, <2>10, <4>1, <4>2 DEF RegistryInv, Types, name, live
    <3> QED  BY Zenon, <3>1, <3>2, <3>3
  <2>11. ASSUME NEW j \in Ids, reservation[j] # c  PROVE  reservation'[j] = reservation[j]
    BY Zenon, <2>1, <2>3, <2>11 DEF RegistryInv, Types
  <2>12. cleanupOnly' \subseteq cleanupOnly
    BY Zenon, <2>3
  <2>13. LiveOwn'
    <3>1. ASSUME NEW j \in Ids, byId'[j] # NoEntry
          PROVE  /\ byId'[j] = byId[j] /\ byId[j].by \in Creations \ {c}
                 /\ byId[j].name \in Names
                 /\ creation'[byId[j].by].id = j
                 /\ creation'[byId[j].by].step \in {"published", "done"}
                 /\ slot'[byId[j].name] = Slot("live", byId[j].by, j)
                 /\ reservation'[j] = byId[j].by
                 /\ provisional'[j] = NoEntry
      <4>1. byId[j].by # c /\ byId'[j] = byId[j]
        BY Zenon, <2>5, <2>6, <3>1
      <4>2. /\ byId[j].by \in Creations /\ byId[j].name \in Names
            /\ creation[byId[j].by].id = j
            /\ creation[byId[j].by].step \in {"published", "done"}
            /\ slot[byId[j].name] = Slot("live", byId[j].by, j)
            /\ reservation[j] = byId[j].by
            /\ provisional[j] = NoEntry
        BY Zenon, <3>1, <4>1 DEF RegistryInv, LiveOwn
      <4>3. slot[byId[j].name].by # c /\ provisional[j].by # c
        BY SMTT(30), <4>1, <4>2 DEF Slot, NoEntry
      <4> QED  BY Zenon, <2>7, <2>9, <2>11, <4>1, <4>2, <4>3 DEF Onward
    <3> QED  BY Zenon, <3>1 DEF LiveOwn
  <2>14. ProvisionalOwn'
    <3>1. ASSUME NEW j \in Ids, provisional'[j] # NoEntry
          PROVE  /\ provisional'[j] = provisional[j]
                 /\ provisional[j].by \in Creations
                 /\ creation'[provisional[j].by].id = j
                 /\ creation'[provisional[j].by].step \in HandedOver \ {"published"}
                 /\ actor'[provisional[j].by].worker # "none"
                 /\ provisional[j].name = creation'[provisional[j].by].name
                 /\ slot'[provisional[j].name] = Slot("starting", provisional[j].by, j)
                 /\ reservation'[j] = provisional[j].by
      <4>1. provisional[j].by # c /\ provisional'[j] = provisional[j]
        BY Zenon, <2>7, <2>8, <3>1
      <4>2. /\ provisional[j].by \in Creations /\ provisional[j].name \in Names
            /\ slot[provisional[j].name] = Slot("starting", provisional[j].by, j)
            /\ reservation[j] = provisional[j].by
        BY ZenonT(30), <3>1, <4>1, ProvisionalPlace
      <4>3. slot[provisional[j].name].by # c
        BY SMTT(30), <4>1, <4>2 DEF Slot
      <4>4. slot'[provisional[j].name] = slot[provisional[j].name]
            /\ reservation'[j] = reservation[j]
        BY Zenon, <2>9, <2>11, <4>1, <4>2, <4>3
      <4> QED  BY <3>1, <4>1, <4>2, <4>4, ProvisionalPlace DEF Onward
    <3> QED  BY SMTT(30), <3>1 DEF ProvisionalOwn
  <2>15. NamesOwn'
    <3>1. ASSUME NEW m \in Names  PROVE  NameOwn(m)'
      <4>0. NameOwn(m) /\ slot[m].state \in {"free", "starting", "live"}
            /\ slot[m].id \in Ids \cup {None}
        BY Zenon DEF RegistryInv, NamesOwn, Types
      <4>1. CASE slot'[m] = NoSlot
        BY <4>1 DEF NameOwn, NoSlot
      <4>2. CASE slot'[m] # NoSlot
        <5>1. slot[m].state # "free" /\ slot[m].by # c /\ slot'[m] = slot[m]
          BY SMTT(30), <2>9, <2>10, <4>0, <4>2 DEF NameOwn, NoSlot
        <5>2. CASE slot[m].state = "starting"
          BY SMTT(30), <2>5, <2>11, <4>0, <5>1, <5>2 DEF NameOwn, Onward, NoEntry
        <5>3. CASE slot[m].state = "live"
          <6>1. byId[slot[m].id].by = slot[m].by
            BY <4>0, <5>3 DEF NameOwn, Entry
          <6> QED  BY Zenon, <2>5, <4>0, <5>1, <5>3, <6>1 DEF NameOwn
        <5> QED  BY Zenon, <4>0, <5>1, <5>2, <5>3
      <4> QED  BY Zenon, <4>1, <4>2
    <3> QED  BY Zenon, <3>1 DEF NamesOwn
  <2>16. CleanupDone'
    <3>1. ASSUME NEW e \in cleanupOnly'
          PROVE  WorkerDone(e.by)' /\ Retiring(e.by)'
      <4>1. e \in cleanupOnly /\ e.by \in Creations
        BY <2>12 DEF RegistryInv, Types
      <4> QED  BY <4>1, Zenon DEF RegistryInv, CleanupDone, Onward
    <3> QED  BY <3>1, Zenon DEF CleanupDone
  <2>17. StartingHeld'
    <3>1. ASSUME NEW d \in Creations, Holding(d)'  PROVE  HoldsStarting(d)'
      <4>1. Holding(d) /\ HoldsStarting(d)
        BY ZenonT(30), <3>1 DEF Onward, RegistryInv, StartingHeld
      <4>2. d # c
        BY SMTT(30), <1>2, <4>1, StartedAlone DEF RegistryInv, Progress, Holding, WorkerDone
      <4>3. creation[d].name \in Names
        BY ZenonT(30), <4>1 DEF RegistryInv, Progress, Holding
      <4>4. slot[creation[d].name].by # c
        BY SMTT(30), <4>1, <4>2 DEF HoldsStarting, Slot
      <4> QED  BY Zenon, <2>9, <4>1, <4>3, <4>4 DEF HoldsStarting, Onward
    <3> QED  BY Zenon, <3>1 DEF StartingHeld
  <2>18. RunningHeld'
    <3>1. ASSUME NEW d \in Creations, actor'[d].worker = "running"  PROVE  d # c
      BY Zenon, <3>1 DEF Onward, WorkerDone
    <3>2. ASSUME NEW d \in Creations, actor'[d].worker = "running",
                 creation'[d].step \in HandedOver
          PROVE  /\ provisional'[creation[d].id].by = d \/ byId'[creation[d].id].by = d
                 /\ creation'[d].step = "published" => byId'[creation[d].id].by = d
      <4>1. /\ actor[d].worker = "running" /\ creation[d].step \in HandedOver
            /\ creation'[d].step = "published" => creation[d].step = "published"
        BY Zenon, <3>2 DEF StillHeld
      <4>2. creation[d].id \in Ids
        BY Zenon, <4>1 DEF RegistryInv, Progress
      <4>3. /\ \/ provisional[creation[d].id].by = d
               \/ byId[creation[d].id].by = d
            /\ creation[d].step = "published" => byId[creation[d].id].by = d
        BY Zenon, <4>1 DEF RegistryInv, RunningHeld
      <4> QED  BY Zenon, <2>5, <2>7, <3>1, <3>2, <4>1, <4>2, <4>3
    <3> QED  BY Zenon, <3>2 DEF RunningHeld, Onward, HandedOver
  <2> QED  BY Zenon, <2>4, <2>13, <2>14, <2>15, <2>16, <2>17, <2>18 DEF RegistryInv
<1> QED  BY Zenon, <1>1, <1>2

\* Publishing the name of an actor that is still registered, or refusing to.
LEMMA PublishKeeps ==
  ASSUME RegistryInv, NEW c \in Creations, PublishName(c)
  PROVE  RegistryInv'
<1> USE RegistryAssumption
<1> DEFINE n == creation[c].name
           i == creation[c].id
<1>0. creation \in [Creations -> CreationRecords] /\ actor \in [Creations -> ActorRecords]
  BY Zenon DEF RegistryInv, Types
<1>1. /\ creation[c].step = "registered" /\ actor[c].worker # "none"
      /\ n \in Names /\ i \in Ids /\ creation[c].next = "none"
      /\ UNCHANGED <<cleanupOnly, reservation, actor>>
  BY Zenon DEF RegistryInv, Progress, PublishName
<1>2. CASE Step(c, "failing") /\ UNCHANGED <<provisional, slot, byId>>
  <2>1. Moved(c, "failing", creation[c].next, n, i) /\ Worked(c, actor[c].worker)
    BY Zenon, <1>0, <1>1, <1>2, CreationMoves, ActorMoves DEF Steps
  <2>2. UNCHANGED tables
    BY Zenon, <1>1, <1>2 DEF tables
  <2> QED  BY Zenon, <1>1, <2>1, <2>2, ThreadKeeps DEF Steps, HandedOver, Retiring
<1>3. CASE /\ HoldsStarting(c)
           /\ provisional[i].by = c
           /\ provisional' = [provisional EXCEPT ![i] = NoEntry]
           /\ slot' = [slot EXCEPT ![n] = Slot("live", c, i)]
           /\ byId' = [byId EXCEPT ![i] = Entry(c, n)]
           /\ Step(c, "published")
  <2>1. Moved(c, "published", creation[c].next, n, i)
    BY Zenon, <1>0, <1>3, CreationMoves DEF Steps
  <2>2. /\ creation'[c].step = "published" /\ creation'[c].next = "none"
        /\ creation'[c].name = n /\ creation'[c].id = i
        /\ \A d \in Creations \ {c} : creation'[d] = creation[d]
    BY Zenon, <1>1, <2>1 DEF Moved
  <2>3. /\ provisional'[i] = NoEntry /\ slot'[n] = Slot("live", c, i)
        /\ byId'[i] = Entry(c, n)
        /\ \A j \in Ids \ {i} : provisional'[j] = provisional[j] /\ byId'[j] = byId[j]
        /\ \A m \in Names \ {n} : slot'[m] = slot[m]
    BY Zenon, <1>1, <1>3 DEF RegistryInv, Types
  <2>4. Types'
    BY Zenon, <1>1, <1>3, <2>1 DEF RegistryInv, Types, Moved, Slot, Entry, NoEntry, Entries
  <2>5. slot[n] = Slot("starting", c, i) /\ provisional[i].by = c
    BY Zenon, <1>3 DEF HoldsStarting
  <2>6. reservation[i] = c
    BY <1>1, <2>5, ProvisionalPlace DEF NoEntry
  <2>7. slot[n].state = "starting" /\ slot[n].by = c /\ slot[n].id = i
    BY <2>5 DEF Slot
  <2> HIDE DEF n, i
  <2>8. LiveOwn'
    <3>1. ASSUME NEW j \in Ids \ {i}, byId[j] # NoEntry
          PROVE  byId[j].by \in Creations \ {c} /\ byId[j].name \in Names \ {n}
      <4>1. /\ slot[byId[j].name] = Slot("live", byId[j].by, j)
            /\ byId[j].by \in Creations /\ byId[j].name \in Names
            /\ creation[byId[j].by].id = j
        BY Zenon, <3>1 DEF RegistryInv, LiveOwn
      <4>2. slot[byId[j].name].state = "live"
        BY <4>1 DEF Slot
      <4> QED  BY Zenon, <2>7, <4>1, <4>2 DEF i
    <3>2. byId'[i].by = c /\ byId'[i].name = n
      BY <2>3 DEF Entry
    <3>3. ASSUME NEW j \in Ids, j = i
          PROVE  /\ byId'[j].by \in Creations /\ byId'[j].name \in Names
                 /\ creation'[byId'[j].by].id = j
                 /\ creation'[byId'[j].by].step \in {"published", "done"}
                 /\ slot'[byId'[j].name] = Slot("live", byId'[j].by, j)
                 /\ reservation'[j] = byId'[j].by
                 /\ provisional'[j] = NoEntry
      BY Zenon, <1>1, <2>2, <2>3, <2>6, <3>2, <3>3
    <3>4. ASSUME NEW j \in Ids \ {i}, byId'[j] # NoEntry
          PROVE  /\ byId'[j].by \in Creations /\ byId'[j].name \in Names
                 /\ creation'[byId'[j].by].id = j
                 /\ creation'[byId'[j].by].step \in {"published", "done"}
                 /\ slot'[byId'[j].name] = Slot("live", byId'[j].by, j)
                 /\ reservation'[j] = byId'[j].by
                 /\ provisional'[j] = NoEntry
      BY SMTT(30), <1>1, <2>2, <2>3, <3>1, <3>4 DEF RegistryInv, LiveOwn
    <3> QED  BY Zenon, <3>3, <3>4 DEF LiveOwn
  <2>9. ProvisionalOwn'
    <3>1. ASSUME NEW j \in Ids \ {i}, provisional[j] # NoEntry
          PROVE  provisional[j].by \in Creations \ {c} /\ provisional[j].name \in Names \ {n}
      <4>1. /\ slot[provisional[j].name] = Slot("starting", provisional[j].by, j)
            /\ provisional[j].by \in Creations /\ provisional[j].name \in Names
            /\ creation[provisional[j].by].id = j
        BY Zenon, <3>1, ProvisionalPlace
      <4>2. slot[provisional[j].name].by = provisional[j].by
        BY <4>1 DEF Slot
      <4> QED  BY Zenon, <2>7, <4>1, <4>2 DEF i
    <3> QED  BY <1>1, <2>2, <2>3, <3>1 DEF RegistryInv, ProvisionalOwn
  <2>10. NamesOwn'
    <3>1. ASSUME NEW m \in Names, m = n  PROVE  NameOwn(m)'
      <4>1. slot'[m].state = "live" /\ slot'[m].by = c /\ slot'[m].id = i
        BY <2>3, <3>1 DEF Slot
      <4> QED  BY Zenon, <1>1, <2>3, <3>1, <4>1 DEF NameOwn
    <3>2. ASSUME NEW m \in Names \ {n}  PROVE  NameOwn(m)'
      <4>1. slot'[m] = slot[m] /\ NameOwn(m) /\ slot[m].id \in Ids \cup {None}
        BY Zenon, <2>3 DEF RegistryInv, NamesOwn, Types
      <4>2. slot[m].state = "starting" => slot[m].by # c /\ slot[m].id # i
        BY Zenon, <1>1, <2>6, <4>1 DEF NameOwn, n
      <4>3. slot[m].state = "live" => slot[m].id # i
        <5>1. SUFFICES ASSUME slot[m].state = "live", slot[m].id = i  PROVE FALSE
          BY Zenon
        <5>2. byId[i] = Entry(slot[m].by, m) /\ byId[i] # NoEntry
          BY <4>1, <5>1 DEF NameOwn, Entry, NoEntry
        <5>3. provisional[i] = NoEntry
          BY Zenon, <1>1, <5>2 DEF RegistryInv, LiveOwn
        <5> QED  BY <2>5, <5>3 DEF NoEntry
      <4> QED  BY SMTT(30), <1>1, <2>2, <2>3, <4>1, <4>2, <4>3 DEF NameOwn
    <3> QED  BY Zenon, <3>1, <3>2 DEF NamesOwn
  <2>11. CleanupDone'
    <3>1. ASSUME NEW e \in cleanupOnly  PROVE e.by \in Creations \ {c}
      BY Zenon, <1>1 DEF RegistryInv, Types, CleanupDone, Retiring
    <3> QED  BY <1>1, <2>2, <3>1 DEF RegistryInv, CleanupDone, WorkerDone, Retiring
  <2>12. Progress'
    BY <1>1, <2>2 DEF RegistryInv, Progress
  <2>13. StartingHeld'
    <3>1. ~Holding(c)'
      BY Zenon, <2>2 DEF Holding
    <3>2. ASSUME NEW d \in Creations \ {c}, Holding(d)'
          PROVE  HoldsStarting(d)'
      <4>1. Holding(d) /\ HoldsStarting(d)
        BY Zenon, <1>1, <2>2, <3>2 DEF RegistryInv, StartingHeld, Holding
      <4>2. creation[d].name \in Names \ {n}
        BY <2>7, <4>1 DEF RegistryInv, Progress, Holding, HoldsStarting, Slot
      <4> QED  BY <2>2, <2>3, <4>1, <4>2 DEF HoldsStarting
    <3> QED  BY Zenon, <3>1, <3>2 DEF StartingHeld
  <2>14. RunningHeld'
    <3>1. ASSUME NEW d \in Creations \ {c}, actor[d].worker = "running",
                 creation[d].step \in HandedOver
          PROVE  creation[d].id \in Ids \ {i}
      <4>1. creation[d].id \in Ids
        BY Zenon, <3>1 DEF RegistryInv, Progress
      <4>2. provisional[creation[d].id].by = d \/ byId[creation[d].id].by = d
        BY ZenonT(30), <3>1 DEF RegistryInv, RunningHeld
      <4>3. reservation[creation[d].id] = d
        BY <4>1, <4>2 DEF RegistryInv, LiveOwn, ProvisionalOwn, NoEntry
      <4> QED  BY Zenon, <2>6, <4>1, <4>3
    <3>2. byId'[i].by = c
      BY <2>3 DEF Entry
    <3> QED  BY SMTT(30), <1>1, <2>2, <2>3, <3>1, <3>2 DEF RegistryInv, RunningHeld, HandedOver
  <2> QED  BY Zenon, <2>4, <2>8, <2>9, <2>10, <2>11, <2>12, <2>13, <2>14 DEF RegistryInv
<1> QED  BY Zenon, <1>2, <1>3 DEF PublishName

\* The read of worker_done, and the worker's finalizer: whoever comes second
\* completes the actor.
LEMMA CompletersKeep ==
  ASSUME RegistryInv, NEW c \in Creations, MarkLoad(c) \/ Finalize(c)
  PROVE  RegistryInv'
<1>1. creation \in [Creations -> CreationRecords] /\ actor \in [Creations -> ActorRecords]
  BY Zenon DEF RegistryInv, Types
<1>2. CASE MarkLoad(c)
  <2>1. /\ creation[c].step = "marking" /\ actor[c].worker # "none"
        /\ creation[c].next \in {"registered", "failing", "ending"}
    BY Zenon, <1>1, <1>2 DEF RegistryInv, Progress, CreationRecords, MarkLoad
  <2>2. /\ Moved(c, creation[c].next, "none", creation[c].name, creation[c].id)
        /\ Worked(c, actor[c].worker)
    BY Zenon, <1>1, <1>2, <2>1, CreationMoves, ActorMoves DEF MarkLoad
  <2>3. CASE UNCHANGED tables
    BY <2>1, <2>2, <2>3, ThreadKeeps DEF Steps, HandedOver, Retiring
  <2>4. CASE WorkerDone(c) /\ Complete(c, creation[c].id)
    <3>1. /\ creation'[c].step = creation[c].next /\ creation'[c].next = "none"
          /\ creation'[c].name = creation[c].name /\ creation'[c].id = creation[c].id
          /\ \A d \in Creations \ {c} : creation'[d] = creation[d]
          /\ UNCHANGED actor
      BY Zenon, <1>2, <2>2 DEF Moved, MarkLoad
    <3>2. Progress'
      BY <2>1, <3>1 DEF RegistryInv, Progress
    <3>3. \A d \in Creations \ {c} : Onward(d) /\ StillHeld(d)
      BY Zenon, <3>1 DEF Onward, StillHeld, WorkerDone, Holding, Retiring
    <3>4. Onward(c) /\ StillHeld(c)
      BY Zenon, <2>1, <2>4, <3>1 DEF Onward, StillHeld, WorkerDone, Holding, Retiring, HandedOver
    <3> QED  BY Zenon, <1>1, <2>2, <2>4, <3>1, <3>2, <3>3, <3>4, CompleteKeeps DEF Moved
  <2> QED  BY Zenon, <1>2, <2>3, <2>4 DEF MarkLoad
<1>3. CASE Finalize(c)
  <2>1. actor[c].worker = "ended" /\ Worked(c, "finalized") /\ UNCHANGED creation
    BY Zenon, <1>1, <1>3, ActorMoves DEF Finalize
  <2>2. actor'[c].worker = "finalized" /\ \A d \in Creations \ {c} : actor'[d] = actor[d]
    BY Zenon, <2>1 DEF Worked
  <2>3. CASE UNCHANGED tables
    BY Zenon, <1>1, <2>1, <2>2, <2>3, WorkersKeep DEF Worked
  <2>4. CASE Complete(c, creation[c].id)
    <3>1. Progress'
      BY <2>1, <2>2 DEF RegistryInv, Progress
    <3>2. \A d \in Creations : Onward(d) /\ StillHeld(d)
      BY Zenon, <2>1, <2>2 DEF Onward, StillHeld, WorkerDone, Holding, Retiring
    <3>3. WorkerDone(c)
      BY Zenon, <2>1 DEF WorkerDone
    <3> QED  BY Zenon, <1>1, <2>1, <2>4, <3>1, <3>2, <3>3, CompleteKeeps DEF Worked
  <2> QED  BY Zenon, <1>3, <2>3, <2>4 DEF Finalize
<1> QED  BY Zenon, <1>2, <1>3

\* A rename moves the name of a live entry, and only that.
LEMMA RenameKeeps ==
  ASSUME RegistryInv, NEW i \in Ids, NEW new \in Names, Rename(i, new)
  PROVE  RegistryInv'
<1> USE RegistryAssumption
<1> DEFINE c == byId[i].by
           old == byId[i].name
<1>1. /\ c \in Creations /\ old \in Names /\ byId[i] # NoEntry
      /\ slot[old] = Slot("live", c, i) /\ slot[new] = NoSlot
      /\ UNCHANGED <<provisional, cleanupOnly, reservation, creation, actor>>
  BY Zenon DEF RegistryInv, LiveOwn, Rename
<1>2. new # old
  BY <1>1 DEF Slot, NoSlot
<1>3. /\ slot'[old] = NoSlot /\ slot'[new] = Slot("live", c, i)
      /\ \A m \in Names \ {old, new} : slot'[m] = slot[m]
      /\ byId'[i].by = c /\ byId'[i].name = new
      /\ byId'[i] = Entry(c, new)
      /\ \A j \in Ids \ {i} : byId'[j] = byId[j]
  BY <1>1, <1>2 DEF RegistryInv, Types, Entries, Rename, MovedName, Entry
<1>4. Types'
  <2>1. slot' \in [Names -> [state : {"free", "starting", "live"},
                             by : Creations \cup {None}, id : Ids \cup {None}]]
    BY Zenon, <1>1 DEF RegistryInv, Types, Rename, MovedName, NoSlot, Slot
  <2>2. byId' \in [Ids -> Entries]
    BY DEF RegistryInv, Types, Rename, Entries
  <2> QED  BY Zenon, <1>1, <2>1, <2>2 DEF RegistryInv, Types
<1> HIDE DEF c, old
<1>5. /\ slot[old].state = "live" /\ slot[old].by = c /\ slot[old].id = i
      /\ slot[new].state = "free"
  BY <1>1 DEF Slot, NoSlot
<1>6. LiveOwn'
  <2>1. ASSUME NEW j \in Ids \ {i}, byId'[j] # NoEntry
        PROVE  /\ byId'[j].by \in Creations /\ byId'[j].name \in Names
               /\ creation'[byId'[j].by].id = j
               /\ creation'[byId'[j].by].step \in {"published", "done"}
               /\ slot'[byId'[j].name] = Slot("live", byId'[j].by, j)
               /\ reservation'[j] = byId'[j].by
               /\ provisional'[j] = NoEntry
    <3>1. /\ byId'[j] = byId[j] /\ byId[j] # NoEntry
      BY Zenon, <1>3, <2>1
    <3>2. /\ byId[j].by \in Creations /\ byId[j].name \in Names
          /\ creation[byId[j].by].id = j
          /\ creation[byId[j].by].step \in {"published", "done"}
          /\ slot[byId[j].name] = Slot("live", byId[j].by, j)
          /\ reservation[j] = byId[j].by
          /\ provisional[j] = NoEntry
      BY Zenon, <3>1 DEF RegistryInv, LiveOwn
    <3>3. slot[byId[j].name].state = "live" /\ slot[byId[j].name].id = j
      BY SMTT(30), <3>2 DEF Slot
    <3>4. byId[j].name \in Names \ {old, new}
      BY Zenon, <1>5, <3>2, <3>3
    <3> QED  BY <1>1, <1>3, <3>1, <3>2, <3>4
  <2>2. ASSUME NEW j \in Ids, j = i
        PROVE  /\ byId'[j].by \in Creations /\ byId'[j].name \in Names
               /\ creation'[byId'[j].by].id = j
               /\ creation'[byId'[j].by].step \in {"published", "done"}
               /\ slot'[byId'[j].name] = Slot("live", byId'[j].by, j)
               /\ reservation'[j] = byId'[j].by
               /\ provisional'[j] = NoEntry
    BY ZenonT(30), <1>1, <1>3, <2>2 DEF RegistryInv, LiveOwn, c
  <2> QED  BY Zenon, <2>1, <2>2 DEF LiveOwn
<1>7. ProvisionalOwn'
  <2>1. ASSUME NEW j \in Ids, provisional[j] # NoEntry
        PROVE  provisional[j].name \in Names \ {old, new}
    <3>1. slot[provisional[j].name] = Slot("starting", provisional[j].by, j)
          /\ provisional[j].name \in Names
      BY Zenon, <2>1, ProvisionalPlace
    <3>2. slot[provisional[j].name].state = "starting"
      BY <3>1 DEF Slot
    <3> QED  BY Zenon, <1>5, <3>1, <3>2
  <2> QED  BY SMTT(30), <1>1, <1>3, <2>1 DEF RegistryInv, ProvisionalOwn
<1>8. NamesOwn'
  <2>1. ASSUME NEW m \in Names, m = new  PROVE  NameOwn(m)'
    <3>1. slot'[m].state = "live" /\ slot'[m].by = c /\ slot'[m].id = i
      BY SMTT(30), <1>3, <2>1 DEF Slot
    <3> QED  BY Zenon, <1>3, <2>1, <3>1 DEF NameOwn
  <2>2. ASSUME NEW m \in Names, m = old  PROVE  NameOwn(m)'
    <3>1. slot'[m] = NoSlot
      BY Zenon, <1>3, <2>2
    <3> QED  BY SMTT(30), <3>1 DEF NameOwn, NoSlot
  <2>3. ASSUME NEW m \in Names \ {old, new}  PROVE  NameOwn(m)'
    <3>1. slot'[m] = slot[m] /\ NameOwn(m) /\ slot[m].id \in Ids \cup {None}
      BY ZenonT(30), <1>3 DEF RegistryInv, NamesOwn, Types
    <3>2. slot[m].state = "live" => slot[m].id # i
      BY <3>1 DEF NameOwn, Entry, old
    <3>3. slot[m].state = "starting" => slot[m].id # i
      BY Zenon, <1>1, <3>1 DEF NameOwn
    <3> QED  BY <1>1, <1>3, <3>1, <3>2, <3>3 DEF NameOwn
  <2> QED  BY Zenon, <2>1, <2>2, <2>3 DEF NamesOwn
<1>9. CleanupDone' /\ Progress'
  BY Zenon, <1>1 DEF RegistryInv, CleanupDone, Progress, WorkerDone, Retiring
<1>10. StartingHeld'
  <2>1. ASSUME NEW d \in Creations, Holding(d)'  PROVE  HoldsStarting(d)'
    <3>1. HoldsStarting(d) /\ creation[d].name \in Names
      BY Zenon, <1>1, <2>1 DEF RegistryInv, StartingHeld, Progress, Holding
    <3>2. slot[creation[d].name].state = "starting"
      BY <3>1 DEF HoldsStarting, Slot
    <3>3. creation[d].name \in Names \ {old, new}
      BY Zenon, <1>5, <3>1, <3>2
    <3> QED  BY Zenon, <1>1, <1>3, <3>1, <3>3 DEF HoldsStarting
  <2> QED  BY Zenon, <2>1 DEF StartingHeld
<1>11. RunningHeld'
  <2>1. \A j \in Ids : byId'[j].by = byId[j].by
    BY Zenon, <1>3 DEF c
  <2> QED  BY Zenon, <1>1, <2>1 DEF RegistryInv, RunningHeld, Progress
<1> QED  BY Zenon, <1>4, <1>6, <1>7, <1>8, <1>9, <1>10, <1>11 DEF RegistryInv

-----------------------------------------------------------------------------
(* Every step keeps the invariant, and what it implies.                    *)

\* The steps of workers, of their interrupts and of closes.
LEMMA ActorSteps ==
  ASSUME RegistryInv, NEW c \in Creations,
         \/ WorkerStops(c) \/ FinishEnd(c) \/ FinishInterrupt(c)
         \/ \E i \in Ids : Close(i)
  PROVE  RegistryInv'
<1>1. creation \in [Creations -> CreationRecords] /\ actor \in [Creations -> ActorRecords]
  BY Zenon DEF RegistryInv, Types
<1>2. UNCHANGED <<tables, creation>>
  BY Zenon DEF WorkerStops, FinishEnd, FinishInterrupt, Close
<1>3. CASE WorkerStops(c) \/ FinishEnd(c) \/ FinishInterrupt(c)
  <2>1. \E w \in {actor[c].worker, "stored", "ended"} :
          /\ Worked(c, w)
          /\ w # actor[c].worker => actor[c].worker \in {"running", "stored"}
    BY Zenon, <1>1, <1>3, ActorMoves DEF WorkerStops, FinishEnd, FinishInterrupt
  <2> QED  BY Zenon, <1>1, <1>2, <2>1, WorkersKeep DEF Worked
<1>4. ASSUME NEW i \in Ids, Close(i)  PROVE  RegistryInv'
  <2>1. byId[i].by \in Creations
    BY Zenon, <1>4 DEF RegistryInv, LiveOwn, Close
  <2>2. Worked(byId[i].by, actor[byId[i].by].worker)
    BY Zenon, <1>1, <1>4, <2>1, ActorMoves DEF Close
  <2> QED  BY Zenon, <1>1, <1>2, <2>1, <2>2, WorkersKeep DEF Worked
<1> QED  BY Zenon, <1>3, <1>4

\* The steps of a stop.
LEMMA StopSteps ==
  ASSUME RegistryInv, NEW s \in Stoppers, StopNext(s)
  PROVE  RegistryInv' /\ UNCHANGED tables
<1>1. creation \in [Creations -> CreationRecords] /\ actor \in [Creations -> ActorRecords]
  BY Zenon DEF RegistryInv, Types
<1>2. UNCHANGED tables
  BY Zenon DEF StopNext, BeginShutdown, CancelCreation, Sweep, Join, CheckOwned,
         CheckReservations, Wait, Resume
<1>3. ASSUME NEW c \in Creations, CancelCreation(s, c)  PROVE  RegistryInv'
  <2>1. creation' = [creation EXCEPT ![c].cancelled = TRUE] /\ UNCHANGED actor
    BY Zenon, <1>3 DEF CancelCreation
  <2>2. /\ creation' \in [Creations -> CreationRecords]
        /\ \A d \in Creations :
             /\ creation'[d].step = creation[d].step
             /\ creation'[d].next = creation[d].next
             /\ creation'[d].name = creation[d].name
             /\ creation'[d].id = creation[d].id
    BY ZenonT(30), <1>1, <2>1 DEF CreationRecords
  <2> QED  BY Zenon, <1>1, <1>2, <2>1, <2>2, WorkersKeep
<1>4. CASE Sweep(s)
  <2>1. /\ actor' \in [Creations -> ActorRecords]
        /\ \A d \in Creations : actor'[d].worker = actor[d].worker
    BY Zenon, <1>1, <1>4, EndKeepsWorker DEF Sweep
  <2> QED  BY Zenon, <1>1, <1>2, <1>4, <2>1, WorkersKeep DEF Sweep
<1>5. CASE UNCHANGED <<creation, actor>>
  BY Zenon, <1>1, <1>2, <1>5, WorkersKeep
<1> QED
  BY Zenon, <1>2, <1>3, <1>4, <1>5
     DEF StopNext, BeginShutdown, Join, CheckOwned, CheckReservations, Wait, Resume

\* Every step of Next keeps the invariant: creations, workers, renames, closes
\* and stops.
LEMMA RegistryInductive ==
  ASSUME RegistryInv, [Next]_vars
  PROVE  RegistryInv'
<1>1. CASE UNCHANGED vars
  BY Zenon, <1>1, WorkersKeep DEF vars, RegistryInv, Types
<1>2. ASSUME NEW c \in Creations, CreationNext(c)  PROVE  RegistryInv'
  BY Zenon, <1>2, ReserveKeeps, IdentifyKeeps, ThreadSteps, ReleaseKeeps, RegistrationKeeps,
     CompletersKeep, PublishKeeps DEF CreationNext
<1>3. ASSUME NEW c \in Creations,
             WorkerStops(c) \/ FinishEnd(c) \/ Finalize(c) \/ FinishInterrupt(c)
      PROVE  RegistryInv'
  BY Zenon, <1>3, ActorSteps, CompletersKeep
<1>4. ASSUME NEW i \in Ids, Close(i)  PROVE  RegistryInv'
  <2>1. byId[i].by \in Creations
    BY Zenon, <1>4 DEF RegistryInv, LiveOwn, Close
  <2> QED  BY Zenon, <1>4, <2>1, ActorSteps
<1> QED  BY Zenon, <1>1, <1>2, <1>3, <1>4, RenameKeeps, StopSteps DEF Next

\* An empty registry satisfies the invariant.
LEMMA RegistryInitial == Init => RegistryInv
<1> SUFFICES ASSUME Init PROVE RegistryInv
  BY Zenon
<1> USE RegistryAssumption DEF Init, NoSlot, NoEntry
<1>1. Types
  BY Zenon DEF Types, Entries, CreationRecords, ActorRecords, Steps
<1>2. LiveOwn /\ ProvisionalOwn
  BY Zenon DEF LiveOwn, ProvisionalOwn
<1>3. NamesOwn
  BY Zenon DEF NamesOwn, NameOwn
<1>4. CleanupDone /\ Progress
  BY Zenon DEF CleanupDone, Progress
<1>5. StartingHeld /\ RunningHeld
  BY Zenon DEF StartingHeld, RunningHeld, Holding
<1> QED  BY Zenon, <1>1, <1>2, <1>3, <1>4, <1>5 DEF RegistryInv

\* The invariant holds in every state.
LEMMA RegistryInvariant == Spec => []RegistryInv
BY RegistryInitial, RegistryInductive, PTL DEF Spec

\* The inductive invariant implies the property.
LEMMA InvAccounts == RegistryInv => SessionsAccounted
<1> SUFFICES ASSUME RegistryInv PROVE SessionsAccounted
  BY Zenon
<1> USE RegistryAssumption
<1>1. TablesAgree
  BY Zenon DEF TablesAgree, RegistryInv, LiveOwn, ProvisionalOwn, NamesOwn, NameOwn
<1>2. ASSUME NEW c \in Creations, actor[c].worker = "running"
      PROVE  /\ reservation[creation[c].id] = c
             /\ \E n \in Names : slot[n].by = c /\ slot[n].id = creation[c].id
             /\ creation[c].step \in {"published", "done"} => c \in Owned
  <2> DEFINE i == creation[c].id
  <2>1. /\ i \in Ids
        /\ creation[c].step \in HandedOver \cup {"started"}
    BY Zenon, <1>2 DEF RegistryInv, Types, CreationRecords, Steps, Progress, HandedOver
  <2>2. CASE creation[c].step = "started"
    <3>1. slot[creation[c].name].by = c /\ slot[creation[c].name].id = i
      <4>1. slot[creation[c].name] = Slot("starting", c, i)
        BY Zenon, <2>2, StartedAlone DEF HoldsStarting
      <4> QED  BY <4>1 DEF Slot
    <3> QED  BY Zenon, <2>2, <3>1, StartedAlone
  <2>3. CASE creation[c].step \in HandedOver
    <3>1. provisional[i].by = c \/ byId[i].by = c
      BY Zenon, <1>2, <2>3 DEF RegistryInv, RunningHeld
    <3>2. c \in Owned
      BY Zenon, <2>1, <3>1 DEF Owned
    <3>3. CASE provisional[i].by = c
      <4>1. provisional[i] # NoEntry
        BY <3>3 DEF NoEntry
      <4>2. /\ provisional[i].name \in Names /\ reservation[i] = c
            /\ slot[provisional[i].name] = Slot("starting", c, i)
        BY Zenon, <2>1, <3>3, <4>1, ProvisionalPlace
      <4> QED  BY <3>2, <4>2 DEF Slot
    <3>4. CASE byId[i].by = c
      <4>1. /\ byId[i].name \in Names /\ reservation[i] = c
            /\ slot[byId[i].name] = Slot("live", c, i)
        BY <2>1, <3>4 DEF RegistryInv, LiveOwn, NoEntry
      <4> QED  BY <3>2, <4>1 DEF Slot
    <3> QED  BY Zenon, <3>1, <3>3, <3>4
  <2> QED  BY Zenon, <2>1, <2>2, <2>3
<1>3. RunningIsAccounted
  BY Zenon, <1>2 DEF RunningIsAccounted
<1> QED  BY Zenon, <1>1, <1>3 DEF SessionsAccounted

\* The registry's tables agree, and every session that runs is accounted for
\* in them: its name, its place among the live sessions and its entry.
THEOREM AccountedSafe == Spec => []SessionsAccounted
BY RegistryInvariant, InvAccounts, PTL

-----------------------------------------------------------------------------
(* The limit on live sessions, and what a stop reports.                    *)

WithinLimit == IsFiniteSet(Reserved) /\ Cardinality(Reserved) <= MaxLive

\* Only reserve_creation_session takes a reservation, while the registry
\* accepts and is under the limit; every other step keeps or releases them.
LEMMA OnlyReserveAdds ==
  ASSUME RegistryInv, [Next]_vars
  PROVE  \/ Reserved' \subseteq Reserved
         \/ accepting /\ UnderLimit /\ \E i \in Ids : Reserved' = Reserved \cup {i}
<1> USE RegistryAssumption
<1>0. reservation \in [Ids -> Creations \cup {None}]
  BY Zenon DEF RegistryInv, Types
<1>1. CASE UNCHANGED reservation
  BY Zenon, <1>1 DEF Reserved
<1>2. ASSUME NEW c \in Creations, ReserveCreationSession(c)
      PROVE  accepting /\ UnderLimit /\ \E i \in Ids : Reserved' = Reserved \cup {i}
  <2>1. PICK i \in Ids : reservation' = [reservation EXCEPT ![i] = c]
    BY Zenon, <1>2 DEF ReserveCreationSession
  <2>2. Reserved' = Reserved \cup {i}
    BY Zenon, <1>0, <2>1 DEF Reserved
  <2> QED  BY Zenon, <1>2, <2>2 DEF ReserveCreationSession
<1>3. ASSUME NEW c \in Creations, ReleaseCreation(c)  PROVE  Reserved' \subseteq Reserved
  BY Zenon, <1>3 DEF ReleaseCreation, Reserved
<1>4. ASSUME NEW c \in Creations, NEW i, Complete(c, i)  PROVE  Reserved' \subseteq Reserved
  <2>1. \/ UNCHANGED reservation
        \/ reservation' = [reservation EXCEPT ![i] = None]
    BY Zenon, <1>4 DEF Complete, tables
  <2> QED  BY Zenon, <1>0, <2>1 DEF Reserved
<1>5. ASSUME NEW c \in Creations, CreationNext(c)
      PROVE  \/ UNCHANGED reservation
             \/ ReserveCreationSession(c) \/ ReleaseCreation(c)
             \/ Complete(c, creation[c].id)
  BY Zenon, <1>5
     DEF CreationNext, ReserveName, Start, FailBeforeStart, RegisterProvisional,
         RegisterFails, Retain, MarkStore, MarkLoad, MarkLoadEarly, PublishName,
         CleanupOwned, EndOwned, Answer, tables
<1>6. ASSUME NEW c \in Creations,
             WorkerStops(c) \/ FinishEnd(c) \/ Finalize(c) \/ FinishInterrupt(c)
      PROVE  UNCHANGED reservation \/ Complete(c, creation[c].id)
  BY Zenon, <1>6 DEF WorkerStops, FinishEnd, Finalize, FinishInterrupt, tables
<1>7. ASSUME NEW i \in Ids, NEW n \in Names, Rename(i, n)  PROVE  UNCHANGED reservation
  BY Zenon, <1>7 DEF Rename
<1>8. ASSUME NEW i \in Ids, Close(i)  PROVE  UNCHANGED reservation
  BY Zenon, <1>8 DEF Close, tables
<1>9. ASSUME NEW s \in Stoppers, StopNext(s)  PROVE  UNCHANGED reservation
  BY Zenon, <1>9, StopSteps DEF tables
<1>10. CASE UNCHANGED vars
  BY Zenon, <1>1, <1>10 DEF vars, tables
<1> QED
  BY <1>1, <1>2, <1>3, <1>4, <1>5, <1>6, <1>7, <1>8, <1>9, <1>10, Zenon DEF Next

\* accepting changes only when a stop begins or has failed.
LEMMA OnlyStopsAdmit ==
  ASSUME accepting \in BOOLEAN, [Next]_vars
  PROVE  /\ accepting' \in BOOLEAN
         /\ UNCHANGED <<accepting, stop>> \/ \E s \in Stoppers : StopNext(s)
<1>1. ASSUME NEW s \in Stoppers, StopNext(s)  PROVE  accepting' \in BOOLEAN
  BY Zenon, <1>1 DEF StopNext, BeginShutdown, CancelCreation, Sweep, Join, CheckOwned,
              CheckReservations, Wait, Resume
<1>2. ASSUME NEW c \in Creations, CreationNext(c)  PROVE  UNCHANGED <<accepting, stop>>
  BY Zenon, <1>2
     DEF CreationNext, ReserveName, ReserveCreationSession, Start, FailBeforeStart,
         ReleaseCreation, RegisterProvisional, RegisterFails, MarkStore, MarkLoad,
         MarkLoadEarly, PublishName, CleanupOwned, EndOwned, Answer
<1>3. ASSUME NEW c \in Creations,
             WorkerStops(c) \/ FinishEnd(c) \/ Finalize(c) \/ FinishInterrupt(c)
      PROVE  UNCHANGED <<accepting, stop>>
  BY Zenon, <1>3 DEF WorkerStops, FinishEnd, Finalize, FinishInterrupt
<1>4. ASSUME NEW i \in Ids, NEW n \in Names, Rename(i, n) \/ Close(i)
      PROVE  UNCHANGED <<accepting, stop>>
  BY Zenon, <1>4 DEF Rename, Close
<1>5. ASSUME NEW i \in Ids, Close(i)  PROVE  UNCHANGED <<accepting, stop>>
  BY Zenon, <1>5 DEF Close
<1> QED  BY Zenon, <1>1, <1>2, <1>3, <1>4, <1>5 DEF Next, vars

INSTANCE FiniteSetTheorems

\* The tables always have the shape of RegistryState, and the sessions with a
\* place among the live ones stay within the limit.
THEOREM TypeCorrect == Spec => []TypeOK
<1> DEFINE Inv == RegistryInv /\ WithinLimit /\ accepting \in BOOLEAN
<1>1. Init => Inv
  <2> SUFFICES ASSUME Init PROVE Inv
    BY Zenon
  <2>1. Reserved = {}
    BY Zenon DEF Init, Reserved
  <2> QED  BY <2>1, RegistryInitial, FS_EmptySet, RegistryAssumption
           DEF WithinLimit, Init
<1>2. Inv /\ [Next]_vars => Inv'
  <2> SUFFICES ASSUME Inv, [Next]_vars PROVE Inv'
    BY Zenon
  <2>1. CASE Reserved' \subseteq Reserved
    <3>1. /\ IsFiniteSet(Reserved') /\ Cardinality(Reserved') <= Cardinality(Reserved)
          /\ Cardinality(Reserved') \in Nat /\ Cardinality(Reserved) \in Nat
      BY Zenon, <2>1, FS_Subset, FS_CardinalityType DEF WithinLimit
    <3>2. WithinLimit'
      BY <3>1, RegistryAssumption DEF WithinLimit
    <3> QED  BY Zenon, <3>2, RegistryInductive, OnlyStopsAdmit
  <2>2. ASSUME UnderLimit, NEW i \in Ids, Reserved' = Reserved \cup {i}
        PROVE  Inv'
    <3>1. /\ IsFiniteSet(Reserved') /\ Cardinality(Reserved) \in Nat
          /\ Cardinality(Reserved') \in {Cardinality(Reserved), Cardinality(Reserved) + 1}
      BY Zenon, <2>2, FS_AddElement, FS_CardinalityType DEF WithinLimit
    <3>2. WithinLimit'
      BY SMTT(30), <2>2, <3>1, RegistryAssumption DEF WithinLimit, UnderLimit
    <3> QED  BY Zenon, <3>2, RegistryInductive, OnlyStopsAdmit
  <2> QED  BY Zenon, <2>1, <2>2, OnlyReserveAdds
<1>3. Inv => TypeOK
  BY RegistryAssumption DEF TypeOK, RegistryInv, Types, NamesOwn, NameOwn, WithinLimit
<1> QED  BY <1>1, <1>2, <1>3, PTL DEF Spec

\* The steps of a stop request, and those between the end of admission and
\* the report of success or the return to admission.
StopPoints ==
  {"idle", "refused", "cancelling", "sweeping", "joining", "checking", "counting",
   "waiting", "failing", "failed", "stopped"}
Closed == StopPoints \ {"idle", "refused", "failed"}

StopRecords ==
  [step : StopPoints, approved : BOOLEAN, cancel : SUBSET (Creations \cup {None}),
   observed : SUBSET Creations, ended : BOOLEAN, errors : BOOLEAN]

\* Where a step takes the stop request that makes it, and no other.
LEMMA StopMoves ==
  ASSUME RegistryInv, stop \in [Stoppers -> StopRecords], NEW s \in Stoppers, StopNext(s)
  PROVE  /\ stop' \in [Stoppers -> StopRecords]
         /\ \A t \in Stoppers \ {s} : stop'[t] = stop[t]
         /\ stop'[s].step \in Closed =>
              \/ stop[s].step \in Closed /\ UNCHANGED accepting
              \/ accepting' = FALSE
         /\ stop'[s].step = "stopped" /\ stop[s].step # "stopped" =>
              Reserved = {} /\ UNCHANGED actor
<1> USE DEF StopPoints, Closed
<1>1. ASSUME NEW approved \in BOOLEAN, BeginShutdown(s, approved)
      PROVE  /\ stop' \in [Stoppers -> StopRecords]
             /\ \A t \in Stoppers \ {s} : stop'[t] = stop[t]
             /\ stop'[s].step \in {"refused", "cancelling"}
             /\ stop'[s].step = "cancelling" => accepting' = FALSE
  <2>1. CASE StopStep(s, "refused")
    BY <2>1 DEF StopStep, StopRecords
  <2>2. CASE /\ accepting' = FALSE
             /\ stop' = [stop EXCEPT ![s].step = "cancelling",
                           ![s].approved = approved,
                           ![s].cancel = {slot[n].by : n \in
                                {m \in Names : slot[m].state = "starting"}}]
    <3> DEFINE by == {slot[n].by : n \in {m \in Names : slot[m].state = "starting"}}
    <3>1. by \in SUBSET (Creations \cup {None})
      BY Zenon DEF RegistryInv, Types
    <3>2. stop' = [stop EXCEPT ![s] = [stop[s] EXCEPT !.step = "cancelling",
                                         !.approved = approved, !.cancel = by]]
      BY Zenon, <2>2
    <3> HIDE DEF by
    <3>3. [stop[s] EXCEPT !.step = "cancelling", !.approved = approved, !.cancel = by]
            \in StopRecords
      BY ZenonT(30), <3>1 DEF StopRecords
    <3>4. [stop[s] EXCEPT !.step = "cancelling", !.approved = approved, !.cancel = by].step
            = "cancelling"
      BY Zenon DEF StopRecords
    <3> QED  BY ZenonT(30), <2>2, <3>2, <3>3, <3>4
  <2> QED  BY Zenon, <1>1, <2>1, <2>2 DEF BeginShutdown
<1>2. ASSUME NEW c \in Creations, CancelCreation(s, c)
      PROVE  /\ stop' \in [Stoppers -> StopRecords]
             /\ \A t \in Stoppers \ {s} : stop'[t] = stop[t]
             /\ stop'[s].step = stop[s].step /\ UNCHANGED accepting
  BY <1>2 DEF CancelCreation, StopRecords
<1>3. Owned \subseteq Creations
  BY DEF Owned, RegistryInv, Types, Entries
<1>4. CASE Sweep(s)
  <2>1. PICK ended \in BOOLEAN :
          stop' = [stop EXCEPT ![s].step = "joining", ![s].observed = @ \cup Owned,
                               ![s].ended = ended]
    BY <1>4, Zenon DEF Sweep
  <2> DEFINE r == [stop[s] EXCEPT !.step = "joining", !.observed = @ \cup Owned,
                                  !.ended = ended]
  <2>3. r \in StopRecords /\ r.step = "joining"
    BY ZenonT(30), <1>3 DEF StopRecords
  <2>4. stop' = [stop EXCEPT ![s] = r]
    BY Zenon, <2>1
  <2> HIDE DEF r
  <2>2. stop' \in [Stoppers -> StopRecords]
        /\ (\A t \in Stoppers \ {s} : stop'[t] = stop[t]) /\ stop'[s].step = "joining"
    BY Zenon, <2>3, <2>4
  <2> QED  BY Zenon, <1>4, <2>2 DEF Sweep
<1>5. CASE Join(s)
  <2>1. PICK errors \in BOOLEAN, done \in SUBSET stop[s].observed :
          stop' = [stop EXCEPT ![s].step = "checking", ![s].observed = @ \ done,
                               ![s].errors = errors]
    BY Zenon, <1>5 DEF Join
  <2>2. stop' \in [Stoppers -> StopRecords]
        /\ (\A t \in Stoppers \ {s} : stop'[t] = stop[t]) /\ stop'[s].step = "checking"
    <3> DEFINE r == [stop[s] EXCEPT !.step = "checking", !.observed = @ \ done,
                                    !.errors = errors]
    <3>1. r \in StopRecords /\ r.step = "checking"
      BY Zenon DEF StopRecords
    <3>2. stop' = [stop EXCEPT ![s] = r]
      BY Zenon, <2>1
    <3> HIDE DEF r
    <3> QED  BY Zenon, <3>1, <3>2
  <2> QED  BY ZenonT(30), <1>5, <2>2 DEF Join
<1>6. CASE CheckOwned(s) \/ CheckReservations(s) \/ Wait(s)
  <2>1. PICK step \in {"counting", "waiting", "failing", "stopped", "sweeping"} :
          /\ StopStep(s, step)
          /\ step = "stopped" => Reserved = {}
    BY Zenon, <1>6 DEF CheckOwned, CheckReservations, AllReleased, Wait
  <2>2. stop' \in [Stoppers -> StopRecords]
        /\ (\A t \in Stoppers \ {s} : stop'[t] = stop[t]) /\ stop'[s].step = step
    BY <2>1 DEF StopRecords, StopStep
  <2> QED  BY Zenon, <1>6, <2>1, <2>2 DEF CheckOwned, CheckReservations, Wait
<1>7. CASE Resume(s)
  <2> DEFINE r == [stop[s] EXCEPT !.step = "failed", !.observed = {}]
  <2>1. r \in StopRecords /\ r.step = "failed"
    BY Zenon DEF StopRecords
  <2>2. stop' = [stop EXCEPT ![s] = r]
    BY Zenon, <1>7 DEF Resume
  <2> HIDE DEF r
  <2> QED  BY Zenon, <2>1, <2>2
<1> QED  BY Zenon, <1>1, <1>2, <1>4, <1>5, <1>6, <1>7 DEF StopNext, StopRecords

\* The stop requests have their types, and the tables are as proved above.
StopInv == RegistryInv /\ accepting \in BOOLEAN /\ stop \in [Stoppers -> StopRecords]

\* It holds in every state.
LEMMA StopInvariant == Spec => []StopInv
<1>1. Init => StopInv
  <2> SUFFICES ASSUME Init PROVE StopInv
    BY Zenon
  <2>1. stop \in [Stoppers -> StopRecords]
    BY Zenon DEF Init, StopRecords, StopPoints
  <2> QED  BY Zenon, <2>1, RegistryInitial DEF Init, StopInv
<1>2. StopInv /\ [Next]_vars => StopInv'
  <2> SUFFICES ASSUME StopInv, [Next]_vars PROVE StopInv'
    BY Zenon
  <2>1. CASE UNCHANGED stop
    BY Zenon, <2>1, RegistryInductive, OnlyStopsAdmit DEF StopInv
  <2>2. ASSUME NEW s \in Stoppers, StopNext(s)  PROVE  StopInv'
    BY Zenon, <2>2, RegistryInductive, OnlyStopsAdmit, StopMoves DEF StopInv
  <2> QED  BY Zenon, <2>1, <2>2, OnlyStopsAdmit DEF StopInv
<1> QED  BY <1>1, <1>2, PTL DEF Spec

\* When a stop reports success, nothing is reserved and no worker runs, with
\* any number of stop requests at once: each counts the reservations itself,
\* and a worker that runs has one.
StoppedFindsNothing ==
  \A s \in Stoppers : stop[s].step # "stopped" /\ stop'[s].step = "stopped" =>
    /\ Reserved' = {}
    /\ \A c \in Creations : actor'[c].worker # "running"

\* A running worker has a reservation.
LEMMA RunningReserved ==
  ASSUME RegistryInv, Reserved = {}, NEW c \in Creations
  PROVE  actor[c].worker # "running"
<1> SUFFICES ASSUME actor[c].worker = "running" PROVE FALSE
  BY Zenon
<1>1. reservation[creation[c].id] = c
  BY Zenon, InvAccounts DEF SessionsAccounted, RunningIsAccounted
<1>2. creation[c].id \in Ids
  BY Zenon DEF RegistryInv, Progress
<1> QED  BY Zenon, <1>1, <1>2, RegistryAssumption DEF Reserved

\* A stop reports success only of an empty registry.
THEOREM StopReportsTruth == Spec => [][StoppedFindsNothing]_vars
<1>1. StopInv /\ [Next]_vars => [StoppedFindsNothing]_vars
  <2> SUFFICES ASSUME StopInv, [Next]_vars, NEW s \in Stoppers,
                      stop[s].step # "stopped", stop'[s].step = "stopped"
               PROVE  /\ Reserved' = {}
                      /\ \A c \in Creations : actor'[c].worker # "running"
    BY Zenon DEF StoppedFindsNothing
  <2>1. PICK t \in Stoppers : StopNext(t)
    BY Zenon, OnlyStopsAdmit DEF StopInv
  <2>2. Reserved = {} /\ UNCHANGED <<tables, actor>>
    BY Zenon, <2>1, StopMoves, StopSteps DEF StopInv
  <2>3. Reserved' = {}
    BY Zenon, <2>2 DEF Reserved, tables
  <2> QED  BY Zenon, <2>2, <2>3, RunningReserved DEF StopInv
<1> QED  BY <1>1, StopInvariant, PTL DEF Spec

\* What holds from the end of admission on, with one stop request.
ClosedInv ==
  \A s \in Stoppers :
    /\ stop[s].step \in Closed => ~accepting
    /\ stop[s].step = "stopped" => Reserved = {}

\* With one stop request, a stop that reports success leaves the registry empty
\* and closed for good.  A second request may fail after the first succeeded,
\* and resume_after_failed_shutdown then admits creations again.
THEOREM StoppedSafe ==
  ASSUME \A s, t \in Stoppers : s = t
  PROVE  Spec => []StoppedReleasedAll
<1> DEFINE Inv == StopInv /\ ClosedInv
<1>1. Init => ClosedInv
  BY DEF Init, ClosedInv, Closed
<1>2. StopInv /\ ClosedInv /\ [Next]_vars => ClosedInv'
  <2> SUFFICES ASSUME StopInv, ClosedInv, [Next]_vars PROVE ClosedInv'
    BY Zenon
  <2>1. CASE UNCHANGED <<accepting, stop>>
    <3>1. ASSUME NEW s \in Stoppers, stop[s].step = "stopped"  PROVE  Reserved' = {}
      <4>1. ~accepting /\ Reserved = {}
        BY Zenon, <3>1 DEF ClosedInv, Closed, StopPoints
      <4> QED  BY Zenon, <4>1, OnlyReserveAdds DEF StopInv
    <3> QED  BY Zenon, <2>1, <3>1 DEF ClosedInv
  <2>2. ASSUME NEW s \in Stoppers, StopNext(s)  PROVE  ClosedInv'
    <3>1. Reserved' = Reserved
      BY Zenon, <2>2, StopSteps DEF StopInv, Reserved, tables
    <3>2. \A t \in Stoppers : t = s
      BY Zenon
    <3>3. stop'[s].step \in Closed => ~accepting'
      BY Zenon, <2>2, StopMoves DEF StopInv, ClosedInv
    <3>4. stop'[s].step = "stopped" => Reserved' = {}
      BY Zenon, <2>2, <3>1, StopMoves DEF StopInv, ClosedInv
    <3> QED  BY Zenon, <3>2, <3>3, <3>4 DEF ClosedInv
  <2> QED  BY Zenon, <2>1, <2>2, OnlyStopsAdmit DEF StopInv
<1>3. StopInv /\ ClosedInv => StoppedReleasedAll
  BY Zenon, RunningReserved DEF StopInv, ClosedInv, StoppedReleasedAll, Closed, StopPoints
<1> QED  BY <1>1, <1>2, <1>3, StopInvariant, PTL DEF Spec

==============================================================================
