--------------------------- MODULE TerminalDriver ---------------------------
(***************************************************************************)
(* One hosted program: crates/daemon/src/terminal_driver.rs (reader        *)
(* thread, bounded byte queue, model thread, ownership, history reads) over *)
(* crates/platform/src/pty.rs and pty/unix_io.rs (interruptible input,     *)
(* child control), with the publication rules of                           *)
(* crates/terminal/src/model.rs (synchronized output).                     *)
(*                                                                         *)
(* A step is what a thread does between two waits; a section under the     *)
(* model mutex is one step, the commit and I/O mutexes are held over       *)
(* several.  A chunk of PTY bytes is the sequence of its segments: what    *)
(* TerminalModel::ingest_observing consumes per turn.  What a segment      *)
(* draws is its revision.  Statistics are left out.                        *)
(***************************************************************************)
EXTENDS Naturals, Sequences, SequencesExt, FiniteSets

CONSTANTS
  Chunks,    \* byte chunks the program may write
  Budgets,   \* bounds: chunks, operations, history reads and endings
  Capacity,  \* byte_channel_capacity
  Readers,   \* attachments
  None

ASSUME DriverAssumption ==
  /\ \A c \in Chunks : \A i \in 1..Len(c) :
       c[i] \in {"text", "query", "begin", "end", "reset"}
  /\ Budgets \subseteq [chunks : Nat, ops : Nat, reads : Nat, ends : Nat]
  /\ Capacity \in Nat \ {0}

VARIABLES
  child,   \* the program and its PTY: output, input buffer, fate
  reader,  \* the reader thread
  queue,   \* ByteQueue
  model,   \* TerminalModel and the model thread
  shared,  \* SharedTerminal: locks, waterline, failure, history slot
  actor,   \* the session actor's use of the driver
  closer,  \* the reaper that Drop spawns
  view,    \* each attachment
  log,     \* history: chunks read and drawn, open batch
  left     \* what remains of the budget

vars == <<child, reader, queue, model, shared, actor, closer, view, log, left>>

Spend(kind) ==
  left[kind] > 0 /\ left' = [left EXCEPT ![kind] = @ - 1]

-----------------------------------------------------------------------------
(***************************************************************************)
(* The program.  Its input buffer holds one write; it may or may not read. *)
(***************************************************************************)
NewChild ==
  [state |-> "running", out |-> <<>>, input |-> "empty",
   killed |-> FALSE, stopped |-> FALSE, reaped |-> FALSE]

ChildWrites ==
  /\ child.state = "running" /\ child.out = <<>> /\ Spend("chunks")
  /\ \E c \in Chunks : child' = [child EXCEPT !.out = <<c>>]
  /\ UNCHANGED <<reader, queue, model, shared, actor, closer, view, log>>

\* The program takes its input, or the kernel once it is gone.
ChildReads ==
  /\ child.input = "full"
  /\ child' = [child EXCEPT !.input = "empty"]
  /\ UNCHANGED <<reader, queue, model, shared, actor, closer, view, log, left>>

ChildExits ==
  /\ child.state = "running"
  /\ IF child.killed THEN UNCHANGED left ELSE Spend("ends")
  /\ child' = [child EXCEPT !.state = "exited"]
  /\ UNCHANGED <<reader, queue, model, shared, actor, closer, view, log>>

\* InputStop::stop, then the killer.
Interrupted(c) == [c EXCEPT !.stopped = TRUE, !.killed = TRUE]

\* Mutant: a write that waits for room is deaf to the stop.
InputDeaf == child.stopped /\ child.input = "empty"

\* InterruptibleWriter::write: it waits for room outside of the kernel, so
\* that a stop ends it.
InputFails == child.stopped
InputRoom == child.input = "empty"

-----------------------------------------------------------------------------
(***************************************************************************)
(* The reader thread, and ByteQueue.                                       *)
(***************************************************************************)
ReadPty ==
  /\ reader.step = "read"
  /\ \/ /\ child.out # <<>>
        /\ reader' = [step |-> "push", chunk |-> Head(child.out)]
        /\ child' = [child EXCEPT !.out = <<>>]
        /\ UNCHANGED queue
     \/ /\ child.out = <<>> /\ child.state = "exited"
        /\ reader' = [reader EXCEPT !.step = "done"]
        /\ queue' = [queue EXCEPT !.finished = TRUE]
        /\ UNCHANGED child
  /\ UNCHANGED <<model, shared, actor, closer, view, log, left>>

\* ByteQueue::push: refused once aborted.
Push ==
  /\ reader.step = "push"
  /\ IF queue.aborted
     THEN /\ reader' = [step |-> "done", chunk |-> None]
          /\ queue' = [queue EXCEPT !.finished = TRUE]
          /\ UNCHANGED log
     ELSE /\ Len(queue.chunks) < Capacity
          /\ reader' = [step |-> "read", chunk |-> None]
          /\ queue' = [queue EXCEPT !.chunks = Append(@, reader.chunk)]
          /\ log' = [log EXCEPT !.read = @ + 1]
  /\ UNCHANGED <<child, model, shared, actor, closer, view, left>>

-----------------------------------------------------------------------------
(***************************************************************************)
(* The model: revisions, and a batch of synchronized output that readers   *)
(* do not see before it ends (held is the revision frozen for them).       *)
(***************************************************************************)
Published(m) == IF m.held = None THEN m.revision ELSE m.held

\* finish_synchronized_output.
Released(m) == [m EXCEPT !.held = None, !.expired = FALSE]
Expired(m) == IF m.expired THEN Released(m) ELSE m

\* Mutant: a begin inside a batch freezes what the batch has drawn so far.
SegmentRefreezes(m, s) ==
  LET next == [Expired(m) EXCEPT !.revision = @ + 1]
  IN CASE s = "begin" -> [next EXCEPT !.held = next.revision]
       [] s \in {"end", "reset"} -> Released(next)
       [] OTHER -> next

\* One turn of ingest_observing.
Segment(m, s) ==
  LET next == [Expired(m) EXCEPT !.revision = @ + 1]
  IN CASE s = "begin" ->
            IF next.held = None THEN [next EXCEPT !.held = next.revision] ELSE next
       [] s \in {"end", "reset"} -> Released(next)
       [] OTHER -> next

\* The revision a pending history read is offered first while a chunk is
\* ingested: before a batch is frozen, when one ends or has expired, and at
\* the end of the chunk outside of any.
Offered(m, s, last) ==
  LET next == Segment(m, s)
  IN IF m.expired THEN m.revision
     ELSE IF \/ s \in {"end", "reset"}
             \/ s = "begin" /\ m.held = None
             \/ last /\ next.held = None
     THEN next.revision ELSE None

\* History: whether the program has a batch open, and what it drew in it.
Watched(g, m, s) ==
  LET open == g.open /\ ~m.expired
      hidden == IF open THEN g.hidden ELSE {}
  IN IF s \in {"end", "reset"} THEN [open |-> FALSE, hidden |-> {}]
     ELSE [open |-> open \/ s = "begin",
           hidden |-> IF open THEN hidden \cup {m.revision + 1} ELSE hidden]

Closed == [open |-> FALSE, hidden |-> {}]

\* The first n segments of a chunk, under one hold of the model mutex.
Ingested(chunk, n) ==
  LET turn(acc, i) ==
        [m |-> Segment(acc.m, chunk[i]),
         offer |-> IF acc.offer # None THEN acc.offer
                   ELSE Offered(acc.m, chunk[i], i = Len(chunk)),
         batch |-> Watched(acc.batch, acc.m, chunk[i])]
  IN FoldLeftDomain(turn, [m |-> model, offer |-> None, batch |-> log.batch],
                    SubSeq(chunk, 1, n))

(***************************************************************************)
(* History reads: one pending slot for the whole terminal.                 *)
(***************************************************************************)
NewView == [step |-> "idle", answer |-> None, lost |-> FALSE, late |-> FALSE,
            alive |-> TRUE]

\* PendingHistoryRead::is_active.
Active(r) == view[r].alive /\ view[r].step = "waiting" /\ ~view[r].late

\* The reply sender of a read is dropped: its waiter, if any, is told.
Retired(vs, r) ==
  IF r # None /\ vs[r].step = "waiting" /\ vs[r].answer = None
  THEN [vs EXCEPT ![r].lost = TRUE] ELSE vs

\* complete_history_read at a boundary that offers a revision.
Completed(offer) ==
  IF offer = None \/ shared.pending = None THEN view
  ELSE IF Active(shared.pending)
  THEN [view EXCEPT ![shared.pending].answer = offer]
  ELSE Retired(view, shared.pending)
PendingAfter(offer) == IF offer = None THEN shared.pending ELSE None

\* begin_history_window, before the model mutex,
CheckRead(r) ==
  /\ view[r].alive /\ view[r].step = "idle"
  /\ shared.failure = "none" /\ Spend("reads")
  /\ view' = [view EXCEPT ![r].step = "checked"]
  /\ UNCHANGED <<child, reader, queue, model, shared, actor, closer, log>>

\* Mutant: the slot is taken whoever holds it.
SlotTaken == FALSE

\* HistoryReadPending.
SlotBusy == shared.pending # None /\ Active(shared.pending)

\* and under it: answered at once outside of a batch, else registered.
BeginRead(r) ==
  /\ view[r].step = "checked"
  /\ LET waiting(answer) == [view[r] EXCEPT !.step = "waiting",
                               !.answer = answer]
     IN IF model.held = None
        THEN /\ view' = [view EXCEPT ![r] = waiting(model.revision)]
             /\ UNCHANGED shared
        ELSE IF SlotBusy
        THEN /\ view' = [view EXCEPT ![r].step = "idle"]
             /\ UNCHANGED shared
        ELSE /\ view' = [Retired(view, shared.pending) EXCEPT ![r] = waiting(None)]
             /\ shared' = [shared EXCEPT !.pending = r]
  /\ UNCHANGED <<child, reader, queue, model, actor, closer, log, left>>

\* wait_until: the answer, the deadline, or the read was retired.
FinishRead(r) ==
  /\ view[r].step = "waiting"
  /\ view[r].answer # None \/ view[r].lost \/ view[r].late
  /\ view' = [view EXCEPT ![r] = [NewView EXCEPT !.alive = view[r].alive]]
  /\ UNCHANGED <<child, reader, queue, model, shared, actor, closer, log, left>>

ReadDeadline(r) ==
  /\ view[r].step = "waiting" /\ ~view[r].late
  /\ view' = [view EXCEPT ![r].late = TRUE]
  /\ UNCHANGED <<child, reader, queue, model, shared, actor, closer, log, left>>

\* sync_changed, sync_latest, latest_snapshot: what a reader that asks now is
\* shown.
Captured == Published(model)

\* Drop of an attachment: only its own pending read goes with it.
DropView(r) ==
  /\ view[r].alive /\ Spend("ends")
  /\ view' = [(IF shared.pending = r THEN Retired(view, r) ELSE view)
                EXCEPT ![r].alive = FALSE]
  /\ shared' = [shared EXCEPT !.pending = IF @ = r THEN None ELSE @]
  /\ UNCHANGED <<child, reader, queue, model, actor, closer, log>>

-----------------------------------------------------------------------------
(***************************************************************************)
(* The model thread.                                                       *)
(***************************************************************************)
ThreadAt(step) == model.step = step
Free(lock) == shared[lock] = None

\* SharedTerminal::fail keeps the first failure and lets go of the slot.
Failed(sh) ==
  [sh EXCEPT !.failure = "failed", !.pending = None]

\* The read fails: the queue ends with what was read before.
ReadFails ==
  /\ reader.step = "read" /\ Spend("ends")
  /\ reader' = [reader EXCEPT !.step = "done"]
  /\ queue' = [queue EXCEPT !.finished = TRUE]
  /\ shared' = Failed(shared)
  /\ view' = Retired(view, shared.pending)
  /\ UNCHANGED <<child, model, actor, closer, log>>

Pop ==
  /\ ThreadAt("pop")
  /\ \/ /\ queue.chunks # <<>>
        /\ model' = [model EXCEPT !.step = "ingest", !.chunk = Head(queue.chunks)]
        /\ queue' = [queue EXCEPT !.chunks = Tail(@)]
     \/ /\ queue.chunks = <<>> /\ (queue.finished \/ queue.aborted)
        /\ model' = [model EXCEPT !.step = "finish"]
        /\ UNCHANGED queue
  /\ UNCHANGED <<child, reader, shared, actor, closer, view, log, left>>

Ingest ==
  /\ ThreadAt("ingest") /\ Free("commit")
  /\ LET done == Ingested(model.chunk, Len(model.chunk))
         replies == Contains(model.chunk, "query")
     IN /\ model' = [done.m EXCEPT !.step = IF replies THEN "reply" ELSE "record",
                                   !.publish = Published(done.m)]
        /\ view' = Completed(done.offer)
        /\ shared' = [shared EXCEPT !.commit = "model",
                                    !.pending = PendingAfter(done.offer)]
        /\ log' = [log EXCEPT !.drawn = @ + 1,
                              !.batch = done.batch]
  /\ UNCHANGED <<child, reader, queue, actor, closer, left>>

\* A segment is refused (the revision or the replies overflow): what the chunk drew
\* before it stays, and is never recorded.
IngestFails ==
  /\ ThreadAt("ingest") /\ Free("commit") /\ Spend("ends")
  /\ \E n \in 0..(Len(model.chunk) - 1) :
       LET done == Ingested(model.chunk, n)
           pending == PendingAfter(done.offer)
       IN /\ model' = [done.m EXCEPT !.step = "done"]
          /\ shared' = Failed(shared)
          /\ view' = Retired(Completed(done.offer), pending)
          /\ log' = [log EXCEPT !.batch = done.batch]
  /\ queue' = [queue EXCEPT !.aborted = TRUE]
  /\ UNCHANGED <<child, reader, actor, closer>>

\* The reply of the terminal to a query, behind the I/O mutex.
Reply ==
  /\ ThreadAt("reply") /\ Free("io")
  /\ model' = [model EXCEPT !.step = "replying"]
  /\ shared' = [shared EXCEPT !.io = "model"]
  /\ UNCHANGED <<child, reader, queue, actor, closer, view, log, left>>

Replied ==
  /\ ThreadAt("replying")
  /\ IF InputFails
     THEN /\ shared' = [Failed(shared) EXCEPT !.io = None, !.commit = None]
          /\ view' = Retired(view, shared.pending)
          /\ queue' = [queue EXCEPT !.aborted = TRUE]
          /\ model' = [model EXCEPT !.step = "done"]
          /\ UNCHANGED child
     ELSE /\ InputRoom
          /\ child' = [child EXCEPT !.input = "full"]
          /\ shared' = [shared EXCEPT !.io = None]
          /\ model' = [model EXCEPT !.step = "record"]
          /\ UNCHANGED <<view, queue>>
  /\ UNCHANGED <<reader, actor, closer, log, left>>

Record ==
  /\ ThreadAt("record")
  /\ shared' = [shared EXCEPT !.latest = model.publish, !.commit = None]
  /\ model' = [model EXCEPT !.step = "pop", !.chunk = <<>>]
  /\ UNCHANGED <<child, reader, queue, actor, closer, view, log, left>>

\* The hard limit of a held batch passes,
BatchDeadline ==
  /\ model.held # None /\ ~model.expired
  /\ model' = [model EXCEPT !.expired = TRUE]
  /\ UNCHANGED <<child, reader, queue, shared, actor, closer, view, log, left>>

\* finish_presentation: and the model thread, if no bytes come, ends it.
Presented(m) ==
  /\ Free("commit")
  /\ view' = Completed(m.revision)
  /\ shared' = [shared EXCEPT !.pending = None, !.latest = m.revision]
  /\ log' = [log EXCEPT !.batch = Closed]

ExpireBatch ==
  /\ ThreadAt("pop") /\ model.expired
  /\ queue.chunks = <<>> /\ ~queue.finished /\ ~queue.aborted
  /\ model' = Released(model)
  /\ Presented(model)
  /\ UNCHANGED <<child, reader, queue, actor, closer, left>>

\* Mutant: the end of the output leaves a batch held.
FinishHeld ==
  /\ ThreadAt("finish")
  /\ model' = [model EXCEPT !.step = "done"]
  /\ shared' = [shared EXCEPT !.drained = TRUE]
  /\ UNCHANGED <<child, reader, queue, actor, closer, view, log, left>>

Finish ==
  /\ ThreadAt("finish") /\ Free("commit")
  /\ model' = [Released(model) EXCEPT !.step = "done"]
  /\ view' = Completed(model.revision)
  /\ shared' = [shared EXCEPT !.pending = None, !.latest = model.revision,
                              !.drained = TRUE]
  /\ log' = [log EXCEPT !.batch = Closed]
  /\ UNCHANGED <<child, reader, queue, actor, closer, left>>

ModelThread ==
  Pop \/ Ingest \/ Reply \/ Replied \/ Record \/ ExpireBatch \/ Finish

-----------------------------------------------------------------------------
(***************************************************************************)
(* The session actor: it writes input, resizes, sets colors, and polls.    *)
(***************************************************************************)
ActorAt(step) == actor.step = step
Operates == ActorAt("idle") /\ Spend("ops")

WriteInput ==
  /\ Operates /\ Free("io")
  /\ actor' = [step |-> "writing"]
  /\ shared' = [shared EXCEPT !.io = "actor"]
  /\ UNCHANGED <<child, reader, queue, model, closer, view, log>>

InputWritten ==
  /\ ActorAt("writing")
  /\ InputFails \/ InputRoom
  /\ child' = [child EXCEPT !.input = IF InputFails THEN @ ELSE "full"]
  /\ actor' = [actor EXCEPT !.step = "idle"]
  /\ shared' = [shared EXCEPT !.io = None]
  /\ UNCHANGED <<reader, queue, model, closer, view, log, left>>

\* resize ends a batch: what it had frozen has another size.
Resize ==
  /\ Operates /\ Free("commit") /\ Free("io")
  /\ LET m == [Released(model) EXCEPT !.revision = @ + 1]
     IN model' = m /\ Presented(m)
  /\ UNCHANGED <<child, reader, queue, actor, closer>>

\* update_base_colors: a revision that a held batch hides, and a reply when
\* the program has subscribed.
UpdateColors ==
  /\ Operates /\ Free("commit")
  /\ model' = [model EXCEPT !.revision = @ + 1]
  /\ shared' = [shared EXCEPT !.commit = "actor"]
  /\ log' = [log EXCEPT !.batch.hidden =
               IF log.batch.open THEN @ \cup {model.revision + 1} ELSE @]
  /\ \E subscribed \in BOOLEAN :
       actor' = [step |-> IF subscribed THEN "reply" ELSE "colored"]
  /\ UNCHANGED <<child, reader, queue, closer, view>>

ColorsReply ==
  /\ ActorAt("reply") /\ Free("io")
  /\ IF InputFails
     THEN /\ shared' = [Failed(shared) EXCEPT !.commit = None]
          /\ view' = Retired(view, shared.pending)
          /\ actor' = [actor EXCEPT !.step = "idle"]
          /\ UNCHANGED child
     ELSE /\ InputRoom
          /\ child' = [child EXCEPT !.input = "full"]
          /\ actor' = [actor EXCEPT !.step = "colored"]
          /\ UNCHANGED <<shared, view>>
  /\ UNCHANGED <<reader, queue, model, closer, log, left>>

ColorsPublished ==
  /\ ActorAt("colored")
  /\ shared' = [shared EXCEPT !.latest = Published(model), !.commit = None]
  /\ actor' = [actor EXCEPT !.step = "idle"]
  /\ UNCHANGED <<child, reader, queue, model, closer, view, log, left>>

\* run_session_actor polls: a failed driver is closed, an exited one ends.
Poll ==
  /\ ActorAt("idle")
  /\ shared.failure # "none" \/ child.state = "exited"
  /\ actor' = [actor EXCEPT !.step =
                 IF shared.failure # "none" THEN "closing" ELSE "finalize"]
  /\ child' = IF shared.failure # "none" THEN Interrupted(child)
              ELSE [child EXCEPT !.reaped = TRUE]
  /\ UNCHANGED <<reader, queue, model, shared, closer, view, log, left>>

ActorCloses ==
  /\ ActorAt("closing") /\ child.state = "exited"
  /\ actor' = [actor EXCEPT !.step = "finalize"]
  /\ child' = [child EXCEPT !.reaped = TRUE]
  /\ UNCHANGED <<reader, queue, model, shared, closer, view, log, left>>

Joined == reader.step = "done" /\ model.step = "done"

Finalize ==
  /\ ActorAt("finalize") /\ Joined
  /\ shared' = [shared EXCEPT !.released = TRUE]
  /\ actor' = [actor EXCEPT !.step = "over"]
  /\ UNCHANGED <<child, reader, queue, model, closer, view, log, left>>

\* Drop of a driver that was not finalized: the actor thread unwound.
DropDriver ==
  /\ ActorAt("idle") /\ Spend("ends")
  /\ queue' = [queue EXCEPT !.aborted = TRUE]
  /\ child' = Interrupted(child)
  /\ closer' = "reaping"
  /\ actor' = [actor EXCEPT !.step = "over"]
  /\ UNCHANGED <<reader, model, shared, view, log>>

\* Mutant: ownership is released once the child is reaped.
ReaperReleases ==
  /\ closer = "reaping" /\ child.state = "exited"
  /\ child' = [child EXCEPT !.reaped = TRUE]
  /\ closer' = "done"
  /\ shared' = [shared EXCEPT !.released = TRUE]
  /\ UNCHANGED <<reader, queue, model, actor, view, log, left>>

Reaper ==
  /\ closer = "reaping" /\ child.state = "exited" /\ Joined
  /\ child' = [child EXCEPT !.reaped = TRUE]
  /\ closer' = "done"
  /\ shared' = [shared EXCEPT !.released = TRUE]
  /\ UNCHANGED <<reader, queue, model, actor, view, log, left>>

\* TerminalDriverInterrupt: neither waits for the actor nor for its locks.
Interrupt ==
  /\ ~child.killed /\ Spend("ends")
  /\ child' = Interrupted(child)
  /\ UNCHANGED <<reader, queue, model, shared, actor, closer, view, log>>

ActorStep ==
  InputWritten \/ ColorsReply \/ ColorsPublished \/ Poll \/ ActorCloses \/ Finalize

-----------------------------------------------------------------------------
Init ==
  /\ child = NewChild
  /\ reader = [step |-> "read", chunk |-> None]
  /\ queue = [chunks |-> <<>>, finished |-> FALSE, aborted |-> FALSE]
  /\ model = [step |-> "pop", chunk |-> <<>>, revision |-> 0, held |-> None,
              expired |-> FALSE, publish |-> 0]
  /\ shared = [commit |-> None, io |-> None, latest |-> 0, failure |-> "none",
               pending |-> None, drained |-> FALSE, released |-> FALSE]
  /\ actor = [step |-> "idle"]
  /\ closer = "none"
  /\ view = [r \in Readers |-> NewView]
  /\ log = [read |-> 0, drawn |-> 0, batch |-> Closed]
  /\ left \in Budgets

Next ==
  \/ ChildWrites \/ ChildReads \/ ChildExits
  \/ ReadPty \/ ReadFails \/ Push \/ ModelThread \/ IngestFails \/ BatchDeadline
  \/ WriteInput \/ Resize \/ UpdateColors \/ ActorStep \/ DropDriver
  \/ Interrupt \/ Reaper
  \/ \E r \in Readers :
       \/ CheckRead(r) \/ BeginRead(r) \/ FinishRead(r) \/ ReadDeadline(r)
       \/ DropView(r)

Spec == Init /\ [][Next]_vars

\* The operating system schedules every thread and ends a killed child; the
\* actor polls.  Nothing is assumed of the program: it may never read.
Fairness ==
  /\ WF_vars(ReadPty \/ Push) /\ WF_vars(ModelThread)
  /\ WF_vars(ActorStep) /\ WF_vars(Reaper)
  /\ WF_vars(child.killed /\ ChildExits)
FairSpec == Spec /\ Fairness

-----------------------------------------------------------------------------
(***************************************************************************)
(* Properties.                                                             *)
(***************************************************************************)
\* No reader is shown, and no watcher told of, a screen that a synchronized
\* batch of the program had only half drawn (ingest_observing, checkpoint,
\* complete_history_read), as long as the batch is neither over nor past its
\* limit, and whatever resizes and color changes fall into it.
NoTornBatch ==
  /\ shared.latest \notin log.batch.hidden
  /\ Captured \notin log.batch.hidden
  /\ \A r \in Readers : \A n \in log.batch.hidden : n # view[r].answer

\* A history read that was admitted stays registered until it is answered:
\* no other reader, resize or boundary makes it vanish before its deadline
\* (begin_history_window, complete_history_read, cancel_pending_history).
AdmittedReadKept ==
  \A r \in Readers :
    /\ view[r].step = "waiting" /\ ~view[r].late /\ view[r].alive
    /\ shared.failure = "none"
    => shared.pending = r \/ view[r].answer # None

\* When the model thread has finished without a failure, everything the
\* reader took from the PTY has been drawn in order and is visible
\* (ByteQueue::pop_until after finish or abort, finish_presentation).
DrainedIsComplete ==
  shared.drained /\ shared.failure = "none" =>
    /\ log.drawn = log.read
    /\ model.held = None
    /\ Free("commit") => shared.latest = model.revision

\* Nothing that was admitted is lost: neither a read of the history nor the
\* last output of the program.
NothingLost == AdmittedReadKept /\ DrainedIsComplete

\* Ownership is given back only when the child is reaped and both threads
\* have ended (finalize, Drop), so that nothing outlives its session.
ReleasedIsOver == shared.released => child.reaped /\ Joined

\* Closing always ends: a stop reaches a driver whose program does not read
\* and whose threads or actor are blocked in a write to it
\* (InterruptibleWriter, TerminalDriverInterrupt, Drop).
ClosedIsReleased == child.stopped ~> shared.released

=============================================================================
