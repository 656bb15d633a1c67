--------------------------- MODULE ReplayRegistry ---------------------------
(***************************************************************************)
(* Exactly-once coordination of the session mutations (create, rename,     *)
(* close, takeover): ReplayRegistry, ReplayEpoch and OperationCell of      *)
(* crates/daemon/src/session.rs, with the request threads that use them    *)
(* through execute_replayed.                                               *)
(*                                                                         *)
(* A client first obtains an operation lease <<incarnation, ordinal>> for  *)
(* its principal, then numbers its mutations in the lease by a sequence.   *)
(* The registry keeps an epoch per lease: the cells of the operations it   *)
(* still remembers and a low-water mark under which it has forgotten them. *)
(* Epochs are retired least recently used first when the registry is full. *)
(*                                                                         *)
(* Every method runs under the registry's mutex, so each is one step; the  *)
(* mutation itself runs outside the mutex, between Register and Complete.  *)
(***************************************************************************)
EXTENDS Naturals, Sequences, FiniteSets

CONSTANTS
  Principals,       \* a device with one authorization generation
  Callers,          \* request threads
  Fingerprints,     \* what a mutation asks for, compared on a retry
  Results,          \* what a mutation may answer
  Unknown,          \* the outcome_unknown error, one of Results
  NoResult,         \* a cell that is still in flight
  MaxPrincipals,    \* MAX_REPLAY_PRINCIPALS
  MaxEpochs,        \* MAX_ACTIVE_OPERATION_EPOCHS
  ResultsPerEpoch,  \* OPERATION_RESULTS_PER_EPOCH
  MaxOrdinal,       \* u64::MAX, of a lease ordinal
  MaxSequence,      \* u64::MAX, of an operation sequence
  MaxClock,         \* u64::MAX, of the access clock
  MaxIncarnations,  \* bound: daemon starts in one behaviour
  MaxExecutions     \* bound: mutations executed in one behaviour

ASSUME ReplayAssumption ==
  /\ IsFiniteSet(Principals)
  /\ Unknown \in Results
  /\ NoResult \notin Results
  /\ MaxPrincipals \in Nat \ {0}
  /\ MaxEpochs \in Nat \ {0}
  /\ ResultsPerEpoch \in Nat /\ ResultsPerEpoch >= 2
  /\ MaxOrdinal \in Nat
  /\ MaxSequence \in Nat
  /\ MaxClock \in Nat /\ MaxClock > MaxEpochs
  /\ MaxIncarnations \in Nat \ {0}
  /\ MaxExecutions \in Nat

VARIABLES
  incarnation,  \* the daemon incarnation; a restart draws a new one
  issued,       \* issued_through: highest ordinal issued, 0 for no entry
  retired,      \* retired_through: highest ordinal retired, 0 for no entry
  active,       \* the keys of epochs
  lastAccess,   \* ReplayEpochEntry::last_access
  lowWater,     \* ReplayEpochState::low_water
  operations,   \* ReplayEpochState::operations: sequence -> cell, 0 if absent
  clock,        \* access_clock
  heap,         \* every OperationCell ever made, in order of execution
  callers,      \* what each request thread is doing
  before        \* history: <<j, k>> when epoch j was last used before epoch k

registryVars == <<issued, retired, active, lastAccess, lowWater, operations,
                  clock, before>>
vars == <<incarnation, registryVars, heap, callers>>

Ordinals == 1 .. MaxOrdinal
Positions == 1 .. MaxSequence
Keys == Principals \X Ordinals

OperationIds == [incarnation : 1 .. MaxIncarnations, principal : Principals,
                 ordinal : Ordinals, sequence : Positions]

Cells == [op : OperationIds, fingerprint : Fingerprints,
          result : Results \cup {NoResult}]

KeyOf(op) == <<op.principal, op.ordinal>>

NoEpoch == [s \in Positions |-> 0]

Resident(k) == {s \in Positions : operations[k][s] # 0}

CellComplete(i) == heap[i].result # NoResult

\* ReplayEpoch::is_fully_complete
IsFullyComplete(k) == \A s \in Resident(k) : CellComplete(operations[k][s])

Idle == [pc |-> "idle"]
Executing(cell) == [pc |-> "executing", cell |-> cell]
Joining(cell, op, fp) ==
  [pc |-> "joining", cell |-> cell, op |-> op, fingerprint |-> fp]

Init ==
  /\ incarnation = 1
  /\ issued = [p \in Principals |-> 0]
  /\ retired = [p \in Principals |-> 0]
  /\ active = {}
  /\ lastAccess = [k \in Keys |-> 0]
  /\ lowWater = [k \in Keys |-> 0]
  /\ operations = [k \in Keys |-> NoEpoch]
  /\ clock = 0
  /\ heap = <<>>
  /\ callers = [c \in Callers |-> Idle]
  /\ before = {}

-----------------------------------------------------------------------------
(* next_access: the clock is compacted when it reaches its maximum, every  *)
(* epoch keeping its rank.  The epochs are those of the set ks.            *)

Rank(k, ks) == Cardinality({j \in ks : lastAccess[j] < lastAccess[k]})

\* Mutant: the clock restarts and the epochs keep their stamps.
UncompactedAccess(ks) == lastAccess

CompactedAccess(ks) ==
  IF clock = MaxClock
  THEN [k \in Keys |-> IF k \in ks THEN Rank(k, ks) ELSE lastAccess[k]]
  ELSE lastAccess

NextAccess(ks) ==
  IF clock = MaxClock THEN Cardinality(ks) + 1 ELSE clock + 1

\* History: epoch k is used now, after those of the set ks.
LastAfter(ks, k) == (before \cap (ks \X ks)) \cup (ks \X {k})

-----------------------------------------------------------------------------
(* retire_one: the least recently used epoch whose own cells, and those of *)
(* all older epochs of its principal, are complete.                        *)

\* Mutant: only the candidate's own cells are looked at.
OwnComplete(k) == IsFullyComplete(k)

PrefixComplete(k) ==
  \A j \in active : j[1] = k[1] /\ j[2] <= k[2] => IsFullyComplete(j)

Retirable(k) ==
  /\ k \in active
  /\ PrefixComplete(k)
  /\ \A j \in active : PrefixComplete(j) => lastAccess[k] <= lastAccess[j]

\* Mutant: the older epochs of the principal stay.
RetiredAlone(k) == {k}

RetiredWith(k) == {j \in active : j[1] = k[1] /\ j[2] <= k[2]}

\* issue, when no epoch has to be retired or the epochs in gone have been.
IssueAfter(p, gone) ==
  LET key  == <<p, issued[p] + 1>>
      kept == active \ gone
  IN /\ issued' = [issued EXCEPT ![p] = @ + 1]
     /\ active' = kept \cup {key}
     /\ lastAccess' = [k \in Keys |-> IF k = key THEN NextAccess(kept)
                                      ELSE IF k \in gone THEN 0
                                      ELSE CompactedAccess(kept)[k]]
     /\ clock' = NextAccess(kept)
     /\ operations' = [k \in Keys |-> IF k \in gone \cup {key}
                                      THEN NoEpoch ELSE operations[k]]
     /\ lowWater' = [k \in Keys |-> IF k \in gone \cup {key}
                                    THEN 0 ELSE lowWater[k]]
     /\ before' = LastAfter(kept, key)
     /\ UNCHANGED <<incarnation, heap, callers>>

\* Mutant: the ordinal is incremented without the check for overflow.
MayIssueUnchecked(p) ==
  \/ issued[p] # 0
  \/ Cardinality({q \in Principals : issued[q] # 0}) < MaxPrincipals

\* A principal may hold leases; its next ordinal does not overflow.
MayIssue(p) ==
  /\ \/ issued[p] # 0
     \/ Cardinality({q \in Principals : issued[q] # 0}) < MaxPrincipals
  /\ issued[p] < MaxOrdinal

\* Mutant: one epoch too many.
RegistryOverfull == Cardinality(active) > MaxEpochs

RegistryFull == Cardinality(active) >= MaxEpochs

\* The registry holds at most MaxEpochs epochs (WithinBounds), and retiring
\* removes one at least: the loop of issue runs at most once.
Issue(p) ==
  /\ MayIssue(p)
  /\ \/ /\ ~RegistryFull
        /\ IssueAfter(p, {})
        /\ UNCHANGED retired
     \/ /\ RegistryFull
        /\ \E k \in active :
             /\ Retirable(k)
             /\ retired' = [retired EXCEPT ![k[1]] = IF @ < k[2] THEN k[2] ELSE @]
             /\ IssueAfter(p, RetiredWith(k))

-----------------------------------------------------------------------------
(* register: the checks that need no epoch come first, and touch nothing.  *)

Admissible(op) ==
  /\ op.incarnation = incarnation
  /\ op.ordinal > retired[op.principal]
  /\ op.ordinal <= issued[op.principal]

Touch(k) ==
  /\ lastAccess' = IF k \in active
                   THEN [CompactedAccess(active) EXCEPT ![k] = NextAccess(active)]
                   ELSE CompactedAccess(active)
  /\ clock' = NextAccess(active)
  /\ before' = IF k \in active THEN LastAfter(active \ {k}, k) ELSE before
  /\ UNCHANGED <<incarnation, issued, retired, active>>

SaturatingSucc(s) == IF s = MaxSequence THEN s ELSE s + 1

Larger(a, b) == IF a < b THEN b ELSE a

\* Mutant: the request is not compared with the one that made the cell.
AnyRequest(cell, fp) == TRUE

SameRequest(cell, fp) == heap[cell].fingerprint = fp

\* A sequence the epoch remembers: join its cell, or refuse another request
\* made under the same operation id.
Join(c, op, fp) ==
  LET k == KeyOf(op)
      cell == operations[k][op.sequence]
  IN /\ cell # 0
     /\ IF SameRequest(cell, fp)
        THEN callers' = [callers EXCEPT ![c] = Joining(cell, op, fp)]
        ELSE UNCHANGED callers
     /\ UNCHANGED <<lowWater, operations, heap>>

\* A new cell for the sequence, in the window that eviction has left.
InsertCell(c, op, fp, window) ==
  /\ heap' = Append(heap, [op |-> op, fingerprint |-> fp, result |-> NoResult])
  /\ operations' = [operations EXCEPT ![KeyOf(op)] =
                      [window EXCEPT ![op.sequence] = Len(heap) + 1]]
  /\ callers' = [callers EXCEPT ![c] = Executing(Len(heap) + 1)]

WindowFull(k) == Cardinality(Resident(k)) >= ResultsPerEpoch

Oldest(k, s) == s \in Resident(k) /\ \A t \in Resident(k) : s <= t

Evictable(k, s) == Oldest(k, s) /\ CellComplete(operations[k][s])

\* Mutant: only an operation in flight is joined; a completed one runs again.
ExecuteCompleted(c, op, fp) ==
  LET k == KeyOf(op)
      cell == operations[k][op.sequence]
  IN /\ cell # 0 => CellComplete(cell)
     /\ op.sequence >= lowWater[k]
     /\ Len(heap) < MaxExecutions
     /\ ~WindowFull(k)
     /\ InsertCell(c, op, fp, operations[k])
     /\ UNCHANGED lowWater

\* The window holds at most ResultsPerEpoch cells (WithinBounds), so that the
\* loop of ReplayEpoch::register evicts at most one: the oldest, if complete.
Execute(c, op, fp) ==
  LET k == KeyOf(op)
  IN /\ operations[k][op.sequence] = 0
     /\ op.sequence >= lowWater[k]
     /\ Len(heap) < MaxExecutions
     /\ \/ /\ ~WindowFull(k)
           /\ InsertCell(c, op, fp, operations[k])
           /\ UNCHANGED lowWater
        \/ /\ WindowFull(k)
           /\ \E s \in Positions :
                /\ Evictable(k, s)
                /\ InsertCell(c, op, fp, [operations[k] EXCEPT ![s] = 0])
                /\ lowWater' = [lowWater EXCEPT
                                  ![k] = Larger(@, SaturatingSucc(s))]

\* The epoch refuses: forgotten, or a window full of operations in flight.
Refuse(op) ==
  LET k == KeyOf(op)
  IN /\ operations[k][op.sequence] = 0
     /\ \/ op.sequence < lowWater[k]
        \/ WindowFull(k) /\ ~\E s \in Positions : Evictable(k, s)
     /\ UNCHANGED <<lowWater, operations, heap, callers>>

Register(c, op, fp) ==
  /\ callers[c].pc = "idle"
  /\ Admissible(op)
  /\ Touch(KeyOf(op))
  /\ IF KeyOf(op) \in active
     THEN Join(c, op, fp) \/ Execute(c, op, fp) \/ Refuse(op)
     ELSE UNCHANGED <<lowWater, operations, heap, callers>>

-----------------------------------------------------------------------------
(* The executing thread runs the mutation and completes the cell; a panic, *)
(* or the completion guard dropped on the way out, completes it Unknown.   *)

Complete(c, r) ==
  /\ callers[c].pc = "executing"
  /\ heap' = [heap EXCEPT ![callers[c].cell].result =
                IF @ = NoResult THEN r ELSE @]
  /\ callers' = [callers EXCEPT ![c] = Idle]
  /\ UNCHANGED <<incarnation, registryVars>>

\* OperationCell::wait: the joined thread answers with the retained result.
Answer(c) ==
  /\ callers[c].pc = "joining"
  /\ CellComplete(callers[c].cell)
  /\ callers' = [callers EXCEPT ![c] = Idle]
  /\ UNCHANGED <<incarnation, registryVars, heap>>

\* The daemon dies and starts again: nothing of the registry is persisted.
Restart ==
  /\ incarnation < MaxIncarnations
  /\ incarnation' = incarnation + 1
  /\ issued' = [p \in Principals |-> 0]
  /\ retired' = [p \in Principals |-> 0]
  /\ active' = {}
  /\ lastAccess' = [k \in Keys |-> 0]
  /\ lowWater' = [k \in Keys |-> 0]
  /\ operations' = [k \in Keys |-> NoEpoch]
  /\ clock' = 0
  /\ before' = {}
  /\ callers' = [c \in Callers |-> Idle]
  /\ UNCHANGED heap

Next ==
  \/ \E p \in Principals : Issue(p)
  \/ \E c \in Callers, op \in OperationIds, fp \in Fingerprints :
       Register(c, op, fp)
  \/ \E c \in Callers, r \in Results : Complete(c, r)
  \/ \E c \in Callers : Answer(c)
  \/ Restart

Spec == Init /\ [][Next]_vars

-----------------------------------------------------------------------------
(* Properties.                                                             *)

CallerStates ==
  {Idle} \cup [pc : {"executing"}, cell : Nat]
         \cup [pc : {"joining"}, cell : Nat, op : OperationIds,
               fingerprint : Fingerprints]

\* The registry's fields have the types of the Rust structs.
TypeOK ==
  /\ incarnation \in 1 .. MaxIncarnations
  /\ issued \in [Principals -> 0 .. MaxOrdinal]
  /\ retired \in [Principals -> 0 .. MaxOrdinal]
  /\ active \subseteq Keys
  /\ lastAccess \in [Keys -> Nat]
  /\ lowWater \in [Keys -> 0 .. MaxSequence]
  /\ operations \in [Keys -> [Positions -> Nat]]
  /\ clock \in Nat
  /\ heap \in Seq(Cells)
  /\ callers \in [Callers -> CallerStates]

\* A mutation is executed at most once for its operation id, whatever its
\* client retries: after it is in flight, complete, evicted from its window,
\* retired with its lease, or made in an earlier daemon incarnation.
AtMostOnce ==
  \A i, j \in DOMAIN heap : heap[i].op = heap[j].op => i = j

\* An operation in flight is never forgotten: its epoch stays resident, the
\* epoch still maps its sequence to its cell, and a thread is there to
\* complete it, so that a retry joins it and is answered.
InflightRetained ==
  \A i \in DOMAIN heap :
    heap[i].result = NoResult /\ heap[i].op.incarnation = incarnation =>
      /\ KeyOf(heap[i].op) \in active
      /\ operations[KeyOf(heap[i].op)][heap[i].op.sequence] = i
      /\ \E c \in Callers : callers[c] = Executing(i)

\* A retry waits on the cell of the very operation it names, made for the
\* very request it repeats, even after that cell has left the registry.
JoinedCellMatches ==
  \A c \in Callers : callers[c].pc = "joining" =>
    /\ callers[c].cell \in DOMAIN heap
    /\ heap[callers[c].cell].op = callers[c].op
    /\ heap[callers[c].cell].fingerprint = callers[c].fingerprint

\* An operation is answered by its own cell: the cell in flight is kept for
\* retries, and a retry waits on no other.
CellsRetained == InflightRetained /\ JoinedCellMatches

\* The resident epochs are exactly the issued leases above the retirement
\* floor, as the last comment of ReplayRegistry::register says: an issued
\* epoch that is missing was retired.
ResidentExactly ==
  active = {k \in Keys : retired[k[1]] < k[2] /\ k[2] <= issued[k[1]]}

\* The bounds on memory hold: epochs, principals, and cells of an epoch.
WithinBounds ==
  /\ Cardinality(active) <= MaxEpochs
  /\ Cardinality({p \in Principals : issued[p] # 0}) <= MaxPrincipals
  /\ \A k \in active : Cardinality(Resident(k)) <= ResultsPerEpoch

\* The access stamps order the epochs by their last use, also after the
\* clock has been compacted, so that the one retired is least recently used.
RecencyOrder ==
  /\ \A j, k \in active : /\ <<j, k>> \in before <=> lastAccess[j] < lastAccess[k]
                          /\ lastAccess[j] = lastAccess[k] => j = k
  /\ \A k \in active : lastAccess[k] <= clock

\* The registry stays within its bounds by retiring what was used least
\* recently (ReplayRegistry::register, touch).
BoundedByRecency == WithinBounds /\ RecencyOrder
=============================================================================
