------------------------ MODULE ReplayRegistryProofs ------------------------
(***************************************************************************)
(* What the replay registry promises for any number of principals, request *)
(* threads, epochs, cells and restarts.                                    *)
(***************************************************************************)
EXTENDS ReplayRegistry, FiniteSetTheorems, TLAPS


\* The epoch of a sequence maps it to the cell made for that very sequence.
CellsAreOwn ==
  \A k \in Keys, s \in Positions : operations[k][s] # 0 =>
    /\ operations[k][s] \in DOMAIN heap
    /\ heap[operations[k][s]].op =
         [incarnation |-> incarnation, principal |-> k[1], ordinal |-> k[2],
          sequence |-> s]

\* What the registry knows of an operation of this incarnation that has been
\* executed: its cell, or a mark under which it refuses it.
Remembered ==
  \A i \in DOMAIN heap :
    LET op == heap[i].op IN
    /\ op.incarnation <= incarnation
    /\ op.incarnation = incarnation =>
         /\ op.ordinal <= issued[op.principal]
         /\ \/ op.ordinal <= retired[op.principal]
            \/ operations[KeyOf(op)][op.sequence] = i
            \/ op.sequence < lowWater[KeyOf(op)]

\* Epochs, and hence ranks, are finite in number.
LEMMA FiniteKeys == \A S \in SUBSET Keys : IsFiniteSet(S) /\ Cardinality(S) \in Nat
<1>1. IsFiniteSet(Ordinals)
  BY FS_Interval, ReplayAssumption DEF Ordinals
<1>2. IsFiniteSet(Keys)
  BY Zenon, <1>1, FS_Product, ReplayAssumption DEF Keys
<1>3. QED
  BY Zenon, <1>2, FS_Subset, FS_CardinalityType

\* The parts of a key, and the numbers of the registry.
LEMMA KeyTypes == \A k \in Keys : k[1] \in Principals /\ k[2] \in Nat
BY DEF Keys, Ordinals

\* What the type invariant says of each part of the registry.
LEMMA TypeFacts ==
  ASSUME TypeOK
  PROVE  /\ issued \in [Principals -> Nat]
         /\ retired \in [Principals -> Nat]
         /\ active \subseteq Keys
         /\ lowWater \in [Keys -> Nat]
         /\ operations \in [Keys -> [Positions -> Nat]]
         /\ callers \in [Callers -> CallerStates]
<1>1. /\ issued \in [Principals -> 0 .. MaxOrdinal]
      /\ retired \in [Principals -> 0 .. MaxOrdinal]
      /\ lowWater \in [Keys -> 0 .. MaxSequence]
  BY Zenon DEF TypeOK
<1>2. \A n : 0 .. n \subseteq Nat
  OBVIOUS
<1>3. QED
  BY Zenon, <1>1, <1>2 DEF TypeOK

\* next_access yields stamps, whatever the epochs it compacts.
LEMMA AccessType ==
  ASSUME TypeOK, NEW ks \in SUBSET Keys
  PROVE  CompactedAccess(ks) \in [Keys -> Nat] /\ NextAccess(ks) \in Nat
<1>1. \A k \in Keys : Rank(k, ks) \in Nat
  <2> SUFFICES ASSUME NEW k \in Keys PROVE Rank(k, ks) \in Nat
    BY Zenon
  <2>1. {j \in ks : lastAccess[j] < lastAccess[k]} \in SUBSET Keys
    BY Zenon
  <2>2. QED
    BY Zenon, <2>1, FiniteKeys DEF Rank
<1>2. Cardinality(ks) \in Nat
  BY Zenon, FiniteKeys
<1>3. QED
  BY <1>1, <1>2 DEF CompactedAccess, NextAccess, TypeOK

\* A full window holds a later sequence than its oldest, so the low-water
\* mark set when the oldest is evicted does not saturate.
LEMMA OldestIsNotLast ==
  ASSUME TypeOK, NEW k \in Keys, WindowFull(k), NEW s \in Positions, Oldest(k, s)
  PROVE  s < MaxSequence /\ SaturatingSucc(s) = s + 1
<1>1. PICK t \in Resident(k) : t # s
  <2>1. Cardinality({s}) = 1
    BY Zenon, FS_Singleton
  <2>2. Resident(k) # {s}
    BY <2>1, ReplayAssumption DEF WindowFull
  <2>3. QED
    BY Zenon, <2>2 DEF Oldest
<1>2. t \in Positions /\ s < t /\ t <= MaxSequence
  BY <1>1 DEF Oldest, Resident, Positions
<1>3. QED
  BY <1>2, ReplayAssumption DEF SaturatingSucc, Positions

\* Completing a cell changes the result of that cell alone, once.
LEMMA CellUpdate ==
  ASSUME TypeOK, NEW j, NEW r \in Results,
         heap' = [heap EXCEPT ![j].result = IF @ = NoResult THEN r ELSE @]
  PROVE  /\ heap' \in Seq(Cells)
         /\ DOMAIN heap' = DOMAIN heap
         /\ \A i \in DOMAIN heap :
              /\ heap'[i].op = heap[i].op
              /\ heap'[i].fingerprint = heap[i].fingerprint
              /\ heap'[i].result = IF i = j /\ heap[i].result = NoResult
                                   THEN r ELSE heap[i].result
<1> DEFINE n == Len(heap)
<1>1. n \in Nat /\ DOMAIN heap = 1 .. n /\ heap \in [1 .. n -> Cells]
  BY DEF TypeOK
<1>2. ASSUME NEW cell \in Cells, NEW x \in Results \cup {NoResult}
      PROVE  /\ [cell EXCEPT !.result = x] \in Cells
             /\ [cell EXCEPT !.result = x].op = cell.op
             /\ [cell EXCEPT !.result = x].fingerprint = cell.fingerprint
             /\ [cell EXCEPT !.result = x].result = x
  BY Zenon DEF Cells
<1>3. \A i \in 1 .. n : heap[i].result \in Results \cup {NoResult}
  BY Zenon, <1>1 DEF Cells
<1> DEFINE upd(i) == [heap[i] EXCEPT !.result =
                        IF heap[i].result = NoResult THEN r ELSE heap[i].result]
<1>4. heap' = [i \in 1 .. n |-> IF i = j THEN upd(i) ELSE heap[i]]
  BY <1>1, Zenon
<1>5. heap' \in [1 .. n -> Cells]
  <2>1. \A i \in 1 .. n : upd(i) \in Cells
    BY Zenon, <1>1, <1>2, <1>3
  <2> HIDE DEF upd, n
  <2>2. QED
    BY <1>1, <1>4, <2>1, Zenon
<1>6. heap' \in Seq(Cells)
  BY <1>1, <1>5
<1>7. QED
  BY <1>1, <1>2, <1>3, <1>4, <1>6

\* The registry's fields keep their types.
THEOREM TypeCorrect == Spec => []TypeOK
<1>1. Init => TypeOK
  <2> SUFFICES ASSUME Init PROVE TypeOK
    BY Zenon
  <2>1. incarnation \in 1 .. MaxIncarnations /\ clock \in Nat
    BY ReplayAssumption DEF Init
  <2>2. 0 \in 0 .. MaxOrdinal /\ 0 \in 0 .. MaxSequence
    BY ReplayAssumption
  <2>3. operations \in [Keys -> [Positions -> Nat]] /\ lastAccess \in [Keys -> Nat]
    BY Zenon DEF Init, NoEpoch
  <2>4. heap \in Seq(Cells) /\ callers \in [Callers -> CallerStates]
    BY DEF Init, CallerStates
  <2>5. QED
    BY Zenon, <2>1, <2>2, <2>3, <2>4 DEF Init, TypeOK
<1>2. TypeOK /\ [Next]_vars => TypeOK'
  <2> SUFFICES ASSUME TypeOK, [Next]_vars PROVE TypeOK'
    BY Zenon
  <2>1. ASSUME NEW p \in Principals, Issue(p) PROVE TypeOK'
    <3>1. ASSUME NEW gone \in SUBSET active, IssueAfter(p, gone), MayIssue(p),
                 retired' \in [Principals -> 0 .. MaxOrdinal]
          PROVE  TypeOK'
      <4>1. <<p, issued[p] + 1>> \in Keys /\ active \ gone \in SUBSET Keys
        BY SMTT(30), <3>1, ReplayAssumption DEF TypeOK, MayIssue, Keys, Ordinals
      <4>2. lastAccess' \in [Keys -> Nat] /\ clock' \in Nat
        BY <3>1, <4>1, AccessType, Zenon DEF TypeOK, IssueAfter
      <4>3. issued' \in [Principals -> 0 .. MaxOrdinal]
        BY <3>1, ReplayAssumption DEF TypeOK, IssueAfter, MayIssue
      <4>4. /\ lowWater' \in [Keys -> 0 .. MaxSequence]
            /\ operations' \in [Keys -> [Positions -> Nat]]
        BY <3>1, ReplayAssumption DEF TypeOK, IssueAfter, NoEpoch
      <4>5. active' \subseteq Keys
        BY Zenon, <3>1, <4>1 DEF IssueAfter
      <4>6. QED
        BY <3>1, <4>2, <4>3, <4>4, <4>5, Zenon DEF TypeOK, IssueAfter, CallerStates
    <3>2. CASE ~RegistryFull
      BY <2>1, <3>1, <3>2, Zenon DEF Issue, TypeOK
    <3>3. CASE RegistryFull
      <4>1. PICK k \in active :
              /\ retired' = [retired EXCEPT ![k[1]] = IF @ < k[2] THEN k[2] ELSE @]
              /\ IssueAfter(p, RetiredWith(k))
        BY Zenon, <2>1, <3>3 DEF Issue
      <4>2. retired' \in [Principals -> 0 .. MaxOrdinal]
        BY <4>1 DEF TypeOK, Keys, Ordinals
      <4>3. QED
        BY Zenon, <2>1, <3>1, <4>1, <4>2 DEF Issue, RetiredWith
    <3>4. QED
      BY Zenon, <3>2, <3>3
  <2>2. ASSUME NEW c \in Callers, NEW op \in OperationIds, NEW fp \in Fingerprints,
               Register(c, op, fp)
        PROVE  TypeOK'
    <3>1. KeyOf(op) \in Keys /\ op.sequence \in Positions
      BY Zenon DEF KeyOf, Keys, OperationIds
    <3>2. /\ lastAccess' \in [Keys -> Nat] /\ clock' \in Nat
          /\ UNCHANGED <<incarnation, issued, retired, active>>
      BY Zenon, <2>2, <3>1, AccessType DEF TypeOK, Register, Touch
    <3>3. /\ lowWater' \in [Keys -> 0 .. MaxSequence]
          /\ operations' \in [Keys -> [Positions -> Nat]]
          /\ heap' \in Seq(Cells)
          /\ callers' \in [Callers -> CallerStates]
      <4>1. CASE Join(c, op, fp)
        BY <3>1, <4>1 DEF TypeOK, Join, Joining, CallerStates
      <4>2. ASSUME NEW window \in [Positions -> Nat], InsertCell(c, op, fp, window)
            PROVE  /\ operations' \in [Keys -> [Positions -> Nat]]
                   /\ heap' \in Seq(Cells)
                   /\ callers' \in [Callers -> CallerStates]
        <5>1. [op |-> op, fingerprint |-> fp, result |-> NoResult] \in Cells
          BY Zenon DEF Cells
        <5>2. QED
          BY <3>1, <4>2, <5>1 DEF TypeOK, InsertCell, Executing, CallerStates
      <4>3. CASE Execute(c, op, fp)
        <5>1. CASE InsertCell(c, op, fp, operations[KeyOf(op)]) /\ UNCHANGED lowWater
          BY Zenon, <3>1, <4>2, <5>1 DEF TypeOK
        <5>2. ASSUME NEW s \in Positions,
                     InsertCell(c, op, fp, [operations[KeyOf(op)] EXCEPT ![s] = 0]),
                     lowWater' = [lowWater EXCEPT
                                    ![KeyOf(op)] = Larger(@, SaturatingSucc(s))]
              PROVE  TypeOK'
          <6>1. [operations[KeyOf(op)] EXCEPT ![s] = 0] \in [Positions -> Nat]
            BY Zenon, <3>1 DEF TypeOK
          <6>2. lowWater' \in [Keys -> 0 .. MaxSequence]
            <7>1. lowWater \in [Keys -> 0 .. MaxSequence] /\ s \in 1 .. MaxSequence
              BY Zenon DEF TypeOK, Positions
            <7>2. Larger(lowWater[KeyOf(op)], SaturatingSucc(s)) \in 0 .. MaxSequence
              BY <3>1, <7>1, ReplayAssumption DEF SaturatingSucc, Larger
            <7>3. QED
              BY Zenon, <3>1, <5>2, <7>1, <7>2
          <6>3. QED
            BY <3>2, <4>2, <5>2, <6>1, <6>2, Zenon DEF TypeOK
        <5>3. QED
          BY <4>3, <5>1, <5>2, Zenon DEF Execute, TypeOK
      <4>4. CASE Refuse(op)
        BY Zenon, <4>4 DEF TypeOK, Refuse
      <4>5. QED
        BY <2>2, <4>1, <4>3, <4>4, Zenon DEF TypeOK, Register
    <3>4. QED
      BY Zenon, <3>2, <3>3 DEF TypeOK
  <2>3. ASSUME NEW c \in Callers, NEW r \in Results, Complete(c, r) PROVE TypeOK'
    <3>1. heap' \in Seq(Cells)
      BY <2>3, CellUpdate, Zenon DEF Complete
    <3>2. callers' \in [Callers -> CallerStates]
      BY Zenon, <2>3 DEF TypeOK, Complete, CallerStates, Idle
    <3>3. QED
      BY Zenon, <2>3, <3>1, <3>2 DEF TypeOK, Complete, registryVars
  <2>4. ASSUME NEW c \in Callers, Answer(c) PROVE TypeOK'
    BY Zenon, <2>4 DEF TypeOK, Answer, registryVars, CallerStates, Idle
  <2>5. CASE Restart
    <3>1. incarnation' \in 1 .. MaxIncarnations
      BY <2>5, ReplayAssumption DEF TypeOK, Restart
    <3>2. 0 \in 0 .. MaxOrdinal /\ 0 \in 0 .. MaxSequence
      BY ReplayAssumption
    <3>3. operations' \in [Keys -> [Positions -> Nat]] /\ lastAccess' \in [Keys -> Nat]
      BY Zenon, <2>5 DEF Restart, NoEpoch
    <3>4. heap' \in Seq(Cells) /\ callers' \in [Callers -> CallerStates]
      BY Zenon, <2>5 DEF Restart, CallerStates, TypeOK
    <3>5. QED
      BY Zenon, <2>5, <3>1, <3>2, <3>3, <3>4 DEF Restart, TypeOK
  <2>6. CASE UNCHANGED vars
    BY Zenon, <2>6 DEF TypeOK, vars, registryVars, CallerStates
  <2>7. QED
    BY Zenon, <2>1, <2>2, <2>3, <2>4, <2>5, <2>6 DEF Next
<1>3. QED
  BY <1>1, <1>2, PTL DEF Spec

\* The inductive invariant.
ReplayInv == CellsAreOwn /\ Remembered /\ AtMostOnce /\ InflightRetained
             /\ JoinedCellMatches

\* The operation id of a cell has the types of its fields.
LEMMA HeapTypes ==
  ASSUME TypeOK
  PROVE  \A i \in DOMAIN heap :
           /\ i # 0
           /\ heap[i].op \in OperationIds
           /\ heap[i].op.incarnation \in Nat
           /\ heap[i].op.principal \in Principals
           /\ heap[i].op.ordinal \in Nat
           /\ heap[i].op.sequence \in Positions
           /\ KeyOf(heap[i].op) \in Keys
           /\ KeyOf(heap[i].op)[1] = heap[i].op.principal
           /\ KeyOf(heap[i].op)[2] = heap[i].op.ordinal
<1> SUFFICES ASSUME NEW i \in DOMAIN heap PROVE i # 0 /\ heap[i].op \in OperationIds
  BY DEF OperationIds, KeyOf, Keys, Ordinals
<1>1. i # 0 /\ heap[i] \in Cells
  BY DEF TypeOK
<1>2. QED
  BY Zenon, <1>1 DEF Cells

\* Nothing is in flight, remembered or joined in a registry just made.
LEMMA ReplayInvInit == Init => ReplayInv
BY DEF Init, ReplayInv, CellsAreOwn, Remembered, AtMostOnce, InflightRetained,
       JoinedCellMatches, NoEpoch, Idle

\* Issuing a lease, with or without retiring the complete epochs in gone.
IssueStep(p, gone) ==
  /\ gone \subseteq active
  /\ MayIssue(p)
  /\ IssueAfter(p, gone)
  /\ retired' \in [Principals -> Nat]
  /\ \A q \in Principals : retired[q] <= retired'[q]
  /\ \A k \in gone : k[2] <= retired'[k[1]] /\ IsFullyComplete(k)

\* Issuing keeps the invariant: the new epoch is empty, and the epochs that
\* go are complete and lie under the new retirement floor.
LEMMA IssuePreserves ==
  ASSUME TypeOK, ReplayInv, NEW p \in Principals, NEW gone, IssueStep(p, gone)
  PROVE  ReplayInv'
<1> DEFINE key == <<p, issued[p] + 1>>
<1>1. heap' = heap /\ callers' = callers /\ incarnation' = incarnation
  BY Zenon DEF IssueStep, IssueAfter
<1>2. \A k \in Keys : k \notin gone /\ k # key =>
        operations'[k] = operations[k] /\ lowWater'[k] = lowWater[k]
  BY Zenon, TypeFacts DEF IssueStep, IssueAfter
<1>3. \A k \in Keys, s \in Positions : k \in gone \/ k = key => operations'[k][s] = 0
  BY Zenon DEF IssueStep, IssueAfter, NoEpoch
<1>a. issued \in [Principals -> Nat] /\ issued' = [issued EXCEPT ![p] = @ + 1]
  BY Zenon, TypeFacts DEF IssueStep, IssueAfter
<1>b. /\ \A q \in Principals : retired[q] \in Nat /\ retired'[q] \in Nat
                              /\ retired[q] <= retired'[q]
      /\ \A k \in gone : k[2] <= retired'[k[1]] /\ IsFullyComplete(k)
  BY Zenon, TypeFacts DEF IssueStep
<1>c. \A k \in active : k \notin gone => k \in active'
  BY Zenon DEF IssueStep, IssueAfter
<1> HIDE DEF key
<1>4. CellsAreOwn'
  BY <1>1, <1>2, <1>3 DEF ReplayInv, CellsAreOwn
<1>5. ASSUME NEW i \in DOMAIN heap, heap[i].op.incarnation = incarnation
      PROVE  heap[i].op.ordinal <= issued[heap[i].op.principal] /\ KeyOf(heap[i].op) # key
  <2>1. heap[i].op.ordinal <= issued[heap[i].op.principal]
    BY Zenon, <1>5 DEF ReplayInv, Remembered
  <2>2. QED
    BY <1>a, <2>1, HeapTypes DEF KeyOf, key
<1>6. Remembered'
  <2> SUFFICES ASSUME NEW i \in DOMAIN heap
               PROVE  LET op == heap[i].op IN
                      /\ op.incarnation <= incarnation
                      /\ op.incarnation = incarnation =>
                           /\ op.ordinal <= issued'[op.principal]
                           /\ \/ op.ordinal <= retired'[op.principal]
                              \/ operations'[KeyOf(op)][op.sequence] = i
                              \/ op.sequence < lowWater'[KeyOf(op)]
    BY Zenon, <1>1 DEF Remembered
  <2>1. heap[i].op.incarnation <= incarnation
    BY Zenon DEF ReplayInv, Remembered
  <2>2. ASSUME heap[i].op.incarnation = incarnation
        PROVE  heap[i].op.ordinal <= issued'[heap[i].op.principal]
    <3>1. /\ heap[i].op.ordinal \in Nat /\ heap[i].op.principal \in Principals
          /\ heap[i].op.ordinal <= issued[heap[i].op.principal]
      BY Zenon, <1>5, <2>2, HeapTypes
    <3>2. QED
      BY <1>a, <3>1
  <2>3. ASSUME heap[i].op.incarnation = incarnation
        PROVE  LET op == heap[i].op IN
               \/ op.ordinal <= retired'[op.principal]
               \/ operations'[KeyOf(op)][op.sequence] = i
               \/ op.sequence < lowWater'[KeyOf(op)]
    <3>1. CASE KeyOf(heap[i].op) \in gone
      BY Zenon, <1>b, <3>1, HeapTypes
    <3>2. CASE KeyOf(heap[i].op) \notin gone
      <4>1. /\ operations'[KeyOf(heap[i].op)] = operations[KeyOf(heap[i].op)]
            /\ lowWater'[KeyOf(heap[i].op)] = lowWater[KeyOf(heap[i].op)]
        BY Zenon, <1>2, <1>5, <2>3, <3>2, HeapTypes
      <4>2. QED
        BY <1>b, <2>3, <4>1, HeapTypes DEF ReplayInv, Remembered
    <3>3. QED
      BY Zenon, <3>1, <3>2
  <2>4. QED
    BY Zenon, <2>1, <2>2, <2>3
<1>7. InflightRetained'
  <2> SUFFICES ASSUME NEW i \in DOMAIN heap, heap[i].result = NoResult,
                      heap[i].op.incarnation = incarnation
               PROVE  /\ KeyOf(heap[i].op) \in active'
                      /\ operations'[KeyOf(heap[i].op)][heap[i].op.sequence] = i
                      /\ \E c \in Callers : callers[c] = Executing(i)
    BY Zenon, <1>1 DEF InflightRetained, Executing
  <2>1. /\ KeyOf(heap[i].op) \in active
        /\ operations[KeyOf(heap[i].op)][heap[i].op.sequence] = i
        /\ \E c \in Callers : callers[c] = Executing(i)
    BY Zenon DEF ReplayInv, InflightRetained
  <2>2. KeyOf(heap[i].op) \notin gone
    BY Zenon, <1>b, <2>1, HeapTypes DEF IsFullyComplete, Resident, CellComplete
  <2>3. QED
    BY Zenon, <1>2, <1>5, <1>c, <2>1, <2>2, HeapTypes
<1>8. AtMostOnce' /\ JoinedCellMatches'
  BY Zenon, <1>1 DEF ReplayInv, AtMostOnce, JoinedCellMatches
<1>9. QED
  BY Zenon, <1>4, <1>6, <1>7, <1>8 DEF ReplayInv

\* Executing a new operation, in the window left by evicting sequences under
\* the new low-water mark whose cells are complete.
InsertStep(c, op, fp, window) ==
  LET k == KeyOf(op) IN
  /\ callers[c].pc = "idle"
  /\ Admissible(op)
  /\ k \in active
  /\ operations[k][op.sequence] = 0
  /\ op.sequence >= lowWater[k]
  /\ window \in [Positions -> Nat]
  /\ InsertCell(c, op, fp, window)
  /\ \A s \in Positions : \/ window[s] = operations[k][s]
                         \/ /\ window[s] = 0
                            /\ s < lowWater'[k]
                            /\ operations[k][s] # 0
                            /\ CellComplete(operations[k][s])
  /\ lowWater' \in [Keys -> Nat]
  /\ \A j \in Keys : lowWater[j] <= lowWater'[j]
  /\ UNCHANGED <<incarnation, issued, retired, active>>

\* The new operation has never been executed, and no cell in flight or
\* operation known to be executed is lost by the eviction.
LEMMA InsertPreserves ==
  ASSUME TypeOK, ReplayInv, NEW c \in Callers, NEW op \in OperationIds,
         NEW fp \in Fingerprints, NEW window, InsertStep(c, op, fp, window)
  PROVE  ReplayInv'
<1> DEFINE k0 == KeyOf(op)
           n == Len(heap) + 1
<1>1. /\ n \in Nat \ {0} /\ n \notin DOMAIN heap
      /\ DOMAIN heap' = DOMAIN heap \cup {n}
      /\ heap'[n] = [op |-> op, fingerprint |-> fp, result |-> NoResult]
      /\ \A i \in DOMAIN heap : heap'[i] = heap[i]
  BY DEF TypeOK, InsertStep, InsertCell
<1>2. /\ k0 \in Keys /\ op.sequence \in Positions /\ k0[1] = op.principal
      /\ k0[2] = op.ordinal /\ op.ordinal \in Nat /\ op.incarnation \in Nat
      /\ op.principal \in Principals
  BY DEF KeyOf, Keys, OperationIds, Ordinals
<1>3. /\ operations'[k0][op.sequence] = n
      /\ \A s \in Positions : s # op.sequence => operations'[k0][s] = window[s]
      /\ \A k \in Keys : k # k0 => operations'[k] = operations[k]
  BY Zenon, <1>2, TypeFacts DEF InsertStep, InsertCell
<1>4. /\ op.incarnation = incarnation /\ op.ordinal <= issued[op.principal]
      /\ op.ordinal > retired[op.principal] /\ k0 \in active
      /\ operations[k0][op.sequence] = 0 /\ op.sequence >= lowWater[k0]
      /\ UNCHANGED <<incarnation, issued, retired, active>>
  BY Zenon DEF InsertStep, Admissible
<1>a. /\ \A k \in Keys : lowWater[k] \in Nat /\ lowWater'[k] \in Nat
                        /\ lowWater[k] <= lowWater'[k]
      /\ \A s \in Positions : s \in Nat
      /\ retired[op.principal] \in Nat
  BY SMTT(30), <1>2, TypeFacts DEF InsertStep, Positions
<1>b. \A s \in Positions : s # op.sequence =>
        \/ operations'[k0][s] = operations[k0][s]
        \/ /\ s < lowWater'[k0]
           /\ operations[k0][s] # 0
           /\ CellComplete(operations[k0][s])
  BY Zenon, <1>3 DEF InsertStep
<1>c. /\ callers[c].pc = "idle" /\ callers \in [Callers -> CallerStates]
      /\ callers' = [callers EXCEPT ![c] = Executing(n)]
  BY Zenon, TypeFacts DEF InsertStep, InsertCell
<1> HIDE DEF k0, n
<1>5. op = [incarnation |-> incarnation, principal |-> k0[1], ordinal |-> k0[2],
            sequence |-> op.sequence]
  BY Zenon, <1>2, <1>4 DEF OperationIds
<1>6. CellsAreOwn'
  <2> SUFFICES ASSUME NEW k \in Keys, NEW s \in Positions, operations'[k][s] # 0
               PROVE  /\ operations'[k][s] \in DOMAIN heap'
                      /\ heap'[operations'[k][s]].op =
                           [incarnation |-> incarnation', principal |-> k[1],
                            ordinal |-> k[2], sequence |-> s]
    BY Zenon DEF CellsAreOwn
  <2>1. CASE k = k0 /\ s = op.sequence
    BY SMTT(30), <1>1, <1>3, <1>4, <1>5, <2>1
  <2>2. CASE operations'[k][s] = operations[k][s]
    BY SMTT(30), <1>1, <1>4, <2>2 DEF ReplayInv, CellsAreOwn
  <2>3. QED
    <3>1. CASE k # k0
      BY Zenon, <1>3, <2>2, <3>1
    <3>2. CASE k = k0 /\ s # op.sequence
      <4>1. window[s] = 0 \/ window[s] = operations[k0][s]
        BY Zenon, <3>2 DEF InsertStep, k0
      <4>2. QED
        BY Zenon, <1>3, <2>2, <3>2, <4>1
    <3>3. QED
      BY Zenon, <2>1, <3>1, <3>2
<1>7. Remembered'
  <2> SUFFICES ASSUME NEW i \in DOMAIN heap', NEW o, o = heap'[i].op
               PROVE  /\ o.incarnation <= incarnation
                      /\ o.incarnation = incarnation =>
                           /\ o.ordinal <= issued[o.principal]
                           /\ \/ o.ordinal <= retired[o.principal]
                              \/ operations'[KeyOf(o)][o.sequence] = i
                              \/ o.sequence < lowWater'[KeyOf(o)]
    BY Zenon, <1>4 DEF Remembered, KeyOf
  <2>1. CASE i = n
    <3>1. o = op
      BY <1>1, <2>1
    <3>2. QED
      BY <1>2, <1>3, <1>4, <2>1, <3>1 DEF k0
  <2>2. CASE i \in DOMAIN heap
    <3>1. o = heap[i].op
      BY Zenon, <1>1, <2>2
    <3>2. /\ o.incarnation <= incarnation
          /\ o.incarnation = incarnation =>
               /\ o.ordinal <= issued[o.principal]
               /\ \/ o.ordinal <= retired[o.principal]
                  \/ operations[KeyOf(o)][o.sequence] = i
                  \/ o.sequence < lowWater[KeyOf(o)]
      BY Zenon, <2>2, <3>1 DEF ReplayInv, Remembered
    <3>3. KeyOf(o) \in Keys /\ o.sequence \in Positions /\ i # 0
      BY Zenon, <2>2, <3>1, HeapTypes
    <3>4. ASSUME operations[KeyOf(o)][o.sequence] = i
          PROVE  \/ operations'[KeyOf(o)][o.sequence] = i
                 \/ o.sequence < lowWater'[KeyOf(o)]
      BY Zenon, <1>3, <1>4, <1>b, <3>3, <3>4
    <3>5. ASSUME o.sequence < lowWater[KeyOf(o)]
          PROVE  o.sequence < lowWater'[KeyOf(o)]
      BY SMTT(30), <1>a, <3>3, <3>5
    <3>6. QED
      BY Zenon, <3>2, <3>4, <3>5
  <2>3. QED
    BY Zenon, <1>1, <2>1, <2>2
<1>8. AtMostOnce'
  <2>1. ASSUME NEW i \in DOMAIN heap, heap[i].op = op PROVE FALSE
    <3>1. /\ \/ op.ordinal <= retired[op.principal]
             \/ operations[k0][op.sequence] = i
             \/ op.sequence < lowWater[k0]
      BY Zenon, <1>4, <2>1 DEF ReplayInv, Remembered, k0
    <3>2. i # 0
      BY Zenon, HeapTypes
    <3>3. QED
      BY SMTT(30), <1>2, <1>4, <1>a, <3>1, <3>2
  <2>2. \A i \in DOMAIN heap : heap'[i].op # heap'[n].op
    BY <1>1, <2>1
  <2>3. \A i, j \in DOMAIN heap : heap'[i].op = heap'[j].op => i = j
    BY Zenon, <1>1 DEF ReplayInv, AtMostOnce
  <2>4. QED
    BY Zenon, <1>1, <2>2, <2>3 DEF AtMostOnce
<1>9. InflightRetained'
  <2> SUFFICES ASSUME NEW i \in DOMAIN heap', NEW o, o = heap'[i].op,
                      heap'[i].result = NoResult, o.incarnation = incarnation
               PROVE  /\ KeyOf(o) \in active
                      /\ operations'[KeyOf(o)][o.sequence] = i
                      /\ \E d \in Callers : callers'[d] = Executing(i)
    BY ZenonT(30), <1>4 DEF InflightRetained, KeyOf, Executing
  <2>1. CASE i = n
    <3>1. callers'[c] = Executing(n)
      BY Zenon, <1>c
    <3>2. o = op
      BY SMTT(30), <1>1, <2>1
    <3>3. QED
      BY Zenon, <1>3, <1>4, <2>1, <3>1, <3>2 DEF k0
  <2>2. CASE i \in DOMAIN heap
    <3>1. o = heap[i].op /\ heap[i].result = NoResult
      BY Zenon, <1>1, <2>2
    <3>2. /\ KeyOf(o) \in active /\ operations[KeyOf(o)][o.sequence] = i
          /\ \E d \in Callers : callers[d] = Executing(i)
      BY Zenon, <2>2, <3>1 DEF ReplayInv, InflightRetained
    <3>3. KeyOf(o) \in Keys /\ o.sequence \in Positions /\ i # 0
      BY Zenon, <2>2, <3>1, HeapTypes
    <3>4. operations'[KeyOf(o)][o.sequence] = i
      <4>1. CASE KeyOf(o) # k0
        BY Zenon, <1>3, <3>2, <3>3, <4>1
      <4>2. CASE KeyOf(o) = k0
        <5>1. o.sequence # op.sequence
          BY Zenon, <1>4, <3>2, <3>3, <4>2
        <5>2. ~CellComplete(operations[k0][o.sequence])
          BY Zenon, <3>1, <3>2, <4>2 DEF CellComplete
        <5>3. operations'[k0][o.sequence] = operations[k0][o.sequence]
          BY Zenon, <1>b, <3>3, <5>1, <5>2
        <5>4. QED
          BY Zenon, <3>2, <4>2, <5>3
      <4>3. QED
        BY Zenon, <4>1, <4>2
    <3>5. PICK d \in Callers : callers[d] = Executing(i)
      BY Zenon, <3>2
    <3>6. d # c
      BY <1>c, <3>5 DEF Executing
    <3>7. callers'[d] = Executing(i)
      BY Zenon, <1>c, <3>5, <3>6
    <3>8. QED
      BY Zenon, <3>2, <3>4, <3>7
  <2>3. QED
    BY Zenon, <1>1, <2>1, <2>2
<1>10. JoinedCellMatches'
  <2> SUFFICES ASSUME NEW d \in Callers, NEW w, w = callers'[d], w.pc = "joining"
               PROVE  /\ w.cell \in DOMAIN heap'
                      /\ heap'[w.cell].op = w.op
                      /\ heap'[w.cell].fingerprint = w.fingerprint
    BY Zenon DEF JoinedCellMatches
  <2>1. w = callers[d]
    BY Zenon, <1>c DEF Executing
  <2>2. /\ w.cell \in DOMAIN heap
        /\ heap[w.cell].op = w.op
        /\ heap[w.cell].fingerprint = w.fingerprint
    BY Zenon, <2>1 DEF ReplayInv, JoinedCellMatches
  <2>3. QED
    BY Zenon, <1>1, <2>2
<1>11. QED
  BY Zenon, <1>6, <1>7, <1>8, <1>9, <1>10 DEF ReplayInv

\* A step that changes only callers, no executing one among them, keeps what
\* the registry knows of operations.
LEMMA FramePreserves ==
  ASSUME ReplayInv, JoinedCellMatches',
         UNCHANGED <<incarnation, issued, retired, active, lowWater, operations, heap>>,
         \A d \in Callers : callers[d].pc = "executing" => callers'[d] = callers[d]
  PROVE  ReplayInv'
<1>1. CellsAreOwn'
  BY Zenon DEF ReplayInv, CellsAreOwn
<1>2. AtMostOnce'
  BY Zenon DEF ReplayInv, AtMostOnce
<1>3. Remembered'
  BY Zenon DEF ReplayInv, Remembered, KeyOf
<1>4. InflightRetained'
  <2> SUFFICES ASSUME NEW i \in DOMAIN heap, heap[i].result = NoResult,
                      heap[i].op.incarnation = incarnation
               PROVE  /\ KeyOf(heap[i].op) \in active
                      /\ operations[KeyOf(heap[i].op)][heap[i].op.sequence] = i
                      /\ \E c \in Callers : callers'[c] = Executing(i)
    BY Zenon DEF InflightRetained, KeyOf, Executing
  <2>1. \A c \in Callers : callers[c] = Executing(i) => callers'[c] = Executing(i)
    BY SMTT(30) DEF Executing
  <2>2. QED
    BY Zenon, <2>1 DEF ReplayInv, InflightRetained
<1>5. QED
  BY Zenon, <1>1, <1>2, <1>3, <1>4 DEF ReplayInv

\* A touch moves stamps only: the leases stay as they are.
LEMMA TouchFrame ==
  ASSUME NEW k, Touch(k)
  PROVE  UNCHANGED <<incarnation, issued, retired, active>>
BY Zenon DEF Touch

\* register leaves the invariant: it joins, executes or refuses.
LEMMA RegisterPreserves ==
  ASSUME TypeOK, ReplayInv, NEW c \in Callers, NEW op \in OperationIds,
         NEW fp \in Fingerprints, Register(c, op, fp)
  PROVE  ReplayInv'
<1>1. /\ KeyOf(op) \in Keys /\ op.sequence \in Positions
      /\ KeyOf(op)[1] = op.principal /\ KeyOf(op)[2] = op.ordinal
  BY Zenon DEF KeyOf, Keys, OperationIds
<1>2. /\ callers[c].pc = "idle" /\ Admissible(op)
      /\ UNCHANGED <<incarnation, issued, retired, active>>
  BY TouchFrame, Zenon DEF Register
<1>3. CASE UNCHANGED <<lowWater, operations, heap, callers>>
  <2>1. JoinedCellMatches'
    BY Zenon, <1>3 DEF ReplayInv, JoinedCellMatches
  <2>2. QED
    BY Zenon, <1>2, <1>3, <2>1, FramePreserves
<1>4. CASE Join(c, op, fp) /\ callers' # callers
  <2> DEFINE cell == operations[KeyOf(op)][op.sequence]
  <2>1. /\ cell # 0 /\ heap[cell].fingerprint = fp
        /\ callers' = [callers EXCEPT ![c] = Joining(cell, op, fp)]
        /\ UNCHANGED <<lowWater, operations, heap>>
    BY Zenon, <1>4 DEF Join, SameRequest
  <2>2. cell \in DOMAIN heap /\ heap[cell].op = op
    <3>1. op = [incarnation |-> incarnation, principal |-> KeyOf(op)[1],
                ordinal |-> KeyOf(op)[2], sequence |-> op.sequence]
      BY Zenon, <1>1, <1>2 DEF OperationIds, Admissible
    <3>2. QED
      BY Zenon, <1>1, <2>1, <3>1 DEF ReplayInv, CellsAreOwn
  <2> HIDE DEF cell
  <2>3. callers \in [Callers -> CallerStates]
    BY Zenon, TypeFacts
  <2>4. JoinedCellMatches'
    BY Zenon, <2>1, <2>2, <2>3 DEF ReplayInv, JoinedCellMatches, Joining
  <2>5. \A d \in Callers : callers[d].pc = "executing" => callers'[d] = callers[d]
    BY Zenon, <1>2, <2>1, <2>3
  <2>6. QED
    BY Zenon, <1>2, <2>1, <2>4, <2>5, FramePreserves
<1>5. CASE Execute(c, op, fp) /\ KeyOf(op) \in active
  <2>1. /\ operations[KeyOf(op)][op.sequence] = 0
        /\ op.sequence >= lowWater[KeyOf(op)]
    BY <1>5, Zenon DEF Execute
  <2>2. /\ operations[KeyOf(op)] \in [Positions -> Nat]
        /\ lowWater \in [Keys -> Nat]
    BY Zenon, <1>1, TypeFacts
  <2>3. CASE InsertCell(c, op, fp, operations[KeyOf(op)]) /\ UNCHANGED lowWater
    <3>1. InsertStep(c, op, fp, operations[KeyOf(op)])
      BY <1>2, <1>5, <2>1, <2>2, <2>3 DEF InsertStep
    <3>2. QED
      BY Zenon, <3>1, InsertPreserves
  <2>4. ASSUME WindowFull(KeyOf(op)), NEW s \in Positions, Evictable(KeyOf(op), s),
               InsertCell(c, op, fp, [operations[KeyOf(op)] EXCEPT ![s] = 0]),
               lowWater' = [lowWater EXCEPT
                              ![KeyOf(op)] = Larger(@, SaturatingSucc(s))]
        PROVE  ReplayInv'
    <3> DEFINE window == [operations[KeyOf(op)] EXCEPT ![s] = 0]
    <3>1. SaturatingSucc(s) = s + 1 /\ s \in Nat
      <4>1. s \in Nat
        BY <2>4 DEF Positions
      <4>2. SaturatingSucc(s) = s + 1
        BY <1>1, <2>4, OldestIsNotLast, Zenon DEF Evictable
      <4>3. QED
        BY Zenon, <4>1, <4>2
    <3>2. /\ lowWater' \in [Keys -> Nat]
          /\ \A k \in Keys : lowWater[k] <= lowWater'[k]
          /\ s < lowWater'[KeyOf(op)]
      BY SMTT(30), <1>1, <2>2, <2>4, <3>1 DEF Larger
    <3>3. /\ window \in [Positions -> Nat] /\ window[s] = 0
          /\ \A t \in Positions : t # s => window[t] = operations[KeyOf(op)][t]
      BY Zenon, <2>2
    <3>4. operations[KeyOf(op)][s] # 0 /\ CellComplete(operations[KeyOf(op)][s])
      BY Zenon, <2>4 DEF Evictable, Oldest, Resident
    <3> HIDE DEF window
    <3>5. InsertCell(c, op, fp, window)
      BY Zenon, <2>4 DEF window
    <3>6. QED
      <4>1. InsertStep(c, op, fp, window)
        BY Zenon, <1>2, <1>5, <2>1, <3>2, <3>3, <3>4, <3>5 DEF InsertStep
      <4>2. QED
        BY Zenon, <4>1, InsertPreserves
  <2>5. QED
    BY <1>5, <2>3, <2>4, Zenon DEF Execute
<1>6. QED
  BY Zenon, <1>3, <1>4, <1>5 DEF Register, Join, Refuse

\* Completing an operation leaves it no longer in flight.
LEMMA CompletePreserves ==
  ASSUME TypeOK, ReplayInv, NEW c \in Callers, NEW r \in Results, Complete(c, r)
  PROVE  ReplayInv'
<1>1. /\ DOMAIN heap' = DOMAIN heap
      /\ \A i \in DOMAIN heap :
           /\ heap'[i].op = heap[i].op
           /\ heap'[i].fingerprint = heap[i].fingerprint
           /\ heap'[i].result = IF i = callers[c].cell /\ heap[i].result = NoResult
                                THEN r ELSE heap[i].result
  BY CellUpdate DEF Complete
<1>2. /\ UNCHANGED <<incarnation, issued, retired, active, lowWater, operations>>
      /\ callers[c].pc = "executing" /\ callers' = [callers EXCEPT ![c] = Idle]
  BY Zenon DEF Complete, registryVars
<1>a. CellsAreOwn'
  BY Zenon, <1>1, <1>2 DEF ReplayInv, CellsAreOwn
<1>b. Remembered'
  BY <1>1, <1>2, Zenon DEF ReplayInv, Remembered, KeyOf
<1>3. AtMostOnce'
  BY Zenon, <1>1 DEF ReplayInv, AtMostOnce
<1>4. InflightRetained'
  <2> SUFFICES ASSUME NEW i \in DOMAIN heap, heap'[i].result = NoResult,
                      heap[i].op.incarnation = incarnation
               PROVE  /\ KeyOf(heap[i].op) \in active
                      /\ operations[KeyOf(heap[i].op)][heap[i].op.sequence] = i
                      /\ \E d \in Callers : callers'[d] = Executing(i)
    BY ZenonT(30), <1>1, <1>2 DEF InflightRetained, KeyOf, Executing
  <2>1. heap[i].result = NoResult /\ i # callers[c].cell
    BY Zenon, <1>1, ReplayAssumption
  <2>2. PICK d \in Callers : callers[d] = Executing(i)
    BY Zenon, <2>1 DEF ReplayInv, InflightRetained
  <2>3. d # c
    BY <2>1, <2>2 DEF Executing
  <2>4. callers'[d] = Executing(i)
    BY Zenon, <1>2, <2>2, <2>3, TypeFacts
  <2>5. QED
    BY Zenon, <2>1, <2>4 DEF ReplayInv, InflightRetained
<1>5. JoinedCellMatches'
  <2> SUFFICES ASSUME NEW d \in Callers, callers'[d].pc = "joining"
               PROVE  /\ callers'[d].cell \in DOMAIN heap'
                      /\ heap'[callers'[d].cell].op = callers'[d].op
                      /\ heap'[callers'[d].cell].fingerprint = callers'[d].fingerprint
    BY Zenon DEF JoinedCellMatches
  <2>1. callers'[d] = callers[d]
    BY Zenon, <1>2, TypeFacts DEF Idle
  <2>2. QED
    BY <1>1, <2>1 DEF ReplayInv, JoinedCellMatches
<1>6. QED
  BY Zenon, <1>3, <1>4, <1>5, <1>a, <1>b DEF ReplayInv

\* The invariant of the cells holds throughout.
LEMMA ReplayInvariant == Spec => []ReplayInv
<1>1. TypeOK /\ ReplayInv /\ [Next]_vars => ReplayInv'
  <2> SUFFICES ASSUME TypeOK, ReplayInv, [Next]_vars PROVE ReplayInv'
    BY Zenon
  <2>1. ASSUME NEW p \in Principals, Issue(p) PROVE ReplayInv'
    <3>1. CASE ~RegistryFull
      <4>1. IssueAfter(p, {}) /\ MayIssue(p) /\ UNCHANGED retired
        BY Zenon, <2>1, <3>1 DEF Issue
      <4>2. IssueStep(p, {})
        BY <4>1, TypeFacts DEF IssueStep
      <4>3. QED
        BY Zenon, <4>2, IssuePreserves
    <3>2. CASE RegistryFull
      <4>1. PICK k \in active :
              /\ Retirable(k)
              /\ retired' = [retired EXCEPT ![k[1]] = IF @ < k[2] THEN k[2] ELSE @]
              /\ IssueAfter(p, RetiredWith(k))
        BY Zenon, <2>1, <3>2 DEF Issue
      <4>2. /\ \A j \in active : j[1] \in Principals /\ j[2] \in Nat
            /\ retired \in [Principals -> Nat]
        BY Zenon, KeyTypes, TypeFacts
      <4>3. /\ retired' \in [Principals -> Nat]
            /\ \A q \in Principals : retired[q] <= retired'[q]
            /\ k[2] <= retired'[k[1]]
        BY <4>1, <4>2
      <4>4. \A j \in RetiredWith(k) : j[2] <= retired'[j[1]]
        BY <4>2, <4>3 DEF RetiredWith
      <4>5. \A j \in RetiredWith(k) : IsFullyComplete(j)
        BY Zenon, <4>1 DEF RetiredWith, Retirable, PrefixComplete
      <4>6. RetiredWith(k) \subseteq active /\ MayIssue(p)
        BY Zenon, <2>1 DEF RetiredWith, Issue
      <4>7. IssueStep(p, RetiredWith(k))
        BY Zenon, <4>1, <4>3, <4>4, <4>5, <4>6 DEF IssueStep
      <4>8. QED
        BY Zenon, <4>7, IssuePreserves
    <3>3. QED
      BY Zenon, <3>1, <3>2
  <2>2. ASSUME NEW c \in Callers, Answer(c) PROVE ReplayInv'
    <3>1. /\ UNCHANGED <<incarnation, issued, retired, active, lowWater, operations, heap>>
          /\ callers[c].pc = "joining" /\ callers' = [callers EXCEPT ![c] = Idle]
      BY Zenon, <2>2 DEF Answer, registryVars
    <3>2. callers \in [Callers -> CallerStates]
      BY Zenon, TypeFacts
    <3>3. JoinedCellMatches'
      BY Zenon, <3>1, <3>2 DEF ReplayInv, JoinedCellMatches, Idle
    <3>4. QED
      BY Zenon, <3>1, <3>2, <3>3, FramePreserves
  <2>3. CASE Restart
    <3>1. incarnation' = incarnation + 1 /\ heap' = heap /\ incarnation \in Nat
      BY <2>3 DEF Restart, TypeOK
    <3>2. \A i \in DOMAIN heap : heap[i].op.incarnation \in Nat
                                /\ heap[i].op.incarnation <= incarnation
      BY Zenon, HeapTypes DEF ReplayInv, Remembered
    <3>a. Remembered'
      BY <3>1, <3>2 DEF Remembered
    <3>b. InflightRetained'
      BY <3>1, <3>2 DEF InflightRetained
    <3>3. AtMostOnce'
      BY Zenon, <3>1 DEF AtMostOnce, ReplayInv
    <3>4. CellsAreOwn'
      BY Zenon, <2>3 DEF Restart, CellsAreOwn, NoEpoch
    <3>5. JoinedCellMatches'
      BY Zenon, <2>3 DEF Restart, JoinedCellMatches, Idle
    <3>6. QED
      BY Zenon, <3>3, <3>4, <3>5, <3>a, <3>b DEF ReplayInv
  <2>4. CASE UNCHANGED vars
    <3>1. /\ callers' = callers
          /\ UNCHANGED <<incarnation, issued, retired, active, lowWater, operations, heap>>
      BY Zenon, <2>4 DEF vars, registryVars
    <3>2. JoinedCellMatches'
      BY Zenon, <3>1 DEF ReplayInv, JoinedCellMatches
    <3>3. QED
      BY Zenon, <3>1, <3>2, FramePreserves
  <2>5. QED
    BY Zenon, <2>1, <2>2, <2>3, <2>4, RegisterPreserves, CompletePreserves DEF Next
<1>2. QED
  BY <1>1, ReplayInvInit, TypeCorrect, PTL DEF Spec

\* The mutation of one operation id is executed at most once, whatever its
\* client retries: for any number of principals, callers, leases and restarts.
THEOREM ReplaySafe == Spec => []AtMostOnce
<1>1. ReplayInv => AtMostOnce
  BY Zenon DEF ReplayInv
<1>2. QED
  BY <1>1, ReplayInvariant, PTL

\* An operation in flight is never forgotten, and a retry waits on the cell of
\* its own request: eviction and retirement only take what is complete.
THEOREM RetainedSafe == Spec => []CellsRetained
<1>1. ReplayInv => CellsRetained
  BY Zenon DEF ReplayInv, CellsRetained
<1>2. QED
  BY <1>1, ReplayInvariant, PTL

-----------------------------------------------------------------------------
\* No lease is retired that was not issued.
FloorIssued == \A p \in Principals : retired[p] <= issued[p]

\* ReplayRegistry::issue keeps both facts, whether it retires nothing or the
\* leases of one principal up to some ordinal.
LEMMA IssueKeepsResident ==
  ASSUME TypeOK, ResidentExactly, FloorIssued, NEW p \in Principals, Issue(p)
  PROVE  ResidentExactly' /\ FloorIssued'
<1> DEFINE key == <<p, issued[p] + 1>>
<1>1. /\ issued \in [Principals -> Nat] /\ retired \in [Principals -> Nat]
      /\ issued[p] < MaxOrdinal
  BY Zenon, TypeFacts DEF Issue, MayIssue
<1>2. /\ key \in Keys
      /\ \A k \in Keys : k = key <=> k[1] = p /\ k[2] = issued[p] + 1
  BY <1>1, ReplayAssumption DEF Keys, Ordinals
<1>a. \A gone : IssueAfter(p, gone) =>
        /\ issued' = [issued EXCEPT ![p] = @ + 1]
        /\ active' = (active \ gone) \cup {key}
  BY Zenon DEF IssueAfter
<1>3. issued' = [issued EXCEPT ![p] = @ + 1]
  <2>1. \E gone : IssueAfter(p, gone)
    BY Zenon DEF Issue
  <2>2. QED
    BY Zenon, <1>a, <2>1
<1>4. CASE ~RegistryFull
  <2>a. retired' = retired /\ IssueAfter(p, {})
    BY Zenon, <1>4 DEF Issue
  <2>1. retired' = retired /\ active' = active \cup {key}
    BY <1>a, <2>a
  <2>2. \A k \in Keys : k \in active' <=> retired'[k[1]] < k[2] /\ k[2] <= issued'[k[1]]
    BY <1>1, <1>2, <1>3, <2>1, KeyTypes DEF ResidentExactly, FloorIssued
  <2>3. QED
    BY SMTT(30), <1>1, <1>2, <1>3, <2>1, <2>2, TypeFacts DEF ResidentExactly, FloorIssued
<1>5. CASE RegistryFull
  <2>1. PICK k \in active :
          /\ retired' = [retired EXCEPT ![k[1]] = IF @ < k[2] THEN k[2] ELSE @]
          /\ IssueAfter(p, RetiredWith(k))
    BY Zenon, <1>5 DEF Issue
  <2>2. /\ active' = (active \ RetiredWith(k)) \cup {key}
        /\ k \in Keys /\ k[1] \in Principals /\ k[2] \in Nat
        /\ k[2] <= issued[k[1]] /\ retired[k[1]] < k[2]
    BY Zenon, <1>a, <2>1, KeyTypes, TypeFacts DEF ResidentExactly
  <2>3. /\ retired'[k[1]] = k[2]
        /\ \A q \in Principals : q # k[1] => retired'[q] = retired[q]
    BY Zenon, <1>1, <2>1, <2>2
  <2>4. \A j \in active : j \in RetiredWith(k) <=> j[1] = k[1] /\ j[2] <= k[2]
    BY Zenon DEF RetiredWith
  <2>5. \A j \in Keys : j \in active' <=> retired'[j[1]] < j[2] /\ j[2] <= issued'[j[1]]
    <3> SUFFICES ASSUME NEW j \in Keys
                 PROVE  j \in active' <=> retired'[j[1]] < j[2] /\ j[2] <= issued'[j[1]]
      BY Zenon
    <3>1. j[1] \in Principals /\ j[2] \in Nat
      BY Zenon, KeyTypes
    <3>2. j \in active <=> retired[j[1]] < j[2] /\ j[2] <= issued[j[1]]
      BY Zenon DEF ResidentExactly
    <3>3. CASE j = key
      BY <1>1, <1>2, <1>3, <2>2, <2>3, <3>1, <3>3 DEF FloorIssued
    <3>4. CASE j # key
      BY <1>1, <1>2, <1>3, <2>2, <2>3, <2>4, <3>1, <3>2, <3>4
    <3>5. QED
      BY Zenon, <3>3, <3>4
  <2>6. active' \subseteq Keys
    <3>1. active \subseteq Keys
      BY Zenon, TypeFacts
    <3>2. QED
      BY Zenon, <1>2, <2>2, <3>1
  <2>7. FloorIssued'
    BY <1>1, <1>3, <2>2, <2>3 DEF FloorIssued
  <2>8. QED
    BY Zenon, <2>5, <2>6, <2>7 DEF ResidentExactly
<1>6. QED
  BY Zenon, <1>4, <1>5

\* Whatever principals compete for the registry, an issued lease is resident
\* exactly when it lies above its principal's retirement floor: retiring one
\* lease takes the older ones of its principal along and no other, which is
\* what lets ReplayRegistry::register call a missing lease retired.
THEOREM ResidentSafe == Spec => []ResidentExactly
<1>1. Init => ResidentExactly /\ FloorIssued
  BY KeyTypes DEF Init, ResidentExactly, FloorIssued
<1>2. TypeOK /\ ResidentExactly /\ FloorIssued /\ [Next]_vars
        => ResidentExactly' /\ FloorIssued'
  <2> SUFFICES ASSUME TypeOK, ResidentExactly, FloorIssued, [Next]_vars
               PROVE  ResidentExactly' /\ FloorIssued'
    BY Zenon
  <2>1. ASSUME UNCHANGED <<active, retired, issued>>
        PROVE  ResidentExactly' /\ FloorIssued'
    BY Zenon, <2>1 DEF ResidentExactly, FloorIssued
  <2>2. ASSUME NEW c \in Callers, NEW op \in OperationIds,
               NEW fp \in Fingerprints, Register(c, op, fp)
        PROVE  UNCHANGED <<active, retired, issued>>
    BY Zenon, <2>2 DEF Register, Touch
  <2>3. ASSUME NEW c \in Callers, NEW r \in Results, Complete(c, r)
        PROVE  UNCHANGED <<active, retired, issued>>
    BY Zenon, <2>3 DEF Complete, registryVars
  <2>4. ASSUME NEW c \in Callers, Answer(c)
        PROVE  UNCHANGED <<active, retired, issued>>
    BY Zenon, <2>4 DEF Answer, registryVars
  <2>5. CASE Restart
    BY <2>5, KeyTypes DEF Restart, ResidentExactly, FloorIssued
  <2>6. CASE UNCHANGED vars
    BY Zenon, <2>1, <2>6 DEF vars, registryVars
  <2>7. QED
    BY Zenon, <2>1, <2>2, <2>3, <2>4, <2>5, <2>6, IssueKeepsResident DEF Next
<1>3. QED
  BY <1>1, <1>2, TypeCorrect, PTL DEF Spec

-----------------------------------------------------------------------------
\* An epoch of a set used before another of it has a smaller rank in it.
LEMMA RankOrder ==
  ASSUME TypeOK, RecencyOrder, NEW ks \in SUBSET active
  PROVE  \A j, k \in ks : /\ Rank(j, ks) \in Nat /\ Rank(j, ks) <= Cardinality(ks)
                          /\ lastAccess[j] < lastAccess[k] => Rank(j, ks) < Rank(k, ks)
<1> DEFINE under(k) == {i \in ks : lastAccess[i] < lastAccess[k]}
<1>1. /\ ks \subseteq Keys /\ IsFiniteSet(ks) /\ lastAccess \in [Keys -> Nat]
  BY Zenon, FiniteKeys DEF TypeOK
<1>2. ASSUME NEW k \in ks
      PROVE  /\ under(k) \in SUBSET ks /\ IsFiniteSet(under(k))
             /\ Cardinality(under(k)) \in Nat
             /\ Cardinality(under(k)) <= Cardinality(ks)
  <2>1. under(k) \in SUBSET ks
    BY Zenon
  <2>2. QED
    BY Zenon, <1>1, <2>1, FS_Subset, FS_CardinalityType
<1>3. ASSUME NEW j \in ks, NEW k \in ks, lastAccess[j] < lastAccess[k]
      PROVE  Cardinality(under(j)) < Cardinality(under(k))
  <2>1. under(j) \in SUBSET under(k) /\ j \in under(k) /\ j \notin under(j)
    BY <1>1, <1>3
  <2>2. /\ Cardinality(under(j)) <= Cardinality(under(k))
        /\ Cardinality(under(k)) = Cardinality(under(j)) => under(k) = under(j)
    <3> HIDE DEF under
    <3>1. QED
      BY Zenon, <1>2, <1>3, <2>1, FS_Subset
  <2>3. QED
    <3> HIDE DEF under
    <3>1. QED
      BY <1>2, <1>3, <2>1, <2>2
<1>4. QED
  BY Zenon, <1>2, <1>3 DEF Rank

\* next_access keeps the order of the stamps, compacted or not, and yields
\* one above them all.
LEMMA AccessOrder ==
  ASSUME TypeOK, RecencyOrder, NEW ks \in SUBSET active
  PROVE  /\ \A j, k \in ks :
              /\ CompactedAccess(ks)[j] < CompactedAccess(ks)[k]
                   <=> lastAccess[j] < lastAccess[k]
              /\ CompactedAccess(ks)[j] = CompactedAccess(ks)[k] => j = k
         /\ \A k \in ks : CompactedAccess(ks)[k] < NextAccess(ks)
<1>1. /\ ks \subseteq Keys /\ lastAccess \in [Keys -> Nat] /\ clock \in Nat
      /\ Cardinality(ks) \in Nat
  BY Zenon, FiniteKeys DEF TypeOK
<1>2. \A j, k \in ks : /\ lastAccess[j] \in Nat /\ lastAccess[j] <= clock
                       /\ lastAccess[j] = lastAccess[k] => j = k
  <2>1. \A j, k \in ks : /\ lastAccess[j] <= clock
                         /\ lastAccess[j] = lastAccess[k] => j = k
    BY Zenon DEF RecencyOrder
  <2>2. QED
    BY Zenon, <1>1, <2>1
<1>3. CASE clock # MaxClock
  BY <1>1, <1>2, <1>3 DEF CompactedAccess, NextAccess
<1>4. CASE clock = MaxClock
  <2>1. \A k \in ks : CompactedAccess(ks)[k] = Rank(k, ks)
    BY Zenon, <1>1, <1>4 DEF CompactedAccess
  <2>2. NextAccess(ks) = Cardinality(ks) + 1
    BY Zenon, <1>4 DEF NextAccess
  <2>3. \A j, k \in ks : /\ Rank(j, ks) \in Nat /\ Rank(j, ks) <= Cardinality(ks)
                         /\ lastAccess[j] < lastAccess[k] => Rank(j, ks) < Rank(k, ks)
    BY Zenon, RankOrder
  <2>4. QED
    BY <1>1, <1>2, <2>1, <2>2, <2>3
<1>5. QED
  BY Zenon, <1>3, <1>4

\* The epoch used last is the last in the order of use: the others, ks, keep
\* theirs, whether the stamps of all were compacted or not.
LEMMA LastIsLast ==
  ASSUME TypeOK, RecencyOrder, NEW all \in SUBSET active, NEW ks \in SUBSET all,
         NEW key \in Keys \ ks,
         active' = ks \cup {key}, before' = LastAfter(ks, key),
         lastAccess'[key] = NextAccess(all), clock' = NextAccess(all),
         \A k \in ks : lastAccess'[k] = CompactedAccess(all)[k]
  PROVE  RecencyOrder'
<1>1. /\ CompactedAccess(all) \in [Keys -> Nat] /\ NextAccess(all) \in Nat
      /\ ks \subseteq Keys
  BY Zenon, AccessType DEF TypeOK
<1>2. ASSUME NEW j \in ks
      PROVE  /\ lastAccess'[j] < lastAccess'[key] /\ lastAccess'[j] <= clock'
             /\ ~(lastAccess'[key] < lastAccess'[j])
             /\ lastAccess'[key] # lastAccess'[j]
             /\ <<j, key>> \in before' /\ <<key, j>> \notin before'
  <2>1. /\ lastAccess'[j] < lastAccess'[key] /\ lastAccess'[j] <= clock'
        /\ ~(lastAccess'[key] < lastAccess'[j])
        /\ lastAccess'[key] # lastAccess'[j]
    <3>1. CompactedAccess(all)[j] \in Nat /\ CompactedAccess(all)[j] < NextAccess(all)
      BY Zenon, <1>1, AccessOrder
    <3>2. QED
      BY <1>1, <3>1
  <2>2. <<j, key>> \in before' /\ <<key, j>> \notin before'
    BY Zenon DEF LastAfter
  <2>3. QED
    BY Zenon, <2>1, <2>2
<1>3. ASSUME NEW j \in ks, NEW k \in ks
      PROVE  /\ <<j, k>> \in before' <=> lastAccess'[j] < lastAccess'[k]
             /\ lastAccess'[j] = lastAccess'[k] => j = k
  <2>1. <<j, k>> \in before' <=> <<j, k>> \in before
    BY Zenon DEF LastAfter
  <2>2. /\ CompactedAccess(all)[j] < CompactedAccess(all)[k]
             <=> lastAccess[j] < lastAccess[k]
        /\ CompactedAccess(all)[j] = CompactedAccess(all)[k] => j = k
    BY Zenon, AccessOrder
  <2>3. <<j, k>> \in before <=> lastAccess[j] < lastAccess[k]
    BY Zenon DEF RecencyOrder
  <2>4. QED
    BY Zenon, <2>1, <2>2, <2>3
<1>4. /\ <<key, key>> \notin before' /\ lastAccess'[key] <= clock'
      /\ ~(lastAccess'[key] < lastAccess'[key])
  BY <1>1 DEF LastAfter
<1>5. ASSUME NEW j \in active', NEW k \in active'
      PROVE  /\ <<j, k>> \in before' <=> lastAccess'[j] < lastAccess'[k]
             /\ lastAccess'[j] = lastAccess'[k] => j = k
  <2>1. CASE j \in ks /\ k \in ks
    BY Zenon, <1>3, <2>1
  <2>2. CASE j = key /\ k = key
    BY Zenon, <1>4, <2>2
  <2>3. CASE j \in ks /\ k = key
    BY <1>2, <2>3, Zenon
  <2>4. CASE j = key /\ k \in ks
    BY <1>2, <2>4, Zenon
  <2>5. QED
    BY Zenon, <2>1, <2>2, <2>3, <2>4
<1>6. \A k \in active' : lastAccess'[k] <= clock'
  BY <1>2, <1>4, Zenon
<1>7. QED
  BY <1>5, <1>6, Zenon DEF RecencyOrder

\* issue keeps the registry within its bounds: an epoch it adds to a full
\* registry takes the place of one that it retired.
LEMMA IssueKeepsBounds ==
  ASSUME TypeOK, ResidentExactly, BoundedByRecency,
         NEW p \in Principals, NEW gone \in SUBSET active,
         MayIssue(p), IssueAfter(p, gone),
         gone = {} => ~RegistryFull
  PROVE  BoundedByRecency'
<1> DEFINE key == <<p, issued[p] + 1>>
           kept == active \ gone
           holders == {q \in Principals : issued[q] # 0}
<1>1. /\ issued \in [Principals -> Nat] /\ issued[p] < MaxOrdinal
      /\ active \subseteq Keys /\ operations \in [Keys -> [Positions -> Nat]]
  BY Zenon, TypeFacts DEF MayIssue
<1>2. key \in Keys /\ key \notin active
  <2>1. key \in Keys /\ key[1] = p /\ key[2] = issued[p] + 1
    BY <1>1, ReplayAssumption DEF Keys, Ordinals
  <2>2. ~(key[2] <= issued[key[1]])
    BY <1>1, <2>1
  <2>3. QED
    BY Zenon, <2>1, <2>2 DEF ResidentExactly
<1>3. RecencyOrder'
  <2>1. /\ kept \in SUBSET active /\ key \in Keys \ kept
        /\ active' = kept \cup {key} /\ before' = LastAfter(kept, key)
        /\ lastAccess'[key] = NextAccess(kept) /\ clock' = NextAccess(kept)
    BY Zenon, <1>2 DEF IssueAfter
  <2>2. \A k \in kept : lastAccess'[k] = CompactedAccess(kept)[k]
    BY Zenon, <1>1, <1>2 DEF IssueAfter
  <2>3. RecencyOrder
    BY Zenon DEF BoundedByRecency
  <2> HIDE DEF kept, key
  <2>4. QED
    BY Zenon, <2>1, <2>2, <2>3, LastIsLast
<1>4. Cardinality(active') <= MaxEpochs
  <2>1. active' = kept \cup {key} /\ key \notin kept
    BY Zenon, <1>2 DEF IssueAfter
  <2>2. /\ IsFiniteSet(active) /\ Cardinality(active) \in Nat
        /\ IsFiniteSet(kept) /\ Cardinality(kept) \in Nat
    BY Zenon, <1>1, FiniteKeys
  <2>3. Cardinality(active') = Cardinality(kept) + 1
    BY Zenon, <2>1, <2>2, FS_AddElement
  <2>4. Cardinality(active) <= MaxEpochs
    BY Zenon DEF BoundedByRecency, WithinBounds
  <2>5. CASE gone = {}
    <3>1. kept = active
      BY Zenon, <2>5
    <3>2. QED
      BY <2>2, <2>3, <2>5, <3>1, ReplayAssumption DEF RegistryFull
  <2>6. CASE gone # {}
    <3>1. Cardinality(kept) <= Cardinality(active) /\ Cardinality(kept) # Cardinality(active)
      BY Zenon, <2>2, <2>6, FS_Subset
    <3>2. QED
      BY <2>2, <2>3, <2>4, <3>1, ReplayAssumption
  <2>7. QED
    BY Zenon, <2>5, <2>6
<1>5. Cardinality({q \in Principals : issued'[q] # 0}) <= MaxPrincipals
  <2>1. issued' = [issued EXCEPT ![p] = @ + 1]
    BY Zenon DEF IssueAfter
  <2>2. {q \in Principals : issued'[q] # 0} = holders \cup {p}
    BY <1>1, <2>1
  <2>3. IsFiniteSet(holders) /\ Cardinality(holders) \in Nat
    BY Zenon, ReplayAssumption, FS_Subset, FS_CardinalityType
  <2>4. /\ Cardinality(holders \cup {p})
             = IF p \in holders THEN Cardinality(holders) ELSE Cardinality(holders) + 1
    BY Zenon, <2>3, FS_AddElement
  <2>5. Cardinality(holders) <= MaxPrincipals
    BY Zenon DEF BoundedByRecency, WithinBounds
  <2>6. p \in holders \/ Cardinality(holders) < MaxPrincipals
    BY Zenon DEF MayIssue
  <2> HIDE DEF holders
  <2>7. Cardinality(holders \cup {p}) <= MaxPrincipals
    <3>1. MaxPrincipals \in Nat
      BY Zenon, ReplayAssumption
    <3>2. CASE p \in holders
      BY Zenon, <2>4, <2>5, <3>2
    <3>3. CASE p \notin holders
      BY <2>3, <2>4, <2>6, <3>1, <3>3
    <3>4. QED
      BY Zenon, <3>2, <3>3
  <2>8. QED
    BY <2>2, <2>7, Zenon
<1>6. ASSUME NEW k \in active' PROVE Cardinality(Resident(k)') <= ResultsPerEpoch
  <2>1. k \in kept \/ k = key
    BY Zenon DEF IssueAfter
  <2>2. CASE k = key
    <3>1. operations'[k] = NoEpoch
      BY Zenon, <1>2, <2>2 DEF IssueAfter
    <3>2. Resident(k)' = {}
      BY Zenon, <3>1 DEF Resident, NoEpoch
    <3>3. QED
      BY <3>2, FS_EmptySet, ReplayAssumption
  <2>3. CASE k \in kept
    <3>1. operations'[k] = operations[k]
      BY Zenon, <1>1, <1>2, <2>3 DEF IssueAfter
    <3>2. Resident(k)' = Resident(k)
      BY Zenon, <3>1 DEF Resident
    <3>3. QED
      BY Zenon, <2>3, <3>2 DEF BoundedByRecency, WithinBounds
  <2>4. QED
    BY Zenon, <2>1, <2>2, <2>3
<1>7. QED
  BY Zenon, <1>3, <1>4, <1>5, <1>6 DEF BoundedByRecency, WithinBounds

\* Touching an epoch makes it the most recently used, and a lease that is not
\* resident leaves the order as it was.
LEMMA TouchKeepsOrder ==
  ASSUME TypeOK, RecencyOrder, NEW k \in Keys, Touch(k)
  PROVE  RecencyOrder'
<1>1. /\ active' = active /\ active \subseteq Keys /\ clock' = NextAccess(active)
      /\ CompactedAccess(active) \in [Keys -> Nat] /\ NextAccess(active) \in Nat
  BY Zenon, AccessType DEF TypeOK, Touch
<1>2. CASE k \in active
  <2> DEFINE ks == active \ {k}
  <2>1. lastAccess' = [CompactedAccess(active) EXCEPT ![k] = NextAccess(active)]
    BY Zenon, <1>2 DEF Touch
  <2>2. /\ ks \in SUBSET active /\ k \in Keys \ ks /\ active' = ks \cup {k}
        /\ before' = LastAfter(ks, k) /\ clock' = NextAccess(active)
    BY Zenon, <1>1, <1>2 DEF Touch
  <2>3. /\ lastAccess'[k] = NextAccess(active)
        /\ \A j \in ks : lastAccess'[j] = CompactedAccess(active)[j]
    BY Zenon, <1>1, <2>1
  <2> HIDE DEF ks
  <2>4. QED
    BY Zenon, <2>2, <2>3, LastIsLast
<1>3. CASE k \notin active
  <2>1. lastAccess' = CompactedAccess(active) /\ before' = before
    BY Zenon, <1>3 DEF Touch
  <2>2. \A i, j \in active :
          /\ lastAccess'[i] < lastAccess'[j] <=> lastAccess[i] < lastAccess[j]
          /\ lastAccess'[i] = lastAccess'[j] => i = j
    BY Zenon, <2>1, AccessOrder
  <2>3. \A i, j \in active : <<i, j>> \in before <=> lastAccess[i] < lastAccess[j]
    BY Zenon DEF RecencyOrder
  <2>4. \A j \in active : lastAccess'[j] <= clock'
    <3> SUFFICES ASSUME NEW j \in active PROVE lastAccess'[j] <= clock'
      BY Zenon
    <3>1. CompactedAccess(active)[j] \in Nat
      BY Zenon, <1>1
    <3>2. CompactedAccess(active)[j] < NextAccess(active)
      BY Zenon, AccessOrder
    <3>3. QED
      BY <1>1, <2>1, <3>1, <3>2
  <2>5. QED
    BY <1>1, <2>1, <2>2, <2>3, <2>4, Zenon DEF RecencyOrder
<1>4. QED
  BY Zenon, <1>2, <1>3

\* A window holds a bounded number of cells after one is inserted: the window
\* had room, or its oldest cell has made room.
LEMMA ExecuteKeepsBounds ==
  ASSUME TypeOK, NEW c \in Callers, NEW op \in OperationIds, NEW fp \in Fingerprints,
         KeyOf(op) \in active, Execute(c, op, fp),
         Cardinality(Resident(KeyOf(op))) <= ResultsPerEpoch
  PROVE  /\ \A k \in Keys : k # KeyOf(op) => Resident(k)' = Resident(k)
         /\ Cardinality(Resident(KeyOf(op))') <= ResultsPerEpoch
<1> DEFINE key == KeyOf(op)
<1>1. /\ key \in Keys /\ op.sequence \in Positions
      /\ operations \in [Keys -> [Positions -> Nat]]
      /\ operations[key] \in [Positions -> Nat]
      /\ Len(heap) + 1 # 0
  <2>1. key \in Keys /\ operations \in [Keys -> [Positions -> Nat]]
    BY Zenon, TypeFacts
  <2>2. op.sequence \in Positions
    BY Zenon DEF OperationIds
  <2>3. Len(heap) + 1 # 0
    BY DEF TypeOK
  <2>4. QED
    BY Zenon, <2>1, <2>2, <2>3
<1>2. \A S \in SUBSET Positions : IsFiniteSet(S) /\ Cardinality(S) \in Nat
  <2>1. IsFiniteSet(Positions)
    BY FS_Interval, ReplayAssumption DEF Positions
  <2>2. QED
    BY Zenon, <2>1, FS_Subset, FS_CardinalityType
<1>3. Resident(key) \in SUBSET Positions /\ op.sequence \notin Resident(key)
  BY Zenon DEF Resident, Execute
<1>4. ASSUME NEW window \in [Positions -> Nat], InsertCell(c, op, fp, window)
      PROVE  /\ \A k \in Keys : k # key => Resident(k)' = Resident(k)
             /\ Resident(key)' = {s \in Positions : window[s] # 0} \cup {op.sequence}
  <2>1. operations' = [operations EXCEPT ![key] =
                         [window EXCEPT ![op.sequence] = Len(heap) + 1]]
    BY Zenon, <1>4 DEF InsertCell
  <2>2. \A k \in Keys : k # key => operations'[k] = operations[k]
    BY Zenon, <1>1, <2>1
  <2>3. operations'[key] = [window EXCEPT ![op.sequence] = Len(heap) + 1]
    BY Zenon, <1>1, <2>1
  <2>4. \A s \in Positions : operations'[key][s] # 0
                               <=> window[s] # 0 \/ s = op.sequence
    BY Zenon, <1>1, <1>4, <2>3
  <2> HIDE DEF key
  <2>5. QED
    BY Zenon, <1>1, <2>2, <2>4 DEF Resident
<1>5. CASE ~WindowFull(key) /\ InsertCell(c, op, fp, operations[key])
  <2>1. Cardinality(Resident(key)) < ResultsPerEpoch
    BY <1>2, <1>3, <1>5, ReplayAssumption DEF WindowFull
  <2>2. Resident(key)' = Resident(key) \cup {op.sequence}
    BY Zenon, <1>1, <1>4, <1>5 DEF Resident
  <2>3. Cardinality(Resident(key)') = Cardinality(Resident(key)) + 1
    BY Zenon, <1>2, <1>3, <2>2, FS_AddElement
  <2>4. QED
    BY <1>1, <1>2, <1>3, <1>4, <1>5, <2>1, <2>3, ReplayAssumption
<1>6. ASSUME NEW s \in Positions, Evictable(key, s),
             InsertCell(c, op, fp, [operations[key] EXCEPT ![s] = 0])
      PROVE  /\ \A k \in Keys : k # key => Resident(k)' = Resident(k)
             /\ Cardinality(Resident(key)') <= ResultsPerEpoch
  <2> DEFINE window == [operations[key] EXCEPT ![s] = 0]
             rest == Resident(key) \ {s}
  <2>1. /\ window \in [Positions -> Nat]
        /\ {t \in Positions : window[t] # 0} = rest
    BY Zenon, <1>1 DEF Resident
  <2>2. /\ \A k \in Keys : k # key => Resident(k)' = Resident(k)
        /\ Resident(key)' = rest \cup {op.sequence}
    <3>1. InsertCell(c, op, fp, window)
      BY Zenon, <1>6
    <3> HIDE DEF window, rest
    <3>2. QED
      BY <1>4, <2>1, <3>1, Zenon
  <2>3. /\ Cardinality(rest) = Cardinality(Resident(key)) - 1
        /\ IsFiniteSet(rest) /\ op.sequence \notin rest
    BY Zenon, <1>2, <1>3, <1>6, FS_RemoveElement DEF Evictable, Oldest
  <2>4. Cardinality(Resident(key)') = Cardinality(rest) + 1
    <3> HIDE DEF rest
    <3>1. QED
      BY Zenon, <2>2, <2>3, FS_AddElement
  <2>5. Cardinality(Resident(key)') = Cardinality(Resident(key))
    BY <1>2, <1>3, <2>3, <2>4
  <2>6. QED
    BY Zenon, <2>2, <2>5
<1>7. QED
  BY Zenon, <1>5, <1>4, <1>1, <1>6 DEF Execute

\* register keeps the registry within its bounds.
LEMMA RegisterKeepsBounds ==
  ASSUME TypeOK, BoundedByRecency,
         NEW c \in Callers, NEW op \in OperationIds, NEW fp \in Fingerprints,
         Register(c, op, fp)
  PROVE  BoundedByRecency'
<1>1. /\ active' = active /\ issued' = issued /\ active \subseteq Keys
      /\ Touch(KeyOf(op))
  BY Zenon, TypeFacts DEF Register, Touch
<1>2. RecencyOrder'
  <2>1. KeyOf(op) \in Keys
    BY Zenon DEF KeyOf, Keys, OperationIds
  <2>2. QED
    BY Zenon, <1>1, <2>1, TouchKeepsOrder DEF BoundedByRecency
<1>3. \A k \in active : Cardinality(Resident(k)) <= ResultsPerEpoch
  BY Zenon DEF BoundedByRecency, WithinBounds
<1>4. \A k \in active : Cardinality(Resident(k)') <= ResultsPerEpoch
  <2>1. CASE operations' = operations
    BY Zenon, <1>3, <2>1 DEF Resident
  <2>2. CASE Execute(c, op, fp) /\ KeyOf(op) \in active
    <3>1. /\ \A k \in Keys : k # KeyOf(op) => Resident(k)' = Resident(k)
          /\ Cardinality(Resident(KeyOf(op))') <= ResultsPerEpoch
      BY Zenon, <1>3, <2>2, ExecuteKeepsBounds
    <3>2. QED
      BY Zenon, <1>1, <1>3, <3>1
  <2>3. QED
    BY Zenon, <2>1, <2>2 DEF Register, Join, Refuse
<1>5. QED
  BY Zenon, <1>1, <1>2, <1>4 DEF BoundedByRecency, WithinBounds

\* The registry never holds more principals, epochs or cells than its limits,
\* and its stamps order the epochs by their last use through every compaction
\* of the clock, so that retire_one gives up the one least recently used:
\* for any limits and any number of clients competing for the registry.
THEOREM BoundedSafe == Spec => []BoundedByRecency
<1>1. Init => BoundedByRecency
  <2>1. Init => {p \in Principals : issued[p] # 0} = {}
    BY Zenon DEF Init
  <2>2. ASSUME Init PROVE WithinBounds
    <3>1. active = {} /\ Cardinality({}) = 0
      BY Zenon, <2>2, FS_EmptySet DEF Init
    <3>2. 0 <= MaxEpochs /\ 0 <= MaxPrincipals
      BY ReplayAssumption
    <3>3. QED
      BY <2>1, <2>2, <3>1, <3>2, Zenon DEF WithinBounds
  <2>3. Init => RecencyOrder
    BY Zenon DEF Init, RecencyOrder
  <2>4. QED
    BY Zenon, <2>2, <2>3 DEF BoundedByRecency
<1>2. TypeOK /\ ResidentExactly /\ BoundedByRecency /\ [Next]_vars => BoundedByRecency'
  <2> SUFFICES ASSUME TypeOK, ResidentExactly, BoundedByRecency, [Next]_vars
               PROVE  BoundedByRecency'
    BY Zenon
  <2>1. ASSUME UNCHANGED registryVars PROVE BoundedByRecency'
    BY Zenon, <2>1 DEF registryVars, BoundedByRecency, WithinBounds, RecencyOrder, Resident
  <2>2. ASSUME NEW p \in Principals, Issue(p) PROVE BoundedByRecency'
    <3>1. CASE ~RegistryFull
      BY Zenon, <2>2, <3>1, IssueKeepsBounds DEF Issue
    <3>2. CASE RegistryFull
      <4>1. PICK k \in active : IssueAfter(p, RetiredWith(k))
        BY Zenon, <2>2, <3>2 DEF Issue
      <4>2. RetiredWith(k) \in SUBSET active /\ RetiredWith(k) # {}
        <5>1. k[2] <= k[2]
          BY KeyTypes, TypeFacts
        <5>2. QED
          BY Zenon, <5>1 DEF RetiredWith
      <4>3. MayIssue(p)
        BY Zenon, <2>2 DEF Issue
      <4>4. QED
        BY Zenon, <4>1, <4>2, <4>3, IssueKeepsBounds
    <3>3. QED
      BY Zenon, <3>1, <3>2
  <2>3. ASSUME NEW c \in Callers, NEW r \in Results, Complete(c, r)
        PROVE  UNCHANGED registryVars
    BY Zenon, <2>3 DEF Complete
  <2>4. ASSUME NEW c \in Callers, Answer(c)
        PROVE  UNCHANGED registryVars
    BY Zenon, <2>4 DEF Answer
  <2>5. CASE Restart
    <3>1. {p \in Principals : issued'[p] # 0} = {} /\ active' = {}
      BY Zenon, <2>5 DEF Restart
    <3>2. QED
      BY <3>1, FS_EmptySet, ReplayAssumption
         DEF BoundedByRecency, WithinBounds, RecencyOrder
  <2>6. ASSUME UNCHANGED vars PROVE UNCHANGED registryVars
    BY Zenon, <2>6 DEF vars
  <2>7. QED
    BY Zenon, <2>1, <2>2, <2>3, <2>4, <2>5, <2>6, RegisterKeepsBounds DEF Next
<1>3. QED
  BY <1>1, <1>2, TypeCorrect, ResidentSafe, PTL DEF Spec

=============================================================================
