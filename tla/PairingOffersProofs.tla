------------------------- MODULE PairingOffersProofs -------------------------
(***************************************************************************)
(* Proofs about PairingOffers, for any number of calls, offers, handshakes *)
(* and limits.  A section of the manager first prunes and then acts, so    *)
(* the invariant is stated of a manager's state s, of the calls cl, the    *)
(* handshakes at and the fates ft that go with it: it holds between the    *)
(* two parts of a section as well.                                         *)
(***************************************************************************)
EXTENDS PairingOffers, TLAPS

\* The call k has a live offer in s.
Offered(s, k) == \E i \in Ids : s.offer[i] # NoOffer /\ s.offer[i].call = k

\* The shape of the state.  What the retired queues remember, and what a
\* refused call is told, is left open: nothing below depends on it.
ManagerShape(s) ==
  /\ s = [offer |-> s.offer, operation |-> s.operation, cell |-> s.cell,
          retiredOffer |-> s.retiredOffer, retiredOperation |-> s.retiredOperation]
  /\ s.offer \in [Ids -> [call : Calls \cup {None}, by : Attempts \cup {None}]]
  /\ s.operation \in [Operations -> Calls \cup {None}]
  /\ s.cell = [k \in Calls |-> s.cell[k]]

CallShape(r) ==
  /\ r = [step |-> r.step, op |-> r.op, print |-> r.print, cell |-> r.cell,
          result |-> r.result]
  /\ r.op \in Operations \cup {None}

CallsShape(cl) ==
  /\ cl = [k \in Calls |-> cl[k]]
  /\ \A k \in Calls : CallShape(cl[k])

AttemptRecords ==
  {NoAttempt} \cup [step : {"prepared", "consuming", "gone"}, id : Ids, call : Calls]

Shapes(s, cl, at, ft) ==
  /\ ManagerShape(s)
  /\ CallsShape(cl)
  /\ at \in [Attempts -> AttemptRecords]
  /\ ft \in [Calls -> {"absent", "ready", "used", "void"}]

\* A live offer belongs to a call that has its ticket and its cell.
OffersBacked(s, cl, ft) ==
  \A i \in Ids : s.offer[i] # NoOffer =>
    /\ s.offer[i].call \in Calls
    /\ ft[s.offer[i].call] = "ready"
    /\ cl[s.offer[i].call].op \in Operations
    /\ s.operation[cl[s.offer[i].call].op] = s.offer[i].call
    /\ cl[s.offer[i].call].result = "ticket"
    /\ cl[s.offer[i].call].step \in {"complete", "done"}

\* A call has at most one, and has one as long as its ticket is good.
OneOffer(s) ==
  \A i, j \in Ids : s.offer[i] # NoOffer /\ s.offer[i].call = s.offer[j].call => i = j

ReadyOffered(s, ft) == \A k \in Calls : ft[k] = "ready" => Offered(s, k)

\* A call that still needs its cell, though it has no offer.
Working(r) == r.step \in {"execute", "retire"} \/ (r.step = "complete" /\ r.result # "ticket")

\* A cell belongs to the call that registered it.
CellsBacked(s, cl) ==
  \A o \in Operations : s.operation[o] # None =>
    /\ cl[s.operation[o]].op = o
    /\ \/ Working(cl[s.operation[o]])
       \/ Offered(s, s.operation[o])

\* What a call has, at each of its steps.
CallsGo(s, cl, ft) ==
  \A k \in Calls :
    /\ cl[k].step \in {"idle", "execute"} => ft[k] = "absent"
    /\ cl[k].step \in {"execute", "complete", "retire"} => cl[k].op \in Operations
    /\ cl[k].step = "execute" => s.operation[cl[k].op] = k
    /\ cl[k].step \in {"complete", "retire"} => cl[k].result \in {"ticket", "failed"}
    /\ cl[k].step = "retire" => cl[k].result = "failed"
    /\ cl[k].step = "join" => cl[k].cell \in Calls
    /\ cl[k].step = "complete" /\ cl[k].result = "ticket" =>
         Offered(s, k) \/ s.cell[k] \notin {"pending", "ticket"}

\* A cell gives out its ticket only while the offer is live.
TicketsOffered(s) == \A k \in Calls : s.cell[k] = "ticket" => Offered(s, k)

\* A permit and the offer it holds name each other.
PermitsHold(s, at) ==
  \A a \in Attempts : at[a].step \in {"consuming", "gone"} =>
    s.offer[at[a].id] = [call |-> at[a].call, by |-> a]

HoldersKnown(s, at) ==
  \A i \in Ids : s.offer[i].by # None =>
    /\ at[s.offer[i].by].step \in {"consuming", "gone"}
    /\ at[s.offer[i].by].id = i

Agree(s, cl, at, ft) ==
  /\ Shapes(s, cl, at, ft)
  /\ OffersBacked(s, cl, ft) /\ OneOffer(s) /\ ReadyOffered(s, ft)
  /\ CellsBacked(s, cl) /\ CallsGo(s, cl, ft) /\ TicketsOffered(s)
  /\ PermitsHold(s, at) /\ HoldersKnown(s, at)

OffersInv == Agree(m, call, attempt, fate)

-----------------------------------------------------------------------------
(* Retiring offers.                                                        *)

\* s is r without the offers in gone, their calls' cells and operations.
Without(r, s, gone) ==
  /\ ManagerShape(s)
  /\ \A i \in Ids : s.offer[i] = IF i \in gone THEN NoOffer ELSE r.offer[i]
  /\ \A o \in Operations :
       s.operation[o] = IF \E i \in gone : r.offer[i].call = r.operation[o]
                        THEN None ELSE r.operation[o]
  /\ \A k \in Calls :
       IF \E i \in gone : r.offer[i].call = k
       THEN s.cell[k] \notin {"pending", "ticket"} ELSE s.cell[k] = r.cell[k]

\* The operations of some calls.
OpsOf(calls) == {call[k].op : k \in Range(calls)}

\* What retire_operation_locked does to the cells and operations.
LEMMA OperationsRetired ==
  ASSUME NEW r, ManagerShape(r), NEW calls, NEW error,
         NEW s, s = RetireOperations(r, calls, error)
  PROVE  /\ ManagerShape(s)
         /\ s.offer = r.offer
         /\ \A o \in Operations : s.operation[o] = IF o \in OpsOf(calls) THEN None ELSE r.operation[o]
         /\ \A k \in Calls : s.cell[k] = IF \E o \in OpsOf(calls) : r.operation[o] = k
                                         THEN error ELSE r.cell[k]
<1>1. PICK queue :
        s = [r EXCEPT
              !.operation = [o \in Operations |-> IF o \in OpsOf(calls) THEN None ELSE r.operation[o]],
              !.cell = [k \in Calls |-> IF \E o \in OpsOf(calls) : r.operation[o] = k
                                        THEN error ELSE r.cell[k]],
              !.retiredOperation = queue]
  BY Zenon DEF RetireOperations, OpsOf
<1>2. /\ s.offer = r.offer
      /\ s.operation = [o \in Operations |-> IF o \in OpsOf(calls) THEN None ELSE r.operation[o]]
      /\ s.cell = [k \in Calls |-> IF \E o \in OpsOf(calls) : r.operation[o] = k
                                   THEN error ELSE r.cell[k]]
      /\ s = [offer |-> s.offer, operation |-> s.operation, cell |-> s.cell,
              retiredOffer |-> s.retiredOffer, retiredOperation |-> s.retiredOperation]
  BY Zenon, <1>1 DEF ManagerShape
<1>3. ManagerShape(s)
  BY <1>2 DEF ManagerShape
<1> QED  BY Zenon, <1>2, <1>3

\* Retiring live offers takes their calls' cells and operations with them,
\* and nothing else.
LEMMA OffersRetired ==
  ASSUME NEW r, NEW at, NEW ft, Agree(r, call, at, ft),
         NEW ids, \A i \in Range(ids) : i \in Ids /\ r.offer[i] # NoOffer,
         NEW error, error \notin {"pending", "ticket"}
  PROVE  Without(r, RetireOffers(r, ids, error), Range(ids))
<1> DEFINE w == WithoutOffers(r, ids, error)
           calls == [n \in DOMAIN ids |-> r.offer[ids[n]].call]
           ops == OpsOf(calls)
           s == RetireOffers(r, ids, error)
<1>1. PICK queue :
        w = [r EXCEPT
              !.offer = [i \in Ids |-> IF i \in Range(ids) THEN NoOffer ELSE r.offer[i]],
              !.retiredOffer = queue]
  BY Zenon DEF WithoutOffers
<1> HIDE DEF w
<1>2. ManagerShape(r)
  BY Zenon DEF Agree, Shapes
<1>3. /\ w.offer = [i \in Ids |-> IF i \in Range(ids) THEN NoOffer ELSE r.offer[i]]
      /\ w.operation = r.operation /\ w.cell = r.cell
      /\ w = [offer |-> w.offer, operation |-> w.operation, cell |-> w.cell,
              retiredOffer |-> w.retiredOffer, retiredOperation |-> w.retiredOperation]
  BY Zenon, <1>1, <1>2 DEF ManagerShape
<1>4. ManagerShape(w)
  BY <1>2, <1>3 DEF ManagerShape, NoOffer
<1>5. s = RetireOperations(w, calls, error)
  BY Zenon DEF RetireOffers, w
<1>6. /\ ManagerShape(s)
      /\ s.offer = w.offer
      /\ \A o \in Operations : s.operation[o] = IF o \in ops THEN None ELSE w.operation[o]
      /\ \A k \in Calls : s.cell[k] = IF \E o \in ops : w.operation[o] = k
                                      THEN error ELSE w.cell[k]
  <2> HIDE DEF calls, s
  <2> QED  BY <1>4, <1>5, OperationsRetired
<1>7. Range(calls) = {r.offer[i].call : i \in Range(ids)}
  <2>1. DOMAIN calls = DOMAIN ids /\ \A n \in DOMAIN ids : calls[n] = r.offer[ids[n]].call
    BY Zenon
  <2> HIDE DEF calls
  <2>2. Range(calls) = {calls[n] : n \in DOMAIN ids} /\ Range(ids) = {ids[n] : n \in DOMAIN ids}
    BY Zenon, <2>1 DEF Range
  <2> QED  BY <2>1, <2>2
<1> HIDE DEF s, calls
<1>8. \A o \in Operations : o \in ops <=> \E i \in Range(ids) : r.offer[i].call = r.operation[o]
  <2>1. ASSUME NEW i \in Range(ids)
        PROVE  /\ r.operation[call[r.offer[i].call].op] = r.offer[i].call
               /\ r.offer[i].call \in Calls /\ call[r.offer[i].call].op \in Operations
    BY Zenon DEF Agree, OffersBacked
  <2>2. ASSUME NEW o \in Operations, o \in ops
        PROVE  \E i \in Range(ids) : r.offer[i].call = r.operation[o]
    BY <1>7, <2>1, <2>2 DEF OpsOf
  <2>3. ASSUME NEW o \in Operations, NEW i \in Range(ids), r.offer[i].call = r.operation[o]
        PROVE  o \in ops
    <3>1. r.operation[o] \in Calls /\ r.operation[o] # None
      BY Zenon, <2>1, <2>3, OffersAssumption
    <3>2. call[r.operation[o]].op = o
      BY Zenon, <3>1 DEF Agree, CellsBacked
    <3> QED  BY Zenon, <1>7, <2>3, <3>2 DEF OpsOf
  <2> QED  BY Zenon, <2>2, <2>3
<1>9. \A k \in Calls : (\E o \in ops : w.operation[o] = k) <=> \E i \in Range(ids) : r.offer[i].call = k
  <2>1. ASSUME NEW i \in Range(ids)
        PROVE  /\ r.operation[call[r.offer[i].call].op] = r.offer[i].call
               /\ r.offer[i].call \in Calls /\ call[r.offer[i].call].op \in Operations
    BY Zenon DEF Agree, OffersBacked
  <2>2. \A o \in ops : o \in Operations
    BY SMTT(30), <1>7, <2>1 DEF OpsOf
  <2>3. ASSUME NEW k \in Calls, NEW i \in Range(ids), r.offer[i].call = k
        PROVE  call[k].op \in ops /\ w.operation[call[k].op] = k
    BY Zenon, <1>3, <1>7, <2>1, <2>3 DEF OpsOf
  <2> QED  BY SMTT(30), <1>3, <1>8, <2>2, <2>3
<1> HIDE DEF ops
<1>10. \A i \in Ids : s.offer[i] = IF i \in Range(ids) THEN NoOffer ELSE r.offer[i]
  BY <1>3, <1>6
<1>11. \A o \in Operations :
         s.operation[o] = IF \E i \in Range(ids) : r.offer[i].call = r.operation[o]
                          THEN None ELSE r.operation[o]
  BY Zenon, <1>3, <1>6, <1>8
<1>12. \A k \in Calls :
         IF \E i \in Range(ids) : r.offer[i].call = k
         THEN s.cell[k] \notin {"pending", "ticket"} ELSE s.cell[k] = r.cell[k]
  BY Zenon, <1>3, <1>6, <1>9
<1> QED  BY <1>6, <1>10, <1>11, <1>12, Zenon DEF Without, s

\* When offers go, with their tickets' fates decided and their permits
\* returned, the rest still agrees.
LEMMA WithoutAgrees ==
  ASSUME NEW r, NEW s, NEW cl, NEW at, NEW ft, Agree(r, cl, at, ft),
         NEW gone \in SUBSET Ids, \A i \in gone : r.offer[i] # NoOffer,
         Without(r, s, gone),
         NEW bt \in [Attempts -> AttemptRecords],
         \A a \in Attempts : bt[a] = at[a] \/ bt[a].step \notin {"consuming", "gone"},
         \A a \in Attempts : bt[a].step \in {"consuming", "gone"} => at[a].id \notin gone,
         \A i \in Ids \ gone : r.offer[i].by # None => bt[r.offer[i].by] = at[r.offer[i].by],
         NEW gt \in [Calls -> {"absent", "ready", "used", "void"}],
         \A k \in Calls : IF \E i \in gone : r.offer[i].call = k
                          THEN gt[k] \in {"used", "void"} ELSE gt[k] = ft[k]
  PROVE  Agree(s, cl, bt, gt)
<1> USE OffersAssumption
<1>1. /\ ManagerShape(s) /\ ManagerShape(r)
      /\ \A i \in Ids : s.offer[i] = IF i \in gone THEN NoOffer ELSE r.offer[i]
      /\ \A o \in Operations :
           s.operation[o] = IF \E i \in gone : r.offer[i].call = r.operation[o]
                            THEN None ELSE r.operation[o]
      /\ \A k \in Calls :
           IF \E i \in gone : r.offer[i].call = k
           THEN s.cell[k] \notin {"pending", "ticket"} ELSE s.cell[k] = r.cell[k]
  BY Zenon DEF Agree, Shapes, Without
<1>2. \A k \in Calls : Offered(r, k) /\ (~\E i \in gone : r.offer[i].call = k) => Offered(s, k)
  BY Zenon, <1>1 DEF Offered
<1>3. ASSUME NEW i \in Ids, s.offer[i] # NoOffer
      PROVE  /\ i \notin gone /\ s.offer[i] = r.offer[i] /\ r.offer[i] # NoOffer
             /\ ~\E j \in gone : r.offer[j].call = r.offer[i].call
  <2>1. i \notin gone /\ s.offer[i] = r.offer[i] /\ r.offer[i] # NoOffer
    BY Zenon, <1>1, <1>3
  <2>2. ASSUME NEW j \in gone, r.offer[j].call = r.offer[i].call  PROVE FALSE
    BY Zenon, <2>1, <2>2 DEF Agree, OneOffer
  <2> QED  BY Zenon, <2>1, <2>2
<1>4. Shapes(s, cl, bt, gt)
  BY Zenon, <1>1 DEF Agree, Shapes
<1>5. OffersBacked(s, cl, gt)
  <2> SUFFICES ASSUME NEW i \in Ids, s.offer[i] # NoOffer
               PROVE  /\ s.offer[i].call \in Calls
                      /\ gt[s.offer[i].call] = "ready"
                      /\ cl[s.offer[i].call].op \in Operations
                      /\ s.operation[cl[s.offer[i].call].op] = s.offer[i].call
                      /\ cl[s.offer[i].call].result = "ticket"
                      /\ cl[s.offer[i].call].step \in {"complete", "done"}
    BY Zenon DEF OffersBacked
  <2>1. /\ r.offer[i].call \in Calls
        /\ ft[r.offer[i].call] = "ready"
        /\ cl[r.offer[i].call].op \in Operations
        /\ r.operation[cl[r.offer[i].call].op] = r.offer[i].call
        /\ cl[r.offer[i].call].result = "ticket"
        /\ cl[r.offer[i].call].step \in {"complete", "done"}
    BY Zenon, <1>3 DEF Agree, OffersBacked
  <2>2. s.operation[cl[r.offer[i].call].op] = r.offer[i].call
    <3>1. ~\E j \in gone : r.offer[j].call = r.operation[cl[r.offer[i].call].op]
      BY Zenon, <1>3, <2>1
    <3>2. s.operation[cl[r.offer[i].call].op] = r.operation[cl[r.offer[i].call].op]
      BY ZenonT(30), <1>1, <2>1, <3>1
    <3> QED  BY ZenonT(30), <2>1, <3>2
  <2>3. gt[r.offer[i].call] = "ready"
    BY Zenon, <1>3, <2>1
  <2> QED  BY ZenonT(30), <1>3, <2>1, <2>2, <2>3
<1>6. OneOffer(s)
  <2>1. ASSUME NEW i \in Ids, NEW j \in Ids, s.offer[i] # NoOffer,
               s.offer[i].call = s.offer[j].call
        PROVE  i = j
    <3>1. s.offer[i].call \in Calls
      BY Zenon, <1>5, <2>1 DEF OffersBacked
    <3>2. s.offer[j] # NoOffer
      BY <2>1, <3>1 DEF NoOffer
    <3> QED  BY SMTT(30), <1>3, <2>1, <3>2 DEF Agree, OneOffer
  <2> QED  BY Zenon, <2>1 DEF OneOffer
<1>7. ReadyOffered(s, gt)
  BY Zenon, <1>2 DEF Agree, ReadyOffered
<1>8. CellsBacked(s, cl)
  <2> SUFFICES ASSUME NEW o \in Operations, s.operation[o] # None
               PROVE  /\ cl[s.operation[o]].op = o
                      /\ \/ Working(cl[s.operation[o]])
                         \/ Offered(s, s.operation[o])
    BY Zenon DEF CellsBacked
  <2>1. s.operation[o] = r.operation[o] /\ ~\E i \in gone : r.offer[i].call = r.operation[o]
    BY Zenon, <1>1
  <2>2. r.operation[o] \in Calls
    BY <1>1, <2>1 DEF ManagerShape
  <2>3. /\ cl[r.operation[o]].op = o
        /\ \/ Working(cl[r.operation[o]])
           \/ Offered(r, r.operation[o])
    BY Zenon, <2>1, <2>2 DEF Agree, CellsBacked
  <2> QED  BY Zenon, <1>2, <2>1, <2>2, <2>3
<1>9. ASSUME NEW k \in Calls, NEW i \in gone, r.offer[i].call = k
      PROVE  cl[k].step \in {"complete", "done"} /\ cl[k].result = "ticket"
  BY Zenon, <1>9 DEF Agree, OffersBacked
<1>10. CallsGo(s, cl, gt)
  <2> SUFFICES ASSUME NEW k \in Calls
               PROVE  /\ cl[k].step \in {"idle", "execute"} => gt[k] = "absent"
                      /\ cl[k].step \in {"execute", "complete", "retire"} =>
                           cl[k].op \in Operations
                      /\ cl[k].step = "execute" => s.operation[cl[k].op] = k
                      /\ cl[k].step \in {"complete", "retire"} =>
                           cl[k].result \in {"ticket", "failed"}
                      /\ cl[k].step = "retire" => cl[k].result = "failed"
                      /\ cl[k].step = "join" => cl[k].cell \in Calls
                      /\ cl[k].step = "complete" /\ cl[k].result = "ticket" =>
                           Offered(s, k) \/ s.cell[k] \notin {"pending", "ticket"}
    BY Zenon DEF CallsGo
  <2>1. /\ cl[k].step \in {"idle", "execute"} => ft[k] = "absent"
        /\ cl[k].step \in {"execute", "complete", "retire"} => cl[k].op \in Operations
        /\ cl[k].step = "execute" => r.operation[cl[k].op] = k
        /\ cl[k].step \in {"complete", "retire"} => cl[k].result \in {"ticket", "failed"}
        /\ cl[k].step = "retire" => cl[k].result = "failed"
        /\ cl[k].step = "join" => cl[k].cell \in Calls
        /\ cl[k].step = "complete" /\ cl[k].result = "ticket" =>
             Offered(r, k) \/ r.cell[k] \notin {"pending", "ticket"}
    BY Zenon DEF Agree, CallsGo
  <2>2. CASE \E i \in gone : r.offer[i].call = k
    BY SMTT(30), <1>1, <1>9, <2>1, <2>2
  <2>3. CASE ~\E i \in gone : r.offer[i].call = k
    BY SMTT(30), <1>1, <1>2, <2>1, <2>3
  <2> QED  BY Zenon, <2>2, <2>3
<1>11. TicketsOffered(s)
  BY <1>1, <1>2 DEF Agree, TicketsOffered
<1>12. PermitsHold(s, bt)
  <2> SUFFICES ASSUME NEW a \in Attempts, bt[a].step \in {"consuming", "gone"}
               PROVE  s.offer[bt[a].id] = [call |-> bt[a].call, by |-> a]
    BY Zenon DEF PermitsHold
  <2>1. bt[a] = at[a] /\ at[a].id \notin gone
    BY Zenon
  <2>2. at[a].id \in Ids
    BY SMTT(30), <2>1 DEF AttemptRecords, NoAttempt
  <2>3. r.offer[at[a].id] = [call |-> at[a].call, by |-> a]
    BY Zenon, <2>1 DEF Agree, PermitsHold
  <2> QED  BY <1>1, <2>1, <2>2, <2>3
<1>13. HoldersKnown(s, bt)
  <2> SUFFICES ASSUME NEW i \in Ids, s.offer[i].by # None
               PROVE  /\ bt[s.offer[i].by].step \in {"consuming", "gone"}
                      /\ bt[s.offer[i].by].id = i
    BY Zenon DEF HoldersKnown
  <2>1. i \notin gone /\ s.offer[i] = r.offer[i]
    BY <1>1 DEF NoOffer
  <2> QED  BY SMTT(30), <2>1 DEF Agree, HoldersKnown
<1> QED
  BY Zenon, <1>4, <1>5, <1>6, <1>7, <1>8, <1>10, <1>11, <1>12, <1>13 DEF Agree

\* The fates that a retirement decides.
LEMMA FatesDecided ==
  ASSUME OffersInv, NEW s, NEW gone \in SUBSET Ids,
         \A i \in gone : m.offer[i] # NoOffer, Without(m, s, gone), NEW used
  PROVE  /\ Fates(s, used) \in [Calls -> {"absent", "ready", "used", "void"}]
         /\ \A k \in Calls :
              Fates(s, used)[k] =
                IF k = used THEN "used"
                ELSE IF \E i \in gone : m.offer[i].call = k THEN "void" ELSE fate[k]
<1>1. \A i \in Ids : s.offer[i] = IF i \in gone THEN NoOffer ELSE m.offer[i]
  BY Zenon DEF Without
<1>2. ASSUME NEW k \in Calls
      PROVE  (/\ \E i \in Live(m) : m.offer[i].call = k
              /\ ~\E i \in Live(s) : s.offer[i].call = k)
             <=> \E i \in gone : m.offer[i].call = k
  <2>1. ASSUME NEW i \in gone, m.offer[i].call = k,
               NEW j \in Live(s), s.offer[j].call = k
        PROVE  FALSE
    <3>1. j \in Ids \ gone /\ m.offer[j].call = k /\ i \in Ids /\ m.offer[i] # NoOffer
      BY Zenon, <1>1, <2>1 DEF Live
    <3> QED  BY Zenon, <2>1, <3>1 DEF OffersInv, Agree, OneOffer
  <2>2. ASSUME NEW i \in Live(m), m.offer[i].call = k,
               ~\E j \in Live(s) : s.offer[j].call = k
        PROVE  i \in gone
    BY Zenon, <1>1, <2>2 DEF Live
  <2>3. ASSUME NEW i \in gone  PROVE  i \in Live(m)
    BY Zenon, <2>3 DEF Live
  <2> QED  BY Zenon, <2>1, <2>2, <2>3
<1>3. fate \in [Calls -> {"absent", "ready", "used", "void"}]
  BY Zenon DEF OffersInv, Agree, Shapes
<1> QED  BY Zenon, <1>2, <1>3 DEF Fates

\* expire_ready_locked retires ready offers only, whose tickets are then void.
LEMMA Prunes ==
  ASSUME OffersInv, NEW s \in Pruned(m)
  PROVE  /\ Agree(s, call, attempt, Fates(s, None))
         /\ \E gone \in SUBSET Ids :
              /\ \A i \in gone : m.offer[i] # NoOffer /\ m.offer[i].by = None
              /\ Without(m, s, gone)
              /\ \A k \in Calls :
                   Fates(s, None)[k] = IF \E i \in gone : m.offer[i].call = k
                                       THEN "void" ELSE fate[k]
<1> USE OffersAssumption
<1>1. PICK seen \in SUBSET Overdue(m) :
        s \in {RetireOffers(m, ids, "expired") :
                  ids \in Bijection(1..Cardinality(seen), seen)}
  BY Zenon DEF Pruned
<1>2. PICK ids \in Bijection(1..Cardinality(seen), seen) : s = RetireOffers(m, ids, "expired")
  BY Zenon, <1>1
<1>3. \A i \in Range(ids) : i \in Ids /\ m.offer[i] # NoOffer /\ m.offer[i].by = None
  <2>1. \A i \in Range(ids) : i \in seen
    BY <1>2 DEF Bijection, Injection, Surjection, Range
  <2> QED  BY Zenon, <1>1, <2>1 DEF Overdue, Live
<1>4. Without(m, s, Range(ids))
  BY Zenon, <1>2, <1>3, OffersRetired DEF OffersInv
<1>5. /\ Fates(s, None) \in [Calls -> {"absent", "ready", "used", "void"}]
      /\ \A k \in Calls : Fates(s, None)[k] =
           IF \E i \in Range(ids) : m.offer[i].call = k THEN "void" ELSE fate[k]
  <2>1. Range(ids) \in SUBSET Ids
    BY Zenon, <1>3
  <2> QED  BY <1>3, <1>4, <2>1, FatesDecided
<1>6. \A a \in Attempts : attempt[a].step \in {"consuming", "gone"} =>
        attempt[a].id \notin Range(ids)
  <2> SUFFICES ASSUME NEW a \in Attempts, attempt[a].step \in {"consuming", "gone"}
               PROVE  attempt[a].id \notin Range(ids)
    BY Zenon
  <2>1. PermitsHold(m, attempt)
    BY Zenon DEF OffersInv, Agree
  <2>2. m.offer[attempt[a].id] = [call |-> attempt[a].call, by |-> a]
    BY Zenon, <2>1 DEF PermitsHold
  <2>3. m.offer[attempt[a].id].by = a
    BY <2>2
  <2> QED  BY Zenon, <1>3, <2>3
<1>7. attempt \in [Attempts -> AttemptRecords] /\ Range(ids) \in SUBSET Ids
  BY Zenon, <1>3 DEF OffersInv, Agree, Shapes
<1>8. Agree(s, call, attempt, Fates(s, None))
  <2> DEFINE gone == Range(ids)
             gt == Fates(s, None)
  <2>1. Agree(m, call, attempt, fate)
    BY Zenon DEF OffersInv
  <2>2. gone \in SUBSET Ids /\ (\A i \in gone : m.offer[i] # NoOffer) /\ Without(m, s, gone)
    BY Zenon, <1>3, <1>4
  <2>3. gt \in [Calls -> {"absent", "ready", "used", "void"}]
        /\ \A k \in Calls : IF \E i \in gone : m.offer[i].call = k
                            THEN gt[k] \in {"used", "void"} ELSE gt[k] = fate[k]
    BY Zenon, <1>5
  <2>4. \A a \in Attempts : attempt[a].step \in {"consuming", "gone"} =>
          attempt[a].id \notin gone
    BY Zenon, <1>6
  <2> HIDE DEF gone, gt
  <2>5. Agree(s, call, attempt, gt)
    BY <1>7, <2>1, <2>2, <2>3, <2>4, WithoutAgrees
  <2> QED  BY Zenon, <2>5 DEF gt
<1> QED  BY Zenon, <1>3, <1>4, <1>5, <1>7, <1>8

-----------------------------------------------------------------------------
(* The steps of a create call, on a manager's state s that agrees.         *)

\* The call k has moved to the record r, and no other call.
CallMoves(cl, dl, k, r) ==
  /\ CallShape(r)
  /\ dl = [j \in Calls |-> dl[j]]
  /\ \A j \in Calls : dl[j] = IF j = k THEN r ELSE cl[j]

\* An update of one call's record is such a move.
LEMMA CallUpdated ==
  ASSUME NEW cl, CallsShape(cl), NEW k \in Calls, NEW r, CallShape(r),
         NEW dl, dl = [cl EXCEPT ![k] = r]
  PROVE  CallMoves(cl, dl, k, r)
<1>1. cl = [j \in Calls |-> cl[j]]
  BY Zenon DEF CallsShape
<1>2. dl = [j \in Calls |-> IF j = k THEN r ELSE cl[j]]
  BY Zenon, <1>1
<1> QED  BY Zenon, <1>2 DEF CallMoves

\* A call that moves on without touching the manager, and keeps what its
\* offer and its cell need of it.
LEMMA CallAnswers ==
  ASSUME NEW s, NEW cl, NEW at, NEW ft, Agree(s, cl, at, ft),
         NEW k \in Calls, NEW r, NEW dl, CallMoves(cl, dl, k, r),
         Offered(s, k) => r.op = cl[k].op /\ r.result = "ticket" /\ r.step \in {"complete", "done"},
         \A o \in Operations : s.operation[o] = k =>
           r.op = cl[k].op /\ (Working(r) \/ Offered(s, k)),
         r.step \notin {"idle", "execute"},
         r.step \in {"complete", "retire"} =>
           r.op \in Operations /\ r.result \in {"ticket", "failed"},
         r.step = "retire" => r.result = "failed",
         r.step = "join" => r.cell \in Calls,
         r.step = "complete" /\ r.result = "ticket" =>
           Offered(s, k) \/ s.cell[k] \notin {"pending", "ticket"}
  PROVE  Agree(s, dl, at, ft)
<1> USE OffersAssumption
<1>1. CallShape(r) /\ dl = [j \in Calls |-> dl[j]]
      /\ \A j \in Calls : dl[j] = IF j = k THEN r ELSE cl[j]
  BY Zenon DEF CallMoves
<1>2. Shapes(s, dl, at, ft)
  BY Zenon, <1>1 DEF Agree, Shapes, CallsShape
<1>3. OffersBacked(s, dl, ft)
  <2> SUFFICES ASSUME NEW i \in Ids, s.offer[i] # NoOffer, NEW c, c = s.offer[i].call
               PROVE  /\ c \in Calls /\ ft[c] = "ready" /\ dl[c].op \in Operations
                      /\ s.operation[dl[c].op] = c
                      /\ dl[c].result = "ticket" /\ dl[c].step \in {"complete", "done"}
    BY SMTT(30) DEF OffersBacked
  <2>1. /\ c \in Calls /\ ft[c] = "ready" /\ cl[c].op \in Operations
        /\ s.operation[cl[c].op] = c
        /\ cl[c].result = "ticket" /\ cl[c].step \in {"complete", "done"}
    BY Zenon DEF Agree, OffersBacked
  <2>2. Offered(s, c)
    BY Zenon DEF Offered
  <2> QED  BY Zenon, <1>1, <2>1, <2>2
<1>4. CellsBacked(s, dl)
  <2> SUFFICES ASSUME NEW o \in Operations, s.operation[o] # None
               PROVE  /\ dl[s.operation[o]].op = o
                      /\ \/ Working(dl[s.operation[o]])
                         \/ Offered(s, s.operation[o])
    BY Zenon DEF CellsBacked
  <2>1. s.operation[o] \in Calls
    BY Zenon DEF Agree, Shapes, ManagerShape
  <2>2. /\ cl[s.operation[o]].op = o
        /\ \/ Working(cl[s.operation[o]])
           \/ Offered(s, s.operation[o])
    BY Zenon DEF Agree, CellsBacked
  <2> QED  BY Zenon, <1>1, <2>1, <2>2
<1>5. CallsGo(s, dl, ft)
  <2>1. CallsGo(s, cl, ft)
    BY Zenon DEF Agree
  <2> QED  BY <1>1, <2>1 DEF CallsGo
<1> QED  BY Zenon, <1>2, <1>3, <1>4, <1>5 DEF Agree

\* A call that has not registered has neither an offer nor a cell.
LEMMA IdleHasNothing ==
  ASSUME NEW s, NEW cl, NEW at, NEW ft, Agree(s, cl, at, ft),
         NEW k \in Calls, cl[k].step \notin {"execute", "complete", "retire", "done"}
  PROVE  ~Offered(s, k) /\ \A o \in Operations : s.operation[o] # k
<1>1. ~Offered(s, k)
  BY Zenon DEF Agree, OffersBacked, Offered
<1>2. ASSUME NEW o \in Operations, s.operation[o] = k  PROVE  FALSE
  <2>1. s.operation[o] # None
    BY Zenon, <1>2, OffersAssumption
  <2> QED  BY Zenon, <1>1, <1>2, <2>1 DEF Agree, CellsBacked, Working
<1> QED  BY Zenon, <1>1, <1>2

\* create_offer_until registers a cell for an operation that has none.
LEMMA CallRegisters ==
  ASSUME NEW s, NEW cl, NEW at, NEW ft, Agree(s, cl, at, ft),
         NEW k \in Calls, cl[k].step = "idle",
         NEW o \in Operations, s.operation[o] = None,
         NEW t, ManagerShape(t), t.offer = s.offer, t.cell = s.cell,
         \A p \in Operations : t.operation[p] = IF p = o THEN k ELSE s.operation[p],
         NEW dl, NEW r, CallMoves(cl, dl, k, r), r.step = "execute", r.op = o
  PROVE  Agree(t, dl, at, ft)
<1> USE OffersAssumption
<1>1. CallShape(r) /\ dl = [j \in Calls |-> dl[j]]
      /\ \A j \in Calls : dl[j] = IF j = k THEN r ELSE cl[j]
  BY Zenon DEF CallMoves
<1>2. Shapes(t, dl, at, ft)
  BY Zenon, <1>1 DEF Agree, Shapes, CallsShape
<1>3. \A c : Offered(t, c) <=> Offered(s, c)
  BY Zenon DEF Offered
<1>4. OffersBacked(t, dl, ft)
  <2> SUFFICES ASSUME NEW i \in Ids, s.offer[i] # NoOffer, NEW c, c = s.offer[i].call
               PROVE  /\ c \in Calls /\ ft[c] = "ready" /\ dl[c].op \in Operations
                      /\ t.operation[dl[c].op] = c
                      /\ dl[c].result = "ticket" /\ dl[c].step \in {"complete", "done"}
    BY DEF OffersBacked
  <2>1. /\ c \in Calls /\ ft[c] = "ready" /\ cl[c].op \in Operations
        /\ s.operation[cl[c].op] = c
        /\ cl[c].result = "ticket" /\ cl[c].step \in {"complete", "done"}
    BY Zenon DEF Agree, OffersBacked
  <2> QED  BY ZenonT(30), <1>1, <2>1
<1>5. CellsBacked(t, dl)
  <2> SUFFICES ASSUME NEW p \in Operations, t.operation[p] # None
               PROVE  /\ dl[t.operation[p]].op = p
                      /\ \/ Working(dl[t.operation[p]])
                         \/ Offered(s, t.operation[p])
    BY Zenon, <1>3 DEF CellsBacked
  <2>1. CASE p = o
    BY Zenon, <1>1, <2>1 DEF Working
  <2>2. CASE p # o
    <3>1. t.operation[p] = s.operation[p] /\ s.operation[p] \in Calls
      BY Zenon, <2>2 DEF Agree, Shapes, ManagerShape
    <3>2. /\ cl[s.operation[p]].op = p
          /\ \/ Working(cl[s.operation[p]])
             \/ Offered(s, s.operation[p])
      BY Zenon, <3>1 DEF Agree, CellsBacked
    <3>3. s.operation[p] # k
      BY <3>1, IdleHasNothing
    <3> QED  BY <1>1, <3>1, <3>2, <3>3
  <2> QED  BY Zenon, <2>1, <2>2
<1>6. CallsGo(t, dl, ft)
  <2>1. CallsGo(s, cl, ft)
    BY Zenon DEF Agree
  <2>2. ASSUME NEW j \in Calls, cl[j].step = "execute", j # k
        PROVE  t.operation[cl[j].op] = j
    BY <2>1, <2>2 DEF CallsGo
  <2>3. ft[k] = "absent"
    BY Zenon, <2>1 DEF CallsGo
  <2> QED  BY <1>1, <1>3, <2>1, <2>2, <2>3 DEF CallsGo
<1>7. OneOffer(t) /\ ReadyOffered(t, ft) /\ TicketsOffered(t)
      /\ PermitsHold(t, at) /\ HoldersKnown(t, at)
  BY <1>3 DEF Agree, OneOffer, ReadyOffered, TicketsOffered, PermitsHold, HoldersKnown
<1> QED  BY Zenon, <1>2, <1>4, <1>5, <1>6, <1>7 DEF Agree

\* execute_create publishes an offer under an identity that is not live.
LEMMA CallExecutes ==
  ASSUME NEW s, NEW cl, NEW at, NEW ft, Agree(s, cl, at, ft),
         NEW k \in Calls, cl[k].step = "execute",
         NEW i \in Ids, s.offer[i] = NoOffer,
         NEW t, ManagerShape(t), t.operation = s.operation, t.cell = s.cell,
         \A j \in Ids : t.offer[j] = IF j = i THEN [call |-> k, by |-> None] ELSE s.offer[j],
         NEW dl, NEW r, CallMoves(cl, dl, k, r), r.op = cl[k].op,
         r.step = "complete", r.result = "ticket",
         NEW gt \in [Calls -> {"absent", "ready", "used", "void"}],
         \A j \in Calls : gt[j] = IF j = k THEN "ready" ELSE ft[j]
  PROVE  Agree(t, dl, at, gt)
<1> USE OffersAssumption
<1>1. CallShape(r) /\ dl = [j \in Calls |-> dl[j]]
      /\ \A j \in Calls : dl[j] = IF j = k THEN r ELSE cl[j]
  BY Zenon DEF CallMoves
<1>2. Shapes(t, dl, at, gt)
  BY Zenon, <1>1 DEF Agree, Shapes, CallsShape
<1>3. t.offer[i] # NoOffer /\ t.offer[i].call = k /\ t.offer[i].by = None
  BY DEF NoOffer
<1>4. Offered(t, k) /\ ~Offered(s, k)
  <2>1. Offered(t, k)
    BY Zenon, <1>3 DEF Offered
  <2>2. ~Offered(s, k)
    BY Zenon DEF Agree, OffersBacked, Offered
  <2> QED  BY Zenon, <2>1, <2>2
<1>5. \A c : Offered(s, c) => Offered(t, c)
  BY DEF Offered
<1>6. cl[k].op \in Operations /\ s.operation[cl[k].op] = k
  BY Zenon DEF Agree, CallsGo
<1>7. OffersBacked(t, dl, gt)
  <2> SUFFICES ASSUME NEW j \in Ids, t.offer[j] # NoOffer, NEW c, c = t.offer[j].call
               PROVE  /\ c \in Calls /\ gt[c] = "ready" /\ dl[c].op \in Operations
                      /\ t.operation[dl[c].op] = c
                      /\ dl[c].result = "ticket" /\ dl[c].step \in {"complete", "done"}
    BY SMTT(30) DEF OffersBacked
  <2>1. CASE j = i
    BY SMTT(30), <1>1, <1>3, <1>6, <2>1
  <2>2. CASE j # i
    <3>1. t.offer[j] = s.offer[j] /\ OffersBacked(s, cl, ft)
      BY Zenon, <2>2 DEF Agree
    <3>2. /\ c \in Calls /\ ft[c] = "ready" /\ cl[c].op \in Operations
          /\ s.operation[cl[c].op] = c
          /\ cl[c].result = "ticket" /\ cl[c].step \in {"complete", "done"}
      BY <3>1 DEF OffersBacked
    <3> QED  BY ZenonT(30), <1>1, <3>2
  <2> QED  BY Zenon, <2>1, <2>2
<1>8. OneOffer(t)
  <2>1. ASSUME NEW x \in Ids, s.offer[x].call = k  PROVE  FALSE
    BY <1>4, <2>1 DEF Offered, NoOffer
  <2>2. ASSUME NEW x \in Ids, NEW y \in Ids, t.offer[x] # NoOffer,
               t.offer[x].call = t.offer[y].call
        PROVE  x = y
    <3>1. CASE x = i \/ y = i
      BY <1>3, <2>1, <2>2, <3>1
    <3>2. CASE x # i /\ y # i
      BY <2>2, <3>2 DEF Agree, OneOffer
    <3> QED  BY Zenon, <3>1, <3>2
  <2> QED  BY Zenon, <2>2 DEF OneOffer
<1>9. ReadyOffered(t, gt) /\ TicketsOffered(t)
  BY <1>4, <1>5 DEF Agree, ReadyOffered, TicketsOffered
<1>10. CellsBacked(t, dl)
  <2> SUFFICES ASSUME NEW p \in Operations, s.operation[p] # None
               PROVE  /\ dl[s.operation[p]].op = p
                      /\ \/ Working(dl[s.operation[p]])
                         \/ Offered(t, s.operation[p])
    BY Zenon DEF CellsBacked
  <2>1. s.operation[p] \in Calls
    BY DEF Agree, Shapes, ManagerShape
  <2>2. /\ cl[s.operation[p]].op = p
        /\ \/ Working(cl[s.operation[p]])
           \/ Offered(s, s.operation[p])
    BY Zenon DEF Agree, CellsBacked
  <2>3. CASE s.operation[p] = k
    BY Zenon, <1>1, <1>4, <2>2, <2>3 DEF Working
  <2>4. CASE s.operation[p] # k
    BY Zenon, <1>1, <1>5, <2>1, <2>2, <2>4
  <2> QED  BY Zenon, <2>3, <2>4
<1>11. CallsGo(t, dl, gt)
  <2>1. CallsGo(s, cl, ft)
    BY Zenon DEF Agree
  <2> QED  BY <1>1, <1>4, <1>5, <1>6, <2>1 DEF CallsGo
<1>12. PermitsHold(t, at)
  <2> SUFFICES ASSUME NEW a \in Attempts, at[a].step \in {"consuming", "gone"}
               PROVE  t.offer[at[a].id] = [call |-> at[a].call, by |-> a]
    BY Zenon DEF PermitsHold
  <2>1. at[a].id \in Ids
    BY DEF Agree, Shapes, AttemptRecords, NoAttempt
  <2>2. s.offer[at[a].id] = [call |-> at[a].call, by |-> a]
    BY Zenon DEF Agree, PermitsHold
  <2>3. at[a].id # i
    BY SMTT(30), <2>2 DEF NoOffer
  <2> QED  BY Zenon, <2>1, <2>2, <2>3
<1>13. HoldersKnown(t, at)
  BY <1>3 DEF Agree, HoldersKnown
<1> QED  BY Zenon, <1>2, <1>7, <1>8, <1>9, <1>10, <1>11, <1>12, <1>13 DEF Agree

\* cell.complete: only a cell that is still pending takes the outcome.
LEMMA CallCompletes ==
  ASSUME NEW s, NEW cl, NEW at, NEW ft, Agree(s, cl, at, ft),
         NEW k \in Calls, cl[k].step = "complete",
         NEW t, ManagerShape(t), t.offer = s.offer, t.operation = s.operation,
         \A j \in Calls : t.cell[j] = IF j = k /\ s.cell[k] = "pending"
                                      THEN cl[k].result ELSE s.cell[j],
         NEW dl, NEW r, CallMoves(cl, dl, k, r), r.op = cl[k].op, r.result = cl[k].result,
         r.step = IF cl[k].result = "ticket" THEN "done" ELSE "retire"
  PROVE  Agree(t, dl, at, ft)
<1> USE OffersAssumption
<1>1. CallShape(r) /\ dl = [j \in Calls |-> dl[j]]
      /\ \A j \in Calls : dl[j] = IF j = k THEN r ELSE cl[j]
  BY Zenon DEF CallMoves
<1>2. Shapes(t, dl, at, ft)
  BY Zenon, <1>1 DEF Agree, Shapes, CallsShape
<1>3. \A c : Offered(t, c) <=> Offered(s, c)
  BY Zenon DEF Offered
<1>4. /\ cl[k].op \in Operations /\ cl[k].result \in {"ticket", "failed"}
      /\ cl[k].result = "ticket" => Offered(s, k) \/ s.cell[k] \notin {"pending", "ticket"}
  BY Zenon DEF Agree, CallsGo
<1>5. OffersBacked(t, dl, ft)
  <2> SUFFICES ASSUME NEW i \in Ids, s.offer[i] # NoOffer, NEW c, c = s.offer[i].call
               PROVE  /\ c \in Calls /\ ft[c] = "ready" /\ dl[c].op \in Operations
                      /\ s.operation[dl[c].op] = c
                      /\ dl[c].result = "ticket" /\ dl[c].step \in {"complete", "done"}
    BY DEF OffersBacked
  <2>1. /\ c \in Calls /\ ft[c] = "ready" /\ cl[c].op \in Operations
        /\ s.operation[cl[c].op] = c
        /\ cl[c].result = "ticket" /\ cl[c].step \in {"complete", "done"}
    BY Zenon DEF Agree, OffersBacked
  <2> QED  BY ZenonT(30), <1>1, <2>1
<1>6. CellsBacked(t, dl)
  <2> SUFFICES ASSUME NEW p \in Operations, s.operation[p] # None
               PROVE  /\ dl[s.operation[p]].op = p
                      /\ \/ Working(dl[s.operation[p]])
                         \/ Offered(s, s.operation[p])
    BY <1>3 DEF CellsBacked
  <2>1. s.operation[p] \in Calls
    BY Zenon DEF Agree, Shapes, ManagerShape
  <2>2. /\ cl[s.operation[p]].op = p
        /\ \/ Working(cl[s.operation[p]])
           \/ Offered(s, s.operation[p])
    BY Zenon DEF Agree, CellsBacked
  <2>3. CASE s.operation[p] # k
    BY Zenon, <1>1, <2>1, <2>2, <2>3
  <2>4. CASE s.operation[p] = k /\ cl[k].result # "ticket"
    BY Zenon, <1>1, <2>1, <2>2, <2>4 DEF Working
  <2>5. CASE s.operation[p] = k /\ cl[k].result = "ticket"
    BY Zenon, <1>1, <2>1, <2>2, <2>5 DEF Working
  <2> QED  BY Zenon, <2>3, <2>4, <2>5
<1>7. CallsGo(t, dl, ft)
  <2>1. CallsGo(s, cl, ft)
    BY Zenon DEF Agree
  <2> QED  BY <1>1, <1>3, <1>4, <2>1 DEF CallsGo
<1>8. TicketsOffered(t)
  BY Zenon, <1>3, <1>4 DEF Agree, TicketsOffered
<1>9. OneOffer(t) /\ ReadyOffered(t, ft) /\ PermitsHold(t, at) /\ HoldersKnown(t, at)
  BY <1>3 DEF Agree, OneOffer, ReadyOffered, PermitsHold, HoldersKnown
<1> QED  BY Zenon, <1>2, <1>5, <1>6, <1>7, <1>8, <1>9 DEF Agree

\* A call that failed gives its cell back.
LEMMA CallRetires ==
  ASSUME NEW s, NEW cl, NEW at, NEW ft, Agree(s, cl, at, ft),
         NEW k \in Calls, cl[k].step = "retire",
         NEW t, ManagerShape(t), t.offer = s.offer,
         \A p \in Operations : t.operation[p] = IF s.operation[p] = k THEN None ELSE s.operation[p],
         \A j \in Calls : t.cell[j] = IF j = k THEN "failed" ELSE s.cell[j],
         NEW dl, NEW r, CallMoves(cl, dl, k, r), r.step = "done"
  PROVE  Agree(t, dl, at, ft)
<1> USE OffersAssumption
<1>1. CallShape(r) /\ dl = [j \in Calls |-> dl[j]]
      /\ \A j \in Calls : dl[j] = IF j = k THEN r ELSE cl[j]
  BY Zenon DEF CallMoves
<1>2. Shapes(t, dl, at, ft)
  BY Zenon, <1>1 DEF Agree, Shapes, CallsShape
<1>3. \A c : Offered(t, c) <=> Offered(s, c)
  BY Zenon DEF Offered
<1>4. OffersBacked(t, dl, ft)
  <2> SUFFICES ASSUME NEW i \in Ids, s.offer[i] # NoOffer, NEW c, c = s.offer[i].call
               PROVE  /\ c \in Calls /\ ft[c] = "ready" /\ dl[c].op \in Operations
                      /\ t.operation[dl[c].op] = c
                      /\ dl[c].result = "ticket" /\ dl[c].step \in {"complete", "done"}
    BY SMTT(30) DEF OffersBacked
  <2>1. /\ c \in Calls /\ ft[c] = "ready" /\ cl[c].op \in Operations
        /\ s.operation[cl[c].op] = c
        /\ cl[c].result = "ticket" /\ cl[c].step \in {"complete", "done"}
    BY Zenon DEF Agree, OffersBacked
  <2> QED  BY Zenon, <1>1, <2>1
<1>5. CellsBacked(t, dl)
  <2> SUFFICES ASSUME NEW p \in Operations, t.operation[p] # None
               PROVE  /\ dl[t.operation[p]].op = p
                      /\ \/ Working(dl[t.operation[p]])
                         \/ Offered(s, t.operation[p])
    BY Zenon, <1>3 DEF CellsBacked
  <2>1. t.operation[p] = s.operation[p] /\ s.operation[p] \in Calls /\ s.operation[p] # k
    BY DEF Agree, Shapes, ManagerShape
  <2>2. /\ cl[s.operation[p]].op = p
        /\ \/ Working(cl[s.operation[p]])
           \/ Offered(s, s.operation[p])
    BY Zenon, <2>1 DEF Agree, CellsBacked
  <2> QED  BY <1>1, <2>1, <2>2
<1>6. CallsGo(t, dl, ft)
  <2>1. CallsGo(s, cl, ft)
    BY Zenon DEF Agree
  <2> QED  BY <1>1, <1>3, <2>1 DEF CallsGo
<1>7. OneOffer(t) /\ ReadyOffered(t, ft) /\ TicketsOffered(t)
      /\ PermitsHold(t, at) /\ HoldersKnown(t, at)
  BY <1>3 DEF Agree, OneOffer, ReadyOffered, TicketsOffered, PermitsHold, HoldersKnown
<1> QED  BY Zenon, <1>2, <1>4, <1>5, <1>6, <1>7 DEF Agree

-----------------------------------------------------------------------------
(* The steps of a handshake.                                               *)

\* The handshake a has moved to the record r, and no other handshake.
AttemptSet(at, bt, a, r) ==
  /\ bt \in [Attempts -> AttemptRecords]
  /\ \A b \in Attempts : bt[b] = IF b = a THEN r ELSE at[b]

\* A handshake that has no permit and takes none, or drops the one it has.
LEMMA AttemptMoves ==
  ASSUME NEW s, NEW cl, NEW at, NEW ft, Agree(s, cl, at, ft),
         NEW a \in Attempts, NEW r \in AttemptRecords,
         \/ at[a].step \notin {"consuming", "gone"} /\ r.step \notin {"consuming", "gone"}
         \/ /\ at[a].step \in {"consuming", "gone"} /\ r.step \in {"consuming", "gone"}
            /\ r.id = at[a].id /\ r.call = at[a].call,
         NEW bt, AttemptSet(at, bt, a, r)
  PROVE  Agree(s, cl, bt, ft)
<1>1. bt \in [Attempts -> AttemptRecords] /\ \A b \in Attempts : bt[b] = IF b = a THEN r ELSE at[b]
  BY Zenon DEF AttemptSet
<1>2. Shapes(s, cl, bt, ft)
  BY Zenon, <1>1 DEF Agree, Shapes
<1>3. PermitsHold(s, bt)
  BY <1>1 DEF Agree, PermitsHold
<1>4. HoldersKnown(s, bt)
  <2> SUFFICES ASSUME NEW i \in Ids, s.offer[i].by # None
               PROVE  /\ bt[s.offer[i].by].step \in {"consuming", "gone"}
                      /\ bt[s.offer[i].by].id = i
    BY Zenon DEF HoldersKnown
  <2>1. s.offer[i].by \in Attempts
    BY Zenon DEF Agree, Shapes, ManagerShape
  <2>2. at[s.offer[i].by].step \in {"consuming", "gone"} /\ at[s.offer[i].by].id = i
    BY Zenon DEF Agree, HoldersKnown
  <2> QED  BY Zenon, <1>1, <2>1, <2>2
<1> QED  BY Zenon, <1>2, <1>3, <1>4 DEF Agree

\* A handshake takes the permit of a ready offer, or gives its own back: the
\* offer and the handshake change their minds about each other together.
LEMMA AttemptHolds ==
  ASSUME NEW s, NEW cl, NEW at, NEW ft, Agree(s, cl, at, ft),
         NEW a \in Attempts, NEW i \in Ids, s.offer[i] # NoOffer,
         NEW by, NEW r \in AttemptRecords,
         \/ /\ s.offer[i].by = None /\ at[a].step \notin {"consuming", "gone"} /\ by = a
            /\ r.step = "consuming" /\ r.id = i /\ r.call = s.offer[i].call
         \/ s.offer[i].by = a /\ by = None /\ r.step \notin {"consuming", "gone"},
         NEW t, ManagerShape(t), t.operation = s.operation, t.cell = s.cell,
         \A j \in Ids : t.offer[j] = IF j = i THEN [call |-> s.offer[i].call, by |-> by]
                                     ELSE s.offer[j],
         NEW bt, AttemptSet(at, bt, a, r)
  PROVE  Agree(t, cl, bt, ft)
<1> USE OffersAssumption
<1>1. bt \in [Attempts -> AttemptRecords] /\ \A b \in Attempts : bt[b] = IF b = a THEN r ELSE at[b]
  BY Zenon DEF AttemptSet
<1>2. Shapes(t, cl, bt, ft)
  BY Zenon, <1>1 DEF Agree, Shapes
<1>3. s.offer[i].call \in Calls
  BY Zenon DEF Agree, OffersBacked
<1>4. \A j \in Ids : t.offer[j].call = s.offer[j].call
                     /\ (t.offer[j] # NoOffer <=> s.offer[j] # NoOffer)
  BY <1>3 DEF NoOffer
<1>5. \A c : Offered(t, c) <=> Offered(s, c)
  BY Zenon, <1>4 DEF Offered
<1>6. OffersBacked(t, cl, ft) /\ OneOffer(t)
  <2>1. OffersBacked(s, cl, ft) /\ OneOffer(s)
    BY Zenon DEF Agree
  <2>2. OffersBacked(t, cl, ft)
    BY <1>4, <2>1 DEF OffersBacked
  <2>3. OneOffer(t)
    BY SMTT(30), <1>4, <2>1 DEF OneOffer
  <2> QED  BY Zenon, <2>2, <2>3
<1>7. ReadyOffered(t, ft) /\ CellsBacked(t, cl) /\ CallsGo(t, cl, ft) /\ TicketsOffered(t)
  BY <1>5 DEF Agree, ReadyOffered, CellsBacked, CallsGo, TicketsOffered
<1>8. PermitsHold(t, bt)
  <2> SUFFICES ASSUME NEW b \in Attempts, bt[b].step \in {"consuming", "gone"}
               PROVE  t.offer[bt[b].id] = [call |-> bt[b].call, by |-> b]
    BY Zenon DEF PermitsHold
  <2>1. CASE b = a
    BY <1>1, <2>1
  <2>2. CASE b # a
    <3>1. at[b].id \in Ids /\ bt[b] = at[b]
      BY <1>1, <2>2 DEF AttemptRecords, NoAttempt
    <3>2. s.offer[at[b].id] = [call |-> at[b].call, by |-> b]
      BY Zenon, <3>1 DEF Agree, PermitsHold
    <3>3. at[b].id # i
      BY SMTT(30), <2>2, <3>2
    <3> QED  BY Zenon, <3>1, <3>2, <3>3
  <2> QED  BY Zenon, <2>1, <2>2
<1>9. HoldersKnown(t, bt)
  <2> SUFFICES ASSUME NEW j \in Ids, t.offer[j].by # None
               PROVE  /\ bt[t.offer[j].by].step \in {"consuming", "gone"}
                      /\ bt[t.offer[j].by].id = j
    BY Zenon DEF HoldersKnown
  <2>1. CASE j = i
    BY SMTT(30), <1>1, <2>1
  <2>2. CASE j # i
    <3>1. t.offer[j] = s.offer[j] /\ s.offer[j].by \in Attempts
      BY Zenon, <2>2 DEF Agree, Shapes, ManagerShape
    <3>2. at[s.offer[j].by].step \in {"consuming", "gone"} /\ at[s.offer[j].by].id = j
      BY Zenon, <3>1 DEF Agree, HoldersKnown
    <3>3. s.offer[j].by # a
      <4>1. CASE s.offer[i].by = a
        BY <2>2, <3>2, <4>1 DEF Agree, HoldersKnown
      <4> QED  BY Zenon, <3>2, <4>1
    <3> QED  BY <1>1, <3>1, <3>2, <3>3
  <2> QED  BY Zenon, <2>1, <2>2
<1> QED  BY Zenon, <1>2, <1>6, <1>7, <1>8, <1>9 DEF Agree

-----------------------------------------------------------------------------
(* What a step does to the tickets and to the number of cells.             *)

\* The ticket of call k moves as its holders may see it move.
TicketMove(s, at, ft, t, bt, gt, k) ==
  \/ gt[k] = ft[k] /\ ft[k] # "ready"
  \/ ft[k] = "ready" /\ gt[k] = "void"
  \/ ft[k] = "absent" /\ gt[k] = "ready" /\ \E i \in Ids : t.offer[i] = [call |-> k, by |-> None]
  \/ /\ ft[k] = "ready" /\ gt[k] = "used"
     /\ \E i \in Ids : /\ s.offer[i].call = k /\ s.offer[i].by # None
                       /\ at[s.offer[i].by].step = "consuming"
  \/ /\ ft[k] = "ready" /\ gt[k] = "ready"
     /\ \E i \in Ids :
          /\ s.offer[i].call = k /\ t.offer[i].call = k
          /\ \/ s.offer[i].by = None /\ t.offer[i].by = None
             \/ /\ s.offer[i].by # None /\ t.offer[i].by = s.offer[i].by
                /\ bt[s.offer[i].by].step # at[s.offer[i].by].step =>
                     at[s.offer[i].by].step = "consuming" /\ bt[s.offer[i].by].step = "gone"
             \/ /\ s.offer[i].by = None /\ t.offer[i].by # None
                /\ bt[t.offer[i].by].step = "consuming"
             \/ /\ s.offer[i].by # None /\ at[s.offer[i].by].step = "consuming"
                /\ t.offer[i].by = None

TicketsMove(s, at, ft, t, bt, gt) ==
  \A k \in Calls : TicketMove(s, at, ft, t, bt, gt, k)

\* No operation gains a cell.
NoNewCell(s, t) == \A o \in Operations : t.operation[o] # None => s.operation[o] # None

\* The first part of a section prunes.
Pruning(s) ==
  /\ Agree(s, call, attempt, Fates(s, None))
  /\ NoNewCell(m, s)
  /\ \A k \in Calls : /\ Fates(s, None)[k] # fate[k] =>
                           fate[k] = "ready" /\ Fates(s, None)[k] = "void"
                      /\ \A i \in Ids : s.offer[i].call = k => m.offer[i] = s.offer[i]

\* What expire_ready_locked does, as the rest of a section needs it.
LEMMA PrunesFirst ==
  ASSUME OffersInv, NEW s \in Pruned(m)
  PROVE  Pruning(s)
<1> USE OffersAssumption
<1>1. Agree(s, call, attempt, Fates(s, None))
  BY Zenon, Prunes
<1>2. PICK gone \in SUBSET Ids :
        /\ \A i \in gone : m.offer[i] # NoOffer /\ m.offer[i].by = None
        /\ Without(m, s, gone)
        /\ \A k \in Calls : Fates(s, None)[k] = IF \E i \in gone : m.offer[i].call = k
                                                THEN "void" ELSE fate[k]
  BY Zenon, Prunes
<1>3. NoNewCell(m, s)
  BY Zenon, <1>2 DEF Without, NoNewCell
<1>4. \A i \in gone : m.offer[i].call \in Calls /\ fate[m.offer[i].call] = "ready"
  BY Zenon, <1>2 DEF OffersInv, Agree, OffersBacked
<1>5. ASSUME NEW k \in Calls, NEW i \in Ids, s.offer[i].call = k
      PROVE  m.offer[i] = s.offer[i]
  BY <1>2, <1>5 DEF Without, NoOffer
<1>6. ASSUME NEW k \in Calls, Fates(s, None)[k] # fate[k]
      PROVE  fate[k] = "ready" /\ Fates(s, None)[k] = "void"
  BY Zenon, <1>2, <1>4, <1>6
<1> QED  BY Zenon, <1>1, <1>3, <1>5, <1>6 DEF Pruning

\* What the second part of a section does to the tickets, the section does.
LEMMA SectionMoves ==
  ASSUME NEW s, Pruning(s), NEW t, NEW bt, NEW gt,
         TicketsMove(s, attempt, Fates(s, None), t, bt, gt)
  PROVE  TicketsMove(m, attempt, fate, t, bt, gt)
<1> DEFINE ft == Fates(s, None)
<1> SUFFICES ASSUME NEW k \in Calls
             PROVE  TicketMove(m, attempt, fate, t, bt, gt, k)
  BY Zenon DEF TicketsMove
<1>1. /\ ft[k] # fate[k] => fate[k] = "ready" /\ ft[k] = "void"
      /\ \A i \in Ids : s.offer[i].call = k => m.offer[i] = s.offer[i]
  BY Zenon DEF Pruning
<1>2. TicketMove(s, attempt, ft, t, bt, gt, k)
  BY Zenon DEF TicketsMove
<1> HIDE DEF ft
<1> QED  BY ZenonT(30), <1>1, <1>2 DEF TicketMove

\* A step that leaves the offers alone leaves the tickets alone, unless a
\* permit is dropped.
LEMMA SameOffers ==
  ASSUME NEW s, NEW cl, NEW at, NEW ft, Agree(s, cl, at, ft),
         NEW t, t.offer = s.offer, NEW bt,
         \A a \in Attempts : at[a].step \in {"consuming", "gone"} /\ bt[a].step # at[a].step =>
           at[a].step = "consuming" /\ bt[a].step = "gone"
  PROVE  TicketsMove(s, at, ft, t, bt, ft)
<1> SUFFICES ASSUME NEW k \in Calls, ft[k] = "ready"
             PROVE  TicketMove(s, at, ft, t, bt, ft, k)
  BY DEF TicketsMove, TicketMove
<1>1. PICK i \in Ids : s.offer[i] # NoOffer /\ s.offer[i].call = k
  BY Zenon DEF Agree, ReadyOffered, Offered
<1>2. CASE s.offer[i].by = None
  BY Zenon, <1>1, <1>2 DEF TicketMove
<1>3. CASE s.offer[i].by # None
  <2>1. s.offer[i].by \in Attempts
    BY Zenon, <1>3 DEF Agree, Shapes, ManagerShape
  <2>2. at[s.offer[i].by].step \in {"consuming", "gone"}
    BY Zenon, <1>3 DEF Agree, HoldersKnown
  <2>3. bt[s.offer[i].by].step # at[s.offer[i].by].step =>
          at[s.offer[i].by].step = "consuming" /\ bt[s.offer[i].by].step = "gone"
    BY Zenon, <2>1, <2>2
  <2> QED  BY Zenon, <1>1, <1>3, <2>3 DEF TicketMove
<1> QED  BY Zenon, <1>2, <1>3

\* A step that adds a cell does so below the limit.
CellsBounded ==
  \/ NoNewCell(m, m')
  \/ \E s : /\ NoNewCell(m, s) /\ ~Full(s)
            /\ \E o \in Operations : \A p \in Operations \ {o} : m'.operation[p] = s.operation[p]

Stepped ==
  /\ OffersInv'
  /\ TicketsMove(m, attempt, fate, m', attempt', fate')
  /\ CellsBounded

\* A section that prunes and moves its call on, but does nothing else to the
\* manager.
LEMMA SectionAnswers ==
  ASSUME OffersInv, NEW s, Pruning(s), m' = s, fate' = Fates(s, None),
         UNCHANGED attempt, Agree(s, call', attempt, Fates(s, None))
  PROVE  Stepped
<1>1. OffersInv'
  BY Zenon DEF OffersInv
<1>2. TicketsMove(m, attempt, fate, m', attempt', fate')
  BY Zenon, SameOffers, SectionMoves DEF Pruning
<1>3. CellsBounded
  BY Zenon DEF CellsBounded, Pruning
<1> QED  BY Zenon, <1>1, <1>2, <1>3 DEF Stepped

\* The updates of a call's record.
Turned(r, step) == [r EXCEPT !.step = step]
Ended(r, step, result) == [r EXCEPT !.step = step, !.result = result]
Entered(r, step, cell) == [r EXCEPT !.step = step, !.cell = cell]
Begun(r, o, print) == [r EXCEPT !.op = o, !.print = print]

\* They change what they name.
LEMMA CallRewritten ==
  ASSUME NEW r, CallShape(r), NEW step, NEW x
  PROVE  /\ CallShape(Turned(r, step)) /\ Turned(r, step).step = step
         /\ Turned(r, step).op = r.op /\ Turned(r, step).result = r.result
         /\ CallShape(Ended(r, step, x)) /\ Ended(r, step, x).step = step
         /\ Ended(r, step, x).result = x /\ Ended(r, step, x).op = r.op
         /\ CallShape(Entered(r, step, x)) /\ Entered(r, step, x).step = step
         /\ Entered(r, step, x).cell = x /\ Entered(r, step, x).op = r.op
<1>1. /\ CallShape(Turned(r, step)) /\ Turned(r, step).step = step
      /\ Turned(r, step).op = r.op /\ Turned(r, step).result = r.result
  BY DEF CallShape, Turned
<1>2. /\ CallShape(Ended(r, step, x)) /\ Ended(r, step, x).step = step /\ Ended(r, step, x).result = x /\ Ended(r, step, x).op = r.op
  <2>1. PICK q : q = Ended(r, step, x)
    BY Zenon
  <2>2. q = [r EXCEPT !.step = step, !.result = x]
    BY Zenon, <2>1 DEF Ended
  <2>3. r = [step |-> r.step, op |-> r.op, print |-> r.print, cell |-> r.cell, result |-> r.result]
        /\ r.op \in Operations \cup {None}
    BY Zenon DEF CallShape
  <2>4. q.step = step /\ q.result = x /\ q.op = r.op
    BY Zenon, <2>2, <2>3
  <2>5. q = [step |-> q.step, op |-> q.op, print |-> q.print, cell |-> q.cell, result |-> q.result]
    BY Zenon, <2>2, <2>3
  <2>6. CallShape(q)
    BY Zenon, <2>3, <2>4, <2>5 DEF CallShape
  <2> QED  BY Zenon, <2>1, <2>4, <2>6
<1>3. /\ CallShape(Entered(r, step, x)) /\ Entered(r, step, x).step = step /\ Entered(r, step, x).cell = x /\ Entered(r, step, x).op = r.op
  <2>1. PICK q : q = Entered(r, step, x)
    BY Zenon
  <2>2. q = [r EXCEPT !.step = step, !.cell = x]
    BY Zenon, <2>1 DEF Entered
  <2>3. r = [step |-> r.step, op |-> r.op, print |-> r.print, cell |-> r.cell, result |-> r.result]
        /\ r.op \in Operations \cup {None}
    BY Zenon DEF CallShape
  <2>4. q.step = step /\ q.cell = x /\ q.op = r.op
    BY Zenon, <2>2, <2>3
  <2>5. q = [step |-> q.step, op |-> q.op, print |-> q.print, cell |-> q.cell, result |-> q.result]
    BY Zenon, <2>2, <2>3
  <2>6. CallShape(q)
    BY Zenon, <2>3, <2>4, <2>5 DEF CallShape
  <2> QED  BY Zenon, <2>1, <2>4, <2>6
<1> QED  BY Zenon, <1>1, <1>2, <1>3

\* A call's record when it begins.
LEMMA CallBegun ==
  ASSUME NEW r, CallShape(r), NEW o \in Operations, NEW x
  PROVE  CallShape(Begun(r, o, x)) /\ Begun(r, o, x).op = o
<1>1. PICK q : q = Begun(r, o, x)
  BY Zenon
<1>2. q = [r EXCEPT !.op = o, !.print = x]
  BY Zenon, <1>1 DEF Begun
<1>3. r = [step |-> r.step, op |-> r.op, print |-> r.print, cell |-> r.cell, result |-> r.result]
      /\ r.op \in Operations \cup {None}
  BY Zenon DEF CallShape
<1>4. q.op = o
  BY Zenon, <1>2, <1>3
<1>5. q = [step |-> q.step, op |-> q.op, print |-> q.print, cell |-> q.cell, result |-> q.result]
  BY Zenon, <1>2, <1>3
<1>6. CallShape(q)
  BY Zenon, <1>3, <1>4, <1>5 DEF CallShape
<1> QED  BY Zenon, <1>1, <1>4, <1>6

\* The first section of create_offer_until.
LEMMA CreateSteps ==
  ASSUME OffersInv, NEW k \in Calls, NEW o \in Operations, NEW print \in Prints,
         CreateOffer(k, o, print)
  PROVE  Stepped
<1> USE OffersAssumption
<1>1. call[k].step = "idle" /\ UNCHANGED attempt
  BY Zenon DEF CreateOffer
<1>2. PICK s \in Pruned(m) :
        /\ fate' = Fates(s, None)
        /\ \/ /\ m' = s
              /\ \E error : call' = [call EXCEPT ![k] =
                   [[call[k] EXCEPT !.op = o, !.print = print]
                      EXCEPT !.step = "done", !.result = error]]
           \/ /\ m' = s /\ s.operation[o] # None
              /\ call' = [call EXCEPT ![k] =
                   [[call[k] EXCEPT !.op = o, !.print = print]
                      EXCEPT !.step = "join", !.cell = s.operation[o]]]
           \/ /\ s.operation[o] = None /\ ~Full(s)
              /\ m' = [s EXCEPT !.operation[o] = k]
              /\ call' = [call EXCEPT ![k] =
                   [[call[k] EXCEPT !.op = o, !.print = print]
                      EXCEPT !.step = "execute", !.cell = k]]
  BY Zenon DEF CreateOffer
<1>3. Pruning(s) /\ Agree(s, call, attempt, Fates(s, None))
  BY Zenon, PrunesFirst DEF Pruning
<1>4. ~Offered(s, k) /\ \A p \in Operations : s.operation[p] # k
  BY Zenon, <1>1, <1>3, IdleHasNothing
<1>5. CallShape(call[k]) /\ CallsShape(call)
  BY Zenon DEF OffersInv, Agree, Shapes, CallsShape
<1> DEFINE begun == Begun(call[k], o, print)
<1>6. CallShape(begun) /\ begun.op = o
  BY Zenon, <1>5, CallBegun
<1>7. CASE /\ m' = s
           /\ \E error : call' = [call EXCEPT ![k] =
                [[call[k] EXCEPT !.op = o, !.print = print]
                   EXCEPT !.step = "done", !.result = error]]
  <2>1. PICK error : call' = [call EXCEPT ![k] =
                [[call[k] EXCEPT !.op = o, !.print = print]
                   EXCEPT !.step = "done", !.result = error]]
    BY Zenon, <1>7
  <2>2. PICK r : r = Ended(begun, "done", error)
    BY Zenon
  <2>3. call' = [call EXCEPT ![k] = r]
    BY <2>1, <2>2, Zenon DEF Begun, Ended
  <2> HIDE DEF begun
  <2>4. CallShape(r) /\ r.step = "done"
    BY <1>6, <2>2, CallRewritten
  <2>5. CallMoves(call, call', k, r)
    BY Zenon, <1>5, <2>3, <2>4, CallUpdated
  <2>6. Agree(s, call', attempt, Fates(s, None))
    BY Zenon, <1>3, <1>4, <2>4, <2>5, CallAnswers
  <2> QED  BY ZenonT(30), <1>1, <1>2, <1>3, <1>7, <2>6, SectionAnswers
<1>8. CASE /\ m' = s /\ s.operation[o] # None
           /\ call' = [call EXCEPT ![k] =
                [[call[k] EXCEPT !.op = o, !.print = print]
                   EXCEPT !.step = "join", !.cell = s.operation[o]]]
  <2>1. s.operation[o] \in Calls
    BY Zenon, <1>3, <1>8 DEF Agree, Shapes, ManagerShape
  <2>2. PICK r : r = Entered(begun, "join", s.operation[o])
    BY Zenon
  <2>3. call' = [call EXCEPT ![k] = r]
    BY <1>8, <2>2, Zenon DEF Begun, Entered
  <2> HIDE DEF begun
  <2>4. CallShape(r) /\ r.step = "join" /\ r.cell = s.operation[o]
    BY <1>6, <2>2, CallRewritten
  <2>5. CallMoves(call, call', k, r)
    BY Zenon, <1>5, <2>3, <2>4, CallUpdated
  <2>6. Agree(s, call', attempt, Fates(s, None))
    BY <1>3, <1>4, <2>1, <2>4, <2>5, CallAnswers
  <2> QED  BY Zenon, <1>1, <1>2, <1>3, <1>8, <2>6, SectionAnswers
<1>9. CASE /\ s.operation[o] = None /\ ~Full(s)
           /\ m' = [s EXCEPT !.operation[o] = k]
           /\ call' = [call EXCEPT ![k] =
                [[call[k] EXCEPT !.op = o, !.print = print]
                   EXCEPT !.step = "execute", !.cell = k]]
  <2>1. /\ m'.offer = s.offer /\ m'.cell = s.cell /\ ManagerShape(m')
        /\ \A p \in Operations : m'.operation[p] = IF p = o THEN k ELSE s.operation[p]
    <3>1. ManagerShape(s)
      BY Zenon, <1>3 DEF Agree, Shapes
    <3>2. /\ m'.offer = s.offer /\ m'.cell = s.cell
          /\ m'.operation = [s.operation EXCEPT ![o] = k]
          /\ m' = [offer |-> m'.offer, operation |-> m'.operation, cell |-> m'.cell,
                   retiredOffer |-> m'.retiredOffer, retiredOperation |-> m'.retiredOperation]
      BY Zenon, <1>9, <3>1 DEF ManagerShape
    <3> QED  BY <3>1, <3>2 DEF ManagerShape
  <2>2. PICK r : r = Entered(begun, "execute", k)
    BY Zenon
  <2>3. call' = [call EXCEPT ![k] = r]
    BY <1>9, <2>2, Zenon DEF Begun, Entered
  <2> HIDE DEF begun
  <2>4. CallShape(r) /\ r.step = "execute" /\ r.op = o
    BY <1>6, <2>2, CallRewritten
  <2>5. CallMoves(call, call', k, r)
    BY Zenon, <1>5, <2>3, <2>4, CallUpdated
  <2>6. Agree(m', call', attempt, Fates(s, None))
    <3>1. s.operation[o] = None
      BY Zenon, <1>9
    <3> QED  BY <1>1, <1>3, <2>1, <2>4, <2>5, <3>1, CallRegisters
  <2>7. OffersInv'
    BY Zenon, <1>1, <1>2, <2>6 DEF OffersInv
  <2>8. TicketsMove(s, attempt, Fates(s, None), m', attempt, Fates(s, None))
    BY Zenon, <1>3, <2>1, SameOffers
  <2>9. TicketsMove(m, attempt, fate, m', attempt', fate')
    BY Zenon, <1>1, <1>2, <1>3, <2>8, SectionMoves
  <2>10. CellsBounded
    BY <1>3, <1>9, <2>1 DEF CellsBounded, Pruning
  <2> QED  BY Zenon, <2>7, <2>9, <2>10 DEF Stepped
<1> QED  BY ZenonT(30), <1>2, <1>7, <1>8, <1>9

\* An update of two fields of a call is one of its record.
EndCall(cl, k, step, result) == [cl EXCEPT ![k].step = step, ![k].result = result]

\* Ending a call changes its step and its result, and no other call.
LEMMA CallEnded ==
  ASSUME NEW cl, CallsShape(cl), NEW k \in Calls, NEW step, NEW result
  PROVE  CallMoves(cl, EndCall(cl, k, step, result), k, Ended(cl[k], step, result))
<1>1. CallShape(cl[k]) /\ cl = [j \in Calls |-> cl[j]]
  BY Zenon DEF CallsShape
<1>2. EndCall(cl, k, step, result) = [cl EXCEPT ![k] = Ended(cl[k], step, result)]
  BY Zenon, <1>1 DEF Ended, EndCall
<1>3. CallShape(Ended(cl[k], step, result))
  BY Zenon, <1>1, CallRewritten
<1> QED  BY Zenon, <1>2, <1>3, CallUpdated

\* execute_create draws an identity and publishes the offer.
LEMMA ExecuteSteps ==
  ASSUME OffersInv, NEW k \in Calls, NEW i \in Ids, ExecuteCreate(k, i)
  PROVE  Stepped
<1> USE OffersAssumption
<1>1. /\ call[k].step = "execute" /\ UNCHANGED attempt
      /\ call' = EndCall(call, k, "complete", "ticket")
  BY Zenon DEF ExecuteCreate, EndCall
<1>2. PICK s \in Pruned(m) :
        /\ FreshId(s, i)
        /\ m' = [s EXCEPT !.offer[i] = [call |-> k, by |-> None]]
        /\ fate' = [Fates(s, None) EXCEPT ![k] = "ready"]
  BY Zenon DEF ExecuteCreate
<1>3. Pruning(s) /\ Agree(s, call, attempt, Fates(s, None))
  BY Zenon, PrunesFirst DEF Pruning
<1>4. CallsShape(call) /\ CallShape(call[k])
  BY Zenon DEF OffersInv, Agree, Shapes, CallsShape
<1>5. PICK r : r = Ended(call[k], "complete", "ticket")
  BY Zenon
<1>6. CallMoves(call, call', k, r)
  BY Zenon, <1>1, <1>4, <1>5, CallEnded
<1>7. r.op = call[k].op /\ r.step = "complete" /\ r.result = "ticket"
  BY <1>4, <1>5, CallRewritten
<1>8. s.offer[i] = NoOffer
  BY Zenon, <1>2 DEF FreshId, Live
<1>9. /\ m'.operation = s.operation /\ m'.cell = s.cell /\ ManagerShape(m')
      /\ \A j \in Ids : m'.offer[j] = IF j = i THEN [call |-> k, by |-> None] ELSE s.offer[j]
  <2>1. ManagerShape(s)
    BY Zenon, <1>3 DEF Agree, Shapes
  <2>2. /\ m'.operation = s.operation /\ m'.cell = s.cell
        /\ m'.offer = [s.offer EXCEPT ![i] = [call |-> k, by |-> None]]
        /\ m' = [offer |-> m'.offer, operation |-> m'.operation, cell |-> m'.cell,
                 retiredOffer |-> m'.retiredOffer, retiredOperation |-> m'.retiredOperation]
    BY Zenon, <1>2, <2>1 DEF ManagerShape
  <2> QED  BY <2>1, <2>2 DEF ManagerShape
<1>10. /\ fate' \in [Calls -> {"absent", "ready", "used", "void"}]
       /\ \A j \in Calls : fate'[j] = IF j = k THEN "ready" ELSE Fates(s, None)[j]
  <2>1. Fates(s, None) \in [Calls -> {"absent", "ready", "used", "void"}]
    BY Zenon, <1>3 DEF Agree, Shapes
  <2> QED  BY Zenon, <1>2, <2>1
<1>11. Agree(m', call', attempt, fate')
  BY <1>1, <1>3, <1>6, <1>7, <1>8, <1>9, <1>10, CallExecutes
<1>12. OffersInv'
  BY Zenon, <1>1, <1>11 DEF OffersInv
<1>13. TicketsMove(s, attempt, Fates(s, None), m', attempt, fate')
  <2> SUFFICES ASSUME NEW j \in Calls
               PROVE  TicketMove(s, attempt, Fates(s, None), m', attempt, fate', j)
    BY Zenon DEF TicketsMove
  <2>1. CASE j = k
    <3>1. Fates(s, None)[k] = "absent" /\ fate'[k] = "ready"
      BY Zenon, <1>1, <1>3, <1>10 DEF Agree, CallsGo
    <3>2. m'.offer[i] = [call |-> k, by |-> None]
      BY Zenon, <1>9
    <3> QED  BY Zenon, <2>1, <3>1, <3>2 DEF TicketMove
  <2>2. CASE j # k /\ Fates(s, None)[j] # "ready"
    BY Zenon, <1>10, <2>2 DEF TicketMove
  <2>3. CASE j # k /\ Fates(s, None)[j] = "ready"
    <3>1. PICK x \in Ids : s.offer[x] # NoOffer /\ s.offer[x].call = j
      BY Zenon, <1>3, <2>3 DEF Agree, ReadyOffered, Offered
    <3>2. m'.offer[x] = s.offer[x] /\ fate'[j] = "ready"
      BY Zenon, <1>8, <1>9, <1>10, <2>3, <3>1
    <3> QED  BY Zenon, <2>3, <3>1, <3>2 DEF TicketMove
  <2> QED  BY Zenon, <2>1, <2>2, <2>3
<1>14. TicketsMove(m, attempt, fate, m', attempt', fate')
  BY Zenon, <1>1, <1>3, <1>13, SectionMoves
<1>15. CellsBounded
  BY Zenon, <1>3, <1>9 DEF CellsBounded, Pruning, NoNewCell
<1> QED  BY Zenon, <1>12, <1>14, <1>15 DEF Stepped

\* execute_create fails after it has pruned.
LEMMA ExecuteFailsSteps ==
  ASSUME OffersInv, NEW k \in Calls, ExecuteFails(k)
  PROVE  Stepped
<1> USE OffersAssumption
<1>1. /\ call[k].step = "execute" /\ UNCHANGED attempt
      /\ call' = EndCall(call, k, "complete", "failed")
  BY Zenon DEF ExecuteFails, EndCall
<1>2. PICK s \in Pruned(m) : m' = s /\ fate' = Fates(s, None)
  BY Zenon DEF ExecuteFails
<1>3. Pruning(s) /\ Agree(s, call, attempt, Fates(s, None))
  BY Zenon, PrunesFirst DEF Pruning
<1>4. CallsShape(call) /\ CallShape(call[k])
  BY Zenon DEF OffersInv, Agree, Shapes, CallsShape
<1>5. PICK r : r = Ended(call[k], "complete", "failed")
  BY Zenon
<1>6. CallMoves(call, call', k, r)
  BY Zenon, <1>1, <1>4, <1>5, CallEnded
<1>7. CallShape(r) /\ r.op = call[k].op /\ r.step = "complete" /\ r.result = "failed"
  BY SMTT(30), <1>4, <1>5, CallRewritten
<1>8. ~Offered(s, k) /\ call[k].op \in Operations
  <2>1. OffersBacked(s, call, Fates(s, None)) /\ CallsGo(s, call, Fates(s, None))
    BY Zenon, <1>3 DEF Agree
  <2> QED  BY Zenon, <1>1, <2>1 DEF OffersBacked, Offered, CallsGo
<1>9. Working(r)
  BY Zenon, <1>7 DEF Working
<1>10. Agree(s, call', attempt, Fates(s, None))
  BY <1>3, <1>6, <1>7, <1>8, <1>9, CallAnswers
<1> QED  BY Zenon, <1>1, <1>2, <1>3, <1>10, SectionAnswers

\* A step that leaves the manager's offers, the handshakes and the fates
\* alone, and adds no cell.
LEMMA CallStepped ==
  ASSUME OffersInv, Agree(m', call', attempt, fate), UNCHANGED <<attempt, fate>>,
         m'.offer = m.offer, NoNewCell(m, m')
  PROVE  Stepped
<1>1. OffersInv'
  BY Zenon DEF OffersInv
<1>2. TicketsMove(m, attempt, fate, m', attempt, fate)
  BY Zenon, SameOffers DEF OffersInv
<1> QED  BY Zenon, <1>1, <1>2 DEF Stepped, CellsBounded

\* cell.complete.
LEMMA CompleteSteps ==
  ASSUME OffersInv, NEW k \in Calls, Complete(k)
  PROVE  Stepped
<1> USE OffersAssumption
<1> DEFINE step == IF call[k].result = "ticket" THEN "done" ELSE "retire"
           outcome == IF m.cell[k] = "pending" THEN call[k].result ELSE m.cell[k]
           r == Turned(call[k], step)
<1>1. /\ call[k].step = "complete" /\ UNCHANGED <<attempt, fate>>
      /\ m' = [m EXCEPT !.cell[k] = outcome]
      /\ call' = [call EXCEPT ![k].step = step]
  BY Zenon DEF Complete
<1> HIDE DEF step, outcome
<1>2. Agree(m, call, attempt, fate) /\ ManagerShape(m) /\ CallsShape(call) /\ CallShape(call[k])
  BY Zenon DEF OffersInv, Agree, Shapes, CallsShape
<1>3. CallShape(r) /\ r.step = step /\ r.op = call[k].op /\ r.result = call[k].result
  BY <1>2, CallRewritten
<1>4. call' = [call EXCEPT ![k] = r]
  <2>1. call = [j \in Calls |-> call[j]]
    BY Zenon, <1>2 DEF CallsShape
  <2>2. call' = [call EXCEPT ![k] = [call[k] EXCEPT !.step = step]]
    BY Zenon, <1>1, <2>1
  <2> QED  BY Zenon, <2>2 DEF Turned
<1> HIDE DEF r
<1>5. CallMoves(call, call', k, r)
  BY Zenon, <1>2, <1>3, <1>4, CallUpdated
<1>6. /\ m'.offer = m.offer /\ m'.operation = m.operation
      /\ m'.cell = [m.cell EXCEPT ![k] = outcome]
      /\ m' = [offer |-> m'.offer, operation |-> m'.operation, cell |-> m'.cell,
               retiredOffer |-> m'.retiredOffer, retiredOperation |-> m'.retiredOperation]
  BY Zenon, <1>1, <1>2 DEF ManagerShape
<1>7. ManagerShape(m') /\ \A j \in Calls : m'.cell[j] = IF j = k THEN outcome ELSE m.cell[j]
  BY Zenon, <1>2, <1>6 DEF ManagerShape
<1>8. \A j \in Calls : m'.cell[j] = IF j = k /\ m.cell[k] = "pending"
                                    THEN call[k].result ELSE m.cell[j]
  BY Zenon, <1>7 DEF outcome
<1>9. r.step = IF call[k].result = "ticket" THEN "done" ELSE "retire"
  BY Zenon, <1>3 DEF step
<1>10. Agree(m', call', attempt, fate)
  <2>1. call[k].step = "complete" /\ Agree(m, call, attempt, fate)
    BY Zenon, <1>1, <1>2
  <2>2. m'.offer = m.offer /\ m'.operation = m.operation /\ ManagerShape(m')
    BY Zenon, <1>6, <1>7
  <2>3. r.op = call[k].op /\ r.result = call[k].result
    BY Zenon, <1>3
  <2> QED  BY Zenon, <1>5, <1>8, <1>9, <2>1, <2>2, <2>3, CallCompletes
<1> QED  BY Zenon, <1>1, <1>6, <1>10, CallStepped DEF NoNewCell

\* A failed call retires its own cell, if it still has it.
LEMMA RetireSteps ==
  ASSUME OffersInv, NEW k \in Calls, RetireFailed(k)
  PROVE  Stepped
<1> USE OffersAssumption
<1>1. /\ call[k].step = "retire" /\ UNCHANGED <<attempt, fate>>
      /\ m' = IF m.operation[call[k].op] = k
              THEN RetireOperations(m, <<k>>, call[k].result) ELSE m
      /\ call' = EndCall(call, k, "done", call[k].result)
  BY Zenon DEF RetireFailed, Answered, EndCall
<1>2. /\ Agree(m, call, attempt, fate) /\ ManagerShape(m) /\ CallsShape(call)
      /\ CallShape(call[k]) /\ OffersBacked(m, call, fate) /\ CellsBacked(m, call)
      /\ CallsGo(m, call, fate)
  BY Zenon DEF OffersInv, Agree, Shapes, CallsShape
<1>3. call[k].result = "failed" /\ call[k].op \in Operations
  BY Zenon, <1>1, <1>2 DEF CallsGo
<1>4. PICK r : r = Ended(call[k], "done", "failed")
  BY Zenon
<1>5. CallMoves(call, call', k, r)
  BY Zenon, <1>1, <1>2, <1>3, <1>4, CallEnded
<1>6. r.step = "done" /\ r.op = call[k].op /\ r.result = "failed"
  BY <1>2, <1>4, CallRewritten
<1>7. \A o \in Operations : m.operation[o] = k => o = call[k].op
  BY Zenon, <1>2 DEF CellsBacked
<1>8. CASE m.operation[call[k].op] = k
  <2>1. m' = RetireOperations(m, <<k>>, "failed")
    BY Zenon, <1>1, <1>3, <1>8
  <2>2. OpsOf(<<k>>) = {call[k].op}
    BY DEF OpsOf, Range
  <2>3. /\ ManagerShape(m') /\ m'.offer = m.offer
        /\ \A o \in Operations : m'.operation[o] = IF o \in OpsOf(<<k>>) THEN None
                                                   ELSE m.operation[o]
        /\ \A j \in Calls : m'.cell[j] = IF \E o \in OpsOf(<<k>>) : m.operation[o] = j
                                         THEN "failed" ELSE m.cell[j]
    BY <1>2, <2>1, OperationsRetired
  <2>4. /\ \A o \in Operations : m'.operation[o] = IF m.operation[o] = k THEN None
                                                   ELSE m.operation[o]
        /\ \A j \in Calls : m'.cell[j] = IF j = k THEN "failed" ELSE m.cell[j]
    BY ZenonT(30), <1>3, <1>7, <1>8, <2>2, <2>3
  <2>5. Agree(m', call', attempt, fate)
    BY <1>1, <1>2, <1>5, <1>6, <2>3, <2>4, CallRetires
  <2>6. NoNewCell(m, m')
    BY Zenon, <2>4 DEF NoNewCell
  <2> QED  BY Zenon, <1>1, <2>3, <2>5, <2>6, CallStepped
<1>9. CASE m.operation[call[k].op] # k
  <2>1. m' = m /\ \A o \in Operations : m.operation[o] # k
    BY Zenon, <1>1, <1>7, <1>9
  <2>2. ~Offered(m, k)
    BY ZenonT(30), <1>1, <1>2 DEF OffersBacked, Offered
  <2>3. Agree(m', call', attempt, fate)
    BY <1>2, <1>5, <1>6, <2>1, <2>2, CallAnswers
  <2> QED  BY Zenon, <1>1, <2>1, <2>3, CallStepped DEF NoNewCell
<1> QED  BY Zenon, <1>8, <1>9

\* cell.wait_until gives the caller the outcome or its deadline.
LEMMA JoinSteps ==
  ASSUME OffersInv, NEW k \in Calls, Join(k)
  PROVE  Stepped
<1>1. /\ call[k].step = "join" /\ UNCHANGED <<m, attempt, fate>>
      /\ \E result : call' = EndCall(call, k, "done", result)
  BY Zenon DEF Join, Answered, EndCall
<1>2. PICK result : call' = EndCall(call, k, "done", result)
  BY Zenon, <1>1
<1>3. Agree(m, call, attempt, fate) /\ CallsShape(call) /\ CallShape(call[k])
  BY Zenon DEF OffersInv, Agree, Shapes, CallsShape
<1>4. PICK r : r = Ended(call[k], "done", result)
  BY Zenon
<1>5. CallMoves(call, call', k, r)
  BY Zenon, <1>2, <1>3, <1>4, CallEnded
<1>6. r.step = "done"
  BY <1>3, <1>4, CallRewritten
<1>7. ~Offered(m, k) /\ \A o \in Operations : m.operation[o] # k
  BY Zenon, <1>1, <1>3, IdleHasNothing
<1>8. Agree(m', call', attempt, fate)
  BY Zenon, <1>1, <1>3, <1>5, <1>6, <1>7, CallAnswers
<1> QED  BY Zenon, <1>1, <1>8, CallStepped DEF NoNewCell

\* A section that prunes and moves its handshake on, but takes no permit.
LEMMA SectionPasses ==
  ASSUME OffersInv, NEW s \in Pruned(m), m' = s, fate' = Fates(s, None), UNCHANGED call,
         NEW a \in Attempts, attempt[a].step \notin {"consuming", "gone"},
         NEW r \in AttemptRecords, r.step \notin {"consuming", "gone"},
         AttemptSet(attempt, attempt', a, r)
  PROVE  Stepped
<1>1. Pruning(s) /\ Agree(s, call, attempt, Fates(s, None))
  BY Zenon, PrunesFirst DEF Pruning
<1>2. Agree(s, call, attempt', Fates(s, None))
  BY Zenon, <1>1, AttemptMoves
<1>3. OffersInv'
  BY Zenon, <1>2 DEF OffersInv
<1>4. \A b \in Attempts : attempt[b].step \in {"consuming", "gone"} => attempt'[b] = attempt[b]
  BY Zenon DEF AttemptSet
<1>5. TicketsMove(s, attempt, Fates(s, None), s, attempt', Fates(s, None))
  BY Zenon, <1>1, <1>4, SameOffers
<1>6. TicketsMove(m, attempt, fate, m', attempt', fate')
  BY Zenon, <1>1, <1>5, SectionMoves
<1>7. CellsBounded
  BY Zenon, <1>1 DEF CellsBounded, Pruning
<1> QED  BY Zenon, <1>3, <1>6, <1>7 DEF Stepped

\* prepare_challenge_until.
LEMMA PrepareSteps ==
  ASSUME OffersInv, NEW a \in Attempts, NEW i \in Ids, PrepareChallenge(a, i)
  PROVE  Stepped
<1>1. attempt[a].step = "idle" /\ UNCHANGED call
  BY Zenon DEF PrepareChallenge
<1>2. PICK s \in Pruned(m) :
        /\ i \in Live(s)
        /\ attempt' = [attempt EXCEPT ![a] =
             [step |-> "prepared", id |-> i, call |-> s.offer[i].call]]
        /\ m' = s /\ fate' = Fates(s, None)
  BY Zenon DEF PrepareChallenge
<1>3. Agree(s, call, attempt, Fates(s, None))
  BY Zenon, PrunesFirst DEF Pruning
<1>4. s.offer[i].call \in Calls
  BY Zenon, <1>2, <1>3 DEF Agree, OffersBacked, Live
<1>5. PICK r : r = [step |-> "prepared", id |-> i, call |-> s.offer[i].call]
  BY Zenon
<1>6. r \in AttemptRecords /\ r.step = "prepared"
  BY Zenon, <1>4, <1>5 DEF AttemptRecords
<1>7. AttemptSet(attempt, attempt', a, r)
  BY Zenon, <1>2, <1>5, <1>6 DEF AttemptSet, OffersInv, Agree, Shapes
<1> QED  BY Zenon, <1>1, <1>2, <1>6, <1>7, SectionPasses

\* A handshake's record with another step.
TurnAttempt(at, a, step) == [at EXCEPT ![a].step = step]

\* A handshake whose step changes keeps its other fields.
LEMMA AttemptTurned ==
  ASSUME NEW at \in [Attempts -> AttemptRecords], NEW a \in Attempts, at[a] # NoAttempt,
         NEW step \in {"prepared", "consuming", "gone"}
  PROVE  \E r \in AttemptRecords :
           /\ r.step = step /\ r.id = at[a].id /\ r.call = at[a].call
           /\ AttemptSet(at, TurnAttempt(at, a, step), a, r)
<1>1. at[a] \in [step : {"prepared", "consuming", "gone"}, id : Ids, call : Calls]
  BY Zenon DEF AttemptRecords
<1>2. PICK r : r = [at[a] EXCEPT !.step = step]
  BY Zenon
<1>3. /\ r \in [step : {"prepared", "consuming", "gone"}, id : Ids, call : Calls]
      /\ r.step = step /\ r.id = at[a].id /\ r.call = at[a].call
  BY Zenon, <1>1, <1>2
<1>4. r \in AttemptRecords
  BY Zenon, <1>3 DEF AttemptRecords
<1>5. TurnAttempt(at, a, step) = [at EXCEPT ![a] = r]
  BY Zenon, <1>2 DEF TurnAttempt
<1>6. AttemptSet(at, TurnAttempt(at, a, step), a, r)
  BY Zenon, <1>4, <1>5 DEF AttemptSet
<1> QED  BY Zenon, <1>3, <1>4, <1>6

\* A change of who holds an offer, and nothing else, moves only its ticket.
LEMMA HolderMoves ==
  ASSUME NEW s, NEW cl, NEW at, NEW ft, Agree(s, cl, at, ft),
         NEW t, NEW bt, NEW i \in Ids, s.offer[i] # NoOffer, NEW by,
         \A j \in Ids : t.offer[j] = IF j = i THEN [call |-> s.offer[i].call, by |-> by]
                                     ELSE s.offer[j],
         \/ s.offer[i].by = None /\ by # None /\ bt[by].step = "consuming"
         \/ s.offer[i].by # None /\ at[s.offer[i].by].step = "consuming" /\ by = None,
         \A j \in Ids \ {i} : s.offer[j].by # None => bt[s.offer[j].by] = at[s.offer[j].by]
  PROVE  TicketsMove(s, at, ft, t, bt, ft)
<1> SUFFICES ASSUME NEW k \in Calls, ft[k] = "ready"
             PROVE  TicketMove(s, at, ft, t, bt, ft, k)
  BY Zenon DEF TicketsMove, TicketMove
<1>1. PICK j \in Ids : s.offer[j] # NoOffer /\ s.offer[j].call = k
  BY Zenon DEF Agree, ReadyOffered, Offered
<1>2. CASE j = i
  <2>1. s.offer[i].call = k /\ t.offer[i] = [call |-> k, by |-> by]
    BY Zenon, <1>1, <1>2
  <2>2. t.offer[i].call = k /\ t.offer[i].by = by
    BY <2>1
  <2> QED  BY Zenon, <2>1, <2>2 DEF TicketMove
<1>3. CASE j # i
  <2>1. t.offer[j] = s.offer[j]
    BY Zenon, <1>3
  <2>2. CASE s.offer[j].by = None
    BY Zenon, <1>1, <2>1, <2>2 DEF TicketMove
  <2>3. CASE s.offer[j].by # None
    <3>1. bt[s.offer[j].by] = at[s.offer[j].by]
      BY Zenon, <1>3, <2>3
    <3> QED  BY Zenon, <1>1, <2>1, <2>3, <3>1 DEF TicketMove
  <2> QED  BY Zenon, <2>2, <2>3
<1> QED  BY Zenon, <1>2, <1>3

\* A handshake that has no permit holds nothing.
LEMMA PermitOnly ==
  ASSUME NEW s, NEW cl, NEW at, NEW ft, Agree(s, cl, at, ft), NEW a \in Attempts,
         NEW j \in Ids, s.offer[j].by = a
  PROVE  at[a].step \in {"consuming", "gone"} /\ at[a].id = j
BY Zenon, OffersAssumption DEF Agree, HoldersKnown

\* One field of a manager's offers changed.
HoldOffer(s, i, by) == [s EXCEPT !.offer[i].by = by]

\* An offer that is taken or given back keeps the ticket it is for.
LEMMA OfferHeld ==
  ASSUME NEW s, ManagerShape(s), NEW i \in Ids, NEW by \in Attempts \cup {None},
         NEW t, t = HoldOffer(s, i, by)
  PROVE  /\ ManagerShape(t) /\ t.operation = s.operation /\ t.cell = s.cell
         /\ \A j \in Ids : t.offer[j] = IF j = i THEN [call |-> s.offer[i].call, by |-> by]
                                        ELSE s.offer[j]
<1>1. PICK o : o = [s.offer[i] EXCEPT !.by = by]
  BY Zenon
<1>2. s.offer[i] \in [call : Calls \cup {None}, by : Attempts \cup {None}]
  BY Zenon DEF ManagerShape
<1>3. o = [call |-> s.offer[i].call, by |-> by]
      /\ o \in [call : Calls \cup {None}, by : Attempts \cup {None}]
  BY Zenon, <1>1, <1>2
<1>4. /\ t.operation = s.operation /\ t.cell = s.cell
      /\ t.offer = [s.offer EXCEPT ![i] = o]
      /\ t = [offer |-> t.offer, operation |-> t.operation, cell |-> t.cell,
              retiredOffer |-> t.retiredOffer, retiredOperation |-> t.retiredOperation]
  BY Zenon, <1>1 DEF ManagerShape, HoldOffer
<1>5. t.offer \in [Ids -> [call : Calls \cup {None}, by : Attempts \cup {None}]]
  BY <1>3, <1>4 DEF ManagerShape
<1>6. \A j \in Ids : t.offer[j] = IF j = i THEN [call |-> s.offer[i].call, by |-> by]
                                  ELSE s.offer[j]
  BY Zenon, <1>3, <1>4 DEF ManagerShape
<1>7. ManagerShape(t)
  BY Zenon, <1>4, <1>5 DEF ManagerShape
<1> QED  BY Zenon, <1>4, <1>6, <1>7

\* try_consume_until takes the permit of a ready offer, or gives up.
LEMMA ConsumeSteps ==
  ASSUME OffersInv, NEW a \in Attempts, TryConsume(a)
  PROVE  Stepped
<1> USE OffersAssumption
<1> DEFINE i == attempt[a].id
<1>1. attempt[a].step = "prepared" /\ UNCHANGED call
  BY Zenon DEF TryConsume
<1>2. PICK s \in Pruned(m) :
        /\ fate' = Fates(s, None)
        /\ \/ /\ Consumable(s, a) /\ m' = HoldOffer(s, i, a)
              /\ attempt' = TurnAttempt(attempt, a, "consuming")
           \/ m' = s /\ attempt' = [attempt EXCEPT ![a] = NoAttempt]
  BY Zenon DEF TryConsume, HoldOffer, TurnAttempt
<1>3. Pruning(s) /\ Agree(s, call, attempt, Fates(s, None))
  BY Zenon, PrunesFirst DEF Pruning
<1>4. attempt \in [Attempts -> AttemptRecords] /\ ManagerShape(s)
  BY Zenon, <1>3 DEF Agree, Shapes
<1>5. CASE m' = s /\ attempt' = [attempt EXCEPT ![a] = NoAttempt]
  <2>1. NoAttempt \in AttemptRecords /\ NoAttempt.step = "idle"
    BY Zenon DEF AttemptRecords, NoAttempt
  <2>2. AttemptSet(attempt, attempt', a, NoAttempt)
    BY Zenon, <1>4, <1>5, <2>1 DEF AttemptSet
  <2> QED  BY Zenon, <1>1, <1>2, <1>5, <2>1, <2>2, SectionPasses
<1>6. CASE /\ Consumable(s, a) /\ m' = HoldOffer(s, i, a)
           /\ attempt' = TurnAttempt(attempt, a, "consuming")
  <2>1. attempt[a] # NoAttempt
    BY <1>1 DEF NoAttempt
  <2>2. i \in Ids
    BY Zenon, <1>4, <2>1 DEF AttemptRecords
  <2>3. s.offer[i] # NoOffer /\ s.offer[i].call = attempt[a].call /\ s.offer[i].by = None
    BY Zenon, <1>6 DEF Consumable
  <2> HIDE DEF i
  <2>4. PICK r \in AttemptRecords :
          /\ r.step = "consuming" /\ r.id = attempt[a].id /\ r.call = attempt[a].call
          /\ AttemptSet(attempt, attempt', a, r)
    BY Zenon, <1>4, <1>6, <2>1, AttemptTurned
  <2>5. /\ ManagerShape(m') /\ m'.operation = s.operation /\ m'.cell = s.cell
        /\ \A j \in Ids : m'.offer[j] = IF j = i THEN [call |-> s.offer[i].call, by |-> a]
                                        ELSE s.offer[j]
    BY <1>4, <1>6, <2>2, OfferHeld
  <2>6. r.id = i
    BY ZenonT(30), <2>4 DEF i
  <2>7. Agree(m', call, attempt', Fates(s, None))
    BY SMTT(30), <1>1, <1>3, <2>2, <2>3, <2>4, <2>5, <2>6, AttemptHolds
  <2>8. OffersInv'
    BY Zenon, <1>1, <1>2, <2>7 DEF OffersInv
  <2>9. \A b \in Attempts : attempt'[b] = IF b = a THEN r ELSE attempt[b]
    BY Zenon, <2>4 DEF AttemptSet
  <2>10. \A j \in Ids \ {i} : s.offer[j].by # None => attempt'[s.offer[j].by] = attempt[s.offer[j].by]
    <3> SUFFICES ASSUME NEW j \in Ids \ {i}, s.offer[j].by # None
                 PROVE  attempt'[s.offer[j].by] = attempt[s.offer[j].by]
      BY Zenon
    <3>1. s.offer[j].by \in Attempts
      BY Zenon, <1>4 DEF ManagerShape
    <3>2. s.offer[j].by # a
      BY SMTT(30), <1>1, <1>3, PermitOnly
    <3> QED  BY Zenon, <2>9, <3>1, <3>2
  <2>11. TicketsMove(s, attempt, Fates(s, None), m', attempt', Fates(s, None))
    <3>1. a # None /\ attempt'[a].step = "consuming"
      BY Zenon, <2>4, <2>9
    <3>2. \A j \in Ids : m'.offer[j] = IF j = i THEN [call |-> s.offer[i].call, by |-> a]
                                      ELSE s.offer[j]
      BY Zenon, <2>5
    <3> QED  BY ZenonT(30), <1>3, <2>2, <2>3, <2>10, <3>1, <3>2, HolderMoves
  <2>12. TicketsMove(m, attempt, fate, m', attempt', fate')
    BY Zenon, <1>2, <1>3, <2>11, SectionMoves
  <2>13. CellsBounded
    BY Zenon, <1>3, <2>5 DEF CellsBounded, Pruning, NoNewCell
  <2> QED  BY Zenon, <2>8, <2>12, <2>13 DEF Stepped
<1> QED  BY Zenon, <1>2, <1>5, <1>6

\* The permit of a handshake, and the ticket it stands for.
LEMMA PermitKnown ==
  ASSUME OffersInv, NEW a \in Attempts, attempt[a].step = "consuming"
  PROVE  /\ attempt[a].id \in Ids /\ attempt[a].call \in Calls
         /\ m.offer[attempt[a].id] = [call |-> attempt[a].call, by |-> a]
         /\ m.offer[attempt[a].id] # NoOffer
         /\ m.offer[attempt[a].id].by = a
         /\ m.offer[attempt[a].id].call = attempt[a].call
         /\ fate[attempt[a].call] = "ready"
<1> USE OffersAssumption
<1>1. attempt[a] \in AttemptRecords /\ PermitsHold(m, attempt) /\ OffersBacked(m, call, fate)
  BY Zenon DEF OffersInv, Agree, Shapes
<1>2. attempt[a].id \in Ids /\ attempt[a].call \in Calls
  BY <1>1 DEF AttemptRecords, NoAttempt
<1>3. m.offer[attempt[a].id] = [call |-> attempt[a].call, by |-> a]
  BY Zenon, <1>1 DEF PermitsHold
<1>4. /\ m.offer[attempt[a].id] # NoOffer /\ m.offer[attempt[a].id].by = a
      /\ m.offer[attempt[a].id].call = attempt[a].call
  BY SMTT(30), <1>2, <1>3 DEF NoOffer
<1>5. fate[attempt[a].call] = "ready"
  BY Zenon, <1>1, <1>2, <1>4 DEF OffersBacked
<1> QED  BY Zenon, <1>2, <1>3, <1>4, <1>5

\* The holder's permit goes with its offer: rollback of a ticket that has
\* lapsed, or commit.
LEMMA HolderRetires ==
  ASSUME OffersInv, NEW a \in Attempts, attempt[a].step = "consuming",
         NEW i, i = attempt[a].id, NEW error, error \notin {"pending", "ticket"},
         m' = RetireOffers(m, <<i>>, error), UNCHANGED call,
         AttemptSet(attempt, attempt', a, NoAttempt),
         NEW used \in {None, attempt[a].call}, fate' = Fates(m', used)
  PROVE  Stepped
<1> USE OffersAssumption
<1>1. /\ i \in Ids /\ attempt[a].call \in Calls /\ m.offer[i] # NoOffer
      /\ m.offer[i].by = a /\ m.offer[i].call = attempt[a].call
      /\ fate[attempt[a].call] = "ready"
  BY Zenon, PermitKnown
<1>2. Range(<<i>>) = {i}
  BY DEF Range
<1>3. Agree(m, call, attempt, fate) /\ attempt \in [Attempts -> AttemptRecords]
      /\ ManagerShape(m) /\ HoldersKnown(m, attempt) /\ OneOffer(m)
  BY Zenon DEF OffersInv, Agree, Shapes
<1>4. Without(m, m', {i})
  <2>1. \A j \in Range(<<i>>) : j \in Ids /\ m.offer[j] # NoOffer
    BY Zenon, <1>1, <1>2
  <2>2. Without(m, RetireOffers(m, <<i>>, error), Range(<<i>>))
    BY Zenon, <1>3, <2>1, OffersRetired
  <2> QED  BY Zenon, <1>2, <2>2
<1>5. /\ Fates(m', used) \in [Calls -> {"absent", "ready", "used", "void"}]
      /\ \A k \in Calls :
           Fates(m', used)[k] =
             IF k = used THEN "used"
             ELSE IF \E j \in {i} : m.offer[j].call = k THEN "void" ELSE fate[k]
  BY <1>1, <1>4, FatesDecided
<1>6. /\ fate' \in [Calls -> {"absent", "ready", "used", "void"}]
      /\ \A k \in Calls : IF k = attempt[a].call
                          THEN fate'[k] = IF k = used THEN "used" ELSE "void"
                          ELSE fate'[k] = fate[k]
  BY <1>1, <1>5
<1>7. attempt' \in [Attempts -> AttemptRecords]
      /\ \A b \in Attempts : attempt'[b] = IF b = a THEN NoAttempt ELSE attempt[b]
  BY Zenon DEF AttemptSet
<1>8. \A b \in Attempts : attempt'[b] = attempt[b] \/ attempt'[b].step \notin {"consuming", "gone"}
  BY <1>7 DEF NoAttempt
<1>9. \A b \in Attempts : attempt'[b].step \in {"consuming", "gone"} => attempt[b].id \notin {i}
  <2> SUFFICES ASSUME NEW b \in Attempts, attempt'[b].step \in {"consuming", "gone"},
                      attempt[b].id = i
               PROVE  FALSE
    BY Zenon
  <2>1. b # a /\ attempt[b].step \in {"consuming", "gone"}
    BY <1>7 DEF NoAttempt
  <2>2. m.offer[i] = [call |-> attempt[b].call, by |-> b]
    BY Zenon, <2>1 DEF OffersInv, Agree, PermitsHold
  <2>3. m.offer[i].by = b
    BY <2>2
  <2> QED  BY Zenon, <1>1, <2>1, <2>3
<1>10. \A j \in Ids \ {i} : m.offer[j].by # None => attempt'[m.offer[j].by] = attempt[m.offer[j].by]
  <2> SUFFICES ASSUME NEW j \in Ids \ {i}, m.offer[j].by # None
               PROVE  attempt'[m.offer[j].by] = attempt[m.offer[j].by]
    BY Zenon
  <2>1. m.offer[j].by \in Attempts
    BY Zenon, <1>3 DEF ManagerShape
  <2>2. m.offer[j].by # a
    BY <1>3, PermitOnly
  <2> QED  BY Zenon, <1>7, <2>1, <2>2
<1>11. OffersInv'
  <2>1. \A k \in Calls : IF \E j \in {i} : m.offer[j].call = k
                         THEN fate'[k] \in {"used", "void"} ELSE fate'[k] = fate[k]
    BY SMTT(30), <1>1, <1>6
  <2>2. {i} \in SUBSET Ids /\ \A j \in {i} : m.offer[j] # NoOffer
    BY Zenon, <1>1
  <2>3. Agree(m', call, attempt', fate')
    <3>1. PICK gone : gone = {i}
      BY Zenon
    <3>2. /\ gone \in SUBSET Ids /\ (\A j \in gone : m.offer[j] # NoOffer)
          /\ Without(m, m', gone)
          /\ \A k \in Calls : IF \E j \in gone : m.offer[j].call = k
                              THEN fate'[k] \in {"used", "void"} ELSE fate'[k] = fate[k]
      BY Zenon, <1>4, <2>1, <2>2, <3>1
    <3>3. /\ \A b \in Attempts : attempt'[b].step \in {"consuming", "gone"} =>
                                  attempt[b].id \notin gone
          /\ \A j \in Ids \ gone : m.offer[j].by # None =>
                                    attempt'[m.offer[j].by] = attempt[m.offer[j].by]
      BY Zenon, <1>9, <1>10, <3>1
    <3>4. attempt' \in [Attempts -> AttemptRecords]
          /\ fate' \in [Calls -> {"absent", "ready", "used", "void"}]
      BY Zenon, <1>6, <1>7
    <3>5. Agree(m, call, attempt, fate)
      BY Zenon, <1>3
    <3>6. PICK t, bt, gt : t = m' /\ bt = attempt' /\ gt = fate'
      BY Zenon
    <3>7. /\ Without(m, t, gone)
          /\ bt \in [Attempts -> AttemptRecords]
          /\ \A b \in Attempts : bt[b] = attempt[b] \/ bt[b].step \notin {"consuming", "gone"}
          /\ \A b \in Attempts : bt[b].step \in {"consuming", "gone"} => attempt[b].id \notin gone
          /\ \A j \in Ids \ gone : m.offer[j].by # None => bt[m.offer[j].by] = attempt[m.offer[j].by]
          /\ gt \in [Calls -> {"absent", "ready", "used", "void"}]
          /\ \A k \in Calls : IF \E j \in gone : m.offer[j].call = k
                              THEN gt[k] \in {"used", "void"} ELSE gt[k] = fate[k]
      BY Zenon, <1>8, <3>2, <3>3, <3>4, <3>6
    <3>8. gone \in SUBSET Ids /\ \A j \in gone : m.offer[j] # NoOffer
      BY ZenonT(30), <3>2
    <3>9. Agree(t, call, bt, gt)
      BY SMTT(30), <3>5, <3>7, <3>8, WithoutAgrees
    <3> QED  BY Zenon, <3>6, <3>9
  <2> QED  BY Zenon, <2>3 DEF OffersInv
<1>12. TicketsMove(m, attempt, fate, m', attempt', fate')
  <2> SUFFICES ASSUME NEW k \in Calls
               PROVE  TicketMove(m, attempt, fate, m', attempt', fate', k)
    BY Zenon DEF TicketsMove
  <2>1. CASE k = attempt[a].call
    <3>1. fate[k] = "ready" /\ fate'[k] \in {"used", "void"}
      BY Zenon, <1>1, <1>6, <2>1
    <3>2. /\ m.offer[i].call = k /\ m.offer[i].by # None
          /\ attempt[m.offer[i].by].step = "consuming"
      BY Zenon, <1>1, <2>1
    <3> QED  BY Zenon, <1>1, <3>1, <3>2 DEF TicketMove
  <2>2. CASE k # attempt[a].call /\ fate[k] # "ready"
    BY Zenon, <1>6, <2>2 DEF TicketMove
  <2>3. CASE k # attempt[a].call /\ fate[k] = "ready"
    <3>1. PICK j \in Ids : m.offer[j] # NoOffer /\ m.offer[j].call = k
      BY Zenon, <1>3, <2>3 DEF Agree, ReadyOffered, Offered
    <3>2. j # i
      BY Zenon, <1>1, <2>3, <3>1
    <3>3. m'.offer[j] = m.offer[j] /\ fate'[k] = "ready"
      BY Zenon, <1>4, <1>6, <2>3, <3>2 DEF Without
    <3>4. m.offer[j].by # None => attempt'[m.offer[j].by] = attempt[m.offer[j].by]
      BY Zenon, <1>10, <3>2
    <3> QED  BY Zenon, <2>3, <3>1, <3>3, <3>4 DEF TicketMove
  <2> QED  BY Zenon, <2>1, <2>2, <2>3
<1>13. CellsBounded
  BY Zenon, <1>4 DEF CellsBounded, NoNewCell, Without
<1> QED  BY Zenon, <1>11, <1>12, <1>13 DEF Stepped

\* When the same calls have offers as before, no ticket ends.
LEMMA SameFates ==
  ASSUME OffersInv, NEW t,
         \A j \in Ids : t.offer[j].call = m.offer[j].call
                        /\ (t.offer[j] # NoOffer <=> m.offer[j] # NoOffer)
  PROVE  Fates(t, None) = fate
<1>1. fate \in [Calls -> {"absent", "ready", "used", "void"}]
  BY Zenon DEF OffersInv, Agree, Shapes
<1>2. Live(t) = Live(m)
  BY Zenon DEF Live
<1>3. \A i \in Live(m) : t.offer[i].call = m.offer[i].call
  BY Zenon DEF Live
<1>4. ASSUME NEW k \in Calls  PROVE  Fates(t, None)[k] = fate[k]
  BY Zenon, <1>2, <1>3, OffersAssumption DEF Fates
<1>5. Fates(t, None) = [k \in Calls |-> Fates(t, None)[k]]
  BY Zenon DEF Fates
<1> QED  BY Zenon, <1>1, <1>4, <1>5

\* A handshake that is over.
LEMMA AttemptOver ==
  ASSUME OffersInv, NEW a \in Attempts, attempt' = [attempt EXCEPT ![a] = NoAttempt]
  PROVE  AttemptSet(attempt, attempt', a, NoAttempt)
BY Zenon DEF OffersInv, Agree, Shapes, AttemptSet, AttemptRecords

\* rollback: the offer is ready again, or expired.
LEMMA RollbackSteps ==
  ASSUME OffersInv, NEW a \in Attempts, Rollback(a)
  PROVE  Stepped
<1> USE OffersAssumption
<1>1. PICK i : i = attempt[a].id
  BY Zenon
<1>2. /\ attempt[a].step = "consuming" /\ UNCHANGED call
      /\ fate' = Fates(m', None)
      /\ attempt' = [attempt EXCEPT ![a] = NoAttempt]
      /\ \/ m.offer[i].by # a /\ m' = m
         \/ m.offer[i].by = a /\ m' = HoldOffer(m, i, None)
         \/ m' = RetireOffers(m, <<i>>, "expired")
  BY <1>1, Zenon DEF Rollback, HoldOffer
<1>3. /\ i \in Ids /\ attempt[a].call \in Calls /\ m.offer[i] # NoOffer
      /\ m.offer[i].by = a /\ m.offer[i].call = attempt[a].call
  BY ZenonT(30), <1>1, <1>2, PermitKnown
<1>4. CASE m' = RetireOffers(m, <<i>>, "expired")
  <2>1. /\ attempt[a].step = "consuming" /\ UNCHANGED call /\ fate' = Fates(m', None)
        /\ AttemptSet(attempt, attempt', a, NoAttempt)
    BY Zenon, <1>2, AttemptOver
  <2> QED  BY <1>1, <1>4, <2>1, HolderRetires
<1>5. CASE m' = HoldOffer(m, i, None)
  <2>1. Agree(m, call, attempt, fate) /\ attempt \in [Attempts -> AttemptRecords] /\ ManagerShape(m)
    BY Zenon DEF OffersInv, Agree, Shapes
  <2>2. /\ ManagerShape(m') /\ m'.operation = m.operation /\ m'.cell = m.cell
        /\ \A j \in Ids : m'.offer[j] = IF j = i THEN [call |-> m.offer[i].call, by |-> None]
                                        ELSE m.offer[j]
    BY <1>3, <1>5, <2>1, OfferHeld
  <2>3. NoAttempt \in AttemptRecords /\ NoAttempt.step = "idle"
    BY Zenon DEF AttemptRecords, NoAttempt
  <2>4. AttemptSet(attempt, attempt', a, NoAttempt)
    BY Zenon, <1>2, AttemptOver
  <2>5. Agree(m', call, attempt', fate)
    <3>1. PICK t, r, by : t = m' /\ r = NoAttempt /\ by = None
      BY Zenon
    <3>2. /\ ManagerShape(t) /\ t.operation = m.operation /\ t.cell = m.cell
          /\ \A j \in Ids : t.offer[j] = IF j = i THEN [call |-> m.offer[i].call, by |-> by]
                                         ELSE m.offer[j]
          /\ r \in AttemptRecords /\ r.step \notin {"consuming", "gone"}
          /\ AttemptSet(attempt, attempt', a, r)
      BY ZenonT(30), <2>2, <2>3, <2>4, <3>1
    <3>3. Agree(t, call, attempt', fate)
      BY <1>3, <2>1, <3>1, <3>2, AttemptHolds
    <3> QED  BY Zenon, <3>1, <3>3
  <2>6. fate' = fate
    <3>1. \A j \in Ids : m'.offer[j].call = m.offer[j].call
                         /\ (m'.offer[j] # NoOffer <=> m.offer[j] # NoOffer)
      BY <1>3, <2>2 DEF NoOffer
    <3> QED  BY Zenon, <1>2, <3>1, SameFates
  <2>7. OffersInv'
    BY Zenon, <1>2, <2>5, <2>6 DEF OffersInv
  <2>8. \A j \in Ids \ {i} : m.offer[j].by # None =>
                               attempt'[m.offer[j].by] = attempt[m.offer[j].by]
    <3> SUFFICES ASSUME NEW j \in Ids \ {i}, m.offer[j].by # None
                 PROVE  attempt'[m.offer[j].by] = attempt[m.offer[j].by]
      BY Zenon
    <3>1. m.offer[j].by \in Attempts
      BY Zenon, <2>1 DEF ManagerShape
    <3>2. m.offer[j].by # a
      BY <1>1, <2>1, PermitOnly
    <3> QED  BY Zenon, <2>4, <3>1, <3>2 DEF AttemptSet
  <2>9. TicketsMove(m, attempt, fate, m', attempt', fate')
    <3>1. m.offer[i].by # None /\ attempt[m.offer[i].by].step = "consuming"
      BY Zenon, <1>2, <1>3
    <3>2. \A j \in Ids : m'.offer[j] = IF j = i THEN [call |-> m.offer[i].call, by |-> None]
                                       ELSE m.offer[j]
      BY Zenon, <2>2
    <3>3. TicketsMove(m, attempt, fate, m', attempt', fate)
      BY Zenon, <1>3, <2>1, <2>8, <3>1, <3>2, HolderMoves
    <3> QED  BY Zenon, <2>6, <3>3
  <2>10. CellsBounded
    BY Zenon, <2>2 DEF CellsBounded, NoNewCell
  <2> QED  BY Zenon, <2>7, <2>9, <2>10 DEF Stepped
<1> QED  BY Zenon, <1>2, <1>3, <1>4, <1>5

\* commit: the ticket is used.
LEMMA CommitSteps ==
  ASSUME OffersInv, NEW a \in Attempts, Commit(a)
  PROVE  Stepped
<1>1. PICK i : i = attempt[a].id
  BY Zenon
<1>2. /\ attempt[a].step = "consuming" /\ UNCHANGED call
      /\ attempt' = [attempt EXCEPT ![a] = NoAttempt]
      /\ m' = IF m.offer[i].by = a THEN RetireOffers(m, <<i>>, "consumed") ELSE m
      /\ fate' = Fates(m', IF m.offer[i].by = a THEN m.offer[i].call ELSE None)
  BY <1>1, Zenon DEF Commit
<1>3. m.offer[i].by = a /\ m.offer[i].call = attempt[a].call
  BY Zenon, <1>1, <1>2, PermitKnown
<1>4. m' = RetireOffers(m, <<i>>, "consumed") /\ fate' = Fates(m', attempt[a].call)
  BY Zenon, <1>2, <1>3
<1>5. /\ attempt[a].step = "consuming" /\ UNCHANGED call
      /\ AttemptSet(attempt, attempt', a, NoAttempt)
  BY Zenon, <1>2, AttemptOver
<1> QED  BY <1>1, <1>4, <1>5, HolderRetires

\* A permit that is dropped leaves its offer closed.
LEMMA DropSteps ==
  ASSUME OffersInv, NEW a \in Attempts, DropConsumption(a)
  PROVE  Stepped
<1>1. /\ attempt[a].step = "consuming" /\ UNCHANGED <<m, call, fate>>
      /\ attempt' = TurnAttempt(attempt, a, "gone")
  BY Zenon DEF DropConsumption, TurnAttempt
<1>2. Agree(m, call, attempt, fate) /\ attempt \in [Attempts -> AttemptRecords]
      /\ attempt[a] # NoAttempt
  BY <1>1 DEF OffersInv, Agree, Shapes, NoAttempt
<1>3. PICK r \in AttemptRecords :
        /\ r.step = "gone" /\ r.id = attempt[a].id /\ r.call = attempt[a].call
        /\ AttemptSet(attempt, attempt', a, r)
  BY Zenon, <1>1, <1>2, AttemptTurned
<1>4. Agree(m, call, attempt', fate)
  BY Zenon, <1>1, <1>2, <1>3, AttemptMoves
<1>5. OffersInv'
  BY Zenon, <1>1, <1>4 DEF OffersInv
<1>6. \A b \in Attempts :
        attempt[b].step \in {"consuming", "gone"} /\ attempt'[b].step # attempt[b].step =>
          attempt[b].step = "consuming" /\ attempt'[b].step = "gone"
  BY Zenon, <1>1, <1>3 DEF AttemptSet
<1>7. TicketsMove(m, attempt, fate, m', attempt', fate')
  <2>1. TicketsMove(m, attempt, fate, m, attempt', fate)
    BY Zenon, <1>2, <1>6, SameOffers
  <2> QED  BY Zenon, <1>1, <2>1
<1> QED  BY Zenon, <1>1, <1>5, <1>7 DEF Stepped, CellsBounded, NoNewCell

\* A look at the offers that only prunes, and a clock that passes an end.
LEMMA IdleSteps ==
  ASSUME OffersInv, PruneExpired \/ (\E k \in Calls : Lapse(k)) \/ UNCHANGED vars
  PROVE  Stepped
<1>1. CASE PruneExpired
  <2>1. PICK s \in Pruned(m) : m' = s /\ fate' = Fates(s, None)
    BY Zenon, <1>1 DEF PruneExpired
  <2>2. UNCHANGED <<call, attempt>>
    BY Zenon, <1>1 DEF PruneExpired
  <2>3. Pruning(s) /\ Agree(s, call', attempt, Fates(s, None))
    BY Zenon, <2>2, PrunesFirst DEF Pruning
  <2> QED  BY Zenon, <2>1, <2>2, <2>3, SectionAnswers
<1>2. CASE (\E k \in Calls : Lapse(k)) \/ UNCHANGED vars
  <2>1. UNCHANGED <<m, call, attempt, fate>>
    BY Zenon, <1>2 DEF Lapse, vars
  <2>2. Agree(m', call', attempt, fate)
    BY Zenon, <2>1 DEF OffersInv
  <2> QED  BY Zenon, <2>1, <2>2, CallStepped DEF NoNewCell
<1> QED  BY Zenon, <1>1, <1>2

-----------------------------------------------------------------------------
(* The theorems.                                                           *)

\* The initial states agree.
LEMMA OffersInitial == Init => OffersInv /\ Cells(m) = {}
<1> SUFFICES ASSUME Init  PROVE  OffersInv /\ Cells(m) = {}
  BY Zenon
<1> USE OffersAssumption
<1>1. /\ m.offer = [i \in Ids |-> NoOffer] /\ m.operation = [o \in Operations |-> None]
      /\ m.cell = [k \in Calls |-> "pending"]
      /\ m = [offer |-> m.offer, operation |-> m.operation, cell |-> m.cell,
              retiredOffer |-> m.retiredOffer, retiredOperation |-> m.retiredOperation]
      /\ call = [k \in Calls |-> NoCall] /\ attempt = [a \in Attempts |-> NoAttempt]
      /\ fate = [k \in Calls |-> "absent"]
  BY Zenon DEF Init
<1>2. ManagerShape(m)
  BY <1>1 DEF ManagerShape, NoOffer
<1>3. \A k \in Calls : call[k] = NoCall /\ CallShape(NoCall)
  BY Zenon, <1>1 DEF NoCall, CallShape
<1>4. CallsShape(call)
  BY Zenon, <1>1, <1>3 DEF CallsShape
<1>5. Shapes(m, call, attempt, fate)
  BY Zenon, <1>1, <1>2, <1>4 DEF Shapes, AttemptRecords
<1>6. /\ \A i \in Ids : m.offer[i] = NoOffer /\ m.offer[i].by = None
      /\ \A o \in Operations : m.operation[o] = None
      /\ \A k \in Calls : m.cell[k] = "pending" /\ fate[k] = "absent" /\ call[k].step = "idle"
      /\ \A a \in Attempts : attempt[a].step = "idle"
  BY SMTT(30), <1>1 DEF NoOffer, NoCall, NoAttempt
<1>7. OffersBacked(m, call, fate) /\ OneOffer(m) /\ ReadyOffered(m, fate) /\ CellsBacked(m, call)
  BY Zenon, <1>6 DEF OffersBacked, OneOffer, ReadyOffered, CellsBacked
<1>8. CallsGo(m, call, fate) /\ TicketsOffered(m)
  BY Zenon, <1>6 DEF CallsGo, TicketsOffered
<1>9. PermitsHold(m, attempt) /\ HoldersKnown(m, attempt)
  BY Zenon, <1>6 DEF PermitsHold, HoldersKnown
<1>10. Cells(m) = {}
  BY Zenon, <1>6 DEF Cells
<1> QED  BY Zenon, <1>5, <1>7, <1>8, <1>9, <1>10 DEF OffersInv, Agree

\* Every step keeps the invariant, moves the tickets as it may, and keeps to
\* the limit: one case per action.
LEMMA OffersInductive == OffersInv /\ [Next]_vars => Stepped
<1> SUFFICES ASSUME OffersInv, [Next]_vars  PROVE  Stepped
  BY Zenon
<1>1. CASE PruneExpired \/ (\E k \in Calls : Lapse(k)) \/ UNCHANGED vars
  BY Zenon, <1>1, IdleSteps
<1>2. ASSUME NEW k \in Calls, NEW o \in Operations, NEW print \in Prints, CreateOffer(k, o, print)
      PROVE  Stepped
  BY Zenon, <1>2, CreateSteps
<1>3. ASSUME NEW k \in Calls, NEW i \in Ids, ExecuteCreate(k, i)  PROVE  Stepped
  BY Zenon, <1>3, ExecuteSteps
<1>4. ASSUME NEW k \in Calls, ExecuteFails(k)  PROVE  Stepped
  BY Zenon, <1>4, ExecuteFailsSteps
<1>5. ASSUME NEW k \in Calls, Complete(k)  PROVE  Stepped
  BY Zenon, <1>5, CompleteSteps
<1>6. ASSUME NEW k \in Calls, RetireFailed(k)  PROVE  Stepped
  BY Zenon, <1>6, RetireSteps
<1>7. ASSUME NEW k \in Calls, Join(k)  PROVE  Stepped
  BY Zenon, <1>7, JoinSteps
<1>8. ASSUME NEW a \in Attempts, NEW i \in Ids, PrepareChallenge(a, i)  PROVE  Stepped
  BY Zenon, <1>8, PrepareSteps
<1>9. ASSUME NEW a \in Attempts, TryConsume(a)  PROVE  Stepped
  BY Zenon, <1>9, ConsumeSteps
<1>10. ASSUME NEW a \in Attempts, Rollback(a)  PROVE  Stepped
  BY Zenon, <1>10, RollbackSteps
<1>11. ASSUME NEW a \in Attempts, Commit(a)  PROVE  Stepped
  BY Zenon, <1>11, CommitSteps
<1>12. ASSUME NEW a \in Attempts, DropConsumption(a)  PROVE  Stepped
  BY Zenon, <1>12, DropSteps
<1> QED
  BY <1>1, <1>2, <1>3, <1>4, <1>5, <1>6, <1>7, <1>8, <1>9, <1>10, <1>11, <1>12, Zenon
  DEF Next, Create

INSTANCE FiniteSetTheorems

\* The limit on cells: create_offer_until adds one only below it, and no
\* other section adds any.
CellsFew == IsFiniteSet(Cells(m)) /\ Cardinality(Cells(m)) <= MaxOffers

\* No step takes the registered operations past max_live_pair_offers.
LEMMA CellsStayFew == CellsFew /\ Stepped => CellsFew'
<1> SUFFICES ASSUME CellsFew, Stepped  PROVE  CellsFew'
  BY Zenon
<1> USE OffersAssumption
<1>1. CASE NoNewCell(m, m')
  <2>1. Cells(m') \subseteq Cells(m)
    BY Zenon, <1>1 DEF NoNewCell, Cells
  <2>2. IsFiniteSet(Cells(m')) /\ Cardinality(Cells(m')) <= Cardinality(Cells(m))
    BY Zenon, <2>1, FS_Subset DEF CellsFew
  <2>3. Cardinality(Cells(m')) \in Nat /\ Cardinality(Cells(m)) \in Nat
    BY Zenon, <2>2, FS_CardinalityType DEF CellsFew
  <2> QED  BY <2>2, <2>3 DEF CellsFew
<1>2. ASSUME NEW s, NoNewCell(m, s), ~Full(s), NEW o \in Operations,
             \A p \in Operations \ {o} : m'.operation[p] = s.operation[p]
      PROVE  CellsFew'
  <2>1. Cells(s) \subseteq Cells(m)
    BY Zenon, <1>2 DEF NoNewCell, Cells
  <2>2. IsFiniteSet(Cells(s)) /\ Cardinality(Cells(s)) \in Nat
    BY Zenon, <2>1, FS_Subset, FS_CardinalityType DEF CellsFew
  <2>3. Cardinality(Cells(s)) < MaxOffers
    BY <1>2, <2>2 DEF Full
  <2>4. Cells(m') \subseteq Cells(s) \cup {o}
    BY Zenon, <1>2 DEF Cells
  <2>5. /\ IsFiniteSet(Cells(s) \cup {o})
        /\ Cardinality(Cells(s) \cup {o}) <= Cardinality(Cells(s)) + 1
    <3>1. IsFiniteSet(Cells(s) \cup {o})
          /\ Cardinality(Cells(s) \cup {o}) = IF o \in Cells(s) THEN Cardinality(Cells(s))
                                              ELSE Cardinality(Cells(s)) + 1
      BY Zenon, <2>2, FS_AddElement
    <3> QED  BY <2>2, <3>1
  <2>6. IsFiniteSet(Cells(m')) /\ Cardinality(Cells(m')) <= Cardinality(Cells(s) \cup {o})
    BY Zenon, <2>4, <2>5, FS_Subset
  <2>7. Cardinality(Cells(m')) \in Nat /\ Cardinality(Cells(s) \cup {o}) \in Nat
    BY Zenon, <2>5, <2>6, FS_CardinalityType
  <2> QED  BY SMTT(30), <2>2, <2>3, <2>5, <2>6, <2>7 DEF CellsFew
<1> QED  BY Zenon, <1>1, <1>2 DEF Stepped, CellsBounded

\* The invariant holds throughout, for any number of calls, handshakes and
\* offers.
LEMMA OffersInvariant == Spec => [](OffersInv /\ CellsFew)
<1>1. Init => OffersInv /\ CellsFew
  <2>1. IsFiniteSet({}) /\ Cardinality({}) = 0
    BY Zenon, FS_EmptySet
  <2> QED  BY <2>1, OffersInitial, OffersAssumption DEF CellsFew
<1>2. OffersInv /\ CellsFew /\ [Next]_vars => OffersInv' /\ CellsFew'
  BY Zenon, OffersInductive, CellsStayFew DEF Stepped
<1> QED  BY <1>1, <1>2, PTL DEF Spec

\* Offers, replay cells and handshakes agree about every ticket, whatever
\* number of them there is and whatever expires in between
\* (create_offer_until, try_consume_until, expire_ready_locked).
THEOREM OffersSafe == Spec => []OffersAgree
<1>1. OffersInv /\ CellsFew => OffersAgree
  <2> SUFFICES ASSUME OffersInv, CellsFew  PROVE  OffersAgree
    BY Zenon
  <2>1. /\ ManagerShape(m) /\ OffersBacked(m, call, fate) /\ CellsBacked(m, call)
        /\ TicketsOffered(m) /\ PermitsHold(m, attempt)
    BY Zenon DEF OffersInv, Agree, Shapes
  <2>2. \A i \in Live(m) : m.operation[call[m.offer[i].call].op] = m.offer[i].call
    BY Zenon, <2>1 DEF OffersBacked, Live
  <2>3. ASSUME NEW o \in Cells(m)
        PROVE  \/ call[m.operation[o]].step \in {"execute", "complete", "retire"}
               \/ \E i \in Live(m) : m.offer[i].call = m.operation[o]
    BY Zenon, <2>1, <2>3 DEF CellsBacked, Cells, Working, Offered, Live
  <2>4. CellsMatchOffers
    BY Zenon, <2>2, <2>3 DEF CellsMatchOffers, CellsFew
  <2>5. ReplayedTicketIsLive
    BY Zenon, <2>1 DEF ReplayedTicketIsLive, TicketsOffered, Offered, Live
  <2>6. PermitHoldsOffer
    BY Zenon, <2>1 DEF PermitHoldsOffer, PermitsHold
  <2> QED  BY Zenon, <2>4, <2>5, <2>6 DEF OffersAgree
<1> QED  BY <1>1, OffersInvariant, PTL

-----------------------------------------------------------------------------
(* One-time tickets.                                                       *)

\* TicketOf, of any state.
TicketIn(s, at, ft, k) ==
  IF ft[k] # "ready" THEN [state |-> ft[k], by |-> None]
  ELSE LET i == CHOOSE i \in Live(s) : s.offer[i].call = k
           a == s.offer[i].by
       IN IF a = None THEN [state |-> "ready", by |-> None]
          ELSE [state |-> "held",
                by |-> IF at[a].step = "gone" THEN None ELSE a]

\* A good ticket is seen at the only offer it has.
LEMMA TicketSeen ==
  ASSUME NEW s, NEW at, NEW ft, NEW k \in Calls, NEW i \in Ids,
         OneOffer(s), ft[k] = "ready", s.offer[i].call = k
  PROVE  TicketIn(s, at, ft, k) =
           IF s.offer[i].by = None THEN [state |-> "ready", by |-> None]
           ELSE [state |-> "held",
                 by |-> IF at[s.offer[i].by].step = "gone" THEN None ELSE s.offer[i].by]
<1> DEFINE P(j) == s.offer[j].call = k
           c == CHOOSE j \in Live(s) : P(j)
<1>1. k # None
  BY Zenon, OffersAssumption
<1>2. s.offer[i] # NoOffer
  BY <1>1 DEF NoOffer
<1>3. i \in Live(s) /\ P(i)
  BY Zenon, <1>2 DEF Live
<1>4. c \in Live(s) /\ P(c)
  <2> HIDE DEF P
  <2> QED  BY Zenon, <1>3
<1>5. c = i
  <2> HIDE DEF c
  <2> QED  BY Zenon, <1>2, <1>4 DEF OneOffer, Live
<1>6. TicketIn(s, at, ft, k) =
        IF s.offer[c].by = None THEN [state |-> "ready", by |-> None]
        ELSE [state |-> "held",
              by |-> IF at[s.offer[c].by].step = "gone" THEN None ELSE s.offer[c].by]
  BY Zenon DEF TicketIn
<1> HIDE DEF c
<1> QED  BY Zenon, <1>5, <1>6

\* Every step of the manager is a step of the one-time tickets.
LEMMA TicketSteps ==
  ASSUME NEW s, NEW at, NEW ft, NEW t, NEW bt, NEW gt, NEW k \in Calls,
         Shapes(s, call, at, ft), Shapes(t, call', bt, gt), OneOffer(s), OneOffer(t),
         ReadyOffered(s, ft), TicketMove(s, at, ft, t, bt, gt, k),
         NEW x, x = TicketIn(s, at, ft, k), NEW y, y = TicketIn(t, bt, gt, k)
  PROVE  \/ y = x
         \/ x = [state |-> "absent", by |-> None] /\ y = [state |-> "ready", by |-> None]
         \/ /\ x = [state |-> "ready", by |-> None]
            /\ \E h \in Attempts : y = [state |-> "held", by |-> h]
         \/ /\ x.by # None
            /\ y \in {[state |-> "ready", by |-> None], [state |-> "used", by |-> None],
                      [state |-> "held", by |-> None]}
         \/ x # [state |-> "used", by |-> None] /\ y = [state |-> "void", by |-> None]
<1> USE OffersAssumption
<1>1. CASE gt[k] = ft[k] /\ ft[k] # "ready"
  BY Zenon, <1>1 DEF TicketIn
<1>2. CASE ft[k] = "ready" /\ gt[k] = "void"
  <2>1. y = [state |-> "void", by |-> None]
    BY Zenon, <1>2 DEF TicketIn
  <2>2. PICK i \in Ids : s.offer[i].call = k
    BY Zenon, <1>2 DEF ReadyOffered, Offered
  <2>3. x.state # "used"
    BY SMTT(30), <1>2, <2>2, TicketSeen
  <2> QED  BY <2>1, <2>3
<1>3. ASSUME ft[k] = "absent", gt[k] = "ready",
             NEW i \in Ids, t.offer[i] = [call |-> k, by |-> None]
      PROVE  x = [state |-> "absent", by |-> None] /\ y = [state |-> "ready", by |-> None]
  <2>1. x = [state |-> "absent", by |-> None]
    BY Zenon, <1>3 DEF TicketIn
  <2>2. t.offer[i].call = k /\ t.offer[i].by = None
    BY <1>3
  <2> QED  BY SMTT(30), <1>3, <2>1, <2>2, TicketSeen
<1>4. ASSUME ft[k] = "ready", gt[k] = "used",
             NEW i \in Ids, s.offer[i].call = k, s.offer[i].by # None,
             at[s.offer[i].by].step = "consuming"
      PROVE  x.by # None /\ y = [state |-> "used", by |-> None]
  <2>1. y = [state |-> "used", by |-> None]
    BY Zenon, <1>4 DEF TicketIn
  <2>2. x = [state |-> "held", by |-> s.offer[i].by]
    BY SMTT(30), <1>4, TicketSeen
  <2> QED  BY SMTT(30), <1>4, <2>1, <2>2
<1>5. ASSUME ft[k] = "ready", gt[k] = "ready", NEW i \in Ids,
             s.offer[i].call = k, t.offer[i].call = k
      PROVE  /\ x = IF s.offer[i].by = None THEN [state |-> "ready", by |-> None]
                    ELSE [state |-> "held",
                          by |-> IF at[s.offer[i].by].step = "gone" THEN None ELSE s.offer[i].by]
             /\ y = IF t.offer[i].by = None THEN [state |-> "ready", by |-> None]
                    ELSE [state |-> "held",
                          by |-> IF bt[t.offer[i].by].step = "gone" THEN None ELSE t.offer[i].by]
             /\ t.offer[i].by \in Attempts \cup {None}
  <2>1. t.offer[i].by \in Attempts \cup {None}
    BY Zenon DEF Shapes, ManagerShape
  <2> QED  BY SMTT(30), <1>5, <2>1, TicketSeen
<1>6. ASSUME ft[k] = "ready", gt[k] = "ready", NEW i \in Ids,
             s.offer[i].call = k, t.offer[i].call = k,
             s.offer[i].by = None, t.offer[i].by = None
      PROVE  y = x
  BY Zenon, <1>5, <1>6
<1>7. ASSUME ft[k] = "ready", gt[k] = "ready", NEW i \in Ids,
             s.offer[i].call = k, t.offer[i].call = k,
             s.offer[i].by # None, t.offer[i].by = s.offer[i].by,
             bt[s.offer[i].by].step # at[s.offer[i].by].step =>
               at[s.offer[i].by].step = "consuming" /\ bt[s.offer[i].by].step = "gone"
      PROVE  y = x \/ (x.by # None /\ y = [state |-> "held", by |-> None])
  <2> DEFINE a == s.offer[i].by
  <2>1. /\ x = [state |-> "held", by |-> IF at[a].step = "gone" THEN None ELSE a]
        /\ y = [state |-> "held", by |-> IF bt[a].step = "gone" THEN None ELSE a]
    BY Zenon, <1>5, <1>7
  <2>2. CASE bt[a].step = at[a].step
    BY Zenon, <2>1, <2>2
  <2>3. CASE at[a].step = "consuming" /\ bt[a].step = "gone"
    <3>1. x = [state |-> "held", by |-> a] /\ a # None
      BY Zenon, <1>7, <2>1, <2>3
    <3>2. y = [state |-> "held", by |-> None]
      BY Zenon, <2>1, <2>3
    <3> QED  BY SMTT(30), <3>1, <3>2
  <2> QED  BY Zenon, <1>7, <2>2, <2>3
<1>8. ASSUME ft[k] = "ready", gt[k] = "ready", NEW i \in Ids,
             s.offer[i].call = k, t.offer[i].call = k,
             s.offer[i].by = None, t.offer[i].by # None, bt[t.offer[i].by].step = "consuming"
      PROVE  /\ x = [state |-> "ready", by |-> None]
             /\ \E h \in Attempts : y = [state |-> "held", by |-> h]
  BY ZenonT(30), <1>5, <1>8
<1>9. ASSUME ft[k] = "ready", gt[k] = "ready", NEW i \in Ids,
             s.offer[i].call = k, t.offer[i].call = k,
             s.offer[i].by # None, at[s.offer[i].by].step = "consuming", t.offer[i].by = None
      PROVE  x.by # None /\ y = [state |-> "ready", by |-> None]
  BY <1>5, <1>9
<1> QED
  BY ZenonT(30), <1>1, <1>2, <1>3, <1>4, <1>6, <1>7, <1>8, <1>9 DEF TicketMove

\* The manager implements one-time tickets, for any number of calls, offers
\* and handshakes: a ticket has one holder at a time, is used at most once and
\* by its holder, and is closed for good once it is used, void, or lost by its
\* holder (PairingManager).
THEOREM TicketsOnce == Spec => ImplementsTickets
<1>1. Init => Tickets!TicketInit
  <2> SUFFICES ASSUME Init  PROVE  Tickets!TicketInit
    BY Zenon
  <2>1. \A k \in Calls : fate[k] = "absent"
    BY Zenon DEF Init
  <2>2. \A k \in Calls : TicketOf(k) = [state |-> "absent", by |-> None]
    BY Zenon, <2>1 DEF TicketOf
  <2> QED  BY Zenon, <2>2 DEF Tickets!TicketInit, Tickets!Absent, Tickets!Ready, Tickets!Ticket
<1>2. OffersInv /\ [Next]_vars => Tickets!TicketNext
  <2> SUFFICES ASSUME OffersInv, [Next]_vars  PROVE  Tickets!TicketNext
    BY Zenon
  <2>1. OffersInv' /\ TicketsMove(m, attempt, fate, m', attempt', fate')
    BY Zenon, OffersInductive DEF Stepped
  <2>2. /\ Shapes(m, call, attempt, fate) /\ OneOffer(m) /\ ReadyOffered(m, fate)
        /\ Shapes(m', call', attempt', fate') /\ OneOffer(m')
    BY Zenon, <2>1 DEF OffersInv, Agree
  <2>3. ASSUME NEW k \in Calls
        PROVE  /\ TicketOf(k) = TicketIn(m, attempt, fate, k)
               /\ TicketOf(k)' = TicketIn(m', attempt', fate', k)
    BY Zenon DEF TicketOf, TicketIn
  <2> DEFINE old == [k \in Calls |-> TicketOf(k)]
             new == [k \in Calls |-> TicketOf(k)']
  <2>4. DOMAIN new = Calls
    BY Zenon
  <2>5. ASSUME NEW k \in Calls
        PROVE  \/ new[k] = old[k]
               \/ /\ old[k] = [state |-> "absent", by |-> None]
                  /\ new[k] = [state |-> "ready", by |-> None]
               \/ /\ old[k] = [state |-> "ready", by |-> None]
                  /\ \E h \in Attempts : new[k] = [state |-> "held", by |-> h]
               \/ /\ old[k].by # None
                  /\ new[k] \in {[state |-> "ready", by |-> None], [state |-> "used", by |-> None],
                                 [state |-> "held", by |-> None]}
               \/ /\ old[k] # [state |-> "used", by |-> None]
                  /\ new[k] = [state |-> "void", by |-> None]
    <3>1. old[k] = TicketIn(m, attempt, fate, k) /\ new[k] = TicketIn(m', attempt', fate', k)
      BY Zenon, <2>3
    <3>2. TicketMove(m, attempt, fate, m', attempt', fate', k)
      BY Zenon, <2>1 DEF TicketsMove
    <3>3. PICK x : x = TicketIn(m, attempt, fate, k)
      BY Zenon
    <3>4. PICK y : y = TicketIn(m', attempt', fate', k)
      BY Zenon
    <3> HIDE DEF old, new
    <3>5. old[k] = x /\ new[k] = y
      BY Zenon, <3>1, <3>3, <3>4
    <3> QED  BY SMTT(30), <2>2, <3>2, <3>3, <3>4, <3>5, TicketSteps
  <2> HIDE DEF old, new
  <2>6. \A k \in Calls :
          \/ new[k] = old[k]
          \/ old[k] = Tickets!Absent /\ new[k] = Tickets!Ready
          \/ old[k] = Tickets!Ready /\ \E h \in Attempts : new[k] = Tickets!Ticket("held", h)
          \/ old[k].by # None /\ new[k] \in {Tickets!Ready, Tickets!Used, Tickets!Lost}
          \/ old[k] # Tickets!Used /\ new[k] = Tickets!Void
    BY Zenon, <2>5 DEF Tickets!Absent, Tickets!Ready, Tickets!Used, Tickets!Lost, Tickets!Void,
       Tickets!Ticket
  <2> QED
    BY <2>4, <2>6, Zenon DEF old, new, Tickets!TicketNext, Tickets!Issue, Tickets!Hold,
       Tickets!Resolve, Tickets!Expire
<1> QED  BY <1>1, <1>2, OffersInvariant, PTL DEF Spec, ImplementsTickets, Tickets!TicketSpec

==============================================================================
