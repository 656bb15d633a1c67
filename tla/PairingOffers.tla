--------------------------- MODULE PairingOffers ---------------------------
(***************************************************************************)
(* The host's pairing offers: the local calls that create them, with their *)
(* retries, and the handshakes that consume them.  PairingManager,         *)
(* crates/daemon/src/pairing.rs.                                           *)
(*                                                                         *)
(* A section under the manager's lock is one step; it is written as a      *)
(* function of the manager's state m.  A call's secret, expiry and         *)
(* OperationCell are as unique as the call and are represented by it; so   *)
(* is an attempt's transcript by the attempt.  A ticket whose time has     *)
(* passed on one of the two clocks is in lapsed; the clocks are read       *)
(* before the lock is taken and the wall clock may be set back, so a       *)
(* section sees any part of lapsed.                                        *)
(***************************************************************************)
EXTENDS Naturals, Sequences, FiniteSets, Functions

CONSTANTS
  Calls,       \* calls of create_offer_until
  Operations,  \* operation identities they carry
  Prints,      \* semantic fingerprints of their requests
  Ids,         \* random offer identities
  Attempts,    \* inbound handshakes
  None,        \* no call, offer or attempt
  MaxOffers    \* limits.max_live_pair_offers

ASSUME OffersAssumption ==
  /\ None \notin Calls \cup Operations \cup Prints \cup Ids \cup Attempts
  /\ MaxOffers \in Nat \ {0}

VARIABLES
  m,        \* ManagerState
  call,     \* each create call
  attempt,  \* each handshake
  lapsed,   \* the calls whose ticket has run out of time
  fate      \* history: what became of each call's ticket

vars == <<m, call, attempt, lapsed, fate>>

NoOffer == [call |-> None, by |-> None]
NoCall == [step |-> "idle", op |-> None, print |-> None, cell |-> None,
           result |-> "none"]
NoAttempt == [step |-> "idle", id |-> None, call |-> None]

Init ==
  /\ m = [offer |-> [i \in Ids |-> NoOffer],            \* live offers
          operation |-> [o \in Operations |-> None],    \* live cells
          cell |-> [k \in Calls |-> "pending"],         \* a cell's outcome
          retiredOffer |-> <<>>, retiredOperation |-> <<>>]
  /\ call = [k \in Calls |-> NoCall]
  /\ attempt = [a \in Attempts |-> NoAttempt]
  /\ lapsed = {}
  /\ fate = [k \in Calls |-> "absent"]

Live(s) == {i \in Ids : s.offer[i] # NoOffer}
Cells(s) == {o \in Operations : s.operation[o] # None}

\* insert_retired_*, of several in a row: the newest at the end, the oldest
\* forgotten.
Retired(queue, tombstones) ==
  LET keys == {t.key : t \in Range(tombstones)}
      kept == SelectSeq(queue, LAMBDA t : t.key \notin keys) \o tombstones
  IN IF Len(kept) > MaxOffers
     THEN SubSeq(kept, Len(kept) - MaxOffers + 1, Len(kept)) ELSE kept
Tombstone(queue, key) == {t \in Range(queue) : t.key = key}

\* retire_operation_locked, of the operations of some calls.
RetireOperations(s, calls, error) ==
  LET ops == {call[k].op : k \in Range(calls)}
  IN [s EXCEPT
       !.operation = [o \in Operations |-> IF o \in ops THEN None ELSE @[o]],
       !.cell = [k \in Calls |-> IF \E o \in ops : s.operation[o] = k
                                 THEN error ELSE @[k]],
       !.retiredOperation =
          Retired(@, [n \in DOMAIN calls |-> [key |-> call[calls[n]].op,
                                              print |-> call[calls[n]].print,
                                              error |-> error]])]

WithoutOffers(s, ids, error) ==
  [s EXCEPT
    !.offer = [i \in Ids |-> IF i \in Range(ids) THEN NoOffer ELSE @[i]],
    !.retiredOffer =
       Retired(@, [n \in DOMAIN ids |-> [key |-> ids[n], error |-> error]])]

\* Mutant: the operation's cell is kept for its retries.
RetireOffersOnly(s, ids, error) == WithoutOffers(s, ids, error)

\* retire_offer_record_locked, of one offer after the other.
RetireOffers(s, ids, error) ==
  RetireOperations(WithoutOffers(s, ids, error),
                   [n \in DOMAIN ids |-> s.offer[ids[n]].call], error)

Overdue(s) == {i \in Live(s) : s.offer[i].by = None
                               /\ s.offer[i].call \in lapsed}

\* expire_ready_locked: those the caller's clock shows, in the order of their
\* random identities.
Pruned(s) ==
  UNION {{RetireOffers(s, ids, "expired") :
            ids \in Bijection(1..Cardinality(seen), seen)} : seen \in SUBSET Overdue(s)}

\* The tickets that end with the step, and how.
Fates(s, used) ==
  [k \in Calls |->
     IF k = used THEN "used"
     ELSE IF (\E i \in Live(m) : m.offer[i].call = k)
             /\ ~\E i \in Live(s) : s.offer[i].call = k
     THEN "void" ELSE fate[k]]

(***************************************************************************)
(* create_offer_until                                                      *)
(***************************************************************************)

Answered(k, result) ==
  [call EXCEPT ![k].step = "done", ![k].result = result]

Full(s) == Cardinality(Live(s)) >= MaxOffers
           \/ Cardinality(Cells(s)) >= MaxOffers

\* The first section: join the operation's cell, refuse, or register a cell.
CreateOffer(k, o, print) ==
  /\ call[k].step = "idle"
  /\ \E s \in Pruned(m) :
       LET c == s.operation[o]
           old == Tombstone(s.retiredOperation, o)
           begun == [call[k] EXCEPT !.op = o, !.print = print]
           refuse(error) ==
             /\ m' = s
             /\ call' = [call EXCEPT ![k] =
                  [begun EXCEPT !.step = "done", !.result = error]]
       IN /\ \/ /\ c # None /\ call[c].print = print
                /\ m' = s
                /\ call' = [call EXCEPT ![k] =
                     [begun EXCEPT !.step = "join", !.cell = c]]
             \/ c # None /\ call[c].print # print /\ refuse("unknown")
             \/ /\ c = None /\ old # {}
                /\ \E t \in old :
                     refuse(IF t.print = print THEN t.error ELSE "unknown")
             \/ c = None /\ old = {} /\ Full(s) /\ refuse("exhausted")
             \/ /\ c = None /\ old = {} /\ ~Full(s)
                /\ m' = [s EXCEPT !.operation[o] = k]
                /\ call' = [call EXCEPT ![k] =
                     [begun EXCEPT !.step = "execute", !.cell = k]]
          /\ fate' = Fates(s, None)
  /\ UNCHANGED <<attempt, lapsed>>

FreshId(s, i) == i \notin Live(s) /\ Tombstone(s.retiredOffer, i) = {}

\* execute_create: draw an identity that is neither live nor remembered.
ExecuteCreate(k, i) ==
  /\ call[k].step = "execute"
  /\ \E s \in Pruned(m) :
       /\ FreshId(s, i)
       /\ Cardinality(Live(s)) < MaxOffers
       /\ m' = [s EXCEPT !.offer[i] = [call |-> k, by |-> None]]
       /\ fate' = [Fates(s, None) EXCEPT ![k] = "ready"]
  /\ call' = [call EXCEPT ![k].step = "complete", ![k].result = "ticket"]
  /\ UNCHANGED <<attempt, lapsed>>

\* It runs out of time, entropy, identities or space.
ExecuteFails(k) ==
  /\ call[k].step = "execute"
  /\ \E s \in Pruned(m) : m' = s /\ fate' = Fates(s, None)
  /\ call' = [call EXCEPT ![k].step = "complete", ![k].result = "failed"]
  /\ UNCHANGED <<attempt, lapsed>>

\* Mutant: the outcome replaces what the cell has become since.
CompleteAnyway(k) ==
  /\ call[k].step = "complete"
  /\ m' = [m EXCEPT !.cell[k] = call[k].result]
  /\ call' = [call EXCEPT ![k].step =
       IF call[k].result = "ticket" THEN "done" ELSE "retire"]
  /\ UNCHANGED <<attempt, lapsed, fate>>

\* cell.complete: a cell that was retired meanwhile keeps its error.
Complete(k) ==
  /\ call[k].step = "complete"
  /\ m' = [m EXCEPT !.cell[k] = IF @ = "pending" THEN call[k].result ELSE @]
  /\ call' = [call EXCEPT ![k].step =
       IF call[k].result = "ticket" THEN "done" ELSE "retire"]
  /\ UNCHANGED <<attempt, lapsed, fate>>

\* A failed call retires its own cell.
RetireFailed(k) ==
  /\ call[k].step = "retire"
  /\ m' = IF m.operation[call[k].op] = k
          THEN RetireOperations(m, <<k>>, call[k].result)
          ELSE m
  /\ call' = Answered(k, call[k].result)
  /\ UNCHANGED <<attempt, lapsed, fate>>

\* cell.wait_until: the outcome, or the caller's deadline.
Join(k) ==
  /\ call[k].step = "join"
  /\ \/ /\ m.cell[call[k].cell] # "pending"
        /\ call' = Answered(k, m.cell[call[k].cell])
     \/ /\ m.cell[call[k].cell] = "pending"
        /\ call' = Answered(k, "deadline")
  /\ UNCHANGED <<m, attempt, lapsed, fate>>

(***************************************************************************)
(* Handshakes                                                              *)
(***************************************************************************)

\* Mutant: an offer that is gone is challenged too.
PrepareAnyway(a, i) ==
  /\ attempt[a].step = "idle"
  /\ \E s \in Pruned(m) :
       /\ s.offer[i].by = None
       /\ attempt' = [attempt EXCEPT ![a] =
            [step |-> "prepared", id |-> i, call |-> s.offer[i].call]]
       /\ m' = s /\ fate' = Fates(s, None)
  /\ UNCHANGED <<call, lapsed>>

\* prepare_challenge_until: the ready offer's ticket goes into the transcript.
PrepareChallenge(a, i) ==
  /\ attempt[a].step = "idle"
  /\ \E s \in Pruned(m) :
       /\ i \in Live(s) /\ s.offer[i].by = None
       /\ attempt' = [attempt EXCEPT ![a] =
            [step |-> "prepared", id |-> i, call |-> s.offer[i].call]]
       /\ m' = s /\ fate' = Fates(s, None)
  /\ UNCHANGED <<call, lapsed>>

\* Mutant: the offer's ticket is not compared with the transcript's.
ConsumableById(s, a) ==
  LET o == s.offer[attempt[a].id]
  IN o # NoOffer /\ o.by = None

\* A live offer, with this very ticket, that nobody holds.
Consumable(s, a) ==
  LET o == s.offer[attempt[a].id]
  IN o # NoOffer /\ o.call = attempt[a].call /\ o.by = None

\* try_consume_until: the proof is verified (or is not), then the offer is held.
TryConsume(a) ==
  /\ attempt[a].step = "prepared"
  /\ \E s \in Pruned(m) :
       /\ \/ /\ Consumable(s, a)
             /\ m' = [s EXCEPT !.offer[attempt[a].id].by = a]
             /\ attempt' = [attempt EXCEPT ![a].step = "consuming"]
          \/ /\ m' = s
             /\ attempt' = [attempt EXCEPT ![a] = NoAttempt]
       /\ fate' = Fates(s, None)
  /\ UNCHANGED <<call, lapsed>>

\* rollback: back to ready, or expired; the permit names the holder.
Rollback(a) ==
  LET i == attempt[a].id
  IN /\ attempt[a].step = "consuming"
     /\ \/ m.offer[i].by # a /\ m' = m
        \/ m.offer[i].by = a /\ m' = [m EXCEPT !.offer[i].by = None]
        \/ /\ m.offer[i].by = a /\ m.offer[i].call \in lapsed
           /\ m' = RetireOffers(m, <<i>>, "expired")
     /\ fate' = Fates(m', None)
     /\ attempt' = [attempt EXCEPT ![a] = NoAttempt]
     /\ UNCHANGED <<call, lapsed>>

\* Mutant: the committed offer is reopened instead of retired.
CommitReopens(a) ==
  LET i == attempt[a].id
  IN /\ attempt[a].step = "consuming"
     /\ m' = [m EXCEPT !.offer[i].by = None]
     /\ fate' = Fates(m', m.offer[i].call)
     /\ attempt' = [attempt EXCEPT ![a] = NoAttempt]
     /\ UNCHANGED <<call, lapsed>>

\* commit, also of an offer that has lapsed since.
Commit(a) ==
  LET i == attempt[a].id
  IN /\ attempt[a].step = "consuming"
     /\ m' = IF m.offer[i].by = a THEN RetireOffers(m, <<i>>, "consumed") ELSE m
     /\ fate' = Fates(m', IF m.offer[i].by = a THEN m.offer[i].call ELSE None)
     /\ attempt' = [attempt EXCEPT ![a] = NoAttempt]
     /\ UNCHANGED <<call, lapsed>>

\* The permit is dropped: the offer stays closed.
DropConsumption(a) ==
  /\ attempt[a].step = "consuming"
  /\ attempt' = [attempt EXCEPT ![a].step = "gone"]
  /\ UNCHANGED <<m, call, lapsed, fate>>

\* offer_state, prune_expired, snapshot, a refused prepare_challenge_until and
\* a drawn identity that is taken: every look prunes.
PruneExpired ==
  /\ Overdue(m) # {}
  /\ \E s \in Pruned(m) : m' = s /\ fate' = Fates(s, None)
  /\ UNCHANGED <<call, attempt, lapsed>>

\* One of the two clocks passes a ticket's end.
Lapse(k) ==
  /\ call[k].cell = k /\ k \notin lapsed
  /\ lapsed' = lapsed \cup {k}
  /\ UNCHANGED <<m, call, attempt, fate>>

Create(k) ==
  \/ ExecuteFails(k) \/ Complete(k) \/ RetireFailed(k) \/ Join(k) \/ Lapse(k)

Next ==
  \/ PruneExpired
  \/ \E k \in Calls : Create(k)
  \/ \E k \in Calls, o \in Operations, print \in Prints :
       CreateOffer(k, o, print)
  \/ \E k \in Calls, i \in Ids : ExecuteCreate(k, i)
  \/ \E a \in Attempts :
       TryConsume(a) \/ Rollback(a) \/ Commit(a) \/ DropConsumption(a)
  \/ \E a \in Attempts, i \in Ids : PrepareChallenge(a, i)

Spec == Init /\ [][Next]_vars

(***************************************************************************)
(* Properties                                                              *)
(***************************************************************************)

Errors == {"expired", "consumed", "failed"}

\* The manager's fields have the types of the Rust structs.
TypeOK ==
  /\ m.offer \in [Ids -> {NoOffer} \cup [call : Calls,
                                         by : Attempts \cup {None}]]
  /\ m.operation \in [Operations -> Calls \cup {None}]
  /\ m.cell \in [Calls -> {"pending", "ticket"} \cup Errors]
  /\ \A t \in Range(m.retiredOffer) : t \in [key : Ids, error : Errors]
  /\ \A t \in Range(m.retiredOperation) :
       t \in [key : Operations, print : Prints, error : Errors]
  /\ call \in [Calls ->
       [step : {"idle", "execute", "complete", "retire", "join", "done"},
        op : Operations \cup {None}, print : Prints \cup {None},
        cell : Calls \cup {None},
        result : {"none", "ticket", "unknown", "exhausted", "deadline"}
                   \cup Errors]]
  /\ attempt \in [Attempts -> {NoAttempt} \cup
       [step : {"prepared", "consuming", "gone"}, id : Ids, call : Calls]]
  /\ lapsed \subseteq Calls
  /\ fate \in [Calls -> {"absent", "ready", "used", "void"}]

\* Offers and replay cells stay in step at the limit they share: a live offer
\* has the cell of the call that created it, so that a retry finds it, and a
\* cell belongs to a live offer or to a creation in progress, so that no
\* capacity leaks (create_offer_until, retire_offer).
CellsMatchOffers ==
  /\ \A i \in Live(m) : m.operation[call[m.offer[i].call].op] = m.offer[i].call
  /\ \A o \in Cells(m) :
       LET k == m.operation[o]
       IN \/ call[k].step \in {"execute", "complete", "retire"}
          \/ \E i \in Live(m) : m.offer[i].call = k
  /\ Cardinality(Cells(m)) <= MaxOffers

\* A retry that joins a cell is given its ticket only while that ticket's
\* offer is live, also when the offer is consumed or expires before its
\* creator has recorded the outcome (OperationCell::complete, retire).
ReplayedTicketIsLive ==
  \A k \in Calls :
    m.cell[k] = "ticket" => \E i \in Live(m) : m.offer[i].call = k

\* The handshake that holds a permit holds its offer, whatever else expires
\* (try_consume_until, expire_ready_locked), and it is the ticket that its
\* transcript was made for.
PermitHoldsOffer ==
  \A a \in Attempts :
    attempt[a].step \in {"consuming", "gone"} =>
      m.offer[attempt[a].id] = [call |-> attempt[a].call, by |-> a]

\* Offers, replay cells and handshakes agree about every ticket.
OffersAgree == CellsMatchOffers /\ ReplayedTicketIsLive /\ PermitHoldsOffer

\* The ticket a call created, as its holders see it.
TicketOf(k) ==
  IF fate[k] # "ready" THEN [state |-> fate[k], by |-> None]
  ELSE LET i == CHOOSE i \in Live(m) : m.offer[i].call = k
           a == m.offer[i].by
       IN IF a = None THEN [state |-> "ready", by |-> None]
          ELSE [state |-> "held",
                by |-> IF attempt[a].step = "gone" THEN None ELSE a]

Tickets == INSTANCE OneTimeTicket WITH
  Tickets <- Calls, Holders <- Attempts,
  ticket <- [k \in Calls |-> TicketOf(k)]

\* The manager implements one-time tickets: the forgotten tombstones, the
\* reused identities and the clocks never reopen a ticket (PairingManager).
ImplementsTickets == Tickets!TicketSpec
=============================================================================
