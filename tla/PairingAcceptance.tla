-------------------------- MODULE PairingAcceptance --------------------------
(***************************************************************************)
(* Accepting a pairing ticket: the operations of the accepting daemon with *)
(* their retries, the alias each reserves before it uses the network, the  *)
(* exchange with the host and its confirmation over a normal connection,   *)
(* and the row of the address book that ends it; with device renames.      *)
(* crates/daemon/src/pairing_service.rs, device_directory.rs, store.rs and *)
(* crates/client/src/pairing.rs.                                           *)
(*                                                                         *)
(* The runtime has one thread, so a task is one step from await to await.  *)
(* The directory runs on blocking threads and the store on its own.  An    *)
(* operation and its ticket are one value; the semantic fingerprint is the *)
(* record of arguments.                                                    *)
(***************************************************************************)
EXTENDS Naturals, Sequences, FiniteSets, SequencesExt

CONSTANTS Calls,     \* local accept calls
          Args,      \* of each: operation, host, alias and whether it is explicit
          Renames,   \* device rename calls
          RenameArgs, \* of each: host and alias
          Suffixed,  \* DeviceAlias::disambiguated of each host
          MaxCells,  \* limits.max_live_pair_offers
          None,
          Budgets    \* the calls of a behaviour, and how often each fault may happen

VARIABLES call,   \* each accept call: its step, the cell it waits for, its answer
          reg,    \* AcceptRegistry
          cell,   \* each cell, named after the call that made it: its outcome
          task,   \* the accept operation of each cell
          rename, \* each rename
          held,   \* reservations: alias -> device and count
          known,  \* known_devices: host -> alias
          late,   \* calls whose write the store still runs unobserved
          host,   \* each host: authorization and generation of this device, used tickets
          flight, \* proofs on their way
          accepted, \* generation each exchange committed on the host, 0 for none
          stopping,
          left

vars == <<call, reg, cell, task, rename, held, known, late, host, flight, accepted, stopping, left>>

Ops == {Args[c].op : c \in Calls}
Hosts == {Args[c].host : c \in Calls} \cup {RenameArgs[n].host : n \in Renames}
Spend(k) == left[k] > 0 /\ left' = [left EXCEPT ![k] = @ - 1]

NoTask == [pc |-> "none", alias |-> None, fallback |-> FALSE, repair |-> FALSE, error |-> FALSE, gen |-> 0, result |-> None]
NoRegistry == [cells |-> [o \in Ops |-> None], order |-> <<>>, retired |-> <<>>]

Init ==
  /\ call = [c \in Calls |-> [pc |-> "idle", cell |-> None, result |-> None]]
  /\ reg = NoRegistry
  /\ cell = [c \in Calls |-> None]
  /\ task = [c \in Calls |-> NoTask]
  /\ rename = [n \in Renames |-> [pc |-> "idle", result |-> None]]
  /\ held = {}
  /\ known = [h \in Hosts |-> None]
  /\ late = {}
  /\ host = [h \in Hosts |-> [auth |-> FALSE, gen |-> 0, used |-> {}]]
  /\ flight = {}
  /\ accepted = [c \in Calls |-> 0]
  /\ stopping = FALSE
  /\ left \in Budgets

----------------------------------------------------------------------------
(* AcceptRegistry                                                          *)

LiveCells(g) == {o \in Ops : g.cells[o] # None}
RetiredOf(g, o) == {t \in Range(g.retired) : t.op = o}

\* Mutant: a cell makes room whether or not its operation has ended.
RetireOldestAny(g) ==
  IF LiveCells(g) = {} THEN g
  ELSE LET o == CHOOSE o \in LiveCells(g) : TRUE
       IN [g EXCEPT !.cells[o] = None, !.order = SelectSeq(@, LAMBDA p : p # o)]

\* retire_oldest_accept: the cell that completed first becomes a tombstone.
RetireOldest(g) ==
  IF g.order = <<>> THEN g
  ELSE LET o == Head(g.order)
           c == g.cells[o]
           kept == Append(g.retired, [op |-> o, args |-> Args[c], result |-> cell[c]])
       IN [g EXCEPT !.cells[o] = None, !.order = Tail(@),
                    !.retired = IF Len(kept) > MaxCells THEN Tail(kept) ELSE kept]

Answers(c, r) == call' = [call EXCEPT ![c].pc = "done", ![c].result = r]
Waits(c, k) == call' = [call EXCEPT ![c].pc = "wait", ![c].cell = k]

\* accept_until, to its wait: a stopping service, a retry of a live or remembered
\* operation, other arguments under a used identity, no space, or a new operation.
Accept(c) ==
  LET o == Args[c].op
      k == reg.cells[o]
      g == IF Cardinality(LiveCells(reg)) < MaxCells THEN reg ELSE RetireOldest(reg)
      creates == ~stopping /\ k = None /\ RetiredOf(reg, o) = {}
  IN /\ call[c].pc = "idle" /\ c \in left.who
     /\ \/ stopping /\ Answers(c, "cancelled") /\ UNCHANGED <<reg, task>>
        \/ ~stopping /\ k # None /\ UNCHANGED <<reg, task>>
           /\ IF Args[k] = Args[c] THEN Waits(c, k) ELSE Answers(c, "unknown")
        \/ ~stopping /\ k = None /\ UNCHANGED <<reg, task>>
           /\ \E t \in RetiredOf(reg, o) : Answers(c, IF t.args = Args[c] THEN t.result ELSE "unknown")
        \/ /\ creates /\ Cardinality(LiveCells(g)) >= MaxCells
           /\ Answers(c, "exhausted") /\ UNCHANGED <<reg, task>>
        \/ /\ creates /\ Cardinality(LiveCells(g)) < MaxCells
           /\ reg' = [g EXCEPT !.cells[o] = c]
           /\ task' = [task EXCEPT ![c].pc = "start"]
           /\ Waits(c, c)
     /\ UNCHANGED <<cell, rename, held, known, late, host, flight, accepted, stopping, left>>

\* The ticket's text, expiry, host or name is refused before anything is admitted.
Refuse(c) ==
  /\ call[c].pc = "idle" /\ c \in left.who /\ reg.cells[Args[c].op] = None /\ RetiredOf(reg, Args[c].op) = {} /\ Spend("refuse")
  /\ Answers(c, "refused")
  /\ UNCHANGED <<reg, cell, task, rename, held, known, late, host, flight, accepted, stopping>>

\* AcceptCell::wait_until: the outcome, the caller's deadline or the service's end.
Answer(c) ==
  /\ call[c].pc = "wait"
  /\ \/ cell[call[c].cell] # None /\ Answers(c, cell[call[c].cell]) /\ UNCHANGED left
     \/ cell[call[c].cell] = None /\ stopping /\ Answers(c, "unknown") /\ UNCHANGED left
     \/ cell[call[c].cell] = None /\ Spend("deadline") /\ Answers(c, "unknown")
  /\ UNCHANGED <<reg, cell, task, rename, held, known, late, host, flight, accepted, stopping>>

----------------------------------------------------------------------------
(* DeviceDirectory: alias reservations.                                    *)

Owner(alias) == {h \in Hosts : known[h] = alias}
Entries(alias) == {e \in held : e.alias = alias}

Reserve(h, alias) ==
  held' = IF Entries(alias) = {} THEN held \cup {[alias |-> alias, host |-> h, count |-> 1]}
          ELSE {IF e.alias = alias THEN [e EXCEPT !.count = @ + 1] ELSE e : e \in held}

\* Mutant: the first guard to go releases the alias.
ReleaseAll(h, alias) == held' = {e \in held : ~(e.alias = alias /\ e.host = h)}

\* AliasReservation::drop
Release(h, alias) ==
  held' = {IF e.alias = alias /\ e.host = h THEN [e EXCEPT !.count = @ - 1] ELSE e :
             e \in {e \in held : ~(e.alias = alias /\ e.host = h /\ e.count = 1)}}

\* Deterministic alias with a suffix of the device's identity.
Disambiguated(h) == Suffixed[h]

----------------------------------------------------------------------------
(* execute_accept                                                          *)

\* The end of an operation: guard dropped, outcome stored, cell queued for retirement.
Ends(c, r) ==
  /\ task' = [task EXCEPT ![c].pc = "done", ![c].result = r]
  /\ cell' = [cell EXCEPT ![c] = r]
  /\ reg' = IF reg.cells[Args[c].op] = c THEN [reg EXCEPT !.order = Append(@, Args[c].op)] ELSE reg

TaskStarts(c) ==
  /\ task[c].pc = "start"
  /\ \/ stopping /\ Ends(c, "cancelled") /\ UNCHANGED left
     \/ ~stopping /\ Spend("deadline") /\ Ends(c, "failed")
     \/ /\ ~stopping
        /\ task' = [task EXCEPT ![c].pc = "owner", ![c].alias = Args[c].alias]
        /\ UNCHANGED <<cell, reg, left>>
  /\ UNCHANGED <<call, rename, held, known, late, host, flight, accepted, stopping>>

\* A claimed alias: an explicit one is an error, a preferred one falls back.
AliasTaken(c) ==
  IF Args[c].explicit \/ task[c].fallback THEN Ends(c, "conflict")
  ELSE /\ task' = [task EXCEPT ![c].pc = "owner", ![c].fallback = TRUE, ![c].alias = Disambiguated(Args[c].host)]
       /\ UNCHANGED <<cell, reg>>

\* reserve_alias: the store is asked who owns the alias.  A query that fails, or
\* whose deadline passes before it began or after, ends the operation.
TaskAsksOwner(c) ==
  /\ task[c].pc = "owner"
  /\ \/ /\ Owner(task[c].alias) \subseteq {Args[c].host}
        /\ task' = [task EXCEPT ![c].pc = "reserve"] /\ UNCHANGED <<cell, reg, left>>
     \/ ~(Owner(task[c].alias) \subseteq {Args[c].host}) /\ AliasTaken(c) /\ UNCHANGED left
     \/ Spend("deadline") /\ \E r \in {"failed", "unknown"} : Ends(c, r)
  /\ UNCHANGED <<call, rename, held, known, late, host, flight, accepted, stopping>>

\* reserve_alias: then the reservations, under their lock.
TaskReserves(c) ==
  /\ task[c].pc = "reserve"
  /\ IF \A e \in Entries(task[c].alias) : e.host = Args[c].host
     THEN /\ Reserve(Args[c].host, task[c].alias)
          /\ task' = [task EXCEPT ![c].pc = "exchange"] /\ UNCHANGED <<cell, reg>>
     ELSE AliasTaken(c) /\ UNCHANGED held
  /\ UNCHANGED <<call, rename, known, late, host, flight, accepted, stopping, left>>

\* run_controller_pair fails before its proof: nothing happened on the host.
ExchangeFails(c) ==
  /\ task[c].pc = "exchange"
  /\ IF Args[c].op \in host[Args[c].host].used THEN UNCHANGED left ELSE Spend("lose")
  /\ task' = [task EXCEPT ![c].pc = "confirm", ![c].error = TRUE]
  /\ UNCHANGED <<call, reg, cell, rename, held, known, late, host, flight, accepted, stopping>>

\* The challenge binds the ticket; the proof leaves, perhaps even when its write fails.
SendsProof(c) ==
  /\ task[c].pc = "exchange" /\ Args[c].op \notin host[Args[c].host].used
  /\ flight' = flight \cup {c}
  /\ task' = [task EXCEPT ![c].pc = "reply", ![c].repair = TRUE]
  /\ UNCHANGED <<call, reg, cell, rename, held, known, late, host, accepted, stopping, left>>

\* The host verifies a proof, now or after the accepting side gave up.
HostAuthorizes(c) ==
  LET h == Args[c].host
  IN /\ c \in flight
     /\ flight' = flight \ {c}
     /\ IF Args[c].op \in host[h].used THEN UNCHANGED <<host, accepted>>
        ELSE /\ host' = [host EXCEPT ![h] = [auth |-> TRUE, gen |-> @.gen + 1, used |-> @.used \cup {Args[c].op}]]
             /\ accepted' = [accepted EXCEPT ![c] = host[h].gen + 1]
     /\ UNCHANGED <<call, reg, cell, task, rename, held, known, late, stopping, left>>

ProofLost(c) ==
  /\ c \in flight /\ Spend("lose")
  /\ flight' = flight \ {c}
  /\ UNCHANGED <<call, reg, cell, task, rename, held, known, late, host, accepted, stopping>>

\* PairAccepted arrives with its generation, or the stream ends or garbles first.
ReadsAccepted(c) ==
  /\ task[c].pc = "reply"
  /\ \/ /\ accepted[c] # 0 /\ UNCHANGED left
        /\ task' = [task EXCEPT ![c].pc = "confirm", ![c].gen = accepted[c]]
     \/ /\ IF c \in flight \/ accepted[c] # 0 THEN Spend("lose") ELSE UNCHANGED left
        /\ task' = [task EXCEPT ![c].pc = "confirm", ![c].error = TRUE]
  /\ UNCHANGED <<call, reg, cell, rename, held, known, late, host, flight, accepted, stopping>>

\* Mutant: a failed confirmation always reports the exchange's own error.
UnconfirmedDefinite(t) == IF t.error THEN "failed" ELSE "unknown"

\* resolve_normal_confirmation without a confirmation: unknown once a proof was sent.
Unconfirmed(t) == IF t.repair THEN "unknown" ELSE "failed"

\* confirm_normal: the host admits an authorized device on the normal protocol.
Confirm(c) ==
  LET h == host[Args[c].host]
      t == task[c]
  IN /\ t.pc = "confirm"
     /\ \/ /\ h.auth /\ UNCHANGED <<left, cell, reg, held>>
           /\ task' = [task EXCEPT ![c].pc = IF h.gen < t.gen THEN "unknown" ELSE "persist"]
        \/ /\ IF h.auth THEN Spend("lose") ELSE UNCHANGED left
           /\ Ends(c, Unconfirmed(t)) /\ Release(Args[c].host, t.alias)
     /\ UNCHANGED <<call, rename, known, late, host, flight, accepted, stopping>>

\* confirm_known_device: the alias is unique among the rows.
Writes(h, alias) == known' = [known EXCEPT ![h] = alias]

\* Mutant: a deadline that passes while the store works counts as done.
PersistHopes(c) ==
  /\ task[c].pc = "persist"
  /\ \/ /\ Owner(task[c].alias) \subseteq {Args[c].host}
        /\ Writes(Args[c].host, task[c].alias)
        /\ task' = [task EXCEPT ![c].pc = "stored"] /\ UNCHANGED <<late, left>>
     \/ /\ ~(Owner(task[c].alias) \subseteq {Args[c].host})
        /\ task' = [task EXCEPT ![c].pc = "unstored"] /\ UNCHANGED <<known, late, left>>
     \/ /\ Spend("deadline")
        /\ task' = [task EXCEPT ![c].pc = "stored"]
        /\ late' \in {late, late \cup {c}} /\ UNCHANGED known
  /\ UNCHANGED <<call, reg, cell, rename, held, host, flight, accepted, stopping>>

\* The store runs the command, refuses a claimed alias, or is still at it when the
\* deadline passes: it may have begun and commit later, or never begin.
Persist(c) ==
  /\ task[c].pc = "persist"
  /\ \/ /\ Owner(task[c].alias) \subseteq {Args[c].host}
        /\ Writes(Args[c].host, task[c].alias)
        /\ task' = [task EXCEPT ![c].pc = "stored"] /\ UNCHANGED <<late, left>>
     \/ /\ ~(Owner(task[c].alias) \subseteq {Args[c].host})
        /\ task' = [task EXCEPT ![c].pc = "unstored"] /\ UNCHANGED <<known, late, left>>
     \/ /\ Spend("deadline")
        /\ task' = [task EXCEPT ![c].pc = "unknown"]
        /\ late' \in {late, late \cup {c}} /\ UNCHANGED known
  /\ UNCHANGED <<call, reg, cell, rename, held, host, flight, accepted, stopping>>

LateCommit(c) ==
  /\ c \in late
  /\ late' = late \ {c}
  /\ IF Owner(task[c].alias) \subseteq {Args[c].host} THEN Writes(Args[c].host, task[c].alias) ELSE UNCHANGED known
  /\ UNCHANGED <<call, reg, cell, task, rename, held, host, flight, accepted, stopping, left>>

TaskEnds(c) ==
  /\ task[c].pc \in {"stored", "unstored", "unknown"}
  /\ Ends(c, IF task[c].pc = "stored" THEN "ok" ELSE "unknown")
  /\ Release(Args[c].host, task[c].alias)
  /\ UNCHANGED <<call, rename, known, late, host, flight, accepted, stopping, left>>

----------------------------------------------------------------------------
(* DeviceDirectory::rename                                                 *)

RenameEnds(n, r) == rename' = [rename EXCEPT ![n] = [pc |-> "done", result |-> r]]

\* The query of reserve_alias, which may fail as that of an accept operation.
RenameAsks(n) ==
  LET free == Owner(RenameArgs[n].alias) \subseteq {RenameArgs[n].host}
  IN /\ rename[n].pc = "idle" /\ ~stopping /\ n \in left.who
     /\ \/ free /\ rename' = [rename EXCEPT ![n].pc = "reserve"] /\ UNCHANGED left
        \/ ~free /\ RenameEnds(n, "conflict") /\ UNCHANGED left
        \/ Spend("deadline") /\ \E r \in {"failed", "unknown"} : RenameEnds(n, r)
     /\ UNCHANGED <<call, reg, cell, task, held, known, late, host, flight, accepted, stopping>>

RenameReserves(n) ==
  LET a == RenameArgs[n]
      free == \A e \in Entries(a.alias) : e.host = a.host
  IN /\ rename[n].pc = "reserve"
     /\ rename' = [rename EXCEPT ![n] =
          IF free THEN [pc |-> "write", result |-> None] ELSE [pc |-> "done", result |-> "conflict"]]
     /\ IF free THEN Reserve(a.host, a.alias) ELSE UNCHANGED held
     /\ UNCHANGED <<call, reg, cell, task, known, late, host, flight, accepted, stopping, left>>

\* rename_alias: the row exists and the alias is unique among the rows.
Renamable(a) == known[a.host] # None /\ Owner(a.alias) \subseteq {a.host}

\* The reservation goes with the answer, also when the deadline passes while the
\* store has the command, which it may run later or never.
RenameWrites(n) ==
  LET a == RenameArgs[n]
  IN /\ rename[n].pc = "write"
     /\ \/ Renamable(a) /\ Writes(a.host, a.alias) /\ RenameEnds(n, "ok") /\ UNCHANGED <<late, left>>
        \/ ~Renamable(a) /\ RenameEnds(n, "failed") /\ UNCHANGED <<known, late, left>>
        \/ /\ Spend("deadline") /\ UNCHANGED known
           /\ \E r \in {"failed", "unknown"} : RenameEnds(n, r)
           /\ late' \in {late, late \cup {n}}
     /\ Release(a.host, a.alias)
     /\ UNCHANGED <<call, reg, cell, task, host, flight, accepted, stopping>>

LateRename(n) ==
  LET a == RenameArgs[n]
  IN /\ n \in late
     /\ late' = late \ {n}
     /\ IF Renamable(a) THEN Writes(a.host, a.alias) ELSE UNCHANGED known
     /\ UNCHANGED <<call, reg, cell, task, rename, held, host, flight, accepted, stopping, left>>

----------------------------------------------------------------------------

\* The host's user revokes this device.
HostRevokes(h) ==
  /\ host[h].auth /\ Spend("revoke")
  /\ host' = [host EXCEPT ![h].auth = FALSE, ![h].gen = @ + 1]
  /\ UNCHANGED <<call, reg, cell, task, rename, held, known, late, flight, accepted, stopping>>

\* shutdown_until: the flag; the tasks are then joined as they end.
Shutdown ==
  /\ ~stopping /\ Spend("stop")
  /\ stopping' = TRUE
  /\ UNCHANGED <<call, reg, cell, task, rename, held, known, late, host, flight, accepted>>

Running == {c \in Calls : task[c].pc \notin {"none", "done"}}
Holding == Running \ {c \in Calls : task[c].pc \in {"start", "owner", "reserve"}}
CountKept(e) == e.count - Cardinality({c \in Holding : task[c].alias = e.alias})

\* At the deadline of shutdown_until the tasks still running are aborted: their
\* reservations are dropped, their cells stay without an outcome, and a write
\* given to the store may still be run.  (A blocking thread that has yet to
\* reserve then drops its reservation at once.)
ShutdownAborts ==
  /\ stopping /\ Running # {} /\ Spend("deadline")
  /\ task' = [c \in Calls |-> IF c \in Running THEN [task[c] EXCEPT !.pc = "done"] ELSE task[c]]
  /\ held' = {[e EXCEPT !.count = CountKept(e)] : e \in {e \in held : CountKept(e) > 0}}
  /\ \E s \in SUBSET {c \in Running : task[c].pc = "persist"} : late' = late \cup s
  /\ UNCHANGED <<call, reg, cell, rename, known, host, flight, accepted, stopping>>

\* The daemon ends and comes back: only the store's rows remain.
Restarts ==
  /\ Spend("restart")
  /\ reg' = NoRegistry
  /\ cell' = [c \in Calls |-> None]
  /\ task' = [c \in Calls |-> NoTask]
  /\ held' = {} /\ late' = {} /\ stopping' = FALSE
  /\ call' = [c \in Calls |-> IF call[c].pc = "wait" THEN [pc |-> "done", cell |-> None, result |-> "unknown"] ELSE call[c]]
  /\ rename' = [n \in Renames |-> IF rename[n].pc = "idle" THEN rename[n] ELSE [pc |-> "done", result |-> rename[n].result]]
  /\ UNCHANGED <<known, host, flight, accepted>>

Next ==
  \/ \E c \in Calls :
       \/ Accept(c) \/ Refuse(c) \/ Answer(c) \/ TaskStarts(c) \/ TaskAsksOwner(c) \/ TaskReserves(c)
       \/ ExchangeFails(c) \/ SendsProof(c) \/ HostAuthorizes(c) \/ ProofLost(c) \/ ReadsAccepted(c)
       \/ Confirm(c) \/ Persist(c) \/ LateCommit(c) \/ TaskEnds(c)
  \/ \E n \in Renames : RenameAsks(n) \/ RenameReserves(n) \/ RenameWrites(n) \/ LateRename(n)
  \/ \E h \in Hosts : HostRevokes(h)
  \/ Shutdown \/ ShutdownAborts \/ Restarts

Spec == Init /\ [][Next]_vars

----------------------------------------------------------------------------

\* A reported success is a pairing that exists on both sides: the host has
\* authorized this device and the address book has the host.
SuccessIsPaired ==
  \A c \in Calls : call[c].result = "ok" =>
    host[Args[c].host].gen > 0 /\ known[Args[c].host] # None

\* A definite failure never hides an authorization: what failed without "outcome
\* unknown" has not been, and will not be, authorized by the host.
FailureIsDefinite ==
  \A c \in Calls : cell[c] \in {"failed", "conflict", "cancelled"} => accepted[c] = 0 /\ c \notin flight

\* Two operations for different devices never hold one alias (AliasReservation).
AliasHeldOnce ==
  \A c, d \in Calls :
    /\ {task[c].pc, task[d].pc} \subseteq {"exchange", "reply", "confirm", "persist", "stored", "unstored"}
    /\ task[c].alias = task[d].alias
    => Args[c].host = Args[d].host

\* An operation is run by at most one task however often it is retried.
OneRunPerOperation ==
  \A c, d \in Calls : Args[c].op = Args[d].op /\ c # d => {task[c].pc, task[d].pc} \cap {"none", "done"} # {}

\* An alias that was reserved before the network was used can be written at the end.
ReservedIsWritable == \A c \in Calls : task[c].pc # "unstored"
=============================================================================
