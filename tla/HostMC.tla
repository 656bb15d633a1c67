------------------------------- MODULE HostMC -------------------------------
(***************************************************************************)
(* What a host keeps, on small instances: DeviceAuthorization, whom it     *)
(* admits; PairingAcceptance, the hosts it has paired with; HostLifecycle, *)
(* its files and the one daemon that serves them.                          *)
(*                                                                         *)
(* The three are checked side by side: `part' says which of them a         *)
(* behaviour is about.  DeviceAuthorization has its own variables; those   *)
(* of the others are the slots s1 to s13.  What a behaviour is not about   *)
(* stays at rest.                                                          *)
(***************************************************************************)
EXTENDS DeviceAuthorization

VARIABLES part, s1, s2, s3, s4, s5, s6, s7, s8, s9, s10, s11, s12, s13

slots == <<s1, s2, s3, s4, s5, s6, s7, s8, s9, s10, s11, s12, s13>>
runVars == <<vars, part, slots>>

-----------------------------------------------------------------------------
(* A host that is set up and stopped, with login start, or running; or     *)
(* never set up; and two commands.                                         *)

AHost(root, key, db, config, auto) ==
  [root |-> root, key |-> key, db |-> db, config |-> config, life |-> 0,
   own |-> 0, sock |-> 0, exe |-> 1, auto |-> auto]
Serving(host) == [host EXCEPT !.own = 1, !.sock = 1]
HostHosts ==
  {Serving(AHost(TRUE, 1, 1, TRUE, FALSE)), AHost(TRUE, 1, 1, TRUE, FALSE),
   AHost(TRUE, 1, 1, TRUE, TRUE), AHost(TRUE, 0, 0 - 1, FALSE, FALSE),
   AHost(FALSE, 0, 0 - 1, FALSE, FALSE)}

Script(a, b) == [x \in {11, 12} |-> IF x = 11 THEN a ELSE b]
HostScripts ==
  {Script("reset", "restart"), Script("setup", "setup"),
   Script("reset", "setup"), Script("update", "update"),
   Script("update", "ensure"), Script("reset", "reset"),
   Script("stop", "restarter"), Script("enable", "reset"),
   Script("ensure", "restarter")}

HostQuiet == [rebind |-> 0, crash |-> 0, login |-> 0, abort |-> 0, check |-> 0]
HostBudgets ==
  {[HostQuiet EXCEPT !.rebind = 1, !.check = 1],
   [HostQuiet EXCEPT !.crash = 1, !.login = 1],
   [HostQuiet EXCEPT !.abort = 1, !.login = 1]}

Host == INSTANCE HostLifecycle WITH
  Commands <- {11, 12}, Hosts <- HostHosts, Scripts <- HostScripts, Budgets <- HostBudgets,
  MaxDaemons <- 3, MaxInodes <- 6,
  fs <- s1, held <- s2, cmd <- s3, dmn <- s4, made <- s5, left <- s6,
  stray <- s7

(* A call and its retry, after which others may have displaced the first;  *)
(* two other operations that want the same alias; a rename to that alias.  *)

AcceptArgs ==
  [c \in 1..4 |->
     CASE c \in {1, 2} -> [op |-> 1, host |-> 1, alias |-> "a", explicit |-> TRUE]
       [] c = 3 -> [op |-> 2, host |-> 1, alias |-> "a", explicit |-> TRUE]
       [] c = 4 -> [op |-> 3, host |-> 2, alias |-> "a", explicit |-> FALSE]]
AcceptRenames == [n \in {5} |-> [host |-> 2, alias |-> "a"]]
AcceptSuffixed == [h \in {1, 2} |-> IF h = 1 THEN "a-1" ELSE "a-2"]

AcceptQuiet == [who |-> {}, refuse |-> 0, deadline |-> 0, lose |-> 0,
                revoke |-> 0, stop |-> 0, restart |-> 0]
AcceptBudgets ==
  {[AcceptQuiet EXCEPT !.who = {1, 2, 4}, !.lose = 1, !.deadline = 1],
   [AcceptQuiet EXCEPT !.who = {1, 3, 4}, !.deadline = 1],
   [AcceptQuiet EXCEPT !.who = {1, 2, 3, 4}],
   [AcceptQuiet EXCEPT !.who = {1, 4, 5}, !.revoke = 1, !.refuse = 1, !.deadline = 1],
   [AcceptQuiet EXCEPT !.who = {1, 2}, !.lose = 2, !.revoke = 1],
   [AcceptQuiet EXCEPT !.who = {1, 2, 5}, !.stop = 1, !.deadline = 1, !.lose = 1],
   [AcceptQuiet EXCEPT !.who = {1, 2, 5}, !.stop = 1, !.restart = 1, !.lose = 1]}

Acceptance == INSTANCE PairingAcceptance WITH
  Calls <- 1..4, Args <- AcceptArgs, Renames <- {5}, RenameArgs <- AcceptRenames,
  Suffixed <- AcceptSuffixed, MaxCells <- 2, Budgets <- AcceptBudgets,
  call <- s1, reg <- s2, cell <- s3, task <- s4, rename <- s5, held <- s6,
  known <- s7, late <- s8, host <- s9, flight <- s10, accepted <- s11,
  stopping <- s12, left <- s13

-----------------------------------------------------------------------------
From8 == s8 = 0 /\ s9 = 0 /\ s10 = 0 /\ s11 = 0 /\ s12 = 0 /\ s13 = 0

RunInit ==
  /\ Init
  /\ \/ /\ part = "devices" /\ From8
        /\ s1 = 0 /\ s2 = 0 /\ s3 = 0 /\ s4 = 0 /\ s5 = 0 /\ s6 = 0 /\ s7 = 0
     \/ part = "host" /\ Host!Init /\ From8 /\ row = NoRow
     \/ part = "acceptance" /\ Acceptance!Init /\ row = NoRow

RunNext ==
  \/ part = "devices" /\ Next /\ UNCHANGED <<part, slots>>
  \/ /\ part = "host" /\ Host!Next
     /\ UNCHANGED <<vars, part, s8, s9, s10, s11, s12, s13>>
  \/ part = "acceptance" /\ Acceptance!Next /\ UNCHANGED <<vars, part>>

\* The fairness of DeviceAuthorization, in its own behaviours.
DevicesFair ==
  /\ WF_vars(part = "devices" /\ StoreStart)
  /\ WF_vars(part = "devices" /\ (StoreCommit \/ StoreFail))
  /\ WF_vars(part = "devices" /\ ActorStart)
  /\ WF_vars(part = "devices" /\ ActorRun)
  /\ \A c \in Conns :
       /\ WF_vars(part = "devices" /\ AcquireCommit(c))
       /\ WF_vars(part = "devices" /\ SendCommand(c))
       /\ WF_vars(part = "devices" /\ FinishEffect(c))
  /\ \A r \in Revokers :
       /\ WF_vars(part = "devices" /\ RevokeProceeds(r))
       /\ WF_vars(part = "devices" /\ revoke[r].step = "failed" /\ RevokeGiveUp(r))
  /\ \A p \in Pairers :
       /\ WF_vars(part = "devices" /\ PairProceeds(p))
       /\ WF_vars(part = "devices" /\ pair[p].step = "failed" /\ PairRollback(p))

RunSpec == RunInit /\ [][RunNext]_runVars /\ DevicesFair

-----------------------------------------------------------------------------
\* HostLifecycle: one daemon serves, with the identity on disk, and a reset
\* destroys what its user confirmed.
HostIsOwned == part = "host" => Host!ServesDisk /\ Host!ResetsConfirmed

\* PairingAcceptance: successes and definite failures are what they say, an
\* alias is held once and an operation run once.
AcceptanceIsDefinite ==
  part = "acceptance" =>
    /\ Acceptance!SuccessIsPaired /\ Acceptance!FailureIsDefinite
    /\ Acceptance!AliasHeldOnce /\ Acceptance!OneRunPerOperation
=============================================================================
