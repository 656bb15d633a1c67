------------------------------ MODULE NetworkMC -----------------------------
(***************************************************************************)
(* What the daemon does over the network and over its socket, on small     *)
(* instances: ConnectionBroker, NetworkSupervisor, RemoteUnary,            *)
(* LocalTunnel, ReleaseDownload, LifecycleHandoff and LocalServer.         *)
(*                                                                         *)
(* The seven are checked side by side: `part' says which of them a         *)
(* behaviour is about.  ConnectionBroker has its own variables; those of   *)
(* the others are the slots s1 to s9.  What a behaviour is not about       *)
(* stays at rest.                                                          *)
(***************************************************************************)
EXTENDS ConnectionBroker, Sequences

VARIABLES part, s1, s2, s3, s4, s5, s6, s7, s8, s9

slots == <<s1, s2, s3, s4, s5, s6, s7, s8, s9>>
runVars == <<vars, part, slots>>

-----------------------------------------------------------------------------
\* One end dials for two consumers and nothing fails.
Two == faults = MaxFaults /\ \A u \in Users : u[1] = 1 <=> UserAt(u, "idle")

\* One end dials for one consumer while things fail.
One == faults = 0 /\ \A u \in Users : u = <<1, "a">> <=> UserAt(u, "idle")

\* One end has dialed and is served; the other, which has no acceptance of
\* its own yet, dials beside that connection while an end stops, times out or
\* revokes, or starts again while a handshake outlives the retirement of its
\* owner.  The other end may be of a release that names no incarnation.
Established ==
  LET name(n, bare) == IF bare /\ n = 2 THEN Bare ELSE <<n, 1>>
      end(n, bare) == [step |-> "actor", saw |-> name(Other(n), bare), link |-> "open"]
      owner(n, bare) == [FreshSlot(bare /\ n = 2) EXCEPT
                           !.candidates = {<<1, 1>>}, !.primary = <<1, 1>>,
                           !.local = <<n, 1>>,
                           !.current = IF bare /\ n = 1 THEN None ELSE <<Other(n), 1>>,
                           !.accepted = IF n = 1 THEN name(2, bare) ELSE None]
  IN /\ \E bare \in BOOLEAN :
          /\ slot = [n \in Nodes |-> owner(n, bare)]
          /\ conn = [k \in Keys |->
               IF k = <<1, 1>>
               THEN [NoConn EXCEPT !.hello = <<1, 1>>, !.welcome = name(2, bare),
                                   !.delivered = TRUE,
                                   !.end = [n \in Nodes |-> end(n, bare)]]
               ELSE NoConn]
     /\ worker = [n \in Nodes |-> OffWorker]
     /\ user = [u \in Users |-> [NoUser EXCEPT !.step =
                  IF u = <<2, "a">> THEN "idle" ELSE "done"]]
     /\ endpoint = [n \in Nodes |-> TRUE]
     /\ quiescing = [n \in Nodes |-> FALSE]
     /\ admits = [n \in Nodes |-> TRUE]
     /\ faults = 0

\* The consumers: two of one end and one of the other.
BrokerUsers == {<<1, "a">>, <<1, "b">>, <<2, "a">>}
Beside == INSTANCE ConnectionBroker WITH
  FaultKinds <- {"timeout", "quiesce", "revoke"}
Replaced == INSTANCE ConnectionBroker WITH
  FaultKinds <- {"restart", "outlived"}, MaxFaults <- 2
AtRest == Init /\ One /\ ~slot[2].bare

-----------------------------------------------------------------------------
(* The endpoint's faults; the admission of handshakes.                     *)

NetQuiet == [bind |-> 0, relay |-> 0, close |-> 0, late |-> 0, dial |-> 0,
             pair |-> 0]
NetBudgets ==
  {[NetQuiet EXCEPT !.bind = 2, !.relay = 2, !.close = 1, !.late = 2, !.dial = 1],
   [NetQuiet EXCEPT !.dial = 4, !.pair = 4]}

Net == INSTANCE NetworkSupervisor WITH
  Incoming <- {"i1", "i2", "i3"}, Outgoing <- {"o1", "o2"},
  Peers <- {"p1", "p2"}, MaxNormal <- 1, MaxPairing <- 1, MaxPerPeer <- 1,
  Budgets <- NetBudgets,
  sup <- s1, ep <- s2, brk <- s3, obs <- s4, stop <- s5, task <- s6, left <- s7

(* Two mutations and a list share a connection to a host.                  *)

UnaryQuiet == [lease |-> 0, cancel |-> 0, dial |-> 0, late |-> 0, forget |-> 0,
               die |-> 0, mute |-> 0, heard |-> 0, restart |-> 0, garble |-> 0,
               list |-> 1]
UnaryBudgets ==
  {[UnaryQuiet EXCEPT !.lease = 1, !.die = 1],
   [UnaryQuiet EXCEPT !.cancel = 1, !.die = 1, !.list = 0],
   [UnaryQuiet EXCEPT !.late = 1], [UnaryQuiet EXCEPT !.forget = 1],
   [UnaryQuiet EXCEPT !.dial = 1, !.mute = 1],
   [UnaryQuiet EXCEPT !.mute = 1, !.heard = 1, !.list = 0],
   [UnaryQuiet EXCEPT !.restart = 1, !.garble = 1]}

Unary == INSTANCE RemoteUnary WITH
  Calls <- 1..3, Lists <- {3}, MaxConns <- 3, MaxStreams <- 2,
  Budgets <- UnaryBudgets,
  call <- s1, mut <- s2, conn <- s3, mute <- s4, peer <- s5, net <- s6,
  host <- s7, left <- s8

(* A frontend, its tunnel through the daemon and a host.                   *)

TunnelQuiet == [detach |-> 0, vanish |-> 0, stall |-> 0, abort |-> 0,
                lose |-> 0, stopped |-> 0, refuse |-> 0, deadline |-> 0,
                path |-> 0]
TunnelBudgets ==
  {[TunnelQuiet EXCEPT !.detach = 1, !.vanish = 1],
   [TunnelQuiet EXCEPT !.lose = 1, !.detach = 1],
   [TunnelQuiet EXCEPT !.stall = 1, !.vanish = 1],
   [TunnelQuiet EXCEPT !.abort = 1, !.lose = 1],
   [TunnelQuiet EXCEPT !.deadline = 1, !.lose = 1, !.path = 1],
   [TunnelQuiet EXCEPT !.stopped = 2, !.refuse = 1, !.lose = 1]}

Tunnel == INSTANCE LocalTunnel WITH
  MaxUp <- 2, MaxDown <- 4, Room <- 2, Budgets <- TunnelBudgets,
  f <- s1, p <- s2, r <- s3, up <- s4, down <- s5, rup <- s6, rdown <- s7,
  retired <- s8, left <- s9

(* An old release, a prerelease, a sound one, and three with mistakes.     *)

Build(version, stable) ==
  [version |-> version, target |-> "linux", commit |-> "c", wire |-> 1,
   state |-> 1, key |-> "key", stable |-> stable]
Artifact(version, stable, sha) ==
  [target |-> "linux", url |-> <<version, "linux">>, length |-> 1, sha |-> sha,
   floor |-> "glibc", build |-> Build(version, stable)]
Manifest(version, stable, artifacts) ==
  [schema |-> 1, bootstrap |-> 1, product |-> "voytty", version |-> version,
   tag |-> version, stable |-> stable, commit |-> "c", wire |-> 1, state |-> 1,
   key |-> "key", artifacts |-> artifacts]

ReleaseReleases ==
  <<Manifest(2, TRUE, <<Artifact(2, TRUE, "a2")>>),
    Manifest(5, FALSE, <<Artifact(5, FALSE, "a5")>>),
    Manifest(6, TRUE, <<Artifact(6, TRUE, "a6")>>),
    Manifest(8, TRUE, <<Artifact(8, TRUE, "a8")>>),
    Manifest(10, TRUE, <<Artifact(10, TRUE, "a2"), Artifact(10, TRUE, "a6")>>),
    Manifest(12, TRUE, <<>>)>>

OneFile == <<[name |-> "voytty", file |-> TRUE, size |-> "fits"]>>
ReleaseArchives ==
  [a2 |-> [entries |-> OneFile, build |-> Build(2, TRUE)],
   a5 |-> [entries |-> OneFile, build |-> Build(5, FALSE)],
   a6 |-> [entries |-> OneFile, build |-> Build(6, TRUE)],
   a8 |-> [entries |-> OneFile \o OneFile, build |-> Build(8, TRUE)]]
ReleaseSelections == {<<>>, <<2>>, <<5>>, <<6>>, <<8>>, <<10>>, <<12>>}

Release == INSTANCE ReleaseDownload WITH
  Releases <- ReleaseReleases, Archives <- ReleaseArchives,
  Running <- Build(4, TRUE), Selections <- ReleaseSelections,
  Budgets <- [metadata |-> 6, archive |-> 9], RetryDelay <- 1,
  published <- s1, job <- s2, ran <- s3

(* An update, a restart and a stop of up to three sessions.                *)

HandOrders == [op : {"stop", "restart", "update"}, approved : BOOLEAN]
HandBudgets == [hangup : {1}, break : {1}, prepare : {1}, log : {1},
                start : {1}, request : {1}, admit : {2}]

Hand == INSTANCE LifecycleHandoff WITH
  Sessions <- 1..3, Orders <- HandOrders, Budgets <- HandBudgets,
  fe <- s1, ow <- s2, down <- s3, up <- s4, cut <- s5, dm <- s6, left <- s7

(* Three clients of the socket, at most two at a time.                     *)

LocalKinds ==
  {<<"force", "attach", "idle">>, <<"stop", "force", "attach">>,
   <<"force", "pair", "remote">>, <<"attach", "pair", "idle">>,
   <<"force", "tunnel", "mutate">>}
LocalQuiet == [expire |-> 0, fatal |-> 0, slow |-> 0, stick |-> 0]
LocalBudgets ==
  {[LocalQuiet EXCEPT !.expire = 1, !.slow = 1],
   [LocalQuiet EXCEPT !.stick = 1], [LocalQuiet EXCEPT !.fatal = 1]}

Local == INSTANCE LocalServer WITH
  Clients <- 1..3, Kinds <- LocalKinds, MaxConnections <- 2,
  Budgets <- LocalBudgets,
  client <- s1, kind <- s2, h <- s3, listen <- s4, signal <- s5,
  fatal <- s6, live <- s7, done <- s8, left <- s9

-----------------------------------------------------------------------------
RunInit ==
  \/ /\ \/ part = "broker" /\ Init /\ (One \/ Two)
        \/ part = "beside" /\ Established /\ ~slot[2].bare
        \/ part = "replaced" /\ Established
     /\ s1 = 0 /\ s2 = 0 /\ s3 = 0 /\ s4 = 0 /\ s5 = 0 /\ s6 = 0 /\ s7 = 0
     /\ s8 = 0 /\ s9 = 0
  \/ part = "net" /\ AtRest /\ Net!Init /\ s8 = 0 /\ s9 = 0
  \/ part = "unary" /\ AtRest /\ Unary!Init /\ s9 = 0
  \/ part = "tunnel" /\ AtRest /\ Tunnel!Init
  \/ /\ part = "release" /\ AtRest /\ Release!Init
     /\ s4 = 0 /\ s5 = 0 /\ s6 = 0 /\ s7 = 0 /\ s8 = 0 /\ s9 = 0
  \/ part = "hand" /\ AtRest /\ Hand!Init /\ s8 = 0 /\ s9 = 0
  \/ part = "local" /\ AtRest /\ Local!Init

RunNext ==
  \/ part = "broker" /\ Next /\ UNCHANGED <<part, slots>>
  \/ part = "beside" /\ Beside!Next /\ UNCHANGED <<part, slots>>
  \/ part = "replaced" /\ Replaced!Next /\ UNCHANGED <<part, slots>>
  \/ part = "net" /\ Net!Next /\ UNCHANGED <<vars, part, s8, s9>>
  \/ part = "unary" /\ Unary!Next /\ UNCHANGED <<vars, part, s9>>
  \/ part = "tunnel" /\ Tunnel!Next /\ UNCHANGED <<vars, part>>
  \/ /\ part = "release" /\ Release!Next
     /\ UNCHANGED <<vars, part, s4, s5, s6, s7, s8, s9>>
  \/ part = "hand" /\ Hand!Next /\ UNCHANGED <<vars, part, s8, s9>>
  \/ part = "local" /\ Local!Next /\ UNCHANGED <<vars, part>>

RunSpec == RunInit /\ [][RunNext]_runVars

-----------------------------------------------------------------------------
\* NetworkSupervisor: the capacity for normal connections is kept, and a
\* shutdown that returned has released everything.
NetworkIsOrderly ==
  part = "net" => Net!NormalReserved /\ Net!ReturnedIsReleased

\* RemoteUnary and LocalTunnel: a caller is told the truth about its own
\* operation; a frontend is told to retry what was lost, and that it has
\* everything only when it does.
CallersAreToldTruth ==
  /\ part = "unary" => Unary!ToldTruth /\ Unary!OwnOperation
  /\ part = "tunnel" => Tunnel!LossIsRetryable /\ Tunnel!CleanEndComplete

\* ReleaseDownload: only what a signed manifest names is run, in time.
UpdateIsSigned ==
  part = "release" => Release!RanOnlySigned /\ Release!FetchInBudget

\* LifecycleHandoff and LocalServer: what a frontend or a client reports
\* about a stop holds, and nothing is ended without an approval.
ReportsHold ==
  /\ part = "hand" => Hand!UntouchedHolds /\ Hand!EndedWasApproved
  /\ part = "local" => Local!FailureIsReal
=============================================================================
