----------------------------- MODULE ProgressMC -----------------------------
(***************************************************************************)
(* What must eventually happen, on small instances without symmetry: the   *)
(* liveness of ConnectionBroker, NetworkSupervisor, TerminalView,          *)
(* SessionRegistry, TerminalDriver, LifecycleHandoff, LocalServer and      *)
(* TerminalShell.                                                          *)
(*                                                                         *)
(* `part' says which of them a behaviour is about; their variables are the *)
(* slots s1 to s13.                                                        *)
(***************************************************************************)
EXTENDS Naturals

CONSTANT None

VARIABLES part, s1, s2, s3, s4, s5, s6, s7, s8, s9, s10, s11, s12, s13

slots == <<s1, s2, s3, s4, s5, s6, s7, s8, s9, s10, s11, s12, s13>>
runVars == <<part, slots>>

-----------------------------------------------------------------------------
(* One end dials while something fails; or, without failure, beside the    *)
(* connection that the other end already has.                              *)

BrokerUsers == {<<1, "a">>, <<2, "a">>}
Broker == INSTANCE ConnectionBroker WITH
  Attempts <- {1}, Incarnations <- 1..6, MaxRetired <- 2, Users <- BrokerUsers, Old <- {},
  FaultKinds <- {"timeout", "link", "silence", "detach", "quiesce", "restart", "revoke"},
  MaxFaults <- 1, None <- None,
  slot <- s1, conn <- s2, worker <- s3, user <- s4, endpoint <- s5,
  quiescing <- s6, admits <- s7, faults <- s8

Dialing(u) == Broker!UserAt(u, "idle")
Established ==
  LET k == <<2, 1>>
      end(n) == [step |-> "actor", saw |-> <<Broker!Other(n), 1>>, link |-> "open"]
  IN /\ s1 = [n \in 1..2 |->
          [Broker!NewSlot EXCEPT !.candidates = {k}, !.primary = k, !.local = <<n, 1>>,
                                 !.current = <<Broker!Other(n), 1>>,
                                 !.accepted = IF n = 2 THEN <<1, 1>> ELSE None]]
     /\ s2 = [j \in Broker!Keys |->
          IF j = k
          THEN [Broker!NoConn EXCEPT !.hello = <<2, 1>>, !.welcome = <<1, 1>>,
                                     !.delivered = TRUE, !.end = [n \in 1..2 |-> end(n)]]
          ELSE Broker!NoConn]
     /\ s3 = [n \in 1..2 |-> Broker!OffWorker]
     /\ s4 = [u \in BrokerUsers |-> [Broker!NoUser EXCEPT !.step =
                 IF u[1] = 1 THEN "idle" ELSE "done"]]
     /\ s5 = [n \in 1..2 |-> TRUE] /\ s6 = [n \in 1..2 |-> FALSE]
     /\ s7 = [n \in 1..2 |-> TRUE] /\ s8 = 1
BrokerInit ==
  \/ Broker!Init /\ s8 = 0 /\ \A u \in BrokerUsers : u[1] = 1 <=> Dialing(u)
  \/ Established

(* Binds that fail, an endpoint that closes, a shutdown.                   *)

Net == INSTANCE NetworkSupervisor WITH
  Incoming <- {"i1"}, Outgoing <- {}, Peers <- {"p1"}, MaxNormal <- 1,
  MaxPairing <- 1, MaxPerPeer <- 1,
  Budgets <- {[bind |-> 2, relay |-> 1, close |-> 1, late |-> 1, dial |-> 1,
               pair |-> 0]},
  sup <- s1, ep <- s2, brk <- s3, obs <- s4, stop <- s5, task <- s6, left <- s7

(* Output behind the receipt window; output and a lost stream; a detach    *)
(* that crosses a lost stream.                                             *)

ViewQuiet ==
  [output |-> 0, rival |-> 0, end |-> 0, loss |-> 0, scroll |-> 0, type |-> 0,
   winch |-> 0, detach |-> 0, takeover |-> 0, stall |-> 0]
View == INSTANCE TerminalView WITH
  Window <- 1, OutboundCapacity <- 2, EventCapacity <- 1,
  Budgets <- {[ViewQuiet EXCEPT !.output = 2],
              [ViewQuiet EXCEPT !.output = 1, !.loss = 1],
              [ViewQuiet EXCEPT !.loss = 1, !.detach = 1]},
  session <- s1, attach <- s2, stream <- s3, host <- s4, client <- s5,
  driver <- s6, inbox <- s7, commands <- s8, ui <- s9, left <- s10, meets <- s11

(* One creation and a stop.                                                *)

Registry == INSTANCE SessionRegistry WITH
  Creations <- {1}, Names <- {"main"}, Main <- "main", Ids <- {"id"},
  Stoppers <- {2}, None <- None, MaxLive <- 1, StoreBuffering <- FALSE,
  accepting <- s1, slot <- s2, byId <- s3, provisional <- s4,
  cleanupOnly <- s5, reservation <- s6, creation <- s7, actor <- s8, stop <- s9

(* A program that writes and queries and need not read.                    *)

Driver == INSTANCE TerminalDriver WITH
  Chunks <- {<<"text">>, <<"query">>}, Capacity <- 1, Readers <- {}, None <- None,
  Budgets <- {[chunks |-> 3, ops |-> 1, reads |-> 0, ends |-> 1]},
  child <- s1, reader <- s2, queue <- s3, model <- s4, shared <- s5, actor <- s6,
  closer <- s7, view <- s8, log <- s9, left <- s10

(* A stop or restart of two sessions whose frontend may go away.           *)

Hand == INSTANCE LifecycleHandoff WITH
  Sessions <- 1..2, Orders <- [op : {"stop", "restart"}, approved : BOOLEAN],
  Budgets <- [hangup : {1}, break : {1}, prepare : {0}, log : {1}, start : {1}, request : {1},
              admit : {1}],
  fe <- s1, ow <- s2, down <- s3, up <- s4, cut <- s5, dm <- s6, left <- s7

(* A forced stop beside clients that are slow, attached or idle.           *)

LocalQuiet == [expire |-> 0, fatal |-> 0, slow |-> 0, stick |-> 0]
Local == INSTANCE LocalServer WITH
  Clients <- 1..3, MaxConnections <- 2,
  Kinds <- {<<"force", "attach", "idle">>, <<"force", "tunnel", "attach">>},
  Budgets <- {[LocalQuiet EXCEPT !.stick = 1, !.slow = 1]},
  client <- s1, kind <- s2, h <- s3, listen <- s4, signal <- s5,
  fatal <- s6, live <- s7, done <- s8, left <- s9

(* A signal at any moment of an invocation that creates or attaches.       *)

Shell == INSTANCE TerminalShell WITH
  Requests <- {"create", "attach"},
  Budgets <- {[write |-> 1, attr |-> 1, panic |-> 0, signal |-> 2, input |-> 1, op |-> 1]},
  request <- s1, pc <- s2, tty <- s3, guard <- s4, signal <- s5, cancel <- s6,
  selecting <- s7, wait <- s8, op <- s9, created <- s10, result <- s11,
  journal <- s12, left <- s13

-----------------------------------------------------------------------------
From8 == s8 = 0 /\ s9 = 0 /\ s10 = 0 /\ s11 = 0 /\ s12 = 0 /\ s13 = 0
From10 == s10 = 0 /\ s11 = 0 /\ s12 = 0 /\ s13 = 0

RunInit ==
  \/ part = "broker" /\ BrokerInit /\ From10 /\ s9 = 0
  \/ part = "net" /\ Net!Init /\ From8
  \/ part = "view" /\ View!Init /\ s12 = 0 /\ s13 = 0
  \/ part = "registry" /\ Registry!Init /\ From10
  \/ part = "driver" /\ Driver!Init /\ s11 = 0 /\ s12 = 0 /\ s13 = 0
  \/ part = "hand" /\ Hand!Init /\ From8
  \/ part = "local" /\ Local!Init /\ From10
  \/ part = "shell" /\ Shell!Init

Same8 == UNCHANGED <<part, s8, s9, s10, s11, s12, s13>>
Same10 == UNCHANGED <<part, s10, s11, s12, s13>>

RunNext ==
  \/ part = "broker" /\ Broker!Next /\ Same10 /\ UNCHANGED s9
  \/ part = "net" /\ Net!Next /\ Same8
  \/ part = "view" /\ View!Next /\ UNCHANGED <<part, s12, s13>>
  \/ part = "registry" /\ Registry!Next /\ Same10
  \/ part = "driver" /\ Driver!Next /\ UNCHANGED <<part, s11, s12, s13>>
  \/ part = "hand" /\ Hand!Next /\ Same8
  \/ part = "local" /\ Local!Next /\ Same10
  \/ part = "shell" /\ Shell!Next /\ UNCHANGED part

-----------------------------------------------------------------------------
(* The fairness of each component: the steps that its FairSpec schedules.  *)
(* Step i of one component and step i of another never belong to the same  *)
(* behaviour, so that fairness of FairStep(i) is fairness of each.         *)

BrokerStep(i) ==
  \E n \in 1..2 :
    \/ i = n /\ Broker!WorkerStep(n)
    \/ i = 2 + n /\ Broker!AttachEndpoint(n)
    \/ i = 4 + n /\ \E inc \in s1[n].retired : Broker!ExpireRetired(n, inc)
    \/ i = 6 + n /\ Broker!UserStep(n, <<n, "a">>)
    \/ \E k \in Broker!Keys :
         \/ i = 6 + 2 * k[1] + n /\ Broker!TaskStep(n, k)
         \/ /\ i = 10 + 2 * k[1] + n
            /\ ~Broker!Linked(Broker!Other(n), k) /\ Broker!LinkLost(n, k)

NetStep(i) == (i = 1 /\ Net!RunStep) \/ (i = 2 /\ Net!StopStep)

ViewStep(i) ==
  \/ i = 1 /\ View!WriterStep /\ UNCHANGED <<s5, s6, s7, s8, s9, s10, s11>>
  \/ i = 2 /\ View!ReaderStep /\ UNCHANGED <<s5, s6, s7, s8, s9, s10, s11>>
  \/ /\ \/ i = 3 /\ View!Reconnect
        \/ i = 4 /\ (View!ReadKept \/ View!ReadStream \/ View!NoticeLoss)
        \/ i = 5 /\ View!Deliver
        \/ i = 6 /\ (View!Command \/ View!CommandAfterEnd)
     /\ UNCHANGED <<s9, s10, s11>>
  \/ i = 7 /\ View!Frontend

RegistryStep(i) ==
  \/ i = 1 /\ s7[1].step # "idle" /\ Registry!CreationNext(1)
  \/ i = 2 /\ Registry!WorkerStopsOnRequest(1)
  \/ i = 3 /\ Registry!FinishEnd(1)
  \/ i = 4 /\ Registry!Finalize(1)

DriverStep(i) ==
  \/ i = 1 /\ (Driver!ReadPty \/ Driver!Push)
  \/ i = 2 /\ Driver!ModelThread
  \/ i = 3 /\ Driver!ActorStep
  \/ i = 4 /\ Driver!Reaper
  \/ i = 5 /\ s1.killed /\ Driver!ChildExits

HandStep(i) ==
  \/ i = 1 /\ Hand!OwnerStep
  \/ i = 2 /\ (\/ Hand!Begins \/ Hand!Continues \/ Hand!Accepts
               \/ Hand!Completes \/ Hand!LosesOwner)

LocalStep(i) ==
  \/ i = 1 /\ Local!Retires
  \/ i = 2 /\ Local!Returns
  \/ \E k \in Local!Conns :
       /\ i = 2 * k[1] + k[2]
       /\ \/ Local!WritesEnd(k) \/ Local!FirstTimesOut(k)
          \/ Local!Refuses(k) \/ Local!Accepts(k)

ShellStep(i) ==
  \/ i = 1 /\ Shell!SelectsSignal
  \/ i = 2 /\ Shell!HostCreates
  \/ i = 3 /\ Shell!OpMoves
  \/ i = 4 /\ (\/ Shell!Install \/ Shell!EnterAttributes \/ Shell!EnterUi
               \/ Shell!View \/ Shell!ColorsDone \/ Shell!Submit
               \/ Shell!WaitReady \/ Shell!Show \/ Shell!Detach \/ Shell!Leave
               \/ Shell!DropGuard \/ Shell!Close)
  \/ i = 5 /\ Shell!SessionCancelled

FairStep(i) ==
  \/ part = "broker" /\ BrokerStep(i) /\ Same10 /\ UNCHANGED s9
  \/ part = "net" /\ NetStep(i) /\ Same8
  \/ part = "view" /\ ViewStep(i) /\ UNCHANGED <<part, s12, s13>>
  \/ part = "registry" /\ RegistryStep(i) /\ Same10
  \/ part = "driver" /\ DriverStep(i) /\ UNCHANGED <<part, s11, s12, s13>>
  \/ part = "hand" /\ HandStep(i) /\ Same8
  \/ part = "local" /\ LocalStep(i) /\ Same10
  \/ part = "shell" /\ ShellStep(i) /\ UNCHANGED part

RunSpec == RunInit /\ [][RunNext]_runVars /\ \A i \in 1..16 : WF_runVars(FairStep(i))

-----------------------------------------------------------------------------
\* Something that was begun and must come to its end, and that end: a
\* consumer of ConnectionBroker gets its stream or is told why not;
\* NetworkSupervisor binds again after a failure; a TerminalView that is over
\* leaves no attachment behind; a session of SessionRegistry whose worker
\* ended is released; a stopped TerminalDriver gives its ownership back; a
\* stop that LifecycleHandoff accepted is carried out, or the request to the
\* daemon failed; the LocalServer it stops returns; a signal ends an
\* invocation of TerminalShell.
Begun ==
  \/ part = "broker" /\ Broker!UserAt(<<1, "a">>, "acquired")
  \/ part = "net" /\ s1 # "bound"
  \/ part = "view" /\ s9.result # "open"
  \/ part = "registry" /\ s8[1].worker = "stored"
  \/ part = "driver" /\ s1.stopped
  \/ /\ part = "hand" /\ s2.accepted /\ s2.op # "update" /\ s2.approved
     /\ s2.running /\ s1.pc = "done"
  \/ part = "local" /\ s5
  \/ part = "shell" /\ s5
Ended ==
  \/ part = "broker" /\ (s4[<<1, "a">>].step \in {"stream", "failed", "done"} \/ s6[2])
  \/ part = "net" /\ (s1 = "bound" \/ s3.quiescing)
  \/ part = "view" /\ ~s2.live
  \/ part = "registry" /\ 1 \notin Registry!Owned
  \/ part = "driver" /\ s5.released
  \/ part = "hand" /\ (s6.stops = 1 \/ ~s6.up \/ s2.result = "refused")
  \/ part = "local" /\ s4 = "closed"
  \/ part = "shell" /\ s2 = "done"

\* What was begun ends, whatever fails or goes away in between.
BegunEnds == Begun ~> Ended

\* Two sides come to agree and stay so: the ends of ConnectionBroker on the
\* connection they keep, the frontend of TerminalView on the host's latest
\* revision.
SidesAgree ==
  <>[](/\ part = "broker" => s1[1].primary = s1[2].primary
       /\ part = "view" => s9.result # "open" \/ s9.shown = s1.rev)
=============================================================================
