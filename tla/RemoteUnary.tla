----------------------------- MODULE RemoteUnary -----------------------------
(***************************************************************************)
(* A mutation sent to one remote host: the operation lease and sequence of *)
(* the client, the two exact-byte attempts of the remote unary client, the *)
(* cached connection of the controller with its stream permits, silent     *)
(* paths and replacement dials, and a host that answers each operation     *)
(* once (its registry, ReplayRegistry, by what a client sees of it).       *)
(*                                                                         *)
(* A connection and a call are numbers.  A request in flight names its     *)
(* operation and the stream it was written to; it may be delivered late,   *)
(* after its connection failed, or never.                                  *)
(***************************************************************************)
EXTENDS Naturals, FiniteSets

CONSTANTS Calls,        \* requests to one target
          Lists,        \* the ones that are Safe (list), the others are mutations
          MaxConns,     \* connections ever dialled
          MaxStreams,   \* max_bi_streams_per_connection
          Budgets

VARIABLES call,   \* call -> step, attempt, connection, operation, result
          mut,    \* LocalMutationState and its mutex
          conn,   \* connection -> "none", "dialing", "open" or "closed"
          mute,   \* connections whose path acknowledges nothing
          peer,   \* the cached slot, its async mutex, the replacement, cancelled
          net,    \* requests in flight
          host,   \* the remote daemon: epoch, answers it keeps, executions
          left

vars == <<call, mut, conn, mute, peer, net, host, left>>

Conns == 1..MaxConns
NoOp  == [epoch |-> 0, lease |-> 0, seq |-> 0]
Spend(kind) == left[kind] > 0 /\ left' = [left EXCEPT ![kind] = @ - 1]

Init ==
  /\ call = [c \in Calls |-> [pc |-> "start", attempt |-> 0, conn |-> 0, repl |-> 0, op |-> NoOp, result |-> ""]]
  /\ mut = [owner |-> 0, lease |-> 0, epoch |-> 0, next |-> 1, issued |-> 0]
  /\ conn = [n \in Conns |-> "none"]
  /\ mute = {}
  /\ peer = [slot |-> 0, owner |-> 0, repl |-> 0, cancelled |-> FALSE, removed |-> FALSE]
  /\ net = {}
  /\ host = [epoch |-> 1, kept |-> {}, done |-> {}, answered |-> {}]
  /\ left \in Budgets

At(c, pc) == call[c].pc = pc
Goto(c, pc) == call' = [call EXCEPT ![c].pc = pc]

\* The next unused connection; the bound of the model.
Fresh == CHOOSE n \in Conns : conn[n] = "none" /\ \A m \in Conns : conn[m] = "none" => n <= m
CanDial == \E n \in Conns : conn[n] = "none"

\* Dropping a ReplacementTransport aborts its dial or closes what it dialled.
Dropped(n) == IF n = 0 THEN conn ELSE [conn EXCEPT ![n] = "closed"]

----------------------------------------------------------------------------
(* SessionUnaryClient::mutation_request.                                   *)

\* A list request holds nothing of the mutation state.
Asks(c) ==
  /\ At(c, "start") /\ c \in Lists /\ Spend("list")
  /\ call' = [call EXCEPT ![c].pc = "prepare", ![c].attempt = 1]
  /\ UNCHANGED <<mut, conn, mute, peer, net, host>>

\* Mutant: the sequence is consumed only by an answered mutation.
BeginsPeeking(c) ==
  /\ At(c, "start") /\ c \notin Lists /\ mut.owner = 0 /\ mut.lease # 0
  /\ mut' = [mut EXCEPT !.owner = c]
  /\ call' = [call EXCEPT ![c].pc = "prepare", ![c].attempt = 1,
                          ![c].op = [epoch |-> mut.epoch, lease |-> mut.lease, seq |-> mut.next]]
  /\ UNCHANGED <<conn, mute, peer, net, host, left>>

\* The target's mutex serialises its mutations; the sequence is consumed before
\* anything is sent.
Begins(c) ==
  /\ At(c, "start") /\ c \notin Lists /\ mut.owner = 0 /\ mut.lease # 0
  /\ mut' = [mut EXCEPT !.owner = c, !.next = @ + 1]
  /\ call' = [call EXCEPT ![c].pc = "prepare", ![c].attempt = 1,
                          ![c].op = [epoch |-> mut.epoch, lease |-> mut.lease, seq |-> mut.next]]
  /\ UNCHANGED <<conn, mute, peer, net, host, left>>

\* issue_operation_lease: a stateful request, never retried; an error ends the
\* mutation before it exists.
IssuesLease(c) ==
  /\ At(c, "start") /\ c \notin Lists /\ mut.owner = 0 /\ mut.lease = 0
  /\ \/ /\ mut' = [mut EXCEPT !.lease = mut.issued + 1, !.epoch = host.epoch, !.next = 1, !.issued = @ + 1]
        /\ UNCHANGED <<call, left>>
     \/ /\ Spend("lease")
        /\ call' = [call EXCEPT ![c].pc = "done", ![c].result = "error"]
        /\ UNCHANGED mut
  /\ UNCHANGED <<conn, mute, peer, net, host>>

\* The call returns; an unknown outcome retires the lease.
Ends(c, result) ==
  /\ call' = [call EXCEPT ![c].pc = "done", ![c].result = result]
  /\ mut' = IF mut.owner # c THEN mut
            ELSE [mut EXCEPT !.owner = 0, !.lease = IF result = "unknown" THEN 0 ELSE @]

\* The caller drops the future at any await: what it holds is released.
Cancels(c) ==
  /\ call[c].pc \notin {"start", "done"} /\ Spend("cancel")
  /\ call' = [call EXCEPT ![c].pc = "done", ![c].result = "dropped"]
  /\ mut' = [mut EXCEPT !.owner = IF @ = c THEN 0 ELSE @]
  /\ peer' = [peer EXCEPT !.owner = IF @ = c THEN 0 ELSE @]
  /\ conn' = Dropped(call[c].repl)
  /\ UNCHANGED <<mute, net, host>>

----------------------------------------------------------------------------
(* RemoteUnaryClient::execute_validated_with_progress.                     *)

\* RequestContract::inspect: a list may be repeated, a mutation only as itself.
Class(c) == IF c \in Lists THEN "Safe" ELSE "Mutation"

\* Mutant: a second attempt that wrote nothing reports its own error.
FailsDefinite(c, written) ==
  CASE ~written -> Ends(c, "error")
    [] written /\ call[c].attempt = 1 -> /\ call' = [call EXCEPT ![c].pc = "open", ![c].attempt = 2, ![c].repl = 0]
                                         /\ UNCHANGED mut
    [] OTHER -> Ends(c, IF Class(c) = "Safe" THEN "error" ELSE "unknown")

\* The outcome of an attempt that failed before any byte, or after.
Fails(c, written) ==
  CASE ~written /\ call[c].attempt = 1 -> Ends(c, "error")
    [] written /\ call[c].attempt = 1 -> /\ call' = [call EXCEPT ![c].pc = "open", ![c].attempt = 2, ![c].repl = 0]
                                         /\ UNCHANGED mut
    [] OTHER -> Ends(c, IF Class(c) = "Safe" THEN "error" ELSE "unknown")

----------------------------------------------------------------------------
(* IrohController::normal, admitted_stream.                                *)

Streams == {c \in Calls : call[c].pc \in {"write", "read"}}

\* The slot's mutex: a live cached connection is shared, a dead one is dropped
\* and dialled again with the lock held.
TakesSlot(c) ==
  /\ call[c].pc \in {"prepare", "open"} /\ peer.owner = 0 /\ ~peer.cancelled
  /\ IF peer.slot # 0 /\ conn[peer.slot] = "open"
     THEN /\ call' = [call EXCEPT ![c].pc = IF At(c, "prepare") THEN "open" ELSE "permit", ![c].conn = peer.slot]
          /\ UNCHANGED peer
     ELSE /\ call' = [call EXCEPT ![c].pc = IF At(c, "prepare") THEN "dial_p" ELSE "dial_o", ![c].repl = peer.repl]
          /\ peer' = [peer EXCEPT !.owner = c, !.slot = 0, !.repl = 0]
  /\ UNCHANGED <<mut, conn, mute, net, host, left>>

\* ReplacementTransport::race, then the handshake: the first of the replacement
\* and a fresh dial is kept, the other closed.
Dials(c) ==
  /\ call[c].pc \in {"dial_p", "dial_o"} /\ ~peer.cancelled
  /\ LET kept(n) == /\ peer' = [peer EXCEPT !.slot = n, !.owner = 0]
                    /\ call' = [call EXCEPT ![c].pc = IF At(c, "dial_p") THEN "open" ELSE "permit",
                                            ![c].conn = n, ![c].repl = 0]
     IN \/ /\ call[c].repl # 0 /\ conn[call[c].repl] = "open"
           /\ kept(call[c].repl) /\ UNCHANGED conn
        \/ /\ CanDial
           /\ kept(Fresh) /\ conn' = [Dropped(call[c].repl) EXCEPT ![Fresh] = "open"]
  /\ UNCHANGED <<mut, mute, net, host, left>>

\* No route, no handshake before the deadline, or the host was forgotten: no
\* byte of this attempt was written.
Unreachable(c) ==
  /\ call[c].pc \in {"prepare", "open", "dial_p", "dial_o", "permit", "admit"}
  /\ IF peer.cancelled THEN UNCHANGED left ELSE Spend("dial")
  /\ peer' = [peer EXCEPT !.owner = IF @ = c THEN 0 ELSE @]
  /\ conn' = Dropped(call[c].repl)
  /\ Fails(c, FALSE)
  /\ UNCHANGED <<mute, net, host>>

\* A permit of the peer's stream semaphore; the connection may have been retired
\* while the opener waited for it.
Admits(c) ==
  /\ At(c, "permit") /\ Cardinality(Streams) < MaxStreams /\ ~peer.cancelled
  /\ Goto(c, IF conn[call[c].conn] = "open" THEN "write" ELSE "open")
  /\ UNCHANGED <<mut, conn, mute, peer, net, host, left>>

----------------------------------------------------------------------------
(* IrohDemand::exchange.                                                   *)

\* The request on the stream the attempt opened.
Request(c) == [call |-> c, attempt |-> call[c].attempt, conn |-> call[c].conn, op |-> call[c].op]

Writes(c) ==
  /\ At(c, "write")
  /\ net' = IF conn[call[c].conn] = "open" THEN net \cup {Request(c)} ELSE net
  /\ Goto(c, "read")
  /\ UNCHANGED <<mut, conn, mute, peer, host, left>>

\* The response of this operation on this connection's stream.
Reads(c) ==
  /\ At(c, "read")
  /\ \E a \in host.answered :
       /\ a.request = Request(c)
       /\ conn[call[c].conn] = "open" /\ call[c].conn \notin mute
       /\ Ends(c, a.says)
  /\ conn' = Dropped(call[c].repl)
  /\ UNCHANGED <<mute, peer, net, host, left>>

\* validate_response: a response of another request, kind or shape is a failure
\* after the write, though not of the transport.
Garbled(c) ==
  /\ At(c, "read") /\ Spend("garble")
  /\ \E a \in host.answered : a.request = Request(c) /\ conn[call[c].conn] = "open" /\ call[c].conn \notin mute
  /\ Fails(c, TRUE)
  /\ conn' = Dropped(call[c].repl)
  /\ UNCHANGED <<mute, peer, net, host>>

\* read_acknowledged_response at suspect_at: nothing was acknowledged, a
\* replacement is dialled beside the waiting read.
Suspects(c) ==
  /\ At(c, "read") /\ call[c].attempt = 1 /\ call[c].repl = 0 /\ call[c].conn \in mute /\ CanDial
  /\ conn' = [conn EXCEPT ![Fresh] = "dialing"]
  /\ call' = [call EXCEPT ![c].repl = Fresh]
  /\ UNCHANGED <<mut, mute, peer, net, host, left>>

DialEnds(n, state) ==
  /\ conn[n] = "dialing"
  /\ conn' = [conn EXCEPT ![n] = state]
  /\ UNCHANGED <<call, mut, mute, peer, net, host, left>>

\* Mutant: other streams of the connection are not considered.
RetiresBusy(c, silent) ==
  /\ peer.owner = 0
  /\ peer.slot = call[c].conn

\* retire_failed_connection: every permit must be free, or the path be silent;
\* the slot must still hold the connection that failed.
Retires(c, silent) ==
  /\ Streams = {c} \/ silent
  /\ peer.owner = 0
  /\ peer.slot = call[c].conn

\* The request failed after its bytes were written: the connection closed, the
\* path stayed silent past decide_at, or the deadline elapsed.
Breaks(c) ==
  /\ At(c, "read")
  /\ LET silent == call[c].attempt = 1 /\ call[c].conn \in mute
     IN /\ IF conn[call[c].conn] = "closed" \/ silent THEN UNCHANGED left ELSE Spend("late")
        /\ IF Retires(c, silent) /\ peer.slot # 0
           THEN /\ peer' = [peer EXCEPT !.slot = 0, !.repl = call[c].repl]
                /\ conn' = [Dropped(peer.repl) EXCEPT ![peer.slot] = "closed"]
           ELSE conn' = Dropped(call[c].repl) /\ UNCHANGED peer
  /\ Fails(c, TRUE)
  /\ UNCHANGED <<mute, net, host>>

----------------------------------------------------------------------------
(* forget_host.                                                            *)

Forgets ==
  /\ ~peer.cancelled /\ Spend("forget")
  /\ peer' = [peer EXCEPT !.cancelled = TRUE]
  /\ UNCHANGED <<call, mut, conn, mute, net, host>>

ForgetCloses ==
  /\ peer.cancelled /\ ~peer.removed /\ peer.owner = 0
  /\ conn' = Dropped(peer.slot)
  /\ peer' = [peer EXCEPT !.slot = 0, !.removed = TRUE]
  /\ UNCHANGED <<call, mut, mute, net, host, left>>

----------------------------------------------------------------------------
(* The network and the host.                                               *)

ConnDies(n) ==
  /\ conn[n] = "open" /\ Spend("die")
  /\ conn' = [conn EXCEPT ![n] = "closed"]
  /\ UNCHANGED <<call, mut, mute, peer, net, host>>

GoesMute(n) ==
  /\ conn[n] = "open" /\ n \notin mute /\ Spend("mute")
  /\ mute' = mute \cup {n}
  /\ UNCHANGED <<call, mut, conn, peer, net, host>>

\* A path that was only slow is heard again.
IsHeard(n) ==
  /\ n \in mute /\ Spend("heard")
  /\ mute' = mute \ {n}
  /\ UNCHANGED <<call, mut, conn, peer, net, host>>

\* SessionService::execute_replayed in this daemon incarnation: an operation of its
\* own epoch runs once and its result is kept.  An error is no proof that nothing
\* ran: close_inner ends the session before it waits for it.  An operation of an
\* older incarnation has an unknown outcome.
Says(r) ==
  LET kept == {k \in host.kept : k.op = r.op}
  IN CASE r.call \in Lists -> {[op |-> r.op, says |-> "ok", ran |-> FALSE]}
       [] r.op.epoch # host.epoch -> {[op |-> r.op, says |-> "unknown", ran |-> FALSE]}
       [] kept # {} -> kept
       [] OTHER -> {[op |-> r.op, says |-> says, ran |-> ran] :
                      <<says, ran>> \in {<<"ok", TRUE>>, <<"refused", TRUE>>, <<"refused", FALSE>>}}

\* A stream that its call still reads.
Awaited(r) == At(r.call, "read") /\ Request(r.call) = r

\* handle_remote_unary: the answer is the result of the operation, or the error of
\* the request's deadline, which leaves the operation running.  What a list
\* answers is not told apart.
Delivers(r) ==
  /\ r \in net
  /\ net' = net \ {r}
  /\ \E k \in Says(r) : \E says \in {k.says} \cup (IF r.call \in Lists THEN {} ELSE {"refused"}) :
       host' = [host EXCEPT !.kept = IF r.call \in Lists \/ k.says = "unknown" THEN @ ELSE @ \cup {k},
                            !.done = IF k.ran THEN @ \cup {r.op} ELSE @,
                            !.answered = IF Awaited(r) THEN @ \cup {[request |-> r, says |-> says]} ELSE @]
  /\ UNCHANGED <<call, mut, conn, mute, peer, left>>

HostRestarts ==
  /\ Spend("restart")
  /\ host' = [host EXCEPT !.epoch = @ + 1, !.kept = {}]
  /\ conn' = [n \in Conns |-> IF conn[n] = "open" THEN "closed" ELSE conn[n]]
  /\ net' = {}
  /\ UNCHANGED <<call, mut, mute, peer>>

----------------------------------------------------------------------------

Next ==
  \/ \E c \in Calls : \/ Asks(c) \/ Begins(c) \/ IssuesLease(c) \/ Cancels(c) \/ TakesSlot(c) \/ Dials(c) \/ Unreachable(c)
                      \/ Admits(c) \/ Writes(c) \/ Reads(c) \/ Garbled(c) \/ Suspects(c) \/ Breaks(c)
  \/ \E n \in Conns : \/ ConnDies(n) \/ GoesMute(n) \/ IsHeard(n) \/ (\E s \in {"open", "closed"} : DialEnds(n, s))
  \/ \E r \in net : Delivers(r)
  \/ Forgets \/ ForgetCloses \/ HostRestarts

Spec == Init /\ [][Next]_vars

----------------------------------------------------------------------------

\* What a caller is told of its mutation is true for good: success means that the
\* host ran this very mutation, an error of this side that it never did and never
\* will.  The host's own error tells neither, and an unknown outcome leaves both.
ToldTruth ==
  \A c \in Calls \ Lists :
    /\ call[c].result = "ok" => call[c].op \in host.done
    /\ call[c].result = "error" /\ call[c].op # NoOp =>
         call[c].op \notin host.done /\ \A r \in net : r.op # call[c].op

\* Two mutations never share an operation: a retry is the same operation, a new
\* call, after a cancelled or unknown one too, is not.
OwnOperation ==
  \A c, e \in Calls \ Lists : c # e /\ call[c].op # NoOp => call[c].op # call[e].op

\* The failure of one request closes no connection that serves another stream
\* and still acknowledges, and never one that replaced the failed connection.
SparesOthers ==
  [][\A c \in Calls :
       (At(c, "read") /\ call'[c].pc # "read" /\ host' = host) =>
         \A n \in Conns : conn[n] = "open" /\ conn'[n] = "closed" =>
           \/ n = call[c].repl
           \/ n = peer.repl
           \/ n = call[c].conn /\ (n \in mute \/ \A e \in Streams \ {c} : call[e].conn # n)]_vars
=============================================================================
