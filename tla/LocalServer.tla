----------------------------- MODULE LocalServer -----------------------------
(***************************************************************************)
(* The same-user socket of one daemon: the bounded listener and its        *)
(* connection handlers, the dispatch of a request, the stop that ends the  *)
(* listener after its reply was flushed, and the clients with their one    *)
(* byte-identical retry.                                                   *)
(*                                                                         *)
(* A connection is a client and its attempt.  Status, resolve and list     *)
(* requests are "status"; "mutate" is a session mutation or a device       *)
(* change, "pair" an acceptance of a ticket, "remote" a mutation forwarded *)
(* to another device, "tunnel" an opened session tunnel (LocalTunnel),     *)
(* "force" a stop that approved the end of the sessions.                   *)
(***************************************************************************)
EXTENDS Naturals, FiniteSets

CONSTANTS Clients,         \* clients of the socket, each makes one request
          Kinds,           \* the assignments of kinds to clients
          MaxConnections,  \* maximum_connections
          Budgets

VARIABLES client,  \* client -> step, attempt, whether bytes were written, what it was told
          kind,    \* client -> its request
          h,       \* connection -> handler step and reply
          listen,  \* "open", "retiring" or "closed"
          signal,  \* the stop channel holds a message
          fatal,   \* the listener failed
          live,    \* the sessions run
          done,    \* requests whose effect happened
          left

vars == <<client, kind, h, listen, signal, fatal, live, done, left>>

Conns == Clients \X {1, 2}
Spend(k) == left[k] > 0 /\ left' = [left EXCEPT ![k] = @ - 1]

Init ==
  /\ kind \in Kinds
  /\ client = [c \in Clients |-> [pc |-> "start", attempt |-> 1, wrote |-> FALSE, result |-> ""]]
  /\ h = [k \in Conns |-> [pc |-> "none", sent |-> FALSE, reply |-> "", stuck |-> FALSE, ran |-> FALSE]]
  /\ listen = "open" /\ signal = FALSE /\ fatal = FALSE
  /\ live = TRUE /\ done = {}
  /\ left \in Budgets

ConnOf(c) == <<c, client[c].attempt>>
KindOf(k) == kind[k[1]]
Running == {k \in Conns : h[k].pc \notin {"none", "queued", "gone"}}
Set(k, pc) == h' = [h EXCEPT ![k].pc = pc]
Answer(k, pc, reply) == h' = [h EXCEPT ![k].pc = pc, ![k].reply = reply]

\* An aborted handler: what it had not flushed is lost.
Cut(k) == IF h[k].pc \in {"none", "gone"} THEN h[k] ELSE [h[k] EXCEPT !.pc = "gone", !.reply = ""]

----------------------------------------------------------------------------
(* The client: request_preencoded, request_remote_preencoded.              *)

\* The mutations of a session or device, and both pairing requests, are sent
\* once more when the answer was lost.
Retried(c) == kind[c] \in {"mutate", "pair"}

\* What a client may conclude when no answer came.
Concludes(c) == IF kind[c] \in {"pair", "remote"} /\ client[c].wrote THEN "unknown" ELSE "error"

\* Mutant: only the last attempt's write counts.
FailedLast(c) ==
  IF Retried(c) /\ client[c].attempt = 1
  THEN client' = [client EXCEPT ![c].pc = "start", ![c].attempt = 2, ![c].wrote = FALSE]
  ELSE client' = [client EXCEPT ![c].pc = "over", ![c].result = Concludes(c)]

\* A lost answer.
Failed(c) ==
  IF Retried(c) /\ client[c].attempt = 1
  THEN client' = [client EXCEPT ![c].pc = "start", ![c].attempt = 2]
  ELSE client' = [client EXCEPT ![c].pc = "over", ![c].result = Concludes(c)]

Connects(c) ==
  /\ client[c].pc = "start" /\ listen # "closed"
  /\ client' = [client EXCEPT ![c].pc = "write"]
  /\ Set(ConnOf(c), "queued")
  /\ UNCHANGED <<kind, listen, signal, fatal, live, done, left>>

ConnectFails(c) ==
  /\ client[c].pc = "start" /\ listen = "closed"
  /\ Failed(c)
  /\ UNCHANGED <<kind, h, listen, signal, fatal, live, done, left>>

\* The whole request and the end of the write side.
Sends(c) ==
  /\ client[c].pc = "write" /\ kind[c] # "idle"
  /\ client' = [client EXCEPT ![c].pc = "read", ![c].wrote = TRUE]
  /\ h' = [h EXCEPT ![ConnOf(c)].sent = TRUE]
  /\ UNCHANGED <<kind, listen, signal, fatal, live, done, left>>

\* The complete reply is definitive, whatever it says.
Reads(c) ==
  /\ client[c].pc = "read" /\ h[ConnOf(c)].pc = "gone" /\ h[ConnOf(c)].reply # "" /\ ~h[ConnOf(c)].stuck
  /\ client' = [client EXCEPT ![c].pc = "over", ![c].result = h[ConnOf(c)].reply]
  /\ UNCHANGED <<kind, h, listen, signal, fatal, live, done, left>>

\* The stream ended without a reply; for an attached terminal that is a cut.
Loses(c) ==
  /\ client[c].pc \in {"write", "read"} /\ h[ConnOf(c)].pc = "gone" /\ h[ConnOf(c)].reply = ""
  /\ Failed(c)
  /\ UNCHANGED <<kind, h, listen, signal, fatal, live, done, left>>

\* The absolute deadline leaves nothing for a second attempt.
Expires(c) ==
  /\ client[c].pc = "read" /\ kind[c] # "attach" /\ Spend("expire")
  /\ client' = [client EXCEPT ![c].pc = "over", ![c].result = Concludes(c)]
  /\ UNCHANGED <<kind, h, listen, signal, fatal, live, done>>

----------------------------------------------------------------------------
(* serve_local_inner.                                                      *)

\* A connection past the bound is dropped unread.
Accepts(k) ==
  /\ listen = "open" /\ ~signal /\ h[k].pc = "queued"
  /\ Set(k, IF Cardinality(Running) < MaxConnections THEN "first" ELSE "gone")
  /\ UNCHANGED <<client, kind, listen, signal, fatal, live, done, left>>

\* A fatal accept error leaves the sessions alive; nothing is awaited.
ListenerFails ==
  /\ listen = "open" /\ Spend("fatal")
  /\ fatal' = TRUE /\ listen' = "closed"
  /\ h' = [k \in Conns |-> Cut(k)]
  /\ UNCHANGED <<client, kind, signal, live, done>>

\* Mutant: every handler is aborted at once.
RetiresAll ==
  /\ listen = "open" /\ signal
  /\ listen' = "retiring"
  /\ h' = [k \in Conns |-> Cut(k)]
  /\ UNCHANGED <<client, kind, signal, fatal, live, done, left>>

\* The stop was flushed: everything but the local attachments is aborted.
Retires ==
  /\ listen = "open" /\ signal
  /\ listen' = "retiring"
  /\ h' = [k \in Conns |-> IF h[k].pc \in {"attach", "ending", "refuse"} THEN h[k] ELSE Cut(k)]
  /\ UNCHANGED <<client, kind, signal, fatal, live, done, left>>

\* Mutant: there is no bound on the delivery.
ReturnsJoined ==
  /\ listen = "retiring" /\ Running = {}
  /\ listen' = "closed"
  /\ UNCHANGED <<client, kind, h, signal, fatal, live, done, left>>

\* Every handler joined, or ATTACHMENT_END_DELIVERY elapsed: it is long enough for
\* all but a client that stopped reading.
Returns ==
  /\ listen = "retiring"
  /\ \A k \in Running : h[k].stuck
  /\ listen' = "closed"
  /\ h' = [k \in Conns |-> Cut(k)]
  /\ UNCHANGED <<client, kind, signal, fatal, live, done, left>>

----------------------------------------------------------------------------
(* handle_connection.                                                      *)

\* The first frame decides what the connection is.
ReadsFirst(k) ==
  /\ h[k].pc = "first" /\ h[k].sent
  /\ Set(k, CASE KindOf(k) = "attach" -> IF live THEN "attach" ELSE "refuse"
              [] KindOf(k) = "tunnel" -> "tunnel"
              [] OTHER -> "dispatch")
  /\ UNCHANGED <<client, kind, listen, signal, fatal, live, done, left>>

\* No first frame within initial_read_timeout.
FirstTimesOut(k) ==
  /\ h[k].pc = "first" /\ ~h[k].sent
  /\ Answer(k, "gone", "error")
  /\ UNCHANGED <<client, kind, listen, signal, fatal, live, done, left>>

Refuses(k) ==
  /\ h[k].pc = "refuse"
  /\ Answer(k, "gone", "error")
  /\ UNCHANGED <<client, kind, listen, signal, fatal, live, done, left>>

\* DaemonService::dispatch_inner, and the session and device requests that are
\* local: an answer, and its effect.
Dispatches(k) ==
  /\ h[k].pc = "dispatch" /\ KindOf(k) \in {"status", "mutate"}
  /\ Answer(k, "write", "ok")
  /\ done' = IF KindOf(k) = "status" THEN done ELSE done \cup {k[1]}
  /\ UNCHANGED <<client, kind, listen, signal, fatal, live, left>>

\* The outcomes of an operation that also runs on another device: performed,
\* refused, or not known to this daemon.
Outcomes == {[says |-> "ok", done |-> TRUE], [says |-> "error", done |-> FALSE],
             [says |-> "unknown", done |-> TRUE], [says |-> "unknown", done |-> FALSE]}

\* A repeated acceptance joins the operation it repeats, and has its outcome.
Pairs(k) ==
  /\ h[k].pc = "dispatch" /\ KindOf(k) = "pair"
  /\ \E o \in Outcomes :
       /\ k[1] \in done => o.done
       /\ k[2] = 2 /\ h[<<k[1], 1>>].ran => o.done = (k[1] \in done)
       /\ h' = [h EXCEPT ![k].pc = "write", ![k].reply = o.says, ![k].ran = TRUE]
       /\ done' = IF o.done THEN done \cup {k[1]} ELSE done
  /\ UNCHANGED <<client, kind, listen, signal, fatal, live, left>>

\* A forwarded mutation: the remote unary client classifies its own attempts.
Forwards(k) ==
  /\ h[k].pc = "dispatch" /\ KindOf(k) = "remote"
  /\ \E o \in Outcomes :
       /\ Answer(k, "write", o.says)
       /\ done' = IF o.done THEN done \cup {k[1]} ELSE done
  /\ UNCHANGED <<client, kind, listen, signal, fatal, live, left>>

\* A worker that outlives the deadline: the reply is an error, the effect of a
\* local mutation still happens.  A pairing and a forwarded mutation wait with a
\* deadline of their own, no later than this one and polled before it, so that
\* their answer is one of Outcomes.
DispatchExpires(k) ==
  /\ h[k].pc = "dispatch" /\ KindOf(k) \in {"mutate", "status"} /\ Spend("slow")
  /\ Answer(k, "write", "error")
  /\ done' = IF KindOf(k) = "status" THEN done ELSE done \cup {k[1]}
  /\ UNCHANGED <<client, kind, listen, signal, fatal, live>>

\* LocalStopRequest: the sessions end first, and their attachments with them.
Stops(k) ==
  /\ h[k].pc = "dispatch" /\ KindOf(k) \in {"stop", "force"}
  /\ IF live /\ KindOf(k) = "stop"
     THEN Answer(k, "write", "confirm") /\ UNCHANGED live
     ELSE /\ live' = FALSE
          /\ h' = [i \in Conns |-> IF i = k THEN [h[i] EXCEPT !.pc = "write", !.reply = "stopping"]
                                   ELSE IF h[i].pc = "attach" THEN [h[i] EXCEPT !.pc = "ending"]
                                   ELSE h[i]]
  /\ UNCHANGED <<client, kind, listen, signal, fatal, done, left>>

\* A stop whose cleanup exceeded its deadline leaves the listener running; the
\* sessions may end all the same, as the worker goes on.
StopExpires(k) ==
  /\ h[k].pc = "dispatch" /\ KindOf(k) \in {"stop", "force"} /\ live /\ Spend("slow")
  /\ \E ends \in IF KindOf(k) = "force" THEN BOOLEAN ELSE {FALSE} :
       /\ live' = ~ends
       /\ h' = [i \in Conns |-> IF i = k THEN [h[i] EXCEPT !.pc = "write", !.reply = "error"]
                                ELSE IF ends /\ h[i].pc = "attach" THEN [h[i] EXCEPT !.pc = "ending"]
                                ELSE h[i]]
  /\ UNCHANGED <<client, kind, listen, signal, fatal, done>>

\* write_all and shutdown of the reply; only then may a stop be signalled.
Flushes(k) ==
  /\ h[k].pc = "write" /\ client[k[1]].pc # "over"
  /\ Set(k, "gone")
  /\ signal' = (signal \/ h[k].reply = "stopping")
  /\ UNCHANGED <<client, kind, listen, fatal, live, done, left>>

\* The client is no longer there to take it.
FlushFails(k) ==
  /\ h[k].pc = "write" /\ client[k[1]].pc = "over"
  /\ Answer(k, "gone", "")
  /\ UNCHANGED <<client, kind, listen, signal, fatal, live, done, left>>

\* The attachment writes SessionEnded.
WritesEnd(k) ==
  /\ h[k].pc = "ending" /\ ~h[k].stuck
  /\ Answer(k, "gone", "ended")
  /\ UNCHANGED <<client, kind, listen, signal, fatal, live, done, left>>

\* A terminal that stops reading.
Sticks(k) ==
  /\ h[k].pc \in {"attach", "ending"} /\ ~h[k].stuck /\ Spend("stick")
  /\ h' = [h EXCEPT ![k].stuck = TRUE]
  /\ UNCHANGED <<client, kind, listen, signal, fatal, live, done>>

----------------------------------------------------------------------------

Next ==
  \/ \E c \in Clients : Connects(c) \/ ConnectFails(c) \/ Sends(c) \/ Reads(c) \/ Loses(c) \/ Expires(c)
  \/ \E k \in Conns : \/ Accepts(k) \/ ReadsFirst(k) \/ FirstTimesOut(k) \/ Refuses(k)
                      \/ Dispatches(k) \/ Pairs(k) \/ Forwards(k) \/ DispatchExpires(k) \/ Stops(k) \/ StopExpires(k)
                      \/ Flushes(k) \/ FlushFails(k) \/ WritesEnd(k) \/ Sticks(k)
  \/ ListenerFails \/ Retires \/ Returns

\* The listener's loop and its deadlines make progress whatever the clients do;
\* so does a handler that has something to write to a client that reads.
Fairness ==
  /\ WF_vars(Retires) /\ WF_vars(Returns)
  /\ \A k \in Conns : /\ WF_vars(WritesEnd(k)) /\ WF_vars(FirstTimesOut(k)) /\ WF_vars(Refuses(k))
                      /\ WF_vars(Accepts(k))

Spec == Init /\ [][Next]_vars
FairSpec == Spec /\ Fairness

----------------------------------------------------------------------------

\* A local terminal that reads is told why it closed: when a stop ends its session,
\* the attachment writes SessionEnded before its handler is gone.
AttachedIsTold ==
  [][\A k \in Conns : h[k].pc \in {"attach", "ending"} /\ h'[k].pc = "gone" =>
       h'[k].reply = "ended" \/ h[k].stuck \/ fatal']_vars

\* A client told of a plain failure of a pairing or a remote mutation may rely on
\* it: the daemon did not perform it, and holds no connection that still could.
FailureIsReal ==
  \A c \in Clients : kind[c] \in {"pair", "remote"} /\ client[c].result = "error" =>
    /\ c \notin done
    /\ \A a \in {1, 2} : h[<<c, a>>].sent => h[<<c, a>>].pc = "gone"

\* A stop whose reply was flushed ends the listener, whatever the other clients of
\* the socket are doing or not doing.
StopReturns == signal ~> listen = "closed"
=============================================================================
