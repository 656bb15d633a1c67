----------------------------- MODULE LocalTunnel -----------------------------
(***************************************************************************)
(* One session tunnel: a frontend of this machine, the daemon's opaque     *)
(* pump, and the stream of the remote host.  The pump copies bytes both    *)
(* ways in envelopes, reports the path, passes half closes and ends with a *)
(* reason; the frontend decodes the envelopes and, inside them, session    *)
(* frames that may be split over two of them.                              *)
(*                                                                         *)
(* Bytes are numbered chunks.  A session frame is an odd chunk and the     *)
(* even one after it, so a loss after an odd chunk splits a frame.         *)
(***************************************************************************)
EXTENDS Naturals, Sequences

CONSTANTS MaxUp,     \* chunks the frontend sends
          MaxDown,   \* chunks the host sends
          Room,      \* envelopes or chunks a socket or stream buffers
          Budgets

VARIABLES f,      \* the frontend: step, half closed seen, chunks sent and received, how it ended
          p,      \* the pump: step, half close, read end, what it is writing, traffic seen
          r,      \* the remote end: chunks sent and received, its end, ended inside a frame
          up,     \* envelopes from the frontend to the pump
          down,   \* envelopes from the pump to the frontend
          rup,    \* chunks from the pump to the host
          rdown,  \* chunks from the host to the pump
          retired, \* the stream's candidate was retired
          left

vars == <<f, p, r, up, down, rup, rdown, retired, left>>

Spend(k) == left[k] > 0 /\ left' = [left EXCEPT ![k] = @ - 1]
Fin == 0    \* the end of a stream among its chunks

Init ==
  /\ f = [pc |-> "closed", halved |-> FALSE, sent |-> 0, got |-> 0, end |-> ""]
  /\ p = [pc |-> "admit", half |-> FALSE, closed |-> FALSE, sent |-> FALSE, received |-> FALSE, item |-> [kind |-> "none"]]
  /\ r = [sent |-> 0, got |-> 0, fin |-> FALSE, lost |-> FALSE, done |-> FALSE, cut |-> FALSE]
  /\ up = <<>> /\ down = <<>> /\ rup = <<>> /\ rdown = <<>>
  /\ retired = FALSE
  /\ left \in Budgets

Data(n) == [kind |-> "Data", n |-> n]
HalfClose == [kind |-> "HalfClose"]
Path == [kind |-> "Path"]
Closed(reason) == [kind |-> "Closed", reason |-> reason]

\* The frontend's socket: writes to it fail once it is gone.
FrontendGone == f.pc = "gone"

----------------------------------------------------------------------------
(* UnixAttachmentTransport: the frontend's end.                            *)

FOver(end) == f' = [f EXCEPT !.pc = "over", !.end = end]

\* UnixAttachmentTransport::open of a remote target.
FOpens ==
  /\ f.pc \in {"closed", "restarted"}
  /\ f' = [f EXCEPT !.pc = "opening"]
  /\ up' = <<[kind |-> "Open"]>>
  /\ UNCHANGED <<p, r, down, rup, rdown, retired, left>>

\* UnixAttachmentConnector::open: nothing listens.  The restarter runs once; a
\* second failure is reported.
FFindsStopped ==
  /\ f.pc \in {"closed", "restarted"} /\ Spend("stopped")
  /\ IF f.pc = "closed" THEN f' = [f EXCEPT !.pc = "restarted"] ELSE FOver("stopped")
  /\ UNCHANGED <<p, r, up, down, rup, rdown, retired>>

\* write_tunnel_bytes.
FSends ==
  /\ f.pc = "run" /\ p.pc # "over" /\ f.sent < MaxUp /\ Len(up) < Room
  /\ f' = [f EXCEPT !.sent = @ + 1]
  /\ up' = Append(up, Data(f.sent + 1))
  /\ UNCHANGED <<p, r, down, rup, rdown, retired, left>>

\* A write finds the socket closed before the reader saw its end.
FSendFails ==
  /\ f.pc = "run" /\ p.pc = "over" /\ f.sent < MaxUp
  /\ FOver("lost")
  /\ UNCHANGED <<p, r, up, down, rup, rdown, retired, left>>

\* shutdown_inner: HalfClose, then the end of the write side; reading goes on.
FHalfCloses ==
  /\ f.pc = "run" /\ Len(up) < Room /\ Spend("detach")
  /\ f' = [f EXCEPT !.pc = "half"]
  /\ up' = up \o <<HalfClose, [kind |-> "Eof"]>>
  /\ UNCHANGED <<p, r, down, rup, rdown, retired>>

\* The frontend disappears with its socket.
FVanishes ==
  /\ f.pc \in {"opening", "run", "half"} /\ Spend("vanish")
  /\ f' = [f EXCEPT !.pc = "gone"]
  /\ up' = Append(up, [kind |-> "Eof"])
  /\ UNCHANGED <<p, r, down, rup, rdown, retired>>

\* TunnelDecoder::read_item.  Data completes a frame or waits for its other half;
\* a clean end may leave no half frame, a loss forgets one.
FReads ==
  /\ f.pc \in {"opening", "run", "half"} /\ down # <<>>
  /\ LET e == Head(down)
     IN CASE e.kind = "Refused" -> FOver("refused")
          [] e.kind = "Opened" -> f' = [f EXCEPT !.pc = "run"]
          [] e.kind = "Path" -> UNCHANGED f
          [] e.kind = "Data" ->
               IF f.halved \/ e.n # f.got + 1 THEN FOver("malformed") ELSE f' = [f EXCEPT !.got = @ + 1]
          [] e.kind = "HalfClose" -> IF f.halved THEN FOver("malformed") ELSE f' = [f EXCEPT !.halved = TRUE]
          [] e.kind = "Closed" -> FOver(
               IF e.reason = "RemoteEof" THEN IF f.halved /\ f.got % 2 = 0 THEN "eof" ELSE "malformed"
               ELSE "lost")
          [] e.kind = "Torn" -> FOver("lost")
  /\ down' = Tail(down)
  /\ UNCHANGED <<p, r, up, rup, rdown, retired, left>>

\* The socket ends without a Closed: a lost epoch, never a framing error.
FReadsEnd ==
  /\ f.pc \in {"opening", "run", "half"} /\ down = <<>> /\ p.pc = "over"
  /\ FOver("lost")
  /\ UNCHANGED <<p, r, up, down, rup, rdown, retired, left>>

----------------------------------------------------------------------------
(* serve_remote_session_tunnel, pump_tunnel.                               *)

\* The pump returns: a request that was never answered retires its candidate.
POver == p' = [p EXCEPT !.pc = "over", !.item = [kind |-> "none"]] /\ retired' = (p.sent /\ ~p.received)

\* A write to the frontend's socket of whole envelopes, best effort or not.
ToLocal(items) == IF FrontendGone THEN UNCHANGED down ELSE down' = down \o items

\* RemoteSessionService::serve_tunnel: a target that is not an authorized host of
\* this device, or a daemon without a network.
PRefuses ==
  /\ p.pc = "admit" /\ up # <<>> /\ Head(up).kind = "Open" /\ Spend("refuse")
  /\ POver /\ ToLocal(<<[kind |-> "Refused"]>>)
  /\ UNCHANGED <<f, r, up, rup, rdown>>

\* The demand and the stream, then Opened and the first path.
PAdmits ==
  /\ p.pc = "admit" /\ up # <<>> /\ Head(up).kind = "Open"
  /\ up' = Tail(up)
  /\ \/ /\ ~r.lost
        /\ IF FrontendGone THEN POver ELSE p' = [p EXCEPT !.pc = "loop"] /\ UNCHANGED retired
        /\ ToLocal(<<[kind |-> "Opened"], Path>>)
     \/ /\ r.lost
        /\ POver /\ ToLocal(<<[kind |-> "Refused"]>>)
  /\ UNCHANGED <<f, r, rup, rdown, left>>

\* The next envelope of the frontend.
LocalFrame == Head(up)

\* One frame of the frontend, while its read side is open.  The frontend above sends
\* nothing after its half close, so the ProtocolError ending is never taken.
PReadsLocal ==
  /\ p.pc = "loop" /\ ~p.closed /\ up # <<>>
  /\ up' = Tail(up)
  /\ LET e == LocalFrame
     IN CASE e.kind = "Data" -> /\ p' = [p EXCEPT !.pc = "toRemote", !.item = e]
                                /\ UNCHANGED <<rup, retired>>
          [] e.kind = "HalfClose" -> /\ p' = [p EXCEPT !.half = TRUE]
                                     /\ rup' = IF r.lost THEN rup ELSE Append(rup, Fin)
                                     /\ UNCHANGED retired
          [] e.kind = "Eof" /\ p.half -> p' = [p EXCEPT !.closed = TRUE] /\ UNCHANGED <<rup, retired>>
          [] OTHER -> POver /\ rup' = IF r.lost THEN rup ELSE Append(rup, Fin)
  /\ UNCHANGED <<f, r, down, rdown, left>>

PWritesRemote ==
  /\ p.pc = "toRemote" /\ ~r.lost /\ Len(rup) < Room
  /\ rup' = Append(rup, p.item.n)
  /\ p' = [p EXCEPT !.pc = "loop", !.item = [kind |-> "none"], !.sent = TRUE]
  /\ UNCHANGED <<f, r, up, down, rdown, retired, left>>

\* Mutant: a lost stream is reported like its end.
PRemoteFailsClean ==
  /\ \/ p.pc = "toRemote" /\ r.lost /\ UNCHANGED left
     \/ p.pc = "toRemote" /\ ~r.lost /\ Len(rup) = Room /\ Spend("stall")
     \/ p.pc = "loop" /\ r.lost /\ rdown = <<>> /\ UNCHANGED left
  /\ POver /\ ToLocal(<<HalfClose, Closed("RemoteEof")>>)
  /\ UNCHANGED <<f, r, up, rup, rdown>>

\* The stream is lost, or takes nothing for the operation timeout.
PRemoteFails ==
  /\ \/ p.pc = "toRemote" /\ r.lost /\ UNCHANGED left
     \/ p.pc = "toRemote" /\ ~r.lost /\ Len(rup) = Room /\ Spend("stall")
     \/ p.pc = "loop" /\ r.lost /\ rdown = <<>> /\ UNCHANGED left
  /\ POver /\ ToLocal(<<Closed("TransportLost")>>)
  /\ UNCHANGED <<f, r, up, rup, rdown>>

\* Mutant: the half close is not passed before the reason.
PReadsRemoteBare ==
  /\ p.pc = "loop" /\ rdown # <<>>
  /\ rdown' = Tail(rdown)
  /\ p' = [p EXCEPT !.pc = "toLocal", !.received = @ \/ Head(rdown) # Fin,
                    !.item = IF Head(rdown) = Fin THEN Closed("RemoteEof") ELSE Data(Head(rdown))]
  /\ UNCHANGED <<f, r, up, down, rup, retired, left>>

\* What the stream brings is written to the frontend; its end as a HalfClose first.
PReadsRemote ==
  /\ p.pc = "loop" /\ rdown # <<>>
  /\ rdown' = Tail(rdown)
  /\ p' = [p EXCEPT !.pc = "toLocal", !.received = @ \/ Head(rdown) # Fin,
                    !.item = IF Head(rdown) = Fin THEN HalfClose ELSE Data(Head(rdown))]
  /\ UNCHANGED <<f, r, up, down, rup, retired, left>>

\* write_outer_with_timeout: after the HalfClose of the host's end comes the
\* reason, in a write of its own, and then the pump is over.
PWritesLocal ==
  /\ p.pc = "toLocal" /\ ~FrontendGone /\ Len(down) < Room
  /\ down' = Append(down, p.item)
  /\ CASE p.item.kind = "HalfClose" -> p' = [p EXCEPT !.item = Closed("RemoteEof")] /\ UNCHANGED retired
       [] p.item.kind = "Closed" -> POver
       [] OTHER -> p' = [p EXCEPT !.pc = "loop", !.item = [kind |-> "none"]] /\ UNCHANGED retired
  /\ UNCHANGED <<f, r, up, rup, rdown, left>>

\* The frontend is gone, or read nothing for the operation timeout: no Closed.
PLocalFails ==
  /\ p.pc = "toLocal"
  /\ IF FrontendGone THEN UNCHANGED left ELSE Len(down) >= Room /\ Spend("stall")
  /\ POver
  /\ UNCHANGED <<f, r, up, down, rup, rdown>>

\* Mutant: only a changed path is written.
PTicksChanged ==
  /\ p.pc = "loop" /\ Spend("path")
  /\ p' = [p EXCEPT !.pc = "toLocal", !.item = Path]
  /\ UNCHANGED <<f, r, up, down, rup, rdown, retired>>

\* The path tick writes a changed path, and any path once the frontend has closed
\* its side: a frontend that is gone shows only as a failing write.
PTicks ==
  /\ p.pc = "loop"
  /\ IF p.closed THEN UNCHANGED left ELSE Spend("path")
  /\ p' = [p EXCEPT !.pc = "toLocal", !.item = Path]
  /\ UNCHANGED <<f, r, up, down, rup, rdown, retired>>

\* The daemon aborts the handler, in the middle of an envelope or between two; the
\* demand and stream are dropped.
PAborts ==
  /\ p.pc # "over" /\ Spend("abort")
  /\ \/ p.pc = "toLocal" /\ ~FrontendGone /\ down' = Append(down, [kind |-> "Torn"])
     \/ UNCHANGED down
  /\ p' = [p EXCEPT !.pc = "over", !.item = [kind |-> "none"]]
  /\ UNCHANGED <<f, r, up, rup, rdown, retired>>

----------------------------------------------------------------------------
(* The host's stream: SessionWireService's attachment, by its bytes.        *)

\* A part of a frame is taken by the stream.
RSends ==
  /\ ~r.lost /\ ~r.done /\ p.pc # "over" /\ r.sent < MaxDown /\ Len(rdown) < Room /\ p.pc # "admit"
  /\ r' = [r EXCEPT !.sent = @ + 1]
  /\ rdown' = Append(rdown, r.sent + 1)
  /\ UNCHANGED <<f, p, up, down, rup, retired, left>>

\* Both tasks of the attachment are over and the stream is dropped, which ends it:
\* after whole frames, or where the deadline of write_attachment_bytes_until left
\* the frame it was writing.
REnds ==
  /\ ~r.lost /\ ~r.done /\ p.pc \notin {"over", "admit"}
  /\ IF r.sent % 2 = 0 THEN UNCHANGED left ELSE Spend("deadline")
  /\ r' = [r EXCEPT !.done = TRUE, !.cut = (r.sent % 2 = 1)]
  /\ rdown' = Append(rdown, Fin)
  /\ UNCHANGED <<f, p, up, down, rup, retired>>

RReads ==
  /\ ~r.lost /\ rup # <<>>
  /\ r' = IF Head(rup) = Fin THEN [r EXCEPT !.fin = TRUE] ELSE [r EXCEPT !.got = @ + 1]
  /\ rup' = Tail(rup)
  /\ UNCHANGED <<f, p, up, down, rdown, retired, left>>

\* The connection is lost with what it still carried.
RLost ==
  /\ ~r.lost /\ Spend("lose")
  /\ r' = [r EXCEPT !.lost = TRUE]
  /\ rup' = <<>> /\ rdown' = <<>>
  /\ UNCHANGED <<f, p, up, down, retired>>

----------------------------------------------------------------------------

Next ==
  \/ FOpens \/ FFindsStopped \/ FSends \/ FSendFails \/ FHalfCloses \/ FVanishes \/ FReads \/ FReadsEnd
  \/ PRefuses \/ PAdmits \/ PReadsLocal \/ PWritesRemote \/ PRemoteFails \/ PReadsRemote \/ PWritesLocal \/ PLocalFails
  \/ PTicks \/ PAborts
  \/ RSends \/ REnds \/ RReads \/ RLost

\* The pump is one task that polls every branch; sockets and streams that have
\* something are read, and the path timer ticks.
Fairness ==
  /\ WF_vars(PAdmits) /\ SF_vars(PReadsLocal) /\ WF_vars(PWritesRemote) /\ WF_vars(PRemoteFails)
  /\ SF_vars(PReadsRemote) /\ WF_vars(PWritesLocal) /\ WF_vars(PLocalFails) /\ SF_vars(PTicks)
  /\ WF_vars(FOpens) /\ WF_vars(FReads) /\ WF_vars(FReadsEnd) /\ WF_vars(RReads)

Spec == Init /\ [][Next]_vars
FairSpec == Spec /\ Fairness

----------------------------------------------------------------------------

\* Losing the tunnel is never taken for a broken protocol, which would not be
\* retried: not when a frame was split, and not when the daemon stopped between
\* two bytes of an envelope.  Only a host that ended its own stream inside a frame
\* is, and a frontend never shows that as a clean end.
LossIsRetryable == f.end = "malformed" => r.cut /\ f.got = r.sent

\* A clean end means everything the host sent has arrived.
CleanEndComplete == f.end = "eof" => f.got = r.sent /\ r.done /\ ~r.cut

\* A tunnel whose frontend is gone is released, also after a half close and with a
\* silent host.
GoneIsReleased == FrontendGone ~> p.pc = "over"
=============================================================================
