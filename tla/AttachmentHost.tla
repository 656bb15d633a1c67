-------------------------- MODULE AttachmentHost --------------------------
(***************************************************************************)
(* The host's half of one terminal attachment stream: the Session actor's  *)
(* record of the attachment (session.rs) and the two tasks that serve its  *)
(* stream (session_wire.rs).  The reader handles the controller's frames   *)
(* in order and queues a reply in a step after the one that obtained it    *)
(* from the actor; the writer selects, with a fixed bias, between queued   *)
(* replies, lifecycle changes and new screen revisions, and performs the   *)
(* selected work in a later step.  Both call the actor, so the actor's     *)
(* state can change between a choice and its capture, and between a        *)
(* capture and its place in the queue.                                     *)
(*                                                                         *)
(* Only the attachment of one view is followed; any other controller is    *)
(* the lease's value "other".  A screen is its revision and its size: what *)
(* a delta or a snapshot draws is not modelled, only which revision it     *)
(* starts from and leads to.                                               *)
(***************************************************************************)
EXTENDS Integers, Sequences, FiniteSets

CONSTANTS
  Window,             \* MAX_UNRECEIVED_SURFACE_FRAMES
  OutboundCapacity    \* ATTACHMENT_OUTBOUND_CAPACITY

VARIABLES
  session,   \* the Session: revision, size, lease, resume cell
  attach,    \* its ActorAttachment for this view
  stream,    \* the duplex stream between the two halves
  host       \* the handler serving the stream: reader, writer, window

hostVars == <<session, attach, stream, host>>

NoRevision == 0

(***************************************************************************)
(* Frames of the Session protocol.  "sync" is TerminalSyncRequired, a      *)
(* snapshot or delta with sequence 0 is not counted by the receipt window. *)
(***************************************************************************)
SnapshotFrame(r, z, n) == [k |-> "snapshot", rev |-> r, size |-> z, seq |-> n]
DeltaFrame(f, r, n) == [k |-> "delta", from |-> f, rev |-> r, seq |-> n]
SyncFrame == [k |-> "sync"]
ErrorFrame(e) == [k |-> "error", kind |-> e]

NoAttachment ==
  [live |-> FALSE, target |-> "active", awaiting |-> NoRevision, ever |-> FALSE,
   prepared |-> FALSE, acked |-> NoRevision, check |-> NoRevision, size |-> 0,
   colour |-> NoRevision, note |-> "none", dirty |-> FALSE]

\* A new ActorAttachment awaits the acknowledgement of its initial update; the
\* writer's first work is the initial lifecycle value.
NewAttachment(target) ==
  [NoAttachment EXCEPT !.live = TRUE, !.target = target, !.awaiting = session.rev,
                       !.check = session.rev, !.size = session.size, !.note = "sync"]

IdleHost ==
  [run |-> "none", pick |-> "none", held |-> <<>>, out |-> <<>>, sent |-> 0,
   received |-> 0, history |-> FALSE, watch |-> TRUE]

RunningHost == [IdleHost EXCEPT !.run = "running"]

(***************************************************************************)
(* Actor operations, as functions of the attachment.                       *)
(***************************************************************************)
\* full_sync: the checkpoint is replaced by a capture of the whole screen, and
\* the attachment waits for the acknowledgement of exactly that revision.
FullSync(a) ==
  [a EXCEPT !.awaiting = session.rev, !.check = session.rev, !.size = session.size,
            !.note = "sync", !.colour = NoRevision]

\* require_resize_controller and require_existing_visual_sync_controller.
HoldsLease(a) == a.live /\ a.target = "active" /\ session.lease = "view"
ResizeAdmitted(a) == HoldsLease(a)
InputAdmitted(a) == HoldsLease(a) /\ (a.awaiting = NoRevision \/ a.ever)

\* snapshot_applied: what an acknowledgement of revision r does, and whether it
\* fails or has to be answered with a replacement.
AckRefused(a, r) == ~a.live \/ (a.awaiting = NoRevision /\ a.acked # r)
AckStale(a, r) == a.acked = r /\ a.awaiting # r
AckReplaces(a, r) == a.awaiting # NoRevision /\ a.awaiting # r /\ a.acked # r

Acknowledged(a, r) ==
  IF AckStale(a, r) THEN a
  ELSE IF AckReplaces(a, r) THEN FullSync(a)
  ELSE [a EXCEPT !.awaiting = NoRevision, !.acked = r, !.colour = NoRevision,
                 !.note = "sync",
                 !.ever = @ \/ a.target = "active",
                 !.prepared = @ \/ a.target = "takeover"]

\* What sync_changed captures against the checkpoint: a delta only onto a
\* screen of the same size, a resynchronization otherwise (and whenever the
\* change is too large for a delta).
Captures(a) ==
  {u \in {"delta", "resync"} : u = "delta" => a.size = session.size}

\* next_update: the actor's reply to the writer, as the frames to write and the
\* attachment after the capture.
NoUpdate(a) == [frames |-> <<>>, attach |-> a]

NextUpdates(a, n) ==
  IF ~a.live THEN {NoUpdate(a)}
  ELSE IF a.colour # NoRevision THEN
    {[frames |-> <<SyncFrame, SnapshotFrame(a.colour, a.size, n)>>,
      attach |-> [a EXCEPT !.colour = NoRevision]]}
  ELSE IF a.awaiting # NoRevision \/ a.check = session.rev THEN {NoUpdate(a)}
  ELSE {IF u = "delta"
          THEN [frames |-> <<DeltaFrame(a.check, session.rev, n)>>,
                attach |-> [a EXCEPT !.check = session.rev]]
          ELSE [frames |-> <<SyncFrame, SnapshotFrame(session.rev, session.size, n)>>,
                attach |-> FullSync(a)]
        : u \in Captures(a)}

\* Mutant: the last capture is left out.
FinalFramesSkipped(a, n) == {<<>>}

\* final_update: the last capture, taken from the actor as the session ends.
FinalFrames(a, n) ==
  IF a.check = session.rev THEN {<<>>}
  ELSE {IF u = "delta" THEN <<DeltaFrame(a.check, session.rev, n)>>
                       ELSE <<SyncFrame, SnapshotFrame(session.rev, session.size, n)>>
        : u \in Captures(a)}

(***************************************************************************)
(* The writer task.                                                        *)
(***************************************************************************)
Reply(fs) == [frames |-> fs, first |-> FALSE]
\* Mutant: the reply does not wait for the takeover's own update.
TakeoverReplyAlone(fs) == [frames |-> fs, first |-> FALSE]

TakeoverReply(fs) == [frames |-> fs, first |-> TRUE]

Serving == host.run \in {"running", "failing"}

\* SurfaceFrameWindow::has_room: one frame is always admitted.
HasRoom ==
  LET unreceived == host.sent - host.received
  IN unreceived = 0 \/ unreceived < Window

Numbered(fs) == \E i \in DOMAIN fs : fs[i].k \in {"snapshot", "delta"}

\* write_terminal_update: the frame is numbered and accounted as it is written.
Written(fs) == [stream EXCEPT !.down = IF stream.cut = "no" THEN @ \o fs ELSE @]
Counted(h, fs) == IF Numbered(fs) THEN [h EXCEPT !.sent = @ + 1] ELSE h

\* A queued reply goes out first.  A takeover's success is preceded by the
\* update the takeover itself may have caused; after an error's reply the
\* handler ends.
WriteOutbound ==
  /\ Serving /\ host.pick = "none" /\ host.out # <<>>
  /\ LET reply == Head(host.out)
         fails == reply.frames[Len(reply.frames)].k = "error"
         gone == reply.first /\ session.over
         rest == [host EXCEPT !.out = Tail(@), !.run = IF fails \/ gone THEN "done" ELSE @]
     IN \E u \in IF reply.first THEN NextUpdates(attach, host.sent + 1)
                                ELSE {NoUpdate(attach)} :
          /\ attach' = u.attach
          /\ host' = Counted(rest, u.frames)
          /\ stream' = Written(IF gone THEN <<>> ELSE u.frames \o reply.frames)
  /\ UNCHANGED session

\* The lifecycle branch of the select; the value is taken when it is chosen.
PickLifecycle ==
  /\ Serving /\ host.pick = "none" /\ host.out = <<>> /\ attach.note # "none"
  /\ host' = [host EXCEPT !.pick = attach.note]
  /\ attach' = [attach EXCEPT !.note = "none"]
  /\ UNCHANGED <<session, stream>>

\* Mutant: a revision without room is marked as seen.
PickRevisionDrops ==
  /\ Serving /\ host.pick = "none" /\ host.out = <<>> /\ attach.note = "none"
  /\ host.watch /\ attach.dirty
  /\ host' = [host EXCEPT !.pick = IF HasRoom THEN "revision" ELSE @]
  /\ attach' = [attach EXCEPT !.dirty = FALSE]
  /\ UNCHANGED <<session, stream>>

\* The revision branch: only with room in the receipt window.
PickRevision ==
  /\ Serving /\ host.pick = "none" /\ host.out = <<>> /\ attach.note = "none"
  /\ host.watch /\ attach.dirty /\ HasRoom
  /\ host' = [host EXCEPT !.pick = "revision"]
  /\ attach' = [attach EXCEPT !.dirty = FALSE]
  /\ UNCHANGED <<session, stream>>

\* The chosen branch captures from the actor and writes.  A displaced
\* attachment yields nothing: its lifecycle value carries the outcome.
WriteUpdate ==
  /\ Serving /\ host.pick \in {"revision", "sync"} /\ ~session.over
  /\ \E u \in NextUpdates(attach, host.sent + 1) :
       /\ attach' = u.attach
       /\ host' = [Counted(host, u.frames) EXCEPT !.pick = "none"]
       /\ stream' = Written(u.frames)
  /\ UNCHANGED session

\* The actor is gone (SessionNotFound): the revision branch stops polling and
\* waits for the lifecycle value, the lifecycle branch fails and ends the
\* handler.
WriteAfterEnd ==
  /\ Serving /\ host.pick \in {"revision", "sync"} /\ session.over
  /\ host' = IF host.pick = "revision" THEN [host EXCEPT !.pick = "none", !.watch = FALSE]
                                      ELSE [host EXCEPT !.pick = "none", !.run = "done"]
  /\ UNCHANGED <<session, attach, stream>>

\* A replacement that was captured for this attachment and is not written: the
\* reader still holds or has just queued it, or it waits in
\* pending_color_snapshot for the writer to fetch it.
Unwritten ==
  \/ attach.colour # NoRevision
  \/ \E i \in DOMAIN (host.held \o host.out) : Numbered((host.held \o host.out)[i].frames)

\* write_lifecycle_event for the two terminal values; the handler ends.  The
\* history `missed` says that the end overtook a captured replacement.
WriteTerminal ==
  /\ Serving /\ host.pick \in {"lost", "ended"}
  /\ \E fs \in IF host.pick = "ended" THEN FinalFrames(attach, host.sent + 1) ELSE {<<>>} :
       stream' = Written(Append(fs, [k |-> host.pick]))
  /\ host' = [host EXCEPT !.pick = "none", !.run = "done"]
  /\ session' = [session EXCEPT !.missed = @ \/ (host.pick = "ended" /\ Unwritten)]
  /\ UNCHANGED attach

\* write_attachment_bytes_until: the controller stops reading for longer than
\* the write's deadline.  The handler ends and its stream with it, possibly
\* inside a frame.
WriteExpires ==
  /\ Serving /\ stream.cut = "no" /\ (host.pick # "none" \/ host.out # <<>>)
  /\ host' = [host EXCEPT !.run = "done"]
  /\ stream' = [stream EXCEPT !.cut = "torn"]
  /\ session' = [session EXCEPT !.torn = TRUE]
  /\ UNCHANGED attach

WriterStep ==
  WriteOutbound \/ PickLifecycle \/ PickRevision \/ WriteUpdate \/ WriteAfterEnd \/ WriteTerminal

(***************************************************************************)
(* The reader task.                                                        *)
(***************************************************************************)
\* flush_attachment_error: the error is queued behind earlier replies and the
\* reader handles nothing more.
Fails(e) ==
  /\ host' = [host EXCEPT !.run = "failing", !.held = <<Reply(<<ErrorFrame(e)>>)>>]
  /\ UNCHANGED <<session, attach>>

Refusal ==
  IF session.over THEN "session_not_found"
  ELSE IF attach.live THEN "not_synchronized" ELSE "lease_lost"

\* send_resync: an uncounted replacement, queued behind earlier replies.
Resync(z) == Reply(<<SyncFrame, SnapshotFrame(session.rev, z, 0)>>)

HandleApplied(r) ==
  IF AckRefused(attach, r) THEN Fails(Refusal)
  ELSE /\ attach' = Acknowledged(attach, r)
       /\ host' = IF AckReplaces(attach, r)
                    THEN [host EXCEPT !.held = <<Resync(session.size)>>] ELSE host
       /\ UNCHANGED session

HandleSyncRequest ==
  IF ~attach.live THEN Fails(Refusal)
  ELSE /\ attach' = FullSync(attach)
       /\ host' = [host EXCEPT !.held = <<Resync(session.size)>>]
       /\ UNCHANGED session

\* One history read at a time; it runs beside the reader.
HandleHistory ==
  IF host.history THEN Fails("resource_exhausted")
  ELSE IF ~InputAdmitted(attach) THEN Fails(Refusal)
  ELSE /\ host' = [host EXCEPT !.history = TRUE]
       /\ UNCHANGED <<session, attach>>

HandleInput ==
  IF ~InputAdmitted(attach) THEN Fails(Refusal)
  ELSE UNCHANGED <<session, attach, host>>

\* The screen is redrawn at its new size, which is a new revision.
HandleResize(z) ==
  IF ~ResizeAdmitted(attach) THEN Fails(Refusal)
  ELSE /\ session' = [session EXCEPT !.size = z, !.rev = IF z = session.size THEN @ ELSE @ + 1]
       /\ attach' = [attach EXCEPT !.dirty = @ \/ z # session.size]
       /\ UNCHANGED host

\* takeover: the displaced controller's view is not followed; the lease moves
\* to this attachment, and a change of colours makes it wait for one more
\* snapshot, which becomes its first active one.  Every stream of this client
\* asks at most once, so the continuation of an earlier request with the same
\* operation is not met here (SessionActor has it).
HandleTakeover(recolours) ==
  IF ~attach.live THEN Fails(Refusal)
  ELSE IF attach.target = "active" /\ ~InputAdmitted(attach) THEN Fails("not_synchronized")
  ELSE IF attach.target = "takeover" /\ ~attach.prepared THEN Fails("not_synchronized")
  ELSE /\ host' = [host EXCEPT !.held = <<TakeoverReply(<<[k |-> "taken"]>>)>>]
       /\ IF attach.target = "active" THEN UNCHANGED <<session, attach>>
          ELSE /\ session' = [session EXCEPT !.lease = "view",
                                             !.rev = IF recolours THEN @ + 1 ELSE @]
               /\ attach' =
                    IF recolours
                      THEN [attach EXCEPT !.target = "active", !.awaiting = session'.rev,
                                          !.check = session'.rev, !.size = session.size,
                                          !.colour = session'.rev, !.note = "sync"]
                      ELSE [attach EXCEPT !.target = "active",
                                          !.ever = @ \/ attach.awaiting = NoRevision,
                                          !.note = IF attach.awaiting = NoRevision
                                                     THEN "sync" ELSE @]

\* SurfaceFrameReceipts::accept: only within the written range.
HandleReceipt(n) ==
  IF n < host.received \/ n > host.sent THEN Fails("malformed")
  ELSE /\ host' = [host EXCEPT !.received = n]
       /\ UNCHANGED <<session, attach>>

HandleDetach ==
  /\ attach' = NoAttachment
  /\ session' = [session EXCEPT !.lease = IF HoldsLease(attach) THEN "none" ELSE @]
  /\ host' = [host EXCEPT !.run = "done"]

\* process_attachment_frame, one frame in the order sent.
ReadFrame ==
  /\ host.run = "running" /\ stream.up # <<>> /\ host.held = <<>>
  /\ LET frame == Head(stream.up)
     IN \/ frame.k = "applied" /\ HandleApplied(frame.rev)
        \/ frame.k = "sync" /\ HandleSyncRequest
        \/ frame.k = "history" /\ HandleHistory
        \/ frame.k = "input" /\ HandleInput
        \/ frame.k = "resize" /\ HandleResize(frame.size)
        \/ frame.k = "takeover" /\ \E recolours \in BOOLEAN : HandleTakeover(recolours)
        \/ frame.k = "receipt" /\ HandleReceipt(frame.seq)
        \/ frame.k = "detach" /\ HandleDetach
  /\ stream' = [stream EXCEPT !.up = Tail(@)]

\* outbound.send: the actor has answered the reader's request by now, and goes
\* on with others; the reply waits for room in the queue.
QueueReply ==
  /\ Serving /\ host.held # <<>> /\ Len(host.out) < OutboundCapacity
  /\ host' = [host EXCEPT !.held = <<>>, !.out = @ \o host.held]
  /\ UNCHANGED <<session, attach, stream>>

\* The history worker answers with the screen's current extent, or fails if the
\* lease was lost while it read.
FinishHistory ==
  /\ host.run = "running" /\ host.history /\ host.held = <<>>
  /\ Len(host.out) < OutboundCapacity
  /\ IF HoldsLease(attach)
       THEN host' = [host EXCEPT !.history = FALSE,
                       !.out = Append(@, Reply(<<[k |-> "history", rev |-> session.rev,
                                                  size |-> session.size]>>))]
       ELSE host' = [host EXCEPT !.history = FALSE, !.run = "failing",
                       !.out = Append(@, Reply(<<ErrorFrame(Refusal)>>))]
  /\ UNCHANGED <<session, attach, stream>>

\* Mutant: a clean end is not noticed.
ReadEndResetOnly ==
  /\ Serving /\ stream.cut = "reset"
  /\ host' = [host EXCEPT !.run = "done"]
  /\ UNCHANGED <<session, attach, stream>>

\* The stream ends under the reader: cleanly after everything sent, or with an
\* error that drops whatever was still in transit.
ReadEnd ==
  /\ Serving
  /\ \/ stream.cut = "fin" /\ stream.up = <<>> /\ host.run = "running" /\ host.held = <<>>
        /\ host' = [host EXCEPT !.run = "eof"]
     \/ stream.cut = "reset" /\ host' = [host EXCEPT !.run = "done"]
     \/ stream.cut = "fin" /\ host.run = "failing" /\ host' = [host EXCEPT !.run = "done"]
  /\ UNCHANGED <<session, attach, stream>>

\* handle_attachment's last step: only a clean end of a remote stream moves the
\* checkpoint of an active controller into the session's resume cell.
Finish ==
  /\ host.run \in {"eof", "done"}
  /\ session' = [session EXCEPT
       !.lease = IF HoldsLease(attach) THEN "none" ELSE @,
       !.saved = IF host.run = "eof" /\ attach.live
                   THEN IF HoldsLease(attach) /\ attach.awaiting = NoRevision
                          THEN attach.check ELSE NoRevision
                   ELSE @]
  /\ attach' = NoAttachment
  /\ host' = IdleHost
  /\ stream' = [stream EXCEPT !.up = <<>>, !.cut = IF @ = "no" THEN "closed" ELSE @]

ReaderStep == ReadFrame \/ QueueReply \/ FinishHistory \/ ReadEnd \/ Finish

(***************************************************************************)
(* The session beside the stream.                                          *)
(***************************************************************************)
\* The child writes: the model publishes a new revision and wakes the writer.
Output ==
  /\ ~session.over
  /\ session' = [session EXCEPT !.rev = @ + 1]
  /\ attach' = [attach EXCEPT !.dirty = attach.live]
  /\ UNCHANGED <<stream, host>>

\* Another view becomes the controller: it takes the lease from this one, or
\* attaches while the lease is free.  Its attach empties the resume cell.
RivalTakes ==
  /\ ~session.over /\ session.lease \in {"view", "none"}
  /\ session' = [session EXCEPT !.lease = "other", !.saved = NoRevision]
  /\ attach' = IF HoldsLease(attach) THEN [attach EXCEPT !.live = FALSE, !.note = "lost"]
                                     ELSE attach
  /\ UNCHANGED <<stream, host>>

RivalLeaves ==
  /\ session.lease = "other"
  /\ session' = [session EXCEPT !.lease = "none"]
  /\ UNCHANGED <<attach, stream, host>>

\* finish_runtime: the final capture is kept for the writer and the lifecycle
\* value announces the end.
SessionEnds ==
  /\ ~session.over
  /\ session' = [session EXCEPT !.over = TRUE, !.lease = "none", !.saved = NoRevision]
  /\ attach' = IF attach.live THEN [attach EXCEPT !.live = FALSE, !.note = "ended"] ELSE attach
  /\ UNCHANGED <<stream, host>>

\* The network loses the stream; either side learns of it by itself.
LinkBreaks(cut) ==
  /\ stream.cut = "no"
  /\ stream' = [stream EXCEPT !.cut = cut]
  /\ UNCHANGED <<session, attach, host>>

(***************************************************************************)
(* prepare_attach for a view that resumes on a new stream.  `known` is the *)
(* revision the view says it shows, or NoRevision for a full snapshot.     *)
(***************************************************************************)
ResumeOccupied == session.lease = "other"
ResumeWaits == session.lease = "view"

\* take_resume_terminal continues a checkpoint only at exactly the revision the
\* view knows; whatever the cell held is gone afterwards.
ResumeUpdates(known) ==
  {SnapshotFrame(session.rev, session.size, 0)} \cup
  (IF known # NoRevision /\ session.saved = known
     THEN {DeltaFrame(known, session.rev, 0)} ELSE {})

\* A handler that still serves an earlier stream holds no lease here, so that
\* nothing it has left to do reaches the session: it is forgotten.
AttachResumed(s) ==
  /\ session' = [session EXCEPT !.lease = "view", !.saved = NoRevision]
  /\ attach' = NewAttachment("active")
  /\ host' = RunningHost
  /\ stream' = s

=============================================================================
