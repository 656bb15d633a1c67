----------------------------- MODULE FileUpload -----------------------------
(***************************************************************************)
(* One file upload: the client that sends a prepared source over a service *)
(* stream of its own (client/src/upload.rs), the host that checks control, *)
(* stages the bytes on disk and publishes the file (session_wire/upload.rs *)
(* and platform/src/upload.rs), and the stream between them.               *)
(*                                                                         *)
(* Bytes are counted, not carried. The host's disk work runs on blocking   *)
(* threads: a handler that gives up leaves its job running, and the job    *)
(* still owns the staging directory. Control of the session can pass to    *)
(* someone else at any time, and the user can cancel at any time.          *)
(***************************************************************************)
EXTENDS Naturals, Sequences, FiniteSetsExt

CONSTANTS
    Sources,   \* clipboard contents: [kind, size, actual]
    MaxBytes,  \* MAX_UPLOAD_BYTES
    ChunkSize,     \* UPLOAD_CHUNK_BYTES
    Window,    \* UPLOAD_WINDOW_BYTES
    Ack,       \* UPLOAD_ACK_BYTES
    Room,      \* frames the stream holds before a write blocks
    Budgets    \* how many faults of each kind may happen

VARIABLES
    source,    \* what the clipboard held
    c,         \* the uploading client
    h,         \* the host's stream handler
    job,       \* the blocking job, and what it works with
    file,      \* on the host's disk: "none", ".part" or the published file
    lease,     \* does the attachment control the session, and in which generation
    up, down,  \* frames in flight
    link,      \* is the stream alive
    left       \* faults that may still happen

vars == <<source, c, h, job, file, lease, up, down, link, left>>

Spend(kind) == /\ left[kind] > 0
               /\ left' = [left EXCEPT ![kind] = @ - 1]
Calm == UNCHANGED left

(***************************************************************************)
(* The client.                                                             *)
(***************************************************************************)

\* What the clipboard worker makes of its contents: the declared size, or a
\* refusal. A single regular file is sent as it is, an image is encoded
\* into a bounded temporary PNG.
Prepared(s) ==
  CASE s.kind \in {"file", "image"} ->
         IF s.size > MaxBytes THEN "too_large" ELSE "ok"
    [] s.kind \in {"files", "folder", "text"} -> "source"

Ended(out) == [c EXCEPT !.pc = "done", !.out = out]
Frame(kind, n) == [kind |-> kind, n |-> n]
Error(kind) == [kind |-> "error", n |-> kind]
\* The client dropped both halves of the connection.
Retire == up' = IF link THEN Append(up, Frame("eof", 0)) ELSE up

CPrepares ==
  /\ c.pc = "prepare"
  /\ IF Prepared(source) = "ok"
     THEN c' = [c EXCEPT !.pc = "ready"] /\ up' = <<Frame("begin", source.size)>>
     ELSE c' = Ended(Prepared(source)) /\ up' = up
  /\ Calm /\ UNCHANGED <<source, h, job, file, lease, down, link>>

CReady ==
  /\ c.pc = "ready" /\ down # <<>>
  /\ down' = Tail(down)
  /\ LET m == Head(down) IN
       CASE m.kind = "ready" /\ m.n = source.size ->
              c' = [c EXCEPT !.pc = "transfer"] /\ UNCHANGED up
         [] m.kind = "error" -> c' = Ended(m.n) /\ Retire
         [] OTHER -> c' = Ended("malformed") /\ Retire
  /\ Calm /\ UNCHANGED <<source, h, job, file, lease, link>>

\* The writing future: read at most a chunk of the source within the credit,
\* publish how far it is, and send it.
Writing == c.pc = "transfer" /\ c.w = "run"
Outstanding == IF c.offset > c.credit THEN c.offset - c.credit ELSE 0
MaySend == Writing /\ c.offset < source.size /\ Outstanding < Window
Wanted == Min({source.size - c.offset, ChunkSize, Window - Outstanding})
CSends ==
  /\ MaySend /\ c.offset < source.actual /\ link /\ Len(up) < Room
  /\ \E n \in 1..Min({Wanted, source.actual - c.offset}) :
       /\ c' = [c EXCEPT !.offset = @ + n, !.sent = c.offset + n]
       /\ up' = Append(up, Frame("chunk", <<c.offset, n>>))
  /\ Calm /\ UNCHANGED <<source, h, job, file, lease, down, link>>

\* The source ended early, or has more than it declared.
CSourceChanged ==
  /\ \/ MaySend /\ c.offset >= source.actual
     \/ Writing /\ c.offset = source.size /\ source.actual > source.size
  /\ c' = Ended("source") /\ Retire
  /\ Calm /\ UNCHANGED <<source, h, job, file, lease, down, link>>

CWritten ==
  /\ Writing /\ c.offset = source.size /\ source.actual = source.size
  /\ c' = [c EXCEPT !.w = "ok"]
  /\ Calm /\ UNCHANGED <<source, h, job, file, lease, up, down, link>>

\* A write failed: the host may have retired its side before its final
\* error arrived, so the reader keeps its place for one response.
CWriteFails ==
  /\ MaySend /\ c.offset < source.actual
  /\ ~link \/ h.pc = "over"
  /\ c' = [c EXCEPT !.w = "lost"]
  /\ Calm /\ UNCHANGED <<source, h, job, file, lease, up, down, link>>

\* The reading future.
Reading == c.pc = "transfer" /\ c.prev < source.size
CCreditsStale(n) == [c EXCEPT !.prev = n, !.credit = c.prev]
CCredits(n) == [c EXCEPT !.prev = n, !.credit = n]
CProgress ==
  /\ Reading /\ down # <<>>
  /\ down' = Tail(down)
  /\ LET m == Head(down) IN
       CASE m.kind = "progress" ->
              IF m.n >= c.prev /\ m.n <= c.sent
              THEN c' = CCredits(m.n) /\ UNCHANGED up
              ELSE c' = Ended("malformed") /\ Retire
         [] m.kind = "error" -> c' = Ended(m.n) /\ Retire
         [] OTHER -> c' = Ended("malformed") /\ Retire
  /\ Calm /\ UNCHANGED <<source, h, job, file, lease, link>>

\* Nothing more can arrive.  What the client is told of it depends on the route
\* (daemon_io and tunnel_closed): a lost transport, a stream that the host's
\* end closed ("cancelled"), or a local daemon that went away ("stopped").
LostAs == {"transport", "cancelled", "stopped"}
Silent == down = <<>> /\ (~link \/ h.pc = "over")
CReadFails ==
  /\ Silent
  /\ \/ c.pc = "ready" \/ Reading
     \/ c.pc = "transfer" /\ c.w = "lost"
  /\ \E e \in LostAs : c' = Ended(e)
  /\ Retire
  /\ Calm /\ UNCHANGED <<source, h, job, file, lease, down, link>>

CFinishes ==
  /\ c.pc = "transfer" /\ c.w = "ok" /\ c.prev = source.size
  /\ c' = [c EXCEPT !.pc = "finish"]
  /\ up' = IF link THEN Append(up, Frame("finish", source.size)) ELSE up
  /\ Calm /\ UNCHANGED <<source, h, job, file, lease, down, link>>

\* A lost answer to Finish leaves the outcome unknown, where the route reports
\* the loss as one of the transport.
FinishErrorDefinite(e) == IF e = "transport" THEN "unknown" ELSE e
FinishError(e) == IF e \in {"transport", "deadline"} THEN "unknown" ELSE e
CFinished ==
  /\ c.pc = "finish"
  /\ \/ /\ down # <<>>
        /\ down' = Tail(down)
        /\ LET m == Head(down) IN
             c' = Ended(CASE m.kind = "completed" /\ m.n = source.size -> "completed"
                          [] m.kind = "error" -> FinishError(m.n)
                          [] OTHER -> "malformed")
     \/ Silent /\ down' = down /\ \E e \in LostAs : c' = Ended(FinishError(e))
  /\ Retire
  /\ Calm /\ UNCHANGED <<source, h, job, file, lease, link>>

\* A deadline passes: DEFAULT_DEADLINE for admission and publication, the
\* idle timeout for a transfer that makes no progress.
CTimesOut ==
  /\ Spend("slow")
  /\ c.pc \in {"ready", "transfer", "finish"}
  /\ c' = Ended(IF c.pc = "finish" THEN FinishError("deadline")
                ELSE IF c.w = "lost" THEN "transport" ELSE "deadline")
  /\ Retire
  /\ UNCHANGED <<source, h, job, file, lease, down, link>>

\* The select of upload_inner takes the cancellation first. A transfer under
\* way still sends Cancel, perhaps behind a chunk cut in half.
CCancels ==
  /\ Spend("cancel")
  /\ c.pc \in {"ready", "transfer", "finish"}
  /\ c' = Ended("cancelled")
  /\ \E torn \in (IF MaySend THEN {<<>>, <<Frame("torn", 0)>>} ELSE {<<>>}) :
       up' = IF ~link THEN up
             ELSE up \o torn \o (IF c.pc = "ready" THEN <<>> ELSE <<Frame("cancel", 0)>>)
                     \o <<Frame("eof", 0)>>
  /\ UNCHANGED <<source, h, job, file, lease, down, link>>

(***************************************************************************)
(* The host. handle_upload writes the error of upload_stream and is over;  *)
(* dropping the staged upload removes what was not committed.              *)
(***************************************************************************)

Current == lease.owner /\ lease.gen = h.gen
Answer(m) == down' = IF link THEN Append(down, m) ELSE down
Over == [h EXCEPT !.pc = "over"]
Fails(e) == h' = Over /\ Answer(Error(e))
Idle == [kind |-> "none", n |-> 0]
Removed == IF file = "part" THEN "none" ELSE file

\* Only the attachment that controls the session may start an upload; the
\* staging directory and its .part are made on a blocking thread.
HBegins ==
  /\ h.pc = "idle" /\ up # <<>> /\ Head(up).kind = "begin"
  /\ up' = Tail(up)
  /\ IF lease.owner
     THEN /\ h' = [h EXCEPT !.pc = "create", !.gen = lease.gen, !.size = Head(up).n]
          /\ job' = [kind |-> "create", n |-> 0]
          /\ UNCHANGED down
     ELSE Fails("lease_lost") /\ UNCHANGED job
  /\ Calm /\ UNCHANGED <<source, c, file, lease, link>>

\* Nobody waits for the job any more: its result is dropped, which removes
\* the staging directory unless the file was committed.
Abandoned == h.pc = "over"

Created ==
  /\ job.kind = "create" /\ job' = Idle
  /\ IF Abandoned THEN UNCHANGED <<h, down, file>>
     ELSE IF Current
     THEN /\ h' = [h EXCEPT !.pc = "loop"] /\ file' = "part"
          /\ Answer(Frame("ready", h.size))
     ELSE Fails("lease_lost") /\ UNCHANGED file
  /\ Calm /\ UNCHANGED <<source, c, lease, up, link>>

\* A disk error in the job.
JobFails ==
  /\ Spend("disk")
  /\ job.kind \in {"create", "write"} /\ job' = Idle
  /\ file' = Removed
  /\ IF Abandoned THEN UNCHANGED <<h, down>> ELSE Fails("storage")
  /\ UNCHANGED <<source, c, lease, up, link>>

HLosesControl ==
  /\ h.pc = "loop" /\ ~Current
  /\ file' = Removed /\ Fails("lease_lost")
  /\ Calm /\ UNCHANGED <<source, c, job, lease, up, link>>

HTick ==
  /\ h.pc = "loop" /\ Current /\ h.accepted > h.acked
  /\ h' = [h EXCEPT !.acked = h.accepted] /\ Answer(Frame("progress", h.accepted))
  /\ Calm /\ UNCHANGED <<source, c, job, file, lease, up, link>>

HFrame ==
  /\ h.pc = "loop" /\ Current /\ up # <<>>
  /\ up' = Tail(up)
  /\ LET m == Head(up) IN
       CASE m.kind = "chunk" /\ m.n[1] = h.accepted /\ m.n[1] + m.n[2] <= h.size ->
              /\ h' = [h EXCEPT !.pc = "write"] /\ job' = [kind |-> "write", n |-> m.n[2]]
              /\ UNCHANGED <<down, file>>
         [] m.kind = "finish" /\ m.n = h.size /\ h.accepted = h.size ->
              /\ h' = [h EXCEPT !.pc = "publish"] /\ job' = [kind |-> "admit", n |-> 0]
              /\ UNCHANGED <<down, file>>
         [] m.kind = "cancel" ->
              /\ h' = Over /\ file' = Removed /\ Answer(Frame("cancelled", 0))
              /\ UNCHANGED job
         [] OTHER -> \* a torn frame, the end of the stream, or a wrong message
              /\ Fails(IF m.kind = "eof" THEN "transport" ELSE "malformed")
              /\ file' = Removed /\ UNCHANGED job
  /\ Calm /\ UNCHANGED <<source, c, lease, link>>

HReadFails ==
  /\ h.pc = "loop" /\ ~link /\ up = <<>>
  /\ h' = Over /\ file' = Removed
  /\ Calm /\ UNCHANGED <<source, c, job, lease, up, down, link>>

\* The chunk is on disk. Progress is told every Ack bytes and at the end.
Wrote ==
  /\ job.kind = "write" /\ job' = Idle
  /\ IF Abandoned THEN file' = Removed /\ UNCHANGED <<h, down>>
     ELSE LET accepted == h.accepted + job.n
              tells == accepted - h.acked >= Ack \/ accepted = h.size
          IN  /\ h' = [h EXCEPT !.pc = "loop", !.accepted = accepted,
                                !.acked = IF tells THEN accepted ELSE @]
              /\ IF tells THEN Answer(Frame("progress", accepted)) ELSE UNCHANGED down
              /\ UNCHANGED file
  /\ Calm /\ UNCHANGED <<source, c, lease, up, link>>

\* The authorized effect asks the session again before it publishes.
Admits ==
  /\ job.kind = "admit"
  /\ IF Current
     THEN job' = [job EXCEPT !.kind = "publish"] /\ UNCHANGED <<h, down, file>>
     ELSE /\ job' = Idle /\ file' = Removed
          /\ IF Abandoned THEN UNCHANGED <<h, down>> ELSE Fails("lease_lost")
  /\ Calm /\ UNCHANGED <<source, c, lease, up, link>>

\* Sync, rename, sync the directory. A failure after the rename keeps the
\* file; before it, dropping the staged upload removes the part.
AfterFailedSyncKeeps == file
AfterFailedSync == Removed
Publishes ==
  /\ job.kind = "publish" /\ job' = Idle
  /\ \/ /\ file' = "published"
        /\ IF Abandoned THEN UNCHANGED <<h, down>>
           ELSE IF Current THEN h' = Over /\ Answer(Frame("completed", h.size))
           ELSE Fails("lease_lost")
        /\ Calm
     \/ /\ Spend("disk")
        /\ file' \in {AfterFailedSync, "published"}
        /\ IF Abandoned THEN UNCHANGED <<h, down>> ELSE Fails("unknown")
  /\ UNCHANGED <<source, c, lease, up, link>>

\* A deadline of the host: idle stream, or a job that takes too long. The
\* job goes on by itself.
HTimesOut ==
  /\ Spend("slow")
  /\ h.pc \in {"create", "loop", "write", "publish"}
  /\ Fails("deadline")
  /\ file' = IF h.pc = "loop" THEN Removed ELSE file
  /\ UNCHANGED <<source, c, job, lease, up, link>>

(***************************************************************************)
(* The surroundings.                                                       *)
(***************************************************************************)

\* Another attachment takes control; the attachment may take it back, in a
\* new generation.
ControlMoves ==
  /\ Spend("control")
  /\ lease' = [owner |-> ~lease.owner, gen |-> lease.gen + 1]
  /\ UNCHANGED <<source, c, h, job, file, up, down, link>>

\* The stream is lost, with any suffix of what is in flight.
LinkLost ==
  /\ Spend("link")
  /\ link /\ link' = FALSE
  /\ \E i \in 0..Len(up), j \in 0..Len(down) :
       up' = SubSeq(up, 1, i) /\ down' = SubSeq(down, 1, j)
  /\ UNCHANGED <<source, c, h, job, file, lease>>

\* Everybody waits and nothing is in flight: only the idle timeouts of
\* thirty seconds are left to end this.
Waiting == /\ c.pc = "transfer" /\ c.prev < source.size
           /\ \/ c.w = "ok"
              \/ c.w = "run" /\ c.offset < source.size /\ ~MaySend
           /\ h.pc = "loop" /\ Current /\ h.accepted = h.acked
           /\ link /\ up = <<>> /\ down = <<>>

Init ==
  /\ source \in Sources
  /\ c = [pc |-> "prepare", offset |-> 0, credit |-> 0, sent |-> 0, prev |-> 0,
          w |-> "run", out |-> "none"]
  /\ h = [pc |-> "idle", gen |-> 0, size |-> 0, accepted |-> 0, acked |-> 0]
  /\ job = Idle /\ file = "none"
  /\ lease = [owner |-> TRUE, gen |-> 1]
  /\ up = <<>> /\ down = <<>> /\ link = TRUE
  /\ left \in Budgets

Next ==
  \/ CPrepares \/ CReady \/ CSends \/ CSourceChanged \/ CWritten \/ CWriteFails
  \/ CProgress \/ CReadFails \/ CFinishes \/ CFinished \/ CTimesOut \/ CCancels
  \/ HBegins \/ Created \/ JobFails \/ HLosesControl \/ HTick \/ HFrame \/ HReadFails
  \/ Wrote \/ Admits \/ Publishes \/ HTimesOut
  \/ ControlMoves \/ LinkLost

Spec == Init /\ [][Next]_vars

(***************************************************************************)
(* Properties.                                                             *)
(***************************************************************************)

\* The answer the client gives is true for good: "completed" means the whole
\* file is published, and a definite failure (one that does not say unknown,
\* cancelled, lease lost or that the local daemon stopped) means that no file
\* is published, neither before nor after, although the host's job outlives
\* deadlines and lost streams (upload, session_wire/upload.rs).
UploadToldTruth ==
  /\ c.out = "completed" => file = "published" /\ h.accepted = source.actual
  /\ c.out \notin {"none", "completed", "unknown", "cancelled", "lease_lost", "stopped"}
       => file # "published" /\ job.kind \notin {"admit", "publish"}

\* Once the handler is over and its blocking job has ended, nothing half
\* written stays on the host: the staging directory is gone or was published.
NothingHalfStays == h.pc = "over" /\ job.kind = "none" => file # "part"

\* Credit and acknowledgement never lock each other: with the stream alive
\* there is never a moment when the client waits for credit or for the last
\* progress and the host waits for a chunk with nothing left to acknowledge.
NeverStalls == ~Waiting
=============================================================================
