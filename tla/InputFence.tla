----------------------------- MODULE InputFence -----------------------------
(***************************************************************************)
(* What the user types crosses three owners before it reaches the Session: *)
(* the kernel's terminal queue, the stdin reader thread with its bounded   *)
(* channel (StdinPump in cli/src/terminal_ui.rs), and the event loop of    *)
(* the view (TerminalUiSession in terminal_ui/session.rs). The view is not *)
(* always active, and what is typed while it is not must not arrive later. *)
(*                                                                         *)
(* An input epoch, shared by the reader and the loop, fences the two: the  *)
(* reader samples it before every read, the loop advances it whenever the  *)
(* view stops or starts being active, and the codec drops the events of a  *)
(* chunk whose epoch is not current. To start being active the loop stops  *)
(* the reader, drains what the kernel still holds under the old epoch,     *)
(* advances, and starts a new reader.                                      *)
(*                                                                         *)
(* A view that shows history, or waits for the snapshot that brings it     *)
(* back, retains what is typed and writes it once it is live again.        *)
(***************************************************************************)
EXTENDS HostInputCodec

CONSTANTS
    Scripts,    \* what the user may type: sequences of bursts of bytes
    Capacity,   \* STDIN_CHANNEL_CAPACITY
    MaxChunk,   \* STDIN_CHUNK_BYTES
    Budgets     \* how many events of each kind may happen

ASSUME FenceAssumption ==
    Capacity \in Nat \ {0} /\ MaxChunk \in Nat \ {0}

VARIABLES
    script,     \* what the user types, and how many bursts of it they have typed
    bursts,
    marks,      \* for every byte typed so far, the circumstances it was typed in
    taken,      \* how many of them the kernel has given out
    reader,     \* the stdin thread: its state, the epoch it sampled, its chunk
    chan,       \* the channel, and the events an earlier reader left behind
    retained,
    epoch,      \* the shared input epoch, and the loop's copy
    current,
    codec,      \* the codec, the epoch of its unfinished sequence, and how many
    held,       \* typed bytes it has cut into events
    cut,
    prefix,
    view,       \* the viewport: live, history or resume, and its retained input
    ui,         \* the loop: transport state, resize, deferral, fence in progress
    upload,     \* the epoch of the running upload, or none
    sent,       \* every byte written to the Session, and how
    swept,      \* bytes dropped with an older unfinished sequence
    outages,    \* transitions to Reconnecting
    left        \* what remains of the budget

vars == <<script, bursts, marks, taken, reader, chan, retained, epoch, current, codec, held, cut,
          prefix, view, ui, upload, sent, swept, outages, left>>
keys == <<script, bursts, marks, taken>>
pump == <<reader, chan, retained>>
input == <<codec, held, cut, prefix>>

None == 99
Chunk(e, from, to) == [epoch |-> e, from |-> from, to |-> to]
Live == [state |-> "live", kept |-> <<>>, applied |-> FALSE]
NewReader == [state |-> "poll", chunk |-> Chunk(0, 0, 0)]

\* DesktopUpload: its epoch, whether it was cancelled, and (to state the property) the
\* outages before it began and whether its path was written after a later one.
NewUpload == [epoch |-> None, cancelled |-> FALSE, outages |-> 0, late |-> FALSE]

Init ==
    /\ script \in Scripts
    /\ bursts = 0 /\ marks = <<>> /\ taken = 0
    /\ reader = NewReader /\ chan = <<>> /\ retained = <<>>
    /\ epoch = 0 /\ current = 0
    /\ codec = NewCodec /\ held = None /\ cut = 0 /\ prefix = NewPrefix
    /\ view = Live
    /\ ui = [transport |-> "sync", healthy |-> FALSE, deferred |-> FALSE, fence |-> "none",
             then |-> "none", ended |-> FALSE]
    /\ upload = NewUpload
    /\ sent = <<>> /\ swept = {} /\ outages = 0
    /\ left \in Budgets

Spend(kind) == left[kind] > 0 /\ left' = [left EXCEPT ![kind] = @ - 1]
Idle == ui.fence = "none" /\ ~ui.ended

-----------------------------------------------------------------------------
(* The user and the reader thread *)

Open == ui.transport = "active" \/ ui.healthy
\* The view takes no input for the child: it is not active, or an upload pauses it.
Closed == upload.epoch # None \/ (view.state = "live" /\ ~Open)

\* A burst reaches the kernel's queue. It is blind if the view is closed, unless the
\* fence that opens the view has already drained the queue.
Type ==
    /\ bursts < Len(script) /\ ~ui.ended
    /\ bursts' = bursts + 1
    /\ marks' = marks \o [i \in 1..Len(script[bursts + 1]) |->
          [blind |-> Closed /\ ui.fence # "drained", outages |-> outages,
           away |-> ui.transport = "reconnecting",
           fresh |-> IF ui.fence = "drained" THEN current + 1
                     ELSE IF Closed \/ ui.fence = "joining" THEN None ELSE current]]
    /\ UNCHANGED <<script, taken, pump, epoch, current, input, view, ui, upload, sent, swept,
                   outages, left>>

\* poll says readable and not cancelled; the epoch is sampled before the read.
ReaderSamples ==
    /\ reader.state = "poll" /\ taken < Len(marks) /\ ui.fence # "joining"
    /\ reader' = [state |-> "sampled", chunk |-> Chunk(epoch, 0, 0)]
    /\ UNCHANGED <<keys, chan, retained, epoch, current, input, view, ui, upload, sent, swept,
                   outages, left>>

ReaderReads ==
    /\ reader.state = "sampled"
    /\ IF taken = Len(marks)
       THEN reader' = [reader EXCEPT !.state = "poll"] /\ taken' = taken
       ELSE LET to == IF Len(marks) - taken < MaxChunk THEN Len(marks) ELSE taken + MaxChunk
            IN /\ reader' = [state |-> "send", chunk |-> Chunk(reader.chunk.epoch, taken, to)]
               /\ taken' = to
    /\ UNCHANGED <<script, bursts, marks, chan, retained, epoch, current, input, view, ui, upload, sent,
                   swept, outages, left>>

\* blocking_send: waits for room, or hands the chunk back if the receiver is closed.
ReaderSends ==
    /\ reader.state = "send"
    /\ IF ui.fence = "joining"
       THEN reader' = [reader EXCEPT !.state = "tail"] /\ chan' = chan
       ELSE /\ Len(chan) < Capacity
            /\ chan' = Append(chan, reader.chunk)
            /\ reader' = NewReader
    /\ UNCHANGED <<keys, retained, epoch, current, input, view, ui, upload, sent, swept, outages,
                   left>>

\* The cancellation pipe is readable: the reader returns from poll and ends.
ReaderCancelled ==
    /\ reader.state = "poll" /\ ui.fence = "joining"
    /\ reader' = [reader EXCEPT !.state = "gone"]
    /\ UNCHANGED <<keys, chan, retained, epoch, current, input, view, ui, upload, sent, swept,
                   outages, left>>

-----------------------------------------------------------------------------
(* The loop: input *)

Cleared == NewPrefix
Text == FlattenSeq(script)
Bytes(from, to) == SubSeq(Text, from + 1, to)

\* Mutant of Deliver: a later unit is retained before an earlier one.
DeliverFront(acc, event) ==
    LET span == [i \in 1..Len(event.bytes) |-> acc.cut + i] IN
    IF acc.upload # None THEN acc
    ELSE IF acc.view.state = "live"
    THEN IF Open THEN [acc EXCEPT !.sent = @ \o span] ELSE acc
    ELSE [acc EXCEPT !.view = [state |-> "resume", kept |-> span \o @.kept,
                               applied |-> @.state = "resume" /\ @.applied]]

\* What the loop does with one event that the command mode lets through: nothing
\* during an upload, a write if the view is live and open, retention in history.
Deliver(acc, event) ==
    LET span == [i \in 1..Len(event.bytes) |-> acc.cut + i] IN
    IF acc.upload # None THEN acc
    ELSE IF acc.view.state = "live"
    THEN IF Open THEN [acc EXCEPT !.sent = @ \o span] ELSE acc
    ELSE [acc EXCEPT !.view = [state |-> "resume", kept |-> @.kept \o span,
                               applied |-> @.state = "resume" /\ @.applied]]

\* begin_upload: needs an open view; advances the epoch and pauses input.
BeginUpload(acc) ==
    IF Open /\ acc.upload = None
    THEN [acc EXCEPT !.upload = acc.epoch + 1, !.epoch = @ + 1, !.prefix.pending = FALSE]
    ELSE acc

\* feed_for_lifetimes keeps an event if the chunk, and the unfinished sequence it
\* completes, were both read in the current epoch.
Fresh(chunk, source) == chunk.epoch = current /\ source = current

\* Mutant of HeldAfter: the epoch of a sequence outlives the sequence.
HeldForever(c, source) == source

\* pending_epoch: the epoch in which what the codec still collects began.
HeldAfter(c, source) == IF Settled(c) THEN None ELSE source

Handle(acc, event, fresh) ==
    LET r == Route(acc.prefix, event, FALSE)
        next == [acc EXCEPT !.cut = @ + Len(event.bytes)]
    IN IF ~fresh \/ acc.ended THEN next
       ELSE IF r.to = "child"
       THEN [Deliver([acc EXCEPT !.prefix = r.prefix], event)
                EXCEPT !.cut = @ + Len(event.bytes)]
       ELSE IF r.to = "command" /\ event.bytes = <<".">>
       THEN [next EXCEPT !.prefix = r.prefix, !.ended = TRUE]
       ELSE IF r.to = "command" /\ event.bytes = <<"v">>
       THEN [BeginUpload([acc EXCEPT !.prefix = r.prefix]) EXCEPT !.cut = @ + Len(event.bytes)]
       ELSE [next EXCEPT !.prefix = r.prefix]

\* What a transition to Active starts: nothing more if a healthy resize preserved the
\* input; the fence if the view was not active; otherwise only the end of a resume.
Finished(v) == v.state = "resume" /\ v.applied
WriteKept(v) == IF Finished(v) THEN v.kept ELSE <<>>
AfterResume(v) == IF Finished(v) THEN Live ELSE v
Entry(positions, how) ==
    [i \in 1..Len(positions) |->
        [pos |-> positions[i], how |-> how, outages |-> outages]]

StartActive(u, v, written) ==
    IF u.healthy
    THEN /\ ui' = [u EXCEPT !.healthy = FALSE, !.transport = "active", !.deferred = FALSE]
         /\ view' = v
         /\ sent' = written
    ELSE IF u.transport # "active"
    THEN /\ ui' = [u EXCEPT !.fence = "joining", !.then = "active", !.deferred = FALSE]
         /\ view' = v
         /\ sent' = written
    ELSE /\ ui' = [u EXCEPT !.deferred = FALSE]
         /\ view' = AfterResume(v)
         /\ sent' = written \o Entry(WriteKept(v), "kept")

\* One chunk: cut into events, filtered by epoch, routed and delivered; then a
\* deferred activation runs if no paste is in progress any more.
Receive ==
    /\ Idle /\ (retained # <<>> \/ chan # <<>>)
    /\ LET chunk == Head(retained \o chan)
           source == IF held = None THEN chunk.epoch ELSE held
           f == Feed(codec, Bytes(chunk.from, chunk.to))
           fresh == Fresh(chunk, source)
           acc == FoldLeft(LAMBDA a, e : Handle(a, e, fresh),
                           [prefix |-> prefix, cut |-> cut, view |-> view, sent |-> <<>>,
                            upload |-> upload.epoch, epoch |-> epoch, ended |-> FALSE],
                           f.events)
           u == [ui EXCEPT !.ended = acc.ended]
       IN /\ retained' = IF retained # <<>> THEN Tail(retained) ELSE retained
          /\ chan' = IF retained # <<>> THEN chan ELSE Tail(chan)
          /\ codec' = f.codec /\ cut' = acc.cut /\ prefix' = acc.prefix
          /\ held' = HeldAfter(f.codec, source)
          /\ swept' = IF chunk.epoch = current /\ source # current /\ ~Settled(codec)
                      THEN swept \cup (cut + 1)..chunk.to ELSE swept
          /\ upload' = IF acc.upload = upload.epoch THEN upload
                       ELSE [upload EXCEPT !.epoch = acc.upload, !.outages = outages]
          /\ epoch' = acc.epoch
          /\ current' = IF acc.epoch = epoch THEN current ELSE acc.epoch
          /\ IF ui.deferred /\ ~f.codec.paste /\ ~acc.ended
             THEN StartActive(u, acc.view, sent \o Entry(acc.sent, "typed"))
             ELSE /\ ui' = u /\ view' = acc.view
                  /\ sent' = sent \o Entry(acc.sent, "typed")
    /\ UNCHANGED <<keys, reader, outages, left>>

\* The prefix timed out.
PrefixExpires ==
    /\ Idle /\ prefix.pending
    /\ prefix' = [prefix EXCEPT !.pending = FALSE]
    /\ UNCHANGED <<keys, pump, epoch, current, codec, held, cut, view, ui, upload, sent, swept,
                   outages, left>>

-----------------------------------------------------------------------------
(* The fence *)

\* Mutant of FenceDrains: what the kernel still holds is left for the new reader.
FenceDrainsNothing ==
    /\ ui.fence = "joining" /\ reader.state \in {"gone", "tail"}
    /\ retained' = retained \o chan
          \o (IF reader.state = "tail" THEN <<reader.chunk>> ELSE <<>>)
    /\ chan' = <<>>
    /\ ui' = [ui EXCEPT !.fence = "drained"]
    /\ UNCHANGED <<keys, reader, epoch, current, input, view, upload, sent, swept,
                   outages, left>>

\* The reader has been joined: what it left in the channel and in its hands, and then
\* what the kernel still holds, is retained under the old epoch.
FenceDrains ==
    /\ ui.fence = "joining" /\ reader.state \in {"gone", "tail"}
    /\ retained' = retained \o chan
          \o (IF reader.state = "tail" THEN <<reader.chunk>> ELSE <<>>)
          \o (IF taken < Len(marks) THEN <<Chunk(current, taken, Len(marks))>> ELSE <<>>)
    /\ chan' = <<>>
    /\ taken' = Len(marks)
    /\ ui' = [ui EXCEPT !.fence = "drained"]
    /\ UNCHANGED <<script, bursts, marks, reader, epoch, current, input, view, upload, sent, swept,
                   outages, left>>

\* The epoch advances and a new reader starts; the interrupted transition, or the end
\* of the upload, completes.
FenceAdvances ==
    /\ ui.fence = "drained"
    /\ epoch' = epoch + 1 /\ current' = epoch + 1
    /\ reader' = NewReader
    /\ IF ui.then = "active"
       THEN /\ ui' = [ui EXCEPT !.fence = "none", !.then = "none", !.transport = "active"]
            /\ view' = AfterResume(view)
            /\ sent' = sent \o Entry(WriteKept(view), "kept")
            /\ prefix' = Cleared
            /\ upload' = upload
       ELSE /\ ui' = [ui EXCEPT !.fence = "none", !.then = "none"]
            /\ upload' = [NewUpload EXCEPT !.late = upload.late]
            /\ prefix' = [prefix EXCEPT !.pending = FALSE, !.tail = 0]
            /\ UNCHANGED <<view, sent>>
    /\ UNCHANGED <<keys, chan, retained, codec, held, cut, swept, outages, left>>

-----------------------------------------------------------------------------
(* The loop: events of the view and of the terminal *)

\* transition_input_state to a state that is not active.
Advances(yes) ==
    /\ epoch' = IF yes THEN epoch + 1 ELSE epoch
    /\ current' = IF yes THEN epoch + 1 ELSE current

\* Mutant of Leave: a reconnect does not cancel the upload.
LeaveUploading(next) ==
    LET healthy == ui.healthy /\ next # "reconnecting"
        v == IF next # "reconnecting" THEN view
             ELSE IF view.state = "history" THEN [state |-> "resume", kept |-> <<>>, applied |-> FALSE]
             ELSE [view EXCEPT !.applied = FALSE]
        fences == ~healthy /\ next # ui.transport /\ v.state # "resume"
    IN /\ Advances(fences)
       /\ prefix' = IF fences THEN Cleared ELSE prefix
       /\ view' = v
       /\ ui' = [ui EXCEPT !.healthy = healthy /\ next = "sync", !.transport = next,
                           !.deferred = FALSE]
       /\ upload' = upload
       /\ outages' = IF next = "reconnecting" THEN outages + 1 ELSE outages

\* A transport state that is not Active. Reconnecting cancels an upload, ends a
\* healthy resize, and turns history into a resume.
Leave(next) ==
    LET healthy == ui.healthy /\ next # "reconnecting"
        v == IF next # "reconnecting" THEN view
             ELSE IF view.state = "history" THEN [state |-> "resume", kept |-> <<>>, applied |-> FALSE]
             ELSE [view EXCEPT !.applied = FALSE]
        fences == ~healthy /\ next # ui.transport /\ v.state # "resume"
    IN /\ Advances(fences)
       /\ prefix' = IF fences THEN Cleared ELSE prefix
       /\ view' = v
       /\ ui' = [ui EXCEPT !.healthy = healthy /\ next = "sync", !.transport = next,
                           !.deferred = FALSE]
       /\ upload' = IF next = "reconnecting" /\ upload.epoch # None
                    THEN [upload EXCEPT !.cancelled = TRUE] ELSE upload
       /\ outages' = IF next = "reconnecting" THEN outages + 1 ELSE outages

OnTransport(next) ==
    /\ Idle /\ Spend(next) /\ next \in {"sync", "reconnecting"}
    /\ Leave(next)
    /\ UNCHANGED <<keys, pump, codec, held, cut, sent, swept>>

\* Active is deferred while a paste is being typed into a view that resumes.
OnActive ==
    /\ Idle /\ ui.transport \in {"sync", "active"} /\ Spend("active")
    /\ IF view.state = "resume" /\ codec.paste
       THEN ui' = [ui EXCEPT !.deferred = TRUE] /\ UNCHANGED <<view, sent>>
       ELSE StartActive(ui, view, sent)
    /\ UNCHANGED <<keys, pump, epoch, current, input, upload, swept, outages>>

\* A snapshot makes the view synchronize, unless it already does or resumes.
OnSnapshot ==
    /\ Idle /\ Spend("snapshot")
    /\ LET fences == ui.transport # "sync" /\ view.state # "resume" IN
       /\ Advances(fences)
       /\ prefix' = IF fences \/ ~ui.healthy THEN Cleared ELSE prefix
       /\ ui' = IF fences THEN [ui EXCEPT !.transport = "sync"] ELSE ui
       /\ view' = IF view.state = "resume" THEN [view EXCEPT !.applied = TRUE] ELSE view
    /\ UNCHANGED <<keys, pump, codec, held, cut, upload, sent, swept, outages>>

\* A delta that does not continue the surface: a live view waits for a snapshot as a
\* resume, a view in history synchronizes.
OnGap ==
    /\ Idle /\ Spend("gap")
    /\ LET v == IF view.state = "live" THEN [state |-> "resume", kept |-> <<>>, applied |-> FALSE]
                ELSE view
           leaves == ui.transport # "sync" /\ v.state # "resume"
       IN /\ Advances(ui.healthy \/ leaves)
          /\ prefix' = IF ui.healthy \/ leaves THEN Cleared ELSE prefix
          /\ view' = v
          /\ ui' = [ui EXCEPT !.healthy = FALSE, !.transport = IF leaves THEN "sync" ELSE @]
    /\ UNCHANGED <<keys, pump, codec, held, cut, upload, sent, swept, outages>>

\* The host dropped output: a live view waits for the replacement as a resume.
OnSyncRequired ==
    /\ Idle /\ Spend("required")
    /\ view' = IF view.state = "live" /\ ~ui.healthy
               THEN [state |-> "resume", kept |-> <<>>, applied |-> FALSE] ELSE view
    /\ ui' = [ui EXCEPT !.transport = "sync"]
    /\ UNCHANGED <<keys, pump, epoch, current, input, upload, sent, swept, outages>>

\* The window is resized while the view is active: a live one goes on taking input.
Winch ==
    /\ Idle /\ ui.transport = "active" /\ Spend("winch")
    /\ LET healthy == view.state = "live"
           fences == ~healthy /\ view.state # "resume"
       IN /\ Advances(fences)
          /\ prefix' = IF fences THEN Cleared ELSE prefix
          /\ ui' = [ui EXCEPT !.healthy = healthy, !.transport = "sync"]
    /\ UNCHANGED <<keys, pump, codec, held, cut, view, upload, sent, swept, outages>>

\* The wheel or the scrollbar: into history, and back to the live end.
Scroll ==
    /\ Idle /\ Spend("scroll")
    /\ \/ view.state = "live" /\ ui.transport = "active"
          /\ view' = [state |-> "history", kept |-> <<>>, applied |-> FALSE]
       \/ view.state = "history"
          /\ view' = [state |-> "resume", kept |-> <<>>, applied |-> FALSE]
    /\ UNCHANGED <<keys, pump, epoch, current, input, ui, upload, sent, swept, outages>>

\* The upload task ended: its path is written if nothing intervened; then the paused
\* interval is fenced like an activation.
UploadEnds ==
    /\ Idle /\ upload.epoch # None
    /\ ui' = [ui EXCEPT !.fence = "joining", !.then = "upload"]
    /\ upload' = [upload EXCEPT !.late = @ \/ (/\ upload.epoch = current /\ ~upload.cancelled
                                               /\ upload.outages # outages)]
    /\ UNCHANGED <<keys, pump, epoch, current, input, view, sent, swept, outages, left>>

Next ==
    \/ Type \/ ReaderSamples \/ ReaderReads \/ ReaderSends \/ ReaderCancelled
    \/ Receive \/ PrefixExpires \/ FenceDrains \/ FenceAdvances
    \/ \E s \in {"sync", "reconnecting"} : OnTransport(s)
    \/ OnActive \/ OnSnapshot \/ OnGap \/ OnSyncRequired \/ Winch \/ Scroll \/ UploadEnds

Spec == Init /\ [][Next]_vars

-----------------------------------------------------------------------------
\* Input typed into a closed view is never written when the view opens: not what was
\* typed while the view was preparing, synchronizing or reconnecting, not what was
\* typed during an upload, and nothing typed before an outage is written after it
\* (replace_after_active_fence, feed_for_lifetimes). Input that a resume retained is
\* written by the resume and is not meant here.
NoStaleInput ==
    \A i \in DOMAIN sent :
        sent[i].how = "typed" =>
            /\ ~marks[sent[i].pos].blind
            /\ marks[sent[i].pos].outages = sent[i].outages

\* What is written is in the order it was typed, each byte once, whatever mixture of
\* channel, retained events, drained bytes and retained resume input it came through.
InOrder ==
    \A i \in DOMAIN sent : i > 1 => sent[i - 1].pos < sent[i].pos

\* Nothing typed into an open view is lost while the view stays open: every byte the
\* codec has cut, typed in the epoch that is still current, was written, retained for
\* the resume, or taken by a local command.
FreshKept ==
    \A p \in 1..cut :
        (marks[p].fresh = current /\ p \notin swept /\ ~ui.ended /\ Text[p] = "x")
            => \/ \E i \in DOMAIN sent : sent[i].pos = p
               \/ \E i \in DOMAIN view.kept : view.kept[i] = p
               \/ ~Open \/ upload.epoch # None \/ \E q \in 1..p : Text[q] = "1d"

\* What is typed into an open view is written once and in order, or kept.
TypedArrives == InOrder /\ FreshKept

\* The path of an uploaded file is never written into a later attachment: an outage
\* cancels the upload even where it does not advance the input epoch.
UploadNeverLate == ~upload.late

\* Input typed while the view reconnects is discarded, not queued for replay.
NeverReplayed ==
    \A i \in DOMAIN sent : marks[sent[i].pos].outages = sent[i].outages
                           /\ ~marks[sent[i].pos].away
=============================================================================
