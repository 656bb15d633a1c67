--------------------------- MODULE ViewportHistory ---------------------------
(***************************************************************************)
(* Scrolling through retained history in the desktop terminal: the         *)
(* viewport controller, its presentation pacer and text selection          *)
(* (cli/src/terminal_ui.rs, terminal_ui/selection.rs, the handlers of      *)
(* terminal_ui/session.rs) over ViewportCache, the client's single         *)
(* history slot (client/src/session.rs) and the host that answers while    *)
(* the program keeps printing (terminal/src/model.rs).                     *)
(*                                                                         *)
(* down is on its way to the client, events wait for the frontend.  The    *)
(* host's deltas lag behind its state by any amount, so an answer can be   *)
(* newer than a delta behind it.  Frames of one stream are consecutive, so *)
(* that a delta always continues what is drawn: the gap and the recovery   *)
(* from it are TerminalView's.  The width may change, the height stays     *)
(* Rows.  Only the main screen is modelled.                                *)
(***************************************************************************)
EXTENDS ViewportCache

CONSTANTS
  Retained,         \* rows of history at the start
  Scrollback,       \* most rows the host retains
  Budgets           \* how often each kind of event may happen

VARIABLES
  host,     \* rows (history, then screen), rev, epoch, size, colours, sent
  up,       \* commands on their way to the host
  down,     \* frames on their way to the client
  events,   \* what the client read and the frontend did not
  slot,     \* TRUE while the client waits for a window
  ui,       \* the frontend
  ended,    \* why the view ended, or "no"
  left      \* the budget that is left

vars == <<host, up, down, events, slot, ui, ended, left>>

Spend(kind) == /\ ended = "no"
               /\ left[kind] > 0
               /\ left' = [left EXCEPT ![kind] = @ - 1]

-----------------------------------------------------------------------------
(* The host.  sent is the revision of the last frame of this attachment;   *)
(* acked is FALSE between a snapshot and its acknowledgement.              *)

HostAnchor(h) == [epoch |-> h.epoch, rev |-> h.rev, max |-> Len(h.rows) - Rows,
                  size |-> h.size]
Frame(t, h) == [kind |-> t, resume |-> FALSE, anchor |-> HostAnchor(h), colors |-> h.colors,
                rows |-> SubSeq(h.rows, Len(h.rows) - Rows + 1, Len(h.rows))]
Event(t) == [kind |-> t]

\* The program rewrites one row of the screen.
HostWrites ==
  /\ Spend("write")
  /\ \E i \in Len(host.rows) - Rows + 1 .. Len(host.rows) :
       host' = [host EXCEPT !.rev = @ + 1, !.rows[i] = host.rev + 1]
  /\ UNCHANGED <<up, down, events, slot, ui, ended>>

\* The program prints a line: a row becomes history, and at capacity the
\* oldest row is lost and every retained row changes its place.
HostScrolls ==
  /\ Spend("scroll")
  /\ LET rows == Append(host.rows, host.rev + 1)
         full == Len(rows) - Rows > Scrollback
         kept == IF full THEN Tail(rows) ELSE rows
     IN  host' = [host EXCEPT !.rev = @ + 1, !.rows = kept,
                              !.epoch = IF Len(kept) - Rows = Scrollback
                                        THEN host.rev + 1 ELSE @]
  /\ UNCHANGED <<up, down, events, slot, ui, ended>>

\* The program erases the retained rows.
HostClears ==
  /\ Spend("clear")
  /\ Len(host.rows) > Rows
  /\ host' = [host EXCEPT !.rev = @ + 1, !.epoch = host.rev + 1,
                          !.rows = SubSeq(@, Len(@) - Rows + 1, Len(@))]
  /\ UNCHANGED <<up, down, events, slot, ui, ended>>

\* A colour change moves the revision and no row.
HostRecolors ==
  /\ Spend("recolor")
  /\ host' = [host EXCEPT !.rev = @ + 1, !.colors = host.rev + 1]
  /\ UNCHANGED <<up, down, events, slot, ui, ended>>

HostSendsDelta ==
  /\ ended = "no" /\ host.linked /\ host.acked /\ host.sent < host.rev
  /\ host' = [host EXCEPT !.sent = host.rev]
  /\ down' = Append(down, Frame("delta", host))
  /\ UNCHANGED <<up, events, slot, ui, ended, left>>

\* The attachment fell behind: the marker and a full snapshot replace what
\* was not sent.
HostResyncs ==
  /\ Spend("resync")
  /\ host.linked /\ host.acked /\ host.sent < host.rev
  /\ host' = [host EXCEPT !.sent = host.rev, !.acked = FALSE]
  /\ down' = down \o <<Event("sync"), Frame("snapshot", host)>>
  /\ UNCHANGED <<up, events, slot, ui, ended>>

HistoryWindow(q, h) ==
  LET a == HostAnchor(h)
      s == Shape(q, a)[1]
  IN  [anchor |-> a, target |-> s.target, first |-> s.first, rebased |-> s.rebased,
       rows |-> SubSeq(h.rows, a.max + s.first + 1, a.max + s.first + s.count)]

\* The host takes the next command: a history query, a request for a full
\* snapshot, a resize, or the acknowledgement of a snapshot.
HostHandles ==
  /\ ended = "no" /\ host.linked /\ up # <<>>
  /\ LET m == Head(up)
         wide == [host EXCEPT !.size = m.size, !.rev = @ + 1, !.epoch = host.rev + 1,
                              !.rows = [i \in DOMAIN @ |-> host.rev + 1],
                              !.sent = host.rev + 1, !.acked = FALSE]
     IN  /\ up' = Tail(up)
         /\ CASE m.kind = "query" ->
                   /\ down' = Append(down, IF Shape(m.query, HostAnchor(host)) = None
                        THEN [kind |-> "gap"]
                        ELSE [kind |-> "window", window |-> HistoryWindow(m.query, host),
                              colors |-> host.colors])
                   /\ UNCHANGED host
              [] m.kind = "sync" ->
                   /\ host' = [host EXCEPT !.sent = host.rev, !.acked = FALSE]
                   /\ down' = Append(down, Frame("snapshot", host))
              [] m.kind = "resize" /\ m.size = host.size -> UNCHANGED <<host, down>>
              [] m.kind = "resize" /\ m.size # host.size ->
                   /\ host' = wide
                   /\ down' = Append(down, Frame("snapshot", wide))
              [] m.kind = "ack" ->
                   /\ host' = [host EXCEPT !.acked = @ \/ m.rev = host.sent]
                   /\ UNCHANGED down
  /\ UNCHANGED <<events, slot, ui, ended, left>>

-----------------------------------------------------------------------------
(* What the frontend shows.                                                *)

IsLive(u) == u.state = "live"
IsHistory(u) == u.state = "history"
IsResuming(u) == u.state = "resume"

Presentable(u) == \/ IsLive(u)
                  \/ IsHistory(u) /\ VisibleRows(u.cache) # None

\* ComposedFrame::compose: without rows for the desired place the last
\* complete frame stays.
Composed(u) ==
  IF IsLive(u) THEN u.surface.rows
  ELSE IF IsHistory(u) /\ VisibleRows(u.cache) # None THEN VisibleRows(u.cache)[1]
  ELSE u.shown

LiveMax(u) == IF u.metrics = None THEN -1 ELSE u.metrics[1].max

\* How far the scrollbar believes it can go, -1 when it knows nothing.
ScrollExtent(u) ==
  CASE IsLive(u) -> LiveMax(u)
    [] IsHistory(u) -> IF VisibleRows(u.cache) # None THEN u.cache.anchor[1].max
                       ELSE u.extent
    [] OTHER -> IF u.applied THEN LiveMax(u) ELSE u.extent

ObservePresentation(u) ==
  LET u1 == [u EXCEPT !.cache = IF IsHistory(u) THEN CommitPresentation(@) ELSE @]
  IN  [u1 EXCEPT !.extent = ScrollExtent(u1)]
Paint(u) == [u EXCEPT !.shown = Composed(u)]
Present(u) == [ObservePresentation(Paint(u)) EXCEPT !.dirty = FALSE]

\* present_cached_viewport_stdout once its deadline passed.
PresentCached(u) == IF Presentable(u) THEN Present(u) ELSE [u EXCEPT !.dirty = FALSE]

LiveSource(u) == [kind |-> "live", epoch |-> 0, rev |-> u.surface.rev, first |-> 0,
                  size |-> u.size]
Source(u, at) ==
  CASE IsLive(u) -> Some(LiveSource(u))
    [] IsHistory(u) /\ ~u.notice -> IdentityAt(u.cache, at)
    [] OTHER -> None
PresentedSource(u) == Source(u, u.cache.presented)
NextSource(u) == Source(u, u.cache.desired)
SelectionRows(u) ==
  CASE IsLive(u) -> Some(u.surface.rows)
    [] IsHistory(u) /\ ~u.notice -> PresentedRows(u.cache)
    [] OTHER -> None

Idle == [state |-> "idle", source |-> None, moved |-> FALSE, picked |-> <<>>]
Cancelled == [Idle EXCEPT !.state = "cancelled"]
Cancel(s) == IF s.state = "dragging" THEN Cancelled ELSE Idle
Reconcile(s, source) ==
  IF s.state \in {"dragging", "finalized"} /\ s.source # source THEN Cancel(s) ELSE s
Rebase(s, rev) ==
  IF s.state \in {"dragging", "finalized"} /\ s.source[1].kind = "live"
  THEN [s EXCEPT !.source[1].rev = rev] ELSE s
Reconciled(u) == [u EXCEPT !.sel = Reconcile(@, PresentedSource(u))]

-----------------------------------------------------------------------------
(* The viewport controller.  An effect says whether to render, which query *)
(* to send and whether to ask for a snapshot.                              *)

Quiet == [render |-> FALSE, query |-> None, resume |-> FALSE]
Outcome(u, update) ==
  [ui |-> [u EXCEPT !.cache = update.cache],
   effect |-> [render |-> update.render, query |-> update.query, resume |-> FALSE]]
NoChange(u) == [ui |-> u, effect |-> Quiet]

NotDragging(u) == [u EXCEPT !.grab = FALSE, !.recent = FALSE, !.deferred = -1]

StartResumeForgets(u) ==
  [ui |-> [NotDragging(u) EXCEPT !.cache = EmptyCache, !.state = "resume",
                                 !.applied = FALSE],
   effect |-> [Quiet EXCEPT !.resume = TRUE]]
StartResume(u) ==
  [ui |-> [NotDragging(u) EXCEPT !.discard = @ \/ u.cache.pending # None,
                                 !.cache = EmptyCache, !.state = "resume",
                                 !.applied = FALSE],
   effect |-> [Quiet EXCEPT !.resume = TRUE]]

\* set_history_target: while an obsolete answer is awaited only the target
\* is kept.
SetHistoryTarget(u, t) ==
  LET update == SetTarget(u.cache, t)
  IN  Outcome(u, IF u.discard /\ update.query # None
                 THEN [update EXCEPT !.query = None, !.cache = Defer(@)]
                 ELSE update)

PrefetchLive(u) ==
  IF ~IsLive(u) \/ u.discard \/ LiveMax(u) <= 0 THEN NoChange(u)
  ELSE LET o == Outcome(u, SetTarget(u.cache, 0))
       IN  [o EXCEPT !.effect.render = FALSE]

RefetchHistory(u) ==
  IF ~IsHistory(u) \/ u.discard \/ VisibleRows(u.cache) # None THEN NoChange(u)
  ELSE LET o == Outcome(u, SetTarget(u.cache, u.cache.desired))
       IN  [o EXCEPT !.effect.render = FALSE]

EnterHistory(o) == [o EXCEPT !.ui.state = "history", !.ui.notice = FALSE,
                             !.ui.retained = FALSE]

Navigate(u, older) ==
  LET target == IF older THEN u.cache.desired + 1 ELSE u.cache.desired - 1
  IN  CASE IsLive(u) ->
             IF ~older \/ LiveMax(u) = 0 \/ u.cache.anchor = None THEN NoChange(u)
             ELSE EnterHistory(SetHistoryTarget(u, 1))
        [] IsHistory(u) ->
             IF target <= 0 THEN StartResume(u) ELSE SetHistoryTarget(u, target)
        [] OTHER -> NoChange(u)

ScrollTo(u, t) ==
  IF IsHistory(u)
  THEN IF t = 0 /\ ~u.grab THEN StartResume(u) ELSE SetHistoryTarget(u, t)
  ELSE IF LiveMax(u) < 0 \/ t = 0 \/ u.cache.anchor = None THEN NoChange(u)
  ELSE EnterHistory(SetHistoryTarget(u, t))

\* pace_drag_effect: a motion soon after the last request keeps its target
\* for the release.
Pace(o, t, soon) ==
  IF o.effect.query = None THEN o
  ELSE IF o.ui.recent /\ soon
  THEN [o EXCEPT !.ui.cache = Defer(@), !.ui.deferred = t, !.effect.query = None]
  ELSE [o EXCEPT !.ui.recent = TRUE, !.ui.deferred = -1]

\* apply_view_history_window for an answer of the host, or for the gap the
\* client makes up when the connection is lost.
ReceiveWindow(u, w) ==
  IF u.discard
  THEN LET u1 == [u EXCEPT !.discard = FALSE]
           again == RefetchHistory(u1)
       IN  IF again.effect.query # None THEN again ELSE PrefetchLive(again.ui)
  ELSE IF w = None
  THEN NoChange([u EXCEPT !.cache = InvalidateRows(Defer(@))])
  ELSE IF w[1].anchor.size # u.size
  THEN Outcome(u, SetTarget(Defer(u.cache), u.cache.desired))
  ELSE LET o == Outcome(u, Install(u.cache, w[1]))
       IN  IF o.effect.render /\ o.ui.cache.desired = 0 /\ IsLive(u)
           THEN [o EXCEPT !.effect = Quiet]
           ELSE [o EXCEPT !.ui.notice = IF o.effect.render /\ IsHistory(u)
                                        THEN w[1].rebased ELSE @]

\* apply_viewport_effect: what an effect paints.
Rendered(o, now) ==
  CASE o.effect.resume -> [o.ui EXCEPT !.dirty = FALSE, !.full = TRUE]
    [] ~o.effect.resume /\ o.effect.render ->
         IF Presentable(o.ui)
         THEN IF now THEN Present(o.ui) ELSE [o.ui EXCEPT !.dirty = TRUE]
         ELSE IF o.effect.query = None THEN Present(o.ui)
         ELSE [o.ui EXCEPT !.dirty = FALSE]
    [] OTHER -> IF Presentable(o.ui) THEN o.ui ELSE [o.ui EXCEPT !.dirty = FALSE]

\* ... and what it sends.  The client refuses a second query, which ends
\* the view; without a connection it answers a query with a gap itself.
Send(rest, messages, o, u) ==
  LET asks == o.effect.query # None
      gap == Event("gap")
  IN  IF asks /\ slot
      THEN /\ ended' = "rejected"
           /\ ui' = o.ui
           /\ events' = rest
           /\ UNCHANGED <<up, slot>>
      ELSE /\ ui' = u
           /\ UNCHANGED ended
           /\ IF host.linked
              THEN /\ slot' = (slot \/ asks)
                   /\ up' = up \o messages
                          \o [i \in DOMAIN o.effect.query |->
                                [kind |-> "query", query |-> o.effect.query[i]]]
                          \o (IF o.effect.resume THEN <<Event("sync")>> ELSE <<>>)
                   /\ events' = rest
              ELSE /\ UNCHANGED <<up, slot>>
                   /\ events' \in IF asks
                                  THEN {Append(rest, gap)} \cup
                                       {SubSeq(rest, 1, i - 1) \o <<gap>> \o
                                          SubSeq(rest, i, Len(rest)) :
                                          i \in {j \in DOMAIN rest :
                                                   rest[j].kind = "reconnecting"}}
                                  ELSE {rest}

-----------------------------------------------------------------------------
(* The user.  A chunk of input ends with a presentation if one is due,     *)
(* which is Deadline right after it, or forced by a release.               *)

Owns(s) == s.state \in {"dragging", "cancelled"}
MayNavigate(u) == IsLive(u) => u.transport = "active"

Places(u) == {0, ScrollExtent(u) \div 2, ScrollExtent(u)}

Applies(o) ==
  /\ Send(events, <<>>, o, Rendered(o, FALSE))
  /\ UNCHANGED <<host, down>>

\* invalidate_selection_stdout
DropSelection(u) ==
  LET overlay == u.sel.source # None /\ u.sel.source = PresentedSource(u)
      u1 == Reconciled([u EXCEPT !.sel = Cancel(@)])
  IN  IF overlay THEN Present(u1) ELSE u1

Wheel ==
  /\ Spend("wheel")
  /\ ~ui.grab /\ ~Owns(ui.sel) /\ ~IsResuming(ui) /\ MayNavigate(ui)
  /\ \E older \in BOOLEAN :
       LET o == Navigate([ui EXCEPT !.sel = Idle], older)
       IN  Applies([o EXCEPT !.ui = Reconciled(@)])

PageKey ==
  /\ Spend("wheel")
  /\ MayNavigate(ui)
  /\ \E older \in BOOLEAN :
       IF IsResuming(ui)
       THEN Applies(NoChange([DropSelection(ui) EXCEPT !.retained = TRUE]))
       ELSE Applies(Navigate(DropSelection(ui), older))

TypeKey ==
  /\ Spend("key")
  /\ ~IsLive(ui)
  /\ LET o == IF IsHistory(ui) THEN StartResume(DropSelection(ui))
              ELSE NoChange(DropSelection(ui))
     IN  Applies([o EXCEPT !.ui.retained = TRUE])

\* The pointer grabs the scrollbar at the place of target t.
GutterPress ==
  /\ Spend("drag")
  /\ ~ui.grab /\ ~Owns(ui.sel) /\ MayNavigate(ui)
  /\ ScrollExtent(ui) > 0
  /\ \E t \in Places(ui) :
       LET o == ScrollTo([ui EXCEPT !.sel = Idle, !.grab = TRUE], t)
           asks == o.effect.query # None
       IN  Applies([o EXCEPT !.ui = Reconciled([@ EXCEPT !.recent = asks])])

GutterMotion ==
  /\ Spend("drag")
  /\ ui.grab /\ MayNavigate(ui)
  /\ LET u == [ui EXCEPT !.sel = Idle]
     IN  IF ScrollExtent(ui) <= 0
         THEN Applies(NoChange([u EXCEPT !.grab = FALSE]))
         ELSE \E t \in Places(ui), soon \in BOOLEAN :
                /\ IsHistory(ui) => t # ui.cache.desired
                /\ LET o == Pace(ScrollTo(u, t), t, soon)
                   IN  Applies([o EXCEPT !.ui = Reconciled(@)])

\* The release asks for the target a paced motion kept.
Released(u) ==
  LET u1 == [u EXCEPT !.grab = FALSE, !.recent = FALSE, !.deferred = -1, !.sel = Idle]
  IN  IF u.deferred >= 0 THEN ScrollTo([u1 EXCEPT !.cache = Defer(@)], u.deferred)
      ELSE IF IsHistory(u) /\ u.cache.desired = 0 THEN StartResume(u1)
      ELSE NoChange(u1)
GutterRelease ==
  /\ ended = "no" /\ ui.grab
  /\ LET o == Released(ui)
         o1 == [o EXCEPT !.ui = Reconciled(@)]
     IN  Send(events, <<>>, o1, PresentCached(Rendered(o1, FALSE)))
  /\ UNCHANGED <<host, down>>
  /\ UNCHANGED left

SelectionChanged(u, force) ==
  LET u1 == Reconciled(u)
  IN  /\ ui' = IF force THEN PresentCached(u1)
               ELSE [u1 EXCEPT !.dirty = Presentable(u1)]
      /\ UNCHANGED <<host, up, down, events, slot, ended>>

SelectPress ==
  /\ Spend("select")
  /\ ~ui.grab /\ ~Owns(ui.sel)
  /\ LET source == PresentedSource(ui)
         rows == SelectionRows(ui)
     IN  SelectionChanged([ui EXCEPT !.sel =
           IF source = None \/ rows = None THEN Idle
           ELSE [state |-> "dragging", source |-> source, moved |-> FALSE,
                 picked |-> rows[1]]], FALSE)

SelectMotion ==
  /\ ended = "no" /\ ~ui.grab /\ Owns(ui.sel) /\ ~ui.sel.moved
  /\ LET source == PresentedSource(ui)
         s == ui.sel
     IN  SelectionChanged([ui EXCEPT !.sel =
           IF source = None \/ SelectionRows(ui) = None THEN Cancel(s)
           ELSE IF s.state # "dragging" THEN s
           ELSE IF s.source # source THEN Cancelled
           ELSE [s EXCEPT !.moved = TRUE]], FALSE)
  /\ UNCHANGED left

SelectRelease ==
  /\ ended = "no" /\ ~ui.grab /\ Owns(ui.sel)
  /\ SelectionChanged([ui EXCEPT !.sel =
       IF @.state = "dragging" /\ @.moved THEN [@ EXCEPT !.state = "finalized"]
       ELSE Idle], TRUE)
  /\ UNCHANGED left

\* ResizeCoalescer::observe: a size is submitted at once to an active view,
\* and kept for later by any other.
Observed(u) == IF u.transport = "active" THEN [u EXCEPT !.pending = None, !.submitted = u.size]
               ELSE [u EXCEPT !.pending = Some(u.size)]
Submits(u) == u.transport = "active" /\ u.submitted # u.size
ResizeSent(u) == IF host.linked THEN <<[kind |-> "resize", size |-> u.size]>> ELSE <<>>

\* The view synchronizes until the resized screen arrives.
Resized(u) ==
  IF Submits(u) THEN [Observed(u) EXCEPT !.healthy = IsLive(u), !.transport = "synchronizing",
                                         !.sel = Cancel(@)]
  ELSE Observed(u)

\* SIGWINCH.
Resize ==
  /\ Spend("resize")
  /\ LET u1 == [ui EXCEPT !.size = 1 - @, !.extent = -1, !.dirty = FALSE,
                          !.sel = Cancel(@),
                          !.cache = IF ui.metrics = None THEN @
                                    ELSE Observe(@, [epoch |-> ui.metrics[1].epoch,
                                                     rev |-> ui.metrics[1].rev,
                                                     max |-> ui.metrics[1].max,
                                                     size |-> 1 - ui.size])]
     IN  \E u \in {Present(Reconciled(u1))} :
           /\ ui' = Resized(u)
           /\ up' = up \o (IF Submits(u) THEN ResizeSent(u) ELSE <<>>)
  /\ UNCHANGED <<host, down, events, slot, ended>>

\* The pacer's deadline, or a status line that is painted with the frame.
Deadline ==
  /\ ended = "no" /\ ui.dirty
  /\ ui' = PresentCached(ui)
  /\ UNCHANGED <<host, up, down, events, slot, ended, left>>
PaintStatus ==
  /\ Spend("paint")
  /\ ui' = Present(ui)
  /\ UNCHANGED <<host, up, down, events, slot, ended>>

-----------------------------------------------------------------------------
(* The client and the events it hands to the frontend.                     *)

ClientReads ==
  /\ ended = "no" /\ down # <<>>
  /\ events' = Append(events, Head(down))
  /\ down' = Tail(down)
  /\ slot' = (slot /\ Head(down).kind \notin {"window", "gap"})
  /\ UNCHANGED <<host, up, ui, ended, left>>

\* The connection breaks.  A query without an answer is answered by a gap.  A
\* clean end leaves the checkpoint of a synchronized attachment to be resumed.
Drop ==
  /\ Spend("drop")
  /\ host.linked
  /\ \E clean \in BOOLEAN :
       host' = [host EXCEPT !.linked = FALSE,
                            !.saved = IF clean /\ host.acked THEN host.sent ELSE 0]
  /\ up' = <<>> /\ down' = <<>> /\ slot' = FALSE
  /\ events' = events \o (IF slot THEN <<Event("gap")>> ELSE <<>>)
                      \o <<Event("reconnecting")>>
  /\ UNCHANGED <<ui, ended>>

\* The first frame of the new stream continues what the frontend has drawn, if
\* the host has just that checkpoint and no full snapshot was asked for.
Reconnect ==
  /\ ended = "no" /\ ~host.linked
  /\ host' = [host EXCEPT !.linked = TRUE, !.acked = FALSE, !.sent = host.rev, !.saved = 0]
  /\ \/ down' = <<Frame("snapshot", host)>>
     \/ /\ host.saved = ui.surface.rev /\ ~ui.full
        /\ down' = <<[Frame("delta", host) EXCEPT !.resume = TRUE]>>
  /\ UNCHANGED <<up, events, slot, ui, ended, left>>

Next1(kind) == ended = "no" /\ events # <<>> /\ Head(events).kind = kind

Metrics(a) == Some([epoch |-> a.epoch, rev |-> a.rev, max |-> a.max])
ObserveMetrics(u, a) ==
  [u EXCEPT !.metrics = Metrics(a),
            !.cache = Observe(@, [a EXCEPT !.size = u.size])]
Surface(f) == [rev |-> f.anchor.rev, rows |-> f.rows, colors |-> f.colors]

\* A delta that only recolours leaves a live selection where it is.
OnlyRecoloursBlindly(u, f) == f.colors # u.surface.colors
OnlyRecolours(u, f) == f.colors # u.surface.colors /\ f.rows = u.surface.rows

\* What the acknowledgement of a snapshot or of a resumed delta brings about.
Acked(rest) == IF host.linked THEN Append(rest, Event("active")) ELSE rest
Ack(f) == <<[kind |-> "ack", rev |-> f.anchor.rev]>>

\* What Synchronizing leaves, which announces a resumed delta.
Announced == Present(Reconciled([ui EXCEPT !.transport = "synchronizing", !.sel = Cancel(@),
                                           !.dirty = FALSE]))

\* A delta is drawn by a view that is live, or whose resume it completes.
Draws(u, f) == IsLive(u) \/ (f.resume /\ IsResuming(u))
Drawn(u, f) ==
  LET u1 == [ObserveMetrics(u, f.anchor) EXCEPT
               !.surface = Surface(f), !.applied = @ \/ (f.resume /\ IsResuming(u))]
      sel == IF ~Draws(u, f) THEN u.sel
             ELSE IF OnlyRecolours(u, f) THEN Rebase(u.sel, f.anchor.rev)
             ELSE Cancel(u.sel)
      u2 == [u1 EXCEPT !.sel = Reconcile(sel, PresentedSource(u1)),
                       !.shown = IF Draws(u, f) THEN f.rows
                                 ELSE IF f.colors # u.surface.colors THEN Composed(u) ELSE @]
  IN  IF Draws(u, f) THEN [ObservePresentation(u2) EXCEPT !.dirty = FALSE]
      ELSE IF Presentable(u2) THEN u2 ELSE [u2 EXCEPT !.dirty = FALSE]

\* A resumed delta completes a pending resume as a snapshot does and is
\* acknowledged.
OnDelta ==
  /\ Next1("delta")
  /\ LET f == Head(events) IN
     \E u \in {IF f.resume THEN Announced ELSE ui} : \E drawn \in {Drawn(u, f)} :
       /\ ui' = IF Draws(u, f) THEN Resized(drawn) ELSE drawn
       /\ up' = up \o (IF Draws(u, f) /\ Submits(drawn) THEN ResizeSent(drawn) ELSE <<>>)
                   \o (IF f.resume /\ host.linked THEN Ack(f) ELSE <<>>)
       /\ events' = IF f.resume THEN Acked(Tail(events)) ELSE Tail(events)
  /\ UNCHANGED <<host, down, slot, ended, left>>

\* The snapshot is painted, acknowledged, and the window it made obsolete is
\* asked for again.
OnSnapshot ==
  /\ Next1("snapshot")
  /\ LET f == Head(events)
         u0 == Reconciled([ui EXCEPT !.sel = Cancel(@), !.dirty = FALSE,
                                     !.transport = IF IsResuming(ui) THEN @
                                                   ELSE "synchronizing"])
         u1 == [ObserveMetrics(u0, f.anchor) EXCEPT
                  !.surface = Surface(f),
                  !.shown = IF IsHistory(u0) THEN Composed(u0) ELSE f.rows,
                  !.applied = IsResuming(u0), !.full = FALSE]
         o == RefetchHistory(Observed(u1))
     IN  Send(Acked(Tail(events)), Ack(f), o, ObservePresentation(o.ui))
  /\ UNCHANGED <<host, down, left>>

OnSyncRequired ==
  /\ Next1("sync")
  /\ LET u1 == Reconciled([ui EXCEPT !.sel = Cancel(@), !.dirty = FALSE,
                                     !.transport = "synchronizing"])
     IN  ui' = IF IsLive(u1) /\ ~u1.healthy THEN StartResume(u1).ui ELSE u1
  /\ events' = Tail(events)
  /\ UNCHANGED <<host, up, down, slot, ended, left>>

\* transition_transport to Active: a size that was kept is submitted and the
\* view goes on synchronizing; otherwise an applied resume becomes live and the
\* first window is prefetched, where a refused prefetch only forgets it.
FinishResume(u) == IF IsResuming(u) /\ u.applied
                   THEN [u EXCEPT !.state = "live", !.retained = FALSE] ELSE u
Kept == ui.pending # None /\ ui.pending # Some(ui.submitted)
OnActiveKept ==
  /\ Next1("active") /\ Kept
  /\ LET u1 == [ui EXCEPT !.dirty = FALSE, !.pending = None, !.submitted = ui.pending[1],
                          !.transport = "synchronizing",
                          !.sel = IF ui.transport = "synchronizing" THEN @ ELSE Cancel(@)]
     IN  ui' = Present(Reconciled(u1))
  /\ up' = up \o (IF host.linked THEN <<[kind |-> "resize", size |-> ui.pending[1]]>>
                  ELSE <<>>)
  /\ events' = Tail(events)
  /\ UNCHANGED <<host, down, slot, ended, left>>

OnActive ==
  /\ Next1("active") /\ ~Kept
  /\ LET u1 == IF ui.healthy THEN ui ELSE FinishResume(ui)
         u2 == Present(Reconciled([u1 EXCEPT !.dirty = FALSE, !.pending = None]))
         o == PrefetchLive([u2 EXCEPT !.transport = "active", !.healthy = FALSE])
     IN  IF o.effect.query # None /\ slot
         THEN /\ ui' = [o.ui EXCEPT !.cache = Defer(@)]
              /\ events' = Tail(events)
              /\ UNCHANGED <<up, slot, ended>>
         ELSE Send(Tail(events), <<>>, o, o.ui)
  /\ UNCHANGED <<host, down, left>>

\* reset_presentation_for_reconnect and the rest of the transition.
OnReconnecting ==
  /\ Next1("reconnecting")
  /\ LET u0 == NotDragging(ui)
         u1 == IF IsHistory(u0) THEN StartResume(u0).ui
               ELSE [u0 EXCEPT !.discard = @ \/ u0.cache.pending # None,
                               !.cache = EmptyCache]
         u2 == [u1 EXCEPT !.metrics = None, !.extent = -1, !.applied = FALSE,
                          !.healthy = FALSE, !.sel = Cancel(@), !.dirty = FALSE,
                          !.transport = "reconnecting"]
     IN  ui' = Present(Reconciled(u2))
  /\ events' = Tail(events)
  /\ UNCHANGED <<host, up, down, slot, ended, left>>

OnWindow ==
  /\ ended = "no" /\ events # <<>> /\ Head(events).kind \in {"window", "gap"}
  /\ LET e == Head(events)
         w == IF e.kind = "gap" THEN None ELSE Some(e.window)
         fits == /\ ui.cache.pending # None
                 /\ w # None => \/ w[1].anchor.size # ui.size
                                \/ Answers(w[1], ui.cache.pending[1])
         o == ReceiveWindow(ui, w)
         u == [o.ui EXCEPT !.sel = Reconcile(@, NextSource(o.ui)),
                           !.ink = IF w = None THEN @ ELSE Max({@, e.colors})]
         repaints == w # None /\ u.ink > Max({ui.ink, ui.surface.colors})
     IN  IF ~ui.discard /\ ~fits
         THEN /\ ended' = "malformed"
              /\ events' = Tail(events)
              /\ UNCHANGED <<up, slot, ui>>
         ELSE \E now \in BOOLEAN :
                LET u1 == Rendered([o EXCEPT !.ui = u], now)
                IN  Send(Tail(events), <<>>, [o EXCEPT !.ui = u],
                         Reconciled(IF repaints THEN Paint(u1) ELSE u1))
  /\ UNCHANGED <<host, down, left>>

-----------------------------------------------------------------------------
FirstRows == [i \in 1..(Retained + Rows) |-> -i]
Init ==
  /\ host = [rows |-> FirstRows, rev |-> 1, epoch |-> 1, size |-> 0, colors |-> 1,
             sent |-> 1, acked |-> TRUE, linked |-> TRUE, saved |-> 0]
  /\ LET a == HostAnchor(host)
     IN  ui = [state |-> "live", applied |-> FALSE, notice |-> FALSE, retained |-> FALSE,
               size |-> 0, metrics |-> Metrics(a), extent |-> a.max,
               grab |-> FALSE, recent |-> FALSE, deferred |-> -1, discard |-> FALSE,
               cache |-> Observe(EmptyCache, a), dirty |-> FALSE,
               surface |-> Surface(Frame("snapshot", host)),
               shown |-> Frame("snapshot", host).rows, ink |-> 1, sel |-> Idle,
               transport |-> "synchronizing", healthy |-> FALSE, full |-> FALSE,
               pending |-> None, submitted |-> 0]
  /\ events = <<Event("active")>>
  /\ up = <<>> /\ down = <<>> /\ slot = FALSE /\ ended = "no"
  /\ left \in Budgets

Next == \/ HostWrites \/ HostScrolls \/ HostClears \/ HostRecolors
        \/ HostSendsDelta \/ HostResyncs \/ HostHandles
        \/ Wheel \/ PageKey \/ TypeKey
        \/ GutterPress \/ GutterMotion \/ GutterRelease
        \/ SelectPress \/ SelectMotion \/ SelectRelease
        \/ Resize \/ Deadline \/ PaintStatus
        \/ ClientReads \/ Drop \/ Reconnect
        \/ OnDelta \/ OnSnapshot \/ OnSyncRequired \/ OnActiveKept \/ OnActive \/ OnReconnecting
        \/ OnWindow

Spec == Init /\ [][Next]_vars

-----------------------------------------------------------------------------
(* Correctness.                                                            *)

\* With the desired rows at hand and nothing waiting to be painted, the rows
\* a new selection would take its text from are the rows on the screen
\* (selection_rows against the last committed frame), however windows,
\* deltas and resynchronisations crossed.
SelectsWhatIsShown ==
  (/\ ended = "no" /\ ~ui.dirty /\ ui.transport = "active"
   /\ Presentable(ui) /\ PresentedSource(ui) # None) =>
     SelectionRows(ui) = Some(ui.shown)

\* A selection that can still be copied yields the text that was under the
\* pointer when it began: the source identity stands for exactly those rows
\* (SelectionController::extract).
CopiesWhatWasPicked ==
  (ui.sel.state = "finalized" /\ ui.sel.source = PresentedSource(ui)) =>
    SelectionRows(ui) = Some(ui.sel.picked)

\* Every answer finds the request it belongs to, so the view never ends with
\* a malformed history window (apply_view_history_window).
AnswersAreExpected == ended # "malformed"

\* A frontend that asks again while a window is in flight must not end a
\* healthy attachment (client/src/view.rs:1115).
AskingAgainIsHarmless == ended # "rejected"

\* A page kept for a live gesture never shows stale live rows as the new
\* revision (viewport_cache.rs:415): entering history from the live view, a
\* row shown from the cache is no older than the same row of the surface.
EntersFresh ==
  [][(ui.state = "live" /\ ui'.state = "history" /\ VisibleRows(ui'.cache) # None) =>
       LET rows == VisibleRows(ui'.cache)[1]
           above == ui'.cache.anchor[1].max - ui'.cache.desired - LiveMax(ui)
       IN  \A i \in 1..Rows :
             (above + i \in 1..Rows /\ ui.metrics[1].epoch = ui'.cache.anchor[1].epoch)
               => rows[i] >= ui.surface.rows[above + i]]_vars

\* Input typed in history is kept until the live view can take it.
TypedIsKept ==
  [][(ui.retained /\ ~ui'.retained) => ui'.state = "live"]_vars
==============================================================================
