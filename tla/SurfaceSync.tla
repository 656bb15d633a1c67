----------------------------- MODULE SurfaceSync -----------------------------
(***************************************************************************)
(* A screen kept in step: the host's terminal                              *)
(* (crates/terminal/src/{ingress,engine,hyperlinks,model}.rs), the updates *)
(* captured from it, and the frontend's copy                               *)
(* (crates/core/src/terminal.rs).                                          *)
(*                                                                         *)
(* A step of the program is one control sequence, already framed: one turn *)
(* of ingest_observing.  What Alacritty's grid does with it is modelled by *)
(* what the code relies on: rows, the history above them, a pen with its   *)
(* link and a saved one, per screen.  The frontend gets captures in order; *)
(* how they are paced is TerminalView's subject, and the hold of a batch   *)
(* is TerminalDriver's.                                                    *)
(***************************************************************************)
EXTENDS TerminalSurface

CONSTANTS
  Drawings,    \* rows of engine cells the program may draw
  Links,       \* links it may open
  Colors,      \* colors it may set, a subset of strings
  Profiles,    \* palettes a controller may report
  Sizes,       \* sizes of the terminal, [rows, columns]
  Scrollback,  \* scrollback_rows
  Budgets      \* the first size, and bounds on what happens, by kind

VARIABLES
  engine,  \* AlacrittyEngine
  model,   \* TerminalModel's own fields
  base,    \* the checkpoint the next capture is compared with, or <<>>
  query,   \* the history query that waits for an answer, or <<>>
  client,  \* the frontend's copy; truth and rows are the host's own
  left     \* what remains of the budget

vars == <<engine, model, base, query, client, left>>

Spend(kind) == left[kind] > 0 /\ left' = [left EXCEPT ![kind] = @ - 1]

-----------------------------------------------------------------------------
(***************************************************************************)
(* The engine.                                                             *)
(***************************************************************************)
EmptyCell == [c |-> " ", wide |-> "none", style |-> NoStyle, link |-> 0]
EmptyRow(columns) == [cells |-> [i \in 1..columns |-> EmptyCell], wrapped |-> FALSE]

NewGrid(size) ==
  [hist |-> <<>>, rows |-> [i \in 1..size.rows |-> EmptyRow(size.columns)], cursor |-> 0,
   pen |-> 0, saved |-> 0]

NewEngine(size) ==
  [main |-> NewGrid(size), alternate |-> NewGrid(size), screen |-> "main", title |-> "",
   flags |-> {}, colors |-> NewColors, links |-> {},
   used |-> [main |-> {}, alternate |-> {}]]

Grid(e) == e[e.screen]
WithGrid(e, g) == [e EXCEPT ![e.screen] = g]
SizeOf(g) == [rows |-> Len(g.rows), columns |-> Len(g.rows[1].cells)]
Size(e) == SizeOf(Grid(e))
Height(e) == Size(e).rows

\* External: the links of a grid's cells and pens.
GridLinks(g) ==
  ({g.pen, g.saved}
     \cup {r.cells[j].link : r \in ToSet(g.rows \o g.hist), j \in 1..SizeOf(g).columns}) \ {0}

\* reconcile_hyperlinks: the active screen is read again, the other one
\* counts as it was last read.
Reconcile(e) ==
  LET used == [e.used EXCEPT ![e.screen] = GridLinks(Grid(e))]
  IN [e EXCEPT !.used = used, !.links = @ \cap (used.main \cup used.alternate)]

\* close_hyperlink, set_web_hyperlink: a full table is read again first, and
\* a link without room is refused, with no link open.
CloseLink(e) == WithGrid(e, [Grid(e) EXCEPT !.pen = 0])
OpenLink(e, l) ==
  LET closed == CloseLink(e)
      room == IF Cardinality(closed.links) >= MaxLinks THEN Reconcile(closed) ELSE closed
  IN IF l \in closed.links THEN WithGrid(closed, [Grid(closed) EXCEPT !.pen = l])
     ELSE IF Cardinality(room.links) >= MaxLinks THEN room
     ELSE WithGrid([room EXCEPT !.links = @ \cup {l}], [Grid(room) EXCEPT !.pen = l])

\* External: feed_raw of text into one row, with the pen's link.
Drawn(e, i, cells) ==
  LET g == Grid(e)
  IN WithGrid(e, [g EXCEPT !.cursor = i - 1,
        !.rows[i] = [cells |-> [j \in 1..Size(e).columns |-> [cells[j] EXCEPT !.link = g.pen]],
                     wrapped |-> FALSE]])

\* External: a line feed in the last row.  Only the main screen has history.
Capped(hist) == IF Len(hist) > Scrollback THEN Tail(hist) ELSE hist
Scrolled(g, keeps) ==
  [g EXCEPT !.hist = IF keeps THEN Capped(Append(@, g.rows[1])) ELSE @,
            !.rows = Append(Tail(@), EmptyRow(SizeOf(g).columns)), !.cursor = Len(g.rows) - 1]

\* External: DECSC and DECRC.
Saved(e) == WithGrid(e, [Grid(e) EXCEPT !.saved = Grid(e).pen])
Back(e) == WithGrid(e, [Grid(e) EXCEPT !.pen = Grid(e).saved])

\* External: entering the alternate screen clears it and copies the pen.
Swapped(e, enter) ==
  IF enter = (e.screen = "alternate") THEN e
  ELSE IF enter
  THEN [e EXCEPT !.screen = "alternate", !.main.saved = e.main.pen,
                 !.alternate = [NewGrid(Size(e)) EXCEPT !.pen = e.main.pen,
                                   !.cursor = e.main.cursor, !.saved = e.alternate.saved]]
  ELSE [e EXCEPT !.screen = "main"]

\* Mutant: links are read again only after the switch.
TransitionLate(e, enter) == Reconcile(Swapped(e, enter))

\* feed_screen_transition.
Transition(e, enter) == Reconcile(Swapped(Reconcile(e), enter))

\* External: a grid is cut below the cursor, or takes rows from its history.
RECURSIVE Fit(_, _, _)
Fit(g, rows, keeps) ==
  IF Len(g.rows) > rows
  THEN IF g.cursor + 1 > rows
       THEN Fit([g EXCEPT !.hist = IF keeps THEN Capped(Append(@, g.rows[1])) ELSE @,
                          !.rows = Tail(@), !.cursor = @ - 1], rows, keeps)
       ELSE [g EXCEPT !.rows = SubSeq(@, 1, rows)]
  ELSE IF Len(g.rows) < rows
  THEN IF g.hist # <<>>
       THEN Fit([g EXCEPT !.hist = Front(@), !.rows = <<Last(g.hist)>> \o @,
                          !.cursor = @ + 1], rows, keeps)
       ELSE Fit([g EXCEPT !.rows = Append(@, EmptyRow(SizeOf(g).columns))], rows, keeps)
  ELSE g

\* External: every row is cut or filled to a width.  Where the main screen
\* puts what it cuts off, a line of its own, is left to the grid.
Sized(row, columns) ==
  [row EXCEPT !.cells = [j \in 1..columns |-> IF j <= Len(@) THEN @[j] ELSE EmptyCell]]
Widened(g, columns) ==
  [g EXCEPT !.rows = [i \in 1..Len(@) |-> Sized(@[i], columns)],
            !.hist = [i \in 1..Len(@) |-> Sized(@[i], columns)]]

\* resize: on the alternate screen the cursor is clamped first, so that its
\* rows stay where the program put them.
Resized(e, size) ==
  LET clamped == IF e.screen = "alternate" /\ e.alternate.cursor > size.rows - 1
                 THEN [e EXCEPT !.alternate.cursor = size.rows - 1] ELSE e
      to(g, keeps) == Fit(Widened(g, size.columns), size.rows, keeps)
  IN Reconcile([clamped EXCEPT !.main = to(@, TRUE), !.alternate = to(@, FALSE)])

\* feed_reset: RIS.
Reset(e) == [NewEngine(Size(e)) EXCEPT !.colors = ResetColors(e.colors)]

\* apply_private_modes: the private ones are kept here, the others go to the
\* grid in one sequence.
ApplyModes(e, modes, enabled) ==
  LET own == [e EXCEPT !.colors.reverse = IF "reverse" \in modes THEN enabled ELSE @,
                       !.colors.subscribed = IF "subscribe" \in modes THEN enabled ELSE @]
      rest == modes \ {"reverse", "subscribe", "screen"}
      flagged == [own EXCEPT !.flags = IF enabled THEN @ \cup rest ELSE @ \ rest]
  IN IF "screen" \in modes THEN Transition(flagged, enabled) ELSE flagged
TouchesGrid(modes) == modes \ {"reverse", "subscribe", "x10"} # {}

-----------------------------------------------------------------------------
(***************************************************************************)
(* The model.                                                              *)
(***************************************************************************)
\* refresh_history_epoch_after_ingest.
Refreshed(m, e) ==
  LET retained == Len(e.main.hist)
      full == Scrollback > 0 /\ retained = Scrollback /\ m.retained <= retained
  IN IF e.screen # "main" THEN m
     ELSE [m EXCEPT !.retained = retained,
                    !.epoch = IF retained < @ \/ full THEN m.revision ELSE @]

\* project, TerminalModel::checkpoint, live_scroll_metrics.
Projection(e) ==
  [title |-> e.title, colors |-> e.colors.snapshot,
   size |-> Size(e), screen |-> e.screen,
   rows |-> [i \in 1..Height(e) |-> ProjectedRow(Grid(e).rows[i], e.links)],
   cursor |-> [row |-> IF Grid(e).cursor < Height(e) THEN Grid(e).cursor ELSE Height(e) - 1,
               column |-> 0, shape |-> IF "beam" \in e.flags THEN "beam" ELSE "block",
               style |-> NoStyle],
   modes |-> Modes(e.flags)]

Metrics(m, e) ==
  IF e.screen # "main" THEN <<>>
  ELSE <<[epoch |-> m.epoch, revision |-> m.revision, offset |-> 0, max |-> m.retained,
          rows |-> Height(e)]>>

Checkpoint(m, e) ==
  IF m.held # <<>> THEN m.held[1]
  ELSE [revision |-> m.revision, projection |-> Projection(e), metrics |-> Metrics(m, e)]

\* ProjectedScreen::to_surface.
SurfaceOf(c) == c.projection @@ [metrics |-> c.metrics]

\* Mutant: rows are compared by what they say.
RowPatchesText(before, after) ==
  LET texts(row) == [i \in 1..Len(row.cells) |-> row.cells[i].text]
      changed == {i \in 1..Len(after) : texts(before[i]) # texts(after[i])}
  IN [k \in 1..Cardinality(changed) |->
        LET i == CHOOSE x \in changed : Cardinality({y \in changed : y < x}) = k - 1
        IN [row |-> i - 1, replacement |-> after[i]]]

RowPatches(before, after) ==
  LET changed == {i \in 1..Len(after) : before[i] # after[i]}
  IN [k \in 1..Cardinality(changed) |->
        LET i == CHOOSE x \in changed : Cardinality({y \in changed : y < x}) = k - 1
        IN [row |-> i - 1, replacement |-> after[i]]]

Replaces(old, new) ==
  \/ old.revision >= new.revision
  \/ old.projection.size # new.projection.size
  \/ old.projection.screen # new.projection.screen

\* capture, update_from_projection.
Update(old, new) ==
  IF old = <<>> THEN SnapshotMessage(new.revision, SurfaceOf(new))
  ELSE IF Replaces(old[1], new) THEN SnapshotMessage(new.revision, SurfaceOf(new))
  ELSE LET p == new.projection
       IN DeltaMessage([title |-> p.title, colors |-> p.colors, from |-> old[1].revision,
            to |-> new.revision, size |-> p.size, screen |-> p.screen,
            patches |-> RowPatches(old[1].projection.rows, p.rows),
            cursor |-> p.cursor, modes |-> p.modes, metrics |-> new.metrics])

\* project_history_window.
Row(g, line) == IF line < 0 THEN g.hist[Len(g.hist) + 1 + line] ELSE g.rows[line + 1]
HistoryWindow(m, e, q) ==
  LET anchor == [epoch |-> m.epoch, revision |-> m.revision, max |-> m.retained,
                 size |-> Size(e)]
      shape == ResponseShape(q, anchor)
      none(kind) == [kind |-> kind, epoch |-> m.epoch, revision |-> m.revision]
  IN IF ~ValidQuery(q) \/ q.anchor.revision > m.revision THEN none("gap")
     ELSE IF e.screen # "main" THEN none("changed")
     ELSE IF shape = <<>> THEN none("gap")
     ELSE [kind |-> "frame", frame |->
             [colors |-> e.colors.snapshot, exact |-> shape[1].exact, anchor |-> anchor,
              target |-> shape[1].target, first |-> shape[1].first,
              rows |-> [i \in 1..shape[1].count |->
                          ProjectedRow(Row(e.main, shape[1].first + i - 1), e.links)]]]

-----------------------------------------------------------------------------
Init ==
  /\ left \in Budgets
  /\ engine = NewEngine(left.size)
  /\ model = [revision |-> 0, epoch |-> 0, retained |-> 0, held |-> <<>>]
  /\ base = <<>> /\ query = <<>>
  /\ client = [surface |-> <<>>, revision |-> 0, truth |-> <<>>, window |-> <<>>,
               rows |-> <<>>, refused |-> FALSE]

\* commit_metadata after one framed sequence.
Ingested(e, touched) ==
  LET next == [model EXCEPT !.revision = @ + 1]
      committed == [e EXCEPT !.colors = Commit(@, next.revision)]
  IN /\ engine' = committed
     /\ model' = IF touched THEN Refreshed(next, committed) ELSE next
     /\ UNCHANGED <<base, query, client>>

DrawsText ==
  /\ Spend("draws")
  /\ \E i \in 1..Height(engine), d \in Drawings : Ingested(Drawn(engine, i, d), TRUE)

Scrolls ==
  /\ Spend("draws")
  /\ Ingested(WithGrid(engine, Scrolled(Grid(engine), engine.screen = "main")), TRUE)

\* dispatch_string: OSC 8 and OSC 0/2.  No row changes.
LinksText ==
  /\ Spend("links")
  /\ \/ \E l \in Links : Ingested(OpenLink(engine, l), FALSE)
     \/ Ingested(CloseLink(engine), FALSE)
SavesPen ==
  /\ Spend("links")
  /\ \/ Ingested(Saved(engine), TRUE)
     \/ Ingested(Back(engine), TRUE)

\* bounded_application_title: controls are dropped.
Bounded(title) == IF title = "ctl" THEN "" ELSE title
SetsTitle ==
  /\ Spend("modes")
  /\ \E t \in {"one", "ctl"} : Ingested([engine EXCEPT !.title = Bounded(t)], FALSE)

\* VoyttyColorState::osc and stack.
SetsColors ==
  /\ Spend("colors")
  /\ \E c \in {OscSet(engine.colors, s, v) : s \in Slots, v \in Colors}
         \cup {OscReset(engine.colors, s) : s \in CursorSlots}
         \cup {OscResetAll(engine.colors, Slots \ CursorSlots)}
         \cup {Store(engine.colors, i) : i \in {0, 2}}
         \cup {Restore(engine.colors, i) : i \in 0..1} :
       Ingested([engine EXCEPT !.colors = c], FALSE)

ModeLists == {{"reverse"}, {"drag", "x10", "sgr"}, {"click", "paste", "beam", "subscribe"}}

\* dispatch_csi: DECSET and DECRST; the switch of the screen is bounded apart.
SetsModes ==
  \E on \in BOOLEAN :
    \/ /\ Spend("modes")
       /\ \E modes \in ModeLists :
            Ingested(ApplyModes(engine, modes, on), TouchesGrid(modes))
    \/ /\ Spend("screens")
       /\ Ingested(ApplyModes(engine, {"screen"}, on), TRUE)

\* Mode 2026 with its siblings: they are part of the batch that begins, and
\* of what is shown when one ends.
BeginsBatch ==
  /\ Spend("batches")
  /\ \E modes \in {{}, {"reverse"}, {"screen"}} :
       LET next == [model EXCEPT !.revision = @ + 1]
           frozen == IF model.held # <<>> THEN next
                     ELSE [next EXCEPT !.held = <<Checkpoint(next, engine)>>,
                                       !.revision = IF modes = {} THEN @ ELSE @ + 1]
           applied == ApplyModes(engine, modes, TRUE)
           committed == [applied EXCEPT !.colors = Commit(@, frozen.revision)]
       IN /\ engine' = committed
          /\ model' = IF TouchesGrid(modes) THEN Refreshed(frozen, committed) ELSE frozen
  /\ UNCHANGED <<base, query, client>>

EndsBatch ==
  /\ Spend("batches")
  /\ \E modes \in {{}, {"reverse"}, {"screen"}} :
       LET next == [model EXCEPT !.revision = @ + 1]
           applied == ApplyModes(engine, modes, FALSE)
           committed == [applied EXCEPT !.colors = Commit(@, next.revision)]
           refreshed == IF TouchesGrid(modes) THEN Refreshed(next, committed) ELSE next
       IN /\ engine' = committed
          /\ model' = [refreshed EXCEPT !.held = <<>>]
  /\ UNCHANGED <<base, query, client>>

\* RIS also ends a batch.
Resets ==
  /\ Spend("batches")
  /\ LET next == [model EXCEPT !.revision = @ + 1]
         committed == [Reset(engine) EXCEPT !.colors = Commit(@, next.revision)]
     IN /\ engine' = committed
        /\ model' = [Refreshed(next, committed) EXCEPT !.held = <<>>]
  /\ UNCHANGED <<base, query, client>>

\* update_base_colors: the controller reports its palette.
UpdatesBase ==
  /\ Spend("colors")
  /\ \E p \in Profiles :
       /\ p # engine.colors.base
       /\ engine' = [engine EXCEPT !.colors = Commit([@ EXCEPT !.base = p], model.revision + 1)]
       /\ model' = [model EXCEPT !.revision = @ + 1]
  /\ UNCHANGED <<base, query, client>>

\* TerminalModel::resize.
Resizes ==
  /\ Spend("resizes")
  /\ \E size \in Sizes :
       LET next == Resized(engine, size)
       IN /\ engine' = next
          /\ model' = [revision |-> model.revision + 1, epoch |-> model.revision + 1, held |-> <<>>,
                       retained |-> IF next.screen = "main" THEN Len(next.main.hist)
                                    ELSE model.retained]
  /\ UNCHANGED <<base, query, client>>

-----------------------------------------------------------------------------
\* What became of an update: the frontend takes a complete screen, or builds
\* the next one from the one it shows.
Applied(m, shown) ==
  IF m.kind = "snapshot" THEN DecodedSnapshot(m)
  ELSE LET d == DecodedDelta(m)
       IN IF d = <<>> THEN <<>> ELSE Candidate(d[1], shown.revision, shown.surface[1])

\* An attachment is shown what is published since its checkpoint, or a complete
\* screen when nothing is.  When the frontend applies it makes no difference: it
\* has updates in order.
Captures ==
  /\ Spend("captures")
  /\ LET new == Checkpoint(model, engine)
         next == Applied(Update(base, new), client)
     IN /\ base' = <<new>>
        /\ client' = IF next = <<>> THEN [client EXCEPT !.refused = TRUE]
                     ELSE [client EXCEPT !.surface = next, !.revision = new.revision,
                                         !.truth = <<SurfaceOf(new)>>]
  /\ UNCHANGED <<engine, model, query>>

\* A window is asked for in the coordinates of what is shown.
Asks ==
  /\ Spend("asks")
  /\ client.surface # <<>> /\ query = <<>>
  /\ LET s == client.surface[1]
     IN /\ s.screen = "main"
        /\ \E target \in 0..s.metrics[1].max, older, newer \in 0..1 :
             query' = <<[anchor |-> [epoch |-> s.metrics[1].epoch, revision |-> client.revision,
                                     max |-> s.metrics[1].max, size |-> s.size],
                         target |-> target, older |-> older, newer |-> newer]>>
  /\ UNCHANGED <<engine, model, base, client>>

\* history_window: not while a batch is held.
Answers ==
  /\ query # <<>> /\ model.held = <<>>
  /\ LET r == HistoryWindow(model, engine, query[1])
         window == DecodedWindow(WindowMessage(r), query[1])
     IN client' = IF window = <<>> THEN [client EXCEPT !.refused = TRUE]
                  ELSE [client EXCEPT !.window = window, !.rows = <<r>>]
  /\ query' = <<>>
  /\ UNCHANGED <<engine, model, base, left>>

Next ==
  \/ DrawsText \/ Scrolls \/ LinksText \/ SavesPen \/ SetsTitle \/ SetsColors
  \/ SetsModes \/ BeginsBatch \/ EndsBatch \/ Resets \/ UpdatesBase \/ Resizes
  \/ Captures \/ Asks \/ Answers

Spec == Init /\ [][Next]_vars

-----------------------------------------------------------------------------
\* Whatever mix of patches and replacements a frontend was sent, over screen
\* switches, resizes, batches and color changes, the surface it has built is
\* the one the host projected for that revision, and so is a history window:
\* rows, links, colors, title, cursor and modes.
ShownIsHosts ==
  /\ client.surface = client.truth
  /\ client.window = client.rows

\* A frontend validates every update against what it shows and ends the view
\* when it does not fit.  None of the host's own updates is ever refused.
NothingRefused == ~client.refused

\* reconcile_hyperlinks reads one screen at a time and drops links that
\* nobody uses: a link on a cell of either screen, or of its history, is
\* never among them.
LinkedStaysLinked ==
  GridLinks(engine.main) \cup GridLinks(engine.alternate) \subseteq engine.links

\* XTPOPCOLORS brings back the palette as it showed when it was pushed,
\* whatever reverse video did in between.
PopRestores ==
  LET c == engine.colors
  IN \A i \in 1..StackSize :
       c.saved[i] # <<>> =>
         Effective(Restore(c, i)).values = c.saved[i][1].profile.values
=============================================================================
