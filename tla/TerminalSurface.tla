--------------------------- MODULE TerminalSurface ---------------------------
(***************************************************************************)
(* What a screen is between the host and a frontend, as pure operators:    *)
(* the projection of the engine's cells (crates/terminal/src/projection.rs),*)
(* the surface, its deltas and their validation                            *)
(* (crates/core/src/terminal.rs), and the messages that carry them         *)
(* (crates/proto/src/lib.rs, terminal_links.rs); and the palette of a      *)
(* hosted program (crates/terminal/src/colors.rs, VoyttyColorState), with  *)
(* the snapshots of it that a screen carries                               *)
(* (crates/core/src/terminal/colors.rs).                                   *)
(*                                                                         *)
(* An optional value is <<>> or <<value>>; so is the result of a decoder.  *)
(* A text is a short string, "" when it is empty; a link is a number, 0 for *)
(* none.  Protobuf enumerations are the numbers the code gives them.       *)
(***************************************************************************)
EXTENDS Integers, SequencesExt, FiniteSets

CONSTANTS
  MaxRows, MaxColumns,  \* ResourceLimits
  MaxLinks,             \* MAX_TERMINAL_HYPERLINKS
  MaxWindow,            \* MAX_HISTORY_WINDOW_ROWS
  Slots,        \* the color slots of the instance
  Mirror,       \* Slots -> Slots, an involution
  CursorSlots,  \* the slots that may be dynamic
  StackSize     \* saved palettes kept (10)

-----------------------------------------------------------------------------
(***************************************************************************)
(* The palette of a hosted program.  A color is "unknown" (not observed),  *)
(* "dynamic" (follows the cell) or one of the fixed ones.  An override is  *)
(* <<>> or <<color>>.  The slots are a few of the 262: Mirror pairs the    *)
(* ones that reverse video swaps, CursorSlots are the roles from           *)
(* COLOR_CURSOR on.  Colors are parsed and reports formatted elsewhere.    *)
(***************************************************************************)
\* TerminalColorProfile::is_valid.
ValidProfile(p) == \A s \in Slots \ CursorSlots : p.values[s] # "dynamic"

\* TerminalColorSnapshot::is_valid_at.
ValidAt(c, revision) ==
  /\ ValidProfile(c.profile)
  /\ c.changed <= revision
  /\ \A s \in Slots : c.inherited[s] \in Slots

UnknownProfile == [values |-> [s \in Slots |-> "unknown"], appearance |-> "unknown"]

\* TerminalColorSnapshot::default.
NewSnapshot ==
  [profile |-> UnknownProfile, changed |-> 0, reverse |-> FALSE, cursor |-> FALSE,
   inherited |-> [s \in Slots |-> s]]

NewColors ==
  [base |-> UnknownProfile, overrides |-> [s \in Slots |-> <<>>],
   inherited |-> [s \in Slots |-> <<>>], snapshot |-> NewSnapshot,
   subscribed |-> FALSE, reverse |-> FALSE,
   saved |-> [i \in 1..StackSize |-> <<>>], depth |-> 0, stored |-> 0]

\* VoyttyColorState::reset: the base and the last snapshot stay.
ResetColors(c) == [NewColors EXCEPT !.base = c.base, !.snapshot = c.snapshot]

\* source: the slot that is shown for another one under reverse video.
Source(c, slot) == IF c.reverse THEN Mirror[slot] ELSE slot

OrElse(option, default) == IF option = <<>> THEN default ELSE option[1]

Shown(c, slot) ==
  LET source == Source(c, slot) IN OrElse(c.overrides[source], c.base.values[source])

\* Mutant: the slot that is named, not the one that shows it.
SetUnmapped(c, slot, value) ==
  [c EXCEPT !.overrides[slot] = value, !.inherited[slot] = <<>>]

\* set.
Set(c, slot, value) ==
  LET source == Source(c, slot)
  IN [c EXCEPT !.overrides[source] = value, !.inherited[source] = <<>>]

\* effective, effective_snapshot.
Effective(c) == [values |-> [s \in Slots |-> Shown(c, s)], appearance |-> c.base.appearance]

EffectiveSnapshot(c) ==
  [profile |-> Effective(c), changed |-> c.snapshot.changed, reverse |-> c.reverse,
   cursor |-> \E s \in CursorSlots : c.overrides[s] # <<>>,
   inherited |-> [s \in Slots |-> OrElse(c.inherited[Source(c, s)], Source(c, s))]]

\* commit: what shows differently is dated with the revision that shows it.
Commit(c, revision) ==
  LET next == EffectiveSnapshot(c)
  IN IF next = c.snapshot THEN c
     ELSE [c EXCEPT !.snapshot = [next EXCEPT !.changed = revision]]

\* stack, XTPUSHCOLORS: the next entry, or the one that is named.
Store(c, index) ==
  LET entry == IF index = 0 THEN c.depth + 1 ELSE index
  IN IF entry > StackSize THEN c
     ELSE [c EXCEPT !.saved[entry] = <<EffectiveSnapshot(c)>>,
                    !.stored = IF @ > entry THEN @ ELSE entry,
                    !.depth = IF index = 0 THEN @ + 1 ELSE @]

\* Every slot of a saved palette becomes an override; one that nobody had
\* observed remembers whose it was.
RECURSIVE Restored(_, _, _)
Restored(c, saved, slots) ==
  IF slots = {} THEN c
  ELSE LET s == CHOOSE x \in slots : TRUE
           value == saved.profile.values[s]
           next == Set(c, s, <<value>>)
       IN Restored(IF value = "unknown"
                   THEN [next EXCEPT !.inherited[Source(c, s)] = <<saved.inherited[s]>>]
                   ELSE next, saved, slots \ {s})

\* stack, XTPOPCOLORS.
Restore(c, index) ==
  LET entry == IF index = 0 THEN c.depth ELSE index
  IN IF entry = 0 \/ entry > StackSize THEN c
     ELSE IF c.saved[entry] = <<>> THEN c
     ELSE [Restored(c, c.saved[entry][1], Slots)
             EXCEPT !.depth = IF index = 0 THEN @ - 1 ELSE @]

\* osc 4, 10-19 and 21: one slot is set, reset, or made dynamic (21, from
\* the cursor on); 104 resets all of the palette.
OscSet(c, slot, value) ==
  IF value = "dynamic" /\ slot \notin CursorSlots THEN c ELSE Set(c, slot, <<value>>)
OscReset(c, slot) == Set(c, slot, <<>>)

RECURSIVE OscResetAll(_, _)
OscResetAll(c, slots) ==
  IF slots = {} THEN c
  ELSE LET s == CHOOSE x \in slots : TRUE
       IN OscResetAll(Set(c, s, <<>>), slots \ {s})

NoStyle == [fg |-> [kind |-> "default", value |-> 0], underline |-> "none"]

-----------------------------------------------------------------------------
(***************************************************************************)
(* Projection.  An engine cell is [c, wide, style, link]; c = "ctl" stands *)
(* for a control character left in a cell, wide is "head", "spacer" or     *)
(* "none".                                                                 *)
(***************************************************************************)
Blank == [text |-> "", wide |-> FALSE, cont |-> FALSE, style |-> NoStyle, link |-> 0]

\* Mutant: half of a wide character keeps its mark.
PairedAlways(row, i) == TRUE

\* project_row: whether the cell has the other half it needs.
Paired(row, i) ==
  CASE row[i].wide = "head" -> i < Len(row) /\ row[i + 1].wide = "spacer"
    [] row[i].wide = "spacer" -> i > 1 /\ row[i - 1].wide = "head"
    [] OTHER -> TRUE

\* projected_cell: a fragment of a wide character is a styled blank.
ProjectedCell(cell, paired, links) ==
  IF ~paired
  THEN [Blank EXCEPT !.style = cell.style, !.text = IF cell.style = NoStyle THEN "" ELSE " "]
  ELSE LET blank == cell.c = " " /\ cell.style = NoStyle /\ cell.wide = "none"
       IN [text |-> IF blank \/ cell.wide = "spacer" \/ cell.c = "ctl" THEN "" ELSE cell.c,
           wide |-> cell.wide = "head", cont |-> cell.wide = "spacer",
           style |-> cell.style, link |-> IF cell.link \in links THEN cell.link ELSE 0]

ProjectedRow(row, links) ==
  [cells |-> [i \in 1..Len(row.cells) |->
                ProjectedCell(row.cells[i], Paired(row.cells, i), links)],
   wrapped |-> row.wrapped]

\* terminal_modes: the widest mouse mode and the newest encoding win.
MouseMode(flags) ==
  CASE "motion" \in flags -> "any" [] "drag" \in flags -> "button"
    [] "click" \in flags -> "release" [] "x10" \in flags -> "press" [] OTHER -> "none"
MouseEncoding(flags) ==
  CASE "sgr" \in flags -> "sgr" [] "utf8" \in flags -> "utf8" [] OTHER -> "default"
Modes(flags) ==
  [paste |-> "paste" \in flags, mouse |-> MouseMode(flags), encoding |-> MouseEncoding(flags)]

-----------------------------------------------------------------------------
(***************************************************************************)
(* Validation.                                                             *)
(***************************************************************************)
\* bounded_application_title drops controls; validate wants none.
ValidTitle(title) == title # "ctl"

ValidSize(size) ==
  /\ size.rows \in 1..MaxRows
  /\ size.columns \in 1..MaxColumns

\* validate_surface_row.
ValidRow(row, columns) ==
  /\ Len(row.cells) = columns
  /\ \A i \in 1..columns :
       LET cell == row.cells[i]
       IN /\ cell.text # "ctl"
          /\ ~(cell.wide /\ cell.cont)
          /\ cell.wide => /\ cell.text # ""
                          /\ i < columns
                          /\ row.cells[i + 1].cont /\ ~row.cells[i + 1].wide
          /\ cell.cont => /\ cell.text = ""
                          /\ i > 1
                          /\ row.cells[i - 1].wide /\ ~row.cells[i - 1].cont

\* TerminalScrollMetrics::is_valid, validate_surface_metrics.
ValidMetrics(screen, size, revision, metrics) ==
  IF screen = "main"
  THEN /\ metrics # <<>>
       /\ LET m == metrics[1]
          IN /\ m.rows > 0 /\ m.epoch <= m.revision /\ m.offset <= m.max
             /\ m.revision = revision /\ m.offset = 0 /\ m.rows = size.rows
  ELSE metrics = <<>>

\* TerminalSurface::validate.
ValidSurface(s, revision) ==
  /\ ValidAt(s.colors, revision)
  /\ ValidTitle(s.title)
  /\ ValidSize(s.size)
  /\ Len(s.rows) = s.size.rows
  /\ \A i \in 1..Len(s.rows) : ValidRow(s.rows[i], s.size.columns)
  /\ s.cursor.row < s.size.rows /\ s.cursor.column < s.size.columns
  /\ ValidMetrics(s.screen, s.size, revision, s.metrics)

\* TerminalSurfaceDelta::validate.
ValidDelta(d) ==
  /\ d.from < d.to
  /\ ValidAt(d.colors, d.to)
  /\ ValidTitle(d.title)
  /\ ValidSize(d.size)
  /\ d.cursor.row < d.size.rows /\ d.cursor.column < d.size.columns
  /\ ValidMetrics(d.screen, d.size, d.to, d.metrics)
  /\ \A i \in 1..Len(d.patches) :
       /\ d.patches[i].row < d.size.rows
       /\ i > 1 => d.patches[i - 1].row < d.patches[i].row
       /\ ValidRow(d.patches[i].replacement, d.size.columns)

PatchedRows(rows, patches) ==
  [i \in 1..Len(rows) |->
     LET mine == SelectSeq(patches, LAMBDA p : p.row = i - 1)
     IN IF mine = <<>> THEN rows[i] ELSE Last(mine).replacement]

\* TerminalSurfaceDelta::candidate.
Candidate(d, revision, s) ==
  LET next == [s EXCEPT !.rows = PatchedRows(@, d.patches), !.title = d.title,
                        !.colors = d.colors, !.cursor = d.cursor, !.modes = d.modes,
                        !.metrics = d.metrics]
  IN IF /\ ValidDelta(d)
        /\ revision = d.from /\ s.size = d.size /\ s.screen = d.screen
        /\ s.colors.changed <= d.colors.changed
        /\ s.colors.changed = d.colors.changed => s.colors = d.colors
        /\ ValidSurface(s, revision)
        /\ ValidSurface(next, d.to)
     THEN <<next>> ELSE <<>>

-----------------------------------------------------------------------------
(***************************************************************************)
(* History windows: TerminalHistoryWindowQuery.                            *)
(***************************************************************************)
ValidAnchor(a) == a.size.rows > 0 /\ a.size.columns > 0 /\ a.epoch <= a.revision

ValidQuery(q) ==
  /\ ValidAnchor(q.anchor)
  /\ q.target <= q.anchor.max
  /\ q.older + q.newer <= 2 * q.anchor.size.rows

\* response_shape: the one answer a query has under an anchor, or none.
ResponseShape(q, a) ==
  LET exact == /\ q.anchor.epoch = a.epoch /\ q.anchor.size = a.size
               /\ q.anchor.max <= a.max
      moved == IF exact THEN q.target + (a.max - q.anchor.max) ELSE q.target
      target == IF moved < a.max THEN moved ELSE a.max
      first == IF -target - q.older > -a.max THEN -target - q.older ELSE -a.max
      asked == -target + a.size.rows + q.newer
      end == IF asked < a.size.rows THEN asked ELSE a.size.rows
  IN IF \/ ~ValidQuery(q) \/ ~ValidAnchor(a) \/ a.revision < q.anchor.revision
        \/ end - first < a.size.rows \/ end - first > MaxWindow
     THEN <<>>
     ELSE <<[exact |-> exact, target |-> target, first |-> first, count |-> end - first]>>

\* TerminalSurfaceHistoryWindowFrame::validate_for.
ValidFrame(f, q) ==
  LET shape == ResponseShape(q, f.anchor)
  IN /\ ValidAt(f.colors, f.anchor.revision)
     /\ ValidSize(f.anchor.size)
     /\ shape # <<>>
     /\ f.exact = shape[1].exact /\ f.target = shape[1].target
     /\ f.first = shape[1].first /\ Len(f.rows) = shape[1].count
     /\ \A i \in 1..Len(f.rows) : ValidRow(f.rows[i], f.anchor.size.columns)

-----------------------------------------------------------------------------
(***************************************************************************)
(* Encoding.  A row's links become indexes of a table that the message     *)
(* carries, in the order they are met.                                     *)
(***************************************************************************)
Concat(seqs) == FoldLeft(LAMBDA acc, s : acc \o s, <<>>, seqs)

\* LinkEncoder::row, finish.
LinkTable(rows) ==
  FoldLeft(LAMBDA acc, l : IF l = 0 \/ Contains(acc, l) THEN acc ELSE Append(acc, l), <<>>,
           Concat([i \in 1..Len(rows) |->
                     [j \in 1..Len(rows[i].cells) |-> rows[i].cells[j].link]]))
IndexIn(table, l) == IF l = 0 THEN 0 ELSE CHOOSE i \in 1..Len(table) : table[i] = l

Underlines == <<"none", "single", "double", "curly", "dotted", "dashed">>
CodeOf(names, name) == (CHOOSE i \in 1..Len(names) : names[i] = name) - 1
NameOf(names, code) == IF code \in 0..(Len(names) - 1) THEN <<names[code + 1]>> ELSE <<>>

\* From<TerminalStyle>, From<TerminalColor>.
EncodedColor(c) ==
  CASE c.kind = "default" -> [field |-> 1, value |-> 1]
    [] c.kind = "indexed" -> [field |-> 2, value |-> c.value]
    [] c.kind = "rgb" -> [field |-> 3, value |-> c.value]
EncodedStyle(s) == [fg |-> EncodedColor(s.fg), underline |-> CodeOf(Underlines, s.underline)]

EncodedRow(row, table) ==
  [wrapped |-> row.wrapped,
   cells |-> [i \in 1..Len(row.cells) |->
                [row.cells[i] EXCEPT !.link = IndexIn(table, @), !.style = EncodedStyle(@)]]]

Shapes == <<"none", "block", "beam", "underline">>
MouseModes == <<"none", "press", "release", "button", "any">>
MouseEncodings == <<"default", "utf8", "sgr">>
Screens == <<"none", "main", "alternate">>
Appearances == <<"unknown", "dark", "light">>

\* From<TerminalCursor>, From<TerminalModes>.
EncodedCursor(c) == [c EXCEPT !.shape = CodeOf(Shapes, @), !.style = EncodedStyle(@)]
EncodedModes(m) ==
  [m EXCEPT !.mouse = CodeOf(MouseModes, @), !.encoding = CodeOf(MouseEncodings, @)]

\* From<TerminalColorProfile>, From<TerminalColorSnapshot>.
EncodedColors(c) == [c EXCEPT !.profile.appearance = CodeOf(Appearances, @)]

\* terminal_surface_message, terminal_surface_snapshot_message.
SnapshotMessage(revision, s) ==
  LET table == LinkTable(s.rows)
  IN [kind |-> "snapshot", revision |-> revision, links |-> table, title |-> s.title,
      colors |-> EncodedColors(s.colors), size |-> s.size, screen |-> CodeOf(Screens, s.screen),
      rows |-> [i \in 1..Len(s.rows) |-> EncodedRow(s.rows[i], table)],
      cursor |-> EncodedCursor(s.cursor), modes |-> EncodedModes(s.modes),
      metrics |-> s.metrics]

\* terminal_surface_delta_message.
DeltaMessage(d) ==
  LET table == LinkTable([i \in 1..Len(d.patches) |-> d.patches[i].replacement])
  IN [d EXCEPT !.colors = EncodedColors(@), !.screen = CodeOf(Screens, @),
               !.patches = [i \in 1..Len(@) |->
                  [row |-> @[i].row, replacement |-> EncodedRow(@[i].replacement, table)]],
               !.cursor = EncodedCursor(@), !.modes = EncodedModes(@)]
     @@ [kind |-> "delta", links |-> table]

\* terminal_surface_history_window_frame_message.
WindowMessage(r) ==
  IF r.kind # "frame"
  THEN [kind |-> "window", outcome |-> r.kind, epoch |-> r.epoch, revision |-> r.revision,
        frame |-> <<>>, links |-> <<>>]
  ELSE LET table == LinkTable(r.frame.rows)
       IN [kind |-> "window", outcome |-> "frame", epoch |-> r.frame.anchor.epoch,
           revision |-> r.frame.anchor.revision, links |-> table,
           frame |-> <<[r.frame EXCEPT !.colors = EncodedColors(@),
                          !.rows = [i \in 1..Len(@) |-> EncodedRow(@[i], table)]]>>]

-----------------------------------------------------------------------------
(***************************************************************************)
(* Decoding.                                                               *)
(***************************************************************************)
\* decode_links: a table names no link twice.
ValidLinks(table) == Len(table) <= MaxLinks /\ IsInjective(table)

\* TryFrom<TerminalStyle>, TryFrom<TerminalColor>.
ColorOk(c) ==
  \/ c.field = 1 /\ c.value = 1
  \/ c.field \in {2, 3} /\ c.value \in 0..255
DecodedColor(c) ==
  CASE c.field = 1 -> [kind |-> "default", value |-> 0]
    [] c.field = 2 -> [kind |-> "indexed", value |-> c.value]
    [] c.field = 3 -> [kind |-> "rgb", value |-> c.value]
StyleOk(s) == ColorOk(s.fg) /\ NameOf(Underlines, s.underline) # <<>>
DecodedStyle(s) == [fg |-> DecodedColor(s.fg), underline |-> NameOf(Underlines, s.underline)[1]]

\* decode_row.
RowOk(row, table) ==
  \A i \in 1..Len(row.cells) :
    row.cells[i].link \in 0..Len(table) /\ StyleOk(row.cells[i].style)

LinkAt(table, index) == IF index = 0 THEN 0 ELSE table[index]
DecodedRow(row, table) ==
  [wrapped |-> row.wrapped,
   cells |-> [i \in 1..Len(row.cells) |->
                [row.cells[i] EXCEPT !.link = LinkAt(table, @), !.style = DecodedStyle(@)]]]

\* TryFrom<TerminalCursor>, TryFrom<TerminalModes>, required_colors and
\* TryFrom<TerminalColorProfile>.
CursorOk(c) == c.shape \in 1..3 /\ StyleOk(c.style)
DecodedCursor(c) == [c EXCEPT !.shape = NameOf(Shapes, @)[1], !.style = DecodedStyle(@)]
ModesOk(m) == NameOf(MouseModes, m.mouse) # <<>> /\ NameOf(MouseEncodings, m.encoding) # <<>>
DecodedModes(m) ==
  [m EXCEPT !.mouse = NameOf(MouseModes, @)[1], !.encoding = NameOf(MouseEncodings, @)[1]]
ColorsOk(c) ==
  /\ NameOf(Appearances, c.profile.appearance) # <<>>
  /\ ValidProfile(c.profile)
DecodedColors(c) == [c EXCEPT !.profile.appearance = NameOf(Appearances, @)[1]]

\* terminal_active_screen.
ScreenOk(code) == code \in 1..2

\* terminal_surface_from_message, terminal_surface_snapshot_from_message.
DecodedSnapshot(m) ==
  LET s == [title |-> m.title, colors |-> DecodedColors(m.colors), size |-> m.size,
            screen |-> NameOf(Screens, m.screen)[1],
            rows |-> [i \in 1..Len(m.rows) |-> DecodedRow(m.rows[i], m.links)],
            cursor |-> DecodedCursor(m.cursor), modes |-> DecodedModes(m.modes),
            metrics |-> m.metrics]
  IN IF /\ ValidLinks(m.links) /\ ColorsOk(m.colors) /\ ScreenOk(m.screen)
        /\ \A i \in 1..Len(m.rows) : RowOk(m.rows[i], m.links)
        /\ CursorOk(m.cursor) /\ ModesOk(m.modes)
        /\ ValidSurface(s, m.revision)
     THEN <<s>> ELSE <<>>

\* terminal_surface_delta_from_message.
DecodedDelta(m) ==
  LET d == [title |-> m.title, colors |-> DecodedColors(m.colors), from |-> m.from,
            to |-> m.to, size |-> m.size, screen |-> NameOf(Screens, m.screen)[1],
            patches |-> [i \in 1..Len(m.patches) |->
               [row |-> m.patches[i].row,
                replacement |-> DecodedRow(m.patches[i].replacement, m.links)]],
            cursor |-> DecodedCursor(m.cursor), modes |-> DecodedModes(m.modes),
            metrics |-> m.metrics]
  IN IF /\ ValidLinks(m.links) /\ ColorsOk(m.colors) /\ ScreenOk(m.screen)
        /\ \A i \in 1..Len(m.patches) : RowOk(m.patches[i].replacement, m.links)
        /\ CursorOk(m.cursor) /\ ModesOk(m.modes)
        /\ ValidDelta(d)
     THEN <<d>> ELSE <<>>

\* terminal_surface_history_window_from_message.
DecodedWindow(m, q) ==
  IF ~ValidLinks(m.links) THEN <<>>
  ELSE IF m.outcome # "frame"
  THEN IF /\ m.frame = <<>> /\ m.links = <<>>
          /\ m.epoch <= m.revision /\ m.revision >= q.anchor.revision
       THEN <<[kind |-> m.outcome, epoch |-> m.epoch, revision |-> m.revision]>> ELSE <<>>
  ELSE LET f == m.frame[1]
           frame == [f EXCEPT !.colors = DecodedColors(@),
                              !.rows = [i \in 1..Len(@) |-> DecodedRow(@[i], m.links)]]
       IN IF /\ m.epoch = f.anchor.epoch /\ m.revision = f.anchor.revision
             /\ ColorsOk(f.colors)
             /\ \A i \in 1..Len(f.rows) : RowOk(f.rows[i], m.links)
             /\ ValidFrame(frame, q)
          THEN <<[kind |-> "frame", frame |-> frame]>> ELSE <<>>
=============================================================================
