---------------------------- MODULE ViewportCache ----------------------------
(***************************************************************************)
(* The frontend's cache of retained history (core/src/viewport_cache.rs)   *)
(* in the single-window form the desktop terminal uses, as operators on a  *)
(* cache record, and the host's answer to one of its queries               *)
(* (core/src/terminal.rs response_shape, terminal/src/model.rs).           *)
(*                                                                         *)
(* Offsets count rows upwards from the live bottom.  An anchor names one   *)
(* coordinate space: the epoch of the retained rows, the revision it was   *)
(* taken at, how many rows are retained, and the geometry.  An optional    *)
(* value is a sequence of length at most one; an offset that does not      *)
(* exist is -1.  A row is the revision that last wrote it.                 *)
(***************************************************************************)
EXTENDS Integers, Sequences, FiniteSetsExt

CONSTANT Rows                      \* height of the viewport

None == <<>>
Some(x) == <<x>>

\* The window's rows that make one full viewport at an offset.
VisibleStart(w, t) == -t - w.first
Covers(w, t) ==
  /\ t <= w.anchor.max
  /\ VisibleStart(w, t) >= 0
  /\ VisibleStart(w, t) + Rows <= Len(w.rows)
Slice(w, t) == SubSeq(w.rows, VisibleStart(w, t) + 1, VisibleStart(w, t) + Rows)

\* An offset of the latest space in the space the window was taken in.
InWindowUnmoved(latest, taken, t) ==
  IF \/ latest.epoch # taken.epoch
     \/ latest.size # taken.size
     \/ latest.max < taken.max
  THEN -1
  ELSE t
InWindow(latest, taken, t) ==
  IF \/ latest.epoch # taken.epoch
     \/ latest.size # taken.size
     \/ latest.max < taken.max
     \/ t < latest.max - taken.max
  THEN -1
  ELSE t - (latest.max - taken.max)

WindowFor(c, t) ==
  IF c.anchor = None \/ c.window = None \/ t < 0 THEN -1
  ELSE LET o == InWindow(c.anchor[1], c.window[1].anchor, t)
       IN  IF o >= 0 /\ Covers(c.window[1], o) THEN o ELSE -1

RowsAt(c, t) ==
  LET o == WindowFor(c, t) IN IF o < 0 THEN None ELSE Some(Slice(c.window[1], o))
IdentityAt(c, t) ==
  LET o == WindowFor(c, t)
      a == c.window[1].anchor
  IN  IF o < 0 THEN None
      ELSE Some([kind |-> "history", epoch |-> a.epoch, rev |-> a.rev,
                 first |-> -o, size |-> a.size])

VisibleRows(c) == RowsAt(c, c.desired)
PresentedRows(c) == RowsAt(c, c.presented)

EmptyCache == [anchor |-> None, window |-> None, desired |-> 0,
               presented |-> -1, pending |-> None]

Query(a, t) ==
  LET older == IF t <= Rows THEN 2 * Rows ELSE IF a.max - t <= Rows THEN 0 ELSE Rows
  IN  [anchor |-> a, target |-> t, older |-> older, newer |-> 2 * Rows - older]

\* TerminalHistoryWindowQuery::response_shape: the one window that answers a
\* query at an anchor, <<>> when the anchor predates the query.
Shape(q, a) ==
  LET exact == /\ q.anchor.epoch = a.epoch
               /\ q.anchor.size = a.size
               /\ q.anchor.max <= a.max
      target == Min({a.max, IF exact THEN q.target + (a.max - q.anchor.max)
                            ELSE q.target})
      first == Max({-target - q.older, -a.max})
      end == Min({-target + Rows + q.newer, Rows})
  IN  IF a.rev < q.anchor.rev THEN None
      ELSE Some([rebased |-> ~exact, target |-> target, first |-> first,
                 count |-> end - first])

\* preview_anchor_observation followed by its commit.
Observe(c, a) ==
  IF c.anchor = None THEN [c EXCEPT !.anchor = Some(a)]
  ELSE LET was == c.anchor[1]
           growth == a.max - was.max
       IN  IF a.rev < was.rev THEN c
           ELSE IF was.epoch # a.epoch \/ was.size # a.size \/ growth < 0
           THEN [c EXCEPT !.anchor = Some(a), !.window = None, !.presented = -1,
                          !.desired = Min({@, a.max})]
           ELSE IF growth > 0 /\ c.desired > 0
           THEN [c EXCEPT !.anchor = Some(a),
                          !.desired = Min({@ + growth, a.max}),
                          !.presented = IF @ < 0 THEN @ ELSE Min({@ + growth, a.max})]
           ELSE IF a.rev > was.rev /\ c.desired = 0
           THEN [c EXCEPT !.anchor = Some(a), !.window = None, !.presented = -1]
           ELSE [c EXCEPT !.anchor = Some(a)]

NeedsPrefetch(c, t) ==
  /\ c.window # None
  /\ LET w == c.window[1]
         o == InWindow(c.anchor[1], w.anchor, t)
         end == w.first + Len(w.rows)
         threshold == (Rows + 1) \div 2
     IN  o >= 0 => \/ /\ w.first > -w.anchor.max
                      /\ -o - w.first < threshold
                   \/ /\ end < Rows
                      /\ end - (-o + Rows) < threshold

\* set_target: the cache, whether the target can be shown locally, and the
\* query to send.
SetTarget(c, t) ==
  IF c.anchor = None THEN [cache |-> c, render |-> FALSE, query |-> None]
  ELSE LET a == c.anchor[1]
           c1 == [c EXCEPT !.desired = Min({t, a.max})]
           render == VisibleRows(c1) # None
           asks == /\ c.pending = None
                   /\ render => NeedsPrefetch(c1, c1.desired)
           query == IF asks THEN Some(Query(a, c1.desired)) ELSE None
       IN  [cache |-> IF asks THEN [c1 EXCEPT !.pending = query] ELSE c1,
            render |-> render, query |-> query]

Asks(c, a) ==
  LET q == Query(a, c.desired)
  IN  [cache |-> [c EXCEPT !.pending = Some(q)], render |-> FALSE, query |-> Some(q)]

FollowLatest(c, a) ==
  LET c1 == [c EXCEPT !.anchor = Some(a), !.desired = Min({@, a.max})]
  IN  IF c1.desired > 0 THEN Asks(c1, a)
      ELSE [cache |-> c1, render |-> FALSE, query |-> None]

\* is_valid_for: the window is the exact answer to the query.
Answers(w, q) ==
  LET shape == Shape(q, w.anchor)
  IN  /\ shape # None
      /\ w.target = shape[1].target
      /\ w.first = shape[1].first
      /\ Len(w.rows) = shape[1].count
      /\ w.rebased = shape[1].rebased

\* install_accounted_window for a window that answers the pending query.
Install(c, w) ==
  LET a == w.anchor
      was == IF c.anchor = None THEN a ELSE c.anchor[1]
      same == was.epoch = a.epoch /\ was.size = a.size
      c1 == [c EXCEPT !.pending = None]
      kept == same /\ a.rev <= was.rev /\ a.max <= was.max
      latest == IF kept THEN was ELSE a
      moved == IF kept THEN c.desired
               ELSE IF c.desired = c.pending[1].target THEN w.target
               ELSE IF same /\ c.desired > 0 THEN c.desired + Max({a.max - was.max, 0})
               ELSE c.desired
      c2 == [c1 EXCEPT !.anchor = Some(latest), !.desired = Min({moved, latest.max})]
      covers == LET o == InWindow(latest, a, c2.desired) IN o >= 0 /\ Covers(w, o)
  IN  IF ~same /\ a.rev <= was.rev THEN FollowLatest(c1, was)
      ELSE IF same /\ a.max > was.max /\ a.rev <= was.rev THEN FollowLatest(c1, was)
      ELSE IF moved = 0 /\ a.rev < latest.rev
      THEN [cache |-> c1, render |-> FALSE, query |-> None]
      ELSE IF covers
      THEN [cache |-> [c2 EXCEPT !.window = Some(w)], render |-> TRUE, query |-> None]
      ELSE Asks(c2, latest)

CommitPresentation(c) ==
  IF VisibleRows(c) = None THEN c ELSE [c EXCEPT !.presented = c.desired]
Defer(c) == [c EXCEPT !.pending = None]
InvalidateRows(c) == [c EXCEPT !.window = None, !.presented = -1]
==============================================================================
