----------------------------- MODULE TerminalMC -----------------------------
(***************************************************************************)
(* A session's terminal on the host, on small instances: TerminalDriver,   *)
(* SurfaceSync and TerminalIngress.                                        *)
(*                                                                         *)
(* The three are checked side by side: `part' says which of them a         *)
(* behaviour is about.  TerminalDriver has its own variables; those of the *)
(* others are the slots s1 to s6.  What a behaviour is not about stays at  *)
(* rest.                                                                   *)
(***************************************************************************)
EXTENDS TerminalDriver, TLC

VARIABLES part, s1, s2, s3, s4, s5, s6

slots == <<s1, s2, s3, s4, s5, s6>>
runVars == <<vars, part, slots>>

-----------------------------------------------------------------------------
(* A program that draws, asks, and draws in batches.                       *)

DriverBudgets ==
  {[chunks |-> 3, ops |-> 0, reads |-> 0, ends |-> 1],
   [chunks |-> 2, ops |-> 1, reads |-> 2, ends |-> 0],
   [chunks |-> 1, ops |-> 1, reads |-> 1, ends |-> 1],
   [chunks |-> 2, ops |-> 1, reads |-> 0, ends |-> 2]}
DriverChunks ==
  {<<"text">>, <<"query">>, <<"begin", "text">>, <<"text", "begin">>, <<"end">>}

AtRest == Init /\ left = [chunks |-> 3, ops |-> 0, reads |-> 0, ends |-> 1]

(* One or two columns and rows, two rows of history; room for two links.   *)
(* The drawings have a wide character, halves of one, a style, a control.  *)

Cell(ch, wide) ==
  [c |-> ch, wide |-> wide, link |-> 0,
   style |-> [fg |-> [kind |-> "default", value |-> 0], underline |-> "none"]]
Red == [fg |-> [kind |-> "indexed", value |-> 1], underline |-> "curly"]
SurfaceDrawings ==
  {<<Cell("a", "none"), Cell("b", "none")>>,
   <<Cell("W", "head"), Cell(" ", "spacer")>>,
   <<Cell("ctl", "none"), [Cell("W", "head") EXCEPT !.style = Red]>>}

SurfaceSlots == {0, 7, 258}
SurfaceMirror == (0 :> 7) @@ (7 :> 0) @@ (258 :> 258)
Palette(v) ==
  [values |-> [s \in SurfaceSlots |-> IF s = 7 THEN v ELSE "unknown"],
   appearance |-> "dark"]

SurfaceSize(rows, columns) == [rows |-> rows, columns |-> columns]
NoSurface ==
  [size |-> SurfaceSize(1, 2), draws |-> 0, links |-> 0, colors |-> 0, modes |-> 0,
   screens |-> 0, batches |-> 0, resizes |-> 0, asks |-> 0, captures |-> 2]
SurfaceBudgets ==
  {\* rows, history and sizes, and windows of them
   [NoSurface EXCEPT !.size = SurfaceSize(2, 2), !.draws = 2, !.resizes = 1, !.asks = 1],
   [NoSurface EXCEPT !.draws = 1, !.screens = 1, !.resizes = 1, !.asks = 1],
   [NoSurface EXCEPT !.modes = 2, !.screens = 1],
   \* links on cells, a full table, and the other screen or another size
   [NoSurface EXCEPT !.draws = 2, !.links = 3, !.captures = 1],
   [NoSurface EXCEPT !.draws = 1, !.links = 3, !.screens = 1, !.captures = 1],
   [NoSurface EXCEPT !.draws = 1, !.links = 1, !.screens = 1, !.resizes = 1],
   [NoSurface EXCEPT !.links = 2, !.screens = 3, !.captures = 0],
   \* batches begun and ended
   [NoSurface EXCEPT !.draws = 1, !.batches = 2, !.captures = 3],
   [NoSurface EXCEPT !.colors = 1, !.modes = 1, !.batches = 1],
   [NoSurface EXCEPT !.draws = 1, !.links = 1, !.batches = 2],
   \* palettes
   [NoSurface EXCEPT !.colors = 3, !.modes = 1]}

Surface == INSTANCE SurfaceSync WITH
  Slots <- SurfaceSlots, Mirror <- SurfaceMirror, CursorSlots <- {258},
  StackSize <- 2, MaxRows <- 2, MaxColumns <- 2, MaxLinks <- 2, MaxWindow <- 4,
  Drawings <- SurfaceDrawings, Links <- 1..3, Colors <- {"green", "dynamic"},
  Profiles <- {Palette("red"), Palette("blue")},
  Sizes <- {SurfaceSize(r, c) : r \in 1..2, c \in 1..2},
  Scrollback <- 2, Budgets <- SurfaceBudgets,
  engine <- s1, model <- s2, base <- s3, query <- s4, client <- s5, left <- s6

(* Short sequences, and strings, of the bytes that matter to framing.      *)

IngressAlphabets ==
  {{"ESC", "[", "?", ";", "2026", "6", "h", "l", "c"},
   {"ESC", "CAN", "BEL", "CSI", "[", "?", "$", "6", "n", "c", "p"},
   {"CSI", "CAN", "#", "=", "?", "P", "u", "b", "t", "LEAD"},
   {"ESC", "OSC", "ST", "LEAD", "\\", "4"}, {"ESC", "P", "\\", "$", "m"},
   {"BEL", "OSC", ";", "8", "m"}, {"BEL", "OSC", ";", "9", "4"}, {"BEL", "]", "ESC", "9", ";", "m"},
   {"BEL", "OSC", "CAN", ";", "52", "c", "m"}}

Ingress == INSTANCE TerminalIngress WITH
  Alphabets <- IngressAlphabets, MaxSequence <- 7, MaxString <- 4,
  MaxClipboard <- 5, MaxEvents <- 1, MaxReplies <- 1, MaxBurst <- 2,
  policy <- s1, engine <- s2, out <- s3, model <- s4, alphabet <- s5

-----------------------------------------------------------------------------
RunInit ==
  \/ /\ part = "driver" /\ Init
     /\ s1 = 0 /\ s2 = 0 /\ s3 = 0 /\ s4 = 0 /\ s5 = 0 /\ s6 = 0
  \/ part = "surface" /\ AtRest /\ Surface!Init
  \/ part = "ingress" /\ AtRest /\ Ingress!Init /\ s6 = 0

RunNext ==
  \/ part = "driver" /\ Next /\ UNCHANGED <<part, slots>>
  \/ part = "surface" /\ Surface!Next /\ UNCHANGED <<vars, part>>
  \/ part = "ingress" /\ Ingress!Next /\ UNCHANGED <<vars, part, s6>>

RunSpec == RunInit /\ [][RunNext]_runVars

-----------------------------------------------------------------------------
\* SurfaceSync: a frontend shows what the host shows and refuses nothing; no
\* link in use is dropped, and popped colors are those pushed.
SurfaceIsHosts ==
  part = "surface" =>
    /\ Surface!ShownIsHosts /\ Surface!NothingRefused
    /\ Surface!LinkedStaysLinked /\ Surface!PopRestores

\* TerminalIngress: the policy frames the child's output as the engine does,
\* answers for mode 2026 truthfully, and accounts for dropped events.
IngressMediates ==
  part = "ingress" =>
    Ingress!Mediated /\ Ingress!SyncAgrees /\ Ingress!EventsAccounted
=============================================================================
