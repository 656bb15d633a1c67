------------------------------- MODULE ViewMC -------------------------------
(***************************************************************************)
(* The frontend's view of a terminal and what serves it, on small          *)
(* instances: TerminalView, TerminalShell, ViewportHistory and FileUpload. *)
(*                                                                         *)
(* The four are checked side by side: `part' says which of them a          *)
(* behaviour is about.  TerminalView has its own variables; those of the   *)
(* others are the slots s1 to s13.  What a behaviour is not about stays    *)
(* at rest.                                                                *)
(***************************************************************************)
EXTENDS TerminalView

VARIABLES part, s1, s2, s3, s4, s5, s6, s7, s8, s9, s10, s11, s12, s13

slots == <<s1, s2, s3, s4, s5, s6, s7, s8, s9, s10, s11, s12, s13>>
runVars == <<vars, part, slots>>

-----------------------------------------------------------------------------
(* What may happen to one view.                                            *)

ViewQuiet ==
  [output |-> 0, rival |-> 0, end |-> 0, loss |-> 0, scroll |-> 0, type |-> 0,
   winch |-> 0, detach |-> 0, takeover |-> 0, stall |-> 0]
ViewBudgets ==
  {[ViewQuiet EXCEPT !.loss = 1, !.scroll = 1],
   [ViewQuiet EXCEPT !.loss = 1, !.output = 1],
   [ViewQuiet EXCEPT !.output = 1, !.scroll = 1, !.end = 1],
   [ViewQuiet EXCEPT !.output = 1, !.type = 1, !.winch = 1],
   [ViewQuiet EXCEPT !.type = 1, !.scroll = 1],
   [ViewQuiet EXCEPT !.takeover = 1, !.type = 1, !.winch = 1],
   [ViewQuiet EXCEPT !.takeover = 1, !.output = 1, !.end = 1],
   [ViewQuiet EXCEPT !.takeover = 1, !.stall = 1],
   [ViewQuiet EXCEPT !.scroll = 1, !.output = 1, !.stall = 1],
   [ViewQuiet EXCEPT !.takeover = 1, !.rival = 1, !.loss = 1],
   [ViewQuiet EXCEPT !.rival = 1, !.end = 1, !.detach = 1, !.loss = 1]}

AtRest == Init /\ left = [ViewQuiet EXCEPT !.type = 1, !.scroll = 1]

-----------------------------------------------------------------------------
(* Two failures of each kind: enough for a restore and its retry to fail.  *)

Shell == INSTANCE TerminalShell WITH
  Requests <- {"create", "main", "attach"},
  Budgets <- {[write |-> 2, attr |-> 2, panic |-> 1, signal |-> 2, input |-> 2, op |-> 1]},
  request <- s1, pc <- s2, tty <- s3, guard <- s4, signal <- s5, cancel <- s6,
  selecting <- s7, wait <- s8, op <- s9, created <- s10, result <- s11,
  journal <- s12, left <- s13

(* Selections while the program prints, rows lost from history, and the    *)
(* viewport crossing a resynchronisation, a resize and a lost connection.  *)

HistoryQuiet ==
  [write |-> 0, scroll |-> 0, clear |-> 0, recolor |-> 0, resync |-> 0,
   wheel |-> 0, drag |-> 0, key |-> 0, select |-> 0, resize |-> 0,
   paint |-> 0, drop |-> 0]
HistoryBudgets ==
  {[HistoryQuiet EXCEPT !.write = 1, !.scroll = 1, !.drag = 2, !.select = 1],
   [HistoryQuiet EXCEPT !.write = 1, !.recolor = 1, !.wheel = 1, !.select = 1],
   [HistoryQuiet EXCEPT !.scroll = 1, !.clear = 1, !.wheel = 2, !.paint = 1],
   [HistoryQuiet EXCEPT !.scroll = 1, !.resync = 1, !.wheel = 2],
   [HistoryQuiet EXCEPT !.scroll = 1, !.drop = 1, !.wheel = 2, !.key = 1],
   [HistoryQuiet EXCEPT !.scroll = 1, !.resize = 1, !.wheel = 2],
   [HistoryQuiet EXCEPT !.drop = 1, !.resize = 2, !.wheel = 1]}

History == INSTANCE ViewportHistory WITH
  Rows <- 2, Retained <- 5, Scrollback <- 7, Budgets <- HistoryBudgets,
  host <- s1, up <- s2, down <- s3, events <- s4, slot <- s5, ui <- s6,
  ended <- s7, left <- s8

(* An empty file, whole and short reads, a source that changes.            *)

Source(kind, size, actual) == [kind |-> kind, size |-> size, actual |-> actual]
UploadSources ==
  {Source("file", 0, 0), Source("file", 5, 5), Source("image", 3, 3),
   Source("file", 3, 2), Source("file", 2, 3), Source("file", 9, 9),
   Source("text", 0, 0)}
UploadQuiet == [slow |-> 0, cancel |-> 0, disk |-> 0, control |-> 0, link |-> 0]
UploadBudgets ==
  {[[UploadQuiet EXCEPT ![a] = 1] EXCEPT ![b] = @ + 1] : a, b \in DOMAIN UploadQuiet}

Upload == INSTANCE FileUpload WITH
  Sources <- UploadSources, Budgets <- UploadBudgets, MaxBytes <- 8, ChunkSize <- 2,
  Window <- 3, Ack <- 2, Room <- 2,
  source <- s1, c <- s2, h <- s3, job <- s4, file <- s5, lease <- s6, up <- s7,
  down <- s8, link <- s9, left <- s10

-----------------------------------------------------------------------------
RunInit ==
  \/ /\ part = "view" /\ Init
     /\ s1 = 0 /\ s2 = 0 /\ s3 = 0 /\ s4 = 0 /\ s5 = 0 /\ s6 = 0 /\ s7 = 0
     /\ s8 = 0 /\ s9 = 0 /\ s10 = 0 /\ s11 = 0 /\ s12 = 0 /\ s13 = 0
  \/ part = "shell" /\ AtRest /\ Shell!Init
  \/ /\ part = "history" /\ AtRest /\ History!Init
     /\ s9 = 0 /\ s10 = 0 /\ s11 = 0 /\ s12 = 0 /\ s13 = 0
  \/ /\ part = "upload" /\ AtRest /\ Upload!Init
     /\ s11 = 0 /\ s12 = 0 /\ s13 = 0

RunNext ==
  \/ part = "view" /\ Next /\ UNCHANGED <<part, slots>>
  \/ part = "shell" /\ Shell!Next /\ UNCHANGED <<vars, part>>
  \/ part = "history" /\ History!Next /\ UNCHANGED <<vars, part, s9, s10, s11, s12, s13>>
  \/ part = "upload" /\ Upload!Next /\ UNCHANGED <<vars, part, s11, s12, s13>>

RunSpec == RunInit /\ [][RunNext]_runVars

-----------------------------------------------------------------------------
\* TerminalShell: the terminal is given back, a created session is reported,
\* and startup ends once.
ShellGivesBack ==
  part = "shell" =>
    Shell!Restored /\ Shell!CreatedIsReported /\ Shell!StartupEndsOnce

\* ViewportHistory: what is selected and copied is what is shown, and every
\* window answers a request.
HistoryIsWhatIsShown ==
  part = "history" =>
    /\ History!AnswersAreExpected
    /\ History!SelectsWhatIsShown
    /\ History!CopiesWhatWasPicked

\* FileUpload: the answer is true, nothing half written stays, and credit
\* never runs out for good.
UploadIsHonest ==
  part = "upload" =>
    Upload!UploadToldTruth /\ Upload!NothingHalfStays /\ Upload!NeverStalls
=============================================================================
