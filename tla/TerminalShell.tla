---------------------------- MODULE TerminalShell ----------------------------
(* One interactive invocation of the command line (terminal_ui.rs): it takes the      *)
(* physical terminal (TerminalGuard), asks it for its colors, submits the create or   *)
(* attach request and waits for it while it paints progress and takes cancellation    *)
(* (await_while_inactive), shows the prepared view and waits for its acknowledgement,  *)
(* runs the session, detaches and gives the terminal back.  Signals reach the view    *)
(* through one watch value.  Every write to the terminal, every change of its          *)
(* attributes and the view itself (a panic) may fail.                                  *)
(* The view's own loop is TerminalView and InputFence; here it only ends.              *)
EXTENDS Naturals

CONSTANTS Requests,        \* "create", "main" (connect without --session), "attach"
          Budgets          \* faults and events that may still happen

VARIABLES
    request,
    pc,          \* where run_guarded_terminal, run_view and their waits are
    tty,         \* the physical terminal: raw attributes, our UI, appearance reports
    guard,       \* TerminalGuard: exists, restored, appearance_owned; failed restores
    signal,      \* a termination signal was delivered and not yet received
    cancel,      \* the watch value select_terminal_termination publishes
    selecting,   \* select_terminal_termination still waits for a first signal
    wait,        \* await_while_inactive: pending_cancellation, input_open, painting
    op,          \* the submitted future
    created,     \* the host created a Session for this request
    result,      \* the completion or error run_view returns
    journal,     \* ProgressObserver: still active, endings recorded
    left

vars == <<request, pc, tty, guard, signal, cancel, selecting, wait, op, created, result,
          journal, left>>

NoResult == [kind |-> "none", session |-> FALSE]
Told(kind, session) == [kind |-> kind, session |-> session]

Init ==
    /\ request \in Requests
    /\ pc = "start"
    /\ tty = [raw |-> FALSE, ui |-> FALSE, appearance |-> FALSE]
    /\ guard = [held |-> FALSE, restored |-> FALSE, owned |-> FALSE,
                display |-> 0, attributes |-> 0]
    /\ signal = FALSE /\ cancel = FALSE /\ selecting = FALSE
    /\ wait = [cancel |-> "none", input |-> TRUE, painting |-> TRUE]
    /\ op = "unsent" /\ created = FALSE
    /\ result = NoResult
    /\ journal = [active |-> TRUE, endings |-> 0]
    /\ left \in Budgets

Spend(kind) == left[kind] > 0 /\ left' = [left EXCEPT ![kind] = @ - 1]
Free == UNCHANGED left

ended == <<signal, cancel, selecting>>
host == <<op, created>>

\* run_view returns: the guard restores next, then the startup journal is closed.
Returns(kind, session) ==
    /\ result' = Told(kind, session)
    /\ pc' = "leave"

-----------------------------------------------------------------------------
(* Taking the terminal *)

\* TerminalSignals::install and the flush before raw mode.  A failure leaves the terminal
\* as it was.
Install ==
    /\ pc = "start"
    /\ \/ Free /\ pc' = "enter" /\ selecting' = TRUE /\ UNCHANGED result
       \/ Spend("write") /\ pc' = "close" /\ result' = Told("io", FALSE) /\ UNCHANGED selecting
    /\ UNCHANGED <<request, tty, guard, signal, cancel, wait, host, journal>>

\* TerminalGuard::enter: raw attributes, then the guard exists, then the UI sequence.  A
\* failed write may have written part of the sequence; it is undone before enter returns
\* its error.
EnterAttributes ==
    /\ pc = "enter" /\ ~guard.held
    /\ \/ Free /\ tty' = [tty EXCEPT !.raw = TRUE] /\ guard' = [guard EXCEPT !.held = TRUE]
          /\ UNCHANGED <<pc, result>>
       \/ Spend("attr") /\ pc' = "close" /\ result' = Told("io", FALSE)
          /\ UNCHANGED <<tty, guard>>
    /\ UNCHANGED <<request, ended, wait, host, journal>>

EnterUi ==
    /\ pc = "enter" /\ guard.held
    /\ \/ Free /\ tty' = [tty EXCEPT !.ui = TRUE] /\ pc' = "view" /\ UNCHANGED result
       \/ /\ Spend("write")
          /\ \E part \in BOOLEAN : tty' = [tty EXCEPT !.ui = part]
          /\ pc' = "undo" /\ result' = Told("io", FALSE)
    /\ UNCHANGED <<request, guard, ended, wait, host, journal>>

-----------------------------------------------------------------------------
(* Termination signals *)

Signal ==
    /\ Spend("signal") /\ pc # "done"
    /\ signal' = TRUE
    /\ UNCHANGED <<request, pc, tty, guard, cancel, selecting, wait, host, result, journal>>

InView == {"view", "colors", "submit", "prepare", "show", "ack", "session", "detach"}

\* The coordinator that loses the signal (a mutation).
SelectsSignalDeaf ==
    /\ pc \in InView /\ signal /\ selecting
    /\ signal' = FALSE /\ selecting' = FALSE
    /\ Free
    /\ UNCHANGED <<request, pc, tty, guard, cancel, wait, host, result, journal>>

\* select_terminal_termination: the first signal is published once, and from then on only
\* the view is awaited; later signals are not received.
SelectsSignal ==
    /\ pc \in InView /\ signal /\ selecting
    /\ signal' = FALSE /\ selecting' = FALSE /\ cancel' = TRUE
    /\ Free
    /\ UNCHANGED <<request, pc, tty, guard, wait, host, result, journal>>

-----------------------------------------------------------------------------
(* Before anything is submitted *)

\* run_view's first lines: a signal that is already there, the viewport, the stdin pump and
\* the first startup frame.
View ==
    /\ pc = "view"
    /\ \/ cancel /\ Free /\ Returns("signal", FALSE)
       \/ ~cancel /\ Free /\ pc' = "colors" /\ UNCHANGED result
       \/ ~cancel /\ Spend("write") /\ Returns("io", FALSE)
    /\ UNCHANGED <<request, tty, guard, ended, wait, host, journal>>

\* HostColors::next_command answers a mode report: the ownership flag is stored before the
\* sequence is written, so that restoration undoes a partial write too.
OwnsAppearanceLate(wrote, ok) == guard.owned \/ ok
OwnsAppearance(wrote, ok) == TRUE

Enables(ok, wrote) ==
    /\ tty' = [tty EXCEPT !.appearance = @ \/ wrote]
    /\ guard' = [guard EXCEPT !.owned = OwnsAppearance(wrote, ok)]

\* One iteration of the initial color loop: a reply that enables appearance reports, a
\* signal, the detach command or the end of the input, or a failed write.
Colors ==
    /\ pc = "colors"
    /\ \/ cancel /\ Free /\ Returns("signal", FALSE) /\ UNCHANGED <<tty, guard>>
       \/ Spend("input") /\ Returns("detached", FALSE) /\ UNCHANGED <<tty, guard>>
       \/ ~guard.owned /\ Free /\ Enables(TRUE, TRUE) /\ UNCHANGED <<pc, result>>
       \/ /\ ~guard.owned /\ Spend("write")
          /\ \E wrote \in BOOLEAN : Enables(FALSE, wrote)
          /\ Returns("io", FALSE)
    /\ UNCHANGED <<request, ended, wait, host, journal>>

\* The round is complete or 250 ms are over.
ColorsDone ==
    /\ pc = "colors"
    /\ pc' = "submit"
    /\ Free
    /\ UNCHANGED <<request, tty, guard, ended, wait, host, result, journal>>

-----------------------------------------------------------------------------
(* await_while_inactive, over the submitted request and over the acknowledgement *)

\* The initial paint precedes the first poll of a future that can create a Session.
Submit ==
    /\ pc = "submit"
    /\ \/ Free /\ op' = "sent" /\ pc' = "prepare" /\ UNCHANGED result
       \/ Spend("write") /\ Returns("io", FALSE) /\ UNCHANGED op
    /\ UNCHANGED <<request, tty, guard, ended, wait, created, journal>>

\* The host handles the request, whether or not anyone still waits for the answer.
HostCreates ==
    /\ op = "sent" /\ request # "attach" /\ ~created
    /\ created' = TRUE
    /\ Free
    /\ UNCHANGED <<request, pc, tty, guard, ended, wait, op, result, journal>>

\* prepare, its first half: the created Session is attached next; a lost answer is an
\* error that names nothing.
OpCreates ==
    /\ pc = "prepare" /\ op = "sent"
    /\ \/ request = "create" /\ created /\ Free /\ op' = "attaching"
       \/ Spend("op") /\ op' = "failed"
    /\ UNCHANGED <<request, pc, tty, guard, ended, wait, created, result, journal>>

\* attach_resolved, of the request itself or of the Session just created, whose identity a
\* failure reports.
OpAttaches ==
    /\ pc = "prepare"
    /\ \/ /\ op = "sent" /\ (request = "main" => created) /\ request # "create"
          /\ Free /\ op' = "prepared"
       \/ op = "attaching" /\ Free /\ op' = "prepared"
       \/ op = "attaching" /\ Spend("op") /\ op' = "unattached"
    /\ UNCHANGED <<request, pc, tty, guard, ended, wait, created, result, journal>>

\* acknowledge_initial.
OpAcknowledges ==
    /\ pc = "ack" /\ op = "acking"
    /\ \/ Free /\ op' = "acknowledged"
       \/ Spend("op") /\ op' = "failed"
    /\ UNCHANGED <<request, pc, tty, guard, ended, wait, created, result, journal>>

Finished == op \in {"prepared", "unattached", "failed", "acknowledged"}

\* A request that may create a Session keeps its submitted result.
PreservesCreateOnly == pc = "prepare" /\ request = "create"
Preserves == pc = "prepare" /\ request \in {"create", "main"}

\* inactive_cancellation_result, told the Session once it is known.
CancelledKind(c) ==
    CASE c = "detach" -> "detached" [] c = "signal" -> "signal" [] c = "paint" -> "paint"

\* The future is ready, first in the biased select.
WaitReady ==
    /\ pc \in {"prepare", "ack"} /\ Finished
    /\ \/ op = "failed" /\ Returns("op", FALSE)
       \/ op = "unattached" /\ Returns("unattached", TRUE)
       \/ op \in {"prepared", "acknowledged"} /\ wait.cancel # "none"
          /\ Returns(CancelledKind(wait.cancel), TRUE)
       \/ /\ op \in {"prepared", "acknowledged"} /\ wait.cancel = "none"
          /\ pc' = IF op = "prepared" THEN "show" ELSE "session"
          /\ UNCHANGED result
    /\ Free
    /\ UNCHANGED <<request, tty, guard, ended, wait, host, journal>>

Waiting == pc \in {"prepare", "ack"} /\ ~Finished /\ wait.painting

\* A cancellation: without a preserved result the wait returns at once; with one it goes on
\* painting and the future keeps running.
Cancels(c) ==
    IF ~Preserves
    THEN Returns(CancelledKind(c), pc = "ack") /\ UNCHANGED wait
    ELSE wait' = [wait EXCEPT !.cancel = c] /\ UNCHANGED <<pc, result>>

WaitSignal ==
    /\ Waiting /\ cancel /\ wait.cancel = "none"
    /\ Cancels("signal")
    /\ Free
    /\ UNCHANGED <<request, tty, guard, ended, host, journal>>

\* The detach command or the end of the input; or a read error, which ends the wait unless
\* it is already cancelled.
WaitInput ==
    /\ Waiting /\ wait.input /\ Spend("input")
    /\ \/ wait.cancel = "none" /\ Cancels("detach")
       \/ wait.cancel = "none" /\ Returns("input", FALSE) /\ UNCHANGED wait
       \/ /\ wait.cancel # "none"
          /\ wait' = [wait EXCEPT !.input = FALSE] /\ UNCHANGED <<pc, result>>
    /\ UNCHANGED <<request, tty, guard, ended, host, journal>>

\* A frame that cannot be painted: a preserved request is awaited without painting.
WaitPaintFails ==
    /\ Waiting /\ Spend("write")
    /\ IF Preserves
       THEN /\ wait' = [wait EXCEPT !.painting = FALSE,
                                    !.cancel = IF @ = "none" THEN "paint" ELSE @]
            /\ UNCHANGED <<pc, result>>
       ELSE Returns("io", FALSE) /\ UNCHANGED wait
    /\ UNCHANGED <<request, tty, guard, ended, host, journal>>

\* The window's size cannot be read after a change of it: an error also of a wait that is
\* already cancelled.
WaitFails ==
    /\ Waiting /\ Spend("write")
    /\ Returns("io", FALSE)
    /\ UNCHANGED <<request, tty, guard, ended, wait, host, journal>>

\* flush_commands at the top of the loop and in the session's: a mode report that came late
\* still enables appearance reports, unless its command cannot be written.
LateColors ==
    /\ ~guard.owned
    /\ (Waiting /\ wait.cancel = "none") \/ pc = "session"
    /\ \/ Free /\ Enables(TRUE, TRUE) /\ UNCHANGED <<pc, result>>
       \/ /\ Spend("write") /\ \E wrote \in BOOLEAN : Enables(FALSE, wrote)
          /\ result' = Told("io", FALSE)
          /\ pc' = IF pc = "session" THEN "detach" ELSE "leave"
    /\ UNCHANGED <<request, ended, wait, host, journal>>

-----------------------------------------------------------------------------
(* The prepared view, the session and the way out *)

\* The initial snapshot is painted; a signal that came meanwhile is checked once more.
Show ==
    /\ pc = "show"
    /\ \/ cancel /\ Free /\ Returns("signal", TRUE) /\ UNCHANGED <<wait, op>>
       \/ ~cancel /\ Free /\ pc' = "ack" /\ op' = "acking" /\ UNCHANGED <<wait, result>>
       \/ Spend("write") /\ Returns("io", FALSE) /\ UNCHANGED <<wait, op>>
    /\ UNCHANGED <<request, tty, guard, ended, created, journal>>

\* The first Active state retires the startup observer; every clone is silent from then on.
Ready ==
    /\ pc = "session" /\ journal.active
    /\ journal' = [active |-> FALSE, endings |-> journal.endings + 1]
    /\ Free
    /\ UNCHANGED <<request, pc, tty, guard, ended, wait, host, result>>

\* The view loop ends: detach or the end of input, the Session's end, a lost lease or a
\* broken stream.  A driver failure is an error.
SessionEnds ==
    /\ pc = "session"
    /\ \/ /\ Spend("input") /\ pc' = "detach" /\ result' = Told("detached", FALSE)
       \/ /\ Spend("op")
          /\ \E kind \in {"ended", "driver", "stream"} :
                /\ result' = Told(kind, FALSE)
                /\ pc' = IF kind = "ended" THEN "leave" ELSE "detach"
       \/ /\ Spend("write") /\ pc' = "detach" /\ result' = Told("io", FALSE)
    /\ UNCHANGED <<request, tty, guard, ended, wait, host, journal>>

SessionCancelled ==
    /\ pc = "session" /\ cancel
    /\ pc' = "detach" /\ result' = Told("signal", TRUE)
    /\ Free
    /\ UNCHANGED <<request, tty, guard, ended, wait, host, journal>>

\* finish_terminal_view: an earlier error is kept; a detach that fails or takes too long
\* is the error of an otherwise clean completion.
Detach ==
    /\ pc = "detach"
    /\ pc' = "leave"
    /\ \/ Free /\ UNCHANGED result
       \/ /\ Spend("op")
          /\ result' = IF result.kind = "detached" THEN Told("undetached", FALSE) ELSE result
    /\ UNCHANGED <<request, tty, guard, ended, wait, host, journal>>

\* catch_unwind: the view is gone, the guard is dropped while unwinding.
Panics ==
    /\ pc \in InView /\ Spend("panic")
    /\ result' = Told("panic", FALSE)
    /\ pc' = "drop"
    /\ UNCHANGED <<request, tty, guard, ended, wait, host, journal>>

-----------------------------------------------------------------------------
(* Giving the terminal back *)

\* TerminalGuard::restore: appearance reports and the display in one fallible chain, then
\* the attributes whatever became of the display.
Restores(display, attributes) ==
    /\ tty' = [raw |-> tty.raw /\ ~attributes,
               ui |-> tty.ui /\ ~display,
               appearance |-> tty.appearance /\ ~(guard.owned /\ display)]
    /\ guard' = [guard EXCEPT !.restored = display /\ attributes,
                              !.display = @ + (IF display THEN 0 ELSE 1),
                              !.attributes = @ + (IF attributes THEN 0 ELSE 1)]

Restore ==
    /\ ~guard.restored
    /\ \/ Free /\ Restores(TRUE, TRUE)
       \/ Spend("write") /\ Restores(FALSE, TRUE)
       \/ Spend("attr") /\ Restores(TRUE, FALSE)
       \/ /\ left.write > 0 /\ left.attr > 0 /\ Restores(FALSE, FALSE)
          /\ left' = [left EXCEPT !.write = @ - 1, !.attr = @ - 1]

\* The explicit restore at the end of run_guarded_terminal: its error wins over the view's
\* result, that of a failed enter is dropped.
Leave ==
    /\ pc \in {"leave", "undo"}
    /\ Restore
    /\ pc' = "drop"
    /\ result' = IF guard'.restored \/ pc = "undo" THEN result ELSE Told("restore", FALSE)
    /\ UNCHANGED <<request, ended, wait, host, journal>>

\* Drop: restores again if the explicit restore failed or never ran.
DropGuard ==
    /\ pc = "drop"
    /\ IF guard.restored THEN Free /\ UNCHANGED <<tty, guard>> ELSE Restore
    /\ pc' = "close"
    /\ UNCHANGED <<request, ended, wait, host, result, journal>>

\* An ending added whether or not the startup was over (a mutation).
CloseAlways ==
    /\ pc = "close"
    /\ journal' = [active |-> FALSE, endings |-> journal.endings + 1]
    /\ pc' = "done"
    /\ Free
    /\ UNCHANGED <<request, tty, guard, ended, wait, host, result>>

\* finish_startup_progress: a startup that never became ready is given its ending.
Close ==
    /\ pc = "close"
    /\ journal' = [active |-> FALSE,
                   endings |-> journal.endings + (IF journal.active THEN 1 ELSE 0)]
    /\ pc' = "done"
    /\ Free
    /\ UNCHANGED <<request, tty, guard, ended, wait, host, result>>

-----------------------------------------------------------------------------
Faults == Signal \/ Panics
Steps ==
    \/ Install \/ EnterAttributes \/ EnterUi \/ View \/ Colors \/ ColorsDone \/ Submit
    \/ WaitReady \/ WaitSignal \/ WaitInput \/ WaitPaintFails \/ WaitFails \/ LateColors \/ Show \/ Ready
    \/ SessionEnds \/ SessionCancelled \/ Detach \/ Leave \/ DropGuard \/ Close

OpMoves == OpCreates \/ OpAttaches \/ OpAcknowledges
Next == Faults \/ Steps \/ SelectsSignal \/ HostCreates \/ OpMoves

Spec == Init /\ [][Next]_vars

\* The coordinator and the view are one task that is always polled again; the future ends
\* because every request carries a deadline; a ready branch of the session's select is
\* chosen eventually.
FairSpec ==
    /\ Spec
    /\ WF_vars(SelectsSignal) /\ WF_vars(HostCreates) /\ WF_vars(OpMoves)
    /\ WF_vars(Install \/ EnterAttributes \/ EnterUi \/ View \/ ColorsDone \/ Submit
               \/ WaitReady \/ Show \/ Detach \/ Leave \/ DropGuard \/ Close)
    /\ WF_vars(SessionCancelled)

TypeOK ==
    /\ pc \in InView \cup {"start", "enter", "undo", "leave", "drop", "close", "done"}
    /\ wait.cancel \in {"none", "detach", "signal", "paint"}
    /\ journal.endings \in 0..2

\* Whatever ended the invocation (an error while entering, a signal, a failed paint), the
\* terminal is left raw only if its attributes could not be set twice, and with our screen
\* or appearance reports on only if the display could not be written twice, whichever part
\* of a sequence was written: TerminalGuard::restore and its retry in Drop.  A panic has
\* only the attempt in Drop.
Attempts == IF result.kind = "panic" THEN 1 ELSE 2
Restored ==
    pc = "done" =>
        /\ tty.raw => guard.attributes = Attempts
        /\ (tty.ui \/ tty.appearance) => guard.display = Attempts

\* A detach, a signal or a failed frame that crosses a request which may create a Session
\* never loses the Session: once it was created, and before its view is active, the user is
\* told its identity.  An error of the wait itself (an unreadable window size) names nothing.
CreatedIsReported ==
    (/\ pc = "done" /\ created /\ op # "acknowledged"
     /\ result.kind \in {"detached", "signal", "paint", "unattached"})
    => result.session

\* The startup journal gets exactly one ending: ready, or the way the invocation ended
\* before that, never both.
StartupEndsOnce ==
    /\ journal.endings <= 1
    /\ pc = "done" => journal.endings = 1

\* A delivered signal ends the invocation, also while a create is in flight and while the
\* terminal is already being given back.
SignalEnds == signal ~> pc = "done"
=============================================================================
