-------------------------- MODULE ConsoleDashboard --------------------------
(***************************************************************************)
(* A ConsoleDashboard (ekam/ConsoleDashboard.cpp), of Ekam itself or of an *)
(* ekam-client: the tasks it was told of, and the lines at the bottom of   *)
(* the terminal that list the running ones, which are drawn again after    *)
(* every change.  A console is a record; the operators return what a call  *)
(* makes of it.  A text is the sequence of its lines.                      *)
(***************************************************************************)
EXTENDS Integers, Sublists

CONSTANTS
    Tasks,      \* the tasks of the build
    Silent      \* those begun with SILENT

\* DONE stands for PASSED too, which differs in colour only.
TaskStates == {"PENDING", "RUNNING", "DONE", "FAILED", "BLOCKED"}
Final == {"DONE", "FAILED"}

NewConsole ==
    [st |-> [t \in Tasks |-> "none"],       \* "none": there is no such task
     out |-> [t \in Tasks |-> <<>>],        \* outputText
     running |-> <<>>,                      \* runningTasks
     lineCount |-> 0,                       \* runningTasksLineCount
     debugged |-> FALSE,                    \* a debug message since the last draw
     onScreen |-> 0,    \* lines of the list on the terminal, below all else
     shown |-> [t \in Tasks |-> <<>>],      \* what was printed of the last run
     eaten |-> FALSE,   \* a line of the log was erased with the list
     left |-> FALSE]    \* a line of an old list was not erased

\* Move up over the list and clear, unless something was printed below it.
ClearRunning(c) ==
    IF c.debugged THEN [c EXCEPT !.onScreen = 0]
    ELSE [c EXCEPT !.onScreen = 0,
                   !.eaten = @ \/ c.lineCount > c.onScreen,
                   !.left = @ \/ c.lineCount < c.onScreen]

\* Mutant: the line "...(more)..." is not counted.
DrawUncounted(c, rows) ==
    LET spaceForTasks == rows - 4
        n == Len(c.running)
    IN IF n < spaceForTasks
       THEN [c EXCEPT !.lineCount = n, !.onScreen = n, !.debugged = FALSE]
       ELSE [c EXCEPT !.lineCount = spaceForTasks - 1,
                      !.onScreen = 1 + IF spaceForTasks > 0 THEN spaceForTasks - 1 ELSE 0,
                      !.debugged = FALSE]

\* If they are too many for the window the last line says "...(more)...".
DrawRunning(c, rows) ==
    LET spaceForTasks == rows - 4
        n == Len(c.running)
    IN IF n < spaceForTasks
       THEN [c EXCEPT !.lineCount = n, !.onScreen = n, !.debugged = FALSE]
       ELSE [c EXCEPT !.lineCount = spaceForTasks,
                      !.onScreen = 1 + IF spaceForTasks > 0 THEN spaceForTasks - 1 ELSE 0,
                      !.debugged = FALSE]

IsFirst(tasks, t, i) == tasks[i] = t /\ \A j \in 1 .. i - 1 : tasks[j] # t
RemoveFromRunning(c, t) ==
    [c EXCEPT !.running = Sublist(@, {i \in DOMAIN c.running : ~IsFirst(c.running, t, i)})]

\* Silent tasks are written to the log only if they have output.
WriteFinalLog(c, t) == [c EXCEPT !.shown[t] = @ \o c.out[t], !.out[t] = <<>>]

BeginConsoleTask(c, t) == [c EXCEPT !.st[t] = "PENDING"]

\* Why a task was blocked is of no interest when it is not any more.
ForgetReason(c, t, s) ==
    IF c.st[t] = "BLOCKED" /\ s \in {"PENDING", "RUNNING"} THEN [c EXCEPT !.out[t] = <<>>] ELSE c

LeaveRunning(c, t) ==
    IF c.st[t] = "RUNNING" /\ t \notin Silent THEN RemoveFromRunning(c, t) ELSE c

SetState(c, t, s, rows) ==
    LET left == [LeaveRunning(ForgetReason(c, t, s), t) EXCEPT !.st[t] = s]
        cleared == ClearRunning(left)
        changed == CASE s \in Final -> WriteFinalLog(cleared, t)
                     [] s = "RUNNING" ->
                          [cleared EXCEPT !.shown[t] = <<>>,
                             !.running = IF t \in Silent THEN @ ELSE Append(@, t)]
                     [] OTHER -> cleared
    IN DrawRunning(changed, rows)

AddOutput(c, t, text) == [c EXCEPT !.out[t] = @ \o text]

\* ~TaskImpl
EndConsoleTask(c, t, rows) ==
    LET undrawn == IF c.st[t] = "RUNNING"
                   THEN DrawRunning(RemoveFromRunning(ClearRunning(c), t), rows) ELSE c
    IN [undrawn EXCEPT !.st[t] = "none", !.out[t] = <<>>, !.shown[t] = <<>>]

\* The consoles there are; the text is of some lines.
Console(lines) ==
    [st : [Tasks -> TaskStates \cup {"none"}],
     out : [Tasks -> Seq(lines)],
     running : Seq(Tasks),
     lineCount : Int,
     debugged : BOOLEAN,
     onScreen : Nat,
     shown : [Tasks -> Seq(lines)],
     eaten : BOOLEAN,
     left : BOOLEAN]

=============================================================================
