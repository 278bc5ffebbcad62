------------------------------ MODULE TaskPanel ------------------------------
(***************************************************************************)
(* The task panel of App: the tasks made by the /task commands, which are  *)
(* not connected to the shared task list yet, and the selected row. Titles *)
(* and assignees are left out: nothing is decided by them.                 *)
(***************************************************************************)
EXTENDS Naturals, Sequences, SequencesExt, FiniteSetsExt, Queues

CONSTANTS
  MaxTasks    \* bound: tasks in the panel

ASSUME TaskPanelAssumption == MaxTasks \in Nat

Status == {"Open", "InProgress", "Completed"}

VARIABLES
  tasks,
  row         \* selected_task

taskVars == <<tasks, row>>

TaskPanelTypeOK ==
  /\ tasks \in Seq([number : Nat \ {0}, status : Status])
  /\ row \in Nat

TaskPanelInit == tasks = << >> /\ row = 0

-----------------------------------------------------------------------------
(* The commands *)

Numbers == {tasks[i].number : i \in DOMAIN tasks}

\* add, with a title that is neither empty nor too long: one more than the
\* highest number in the panel. (The number, and the id made of it, of a deleted
\* task is given again if it was the highest.)
TaskAdd ==
  /\ Len(tasks) < MaxTasks
  /\ tasks' = Append(tasks, [number |-> Max(Numbers \cup {0}) + 1, status |-> "Open"])
  /\ UNCHANGED row

\* done: of the first task with number n.
TaskDone(n) ==
  /\ \E i \in DOMAIN tasks :
       /\ tasks[i].number = n /\ \A j \in 1..(i - 1) : tasks[j].number # n
       /\ tasks' = [tasks EXCEPT ![i].status = "Completed"]
  /\ UNCHANGED row

\* Vec::retain: the tasks that have another number.
Without(n) == Picked(tasks, {i \in DOMAIN tasks : tasks[i].number # n})

\* Mutant: the last row is selected even if there is none.
TaskDeleteUnguarded(n) ==
  /\ tasks' = Without(n)
  /\ row' = IF row >= Len(tasks') THEN Len(tasks') - 1 ELSE row

\* delete: the selected row is the last one if it was behind it.
TaskDelete(n) ==
  /\ tasks' = Without(n)
  /\ row' = IF tasks' # << >> /\ row >= Len(tasks') THEN Len(tasks') - 1 ELSE row

-----------------------------------------------------------------------------
(* The keys *)

\* Up and down.
MoveRow ==
  /\ tasks # << >>
  /\ row' \in {IF row > 0 THEN row - 1 ELSE 0,
               IF row + 1 < Len(tasks) THEN row + 1 ELSE row}
  /\ UNCHANGED tasks

NextStatus == [Open |-> "InProgress", InProgress |-> "Completed", Completed |-> "Open"]

\* Enter on the selected row, which is read without a check.
CycleStatus ==
  /\ tasks # << >>
  /\ tasks' = [tasks EXCEPT ![row + 1].status = NextStatus[@]]
  /\ UNCHANGED row

-----------------------------------------------------------------------------
(* Property *)

\* task_cmd_delete, handle_tasks_key: whatever is added, deleted and selected, the
\* row that Enter indexes exists, and a number the user types means one task.
RowsAreSound ==
  /\ row < Len(tasks) \/ (tasks = << >> /\ row = 0)
  /\ \A i, j \in DOMAIN tasks : tasks[i].number = tasks[j].number => i = j
=============================================================================
