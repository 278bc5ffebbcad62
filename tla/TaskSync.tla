------------------------------- MODULE TaskSync -------------------------------
(***************************************************************************)
(* The shared task list of a room: TaskManager and the last-writer-wins    *)
(* merge (termchat/src/tasks). Each peer updates its own copy and sends    *)
(* the update; a peer may send a snapshot of its whole list. The messages  *)
(* are a set that only grows: each may be applied late, in any order, many *)
(* times, or never. Stamps are readings of wall clocks, which may disagree,*)
(* stand still or step back: now_ms returns anything.                      *)
(***************************************************************************)
EXTENDS Naturals, FiniteSets

CONSTANTS
  Peers,
  TaskIds,
  Nobody,        \* the empty author of a stub's registers
  NoTask,        \* "not in the list"
  Rank,          \* the order of the authors as strings
  Statuses,      \* TaskStatus, with "open"
  Assignees,     \* Option<String>, with "none"
  MaxClock,      \* bound: readings of a clock
  MaxWrites,     \* bound: creations and updates
  MaxSnapshots   \* bound: full states sent on request

Authors == Peers \cup {Nobody}

ASSUME TaskAssumption ==
  /\ Nobody \notin Peers
  /\ Rank \in [Authors -> Nat]
  /\ \A a, b \in Authors : Rank[a] = Rank[b] => a = b
  /\ \A a \in Peers : Rank[Nobody] < Rank[a]
  /\ "open" \in Statuses /\ "none" \in Assignees
  /\ MaxClock \in Nat \ {0} /\ MaxWrites \in Nat /\ MaxSnapshots \in Nat

\* now_ms: milliseconds since 1970, by the clock of whoever asks.
Times == 1..MaxClock

Fields == {"title", "status", "assignee"}
Values == {"", "text"} \cup Statuses \cup Assignees

\* LwwRegister and Task. A written register has a positive time.
Register == [value : Values, ts : 0..MaxClock, author : Authors]
Task == [fields : [Fields -> Register], createdAt : Times, createdBy : Peers]
ASSUME NoTaskAssumption == NoTask \notin Task

VARIABLES
  tasks,     \* TaskManager::tasks of each peer
  msgs,      \* the TaskSyncMessages sent
  known,     \* the writes each peer made or got, directly or in a full state
  behind,    \* fields that some peer has overwritten with a stamp that was not
             \* later than the one it replaced
  writes,    \* creations and updates so far
  snapshots  \* full states sent so far

vars == <<tasks, msgs, known, behind, writes, snapshots>>

KnownWrite == [task : TaskIds, field : Fields, reg : Register]
Message ==
  [kind : {"update"}, task : TaskIds, field : Fields, reg : Register]
  \cup [kind : {"full"}, tasks : [TaskIds -> Task \cup {NoTask}],
        known : SUBSET KnownWrite]

TypeOK ==
  /\ tasks \in [Peers -> [TaskIds -> Task \cup {NoTask}]]
  /\ msgs \subseteq Message
  /\ known \in [Peers -> SUBSET KnownWrite]
  /\ behind \subseteq TaskIds \X Fields
  /\ writes \in 0..MaxWrites
  /\ snapshots \in 0..MaxSnapshots

Init ==
  /\ tasks = [p \in Peers |-> [t \in TaskIds |-> NoTask]]
  /\ msgs = {}
  /\ known = [p \in Peers |-> {}]
  /\ behind = {}
  /\ writes = 0
  /\ snapshots = 0

-----------------------------------------------------------------------------
(* The merge *)

\* r beats l: a later time, or the same time and a greater author.
Newer(r, l) == r.ts > l.ts \/ (r.ts = l.ts /\ Rank[r.author] > Rank[l.author])

\* Mutant: of two registers of the same time, the one that arrives wins.
MergeLwwNoTieBreak(l, r) == IF r.ts >= l.ts THEN r ELSE l

MergeLww(l, r) == IF Newer(r, l) THEN r ELSE l

\* The creation fields are not merged.
MergeTask(l, r) ==
  [l EXCEPT !.fields = [f \in Fields |-> MergeLww(l.fields[f], r.fields[f])]]

\* Mutant: a task that is in the list already is not merged.
MergeTaskListAddsOnly(local, remote) ==
  [t \in TaskIds |-> IF local[t] = NoTask THEN remote[t] ELSE local[t]]

\* Mutant: the tasks of a full state replace those of the list.
MergeTaskListReplaces(local, remote) ==
  [t \in TaskIds |-> IF remote[t] = NoTask THEN local[t] ELSE remote[t]]

MergeTaskList(local, remote) ==
  [t \in TaskIds |->
     IF remote[t] = NoTask THEN local[t]
     ELSE IF local[t] = NoTask THEN remote[t]
     ELSE MergeTask(local[t], remote[t])]

\* The merged register is stored if it is the one that came.
ApplyFieldUpdate(task, f, r) ==
  LET m == MergeLww(task.fields[f], r) IN
  IF m.ts = r.ts /\ m.author = r.author THEN [task EXCEPT !.fields[f] = m] ELSE task

\* Mutant: the creation fields of the stub are left empty.
StubUncreated(r) ==
  [fields |-> [f \in Fields |->
     [value |-> CASE f = "title" -> "" [] f = "status" -> "open" [] f = "assignee" -> "none",
      ts |-> 0, author |-> Nobody]],
   createdAt |-> 0, createdBy |-> Nobody]

\* The stub that apply_remote makes of an update for a task it does not have.
Stub(r) ==
  [fields |-> [f \in Fields |->
     [value |-> CASE f = "title" -> "" [] f = "status" -> "open" [] f = "assignee" -> "none",
      ts |-> 0, author |-> Nobody]],
   createdAt |-> r.ts, createdBy |-> r.author]

-----------------------------------------------------------------------------
(* The operations of TaskManager *)

WritesOf(t, task) == {[task |-> t, field |-> f, reg |-> task.fields[f]] : f \in Fields}

\* create_task: a new id, all fields written now, a full state of one task.
CreateTask(p, t, now) ==
  LET reg(v) == [value |-> v, ts |-> now, author |-> p]
      task == [fields |-> [f \in Fields |->
                 reg(CASE f = "title" -> "text" [] f = "status" -> "open"
                       [] f = "assignee" -> "none")],
               createdAt |-> now, createdBy |-> p]
  IN
  /\ writes < MaxWrites
  /\ \A q \in Peers : \A w \in known[q] : w.task # t
  /\ tasks' = [tasks EXCEPT ![p][t] = task]
  /\ known' = [known EXCEPT ![p] = @ \cup WritesOf(t, task)]
  /\ msgs' = msgs \cup {[kind |-> "full",
                         tasks |-> [u \in TaskIds |-> IF u = t THEN task ELSE NoTask],
                         known |-> WritesOf(t, task)]}
  /\ writes' = writes + 1
  /\ UNCHANGED <<behind, snapshots>>

\* The register is overwritten, not merged, and sent.
Overwrite(p, t, f, reg) ==
  /\ writes < MaxWrites
  /\ tasks[p][t] # NoTask
  /\ tasks' = [tasks EXCEPT ![p][t].fields[f] = reg]
  /\ known' = [known EXCEPT ![p] = @ \cup {[task |-> t, field |-> f, reg |-> reg]}]
  /\ behind' = IF Newer(reg, tasks[p][t].fields[f]) THEN behind
               ELSE behind \cup {<<t, f>>}
  /\ msgs' = msgs \cup {[kind |-> "update", task |-> t, field |-> f, reg |-> reg]}
  /\ writes' = writes + 1
  /\ UNCHANGED snapshots

\* update_status (delete_task too) and update_assignee.
UpdateField(p, t, f, v, now) ==
  Overwrite(p, t, f, [value |-> v, ts |-> now, author |-> p])

\* build_full_state, in answer to a request (RequestFullState changes nothing).
SendFullState(p) ==
  /\ \E t \in TaskIds : tasks[p][t] # NoTask
  /\ snapshots < MaxSnapshots
  /\ snapshots' = snapshots + 1
  /\ msgs' = msgs \cup {[kind |-> "full", tasks |-> tasks[p], known |-> known[p]]}
  /\ UNCHANGED <<tasks, known, behind, writes>>

\* apply_remote of a FieldUpdate.
ApplyUpdate(p, m) ==
  /\ m.kind = "update"
  /\ tasks' = [tasks EXCEPT ![p][m.task] =
       ApplyFieldUpdate(IF @ = NoTask THEN Stub(m.reg) ELSE @, m.field, m.reg)]
  /\ known' = [known EXCEPT ![p] =
       @ \cup {[task |-> m.task, field |-> m.field, reg |-> m.reg]}]
  /\ UNCHANGED <<msgs, behind, writes, snapshots>>

\* apply_remote of a FullState.
ApplyFull(p, m) ==
  /\ m.kind = "full"
  /\ tasks' = [tasks EXCEPT ![p] = MergeTaskList(@, m.tasks)]
  /\ known' = [known EXCEPT ![p] = @ \cup m.known]
  /\ UNCHANGED <<msgs, behind, writes, snapshots>>

-----------------------------------------------------------------------------

Update(p, t, now) ==
  \/ \E v \in Statuses : UpdateField(p, t, "status", v, now)
  \/ \E v \in Assignees : UpdateField(p, t, "assignee", v, now)

Next ==
  \/ \E p \in Peers, t \in TaskIds, now \in Times : CreateTask(p, t, now) \/ Update(p, t, now)
  \/ \E p \in Peers : SendFullState(p)
  \/ \E p \in Peers, m \in msgs : ApplyUpdate(p, m) \/ ApplyFull(p, m)

Spec == Init /\ [][Next]_vars

-----------------------------------------------------------------------------
(* Properties *)

\* A register of a list is the latest of all writes the peer knows of, however
\* they came: in any order, twice, before the creation, or inside a full state.
\* This fails only for a field that a peer has overwritten with a stamp that is
\* not later, because update_status does not look at the one it replaces.
LatestKnownWins ==
  \A p \in Peers : \A w \in known[p] :
    /\ tasks[p][w.task] # NoTask
    /\ <<w.task, w.field>> \notin behind =>
         \/ w.reg = tasks[p][w.task].fields[w.field]
         \/ Newer(tasks[p][w.task].fields[w.field], w.reg)

\* No message takes a register back to an earlier write, however late it comes.
\* Only a write of the peer itself does, stamped by a clock that is not ahead of
\* what the register holds (update_status, update_assignee).
NoRollback ==
  [][\A p \in Peers, t \in TaskIds, f \in Fields :
       tasks[p][t] # NoTask =>
         LET old == tasks[p][t].fields[f]
             new == tasks'[p][t].fields[f] IN
         \/ new = old
         \/ Newer(new, old)
         \/ writes' # writes /\ new.author = p /\ <<t, f>> \in behind']_vars

\* The writes to a field that a peer knows of.
KnownOf(p, t, f) == {w \in known[p] : w.task = t /\ w.field = f}

\* Peers that have a task and know the same writes to a field of it show the same,
\* in whatever order, form and number the writes came to each; but for a field
\* that was overwritten with a stamp that is not later.
Convergence ==
  \A p, q \in Peers, t \in TaskIds, f \in Fields :
    /\ <<t, f>> \notin behind
    /\ tasks[p][t] # NoTask /\ tasks[q][t] # NoTask
    /\ KnownOf(p, t, f) = KnownOf(q, t, f)
    => tasks[p][t].fields[f] = tasks[q][t].fields[f]

\* UC-008 invariant 2: "peers converge regardless of message ordering or
\* duplication". They do not when a clock lags or stands still: a local write
\* stores a stamp that loses everywhere else.
PeersConverge ==
  \A p, q \in Peers : known[p] = known[q] =>
    \A t \in TaskIds : tasks[p][t] # NoTask => tasks[p][t].fields = tasks[q][t].fields
=============================================================================
