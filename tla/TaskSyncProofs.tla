---------------------------- MODULE TaskSyncProofs ----------------------------
(***************************************************************************)
(* Proofs about TaskSync, whatever the clocks do. Every list is at all     *)
(* times the summary of the writes its peer knows of, and stamps tell      *)
(* writes apart, but for the fields that were overwritten with a stamp     *)
(* that was not later: this is the inductive invariant TaskInv, and what   *)
(* the runs check follows from it.                                         *)
(***************************************************************************)
EXTENDS TaskSync, TLAPS

\* r is l or a later write.
AtLeast(r, l) == r = l \/ Newer(r, l)

\* Two writes of S with one stamp, to one field and not one of those in B, are
\* the same write.
Unique(S, B) ==
  \A v, w \in S :
    /\ v.task = w.task /\ v.field = w.field /\ <<v.task, v.field>> \notin B
    /\ v.reg.ts = w.reg.ts /\ v.reg.author = w.reg.author
    => v = w

IsStub(r) == r.ts = 0 /\ r.author = Nobody

\* A list is the summary of a set of writes: it holds nothing else but fields
\* of stubs, and nothing older than any of them but in the fields of B.
Covers(list, S, B) ==
  \A w \in S :
    /\ list[w.task] # NoTask
    /\ <<w.task, w.field>> \notin B => AtLeast(list[w.task].fields[w.field], w.reg)
Backed(list, S) ==
  \A t \in TaskIds, f \in Fields :
    list[t] # NoTask => \/ IsStub(list[t].fields[f])
                        \/ [task |-> t, field |-> f, reg |-> list[t].fields[f]] \in S
Summary(list, S, B) == Covers(list, S, B) /\ Backed(list, S)

Lists == [TaskIds -> Task \cup {NoTask}]

-----------------------------------------------------------------------------
(* The order of the registers and the merge *)

\* Newer is transitive.
LEMMA NewerTransitive ==
  ASSUME NEW x \in Register, NEW y \in Register, NEW z \in Register,
         AtLeast(x, y), AtLeast(y, z)
  PROVE  AtLeast(x, z)
<1> USE TaskAssumption
<1>1. /\ x.ts \in Nat /\ y.ts \in Nat /\ z.ts \in Nat
      /\ x.author \in Authors /\ y.author \in Authors /\ z.author \in Authors
  BY DEF Register
<1>2. Rank[x.author] \in Nat /\ Rank[y.author] \in Nat /\ Rank[z.author] \in Nat
  BY <1>1
<1> QED
  BY <1>1, <1>2 DEF AtLeast, Newer

\* A register is later than what is earlier than one it is later than.
LEMMA NewerChain ==
  ASSUME NEW x \in Register, NEW y \in Register, NEW z \in Register,
         Newer(x, y), Newer(y, z)
  PROVE  Newer(x, z)
<1>1. /\ x.ts \in Nat /\ y.ts \in Nat /\ z.ts \in Nat
      /\ x.author \in Authors /\ y.author \in Authors /\ z.author \in Authors
  BY TaskAssumption DEF Register
<1>2. Rank[x.author] \in Nat /\ Rank[y.author] \in Nat /\ Rank[z.author] \in Nat
  BY <1>1, TaskAssumption
<1> QED
  BY <1>1, <1>2 DEF Newer

\* Two registers with different stamps are ordered.
LEMMA NewerTotal ==
  ASSUME NEW x \in Register, NEW y \in Register, ~Newer(x, y)
  PROVE  Newer(y, x) \/ (x.ts = y.ts /\ x.author = y.author)
<1>1. /\ x.ts \in Nat /\ y.ts \in Nat
      /\ x.author \in Authors /\ y.author \in Authors
  BY TaskAssumption DEF Register
<1>2. Rank[x.author] \in Nat /\ Rank[y.author] \in Nat
  BY <1>1, TaskAssumption
<1>3. Rank[x.author] = Rank[y.author] => x.author = y.author
  BY <1>1, TaskAssumption
<1> QED
  BY <1>1, <1>2, <1>3 DEF Newer

\* A stub's register is older than any write.
LEMMA StubOldest ==
  ASSUME NEW x \in Register, NEW y \in Register, IsStub(x), y.ts > 0
  PROVE  Newer(y, x)
  BY DEF IsStub, Newer

\* apply_field_update stores what merge_lww returns.
LEMMA ApplyIsMerge ==
  ASSUME NEW k \in Task, NEW f \in Fields, NEW r \in Register
  PROVE  ApplyFieldUpdate(k, f, r) = [k EXCEPT !.fields[f] = MergeLww(k.fields[f], r)]
<1>1. k.fields \in [Fields -> Register]
  BY DEF Task
<1>2. CASE Newer(r, k.fields[f])
  BY <1>2 DEF ApplyFieldUpdate, MergeLww
<1>3. CASE ~Newer(r, k.fields[f])
  <2>1. [k EXCEPT !.fields[f] = k.fields[f]] = k
    BY <1>1 DEF Task
  <2> QED
    BY <1>3, <2>1 DEF ApplyFieldUpdate, MergeLww
<1> QED
  BY <1>2, <1>3

\* merge_lww returns one of the two, not older than either, unless they share
\* a stamp.
LEMMA MergePicks ==
  ASSUME NEW x \in Register, NEW y \in Register
  PROVE  /\ MergeLww(x, y) \in {x, y} /\ MergeLww(x, y) \in Register
         /\ AtLeast(MergeLww(x, y), x)
         /\ AtLeast(MergeLww(x, y), y) \/ (x.ts = y.ts /\ x.author = y.author)
<1>1. CASE Newer(y, x)
  BY <1>1 DEF MergeLww, AtLeast
<1>2. CASE ~Newer(y, x)
  <2>1. Newer(x, y) \/ (y.ts = x.ts /\ y.author = x.author)
    BY <1>2, NewerTotal
  <2> QED
    BY <1>2, <2>1 DEF MergeLww, AtLeast
<1> QED
  BY <1>1, <1>2

\* The fields of a task are registers, and replacing one gives a task.
LEMMA TaskFields ==
  ASSUME NEW k \in Task
  PROVE  /\ k.fields \in [Fields -> Register]
         /\ \A f \in Fields : k.fields[f] \in Register
         /\ \A f \in Fields, r \in Register : [k EXCEPT !.fields[f] = r] \in Task
  BY DEF Task

\* The stub is a task whose fields lose to every write.
LEMMA StubTask ==
  ASSUME NEW r \in Register, r.ts > 0, r.author \in Peers
  PROVE  Stub(r) \in Task /\ \A f \in Fields : IsStub(Stub(r).fields[f])
<1>1. /\ "open" \in Values /\ "none" \in Values /\ "" \in Values
      /\ 0 \in 0..MaxClock /\ Nobody \in Authors
  BY TaskAssumption DEF Values, Authors
<1>2. Stub(r).fields \in [Fields -> Register]
  BY <1>1 DEF Stub, Register, Fields
<1>3. r.ts \in Times
  BY TaskAssumption DEF Register, Times
<1>4. Stub(r) \in Task
  BY <1>2, <1>3 DEF Stub, Task
<1>5. \A f \in Fields : IsStub(Stub(r).fields[f])
  BY DEF Stub, IsStub, Fields
<1> QED
  BY <1>4, <1>5

\* merge_task and merge_task_list merge field by field.
LEMMA MergeTaskFields ==
  ASSUME NEW k \in Task, NEW j \in Task
  PROVE  /\ MergeTask(k, j) \in Task
         /\ \A f \in Fields : MergeTask(k, j).fields[f] = MergeLww(k.fields[f], j.fields[f])
<1> DEFINE g == [f \in Fields |-> MergeLww(k.fields[f], j.fields[f])]
<1>1. g \in [Fields -> Register]
  BY TaskFields, MergePicks
<1>2. MergeTask(k, j) \in Task /\ MergeTask(k, j).fields = g
  BY <1>1 DEF MergeTask, Task
<1> QED
  BY <1>2

LEMMA MergeListType ==
  ASSUME NEW l \in Lists, NEW m \in Lists
  PROVE  MergeTaskList(l, m) \in Lists
<1>1. ASSUME NEW t \in TaskIds, l[t] # NoTask, m[t] # NoTask
      PROVE  MergeTask(l[t], m[t]) \in Task
  <2>1. l[t] \in Task /\ m[t] \in Task
    BY <1>1 DEF Lists
  <2> QED
    BY <2>1, MergeTaskFields
<1> QED
  BY <1>1 DEF MergeTaskList, Lists

\* What applying one write does to a list: the write's field is merged, on a
\* stub if the task is new, and the rest stays.
Applied(l, t, f, r) ==
  [l EXCEPT ![t] = ApplyFieldUpdate(IF @ = NoTask THEN Stub(r) ELSE @, f, r)]

LEMMA AppliedFields ==
  ASSUME NEW l \in Lists, NEW t \in TaskIds, NEW f \in Fields,
         NEW r \in Register, r.ts > 0, r.author \in Peers
  PROVE  LET base == IF l[t] = NoTask THEN Stub(r) ELSE l[t] IN
         /\ base \in Task
         /\ Applied(l, t, f, r) \in Lists
         /\ Applied(l, t, f, r)[t] # NoTask
         /\ Applied(l, t, f, r)[t].fields[f] = MergeLww(base.fields[f], r)
         /\ \A g \in Fields \ {f} : Applied(l, t, f, r)[t].fields[g] = base.fields[g]
         /\ \A u \in TaskIds \ {t} : Applied(l, t, f, r)[u] = l[u]
<1> DEFINE base == IF l[t] = NoTask THEN Stub(r) ELSE l[t]
           new == [base EXCEPT !.fields[f] = MergeLww(base.fields[f], r)]
<1>1. base \in Task
  BY StubTask DEF Lists
<1>2. MergeLww(base.fields[f], r) \in Register
  BY <1>1, TaskFields, MergePicks
<1>3. new \in Task
  BY <1>1, <1>2, TaskFields
<1>4. new.fields = [base.fields EXCEPT ![f] = MergeLww(base.fields[f], r)]
  BY <1>1 DEF Task
<1>5. Applied(l, t, f, r) = [l EXCEPT ![t] = new]
  <2>1. ApplyFieldUpdate(base, f, r) = new
    BY <1>1, ApplyIsMerge
  <2>2. Applied(l, t, f, r) = [l EXCEPT ![t] = ApplyFieldUpdate(base, f, r)]
    BY DEF Applied
  <2> QED
    BY <2>1, <2>2
<1>6. new # NoTask
  BY <1>3, NoTaskAssumption
<1> HIDE DEF new
<1>7. /\ Applied(l, t, f, r) \in Lists
      /\ Applied(l, t, f, r)[t] = new
      /\ \A u \in TaskIds \ {t} : Applied(l, t, f, r)[u] = l[u]
  BY <1>3, <1>5 DEF Lists
<1>8. base.fields \in [Fields -> Register]
  BY <1>1, TaskFields
<1> HIDE DEF base
<1>9. /\ new.fields[f] = MergeLww(base.fields[f], r)
      /\ \A g \in Fields \ {f} : new.fields[g] = base.fields[g]
  BY <1>4, <1>8
<1> QED
  BY <1>1, <1>6, <1>7, <1>9 DEF base

\* Applying a write keeps a list the summary of what its peer knows, and takes
\* no field back.
LEMMA AppliedSummary ==
  ASSUME NEW l \in Lists, NEW S \in SUBSET KnownWrite, NEW B, Summary(l, S, B),
         NEW t \in TaskIds, NEW f \in Fields, NEW r \in Register,
         r.ts > 0, r.author \in Peers,
         Unique(S \cup {[task |-> t, field |-> f, reg |-> r]}, B)
  PROVE  /\ Summary(Applied(l, t, f, r), S \cup {[task |-> t, field |-> f, reg |-> r]}, B)
         /\ \A u \in TaskIds, g \in Fields : l[u] # NoTask =>
              AtLeast(Applied(l, t, f, r)[u].fields[g], l[u].fields[g])
<1> DEFINE w    == [task |-> t, field |-> f, reg |-> r]
           base == IF l[t] = NoTask THEN Stub(r) ELSE l[t]
           old  == base.fields[f]
           n    == MergeLww(old, r)
           new  == Applied(l, t, f, r)
<1>1. /\ base \in Task /\ new \in Lists /\ new[t] # NoTask /\ new[t].fields[f] = n
      /\ \A g \in Fields \ {f} : new[t].fields[g] = base.fields[g]
      /\ \A u \in TaskIds \ {t} : new[u] = l[u]
  BY AppliedFields
<1>2. old \in Register
  BY <1>1, TaskFields
<1>3. \A g \in Fields : l[t] = NoTask => IsStub(base.fields[g])
  BY StubTask
<1>4. n \in Register /\ n \in {old, r} /\ AtLeast(n, old)
  BY <1>2, MergePicks
<1>5. ASSUME <<t, f>> \notin B PROVE AtLeast(n, r)
  <2>1. CASE ~(old.ts = r.ts /\ old.author = r.author)
    BY <1>2, <2>1, MergePicks
  <2>2. CASE old.ts = r.ts /\ old.author = r.author
    <3>1. ~IsStub(old)
      BY <2>2, TaskAssumption DEF IsStub
    <3>2. l[t] # NoTask
      BY <1>3, <3>1
    <3>3. [task |-> t, field |-> f, reg |-> old] \in S
      BY <3>1, <3>2 DEF Summary, Backed
    <3>4. [task |-> t, field |-> f, reg |-> old] = w
      BY <1>5, <2>2, <3>3 DEF Unique
    <3>5. old = r
      BY <3>4
    <3> QED
      BY <1>4, <3>5
  <2> QED
    BY <2>1, <2>2
<1> HIDE DEF new, n
<1>6. ASSUME NEW v \in S
      PROVE  /\ new[v.task] # NoTask
             /\ <<v.task, v.field>> \notin B => AtLeast(new[v.task].fields[v.field], v.reg)
  <2>1. v.task \in TaskIds /\ v.field \in Fields /\ v.reg \in Register
    BY DEF KnownWrite
  <2>2. /\ l[v.task] # NoTask
        /\ <<v.task, v.field>> \notin B => AtLeast(l[v.task].fields[v.field], v.reg)
    BY DEF Summary, Covers
  <2>3. CASE v.task # t
    BY <1>1, <2>1, <2>2, <2>3
  <2>4. CASE v.task = t /\ v.field # f
    BY <1>1, <2>1, <2>2, <2>4
  <2>5. CASE v.task = t /\ v.field = f
    <3>1. <<v.task, v.field>> \notin B => AtLeast(old, v.reg)
      BY <2>2, <2>5
    <3>2. <<v.task, v.field>> \notin B => AtLeast(n, v.reg)
      BY <1>2, <1>4, <2>1, <3>1, NewerTransitive
    <3> QED
      BY <1>1, <2>5, <3>2
  <2> QED
    BY <2>3, <2>4, <2>5
<1>7. Covers(new, S \cup {w}, B)
  <2>1. w.task = t /\ w.field = f /\ w.reg = r
    OBVIOUS
  <2> HIDE DEF w, n, new
  <2>2. ASSUME NEW v \in S \cup {w}
        PROVE  /\ new[v.task] # NoTask
               /\ <<v.task, v.field>> \notin B => AtLeast(new[v.task].fields[v.field], v.reg)
    <3>1. CASE v \in S
      BY <1>6, <3>1
    <3>2. CASE v = w
      BY <1>1, <1>5, <2>1, <3>2
    <3> QED
      BY <3>1, <3>2
  <2> QED
    BY <2>2 DEF Covers
<1>8. ASSUME NEW u \in TaskIds, NEW g \in Fields, new[u] # NoTask
      PROVE  \/ IsStub(new[u].fields[g])
             \/ [task |-> u, field |-> g, reg |-> new[u].fields[g]] \in S \cup {w}
  <2>1. CASE u # t
    BY <1>1, <1>8, <2>1 DEF Summary, Backed
  <2>2. CASE u = t /\ g # f
    BY <1>1, <1>3, <2>2 DEF Summary, Backed
  <2>3. CASE u = t /\ g = f
    <3>1. CASE n = r
      BY <1>1, <2>3, <3>1
    <3>2. CASE n = old
      BY <1>1, <1>3, <2>3, <3>2 DEF Summary, Backed
    <3> QED
      BY <1>4, <3>1, <3>2
  <2> QED
    BY <2>1, <2>2, <2>3
<1>9. Backed(new, S \cup {w})
  BY <1>8 DEF Backed
<1>10. ASSUME NEW u \in TaskIds, NEW g \in Fields, l[u] # NoTask
       PROVE  AtLeast(new[u].fields[g], l[u].fields[g])
  <2>1. CASE u # t \/ g # f
    BY <1>1, <1>10, <2>1 DEF AtLeast
  <2>2. CASE u = t /\ g = f
    BY <1>1, <1>4, <1>10, <2>2
  <2> QED
    BY <2>1, <2>2
<1> QED
  BY <1>7, <1>9, <1>10 DEF Summary, new

\* The same for a whole list that is merged into another.
LEMMA MergedSummary ==
  ASSUME NEW l \in Lists, NEW S \in SUBSET KnownWrite, NEW B, Summary(l, S, B),
         NEW m \in Lists, NEW R \in SUBSET KnownWrite, Summary(m, R, B),
         Unique(S \cup R, B), \A w \in R : w.reg.ts > 0
  PROVE  /\ Summary(MergeTaskList(l, m), S \cup R, B)
         /\ \A u \in TaskIds, g \in Fields : l[u] # NoTask =>
              AtLeast(MergeTaskList(l, m)[u].fields[g], l[u].fields[g])
<1> DEFINE new == MergeTaskList(l, m)
<1>1. ASSUME NEW u \in TaskIds
      PROVE  /\ m[u] = NoTask => new[u] = l[u]
             /\ m[u] # NoTask /\ l[u] = NoTask => new[u] = m[u]
             /\ m[u] # NoTask /\ l[u] # NoTask =>
                  /\ l[u] \in Task /\ m[u] \in Task /\ new[u] # NoTask
                  /\ \A g \in Fields :
                       new[u].fields[g] = MergeLww(l[u].fields[g], m[u].fields[g])
  <2>1. /\ m[u] = NoTask => new[u] = l[u]
        /\ m[u] # NoTask /\ l[u] = NoTask => new[u] = m[u]
        /\ m[u] # NoTask /\ l[u] # NoTask => new[u] = MergeTask(l[u], m[u])
    BY DEF MergeTaskList
  <2>2. ASSUME m[u] # NoTask, l[u] # NoTask
        PROVE  /\ l[u] \in Task /\ m[u] \in Task /\ new[u] # NoTask
               /\ \A g \in Fields :
                    new[u].fields[g] = MergeLww(l[u].fields[g], m[u].fields[g])
    <3>1. l[u] \in Task /\ m[u] \in Task
      BY <2>2 DEF Lists
    <3> QED
      BY <2>1, <2>2, <3>1, MergeTaskFields, NoTaskAssumption
  <2> QED
    BY <2>1, <2>2
<1> HIDE DEF new
\* A field that both lists have.
<1>2. ASSUME NEW u \in TaskIds, NEW g \in Fields, m[u] # NoTask, l[u] # NoTask
      PROVE  /\ l[u].fields[g] \in Register /\ m[u].fields[g] \in Register
             /\ new[u].fields[g] \in Register
             /\ new[u].fields[g] \in {l[u].fields[g], m[u].fields[g]}
             /\ AtLeast(new[u].fields[g], l[u].fields[g])
             /\ \/ AtLeast(new[u].fields[g], m[u].fields[g])
                \/ IsStub(m[u].fields[g])
                \/ <<u, g>> \in B
  <2> DEFINE x == l[u].fields[g]
             y == m[u].fields[g]
             n == new[u].fields[g]
  <2>1. x \in Register /\ y \in Register /\ n = MergeLww(x, y)
    BY <1>1, <1>2, TaskFields
  <2>2. /\ n \in Register /\ n \in {x, y} /\ AtLeast(n, x)
        /\ AtLeast(n, y) \/ (x.ts = y.ts /\ x.author = y.author)
    BY <2>1, MergePicks
  <2>3. ASSUME x.ts = y.ts, x.author = y.author, ~IsStub(y), <<u, g>> \notin B
        PROVE  AtLeast(n, y)
    <3>1. [task |-> u, field |-> g, reg |-> y] \in R
      BY <1>2, <2>3 DEF Summary, Backed
    <3>2. [task |-> u, field |-> g, reg |-> x] \in S
      BY <1>2, <2>3 DEF Summary, Backed, IsStub
    <3>3. [task |-> u, field |-> g, reg |-> x] = [task |-> u, field |-> g, reg |-> y]
      BY <2>3, <3>1, <3>2 DEF Unique
    <3>4. x = y
      BY <3>3
    <3> QED
      BY <2>2, <3>4
  <2> HIDE DEF x, y, n
  <2>4. /\ x \in Register /\ y \in Register /\ n \in Register /\ n \in {x, y}
        /\ AtLeast(n, x) /\ (AtLeast(n, y) \/ IsStub(y) \/ <<u, g>> \in B)
    BY <2>1, <2>2, <2>3
  <2> QED
    BY <2>4 DEF x, y, n
<1>3. ASSUME NEW v \in S
      PROVE  /\ new[v.task] # NoTask
             /\ <<v.task, v.field>> \notin B => AtLeast(new[v.task].fields[v.field], v.reg)
  <2>1. v.task \in TaskIds /\ v.field \in Fields /\ v.reg \in Register
    BY DEF KnownWrite
  <2>2. /\ l[v.task] # NoTask
        /\ <<v.task, v.field>> \notin B => AtLeast(l[v.task].fields[v.field], v.reg)
    BY DEF Summary, Covers
  <2>3. CASE m[v.task] = NoTask
    BY <1>1, <2>1, <2>2, <2>3
  <2>4. CASE m[v.task] # NoTask
    BY <1>1, <1>2, <2>1, <2>2, <2>4, NewerTransitive
  <2> QED
    BY <2>3, <2>4
<1>4. ASSUME NEW v \in R
      PROVE  /\ new[v.task] # NoTask
             /\ <<v.task, v.field>> \notin B => AtLeast(new[v.task].fields[v.field], v.reg)
  <2>1. v.task \in TaskIds /\ v.field \in Fields /\ v.reg \in Register /\ v.reg.ts > 0
    BY DEF KnownWrite
  <2>2. /\ m[v.task] # NoTask
        /\ <<v.task, v.field>> \notin B => AtLeast(m[v.task].fields[v.field], v.reg)
    BY DEF Summary, Covers
  <2>3. CASE l[v.task] = NoTask
    BY <1>1, <2>1, <2>2, <2>3
  <2>4. CASE l[v.task] # NoTask
    <3>1. m[v.task].fields[v.field] \in Register
      BY <1>2, <2>1, <2>2, <2>4
    <3>2. <<v.task, v.field>> \notin B => ~IsStub(m[v.task].fields[v.field])
      BY <2>1, <2>2, <3>1 DEF AtLeast, Newer, IsStub, Register
    <3> QED
      BY <1>1, <1>2, <2>1, <2>2, <2>4, <3>2, NewerTransitive
  <2> QED
    BY <2>3, <2>4
<1>5. Covers(new, S \cup R, B)
  BY <1>3, <1>4 DEF Covers
<1>6. ASSUME NEW u \in TaskIds, NEW g \in Fields, new[u] # NoTask
      PROVE  \/ IsStub(new[u].fields[g])
             \/ [task |-> u, field |-> g, reg |-> new[u].fields[g]] \in S \cup R
  <2>1. CASE m[u] = NoTask
    BY <1>1, <1>6, <2>1 DEF Summary, Backed
  <2>2. CASE m[u] # NoTask /\ l[u] = NoTask
    BY <1>1, <1>6, <2>2 DEF Summary, Backed
  <2>3. CASE m[u] # NoTask /\ l[u] # NoTask
    BY <1>2, <2>3 DEF Summary, Backed
  <2> QED
    BY <2>1, <2>2, <2>3
<1>7. Backed(new, S \cup R)
  BY <1>6 DEF Backed
<1>8. ASSUME NEW u \in TaskIds, NEW g \in Fields, l[u] # NoTask
      PROVE  AtLeast(new[u].fields[g], l[u].fields[g])
  BY <1>1, <1>2, <1>8 DEF AtLeast
<1> QED
  BY <1>5, <1>7, <1>8 DEF Summary, new

-----------------------------------------------------------------------------
(* Types *)

\* The register of an update has been written: a stub made of it is a task.
Written(r) == r.ts > 0 /\ r.author \in Peers
TypeInv == TypeOK /\ \A m \in msgs : m.kind = "update" => Written(m.reg)

\* What a peer writes now is a register, and a task made of such registers a task.
LEMMA WriteTypes ==
  ASSUME NEW p \in Peers, NEW v \in Values, NEW now \in Times
  PROVE  [value |-> v, ts |-> now, author |-> p] \in Register
  BY TaskAssumption DEF Register, Authors, Times

\* The two forms of message.
LEMMA MessageForms ==
  ASSUME NEW m \in Message
  PROVE  /\ m.kind = "update" =>
              m.task \in TaskIds /\ m.field \in Fields /\ m.reg \in Register
         /\ m.kind = "full" => m.tasks \in Lists /\ m.known \in SUBSET KnownWrite
<1>1. CASE m \in [kind : {"update"}, task : TaskIds, field : Fields, reg : Register]
  BY <1>1
<1>2. CASE m \in [kind : {"full"}, tasks : [TaskIds -> Task \cup {NoTask}], known : SUBSET KnownWrite]
  BY <1>2 DEF Lists
<1> QED
  BY <1>1, <1>2 DEF Message

\* The task that create_task makes.
Created(p, now) ==
  [fields |-> [f \in Fields |->
     [value |-> CASE f = "title" -> "text" [] f = "status" -> "open"
                  [] f = "assignee" -> "none",
      ts |-> now, author |-> p]],
   createdAt |-> now, createdBy |-> p]

LEMMA CreatedTask ==
  ASSUME NEW p \in Peers, NEW t \in TaskIds, NEW now \in Times
  PROVE  /\ Created(p, now) \in Task
         /\ \A f \in Fields : /\ Created(p, now).fields[f] \in Register
                              /\ Created(p, now).fields[f].ts = now
                              /\ Created(p, now).fields[f].author = p
         /\ WritesOf(t, Created(p, now)) \in SUBSET KnownWrite
<1>2. {"text", "open", "none"} \subseteq Values
  BY TaskAssumption DEF Values
<1>3. \A f \in Fields : /\ Created(p, now).fields[f] \in Register
                        /\ Created(p, now).fields[f].ts = now
                        /\ Created(p, now).fields[f].author = p
  <2>1. ASSUME NEW v \in Values
        PROVE  [value |-> v, ts |-> now, author |-> p] \in Register
    BY WriteTypes
  <2>2. ASSUME NEW f \in Fields
        PROVE  (CASE f = "title" -> "text" [] f = "status" -> "open"
                  [] f = "assignee" -> "none") \in Values
    BY <1>2 DEF Fields
  <2> QED
    BY <2>1, <2>2 DEF Created
<1>4. Created(p, now) \in Task
  <2>1. Created(p, now).fields = [f \in Fields |-> Created(p, now).fields[f]]
    BY DEF Created
  <2>2. Created(p, now).fields \in [Fields -> Register]
    BY <1>3, <2>1
  <2> QED
    BY <2>2 DEF Created, Task
<1>5. WritesOf(t, Created(p, now)) \in SUBSET KnownWrite
  BY <1>3 DEF WritesOf, KnownWrite
<1> QED
  BY <1>3, <1>4, <1>5

\* What CreateTask does, with Created for its local definitions.
LEMMA CreateTaskEffect ==
  ASSUME NEW p \in Peers, NEW t \in TaskIds, NEW now \in Times, CreateTask(p, t, now)
  PROVE  /\ writes < MaxWrites
         /\ \A q \in Peers : \A w \in known[q] : w.task # t
         /\ tasks' = [tasks EXCEPT ![p][t] = Created(p, now)]
         /\ known' = [known EXCEPT ![p] = @ \cup WritesOf(t, Created(p, now))]
         /\ msgs' = msgs \cup {[kind |-> "full",
                      tasks |-> [u \in TaskIds |-> IF u = t THEN Created(p, now) ELSE NoTask],
                      known |-> WritesOf(t, Created(p, now))]}
         /\ writes' = writes + 1
         /\ UNCHANGED <<behind, snapshots>>
  BY DEF CreateTask, Created

\* Init gives the variables their types.
LEMMA TypeInit == Init => TypeInv
  BY TaskAssumption DEF Init, TypeInv, TypeOK

\* No action breaks the types.
LEMMA TypeStep == TypeInv /\ [Next]_vars => TypeInv'
<1> SUFFICES ASSUME TypeInv, [Next]_vars PROVE TypeInv'
  OBVIOUS
<1> USE TaskAssumption
<1>0. /\ tasks \in [Peers -> Lists] /\ behind \subseteq TaskIds \X Fields
      /\ msgs \subseteq Message /\ known \in [Peers -> SUBSET KnownWrite]
      /\ writes \in 0..MaxWrites /\ snapshots \in 0..MaxSnapshots
      /\ \A m \in msgs : m.kind = "update" => Written(m.reg)
  BY DEF TypeInv, TypeOK, Lists
<1>1. ASSUME NEW p \in Peers, NEW t \in TaskIds, NEW now \in Times,
             CreateTask(p, t, now)
      PROVE  TypeInv'
  <2> DEFINE k == Created(p, now)
             one == [u \in TaskIds |-> IF u = t THEN k ELSE NoTask]
             m == [kind |-> "full", tasks |-> one,
                   known |-> WritesOf(t, k)]
  <2>1. k \in Task /\ WritesOf(t, k) \in SUBSET KnownWrite
    BY CreatedTask
  <2>2. /\ tasks' = [tasks EXCEPT ![p][t] = k]
        /\ known' = [known EXCEPT ![p] = @ \cup WritesOf(t, k)]
        /\ msgs' = msgs \cup {m}
        /\ writes' = writes + 1 /\ writes < MaxWrites
        /\ UNCHANGED <<behind, snapshots>>
    BY <1>1, CreateTaskEffect
  <2> HIDE DEF k
  <2>3. tasks' \in [Peers -> Lists]
    BY <1>0, <2>1, <2>2 DEF Lists
  <2>4. known' \in [Peers -> SUBSET KnownWrite]
    BY <1>0, <2>1, <2>2
  <2>5. one \in [TaskIds -> Task \cup {NoTask}]
    BY <2>1
  <2> HIDE DEF one
  <2>7. m \in Message /\ m.kind = "full"
    BY <2>1, <2>5 DEF Message
  <2> HIDE DEF m
  <2>8. msgs' \subseteq Message /\ \A n \in msgs' : n.kind = "update" => Written(n.reg)
    BY <1>0, <2>2, <2>7
  <2>9. writes' \in 0..MaxWrites
    BY <1>0, <2>2
  <2> QED
    BY <1>0, <2>2, <2>3, <2>4, <2>8, <2>9 DEF TypeInv, TypeOK, Lists, Written
<1>2. ASSUME NEW p \in Peers, NEW t \in TaskIds, NEW f \in Fields, NEW v \in Values,
             NEW now \in Times, UpdateField(p, t, f, v, now)
      PROVE  TypeInv'
  <2> DEFINE r == [value |-> v, ts |-> now, author |-> p]
             m == [kind |-> "update", task |-> t, field |-> f, reg |-> r]
  <2>1. r \in Register /\ Written(r)
    <3>1. r \in Register
      BY WriteTypes
    <3> QED
      BY <3>1 DEF Written, Times
  <2>2. /\ tasks' = [tasks EXCEPT ![p][t].fields[f] = r]
        /\ known' = [known EXCEPT ![p] = @ \cup {[task |-> t, field |-> f, reg |-> r]}]
        /\ msgs' = msgs \cup {m}
        /\ writes' = writes + 1 /\ writes < MaxWrites
        /\ behind' \subseteq behind \cup {<<t, f>>} /\ snapshots' = snapshots
        /\ tasks[p][t] # NoTask
    BY <1>2 DEF UpdateField, Overwrite
  <2>3. tasks[p] \in Lists /\ tasks[p][t] \in Task
    BY <1>0, <2>2 DEF Lists
  <2>4. behind' \subseteq TaskIds \X Fields
    BY <1>0, <2>2
  <2>5. m.kind = "update" /\ m.reg = r
    OBVIOUS
  <2> HIDE DEF r
  <2>6. [tasks[p][t] EXCEPT !.fields[f] = r] \in Task
    BY <2>1, <2>3, TaskFields
  <2>7. tasks' \in [Peers -> Lists]
    BY <1>0, <2>2, <2>3, <2>6 DEF Lists
  <2>8. [task |-> t, field |-> f, reg |-> r] \in KnownWrite
    BY <2>1 DEF KnownWrite
  <2>9. known' \in [Peers -> SUBSET KnownWrite]
    BY <1>0, <2>2, <2>8
  <2>10. m \in Message
    BY <2>1 DEF Message
  <2> HIDE DEF m
  <2>11. msgs' \subseteq Message /\ \A n \in msgs' : n.kind = "update" => Written(n.reg)
    BY <1>0, <2>1, <2>2, <2>5, <2>10
  <2>12. writes' \in 0..MaxWrites
    BY <1>0, <2>2
  <2> QED
    BY <1>0, <2>2, <2>4, <2>7, <2>9, <2>11, <2>12 DEF TypeInv, TypeOK, Lists, Written
<1>3. ASSUME NEW p \in Peers, SendFullState(p)
      PROVE  TypeInv'
  <2> DEFINE m == [kind |-> "full", tasks |-> tasks[p],
                   known |-> known[p]]
  <2>1. /\ msgs' = msgs \cup {m} /\ snapshots' = snapshots + 1
        /\ snapshots < MaxSnapshots /\ UNCHANGED <<tasks, known, behind, writes>>
    BY <1>3 DEF SendFullState
  <2>2. m \in Message /\ m.kind = "full"
    BY <1>0 DEF Message, Lists
  <2> HIDE DEF m
  <2>3. msgs' \subseteq Message /\ \A n \in msgs' : n.kind = "update" => Written(n.reg)
    BY <1>0, <2>1, <2>2
  <2> QED
    BY <1>0, <2>1, <2>3 DEF TypeInv, TypeOK, Lists, Written
<1>4. ASSUME NEW p \in Peers, NEW m \in msgs, ApplyUpdate(p, m)
      PROVE  TypeInv'
  <2>1. /\ m.task \in TaskIds /\ m.field \in Fields /\ m.reg \in Register
        /\ Written(m.reg) /\ tasks[p] \in Lists
    BY <1>0, <1>4, MessageForms DEF ApplyUpdate
  <2>2. Applied(tasks[p], m.task, m.field, m.reg) \in Lists
    BY <2>1, AppliedFields DEF Written
  <2>3. tasks' = [tasks EXCEPT ![p] = Applied(tasks[p], m.task, m.field, m.reg)]
    BY <1>0, <1>4 DEF ApplyUpdate, Applied
  <2>4. known' = [known EXCEPT ![p] =
          @ \cup {[task |-> m.task, field |-> m.field, reg |-> m.reg]}]
    BY <1>4 DEF ApplyUpdate
  <2>5. [task |-> m.task, field |-> m.field, reg |-> m.reg] \in KnownWrite
    BY <2>1 DEF KnownWrite
  <2>6. UNCHANGED <<msgs, behind, writes, snapshots>>
    BY <1>4 DEF ApplyUpdate
  <2>7. tasks' \in [Peers -> Lists] /\ known' \in [Peers -> SUBSET KnownWrite]
    BY <1>0, <2>2, <2>3, <2>4, <2>5
  <2> QED
    BY <1>0, <2>6, <2>7 DEF TypeInv, TypeOK, Lists, Written
<1>5. ASSUME NEW p \in Peers, NEW m \in msgs, ApplyFull(p, m)
      PROVE  TypeInv'
  <2>1. m.tasks \in Lists /\ m.known \in SUBSET KnownWrite /\ tasks[p] \in Lists
    BY <1>0, <1>5, MessageForms DEF ApplyFull
  <2>2. MergeTaskList(tasks[p], m.tasks) \in Lists
    BY <2>1, MergeListType
  <2>3. /\ tasks' = [tasks EXCEPT ![p] = MergeTaskList(tasks[p], m.tasks)]
        /\ known' = [known EXCEPT ![p] = @ \cup m.known]
        /\ UNCHANGED <<msgs, behind, writes, snapshots>>
    BY <1>5 DEF ApplyFull
  <2>4. tasks' \in [Peers -> Lists] /\ known' \in [Peers -> SUBSET KnownWrite]
    BY <1>0, <2>1, <2>2, <2>3
  <2> QED
    BY <1>0, <2>3, <2>4 DEF TypeInv, TypeOK, Lists, Written
<1>7. CASE UNCHANGED vars
  BY <1>0, <1>7 DEF vars, TypeInv, TypeOK, Lists, Written
<1>8. {"status", "assignee"} \subseteq Fields /\ Statuses \subseteq Values
      /\ Assignees \subseteq Values
  BY DEF Fields, Values
<1> QED
  BY <1>1, <1>2, <1>3, <1>4, <1>5, <1>7, <1>8 DEF Next, Update

\* The variables keep their types, whatever the clocks do: what a late, repeated
\* or reordered message builds is a list of well-formed tasks, its stubs included.
THEOREM TaskTypeCorrect == Spec => []TypeOK
<1>1. Spec => []TypeInv
  BY TypeInit, TypeStep, PTL DEF Spec
<1>2. TypeInv => TypeOK
  BY DEF TypeInv
<1> QED
  BY <1>1, <1>2, PTL

-----------------------------------------------------------------------------
(* What a local write does to a list *)

\* The list m is l but for registers that are r, in fields of C, or later.
NotBack(l, m, r, C) ==
  \A u \in TaskIds, g \in Fields : l[u] # NoTask =>
    \/ AtLeast(m[u].fields[g], l[u].fields[g])
    \/ m[u].fields[g] = r /\ <<u, g>> \in C

Overwritten(l, t, f, r) == [l EXCEPT ![t].fields[f] = r]
OneWrite(t, f, r) == [task |-> t, field |-> f, reg |-> r]

\* Overwriting a field is safe if the write is later than what it overwrites, or
\* if the field is given up.
LEMMA WrittenSummary ==
  ASSUME NEW l \in Lists, NEW S \in SUBSET KnownWrite, NEW B, Summary(l, S, B),
         NEW t \in TaskIds, NEW f \in Fields, NEW r \in Register,
         l[t] # NoTask, NEW C, B \subseteq C,
         <<t, f>> \notin C => Newer(r, l[t].fields[f])
  PROVE  /\ Summary(Overwritten(l, t, f, r), S \cup {OneWrite(t, f, r)}, C)
         /\ NotBack(l, Overwritten(l, t, f, r), r, C)
<1> DEFINE w == [task |-> t, field |-> f, reg |-> r]
           new == [l EXCEPT ![t].fields[f] = r]
<1>1. l[t] \in Task
  BY DEF Lists
<1>2. /\ new[t] = [l[t] EXCEPT !.fields[f] = r]
      /\ \A u \in TaskIds \ {t} : new[u] = l[u]
  BY DEF Lists
<1>3. new[t] \in Task
  BY <1>1, <1>2, TaskFields
<1>4. new[t] # NoTask
  BY <1>3, NoTaskAssumption
<1>5. new[t].fields[f] = r /\ \A g \in Fields \ {f} : new[t].fields[g] = l[t].fields[g]
  <2>1. new[t].fields = [l[t].fields EXCEPT ![f] = r]
    BY <1>1, <1>2 DEF Task
  <2>2. l[t].fields \in [Fields -> Register]
    BY <1>1, TaskFields
  <2> QED
    BY <2>1, <2>2
<1> HIDE DEF new, w
<1>6. l[t].fields[f] \in Register
  BY <1>1, TaskFields
<1>7. ASSUME NEW v \in S
      PROVE  /\ new[v.task] # NoTask
             /\ <<v.task, v.field>> \notin C => AtLeast(new[v.task].fields[v.field], v.reg)
  <2>1. v.task \in TaskIds /\ v.field \in Fields /\ v.reg \in Register
    BY DEF KnownWrite
  <2>2. /\ l[v.task] # NoTask
        /\ <<v.task, v.field>> \notin C => AtLeast(l[v.task].fields[v.field], v.reg)
    BY DEF Summary, Covers
  <2>3. CASE v.task = t /\ v.field = f
    <3>1. <<t, f>> \notin C => AtLeast(r, v.reg)
      BY <1>6, <2>1, <2>2, <2>3, NewerTransitive DEF AtLeast
    <3> QED
      BY <1>4, <1>5, <2>3, <3>1
  <2>4. CASE v.task # t
    BY <1>2, <2>1, <2>2, <2>4
  <2>5. CASE v.task = t /\ v.field # f
    BY <1>4, <1>5, <2>1, <2>2, <2>5
  <2> QED
    BY <2>3, <2>4, <2>5
<1>8. Covers(new, S \cup {w}, C)
  <2>1. w.task = t /\ w.field = f /\ w.reg = r
    BY DEF w
  <2> QED
    BY <1>4, <1>5, <1>7, <2>1 DEF Covers, AtLeast
<1>9. ASSUME NEW u \in TaskIds, NEW g \in Fields, new[u] # NoTask
      PROVE  \/ IsStub(new[u].fields[g])
             \/ [task |-> u, field |-> g, reg |-> new[u].fields[g]] \in S \cup {w}
  <2>1. CASE u = t /\ g = f
    BY <1>5, <2>1 DEF w
  <2>2. CASE u # t
    BY <1>2, <1>9, <2>2 DEF Summary, Backed
  <2>3. CASE u = t /\ g # f
    BY <1>5, <2>3 DEF Summary, Backed
  <2> QED
    BY <2>1, <2>2, <2>3
<1>10. ASSUME NEW u \in TaskIds, NEW g \in Fields, l[u] # NoTask
       PROVE  \/ AtLeast(new[u].fields[g], l[u].fields[g])
              \/ new[u].fields[g] = r /\ <<u, g>> \in C
  <2>1. CASE u = t /\ g = f
    BY <1>5, <2>1 DEF AtLeast
  <2>2. CASE u # t
    BY <1>2, <2>2 DEF AtLeast
  <2>3. CASE u = t /\ g # f
    BY <1>5, <2>3 DEF AtLeast
  <2> QED
    BY <2>1, <2>2, <2>3
<1>11. Backed(new, S \cup {w})
  BY <1>9 DEF Backed
<1>12. Summary(new, S \cup {w}, C)
  BY <1>8, <1>11 DEF Summary
<1>13. NotBack(l, new, r, C)
  BY <1>10 DEF NotBack
<1> QED
  BY <1>12, <1>13 DEF new, w, Overwritten, OneWrite

\* A task nobody knows of yet is added whole; so is it sent.
LEMMA CreatedSummary ==
  ASSUME NEW l \in Lists, NEW S \in SUBSET KnownWrite, NEW B, Summary(l, S, B),
         NEW t \in TaskIds, NEW k \in Task, \A f \in Fields : k.fields[f].ts > 0,
         \A w \in S : w.task # t
  PROVE  /\ Summary([l EXCEPT ![t] = k], S \cup WritesOf(t, k), B)
         /\ Summary([u \in TaskIds |-> IF u = t THEN k ELSE NoTask], WritesOf(t, k), B)
         /\ \A u \in TaskIds, g \in Fields : l[u] # NoTask =>
              AtLeast([l EXCEPT ![t] = k][u].fields[g], l[u].fields[g])
<1> DEFINE new == [l EXCEPT ![t] = k]
           one == [u \in TaskIds |-> IF u = t THEN k ELSE NoTask]
<1>1. k # NoTask
  BY NoTaskAssumption
<1>2. /\ new[t] = k /\ \A u \in TaskIds \ {t} : new[u] = l[u]
      /\ one[t] = k /\ \A u \in TaskIds \ {t} : one[u] = NoTask
  BY DEF Lists
<1> HIDE DEF new, one
<1>3. /\ \A w \in WritesOf(t, k) :
           w.task = t /\ w.field \in Fields /\ w.reg = k.fields[w.field]
      /\ \A f \in Fields : [task |-> t, field |-> f, reg |-> k.fields[f]] \in WritesOf(t, k)
  BY DEF WritesOf
<1>4. \A w \in S : w.task \in TaskIds \ {t}
  BY DEF KnownWrite
<1>5. Covers(new, S \cup WritesOf(t, k), B) /\ Covers(one, WritesOf(t, k), B)
  BY <1>1, <1>2, <1>3, <1>4 DEF Summary, Covers, AtLeast
<1>6. ASSUME NEW u \in TaskIds, NEW g \in Fields, new[u] # NoTask
      PROVE  \/ IsStub(new[u].fields[g])
             \/ [task |-> u, field |-> g, reg |-> new[u].fields[g]] \in S \cup WritesOf(t, k)
  <2>1. CASE u = t
    BY <1>2, <1>3, <2>1
  <2>2. CASE u # t
    BY <1>2, <1>6, <2>2 DEF Summary, Backed
  <2> QED
    BY <2>1, <2>2
<1>7. Backed(new, S \cup WritesOf(t, k))
  BY <1>6 DEF Backed
<1>8. Backed(one, WritesOf(t, k))
  BY <1>2, <1>3 DEF Backed
<1>9. ASSUME NEW u \in TaskIds, NEW g \in Fields, l[u] # NoTask
      PROVE  AtLeast(new[u].fields[g], l[u].fields[g])
  <2>1. CASE u # t
    BY <1>2, <2>1 DEF AtLeast
  <2>2. CASE u = t
    <3>1. l[t] \in Task
      BY <1>9, <2>2 DEF Lists
    <3>2. l[t].fields[g] \in Register /\ k.fields[g] \in Register
      BY <3>1, TaskFields
    <3>3. IsStub(l[t].fields[g])
      <4>1. [task |-> t, field |-> g, reg |-> l[t].fields[g]] \notin S
        BY <1>4
      <4> QED
        BY <1>9, <2>2, <4>1 DEF Summary, Backed
    <3>4. Newer(k.fields[g], l[t].fields[g])
      BY <3>2, <3>3, StubOldest
    <3> QED
      BY <1>2, <2>2, <3>4 DEF AtLeast
  <2> QED
    BY <2>1, <2>2
<1> QED
  BY <1>5, <1>7, <1>8, <1>9 DEF Summary, new, one

-----------------------------------------------------------------------------
(* The invariant *)

\* Each known write is known to its author.
KnownInv ==
  \A p \in Peers : \A w \in known[p] : Written(w.reg) /\ w \in known[w.reg.author]

\* A stamp (time and author) names one write to a field that nobody has
\* overwritten with a stamp that was not later.
StampsAreUnique ==
  \A p, q \in Peers : \A v \in known[p], w \in known[q] :
    /\ v.task = w.task /\ v.field = w.field /\ <<v.task, v.field>> \notin behind
    /\ v.reg.ts = w.reg.ts /\ v.reg.author = w.reg.author
    => v = w

\* A message carries writes that their authors know, and a full state is the
\* summary of those it carries.
Carried(w, k) == Written(w.reg) /\ w \in k[w.reg.author]
MsgOk(m, k, B) ==
  /\ m.kind = "update" => Carried([task |-> m.task, field |-> m.field, reg |-> m.reg], k)
  /\ m.kind = "full" => /\ \A w \in m.known : Carried(w, k)
                        /\ Summary(m.tasks, m.known, B)
MsgInv == \A m \in msgs : MsgOk(m, known, behind)

ListsInv == \A p \in Peers : Summary(tasks[p], known[p], behind)

TaskInv == TypeInv /\ KnownInv /\ StampsAreUnique /\ ListsInv /\ MsgInv

\* No list loses what it had, but for a field that is overwritten now.
Forward ==
  \A p \in Peers, t \in TaskIds, f \in Fields :
    tasks[p][t] # NoTask =>
      \/ AtLeast(tasks'[p][t].fields[f], tasks[p][t].fields[f])
      \/ writes' # writes /\ tasks'[p][t].fields[f].author = p /\ <<t, f>> \in behind'

\* The types TaskInv gives, in the form the steps use.
LEMMA Types ==
  ASSUME TypeInv
  PROVE  /\ tasks \in [Peers -> Lists]
         /\ known \in [Peers -> SUBSET KnownWrite]
         /\ writes \in Nat
         /\ \A p \in Peers : \A w \in known[p] : w \in KnownWrite /\ w.reg.ts \in Nat
         /\ \A m \in msgs : m \in Message
<1>1. /\ tasks \in [Peers -> Lists] /\ writes \in Nat
      /\ known \in [Peers -> SUBSET KnownWrite] /\ msgs \subseteq Message
  BY TaskAssumption DEF TypeInv, TypeOK, Lists
<1>2. \A w \in KnownWrite : w.reg.ts \in Nat
  BY DEF KnownWrite, Register
<1> QED
  BY <1>1, <1>2

\* Giving up more fields demands less.
LEMMA SummaryLess ==
  ASSUME NEW l, NEW S, NEW B, NEW C, B \subseteq C, Summary(l, S, B)
  PROVE  Summary(l, S, C)
  BY DEF Summary, Covers

\* A list that takes in writes their authors know.
LEMMA Received ==
  ASSUME TaskInv, NEW p \in Peers, NEW R \in SUBSET KnownWrite,
         \A w \in R : Carried(w, known),
         known' = [known EXCEPT ![p] = @ \cup R], UNCHANGED <<msgs, behind>>
  PROVE  /\ Unique(known[p] \cup R, behind)
         /\ KnownInv' /\ StampsAreUnique' /\ MsgInv'
<1>1. /\ \A q \in Peers : known[q] \subseteq known'[q]
      /\ \A q \in Peers : \A w \in known'[q] :
           \/ w \in known[q]
           \/ q = p /\ w \in R
      /\ \A q \in Peers : \A w \in known'[q] : \E o \in Peers : w \in known[o]
      /\ \A w \in known[p] \cup R : \E o \in Peers : w \in known[o]
      /\ behind' = behind /\ msgs' = msgs
  BY Types DEF TaskInv, Written, Carried
<1>2. \A v, w : (\E o \in Peers : v \in known[o]) /\ (\E o \in Peers : w \in known[o]) =>
        (/\ v.task = w.task /\ v.field = w.field /\ <<v.task, v.field>> \notin behind
         /\ v.reg.ts = w.reg.ts /\ v.reg.author = w.reg.author
         => v = w)
  BY DEF TaskInv, StampsAreUnique
<1>3. Unique(known[p] \cup R, behind)
  BY <1>1, <1>2 DEF Unique
<1>4. StampsAreUnique'
  BY <1>1, <1>2 DEF StampsAreUnique
<1>5. KnownInv'
  <2> SUFFICES ASSUME NEW q \in Peers, NEW w \in known'[q]
               PROVE  Written(w.reg) /\ w \in known'[w.reg.author]
    BY DEF KnownInv, Written
  <2>1. CASE w \in known[q]
    BY <1>1, <2>1 DEF TaskInv, KnownInv, Written
  <2>2. CASE q = p /\ w \in R
    BY <1>1, <2>2 DEF Carried, Written
  <2> QED
    BY <1>1, <2>1, <2>2
<1>6. MsgInv'
  <2>1. \A w : Carried(w, known) => Carried(w, known')
    BY <1>1 DEF Carried, Written
  <2> QED
    BY <1>1, <2>1 DEF TaskInv, MsgInv, MsgOk
<1> QED
  BY <1>3, <1>4, <1>5, <1>6

\* A peer's own writes, whose stamps it has not used, sent in one message.
LEMMA WrittenNow ==
  ASSUME TaskInv, NEW p \in Peers, NEW R \in SUBSET KnownWrite,
         \A w \in R : Written(w.reg) /\ w.reg.author = p,
         \A v, w \in R : v.task = w.task /\ v.field = w.field => v = w,
         \A v \in known[p], w \in R :
           /\ v.task = w.task /\ v.field = w.field /\ <<v.task, v.field>> \notin behind'
           /\ v.reg.author = p
           => v.reg.ts # w.reg.ts,
         known' = [known EXCEPT ![p] = @ \cup R], behind \subseteq behind',
         NEW n, msgs' = msgs \cup {n},
         (\A w \in R : Carried(w, known')) => MsgOk(n, known', behind')
  PROVE  KnownInv' /\ StampsAreUnique' /\ MsgInv'
<1>1. /\ \A q \in Peers : known[q] \subseteq known'[q]
      /\ R \subseteq known'[p]
      /\ \A q \in Peers : \A w \in known'[q] :
           w \in known[q] \/ (q = p /\ w \in R)
  BY Types DEF TaskInv
<1>2. \A q \in Peers : \A v \in known[q] : v.reg.author = p => v \in known[p]
  BY DEF TaskInv, KnownInv
<1>3. KnownInv'
  <2> SUFFICES ASSUME NEW q \in Peers, NEW w \in known'[q]
               PROVE  Written(w.reg) /\ w \in known'[w.reg.author]
    BY DEF KnownInv, Written
  <2>1. CASE w \in known[q]
    BY <1>1, <2>1 DEF TaskInv, KnownInv, Written
  <2>2. CASE q = p /\ w \in R
    BY <1>1, <2>2
  <2> QED
    BY <1>1, <2>1, <2>2
<1>4. StampsAreUnique'
  <2> SUFFICES ASSUME NEW q \in Peers, NEW o \in Peers,
                      NEW v \in known'[q], NEW w \in known'[o],
                      v.task = w.task, v.field = w.field,
                      <<v.task, v.field>> \notin behind',
                      v.reg.ts = w.reg.ts, v.reg.author = w.reg.author
               PROVE  v = w
    BY DEF StampsAreUnique
  <2>1. CASE v \in known[q] /\ w \in known[o]
    BY <2>1 DEF TaskInv, StampsAreUnique
  <2>2. CASE v \in R /\ w \in R
    BY <2>2
  <2>3. CASE v \in known[q] /\ w \in R
    BY <1>2, <2>3
  <2>4. CASE v \in R /\ w \in known[o]
    BY <1>2, <2>4
  <2> QED
    BY <1>1, <2>1, <2>2, <2>3, <2>4
<1>5. MsgInv'
  <2>1. \A w : Carried(w, known) => Carried(w, known')
    BY <1>1 DEF Carried, Written
  <2>2. \A m \in msgs : MsgOk(m, known', behind')
    BY <2>1, SummaryLess DEF TaskInv, MsgInv, MsgOk
  <2>3. \A w \in R : Carried(w, known')
    BY <1>1 DEF Carried
  <2>4. MsgOk(n, known', behind')
    BY <2>3
  <2> QED
    BY <2>2, <2>4 DEF MsgInv
<1> QED
  BY <1>3, <1>4, <1>5

-----------------------------------------------------------------------------
(* The actions *)

\* At the start nothing is known, listed or sent.
LEMMA TaskInit == Init => TaskInv
<1> SUFFICES ASSUME Init PROVE TaskInv
  OBVIOUS
<1>1. \A p \in Peers : known[p] = {} /\ tasks[p] = [t \in TaskIds |-> NoTask]
  BY DEF Init
<1>2. TypeInv
  BY TypeInit
<1>3. KnownInv /\ StampsAreUnique /\ MsgInv
  BY <1>1 DEF Init, KnownInv, StampsAreUnique, MsgInv
<1>4. ListsInv
  BY <1>1 DEF ListsInv, Summary, Covers, Backed
<1> QED
  BY <1>2, <1>3, <1>4 DEF TaskInv

\* If only one list changes, to the summary of what its peer now knows, all lists
\* are summaries; if it goes forward, all do.
LEMMA OneList ==
  ASSUME TaskInv, NEW p \in Peers, NEW l \in Lists, NEW R \in SUBSET KnownWrite,
         tasks' = [tasks EXCEPT ![p] = l], known' = [known EXCEPT ![p] = @ \cup R],
         behind \subseteq behind', Summary(l, known[p] \cup R, behind'),
         \A u \in TaskIds, g \in Fields : tasks[p][u] # NoTask =>
           \/ AtLeast(l[u].fields[g], tasks[p][u].fields[g])
           \/ writes' # writes /\ l[u].fields[g].author = p /\ <<u, g>> \in behind'
  PROVE  ListsInv' /\ Forward
<1>1. \A q \in Peers : /\ tasks'[q] = IF q = p THEN l ELSE tasks[q]
                       /\ known'[q] = IF q = p THEN known[p] \cup R ELSE known[q]
  BY Types DEF TaskInv
<1>2. ASSUME NEW q \in Peers PROVE Summary(tasks'[q], known'[q], behind')
  <2>1. CASE q = p
    BY <1>1, <2>1
  <2>2. CASE q # p
    <3>1. Summary(tasks[q], known[q], behind)
      BY DEF TaskInv, ListsInv
    <3>2. Summary(tasks[q], known[q], behind')
      BY <3>1, SummaryLess
    <3> QED
      BY <1>1, <2>2, <3>2
  <2> QED
    BY <2>1, <2>2
<1>3. Forward
  BY <1>1 DEF Forward, AtLeast
<1>4. ListsInv'
  BY <1>2 DEF ListsInv, Summary, Covers, Backed
<1> QED
  BY <1>3, <1>4

LEMMA CreateTaskKeeps ==
  ASSUME TaskInv, TypeInv', NEW p \in Peers, NEW t \in TaskIds, NEW now \in Times,
         CreateTask(p, t, now)
  PROVE  TaskInv' /\ Forward
<1> DEFINE k == Created(p, now)
           R == WritesOf(t, k)
           one == [u \in TaskIds |-> IF u = t THEN k ELSE NoTask]
           n == [kind |-> "full", tasks |-> one, known |-> R]
<1>1. /\ k \in Task /\ R \in SUBSET KnownWrite
      /\ \A f \in Fields : k.fields[f].ts = now /\ k.fields[f].author = p
  BY CreatedTask
<1>2. /\ \A w \in known[p] : w.task # t
      /\ tasks' = [tasks EXCEPT ![p][t] = k]
      /\ known' = [known EXCEPT ![p] = @ \cup R]
      /\ msgs' = msgs \cup {n} /\ behind' = behind
  BY CreateTaskEffect
<1>3. /\ tasks[p] \in Lists /\ known[p] \in SUBSET KnownWrite
      /\ Summary(tasks[p], known[p], behind) /\ tasks \in [Peers -> Lists]
      /\ now > 0
  BY Types DEF TaskInv, ListsInv, Times
<1>4. n.kind = "full" /\ n.tasks = one /\ n.known = R
  OBVIOUS
<1> HIDE DEF k
<1>5. /\ \A w \in R : Written(w.reg) /\ w.reg.author = p /\ w.task = t
      /\ \A v, w \in R : v.task = w.task /\ v.field = w.field => v = w
  BY <1>1, <1>3 DEF WritesOf, Written
<1> HIDE DEF R, one, n
<1>6. /\ Summary([tasks[p] EXCEPT ![t] = k], known[p] \cup R, behind)
      /\ Summary(one, R, behind)
      /\ \A u \in TaskIds, g \in Fields : tasks[p][u] # NoTask =>
           AtLeast([tasks[p] EXCEPT ![t] = k][u].fields[g], tasks[p][u].fields[g])
  <2>1. \A f \in Fields : k.fields[f].ts > 0
    BY <1>1, <1>3
  <2>2. k \in Task /\ tasks[p] \in Lists /\ known[p] \in SUBSET KnownWrite
    BY <1>1, <1>3
  <2>3. Summary(tasks[p], known[p], behind) /\ \A w \in known[p] : w.task # t
    BY <1>2, <1>3
  <2> QED
    BY <2>1, <2>2, <2>3, CreatedSummary DEF R, one
<1>7. (\A w \in R : Carried(w, known')) => MsgOk(n, known', behind')
  BY <1>2, <1>4, <1>6 DEF MsgOk
<1>8. KnownInv' /\ StampsAreUnique' /\ MsgInv'
  <2>1. \A w \in R : Written(w.reg) /\ w.reg.author = p
    BY <1>5
  <2>2. \A v, w \in R : v.task = w.task /\ v.field = w.field => v = w
    BY <1>5
  <2>3. \A v \in known[p], w \in R :
          /\ v.task = w.task /\ v.field = w.field /\ <<v.task, v.field>> \notin behind'
          /\ v.reg.author = p
          => v.reg.ts # w.reg.ts
    BY <1>2, <1>5
  <2>4. /\ R \in SUBSET KnownWrite /\ behind \subseteq behind' /\ msgs' = msgs \cup {n}
        /\ known' = [known EXCEPT ![p] = @ \cup R]
    BY <1>1, <1>2
  <2> QED
    BY <1>7, <2>1, <2>2, <2>3, <2>4, WrittenNow
<1>9. ListsInv' /\ Forward
  <2>1. tasks' = [tasks EXCEPT ![p] = [tasks[p] EXCEPT ![t] = k]]
    BY <1>2, <1>3
  <2>2. [tasks[p] EXCEPT ![t] = k] \in Lists
    BY <1>1, <1>3 DEF Lists
  <2> DEFINE c == [tasks[p] EXCEPT ![t] = k]
  <2>3. /\ c \in Lists /\ R \in SUBSET KnownWrite /\ behind \subseteq behind'
        /\ tasks' = [tasks EXCEPT ![p] = c] /\ known' = [known EXCEPT ![p] = @ \cup R]
    BY <1>1, <1>2, <2>1, <2>2
  <2>4. /\ Summary(c, known[p] \cup R, behind')
        /\ \A u \in TaskIds, g \in Fields : tasks[p][u] # NoTask =>
             AtLeast(c[u].fields[g], tasks[p][u].fields[g])
    BY <1>2, <1>6
  <2> HIDE DEF c
  <2> QED
    BY <2>3, <2>4, OneList
<1> QED
  BY <1>8, <1>9 DEF TaskInv

LEMMA UpdateFieldKeeps ==
  ASSUME TaskInv, TypeInv', NEW p \in Peers, NEW t \in TaskIds,
         NEW f \in Fields, NEW v \in Values, NEW now \in Times,
         UpdateField(p, t, f, v, now)
  PROVE  TaskInv' /\ Forward
<1> DEFINE r == [value |-> v, ts |-> now, author |-> p]
           w == [task |-> t, field |-> f, reg |-> r]
           n == [kind |-> "update", task |-> t, field |-> f, reg |-> r]
           l == [tasks[p] EXCEPT ![t].fields[f] = r]
<1>1. /\ tasks[p][t] # NoTask
      /\ tasks' = [tasks EXCEPT ![p][t].fields[f] = r]
      /\ known' = [known EXCEPT ![p] = @ \cup {w}]
      /\ msgs' = msgs \cup {n} /\ writes' = writes + 1
      /\ behind' = IF Newer(r, tasks[p][t].fields[f]) THEN behind
                   ELSE behind \cup {<<t, f>>}
  BY DEF UpdateField, Overwrite
<1>2. /\ tasks[p] \in Lists /\ known[p] \in SUBSET KnownWrite
      /\ Summary(tasks[p], known[p], behind) /\ tasks \in [Peers -> Lists]
      /\ writes \in Nat /\ writes' # writes
  BY <1>1, Types DEF TaskInv, ListsInv
<1>3. r \in Register /\ r.ts = now /\ r.author = p /\ Written(r)
  BY WriteTypes DEF Written, Times
<1>4. /\ n.kind = "update"
      /\ [task |-> n.task, field |-> n.field, reg |-> n.reg] = w
  OBVIOUS
<1>5. {w} \in SUBSET KnownWrite /\ w.reg = r /\ w.task = t /\ w.field = f
  BY <1>3 DEF KnownWrite
<1> HIDE DEF r, w, n
<1>6. (\A x \in {w} : Carried(x, known')) => MsgOk(n, known', behind')
  BY <1>4 DEF MsgOk
<1>7. behind \subseteq behind' /\ (<<t, f>> \notin behind' => Newer(r, tasks[p][t].fields[f]))
  BY <1>1
<1>8. ASSUME NEW x \in known[p], x.task = t, x.field = f, <<t, f>> \notin behind',
             x.reg.author = p
      PROVE  x.reg.ts # r.ts
  <2>1. tasks[p][t] \in Task
    BY <1>1, <1>2 DEF Lists
  <2>2. /\ tasks[p][t].fields[f] \in Register /\ x.reg \in Register
        /\ AtLeast(tasks[p][t].fields[f], x.reg)
    BY <1>2, <1>7, <1>8, <2>1, TaskFields DEF Summary, Covers, KnownWrite
  <2>3. AtLeast(r, x.reg)
    BY <1>3, <1>7, <1>8, <2>2, NewerTransitive DEF AtLeast
  <2>4. Newer(r, x.reg)
    <3>1. CASE tasks[p][t].fields[f] = x.reg
      BY <1>7, <1>8, <3>1
    <3>2. CASE tasks[p][t].fields[f] # x.reg
      <4>1. Newer(tasks[p][t].fields[f], x.reg)
        BY <2>2, <3>2 DEF AtLeast
      <4> QED
        BY <1>3, <1>7, <1>8, <2>2, <4>1, NewerChain
    <3> QED
      BY <3>1, <3>2
  <2>5. Rank[x.reg.author] \in Nat /\ x.reg.ts \in Nat
    BY <2>2, TaskAssumption DEF Register
  <2> QED
    BY <1>3, <1>8, <2>4, <2>5 DEF Newer
<1>9. KnownInv' /\ StampsAreUnique' /\ MsgInv'
  <2> DEFINE W == {w}
  <2>1. \A x \in W : Written(x.reg) /\ x.reg.author = p
    BY <1>3, <1>5
  <2>2. \A x, y \in W : x.task = y.task /\ x.field = y.field => x = y
    OBVIOUS
  <2>3. \A x \in known[p], y \in W :
          /\ x.task = y.task /\ x.field = y.field /\ <<x.task, x.field>> \notin behind'
          /\ x.reg.author = p
          => x.reg.ts # y.reg.ts
    BY <1>5, <1>8
  <2>4. /\ W \in SUBSET KnownWrite /\ behind \subseteq behind' /\ msgs' = msgs \cup {n}
        /\ known' = [known EXCEPT ![p] = @ \cup W]
    BY <1>1, <1>5, <1>7
  <2>5. (\A x \in W : Carried(x, known')) => MsgOk(n, known', behind')
    BY <1>6
  <2> HIDE DEF W
  <2> QED
    BY <2>1, <2>2, <2>3, <2>4, <2>5, WrittenNow
<1>10. /\ Summary(l, known[p] \cup {w}, behind')
       /\ \A u \in TaskIds, g \in Fields : tasks[p][u] # NoTask =>
            \/ AtLeast(l[u].fields[g], tasks[p][u].fields[g])
            \/ l[u].fields[g] = r /\ <<u, g>> \in behind'
  <2>1. /\ tasks[p] \in Lists /\ known[p] \in SUBSET KnownWrite /\ r \in Register
        /\ Summary(tasks[p], known[p], behind) /\ tasks[p][t] # NoTask
        /\ behind \subseteq behind'
        /\ <<t, f>> \notin behind' => Newer(r, tasks[p][t].fields[f])
    BY <1>1, <1>2, <1>3, <1>7
  <2>2. /\ Summary(Overwritten(tasks[p], t, f, r), known[p] \cup {OneWrite(t, f, r)}, behind')
        /\ NotBack(tasks[p], Overwritten(tasks[p], t, f, r), r, behind')
    BY <2>1, WrittenSummary
  <2>3. Overwritten(tasks[p], t, f, r) = l /\ OneWrite(t, f, r) = w
    BY DEF Overwritten, OneWrite, w
  <2> HIDE DEF l
  <2> QED
    BY <2>2, <2>3 DEF NotBack
<1>11. ListsInv' /\ Forward
  <2>1. l \in Lists
    <3>1. tasks[p][t] \in Task
      BY <1>1, <1>2 DEF Lists
    <3>2. [tasks[p][t] EXCEPT !.fields[f] = r] \in Task
      BY <1>3, <3>1, TaskFields
    <3> QED
      BY <1>2, <3>2 DEF Lists
  <2>2. tasks' = [tasks EXCEPT ![p] = l]
    BY <1>1, <1>2
  <2> DEFINE W == {w}
  <2>3. /\ W \in SUBSET KnownWrite /\ known' = [known EXCEPT ![p] = @ \cup W]
        /\ Summary(l, known[p] \cup W, behind')
    BY <1>1, <1>5, <1>10
  <2>4. \A u \in TaskIds, g \in Fields : tasks[p][u] # NoTask =>
           \/ AtLeast(l[u].fields[g], tasks[p][u].fields[g])
           \/ writes' # writes /\ l[u].fields[g].author = p /\ <<u, g>> \in behind'
    BY <1>2, <1>3, <1>10
  <2> HIDE DEF l, W
  <2> QED
    BY <1>7, <2>1, <2>2, <2>3, <2>4, OneList
<1> QED
  BY <1>9, <1>11 DEF TaskInv

LEMMA SendFullStateKeeps ==
  ASSUME TaskInv, TypeInv', NEW p \in Peers, SendFullState(p)
  PROVE  TaskInv' /\ Forward
<1> DEFINE n == [kind |-> "full", tasks |-> tasks[p], known |-> known[p]]
<1>1. msgs' = msgs \cup {n} /\ UNCHANGED <<tasks, known, behind>>
  BY DEF SendFullState
<1>2. n.kind = "full" /\ n.tasks = tasks[p] /\ n.known = known[p]
  OBVIOUS
<1> HIDE DEF n
<1>3. \A w \in known[p] : Carried(w, known)
  BY DEF TaskInv, KnownInv, Carried
<1>4. MsgOk(n, known, behind)
  BY <1>2, <1>3 DEF MsgOk, TaskInv, ListsInv
<1>5. MsgInv'
  BY <1>1, <1>4 DEF TaskInv, MsgInv, MsgOk, Carried, Written
<1>6. KnownInv' /\ StampsAreUnique' /\ ListsInv' /\ Forward
  BY <1>1 DEF TaskInv, KnownInv, StampsAreUnique, ListsInv, Forward, AtLeast
<1> QED
  BY <1>5, <1>6 DEF TaskInv

LEMMA ApplyUpdateKeeps ==
  ASSUME TaskInv, TypeInv', NEW p \in Peers, NEW m \in msgs, ApplyUpdate(p, m)
  PROVE  TaskInv' /\ Forward
<1> DEFINE w == [task |-> m.task, field |-> m.field, reg |-> m.reg]
           l == Applied(tasks[p], m.task, m.field, m.reg)
<1>1. /\ m.task \in TaskIds /\ m.field \in Fields /\ m.reg \in Register
      /\ tasks \in [Peers -> Lists] /\ tasks[p] \in Lists
      /\ known[p] \in SUBSET KnownWrite
      /\ m.kind = "update" /\ Summary(tasks[p], known[p], behind)
  BY Types, MessageForms DEF TaskInv, ListsInv, ApplyUpdate
<1>2. Carried(w, known)
  BY <1>1 DEF TaskInv, MsgInv, MsgOk
<1>3. /\ tasks' = [tasks EXCEPT ![p] = l]
      /\ known' = [known EXCEPT ![p] = @ \cup {w}]
      /\ UNCHANGED <<msgs, behind>>
  BY <1>1 DEF ApplyUpdate, Applied
<1>4. {w} \in SUBSET KnownWrite /\ w.reg = m.reg
  BY <1>1 DEF KnownWrite
<1>5. l \in Lists
  BY <1>1, <1>2, AppliedFields DEF Carried, Written
<1>7. /\ Unique(known[p] \cup {w}, behind)
      /\ KnownInv' /\ StampsAreUnique' /\ MsgInv'
  <2> HIDE DEF w, l
  <2> QED
    BY <1>2, <1>3, <1>4, Received
<1>8. /\ Summary(l, known[p] \cup {w}, behind)
      /\ \A u \in TaskIds, g \in Fields : tasks[p][u] # NoTask =>
           AtLeast(l[u].fields[g], tasks[p][u].fields[g])
  BY <1>1, <1>2, <1>7, AppliedSummary DEF Carried, Written
<1>9. ListsInv' /\ Forward
  <2> HIDE DEF w, l
  <2> QED
    BY <1>3, <1>4, <1>5, <1>8, OneList
<1> QED
  BY <1>7, <1>9 DEF TaskInv

LEMMA ApplyFullKeeps ==
  ASSUME TaskInv, TypeInv', NEW p \in Peers, NEW m \in msgs, ApplyFull(p, m)
  PROVE  TaskInv' /\ Forward
<1> DEFINE l == MergeTaskList(tasks[p], m.tasks)
<1>1. /\ m.tasks \in Lists /\ m.known \in SUBSET KnownWrite
      /\ tasks[p] \in Lists /\ known[p] \in SUBSET KnownWrite
      /\ m.kind = "full" /\ Summary(tasks[p], known[p], behind)
  BY Types, MessageForms DEF TaskInv, ListsInv, ApplyFull
<1>2. Summary(m.tasks, m.known, behind) /\ \A w \in m.known : Carried(w, known)
  BY <1>1 DEF TaskInv, MsgInv, MsgOk
<1>3. /\ tasks' = [tasks EXCEPT ![p] = l]
      /\ known' = [known EXCEPT ![p] = @ \cup m.known]
      /\ UNCHANGED <<msgs, behind>>
  BY DEF ApplyFull
<1>4. l \in Lists
  BY <1>1, MergeListType
<1>5. \A w \in m.known : w.reg.ts > 0
  BY <1>2 DEF Carried, Written
<1>6. /\ Unique(known[p] \cup m.known, behind)
      /\ KnownInv' /\ StampsAreUnique' /\ MsgInv'
  <2> HIDE DEF l
  <2> QED
    BY <1>1, <1>2, <1>3, Received
<1>7. /\ Summary(l, known[p] \cup m.known, behind)
      /\ \A u \in TaskIds, g \in Fields : tasks[p][u] # NoTask =>
           AtLeast(l[u].fields[g], tasks[p][u].fields[g])
  BY <1>1, <1>2, <1>5, <1>6, MergedSummary
<1>8. ListsInv' /\ Forward
  <2> HIDE DEF l
  <2> QED
    BY <1>1, <1>3, <1>4, <1>7, OneList
<1> QED
  BY <1>6, <1>8 DEF TaskInv

\* Every step keeps the invariant, and takes no list back but with a write of the
\* peer itself.
LEMMA TaskStep ==
  ASSUME TaskInv, [Next]_vars
  PROVE  TaskInv' /\ Forward
<1>1. TypeInv'
  BY TypeStep DEF TaskInv
<1>2. ASSUME NEW p \in Peers, NEW t \in TaskIds, NEW now \in Times, CreateTask(p, t, now)
      PROVE  TaskInv' /\ Forward
  BY <1>1, <1>2, CreateTaskKeeps
<1>3. ASSUME NEW p \in Peers, NEW t \in TaskIds, NEW f \in Fields, NEW v \in Values,
             NEW now \in Times, UpdateField(p, t, f, v, now)
      PROVE  TaskInv' /\ Forward
  BY <1>1, <1>3, UpdateFieldKeeps
<1>4. ASSUME NEW p \in Peers, SendFullState(p)
      PROVE  TaskInv' /\ Forward
  BY <1>1, <1>4, SendFullStateKeeps
<1>5. ASSUME NEW p \in Peers, NEW m \in msgs, ApplyUpdate(p, m)
      PROVE  TaskInv' /\ Forward
  BY <1>1, <1>5, ApplyUpdateKeeps
<1>6. ASSUME NEW p \in Peers, NEW m \in msgs, ApplyFull(p, m)
      PROVE  TaskInv' /\ Forward
  BY <1>1, <1>6, ApplyFullKeeps
<1>7. CASE UNCHANGED vars
  <2>1. KnownInv' /\ StampsAreUnique' /\ ListsInv'
    BY <1>7 DEF vars, TaskInv, KnownInv, StampsAreUnique, ListsInv, Written
  <2>2. \A w : Carried(w, known) => Carried(w, known')
    BY <1>7 DEF vars, Carried, Written
  <2>3. \A m \in msgs : MsgOk(m, known', behind')
    BY <1>7, <2>2 DEF vars, TaskInv, MsgInv
  <2>4. MsgInv'
    BY <1>7, <2>3 DEF vars, MsgInv
  <2>5. Forward
    BY <1>7 DEF vars, Forward, AtLeast
  <2> QED
    BY <1>1, <2>1, <2>4, <2>5 DEF TaskInv
<1>8. {"status", "assignee"} \subseteq Fields /\ Statuses \subseteq Values
      /\ Assignees \subseteq Values
  BY DEF Fields, Values
<1> QED
  BY <1>2, <1>3, <1>4, <1>5, <1>6, <1>7, <1>8 DEF Next, Update

-----------------------------------------------------------------------------
(* Where the fields of a task come from *)

StubField(f) ==
  [value |-> CASE f = "title" -> "" [] f = "status" -> "open" [] f = "assignee" -> "none",
   ts |-> 0, author |-> Nobody]

\* No task is all stub, and the stub's fields are the same in every list.
Made(list) ==
  \A t \in TaskIds : list[t] # NoTask =>
    /\ \E f \in Fields : ~IsStub(list[t].fields[f])
    /\ \A f \in Fields : IsStub(list[t].fields[f]) => list[t].fields[f] = StubField(f)
MadeInv ==
  /\ \A p \in Peers : Made(tasks[p])
  /\ \A m \in msgs : m.kind = "full" => Made(m.tasks)

\* A register that is no stub's is not replaced by one.
LEMMA StubNeverWins ==
  ASSUME NEW x \in Register, NEW y \in Register, ~IsStub(x)
  PROVE  ~IsStub(MergeLww(x, y))
<1>1. /\ x.ts \in Nat /\ y.ts \in Nat /\ Nobody \in Authors
      /\ x.author \in Authors /\ y.author \in Authors
  BY TaskAssumption DEF Register, Authors
<1>2. /\ Rank[x.author] \in Nat /\ Rank[Nobody] \in Nat
      /\ x.author # Nobody => Rank[Nobody] < Rank[x.author]
  BY <1>1, TaskAssumption DEF Authors
<1>3. ASSUME IsStub(y)
      PROVE  ~Newer(y, x)
  BY <1>1, <1>2, <1>3 DEF IsStub, Newer
<1> QED
  BY <1>3 DEF MergeLww

\* A write to a field, applied to a task or to the stub made of it.
LEMMA AppliedMade ==
  ASSUME NEW l \in Lists, Made(l), NEW t \in TaskIds, NEW f \in Fields,
         NEW r \in Register, Written(r)
  PROVE  Made(Applied(l, t, f, r))
<1> DEFINE base == IF l[t] = NoTask THEN Stub(r) ELSE l[t]
           new  == Applied(l, t, f, r)
<1>1. /\ base \in Task /\ new[t].fields[f] = MergeLww(base.fields[f], r)
      /\ \A g \in Fields \ {f} : new[t].fields[g] = base.fields[g]
      /\ \A u \in TaskIds \ {t} : new[u] = l[u]
  BY AppliedFields DEF Written
<1>2. ~IsStub(r)
  BY TaskAssumption DEF Written, IsStub
<1>3. /\ \A g \in Fields : IsStub(base.fields[g]) => base.fields[g] = StubField(g)
      /\ \/ \E g \in Fields : ~IsStub(base.fields[g])
         \/ \A g \in Fields : IsStub(base.fields[g])
  BY DEF Made, Stub, StubField
<1>4. \A g \in Fields : base.fields[g] \in Register
  BY <1>1, TaskFields
<1>5. ~IsStub(base.fields[f]) => ~IsStub(MergeLww(base.fields[f], r))
  BY <1>4, StubNeverWins
<1>6. IsStub(base.fields[f]) => MergeLww(base.fields[f], r) = r
  BY <1>4, StubOldest DEF MergeLww, Written
<1> HIDE DEF base, new
<1>7. ~IsStub(new[t].fields[f])
  BY <1>1, <1>2, <1>5, <1>6
<1>8. \A g \in Fields : IsStub(new[t].fields[g]) => new[t].fields[g] = StubField(g)
  BY <1>1, <1>3, <1>7
<1>9. Made(new)
  BY <1>1, <1>7, <1>8 DEF Made
<1> QED
  BY <1>9 DEF new

\* A list merged into another.
LEMMA MergedMade ==
  ASSUME NEW l \in Lists, Made(l), NEW m \in Lists, Made(m)
  PROVE  Made(MergeTaskList(l, m))
<1> DEFINE new == MergeTaskList(l, m)
<1> SUFFICES ASSUME NEW u \in TaskIds, new[u] # NoTask
             PROVE  /\ \E f \in Fields : ~IsStub(new[u].fields[f])
                    /\ \A f \in Fields : IsStub(new[u].fields[f]) =>
                         new[u].fields[f] = StubField(f)
  BY DEF Made
<1>1. CASE m[u] = NoTask \/ l[u] = NoTask
  <2>1. new[u] = l[u] \/ new[u] = m[u]
    BY <1>1 DEF MergeTaskList
  <2> HIDE DEF new
  <2> QED
    BY <2>1 DEF Made
<1>2. CASE m[u] # NoTask /\ l[u] # NoTask
  <2>1. l[u] \in Task /\ m[u] \in Task
    BY <1>2 DEF Lists
  <2>2. new[u] = MergeTask(l[u], m[u])
    BY <1>2 DEF MergeTaskList
  <2> HIDE DEF new
  <2>3. \A g \in Fields : /\ new[u].fields[g] = MergeLww(l[u].fields[g], m[u].fields[g])
                          /\ l[u].fields[g] \in Register /\ m[u].fields[g] \in Register
    BY <2>1, <2>2, MergeTaskFields, TaskFields
  <2>4. \E f \in Fields : ~IsStub(new[u].fields[f])
    <3>1. PICK f \in Fields : ~IsStub(l[u].fields[f])
      BY <1>2 DEF Made
    <3>2. ~IsStub(new[u].fields[f])
      BY <2>3, <3>1, StubNeverWins
    <3> QED
      BY <3>2
  <2>5. ASSUME NEW f \in Fields, IsStub(new[u].fields[f])
        PROVE  new[u].fields[f] = StubField(f)
    <3>1. new[u].fields[f] = l[u].fields[f] \/ new[u].fields[f] = m[u].fields[f]
      BY <2>3 DEF MergeLww
    <3> QED
      BY <1>2, <2>5, <3>1 DEF Made
  <2> QED
    BY <2>4, <2>5
<1> QED
  BY <1>1, <1>2

LEMMA MadeInit == Init => MadeInv
  BY DEF Init, MadeInv, Made

LEMMA MadeStep ==
  ASSUME TypeInv, MadeInv, [Next]_vars
  PROVE  MadeInv'
<1>0. /\ tasks \in [Peers -> Lists] /\ \A p \in Peers : tasks[p] \in Lists
      /\ \A now \in Times : now > 0 /\ now \in Nat
      /\ \A p \in Peers : Made(tasks[p])
      /\ \A m \in msgs : m \in Message /\ (m.kind = "full" => Made(m.tasks))
  BY Types DEF MadeInv, Times
\* One list changes, to a list that is made of writes.
<1>1. ASSUME NEW p \in Peers, NEW l \in Lists, Made(l), tasks' = [tasks EXCEPT ![p] = l]
      PROVE  \A q \in Peers : Made(tasks'[q])
  <2>1. \A q \in Peers : tasks'[q] = l \/ tasks'[q] = tasks[q]
    BY <1>0, <1>1
  <2> QED
    BY <1>0, <1>1, <2>1
<1>2. ASSUME NEW p \in Peers, NEW t \in TaskIds, NEW now \in Times,
             CreateTask(p, t, now)
      PROVE  MadeInv'
  <2> DEFINE k == Created(p, now)
             one == [u \in TaskIds |-> IF u = t THEN k ELSE NoTask]
             l == [tasks[p] EXCEPT ![t] = k]
             n == [kind |-> "full", tasks |-> one,
                   known |-> WritesOf(t, k)]
  <2>1. k \in Task /\ \A f \in Fields : k.fields[f].ts > 0
    BY <1>0, CreatedTask
  <2>2. msgs' = msgs \cup {n} /\ tasks' = [tasks EXCEPT ![p][t] = k]
    BY <1>2, CreateTaskEffect
  <2>3. n.tasks = one
    OBVIOUS
  <2> HIDE DEF k, n
  <2>4. (\A f \in Fields : ~IsStub(k.fields[f])) /\ "title" \in Fields
    BY <2>1 DEF IsStub, Fields
  <2>5. l \in Lists /\ tasks' = [tasks EXCEPT ![p] = l]
    BY <1>0, <2>1, <2>2 DEF Lists
  <2>6. \A u \in TaskIds : l[u] = IF u = t THEN k ELSE tasks[p][u]
    BY <1>0 DEF Lists
  <2> HIDE DEF l
  <2>7. Made(one) /\ Made(l)
    BY <1>0, <2>4, <2>6 DEF Made
  <2> HIDE DEF one
  <2>8. \A q \in Peers : Made(tasks'[q])
    BY <1>1, <2>5, <2>7
  <2> QED
    BY <1>0, <2>2, <2>3, <2>7, <2>8 DEF MadeInv, Made
<1>3. ASSUME NEW p \in Peers, NEW t \in TaskIds, NEW f \in Fields, NEW v \in Values,
             NEW now \in Times, UpdateField(p, t, f, v, now)
      PROVE  MadeInv'
  <2> DEFINE r == [value |-> v, ts |-> now, author |-> p]
             l == [tasks[p] EXCEPT ![t].fields[f] = r]
             n == [kind |-> "update", task |-> t, field |-> f, reg |-> r]
  <2>1. /\ tasks[p][t] # NoTask /\ tasks' = [tasks EXCEPT ![p][t].fields[f] = r]
        /\ msgs' = msgs \cup {n}
    BY <1>3 DEF UpdateField, Overwrite
  <2>2. r \in Register /\ ~IsStub(r)
    <3>1. r \in Register
      BY WriteTypes
    <3>2. r.ts # 0
      BY <1>0
    <3> QED
      BY <3>1, <3>2 DEF IsStub
  <2>3. n.kind # "full"
    OBVIOUS
  <2> HIDE DEF r, n
  <2>4. tasks[p][t] \in Task
    BY <1>0, <2>1 DEF Lists
  <2>5. [tasks[p][t] EXCEPT !.fields[f] = r] \in Task
    BY <2>2, <2>4, TaskFields
  <2>6. l \in Lists /\ tasks' = [tasks EXCEPT ![p] = l]
    BY <1>0, <2>1, <2>5 DEF Lists
  <2>7. /\ l[t] = [tasks[p][t] EXCEPT !.fields[f] = r]
        /\ \A u \in TaskIds \ {t} : l[u] = tasks[p][u]
    BY <1>0 DEF Lists
  <2>8. l[t].fields = [tasks[p][t].fields EXCEPT ![f] = r]
    BY <2>4, <2>7 DEF Task
  <2>9. tasks[p][t].fields \in [Fields -> Register]
    BY <2>4, TaskFields
  <2> HIDE DEF l
  <2>10. l[t].fields[f] = r /\ \A g \in Fields \ {f} : l[t].fields[g] = tasks[p][t].fields[g]
    BY <2>8, <2>9
  <2>11. Made(l)
    <3>1. Made(tasks[p])
      BY <1>0
    <3>2. ~IsStub(l[t].fields[f])
      BY <2>2, <2>10
    <3>3. \A g \in Fields : IsStub(l[t].fields[g]) => l[t].fields[g] = StubField(g)
      BY <2>1, <2>10, <3>1, <3>2 DEF Made
    <3> SUFFICES ASSUME NEW u \in TaskIds, l[u] # NoTask
                 PROVE  /\ \E g \in Fields : ~IsStub(l[u].fields[g])
                        /\ \A g \in Fields : IsStub(l[u].fields[g]) =>
                             l[u].fields[g] = StubField(g)
      BY DEF Made
    <3>4. CASE u = t
      BY <3>2, <3>3, <3>4
    <3>5. CASE u # t
      <4>1. l[u] = tasks[p][u]
        BY <2>7, <3>5
      <4> QED
        BY <3>1, <4>1 DEF Made
    <3> QED
      BY <3>4, <3>5
  <2>12. \A q \in Peers : Made(tasks'[q])
    BY <1>1, <2>6, <2>11
  <2> QED
    BY <1>0, <2>1, <2>3, <2>12 DEF MadeInv, Made
<1>4. ASSUME NEW p \in Peers, SendFullState(p)
      PROVE  MadeInv'
  <2> DEFINE n == [kind |-> "full", tasks |-> tasks[p],
                   known |-> known[p]]
  <2>1. msgs' = msgs \cup {n} /\ tasks' = tasks
    BY <1>4 DEF SendFullState
  <2>2. n.tasks = tasks[p]
    OBVIOUS
  <2> HIDE DEF n
  <2> QED
    BY <1>0, <2>1, <2>2 DEF MadeInv, Made
<1>5. ASSUME NEW p \in Peers, NEW m \in msgs, ApplyUpdate(p, m)
      PROVE  MadeInv'
  <2> DEFINE l == Applied(tasks[p], m.task, m.field, m.reg)
  <2>1. /\ m.task \in TaskIds /\ m.field \in Fields /\ m.reg \in Register
        /\ Written(m.reg)
    BY <1>0, <1>5, MessageForms DEF ApplyUpdate, TypeInv
  <2>2. l \in Lists /\ Made(l)
    BY <1>0, <2>1, AppliedFields, AppliedMade DEF Written
  <2>3. tasks' = [tasks EXCEPT ![p] = l] /\ msgs' = msgs
    BY <1>0, <1>5 DEF ApplyUpdate, Applied
  <2> HIDE DEF l
  <2>4. \A q \in Peers : Made(tasks'[q])
    BY <1>1, <2>2, <2>3
  <2> QED
    BY <1>0, <2>3, <2>4 DEF MadeInv, Made
<1>6. ASSUME NEW p \in Peers, NEW m \in msgs, ApplyFull(p, m)
      PROVE  MadeInv'
  <2> DEFINE l == MergeTaskList(tasks[p], m.tasks)
  <2>1. m.tasks \in Lists /\ Made(m.tasks)
    BY <1>0, <1>6, MessageForms DEF ApplyFull
  <2>2. l \in Lists /\ Made(l)
    BY <1>0, <2>1, MergeListType, MergedMade
  <2>3. tasks' = [tasks EXCEPT ![p] = l] /\ msgs' = msgs
    BY <1>6 DEF ApplyFull
  <2> HIDE DEF l
  <2>4. \A q \in Peers : Made(tasks'[q])
    BY <1>1, <2>2, <2>3
  <2> QED
    BY <1>0, <2>3, <2>4 DEF MadeInv, Made
<1>7. CASE UNCHANGED vars
  BY <1>0, <1>7 DEF vars, MadeInv, Made
<1>8. {"status", "assignee"} \subseteq Fields /\ Statuses \subseteq Values
      /\ Assignees \subseteq Values
  BY DEF Fields, Values
<1> QED
  BY <1>2, <1>3, <1>4, <1>5, <1>6, <1>7, <1>8 DEF Next, Update

\* The writes of S to field f of task t are those of R.
SameWrites(S, R, t, f) ==
  \A r : [task |-> t, field |-> f, reg |-> r] \in S
           <=> [task |-> t, field |-> f, reg |-> r] \in R
Positive(S) == \A w \in S : w.reg.ts > 0

\* Two lists that sum up the same writes to a field have the same field.
LEMMA SameSummary ==
  ASSUME NEW l \in Lists, NEW S \in SUBSET KnownWrite, NEW m \in Lists,
         NEW R \in SUBSET KnownWrite, NEW B, Summary(l, S, B), Summary(m, R, B),
         Positive(S), Positive(R), Made(l), Made(m),
         NEW t \in TaskIds, NEW f \in Fields, l[t] # NoTask, m[t] # NoTask,
         <<t, f>> \notin B, SameWrites(S, R, t, f)
  PROVE  l[t].fields[f] = m[t].fields[f]
<1> DEFINE x == l[t].fields[f]
           y == m[t].fields[f]
<1>1. x \in Register /\ y \in Register
  BY TaskFields DEF Lists
<1>2. ~IsStub(x) => AtLeast(y, x) /\ x.ts > 0
  <2>1. ASSUME ~IsStub(x) PROVE [task |-> t, field |-> f, reg |-> x] \in R
    BY <2>1 DEF Summary, Backed, SameWrites
  <2> QED
    BY <2>1 DEF Summary, Covers, Positive
<1>3. ~IsStub(y) => AtLeast(x, y) /\ y.ts > 0
  <2>1. ASSUME ~IsStub(y) PROVE [task |-> t, field |-> f, reg |-> y] \in S
    BY <2>1 DEF Summary, Backed, SameWrites
  <2> QED
    BY <2>1 DEF Summary, Covers, Positive
<1>4. /\ IsStub(x) => x = StubField(f)
      /\ IsStub(y) => y = StubField(f)
  BY DEF Made
<1> HIDE DEF x, y
<1>5. /\ x.ts \in Nat /\ y.ts \in Nat
      /\ Rank[x.author] \in Nat /\ Rank[y.author] \in Nat
  <2>1. x.author \in Authors /\ y.author \in Authors /\ x.ts \in Nat /\ y.ts \in Nat
    BY <1>1, TaskAssumption DEF Register
  <2> QED
    BY <2>1, TaskAssumption
<1>6. x = y
  BY <1>2, <1>3, <1>4, <1>5 DEF AtLeast, Newer, IsStub
<1> QED
  BY <1>6 DEF x, y

-----------------------------------------------------------------------------
(* The theorems *)

LEMMA TaskInvariant == Spec => []TaskInv
<1>1. TaskInv /\ [Next]_vars => TaskInv'
  BY TaskStep
<1> QED
  BY <1>1, TaskInit, PTL DEF Spec

\* Whatever the clocks say: a register of a list is the latest of all the writes
\* the peer knows of, in whatever order, form and number they came to it, unless
\* the field was overwritten with a stamp that is not later.
THEOREM TaskLatestKnownWins == Spec => []LatestKnownWins
<1>1. TaskInv => LatestKnownWins
  BY DEF TaskInv, ListsInv, Summary, Covers, AtLeast, LatestKnownWins
<1> QED
  BY <1>1, TaskInvariant, PTL

\* No message takes a register back to an earlier write. What does is a write of
\* the peer itself by a clock that is not ahead, as update_field overwrites without
\* merging.
THEOREM TaskNoRollback == Spec => NoRollback
<1> DEFINE NoneBack ==
      \A p \in Peers, t \in TaskIds, f \in Fields :
        tasks[p][t] # NoTask =>
          LET old == tasks[p][t].fields[f]
              new == tasks'[p][t].fields[f] IN
          \/ new = old
          \/ Newer(new, old)
          \/ writes' # writes /\ new.author = p /\ <<t, f>> \in behind'
<1>1. TaskInv /\ [Next]_vars => [NoneBack]_vars
  <2>1. TaskInv /\ [Next]_vars => Forward
    BY TaskStep
  <2> QED
    BY <2>1 DEF Forward, AtLeast
<1> QED
  BY <1>1, TaskInvariant, PTL DEF Spec, NoRollback

\* Two peers that know the same writes to a field of a task both have show the
\* same, even if one has the task only as the stub of an update that came before
\* its creation; again but for what was overwritten with a stamp that is not later.
THEOREM TaskConvergence == Spec => []Convergence
<1>1. TypeInv /\ MadeInv /\ [Next]_vars => MadeInv'
  BY MadeStep
<1>2. Spec => []MadeInv
  <2>1. Spec => []TypeInv
    BY TypeInit, TypeStep, PTL DEF Spec
  <2> QED
    BY <1>1, <2>1, MadeInit, PTL DEF Spec
<1>3. ASSUME TaskInv, MadeInv
      PROVE  Convergence
  <2> SUFFICES ASSUME NEW p \in Peers, NEW q \in Peers, NEW t \in TaskIds,
                      NEW f \in Fields, <<t, f>> \notin behind,
                      tasks[p][t] # NoTask, tasks[q][t] # NoTask,
                      KnownOf(p, t, f) = KnownOf(q, t, f)
               PROVE  tasks[p][t].fields[f] = tasks[q][t].fields[f]
    BY DEF Convergence
  <2>1. /\ tasks[p] \in Lists /\ tasks[q] \in Lists
        /\ known[p] \in SUBSET KnownWrite /\ known[q] \in SUBSET KnownWrite
    BY <1>3, Types DEF TaskInv
  <2>2. /\ Summary(tasks[p], known[p], behind) /\ Summary(tasks[q], known[q], behind)
        /\ Made(tasks[p]) /\ Made(tasks[q])
        /\ \A w \in known[p] \cup known[q] : w.reg.ts > 0
    BY <1>3 DEF TaskInv, ListsInv, MadeInv, KnownInv, Written
  <2>3. ASSUME NEW r
        PROVE  [task |-> t, field |-> f, reg |-> r] \in known[p]
                 <=> [task |-> t, field |-> f, reg |-> r] \in known[q]
    <3> DEFINE w == [task |-> t, field |-> f, reg |-> r]
    <3>1. w.task = t /\ w.field = f
      OBVIOUS
    <3> HIDE DEF w
    <3>2. /\ w \in known[p] <=> w \in KnownOf(p, t, f)
          /\ w \in known[q] <=> w \in KnownOf(q, t, f)
      BY <3>1 DEF KnownOf
    <3> QED
      BY <3>2 DEF w
  <2> DEFINE l == tasks[p]
             m == tasks[q]
             S == known[p]
             Q == known[q]
  <2>4. /\ l \in Lists /\ m \in Lists /\ S \in SUBSET KnownWrite /\ Q \in SUBSET KnownWrite
        /\ Summary(l, S, behind) /\ Summary(m, Q, behind) /\ Made(l) /\ Made(m)
        /\ Positive(S) /\ Positive(Q)
        /\ l[t] # NoTask /\ m[t] # NoTask /\ SameWrites(S, Q, t, f)
    BY <2>1, <2>2, <2>3 DEF Positive, SameWrites
  <2> HIDE DEF l, m, S, Q
  <2>5. l[t].fields[f] = m[t].fields[f]
    BY <2>4, SameSummary
  <2> QED
    BY <2>5 DEF l, m
<1>4. TaskInv /\ MadeInv => Convergence
  BY <1>3
<1> QED
  BY <1>2, <1>4, TaskInvariant, PTL

=============================================================================
