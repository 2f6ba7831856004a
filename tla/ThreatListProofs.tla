-------------------------- MODULE ThreatListProofs --------------------------
(***************************************************************************)
(* The stored lists and the copy of them in memory, for all sets of        *)
(* sources, jobs and threads.                                              *)
(*                                                                         *)
(* Import: the rows of a source are one whole list or none.  The lock and  *)
(* the new staging table give the invariant that the staging table holds   *)
(* just the batches that the holder of the lock has inserted; what a failed*)
(* or crashed import left there is gone before anybody inserts again.      *)
(***************************************************************************)
EXTENDS ThreatListImport, ThreatListCache, TLAPS

\* The rows of a list from its first batch to its n-th.
Part(s, list, n, on) == {Row(s, list, b, on) : b \in 1..n}

Whole(stored, s) ==
    \/ RowsOf(stored, s) = {}
    \/ \E list \in Lists, on \in BOOLEAN : RowsOf(stored, s) = Part(s, list, Batches, on)

\* A job that inserts holds the lock and knows what the staging table holds.
\* Until then it has inserted nothing.
InsertingOK(j) ==
    job[j].step = "insert" =>
        /\ writer = j
        /\ IF job[j].list = EmptyList
             THEN staging = {}
             ELSE staging = Part(job[j].source, job[j].list, job[j].done, job[j].on)

NothingDone(j) == job[j].step \in {"begin", "download", "wait"} => job[j].done = 0

RowsOK == table \subseteq Rows /\ \A s \in Sources : Whole(table, s)

JobsOK ==
    /\ job \in [Jobs -> Imports \union {Idle}]
    /\ \A j \in Jobs : InsertingOK(j) /\ NothingDone(j)

IInv == RowsOK /\ JobsOK

USE SourcesAssumption, BatchesAssumption, JobsAssumption, NamesAssumption

-----------------------------------------------------------------------------
(* Records and rows.                                                       *)

LEMMA ImportFields ==
    ASSUME NEW r \in Imports, NEW p \in {"begin", "download", "wait", "insert", "finish"}
    PROVE  LET q == [r EXCEPT !.step = p]
           IN  /\ q \in Imports /\ q.step = p
               /\ q.source = r.source /\ q.list = r.list /\ q.done = r.done /\ q.on = r.on
BY DEF Imports

LEMMA IdleStep == Idle.step = "idle" /\ \A r \in Imports : r.step # "idle" /\ r # Idle
BY DEF Idle, Imports

LEMMA Busy ==
    ASSUME JobsOK, NEW j \in Jobs, job[j].step # "idle"
    PROVE  job[j] \in Imports
BY IdleStep DEF JobsOK

LEMMA PartZero ==
    ASSUME NEW s, NEW list, NEW on
    PROVE  Part(s, list, 0, on) = {}
BY DEF Part

LEMMA PartNext ==
    ASSUME NEW s, NEW list, NEW on, NEW n \in Nat
    PROVE  Part(s, list, n + 1, on) =
             Part(s, list, n, on) \union
               {Row(s, list, n + 1, on)}
<1>1. 1..(n + 1) = 1..n \union {n + 1}
  OBVIOUS
<1> QED
  BY <1>1 DEF Part

-----------------------------------------------------------------------------
(* The steps.                                                              *)

LEMMA InitInv == Init => IInv
BY IdleStep DEF Init, IInv, RowsOK, JobsOK, InsertingOK, NothingDone, Whole, RowsOf, Idle

\* A job goes to a place where it neither inserts nor holds the lock.
LEMMA QuietStep ==
    ASSUME IInv, NEW j \in Jobs, NEW r \in Imports \union {Idle}, r.step # "insert",
           r.step \in {"begin", "download", "wait"} => r.done = 0,
           job' = [job EXCEPT ![j] = r], UNCHANGED <<table, staging>>,
           writer' = writer \/ writer = j
    PROVE  IInv'
<1>1. RowsOK'
  BY DEF IInv, RowsOK, Whole, RowsOf
<1>2. job' \in [Jobs -> Imports \union {Idle}]
  BY DEF IInv, JobsOK
<1>3. ASSUME NEW k \in Jobs PROVE InsertingOK(k)' /\ NothingDone(k)'
  <2>1. CASE k = j
    BY <2>1 DEF IInv, JobsOK, InsertingOK, NothingDone
  <2>2. CASE k # j
    <3>1. job'[k] = job[k]
      BY <2>2 DEF IInv, JobsOK
    <3>2. job[k].step = "insert" => writer' = writer
      BY <2>2 DEF IInv, JobsOK, InsertingOK
    <3> QED
      BY <3>1, <3>2 DEF IInv, JobsOK, InsertingOK, NothingDone
  <2> QED
    BY <2>1, <2>2
<1> QED
  BY <1>1, <1>2, <1>3 DEF IInv, JobsOK

LEMMA StartSteps ==
    ASSUME IInv,
           \/ \E s \in Sources, on \in BOOLEAN, j \in Jobs : BeginCheck(j, s, on)
           \/ \E s \in Sources : AutoUpdate(s) \/ AutoSkip(s)
           \/ AutoRound
    PROVE  IInv'
<1>1. ASSUME NEW s \in Sources, NEW on \in BOOLEAN, NEW p \in {"begin", "download"}
      PROVE  LET r == Order(s, on, p)
             IN  r \in Imports /\ r.step = p /\ r.done = 0
  BY <1>1 DEF Order, Imports
<1>2. ASSUME NEW s \in Sources, NEW on \in BOOLEAN, NEW j \in Jobs, BeginCheck(j, s, on)
      PROVE  IInv'
  BY <1>1, <1>2, QuietStep DEF BeginCheck
<1>3. ASSUME NEW s \in Sources, AutoUpdate(s) PROVE IInv'
  BY <1>1, <1>3, QuietStep DEF AutoUpdate, Jobs
<1>4. CASE AutoRound \/ \E s \in Sources : AutoSkip(s)
  BY <1>4 DEF AutoRound, AutoSkip, IInv, RowsOK, JobsOK, InsertingOK, NothingDone, Whole, RowsOf
<1> QED
  BY <1>2, <1>3, <1>4

LEMMA QuietSteps ==
    ASSUME IInv, NEW j \in Jobs,
           \/ BeginMark(j) \/ Fails(j) \/ Finish(j)
           \/ \E list \in Lists \union {EmptyList} : Download(j, list)
    PROVE  IInv'
<1>1. CASE BeginMark(j)
  <2>1. job[j] \in Imports /\ job[j].done = 0
    BY <1>1, Busy DEF BeginMark, Doing, IInv, JobsOK, NothingDone
  <2> QED
    BY <1>1, <2>1, ImportFields, QuietStep DEF BeginMark, Go
<1>2. CASE Fails(j)
  <2>1. writer' = writer \/ writer = j
    BY <1>2 DEF Fails
  <2> QED
    BY <1>2, <2>1, IdleStep, QuietStep DEF Fails, Leave
<1>3. CASE Finish(j)
  BY <1>3, IdleStep, QuietStep DEF Finish, Leave
<1>4. ASSUME NEW list \in Lists \union {EmptyList}, Download(j, list) PROVE IInv'
  <2> DEFINE r == [job[j] EXCEPT !.step = "wait", !.list = list]
  <2>1. job[j] \in Imports /\ job[j].done = 0
    BY <1>4, Busy DEF Download, Doing, IInv, JobsOK, NothingDone
  <2>2. r \in Imports /\ r.step = "wait" /\ r.done = 0
    BY <2>1 DEF Imports
  <2>3. job' = [job EXCEPT ![j] = r] /\ UNCHANGED <<table, staging, writer>>
    BY <1>4 DEF Download
  <2> HIDE DEF r
  <2> QED
    BY <2>2, <2>3, QuietStep
<1> QED
  BY <1>1, <1>2, <1>3, <1>4

LEMMA LockStep ==
    ASSUME IInv, NEW j \in Jobs, Lock(j)
    PROVE  IInv'
<1> DEFINE r == [job[j] EXCEPT !.step = "insert"]
<1>1. job[j] \in Imports /\ job[j].done = 0
  BY Busy DEF Lock, Doing, IInv, JobsOK, NothingDone
<1>2. r \in Imports /\ r.step = "insert" /\ r.done = 0
  BY <1>1, ImportFields
<1>3. job' = [job EXCEPT ![j] = r] /\ staging' = {} /\ writer' = j /\ UNCHANGED table
  BY DEF Lock, Go
<1> HIDE DEF r
<1>4. \A k \in Jobs : job[k].step # "insert"
  BY DEF Lock, IInv, JobsOK, InsertingOK
<1>5. RowsOK'
  BY <1>3 DEF IInv, RowsOK, Whole, RowsOf
<1>6. job' \in [Jobs -> Imports \union {Idle}] /\ job'[j] = r /\ \A k \in Jobs \ {j} : job'[k] = job[k]
  BY <1>2, <1>3 DEF IInv, JobsOK
<1>7. InsertingOK(j)' /\ NothingDone(j)'
  <2>1. Part(r.source, r.list, r.done, r.on) = {}
    BY <1>2, PartZero
  <2> QED
    BY <1>2, <1>3, <1>6, <2>1 DEF InsertingOK, NothingDone
<1>8. \A k \in Jobs \ {j} : InsertingOK(k)' /\ NothingDone(k)'
  BY <1>4, <1>6 DEF IInv, JobsOK, InsertingOK, NothingDone
<1> QED
  BY <1>5, <1>6, <1>7, <1>8 DEF IInv, JobsOK

LEMMA InsertStep ==
    ASSUME IInv, NEW j \in Jobs, InsertBatch(j)
    PROVE  IInv'
<1> DEFINE q == job[j]
           n == q.done + 1
           r == [q EXCEPT !.done = n]
<1>1. q \in Imports /\ q.step = "insert" /\ q.list # EmptyList /\ q.done \in Nat /\ n \in 0..Batches
  BY Busy DEF InsertBatch, Doing, IInv, Imports
<1>2. /\ r \in Imports /\ r.step = "insert" /\ r.done = n
      /\ r.source = q.source /\ r.list = q.list /\ r.on = q.on
  BY <1>1 DEF Imports
<1>3. /\ job' = [job EXCEPT ![j] = r] /\ UNCHANGED <<writer, table>>
      /\ staging' = staging \union {Row(q.source, q.list, n, q.on)}
  BY DEF InsertBatch
<1>4. writer = j /\ staging = Part(q.source, q.list, q.done, q.on)
  BY <1>1 DEF IInv, JobsOK, InsertingOK
<1>5. staging' = Part(q.source, q.list, n, q.on)
  BY <1>1, <1>3, <1>4, PartNext
<1>6. \A k \in Jobs \ {j} : job[k].step # "insert"
  BY <1>4 DEF IInv, JobsOK, InsertingOK
<1> HIDE DEF r, q, n
<1>7. RowsOK'
  BY <1>3 DEF IInv, RowsOK, Whole, RowsOf
<1>8. job' \in [Jobs -> Imports \union {Idle}] /\ job'[j] = r /\ \A k \in Jobs \ {j} : job'[k] = job[k]
  BY <1>2, <1>3 DEF IInv, JobsOK
<1>9. InsertingOK(j)' /\ NothingDone(j)'
  BY <1>1, <1>2, <1>3, <1>4, <1>5, <1>8 DEF InsertingOK, NothingDone
<1>10. \A k \in Jobs \ {j} : InsertingOK(k)' /\ NothingDone(k)'
  BY <1>6, <1>8 DEF IInv, JobsOK, InsertingOK, NothingDone
<1> QED
  BY <1>7, <1>8, <1>9, <1>10 DEF IInv, JobsOK

LEMMA SwapStep ==
    ASSUME IInv, NEW j \in Jobs, Swap(j)
    PROVE  IInv' /\ \A t \in Sources \ {job[j].source} : RowsOf(table', t) = RowsOf(table, t)
<1> DEFINE q == job[j]
           r == [q EXCEPT !.step = "finish"]
<1>1. q \in Imports /\ q.step = "insert"
  BY Busy DEF Swap, Doing, IInv
<1>2. q.source \in Sources /\ q.list \in Lists \union {EmptyList} /\ q.on \in BOOLEAN
  BY <1>1 DEF Imports
<1>3. r \in Imports /\ r.step = "finish"
  BY <1>1, ImportFields
<1>4. /\ job' = [job EXCEPT ![j] = r]
      /\ table' = (table \ RowsOf(table, q.source)) \union staging
  BY DEF Swap, Go
<1>5. /\ writer = j
      /\ staging = {} \/ (q.list \in Lists /\ staging = Part(q.source, q.list, Batches, q.on))
  <2>1. /\ writer = j
        /\ q.list = EmptyList => staging = {}
        /\ q.list # EmptyList => staging = Part(q.source, q.list, q.done, q.on)
    BY <1>1 DEF IInv, JobsOK, InsertingOK
  <2>2. q.list = EmptyList \/ q.done = Batches
    BY DEF Swap, AllInserted
  <2> HIDE DEF q, r
  <2> QED
    BY <1>2, <2>1, <2>2
<1>6. \A k \in Jobs \ {j} : job[k].step # "insert"
  BY <1>5 DEF IInv, JobsOK, InsertingOK
<1> HIDE DEF r, q
<1>7. \A row \in staging : row \in Rows /\ row.source = q.source
  BY <1>2, <1>5 DEF Part, Row, Rows
<1>8. \A t \in Sources \ {q.source} : RowsOf(table', t) = RowsOf(table, t)
  BY <1>4, <1>7 DEF RowsOf
<1>9. RowsOK'
  <2>1. table' \subseteq Rows
    BY <1>4, <1>7 DEF IInv, RowsOK
  <2>2. RowsOf(table', q.source) = staging
    BY <1>4, <1>7 DEF RowsOf
  <2>3. Whole(table', q.source)
    BY <1>2, <1>5, <2>2 DEF Whole
  <2>4. \A t \in Sources \ {q.source} : Whole(table', t)
    BY <1>8 DEF Whole, IInv, RowsOK
  <2> QED
    BY <2>1, <2>3, <2>4 DEF RowsOK
<1>10. job' \in [Jobs -> Imports \union {Idle}] /\ job'[j] = r /\ \A k \in Jobs \ {j} : job'[k] = job[k]
  BY <1>3, <1>4 DEF IInv, JobsOK
<1>11. \A k \in Jobs : InsertingOK(k)' /\ NothingDone(k)'
  BY <1>3, <1>6, <1>10 DEF IInv, JobsOK, InsertingOK, NothingDone
<1>12. IInv'
  BY <1>9, <1>10, <1>11 DEF IInv, JobsOK
<1> QED
  BY <1>8, <1>12 DEF q

\* A switch turns all the rows of the source, and keeps which they are.
LEMMA SwitchStep ==
    ASSUME IInv, NEW s \in Sources, NEW on \in BOOLEAN, Switch(s, on)
    PROVE  IInv' /\ \A t \in Sources \ {s} : RowsOf(table', t) = RowsOf(table, t)
<1> DEFINE Turn(r) == IF r.source = s THEN [r EXCEPT !.on = on] ELSE r
<1>1. table' = {Turn(r) : r \in table}
  BY DEF Switch
<1>2. \A r \in table : Turn(r) \in Rows /\ Turn(r).source = r.source
  BY DEF IInv, RowsOK, Rows
<1>3. \A list, n, was : Turn(Row(s, list, n, was)) = Row(s, list, n, on)
  BY DEF Row
<1>4. \A r : r.source # s => Turn(r) = r
  OBVIOUS
<1> HIDE DEF Turn
<1>5. \A t : RowsOf(table', t) = {Turn(r) : r \in RowsOf(table, t)}
  BY <1>1, <1>2 DEF RowsOf
<1>6. Whole(table', s)
  <2>1. ASSUME NEW list \in Lists, NEW was \in BOOLEAN, RowsOf(table, s) = Part(s, list, Batches, was)
        PROVE  RowsOf(table', s) = Part(s, list, Batches, on)
    BY <1>3, <1>5, <2>1 DEF Part
  <2>2. RowsOf(table, s) = {} => RowsOf(table', s) = {}
    BY <1>5
  <2> QED
    BY <2>1, <2>2 DEF Whole, IInv, RowsOK
<1>7. \A t \in Sources \ {s} : RowsOf(table', t) = RowsOf(table, t)
  BY <1>4, <1>5 DEF RowsOf
<1>8. \A t \in Sources \ {s} : Whole(table', t)
  BY <1>7 DEF Whole, IInv, RowsOK
<1>9. RowsOK'
  BY <1>1, <1>2, <1>6, <1>8 DEF RowsOK
<1>10. JobsOK'
  BY DEF Switch, IInv, JobsOK, InsertingOK, NothingDone
<1> QED
  BY <1>7, <1>9, <1>10 DEF IInv

LEMMA DeleteStep ==
    ASSUME IInv, NEW s \in Sources, Delete(s)
    PROVE  IInv' /\ \A t \in Sources \ {s} : RowsOf(table', t) = RowsOf(table, t)
<1>1. \A t \in Sources : RowsOf(table', t) = IF t = s THEN {} ELSE RowsOf(table, t)
  BY DEF Delete, RowsOf
<1>2. RowsOK'
  BY <1>1 DEF Delete, IInv, RowsOK, Whole
<1>3. JobsOK'
  BY DEF Delete, IInv, JobsOK, InsertingOK, NothingDone
<1> QED
  BY <1>1, <1>2, <1>3 DEF IInv

LEMMA CrashStep == IInv /\ Crash => IInv'
BY IdleStep DEF Crash, IInv, RowsOK, JobsOK, InsertingOK, NothingDone, Whole, RowsOf

LEMMA NextInv == IInv /\ [Next]_vars => IInv'
<1>1. IInv /\ UNCHANGED vars => IInv'
  BY DEF vars, IInv, RowsOK, JobsOK, InsertingOK, NothingDone, Whole, RowsOf
<1>2. ASSUME IInv, NEW j \in Jobs, Import(j) PROVE IInv'
  BY <1>2, QuietSteps, LockStep, InsertStep, SwapStep DEF Import
<1> QED
  BY <1>1, <1>2, StartSteps, SwitchStep, DeleteStep, CrashStep DEF Next

\* No step changes the rows of two sources.
LEMMA OneSource ==
    ASSUME IInv, [Next]_vars
    PROVE  \A s, t \in Sources :
             s # t /\ RowsOf(table', s) # RowsOf(table, s) => RowsOf(table', t) = RowsOf(table, t)
<1> DEFINE Only(x) == \A t \in Sources \ {x} : RowsOf(table', t) = RowsOf(table, t)
<1>1. ASSUME NEW j \in Jobs, Import(j) PROVE table' = table \/ Only(job[j].source)
  <2>1. CASE Swap(j)
    BY <2>1, SwapStep
  <2>2. CASE ~Swap(j)
    BY <1>1, <2>2 DEF Import, BeginMark, Download, Fails, Lock, InsertBatch, Finish
  <2> QED
    BY <2>1, <2>2
<1>2. ASSUME NEW s \in Sources, NEW on \in BOOLEAN, Switch(s, on) PROVE Only(s)
  BY <1>2, SwitchStep
<1>3. ASSUME NEW s \in Sources, Delete(s) PROVE Only(s)
  BY <1>3, DeleteStep
<1>4. ASSUME \/ \E s \in Sources, on \in BOOLEAN, j \in Jobs : BeginCheck(j, s, on)
             \/ AutoRound \/ (\E s \in Sources : AutoSkip(s) \/ AutoUpdate(s))
             \/ Crash \/ UNCHANGED vars
      PROVE  table' = table
  BY <1>4 DEF BeginCheck, AutoRound, AutoSkip, AutoUpdate, Crash, vars
<1>5. table' = table \/ \E x : Only(x)
  <2> HIDE DEF Only
  <2> QED
    BY <1>1, <1>2, <1>3, <1>4 DEF Next
<1> QED
  BY <1>5

\* Whatever jobs run at the same time and wherever they fail, a step that
\* changes the rows of a source leaves those of every other alone: what is
\* swapped in holds rows of the job's own source only.
THEOREM ImportsKeepApart == Spec => OthersUntouched
<1>1. IInv /\ [Next]_vars =>
        \A s, t \in Sources :
           s # t /\ RowsOf(table, s)' # RowsOf(table, s) => RowsOf(table, t)' = RowsOf(table, t)
  <2> SUFFICES ASSUME IInv, [Next]_vars, NEW s \in Sources, NEW t \in Sources,
                      s # t, RowsOf(table, s)' # RowsOf(table, s)
               PROVE  RowsOf(table, t)' = RowsOf(table, t)
    OBVIOUS
  <2>1. \A x \in Sources : RowsOf(table, x)' = RowsOf(table', x)
    BY DEF RowsOf
  <2> QED
    BY <2>1, OneSource
<1> QED
  BY <1>1, InitInv, NextInv, PTL DEF Spec, OthersUntouched

\* For all sets of sources, lists and jobs: domains are always matched
\* against whole lists.
THEOREM ListsAreWhole == Spec => []WholeLists
<1>1. IInv => WholeLists
  BY DEF IInv, RowsOK, Whole, Part, WholeLists
<1> QED
  BY <1>1, InitInv, NextInv, PTL DEF Spec

-----------------------------------------------------------------------------
(***************************************************************************)
(* Memory.  For any number of changes: the table is loaded by one          *)
(* thread at a time and never over a dictionary in place, and outside a    *)
(* load two dictionaries in place come from one load.  The lock alone does *)
(* not give this, as invalidate ignores it: the invariant says in addition *)
(* what the loader has stored between its two assignments, unless a drop   *)
(* has removed it.                                                         *)
(***************************************************************************)

Places == {"idle", "wait", "check", "read", "domains", "ips", "match", "failed"}
Locked == {"check", "read", "domains", "ips"}

\* The threads of the locked section hold the lock, and a held lock is held
\* by a thread of that section.
LockInv ==
    /\ \A r \in Readers : at[r][1] \in Locked => holder = r
    /\ holder # NoReader => at[holder][1] \in Locked

\* A thread that reads or is to store the domains finds none in place; the
\* one that has stored them left its own, unless they were dropped.
LoadInv ==
    \A r \in Readers :
        /\ Is(r, "read") \/ Is(r, "domains") => domains = None
        /\ Is(r, "ips") => domains \in {None, rows[r]}

\* Before the loader comes to its assignments the dictionaries are as the
\* load before left them.
VersionInv ==
    (\A r \in Readers : ~Is(r, "ips")) /\ domains # None /\ ips # None => domains = ips

CacheInv == CacheTypeOK /\ LockInv /\ LoadInv /\ VersionInv

USE MaxVersionAssumption, NoReaderAssumption DEF None, NoReader, Is

LEMMA CacheInitInv == CacheInit => CacheInv
BY DEF CacheInit, CacheInv, CacheTypeOK, LockInv, LoadInv, VersionInv, Kinds, NoReader, Locked

\* Steps of a thread that leaves the dictionaries, the lock and what it has
\* read alone, and that neither comes from nor goes to the locked section.
LEMMA OutsideLock ==
    ASSUME CacheInv, NEW r \in Readers, NEW p \in Places \ Locked, NEW k \in Kinds,
           at[r][1] \notin Locked, at' = [at EXCEPT ![r] = <<p, k>>],
           UNCHANGED <<version, domains, ips, holder, rows, clearing>>
    PROVE  CacheInv'
<1>1. CacheTypeOK'
  BY DEF CacheInv, CacheTypeOK, Places
<1>2. LockInv'
  BY DEF CacheInv, LockInv, CacheTypeOK, Kinds
<1>3. LoadInv'
  BY DEF CacheInv, LoadInv, CacheTypeOK, Locked
<1>4. VersionInv'
  BY DEF CacheInv, VersionInv, CacheTypeOK, Locked
<1> QED
  BY <1>1, <1>2, <1>3, <1>4 DEF CacheInv

LEMMA ReaderSteps ==
    ASSUME CacheInv, NEW r \in Readers,
           (\E k \in Kinds : Start(r, k)) \/ Loading(r) \/ ReadFails(r) \/ Match(r)
    PROVE  CacheInv'
<1> USE DEF CacheInv
<1>1. ASSUME NEW k \in Kinds, Start(r, k) PROVE CacheInv'
  BY <1>1, OutsideLock DEF Start, Places, Locked
<1>2. CASE Acquire(r)
  <2>1. CacheTypeOK'
    BY <1>2 DEF Acquire, GoTo, CacheTypeOK
  <2>2. at'[r][1] = "check" /\ \A q \in Readers \ {r} : at'[q] = at[q]
    BY <1>2 DEF Acquire, GoTo, CacheTypeOK
  <2>3. \A q \in Readers : at[q][1] \notin Locked
    BY <1>2 DEF Acquire, LockInv
  <2>4. LockInv'
    BY <1>2, <2>2, <2>3 DEF Acquire, LockInv, Locked
  <2>5. LoadInv'
    BY <1>2, <2>2 DEF Acquire, LoadInv
  <2>6. VersionInv'
    BY <1>2, <2>2, <2>3 DEF Acquire, VersionInv, Locked
  <2> QED
    BY <2>1, <2>4, <2>5, <2>6
<1>3. CASE Recheck(r)
  <2>1. CacheTypeOK'
    BY <1>3 DEF Recheck, GoTo, CacheTypeOK
  <2>2. \A q \in Readers \ {r} : at'[q] = at[q]
    BY <1>3 DEF Recheck, GoTo, CacheTypeOK
  <2>3. \/ domains # None /\ at'[r][1] = "match" /\ holder' = NoReader
        \/ domains = None /\ at'[r][1] = "read" /\ holder' = holder
    BY <1>3 DEF Recheck, GoTo, CacheTypeOK
  <2>4. holder = r /\ \A q \in Readers \ {r} : at[q][1] \notin Locked
    BY <1>3 DEF Recheck, LockInv, Locked
  <2>5. LockInv'
    BY <2>2, <2>3, <2>4 DEF LockInv, Locked
  <2>6. LoadInv'
    BY <1>3, <2>2, <2>3 DEF Recheck, LoadInv
  <2>7. VersionInv'
    BY <1>3, <2>2, <2>3, <2>4 DEF Recheck, VersionInv, Locked
  <2> QED
    BY <2>1, <2>5, <2>6, <2>7
<1>4. CASE ReadRows(r)
  <2>1. CacheTypeOK'
    BY <1>4 DEF ReadRows, GoTo, CacheTypeOK
  <2>2. at'[r][1] = "domains" /\ \A q \in Readers \ {r} : at'[q] = at[q] /\ rows'[q] = rows[q]
    BY <1>4 DEF ReadRows, GoTo, CacheTypeOK
  <2>3. holder = r /\ \A q \in Readers \ {r} : at[q][1] \notin Locked
    BY <1>4 DEF ReadRows, LockInv, Locked
  <2>4. LockInv'
    BY <1>4, <2>2, <2>3 DEF ReadRows, LockInv, Locked
  <2>5. LoadInv'
    BY <1>4, <2>2 DEF ReadRows, LoadInv
  <2>6. VersionInv'
    BY <1>4, <2>2, <2>3 DEF ReadRows, VersionInv, Locked
  <2> QED
    BY <2>1, <2>4, <2>5, <2>6
<1>5. CASE StoreDomains(r)
  <2>1. CacheTypeOK'
    BY <1>5 DEF StoreDomains, GoTo, CacheTypeOK
  <2>2. at'[r][1] = "ips" /\ \A q \in Readers \ {r} : at'[q] = at[q]
    BY <1>5 DEF StoreDomains, GoTo, CacheTypeOK
  <2>3. holder = r /\ \A q \in Readers \ {r} : at[q][1] \notin Locked
    BY <1>5 DEF StoreDomains, LockInv, Locked
  <2>4. LockInv'
    BY <1>5, <2>2, <2>3 DEF StoreDomains, LockInv, Locked
  <2>5. LoadInv'
    BY <1>5, <2>2, <2>3 DEF StoreDomains, LoadInv, Locked
  <2>6. VersionInv'
    BY <2>2 DEF VersionInv
  <2> QED
    BY <2>1, <2>4, <2>5, <2>6
<1>6. CASE StoreIps(r)
  <2>1. CacheTypeOK'
    BY <1>6 DEF StoreIps, GoTo, CacheTypeOK
  <2>2. at'[r][1] = "match" /\ \A q \in Readers \ {r} : at'[q] = at[q]
    BY <1>6 DEF StoreIps, GoTo, CacheTypeOK
  <2>3. holder = r /\ \A q \in Readers \ {r} : at[q][1] \notin Locked
    BY <1>6 DEF StoreIps, LockInv, Locked
  <2>4. LockInv'
    BY <1>6, <2>2, <2>3 DEF StoreIps, LockInv, Locked
  <2>5. LoadInv'
    BY <1>6, <2>2 DEF StoreIps, LoadInv
  <2>6. VersionInv'
    BY <1>6 DEF StoreIps, LoadInv, VersionInv
  <2> QED
    BY <2>1, <2>4, <2>5, <2>6
<1>7. CASE ReadFails(r)
  <2>1. CacheTypeOK'
    BY <1>7 DEF ReadFails, GoTo, CacheTypeOK
  <2>2. at'[r][1] = "failed" /\ \A q \in Readers \ {r} : at'[q] = at[q]
    BY <1>7 DEF ReadFails, GoTo, CacheTypeOK
  <2>3. holder = r /\ \A q \in Readers \ {r} : at[q][1] \notin Locked
    BY <1>7 DEF ReadFails, LockInv, Locked
  <2>4. LockInv'
    BY <1>7, <2>2, <2>3 DEF ReadFails, LockInv, Locked
  <2>5. LoadInv'
    BY <1>7, <2>2 DEF ReadFails, LoadInv
  <2>6. VersionInv'
    BY <1>7, <2>2, <2>3 DEF ReadFails, VersionInv, Locked
  <2> QED
    BY <2>1, <2>4, <2>5, <2>6
<1>8. CASE Match(r)
  <2>1. at[r][2] \in Kinds /\ at[r][1] \notin Locked
    BY <1>8 DEF Match, CacheTypeOK, Locked
  <2>2. PICK p \in {"idle", "failed"} : at' = [at EXCEPT ![r] = <<p, at[r][2]>>]
    BY <1>8 DEF Match, GoTo
  <2> QED
    BY <1>8, <2>1, <2>2, OutsideLock DEF Match, Places, Locked
<1> QED
  BY <1>1, <1>2, <1>3, <1>4, <1>5, <1>6, <1>7, <1>8 DEF Loading

\* A drop may fall anywhere in a load: it only ever removes a dictionary.
LEMMA WriterSteps ==
    ASSUME CacheInv, NEW w \in Writers, Change(w) \/ DropDomains(w) \/ DropIps(w)
    PROVE  CacheInv'
<1>1. CASE Change(w)
  <2>1. CacheTypeOK'
    BY <1>1 DEF CacheInv, Change, CacheTypeOK
  <2> QED
    BY <1>1, <2>1 DEF CacheInv, Change, LockInv, LoadInv, VersionInv
<1>2. CASE DropDomains(w)
  <2>1. CacheTypeOK'
    BY <1>2 DEF CacheInv, DropDomains, CacheTypeOK
  <2> QED
    BY <1>2, <2>1 DEF CacheInv, DropDomains, LockInv, LoadInv, VersionInv
<1>3. CASE DropIps(w)
  <2>1. CacheTypeOK'
    BY <1>3 DEF CacheInv, DropIps, CacheTypeOK
  <2> QED
    BY <1>3, <2>1 DEF CacheInv, DropIps, LockInv, LoadInv, VersionInv
<1> QED
  BY <1>1, <1>2, <1>3

LEMMA CacheNextInv == CacheInv /\ [CacheNext]_cacheVars => CacheInv'
<1>1. CacheInv /\ UNCHANGED cacheVars => CacheInv'
  BY DEF cacheVars, CacheInv, CacheTypeOK, LockInv, LoadInv, VersionInv
<1> QED
  BY <1>1, ReaderSteps, WriterSteps DEF CacheNext

\* Each load is the only one, and not made over a dictionary in place.
THEOREM LoadsAreSingle == CacheSpec => []LoadedOnce
<1>1. CacheInv => LoadedOnce
  BY DEF CacheInv, LockInv, LoadInv, LoadedOnce, Locked
<1> QED
  BY <1>1, CacheInitInv, CacheNextInv, PTL DEF CacheSpec

\* Domain and address lookups are answered from one version of the lists.
THEOREM OneVersion == CacheSpec => []SameVersion
<1>1. CacheInv => SameVersion
  BY DEF CacheInv, LockInv, VersionInv, SameVersion, Locked
<1> QED
  BY <1>1, CacheInitInv, CacheNextInv, PTL DEF CacheSpec

=============================================================================
