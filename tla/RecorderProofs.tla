--------------------------- MODULE RecorderProofs ---------------------------
(***************************************************************************)
(* The statistics of the queries and the recorders behind a queue.         *)
(*                                                                         *)
(* Statistics, for any number of threads, days and queries, as long as no  *)
(* statement fails but those of the rounds of the flusher: a crash costs   *)
(* what was counted since the last round that succeeded, and no row ever   *)
(* falls.  The count in memory is then the row of its day and what was     *)
(* counted since; and when a new day is loaded, the old one was written.   *)
(*                                                                         *)
(* Recorders, for any number of workers, names and records, and any size   *)
(* of the queue and the batch.  The invariant says where a row can be, and *)
(* that its number is the highest when it comes; that rows are stored in   *)
(* the order in which they came needs more: that only one taker has any.   *)
(***************************************************************************)
EXTENDS QueryStats, RecordQueue, FiniteSetTheorems, WellFoundedInduction, TLAPS

USE RecorderAssumption, NoNameAssumption

-----------------------------------------------------------------------------
(* Sequences without repetition.                                           *)

LEMMA Smallest ==
    ASSUME NEW T \in SUBSET Nat, T # {}
    PROVE  \E i \in T : \A j \in T : i <= j
<1>1. PICK i \in T : \A j \in T : ~ <<j, i>> \in OpToRel(<, Nat)
  BY NatLessThanWellFounded, WFMin, Zenon
<1>2. \A j \in T : ~ j < i
  BY <1>1 DEF OpToRel
<1> QED
  BY <1>2

LEMMA TailRows ==
    ASSUME NEW S, NEW q \in Seq(S), q # <<>>
    PROVE  /\ Head(q) \in S /\ Tail(q) \in Seq(S) /\ Len(Tail(q)) = Len(q) - 1
           /\ ToSet(q) = {Head(q)} \union ToSet(Tail(q))
           /\ IsInjective(q) => IsInjective(Tail(q)) /\ Head(q) \notin ToSet(Tail(q))
<1>1. /\ Head(q) = q[1] /\ Tail(q) \in Seq(S) /\ Len(Tail(q)) = Len(q) - 1
      /\ \A i \in 1..Len(q) - 1 : Tail(q)[i] = q[i + 1]
      /\ DOMAIN q = 1..Len(q) /\ DOMAIN Tail(q) = 1..Len(q) - 1 /\ Len(q) \in Nat \ {0}
  OBVIOUS
<1>2. ToSet(q) \subseteq {Head(q)} \union ToSet(Tail(q))
  <2> SUFFICES ASSUME NEW i \in 1..Len(q), i # 1 PROVE q[i] \in ToSet(Tail(q))
    BY <1>1 DEF ToSet
  <2>1. i - 1 \in DOMAIN Tail(q) /\ q[i] = Tail(q)[i - 1]
    BY <1>1
  <2> QED
    BY <2>1 DEF ToSet
<1>3. {Head(q)} \union ToSet(Tail(q)) \subseteq ToSet(q)
  BY <1>1 DEF ToSet
<1>4. ASSUME IsInjective(q) PROVE IsInjective(Tail(q)) /\ Head(q) \notin ToSet(Tail(q))
  BY <1>1, <1>4 DEF IsInjective, ToSet
<1> QED
  BY <1>1, <1>2, <1>3, <1>4

LEMMA AppendRows ==
    ASSUME NEW S, NEW q \in Seq(S), NEW e \in S
    PROVE  /\ Append(q, e) \in Seq(S) /\ Len(Append(q, e)) = Len(q) + 1
           /\ ToSet(Append(q, e)) = ToSet(q) \union {e}
           /\ IsInjective(q) /\ e \notin ToSet(q) => IsInjective(Append(q, e))
<1>1. /\ Append(q, e) \in Seq(S) /\ Len(Append(q, e)) = Len(q) + 1
      /\ \A i \in 1..Len(q) : Append(q, e)[i] = q[i]
      /\ Append(q, e)[Len(q) + 1] = e
      /\ DOMAIN q = 1..Len(q) /\ DOMAIN Append(q, e) = 1..Len(q) + 1 /\ Len(q) \in Nat
  OBVIOUS
<1> QED
  BY <1>1 DEF ToSet, IsInjective

LEMMA EmptyRows == ToSet(<<>>) = {} /\ IsInjective(<<>>)
BY DEF ToSet, IsInjective

LEMMA ApartJoined ==
    ASSUME NEW S, NEW q \in Seq(S), NEW a \in Seq(S),
           IsInjective(q), IsInjective(a), ToSet(q) \cap ToSet(a) = {}
    PROVE  q \o a \in Seq(S) /\ IsInjective(q \o a) /\ ToSet(q \o a) = ToSet(q) \union ToSet(a)
<1>1. /\ q \o a \in Seq(S) /\ Len(q \o a) = Len(q) + Len(a) /\ Len(q) \in Nat /\ Len(a) \in Nat
      /\ DOMAIN (q \o a) = 1..Len(q) + Len(a)
      /\ DOMAIN q = 1..Len(q) /\ DOMAIN a = 1..Len(a)
      /\ \A i \in 1..Len(q) : (q \o a)[i] = q[i]
      /\ \A i \in Len(q) + 1..Len(q) + Len(a) : (q \o a)[i] = a[i - Len(q)]
  OBVIOUS
<1>2. \A i \in DOMAIN (q \o a) :
        \/ i \in DOMAIN q /\ (q \o a)[i] = q[i]
        \/ i \notin DOMAIN q /\ i - Len(q) \in DOMAIN a /\ (q \o a)[i] = a[i - Len(q)]
  BY <1>1
<1>3. IsInjective(q \o a)
  <2> SUFFICES ASSUME NEW i \in DOMAIN (q \o a), NEW j \in DOMAIN (q \o a), (q \o a)[i] = (q \o a)[j]
               PROVE  i = j
    BY DEF IsInjective
  <2>1. i \in Nat /\ j \in Nat /\ Len(q) \in Nat
    BY <1>1
  <2>2. CASE i \in DOMAIN q /\ j \in DOMAIN q
    BY <1>2, <2>2 DEF IsInjective
  <2>3. CASE i \notin DOMAIN q /\ j \notin DOMAIN q
    <3>1. i - Len(q) = j - Len(q)
      BY <1>2, <2>3 DEF IsInjective
    <3> QED
      BY <2>1, <3>1
  <2>4. CASE (i \in DOMAIN q) # (j \in DOMAIN q)
    BY <1>2, <2>4 DEF ToSet
  <2> QED
    BY <2>2, <2>3, <2>4
<1>4. ToSet(q \o a) \subseteq ToSet(q) \union ToSet(a)
  BY <1>2 DEF ToSet
<1>5. ToSet(q) \subseteq ToSet(q \o a)
  BY <1>1 DEF ToSet
<1>6. ToSet(a) \subseteq ToSet(q \o a)
  <2> SUFFICES ASSUME NEW i \in DOMAIN a PROVE a[i] \in ToSet(q \o a)
    BY DEF ToSet
  <2>1. i + Len(q) \in DOMAIN (q \o a) /\ (q \o a)[i + Len(q)] = a[i]
    BY <1>1
  <2> QED
    BY <2>1 DEF ToSet
<1> QED
  BY <1>1, <1>3, <1>4, <1>5, <1>6

-----------------------------------------------------------------------------
(* The statement of a table.                                               *)

TakenRows(table, rows) == {rows[i] : i \in Taken(table, rows)}

\* Each row that is taken counts once more, the others as before.
LEMMA InsertCounts ==
    ASSUME NEW table \in [Rows -> Nat], NEW rows \in Seq(Rows), IsInjective(rows)
    PROVE  /\ Insert(table, rows) \in [Rows -> Nat]
           /\ \A r \in Rows : Insert(table, rows)[r] =
                IF r \in TakenRows(table, rows) THEN table[r] + 1 ELSE table[r]
<1> SUFFICES ASSUME NEW r \in Rows
             PROVE  Cardinality({i \in Taken(table, rows) : rows[i] = r}) =
                        IF r \in TakenRows(table, rows) THEN 1 ELSE 0
  BY DEF Insert
<1> DEFINE same == {i \in Taken(table, rows) : rows[i] = r}
<1>1. Taken(table, rows) \subseteq DOMAIN rows
  BY DEF Taken
<1>2. CASE r \in TakenRows(table, rows)
  <2>1. PICK i \in Taken(table, rows) : rows[i] = r
    BY <1>2 DEF TakenRows
  <2>2. same = {i}
    BY <1>1, <2>1 DEF IsInjective
  <2> QED
    BY <1>2, <2>2, FS_Singleton
<1>3. CASE r \notin TakenRows(table, rows)
  <2>1. same = {}
    BY <1>3 DEF TakenRows
  <2> QED
    BY <1>3, <2>1, FS_EmptySet
<1> QED
  BY <1>2, <1>3

\* The table keeps what it has, and takes rows of the batch: all of a log, of
\* each domain that is new the first.
LEMMA InsertKeeps ==
    ASSUME NEW table \in [Rows -> Nat], NEW rows \in Seq(Rows), IsInjective(rows)
    PROVE  /\ Kept(Insert(table, rows)) = Kept(table) \union TakenRows(table, rows)
           /\ TakenRows(table, rows) \subseteq ToSet(rows)
           /\ kind # "seen" => TakenRows(table, rows) = ToSet(rows)
           /\ kind = "seen" =>
                \A r \in ToSet(rows) : r[1] \in NamesOf(Insert(table, rows))
<1> DEFINE new == Insert(table, rows)
<1>1. TakenRows(table, rows) \subseteq ToSet(rows) /\ ToSet(rows) \subseteq Rows
  BY DEF TakenRows, Taken, ToSet
<1>2. Kept(new) = Kept(table) \union TakenRows(table, rows)
  BY <1>1, InsertCounts DEF Kept
<1>3. kind # "seen" => TakenRows(table, rows) = ToSet(rows)
  BY DEF TakenRows, Taken, ToSet
<1>4. ASSUME kind = "seen", NEW k \in DOMAIN rows
      PROVE  rows[k][1] \in NamesOf(new)
  <2>1. CASE rows[k][1] \in NamesOf(table)
    BY <1>2, <2>1 DEF NamesOf
  <2>2. CASE rows[k][1] \notin NamesOf(table)
    <3> DEFINE same == {i \in DOMAIN rows : rows[i][1] = rows[k][1]}
    <3>1. same \in SUBSET Nat /\ same # {}
      OBVIOUS
    <3>2. PICK i \in same : \A j \in same : i <= j
      BY <3>1, Smallest
    <3>3. i \in Taken(table, rows)
      BY <2>2, <3>2 DEF Taken
    <3>4. rows[i] \in Kept(new) /\ rows[i][1] = rows[k][1]
      BY <1>2, <3>2, <3>3 DEF TakenRows
    <3> QED
      BY <3>4 DEF NamesOf
  <2> QED
    BY <2>1, <2>2
<1>5. kind = "seen" => \A r \in ToSet(rows) : r[1] \in NamesOf(new)
  BY <1>4 DEF ToSet
<1> QED
  BY <1>1, <1>2, <1>3, <1>5

-----------------------------------------------------------------------------
(* Where the rows are.                                                     *)

\* The queue and the hands share no row and hold none twice.
Apart ==
    /\ IsInjective(queue) /\ \A t \in Takers : IsInjective(hand[t])
    /\ \A t \in Takers : ToSet(queue) \cap ToSet(hand[t]) = {}
    /\ \A t, u \in Takers : t # u => ToSet(hand[t]) \cap ToSet(hand[u]) = {}

\* What was accepted is somewhere, and what is in memory is nowhere else.
Placed ==
    /\ Held \subseteq accepted
    /\ Held \cap (lost \union Kept(stored)) = {}
    /\ \A r \in accepted \ (Held \union lost) :
        IF kind = "log" THEN r \in Kept(stored) ELSE r[1] \in NamesOf(stored)

\* Rows have the numbers that have been given: the next is new everywhere.
Counted == \A r \in accepted \union Kept(stored) : r[2] <= records[r[1]]

StoredAtMostOnce == \A r \in Rows : stored[r] <= 1

RowsInv == RecorderTypeOK /\ Apart /\ Placed /\ Counted /\ StoredAtMostOnce

LEMMA RowsInvImplies == RowsInv => StoredOnce
<1> SUFFICES ASSUME RowsInv PROVE StoredOnce
  OBVIOUS
<1> DEFINE qf == queue \o hand[Flushing]
<1>1. Flushing \in Takers /\ Exiting \in Takers /\ Flushing # Exiting
  BY DEF Takers, Flushing, Exiting
<1>2. queue \in Seq(Rows) /\ hand[Flushing] \in Seq(Rows) /\ hand[Exiting] \in Seq(Rows)
  BY <1>1 DEF RowsInv, RecorderTypeOK
<1>3. qf \in Seq(Rows) /\ IsInjective(qf) /\ ToSet(qf) = ToSet(queue) \union ToSet(hand[Flushing])
  BY <1>1, <1>2, ApartJoined DEF RowsInv, Apart
<1>4. ToSet(qf) \cap ToSet(hand[Exiting]) = {} /\ IsInjective(hand[Exiting])
  BY <1>1, <1>3 DEF RowsInv, Apart
<1> HIDE DEF qf
<1>5. IsInjective(qf \o hand[Exiting])
  BY <1>2, <1>3, <1>4, ApartJoined
<1> QED
  BY <1>5 DEF qf, RowsInv, Placed, StoredAtMostOnce, StoredOnce

LEMMA InitRows == RecorderInit => RowsInv
<1> SUFFICES ASSUME RecorderInit PROVE RowsInv
  OBVIOUS
<1>1. queue = <<>> /\ hand = [t \in Takers |-> <<>>] /\ accepted = {} /\ lost = {}
      /\ stored = [r \in Rows |-> 0]
  BY DEF RecorderInit
<1>2. RecorderTypeOK
  <2>1. step \in [Takers -> {"idle", "wait"}]
    BY DEF RecorderInit
  <2>2. putting \in [Workers -> Names \union {NoName}] /\ records \in [Names -> 0..MaxRecords]
    BY DEF RecorderInit
  <2>3. hand \in [Takers -> Seq(Rows)] /\ queue \in Seq(Rows) /\ Len(queue) = 0
    BY <1>1
  <2> QED
    <3>1. step \in [Takers -> {"idle", "wait", "take", "write", "gone", "join", "ended"}]
      BY <2>1
    <3>2. stored \in [Rows -> Nat] /\ Len(queue) <= QueueSize /\ seen \subseteq Names
      BY <1>1, <2>3 DEF RecorderInit
    <3>3. kind \in {"log", "seen"} /\ async \in BOOLEAN /\ stop \in BOOLEAN
      BY DEF RecorderInit
    <3> QED
      BY <1>1, <2>2, <2>3, <3>1, <3>2, <3>3 DEF RecorderTypeOK
<1>3. Held = {} /\ Kept(stored) = {}
  BY <1>1, EmptyRows DEF Held, InHand, Kept
<1>4. Apart
  BY <1>1, EmptyRows DEF Apart
<1>5. Placed /\ Counted /\ StoredAtMostOnce
  BY <1>1, <1>3 DEF Placed, Counted, StoredAtMostOnce
<1> QED
  BY <1>2, <1>4, <1>5 DEF RowsInv

\* The rows of a taker are in memory.
LEMMA HeldRows ==
    /\ ToSet(queue) \subseteq Held
    /\ \A t \in Takers : ToSet(hand[t]) \subseteq Held
    /\ \A r \in Held : r \in ToSet(queue) \/ \E t \in Takers : r \in ToSet(hand[t])
BY Zenon DEF Held, InHand

\* The next row of a name is nowhere yet.
LEMMA NewRowIsNew ==
    ASSUME RowsInv, NEW n \in Names, records[n] < MaxRecords
    PROVE  /\ NewRow(n) \in Rows /\ NewRow(n)[1] = n /\ NewRow(n)[2] = records[n] + 1
           /\ NewRow(n) \notin Held /\ NewRow(n) \notin accepted
           /\ NewRow(n) \notin lost /\ NewRow(n) \notin Kept(stored)
<1>1. records[n] \in 0..MaxRecords
  BY DEF RowsInv, RecorderTypeOK
<1>2. NewRow(n) = <<n, records[n] + 1>> /\ NewRow(n) \in Rows
  BY <1>1 DEF NewRow, Rows
<1>3. NewRow(n) \notin accepted /\ NewRow(n) \notin Kept(stored)
  BY <1>1, <1>2 DEF RowsInv, Counted
<1> QED
  BY <1>2, <1>3 DEF RowsInv, Placed, RecorderTypeOK

LEMMA OfferStep ==
    ASSUME RowsInv, NEW n \in Names, records[n] < MaxRecords, Offer(n),
           UNCHANGED <<kind, async, seen, step, hand, stop, stored, lost>>,
           putting' \in [Workers -> Names \union {NoName}]
    PROVE  RowsInv'
<1> DEFINE r == NewRow(n)
<1>1. /\ r \in Rows /\ r[1] = n /\ r[2] = records[n] + 1
      /\ r \notin Held /\ r \notin accepted /\ r \notin lost /\ r \notin Kept(stored)
  BY NewRowIsNew
<1>2. records' = [records EXCEPT ![n] = records[n] + 1] /\ records \in [Names -> 0..MaxRecords]
  BY DEF Offer, Numbered, RowsInv, RecorderTypeOK
<1>3. records' \in [Names -> 0..MaxRecords] /\ \A m \in Names : records[m] <= records'[m]
  BY <1>2
<1>4. records'[n] = records[n] + 1
  BY <1>2
<1> HIDE DEF r
<1>5. CASE Len(queue) < QueueSize
  <2>1. queue' = Append(queue, r) /\ accepted' = accepted \union {r} /\ queue \in Seq(Rows)
    BY <1>5 DEF Offer, r, RowsInv, RecorderTypeOK
  <2>2. /\ queue' \in Seq(Rows) /\ Len(queue') <= QueueSize
        /\ ToSet(queue') = ToSet(queue) \union {r} /\ r \notin ToSet(queue)
        /\ IsInjective(queue')
    <3>1. r \notin ToSet(queue) /\ IsInjective(queue)
      BY <1>1, HeldRows DEF RowsInv, Apart
    <3> QED
      BY <1>1, <1>5, <2>1, <3>1, AppendRows
  <2>3. Held' = Held \union {r} /\ Kept(stored') = Kept(stored)
    BY <2>2 DEF Held, InHand
  <2>4. RecorderTypeOK'
    BY <1>1, <1>3, <2>1, <2>2 DEF RowsInv, RecorderTypeOK
  <2>5. Apart'
    <3>1. hand' = hand
      OBVIOUS
    <3>2. \A t \in Takers : ToSet(queue') \cap ToSet(hand[t]) = {}
      BY <1>1, <2>2, HeldRows DEF RowsInv, Apart
    <3> QED
      BY <2>2, <3>1, <3>2 DEF RowsInv, Apart
  <2>6. Placed'
    BY <1>1, <2>1, <2>3 DEF RowsInv, Placed, NamesOf
  <2>7. Counted'
    <3> SUFFICES ASSUME NEW s \in accepted' \union Kept(stored') PROVE s[2] <= records'[s[1]]
      BY DEF Counted
    <3>1. CASE s = r
      BY <1>1, <1>2, <1>4, <3>1
    <3>2. CASE s # r
      <4>1. s \in accepted \union Kept(stored) /\ s \in Rows
        BY <2>1, <2>3, <3>2 DEF RowsInv, RecorderTypeOK, Kept
      <4>2. s[1] \in Names /\ s[2] \in Nat /\ s[2] <= records[s[1]]
        BY <4>1 DEF RowsInv, Counted, Rows
      <4> QED
        BY <1>2, <1>3, <4>2
    <3> QED
      BY <3>1, <3>2
  <2> QED
    BY <2>4, <2>5, <2>6, <2>7 DEF RowsInv, StoredAtMostOnce
<1>6. CASE ~(Len(queue) < QueueSize)
  <2>1. UNCHANGED <<queue, accepted, hand, lost, stored, kind>>
    BY <1>6 DEF Offer
  <2>2. RecorderTypeOK'
    BY <1>3, <2>1 DEF RowsInv, RecorderTypeOK
  <2>3. Apart' /\ Placed' /\ StoredAtMostOnce'
    BY <2>1 DEF RowsInv, Apart, Placed, StoredAtMostOnce, Held, InHand, NamesOf, Kept
  <2>4. Counted'
    <3> SUFFICES ASSUME NEW s \in accepted \union Kept(stored) PROVE s[2] <= records'[s[1]]
      BY <2>1 DEF Counted, Kept
    <3>1. s \in Rows /\ s[2] <= records[s[1]]
      BY DEF RowsInv, RecorderTypeOK, Kept, Counted
    <3>2. s[1] \in Names /\ s[2] \in Nat
      BY <3>1 DEF Rows
    <3> QED
      BY <1>2, <1>3, <3>1, <3>2
  <2> QED
    BY <2>2, <2>3, <2>4 DEF RowsInv
<1> QED
  BY <1>5, <1>6

\* Steps that move no row.
LEMMA StillStep ==
    ASSUME RowsInv, RecorderTypeOK',
           UNCHANGED <<kind, queue, hand, stored, records, accepted, lost>>
    PROVE  RowsInv'
BY DEF RowsInv, Apart, Placed, Counted, StoredAtMostOnce, Held, InHand, Kept, NamesOf

LEMMA StillSteps ==
    ASSUME RowsInv,
           \/ \E w \in Workers, n \in Names : Notice(w, n)
           \/ SwitchAsync \/ Wake \/ Stop \/ Join
           \/ \E t \in Takers : EndTake(t)
           \/ UNCHANGED recordVars
    PROVE  RowsInv'
<1>1. RecorderTypeOK
  BY DEF RowsInv
<1>2. ASSUME NEW w \in Workers, NEW n \in Names, Notice(w, n) PROVE RowsInv'
  BY <1>1, <1>2, StillStep DEF Notice, RecorderTypeOK
<1>3. CASE SwitchAsync
  BY <1>1, <1>3, StillStep DEF SwitchAsync, RecorderTypeOK
<1>4. CASE Wake
  BY <1>1, <1>4, StillStep DEF Wake, RecorderTypeOK
<1>5. CASE Stop
  BY <1>1, <1>5, StillStep DEF Stop, RecorderTypeOK
<1>6. CASE Join
  BY <1>1, <1>6, StillStep DEF Join, RecorderTypeOK
<1>7. ASSUME NEW t \in Takers, EndTake(t) PROVE RowsInv'
  BY <1>1, <1>7, StillStep DEF EndTake, After, RecorderTypeOK
<1>8. CASE UNCHANGED recordVars
  BY <1>1, <1>8, StillStep DEF recordVars, RecorderTypeOK
<1> QED
  BY <1>2, <1>3, <1>4, <1>5, <1>6, <1>7, <1>8

LEMMA TakeStep ==
    ASSUME RowsInv, NEW t \in Takers, Take(t)
    PROVE  RowsInv'
<1> DEFINE r == Head(queue)
<1>1. /\ queue \in Seq(Rows) /\ queue # <<>> /\ hand \in [Takers -> Seq(Rows)]
      /\ queue' = Tail(queue) /\ hand' = [hand EXCEPT ![t] = Append(hand[t], r)]
      /\ UNCHANGED <<kind, async, seen, putting, step, stop, stored, records, accepted, lost>>
  BY DEF Take, RowsInv, RecorderTypeOK
<1>2. IsInjective(queue) /\ IsInjective(hand[t]) /\ ToSet(queue) \cap ToSet(hand[t]) = {}
  BY DEF RowsInv, Apart
<1>3. /\ r \in Rows /\ queue' \in Seq(Rows) /\ Len(queue') = Len(queue) - 1
      /\ ToSet(queue) = {r} \union ToSet(queue')
      /\ IsInjective(queue') /\ r \notin ToSet(queue')
  BY <1>1, <1>2, TailRows
<1> HIDE DEF r
<1>4. r \notin ToSet(hand[t]) /\ hand[t] \in Seq(Rows) /\ hand'[t] = Append(hand[t], r)
  BY <1>1, <1>2, <1>3
<1>5. hand'[t] \in Seq(Rows) /\ ToSet(hand'[t]) = ToSet(hand[t]) \union {r} /\ IsInjective(hand'[t])
  BY <1>2, <1>3, <1>4, AppendRows
<1>6. \A u \in Takers : u # t => hand'[u] = hand[u]
  BY <1>1
<1>7. RecorderTypeOK'
  <2>1. hand' \in [Takers -> Seq(Rows)]
    BY <1>1, <1>3, <1>5
  <2>2. Len(queue') <= QueueSize
    BY <1>1, <1>3 DEF RowsInv, RecorderTypeOK
  <2> QED
    BY <1>1, <1>3, <2>1, <2>2 DEF RowsInv, RecorderTypeOK
<1>8. Apart'
  <2>1. \A u \in Takers : IsInjective(hand'[u])
    BY <1>5, <1>6 DEF RowsInv, Apart
  <2>2. \A u \in Takers : ToSet(queue') \cap ToSet(hand'[u]) = {}
    <3> TAKE u \in Takers
    <3>1. ToSet(queue) \cap ToSet(hand[u]) = {}
      BY DEF RowsInv, Apart
    <3> QED
      BY <1>3, <1>5, <1>6, <3>1
  <2>3. \A u, v \in Takers : u # v => ToSet(hand'[u]) \cap ToSet(hand'[v]) = {}
    <3> SUFFICES ASSUME NEW u \in Takers, NEW v \in Takers, u # v
                 PROVE  ToSet(hand'[u]) \cap ToSet(hand'[v]) = {}
      OBVIOUS
    <3>1. /\ ToSet(hand[u]) \cap ToSet(hand[v]) = {}
          /\ ToSet(queue) \cap ToSet(hand[u]) = {} /\ ToSet(queue) \cap ToSet(hand[v]) = {}
      BY DEF RowsInv, Apart
    <3> QED
      BY <1>3, <1>5, <1>6, <3>1
  <2> QED
    BY <1>3, <2>1, <2>2, <2>3 DEF Apart
<1>9. Held' = Held
  <2>1. Held' = ToSet(queue') \union UNION {ToSet(hand'[u]) : u \in Takers}
    BY DEF Held, InHand
  <2>2. \A x : x \in Held' <=> x \in Held
    BY <1>3, <1>5, <1>6, <2>1, Zenon DEF Held, InHand
  <2> QED
    BY <2>2
<1>10. Placed' /\ Counted' /\ StoredAtMostOnce'
  BY <1>1, <1>9 DEF RowsInv, Placed, Counted, StoredAtMostOnce, Kept, NamesOf
<1> QED
  BY <1>7, <1>8, <1>10 DEF RowsInv

LEMMA WriteStep ==
    ASSUME RowsInv, NEW t \in Takers, NEW ok \in BOOLEAN, Write(t, ok)
    PROVE  RowsInv'
<1> DEFINE rows == hand[t]
           new == TakenRows(stored, rows)
<1>1. /\ hand \in [Takers -> Seq(Rows)] /\ hand' = [hand EXCEPT ![t] = <<>>]
      /\ stored \in [Rows -> Nat] /\ stored' = IF ok THEN Insert(stored, rows) ELSE stored
      /\ lost' = IF ok THEN lost ELSE lost \union ToSet(rows)
      /\ UNCHANGED <<kind, async, queue, seen, putting, stop, records, accepted>>
  BY DEF Write, RowsInv, RecorderTypeOK
<1>2. rows \in Seq(Rows) /\ IsInjective(rows) /\ ToSet(rows) \subseteq Held
  BY <1>1, HeldRows DEF RowsInv, Apart
<1>3. /\ ToSet(queue) \cap ToSet(rows) = {}
      /\ \A u \in Takers : u # t => ToSet(hand[u]) \cap ToSet(rows) = {}
  BY DEF RowsInv, Apart
<1>4. /\ ToSet(rows) \subseteq accepted /\ ToSet(rows) \subseteq Rows
      /\ ToSet(rows) \cap (lost \union Kept(stored)) = {}
  BY <1>2 DEF RowsInv, Placed, RecorderTypeOK
<1>5. /\ Kept(Insert(stored, rows)) = Kept(stored) \union new /\ new \subseteq ToSet(rows)
      /\ kind # "seen" => new = ToSet(rows)
      /\ kind = "seen" => \A r \in ToSet(rows) : r[1] \in NamesOf(Insert(stored, rows))
      /\ Insert(stored, rows) \in [Rows -> Nat]
      /\ \A r \in Rows : Insert(stored, rows)[r] = IF r \in new THEN stored[r] + 1 ELSE stored[r]
  BY <1>1, <1>2, InsertKeeps, InsertCounts
<1>6. hand'[t] = <<>> /\ ToSet(hand'[t]) = {} /\ \A u \in Takers : u # t => hand'[u] = hand[u]
  BY <1>1, EmptyRows
<1> HIDE DEF rows, new
<1>7. RecorderTypeOK'
  <2>1. hand' \in [Takers -> Seq(Rows)] /\ stored' \in [Rows -> Nat]
    BY <1>1, <1>5
  <2>2. step' \in [Takers -> {"idle", "wait", "take", "write", "gone", "join", "ended"}]
    BY DEF Write, After, RowsInv, RecorderTypeOK
  <2>3. lost' \subseteq accepted
    BY <1>1, <1>4 DEF RowsInv, RecorderTypeOK
  <2> QED
    BY <1>1, <2>1, <2>2, <2>3 DEF RowsInv, RecorderTypeOK
<1>8. Apart'
  BY <1>1, <1>6, EmptyRows DEF RowsInv, Apart
<1>9. Held' = Held \ ToSet(rows)
  <2>1. \A x : x \in Held' <=> x \in ToSet(queue) \/ \E u \in Takers : u # t /\ x \in ToSet(hand[u])
    <3>1. Held' = ToSet(queue) \union UNION {ToSet(hand'[u]) : u \in Takers}
      BY <1>1 DEF Held, InHand
    <3> QED
      BY <1>6, <3>1, Zenon
  <2>2. \A x : x \in Held <=> \/ x \in ToSet(queue) \/ x \in ToSet(rows)
                            \/ \E u \in Takers : u # t /\ x \in ToSet(hand[u])
    BY Zenon DEF Held, InHand, rows
  <2> QED
    BY <1>3, <2>1, <2>2, Zenon
<1>10. CASE ok
  <2>1. stored' = Insert(stored, rows) /\ lost' = lost /\ Kept(stored') = Kept(stored) \union new
    BY <1>1, <1>5, <1>10
  <2>2. StoredAtMostOnce'
    <3> SUFFICES ASSUME NEW r \in Rows PROVE stored'[r] <= 1
      BY DEF StoredAtMostOnce
    <3>1. CASE r \in new
      <4>1. stored[r] = 0
        BY <1>1, <1>4, <1>5, <3>1 DEF Kept
      <4> QED
        BY <1>5, <2>1, <3>1, <4>1
    <3>2. CASE r \notin new
      BY <1>5, <2>1, <3>2 DEF RowsInv, StoredAtMostOnce
    <3> QED
      BY <3>1, <3>2
  <2>3. Placed'
    <3>1. \A r \in accepted \ (Held' \union lost) :
            IF kind = "log" THEN r \in Kept(stored') ELSE r[1] \in NamesOf(stored')
      <4> TAKE r \in accepted \ (Held' \union lost)
      <4>1. CASE r \in ToSet(rows)
        BY <1>5, <2>1, <4>1 DEF RowsInv, RecorderTypeOK
      <4>2. CASE r \notin ToSet(rows)
        <5>1. r \in accepted \ (Held \union lost)
          BY <1>9, <4>2
        <5> QED
          BY <2>1, <5>1 DEF RowsInv, Placed, NamesOf
      <4> QED
        BY <4>1, <4>2
    <3>2. Held' \subseteq accepted /\ Held' \cap (lost \union Kept(stored')) = {}
      BY <1>5, <1>9, <2>1 DEF RowsInv, Placed
    <3> QED
      BY <1>1, <2>1, <3>1, <3>2 DEF Placed
  <2>4. Counted'
    BY <1>1, <1>4, <1>5, <2>1 DEF RowsInv, Counted
  <2> QED
    BY <1>7, <1>8, <2>2, <2>3, <2>4 DEF RowsInv
<1>11. CASE ~ok
  <2>1. stored' = stored /\ lost' = lost \union ToSet(rows) /\ Kept(stored') = Kept(stored)
    BY <1>1, <1>11
  <2>2. Held' \subseteq accepted /\ Held' \cap (lost' \union Kept(stored')) = {}
    BY <1>9, <2>1 DEF RowsInv, Placed
  <2>3. accepted \ (Held' \union lost') = accepted \ (Held \union lost)
    BY <1>2, <1>9, <2>1
  <2>4. Placed' /\ Counted' /\ StoredAtMostOnce'
    BY <1>1, <2>1, <2>2, <2>3 DEF RowsInv, Placed, Counted, StoredAtMostOnce, NamesOf
  <2> QED
    BY <1>7, <1>8, <2>4 DEF RowsInv
<1> QED
  BY <1>10, <1>11

LEMMA DirectStep ==
    ASSUME RowsInv, NEW n \in Names, NEW ok \in BOOLEAN, WriteDirect(n, ok)
    PROVE  RowsInv'
<1> DEFINE r == NewRow(n)
           rows == <<r>>
<1>1. /\ r \in Rows /\ r[1] = n /\ r[2] = records[n] + 1
      /\ r \notin Held /\ r \notin accepted /\ r \notin lost /\ r \notin Kept(stored)
  BY NewRowIsNew DEF WriteDirect, CanRecord
<1>2. /\ records' = [records EXCEPT ![n] = records[n] + 1] /\ records \in [Names -> 0..MaxRecords]
      /\ records[n] < MaxRecords /\ kind = "log" /\ stored \in [Rows -> Nat]
      /\ UNCHANGED <<kind, async, queue, seen, putting, step, hand, stop, accepted, lost>>
      /\ stored' = IF ok THEN Insert(stored, rows) ELSE stored
  BY DEF WriteDirect, CanRecord, Numbered, RowsInv, RecorderTypeOK
<1>3. records' \in [Names -> 0..MaxRecords] /\ records'[n] = records[n] + 1
      /\ \A m \in Names : records[m] <= records'[m]
  BY <1>2
<1>4. rows \in Seq(Rows) /\ IsInjective(rows) /\ ToSet(rows) = {r}
  BY <1>1 DEF IsInjective, ToSet
<1>5. /\ TakenRows(stored, rows) = {r} /\ Insert(stored, rows) \in [Rows -> Nat]
      /\ Kept(Insert(stored, rows)) = Kept(stored) \union {r}
      /\ \A s \in Rows : Insert(stored, rows)[s] = IF s = r THEN stored[s] + 1 ELSE stored[s]
  <2> HIDE DEF r, rows
  <2>1. TakenRows(stored, rows) = {r}
    BY <1>2, <1>4, InsertKeeps
  <2>2. Kept(Insert(stored, rows)) = Kept(stored) \union {r}
    BY <1>2, <1>4, <2>1, InsertKeeps
  <2> QED
    BY <1>2, <1>4, <2>1, <2>2, InsertCounts
<1>6. stored[r] = 0
  BY <1>1, <1>2 DEF Kept
<1> HIDE DEF r, rows
<1>7. /\ stored' \in [Rows -> Nat] /\ Kept(stored) \subseteq Kept(stored')
      /\ Kept(stored') \subseteq Kept(stored) \union {r}
      /\ \A s \in Rows : stored'[s] <= 1
  BY <1>1, <1>2, <1>5, <1>6 DEF RowsInv, StoredAtMostOnce
<1>8. Held' = Held
  BY <1>2 DEF Held, InHand
<1>9. RecorderTypeOK' /\ Apart'
  BY <1>2, <1>3, <1>7 DEF RowsInv, RecorderTypeOK, Apart
<1>10. Placed'
  BY <1>1, <1>2, <1>7, <1>8 DEF RowsInv, Placed
<1>11. Counted'
  <2> SUFFICES ASSUME NEW s \in accepted \union Kept(stored') PROVE s[2] <= records'[s[1]]
    BY <1>2 DEF Counted
  <2>1. CASE s = r
    BY <1>1, <1>2, <1>3, <2>1
  <2>2. CASE s # r
    <3>1. s \in accepted \union Kept(stored) /\ s \in Rows
      BY <1>7, <2>2 DEF RowsInv, RecorderTypeOK, Kept
    <3>2. s[1] \in Names /\ s[2] \in Nat /\ s[2] <= records[s[1]]
      BY <3>1 DEF RowsInv, Counted, Rows
    <3> QED
      BY <1>2, <1>3, <3>2
  <2> QED
    BY <2>1, <2>2
<1> QED
  BY <1>7, <1>9, <1>10, <1>11 DEF RowsInv, StoredAtMostOnce

LEMMA RestartStep ==
    ASSUME RowsInv, Restart
    PROVE  RowsInv'
<1>1. /\ queue' = <<>> /\ hand' = [t \in Takers |-> <<>>] /\ lost' = lost \union Held
      /\ stop' = FALSE /\ seen' = {} /\ putting' = [w \in Workers |-> NoName]
      /\ UNCHANGED <<kind, async, stored, records, accepted>>
  BY Zenon DEF Restart, Held, InHand
<1>2. Held' = {}
  BY <1>1, EmptyRows DEF Held, InHand
<1>3. Apart'
  BY <1>1, EmptyRows DEF Apart
<1>4. RecorderTypeOK'
  <2>1. step' \in [Takers -> {"idle", "wait", "take", "write", "gone", "join", "ended"}]
    BY DEF Restart
  <2>2. queue' \in Seq(Rows) /\ Len(queue') <= QueueSize /\ hand' \in [Takers -> Seq(Rows)]
    BY <1>1
  <2>3. putting' \in [Workers -> Names \union {NoName}] /\ seen' \subseteq Names
    BY <1>1
  <2>4. lost' \subseteq accepted'
    BY <1>1 DEF RowsInv, Placed, RecorderTypeOK
  <2> QED
    BY <1>1, <2>1, <2>2, <2>3, <2>4 DEF RowsInv, RecorderTypeOK
<1>5. Placed' /\ Counted' /\ StoredAtMostOnce'
  BY <1>1, <1>2 DEF RowsInv, Placed, Counted, StoredAtMostOnce, Kept, NamesOf
<1> QED
  BY <1>3, <1>4, <1>5 DEF RowsInv

LEMMA NextRows == RowsInv /\ [RecorderNext]_recordVars => RowsInv'
<1> SUFFICES ASSUME RowsInv, [RecorderNext]_recordVars PROVE RowsInv'
  OBVIOUS
<1>1. ASSUME NEW n \in Names, Enqueue(n) PROVE RowsInv'
  <2>1. putting' \in [Workers -> Names \union {NoName}]
    BY <1>1 DEF Enqueue, RowsInv, RecorderTypeOK
  <2> QED
    BY <1>1, <2>1, OfferStep DEF Enqueue, CanRecord
<1>2. ASSUME NEW w \in Workers, Put(w) PROVE RowsInv'
  <2>1. putting[w] \in Names /\ putting' \in [Workers -> Names \union {NoName}]
    BY <1>2 DEF Put, RowsInv, RecorderTypeOK
  <2> QED
    BY <1>2, <2>1, OfferStep DEF Put
<1>3. ASSUME NEW t \in Takers, FlushRound(t) PROVE RowsInv'
  BY <1>3, TakeStep, WriteStep, StillSteps DEF FlushRound
<1> QED
  BY <1>1, <1>2, <1>3, StillSteps, DirectStep, RestartStep DEF RecorderNext, Kill

\* Whatever fails and whenever the process ends: a row that the queue took is
\* stored once, lost, or on its way, and never two of these.
THEOREM RowsAreStoredOnce == RecorderSpec => []StoredOnce
BY InitRows, NextRows, RowsInvImplies, PTL DEF RecorderSpec

-----------------------------------------------------------------------------
(* The end of the process.                                                 *)

\* The exit handler takes only when the thread is gone, and ends only when the
\* queue is empty; nobody records any more.
ExitInv ==
    /\ \A t \in Takers : step[t] \notin {"take", "write"} => hand[t] = <<>>
    /\ step[Exiting] \in {"take", "write", "ended"} => step[Flushing] = "gone"
    /\ step[Exiting] # "idle" => \A w \in Workers : putting[w] = NoName
    /\ "exit" \notin Faults => (step[Exiting] = "ended" => queue = <<>>)

LEMMA ExitInvImplies == "exit" \notin Faults /\ ExitInv => ExitStoresAll
<1> SUFFICES ASSUME "exit" \notin Faults, ExitInv, step[Exiting] = "ended"
             PROVE  queue = <<>> /\ InHand = {}
  BY DEF ExitStoresAll
<1>1. \A t \in Takers : hand[t] = <<>>
  BY DEF ExitInv, Takers
<1> QED
  BY <1>1, EmptyRows DEF ExitInv, InHand

LEMMA InitExit == RecorderInit => ExitInv
BY DEF RecorderInit, ExitInv, Takers, Flushing, Exiting

\* The handler waits for the thread, however long it takes.
LEMMA NextExit ==
    ASSUME "join" \notin Faults, RecorderTypeOK, ExitInv, [RecorderNext]_recordVars
    PROVE  ExitInv'
<1> USE DEF Takers, Flushing, Exiting
<1>1. step \in [Takers -> {"idle", "wait", "take", "write", "gone", "join", "ended"}]
      /\ hand \in [Takers -> Seq(Rows)] /\ queue \in Seq(Rows)
  BY DEF RecorderTypeOK
<1>2. CASE UNCHANGED <<step, hand, putting>> /\ (queue' = queue \/ step[Exiting] # "ended")
  BY <1>2 DEF ExitInv
<1>3. ASSUME NEW w \in Workers, NEW n \in Names, Notice(w, n) PROVE ExitInv'
  BY <1>3 DEF Notice, CanRecord, Serving, ExitInv
<1>4. ASSUME NEW w \in Workers, Put(w) PROVE ExitInv'
  BY <1>4 DEF Put, ExitInv
<1>5. CASE Wake
  BY <1>1, <1>5 DEF Wake, ExitInv
<1>6. ASSUME NEW t \in Takers, Take(t) PROVE ExitInv'
  BY <1>1, <1>6 DEF Take, ExitInv
<1>7. ASSUME NEW t \in Takers, EndTake(t) PROVE ExitInv'
  BY <1>1, <1>7 DEF EndTake, After, ExitInv
<1>8. ASSUME NEW t \in Takers, NEW ok \in BOOLEAN, Write(t, ok) PROVE ExitInv'
  BY <1>1, <1>8 DEF Write, Outcome, After, ExitInv
<1>9. CASE Stop
  BY <1>1, <1>9 DEF Stop, Serving, ExitInv
<1>10. CASE Join
  BY <1>1, <1>10 DEF Join, ExitInv
<1>11. CASE Restart
  BY <1>11 DEF Restart, ExitInv
<1>12. ASSUME NEW n \in Names, Enqueue(n) PROVE ExitInv'
  BY <1>2, <1>12 DEF Enqueue, CanRecord, Serving
<1>13. ASSUME NEW n \in Names, NEW ok \in BOOLEAN, WriteDirect(n, ok) PROVE ExitInv'
  BY <1>2, <1>13 DEF WriteDirect
<1>14. CASE SwitchAsync \/ UNCHANGED recordVars
  BY <1>2, <1>14 DEF SwitchAsync, recordVars
<1> QED
  BY <1>3, <1>4, <1>5, <1>6, <1>7, <1>8, <1>9, <1>10, <1>11, <1>12, <1>13, <1>14
  DEF RecorderNext, FlushRound, Kill

\* A process that ends in order leaves nothing in memory, as long as the exit
\* handler waits for the thread and its transactions end well.
THEOREM ExitLeavesNothing ==
    ASSUME Faults \cap {"exit", "join"} = {}
    PROVE  RecorderSpec => []ExitStoresAll
<1>1. RowsInv /\ ExitInv /\ [RecorderNext]_recordVars => (RowsInv /\ ExitInv)'
  BY NextRows, NextExit DEF RowsInv
<1>2. ExitInv => ExitStoresAll
  BY ExitInvImplies
<1> QED
  BY <1>1, <1>2, InitRows, InitExit, PTL DEF RecorderSpec

-----------------------------------------------------------------------------
(* The first sight of a domain.                                            *)

\* The rows of a name go through the queue and the hand of the one taker in
\* the order of their numbers.
Ascending(s) ==
    \A i, j \in DOMAIN s : i < j /\ s[i][1] = s[j][1] => s[i][2] < s[j][2]

Before(S, T) == \A x \in S, y \in T : x[1] = y[1] => x[2] < y[2]

OrderInv ==
    /\ Ascending(queue)
    /\ \A t \in Takers : Ascending(hand[t]) /\ Before(ToSet(hand[t]), ToSet(queue))
    /\ kind = "seen" => Before(Kept(stored), Held)
    /\ FirstSightKept

\* Only one of the takers has rows.
OneTakes == \A t, u \in Takers : t # u => hand[t] = <<>> \/ hand[u] = <<>>

LEMMA ExitInvOneTakes == ExitInv => OneTakes
BY DEF ExitInv, OneTakes, Takers, Flushing, Exiting

LEMMA AscendingTail ==
    ASSUME NEW q \in Seq(Rows), q # <<>>, Ascending(q)
    PROVE  Ascending(Tail(q)) /\ Before({Head(q)}, ToSet(Tail(q)))
<1>1. /\ Head(q) = q[1] /\ Len(Tail(q)) = Len(q) - 1 /\ Len(q) \in Nat \ {0}
      /\ \A i \in 1..Len(q) - 1 : Tail(q)[i] = q[i + 1]
      /\ DOMAIN q = 1..Len(q) /\ DOMAIN Tail(q) = 1..Len(q) - 1
  OBVIOUS
<1>2. Ascending(Tail(q))
  <2> SUFFICES ASSUME NEW i \in DOMAIN Tail(q), NEW j \in DOMAIN Tail(q), i < j,
                      Tail(q)[i][1] = Tail(q)[j][1]
               PROVE  Tail(q)[i][2] < Tail(q)[j][2]
    BY DEF Ascending
  <2>1. i + 1 \in DOMAIN q /\ j + 1 \in DOMAIN q /\ i + 1 < j + 1
        /\ Tail(q)[i] = q[i + 1] /\ Tail(q)[j] = q[j + 1]
    BY <1>1
  <2> QED
    BY <2>1 DEF Ascending
<1>3. ASSUME NEW i \in DOMAIN Tail(q), Head(q)[1] = Tail(q)[i][1]
      PROVE  Head(q)[2] < Tail(q)[i][2]
  <2>1. i + 1 \in DOMAIN q /\ 1 \in DOMAIN q /\ 1 < i + 1 /\ Tail(q)[i] = q[i + 1]
    BY <1>1
  <2> QED
    BY <1>1, <1>3, <2>1 DEF Ascending
<1> QED
  BY <1>2, <1>3 DEF Before, ToSet

LEMMA AscendingAppend ==
    ASSUME NEW q \in Seq(Rows), NEW e \in Rows, Ascending(q), Before(ToSet(q), {e})
    PROVE  Ascending(Append(q, e))
<1>1. /\ \A i \in 1..Len(q) : Append(q, e)[i] = q[i]
      /\ Append(q, e)[Len(q) + 1] = e /\ Len(q) \in Nat
      /\ DOMAIN q = 1..Len(q) /\ DOMAIN Append(q, e) = 1..Len(q) + 1
  OBVIOUS
<1> SUFFICES ASSUME NEW i \in 1..Len(q) + 1, NEW j \in 1..Len(q) + 1, i < j,
                    Append(q, e)[i][1] = Append(q, e)[j][1]
             PROVE  Append(q, e)[i][2] < Append(q, e)[j][2]
  BY <1>1 DEF Ascending
<1>2. i \in 1..Len(q) /\ Append(q, e)[i] = q[i]
  BY <1>1
<1>3. CASE j \in 1..Len(q)
  BY <1>1, <1>2, <1>3 DEF Ascending
<1>4. CASE j \notin 1..Len(q)
  <2>1. Append(q, e)[j] = e /\ q[i] \in ToSet(q)
    BY <1>1, <1>2, <1>4 DEF ToSet
  <2> QED
    BY <1>2, <2>1 DEF Before
<1> QED
  BY <1>3, <1>4

\* Of the rows the statement takes for a domain none in the batch is earlier.
LEMMA TakenAreFirst ==
    ASSUME kind = "seen", NEW table, NEW rows \in Seq(Rows), Ascending(rows),
           NEW s \in TakenRows(table, rows)
    PROVE  /\ s[1] \notin NamesOf(table)
           /\ \A r \in ToSet(rows) : r[1] = s[1] => s[2] <= r[2]
<1>1. PICK i \in DOMAIN rows :
        /\ rows[i] = s /\ s[1] \notin NamesOf(table)
        /\ \A j \in DOMAIN rows : rows[j][1] = s[1] => i <= j
  BY DEF TakenRows, Taken
<1>2. ASSUME NEW j \in DOMAIN rows, rows[j][1] = s[1] PROVE s[2] <= rows[j][2]
  <2>1. i <= j /\ i \in Nat /\ j \in Nat /\ rows[i] \in Rows /\ rows[j] \in Rows
    BY <1>1, <1>2
  <2>2. rows[i][2] \in Nat /\ rows[j][2] \in Nat
    BY <2>1 DEF Rows
  <2>3. CASE i = j
    BY <1>1, <2>2, <2>3
  <2>4. CASE i < j
    BY <1>1, <1>2, <2>2, <2>4 DEF Ascending
  <2> QED
    BY <2>1, <2>3, <2>4
<1> QED
  BY <1>1, <1>2 DEF ToSet

LEMMA InitOrder == RecorderInit => OrderInv
<1> SUFFICES ASSUME RecorderInit PROVE OrderInv
  OBVIOUS
<1>1. queue = <<>> /\ hand = [t \in Takers |-> <<>>] /\ accepted = {}
      /\ stored = [r \in Rows |-> 0]
  BY DEF RecorderInit
<1>2. Kept(stored) = {}
  BY <1>1 DEF Kept
<1> QED
  BY <1>1, <1>2, EmptyRows DEF OrderInv, Ascending, Before, FirstSightKept

\* A row that comes has a higher number than all there are.
LEMMA OfferOrder ==
    ASSUME RowsInv, OrderInv, NEW n \in Names, records[n] < MaxRecords, Offer(n),
           UNCHANGED <<kind, async, seen, step, hand, stop, stored, lost>>
    PROVE  OrderInv'
<1> DEFINE r == NewRow(n)
<1>1. r \in Rows /\ r[1] = n /\ r[2] = records[n] + 1 /\ records[n] \in Nat
  BY NewRowIsNew DEF RowsInv, RecorderTypeOK
<1> HIDE DEF r
<1>2. Before(accepted \union Kept(stored), {r})
  <2> SUFFICES ASSUME NEW s \in accepted \union Kept(stored), s[1] = n PROVE s[2] < r[2]
    BY <1>1 DEF Before
  <2>1. s \in Rows /\ s[2] <= records[n]
    BY DEF RowsInv, RecorderTypeOK, Counted, Kept
  <2>2. s[2] \in Nat
    BY <2>1 DEF Rows
  <2> QED
    BY <1>1, <2>1, <2>2
<1>3. hand' = hand /\ stored' = stored /\ kind' = kind /\ lost' = lost
  OBVIOUS
<1>4. CASE Len(queue) < QueueSize
  <2>1. queue' = Append(queue, r) /\ accepted' = accepted \union {r} /\ queue \in Seq(Rows)
    BY <1>4 DEF Offer, r, RowsInv, RecorderTypeOK
  <2>2. ToSet(queue') = ToSet(queue) \union {r}
    BY <1>1, <2>1, AppendRows
  <2>3. ToSet(queue) \subseteq accepted /\ \A t \in Takers : ToSet(hand[t]) \subseteq accepted
    BY HeldRows DEF RowsInv, Placed
  <2>4. Ascending(queue')
    BY <1>1, <1>2, <2>1, <2>3, AscendingAppend DEF OrderInv, Before
  <2>5. \A t \in Takers : Before(ToSet(hand'[t]), ToSet(queue'))
    BY <1>2, <1>3, <2>2, <2>3 DEF OrderInv, Before
  <2>6. Held' = Held \union {r}
    BY <1>3, <2>2 DEF Held, InHand
  <2>7. kind' = "seen" => Before(Kept(stored'), Held')
    BY <1>2, <1>3, <2>6 DEF OrderInv, Before
  <2>8. FirstSightKept'
    <3> SUFFICES ASSUME kind = "seen", NEW s \in Kept(stored), NEW a \in accepted \union {r},
                        a[1] = s[1], a[2] < s[2]
                 PROVE  a \in lost
      BY <1>3, <2>1 DEF FirstSightKept, Kept
    <3>1. s \in Rows
      BY DEF Kept
    <3>2. s[2] \in Nat
      BY <3>1 DEF Rows
    <3>3. a # r
      BY <1>1, <1>2, <3>2 DEF Before
    <3> QED
      BY <3>3 DEF OrderInv, FirstSightKept
  <2> QED
    BY <1>3, <2>4, <2>5, <2>7, <2>8 DEF OrderInv
<1>5. CASE ~(Len(queue) < QueueSize)
  <2>1. queue' = queue /\ accepted' = accepted
    BY <1>5 DEF Offer
  <2> QED
    BY <1>3, <2>1 DEF OrderInv, Before, FirstSightKept, Held, InHand, Kept
<1> QED
  BY <1>4, <1>5

LEMMA TakeOrder ==
    ASSUME RowsInv, OrderInv, NEW t \in Takers, Take(t)
    PROVE  OrderInv'
<1> DEFINE r == Head(queue)
<1>1. /\ queue \in Seq(Rows) /\ queue # <<>> /\ hand \in [Takers -> Seq(Rows)]
      /\ queue' = Tail(queue) /\ hand' = [hand EXCEPT ![t] = Append(hand[t], r)]
      /\ UNCHANGED <<kind, stored, accepted, lost>>
  BY DEF Take, RowsInv, RecorderTypeOK
<1>2. r \in Rows /\ ToSet(queue) = {r} \union ToSet(queue')
  BY <1>1, TailRows
<1>3. Ascending(queue') /\ Before({r}, ToSet(queue'))
  BY <1>1, AscendingTail DEF OrderInv
<1> HIDE DEF r
<1>4. hand[t] \in Seq(Rows) /\ hand'[t] = Append(hand[t], r) /\ \A u \in Takers : u # t => hand'[u] = hand[u]
  BY <1>1
<1>5. ToSet(hand'[t]) = ToSet(hand[t]) \union {r}
  BY <1>2, <1>4, AppendRows
<1>6. \A u \in Takers : Before(ToSet(hand[u]), ToSet(queue)) /\ Ascending(hand[u])
  BY DEF OrderInv
<1>7. Ascending(hand'[t])
  BY <1>2, <1>4, <1>6, AscendingAppend DEF Before
<1>8. Before(ToSet(hand'[t]), ToSet(queue'))
  BY <1>2, <1>3, <1>5, <1>6 DEF Before
<1>9. \A u \in Takers : Ascending(hand'[u]) /\ Before(ToSet(hand'[u]), ToSet(queue'))
  <2> TAKE u \in Takers
  <2>1. CASE u = t
    BY <1>7, <1>8, <2>1
  <2>2. CASE u # t
    BY <1>2, <1>4, <1>6, <2>2 DEF Before
  <2> QED
    BY <2>1, <2>2
<1>10. Held' = Held
  <2>1. Held' = ToSet(queue') \union UNION {ToSet(hand'[u]) : u \in Takers}
    BY DEF Held, InHand
  <2>2. \A x : x \in Held' <=> x \in Held
    BY <1>2, <1>4, <1>5, <2>1, Zenon DEF Held, InHand
  <2> QED
    BY <2>2
<1> QED
  BY <1>1, <1>3, <1>9, <1>10 DEF OrderInv, FirstSightKept, Kept

LEMMA WriteOrder ==
    ASSUME RowsInv, OrderInv, OneTakes, NEW t \in Takers, NEW ok \in BOOLEAN, Write(t, ok)
    PROVE  OrderInv'
<1> DEFINE rows == hand[t]
           new == TakenRows(stored, rows)
<1>1. /\ hand \in [Takers -> Seq(Rows)] /\ hand' = [hand EXCEPT ![t] = <<>>]
      /\ stored \in [Rows -> Nat] /\ stored' = IF ok THEN Insert(stored, rows) ELSE stored
      /\ lost' = IF ok THEN lost ELSE lost \union ToSet(rows)
      /\ UNCHANGED <<kind, queue, accepted>>
      /\ kind \in {"log", "seen"} /\ accepted \subseteq Rows
  BY DEF Write, RowsInv, RecorderTypeOK
<1>2. rows \in Seq(Rows) /\ IsInjective(rows) /\ ToSet(rows) \subseteq Held
  BY <1>1, HeldRows DEF RowsInv, Apart
<1>3. hand'[t] = <<>> /\ \A u \in Takers : u # t => hand'[u] = hand[u]
  BY <1>1
<1>4. \A u \in Takers : Ascending(hand'[u]) /\ Before(ToSet(hand'[u]), ToSet(queue'))
  BY <1>1, <1>3, EmptyRows DEF OrderInv, Ascending, Before
<1>5. Kept(Insert(stored, rows)) = Kept(stored) \union new /\ new \subseteq ToSet(rows)
  BY <1>1, <1>2, InsertKeeps
<1>6. Ascending(rows) /\ Before(ToSet(rows), ToSet(queue))
  BY DEF OrderInv
<1>7. CASE rows = <<>>
  <2>1. new = {} /\ hand' = hand
    BY <1>1, <1>3, <1>5, <1>7, EmptyRows
  <2>2. Kept(stored') = Kept(stored) /\ lost \subseteq lost'
    BY <1>1, <1>5, <2>1
  <2>3. Held' = Held
    BY <1>1, <2>1 DEF Held, InHand
  <2>4. FirstSightKept'
    BY <1>1, <2>2 DEF OrderInv, FirstSightKept
  <2> QED
    BY <1>1, <1>4, <2>2, <2>3, <2>4 DEF OrderInv
<1>8. CASE rows # <<>>
  <2>1. \A u \in Takers : u # t => hand[u] = <<>>
    BY <1>8 DEF OneTakes
  <2>2. Held = ToSet(queue) \union ToSet(rows) /\ Held' = ToSet(queue)
    <3>1. \A u \in Takers : ToSet(hand'[u]) = {} /\ (u # t => ToSet(hand[u]) = {})
      BY <1>3, <2>1, EmptyRows
    <3>2. Held' = ToSet(queue) \union UNION {ToSet(hand'[u]) : u \in Takers}
      BY <1>1 DEF Held, InHand
    <3>3. \A x : x \in Held <=> x \in ToSet(queue) \/ \E u \in Takers : x \in ToSet(hand[u])
      BY Zenon DEF Held, InHand
    <3>4. \A x : x \in Held' <=> x \in ToSet(queue) \/ \E u \in Takers : x \in ToSet(hand'[u])
      BY <3>2, Zenon
    <3>5. Held' = ToSet(queue)
      BY <3>1, <3>4
    <3> QED
      BY <3>1, <3>3, <3>5
  <2> HIDE DEF rows, new
  <2>3. CASE ok /\ kind = "seen"
    <3>1. Kept(stored') = Kept(stored) \union new /\ lost' = lost
      BY <1>1, <1>5, <2>3
    <3>2. Before(Kept(stored'), Held')
      BY <1>5, <1>6, <2>2, <2>3, <3>1 DEF OrderInv, Before
    <3>3. FirstSightKept'
      <4> SUFFICES ASSUME NEW s \in Kept(stored) \union new, NEW a \in accepted,
                          a[1] = s[1], a[2] < s[2]
                   PROVE  a \in lost
        BY <1>1, <3>1 DEF FirstSightKept
      <4>1. CASE s \in Kept(stored)
        BY <2>3, <4>1 DEF OrderInv, FirstSightKept
      <4>2. CASE s \in new
        <5>1. /\ s[1] \notin NamesOf(stored) /\ s \in ToSet(rows) /\ s \in Rows
              /\ \A b \in ToSet(rows) : b[1] = s[1] => s[2] <= b[2]
          BY <1>2, <1>5, <1>6, <2>3, <4>2, TakenAreFirst DEF new, Held, RowsInv, Placed, RecorderTypeOK
        <5>2. s[2] \in Nat /\ a[2] \in Nat
          BY <1>1, <5>1 DEF Rows
        <5>3. a \notin ToSet(rows)
          BY <5>1, <5>2
        <5>4. a \notin ToSet(queue)
          BY <1>6, <5>1, <5>2 DEF Before
        <5> QED
          BY <2>2, <2>3, <5>1, <5>3, <5>4 DEF RowsInv, Placed
      <4> QED
        BY <4>1, <4>2
    <3> QED
      BY <1>1, <1>4, <3>2, <3>3 DEF OrderInv
  <2>4. CASE ok /\ kind # "seen"
    BY <1>1, <1>4, <2>4 DEF OrderInv, FirstSightKept
  <2>5. CASE ~ok
    <3>1. Kept(stored') = Kept(stored) /\ lost \subseteq lost' /\ Held' \subseteq Held
      BY <1>1, <2>2, <2>5
    <3> QED
      BY <1>1, <1>4, <3>1 DEF OrderInv, FirstSightKept, Before
  <2> QED
    BY <2>3, <2>4, <2>5
<1> QED
  BY <1>7, <1>8

LEMMA NextOrder ==
    RowsInv /\ OrderInv /\ OneTakes /\ [RecorderNext]_recordVars => OrderInv'
<1> SUFFICES ASSUME RowsInv, OrderInv, OneTakes, [RecorderNext]_recordVars PROVE OrderInv'
  OBVIOUS
<1>1. CASE UNCHANGED <<kind, queue, hand, stored, accepted, lost>>
  BY <1>1 DEF OrderInv, FirstSightKept, Held, InHand, Kept
<1>2. ASSUME NEW n \in Names, Enqueue(n) PROVE OrderInv'
  BY <1>2, OfferOrder DEF Enqueue, CanRecord
<1>3. ASSUME NEW n \in Names, NEW ok \in BOOLEAN, WriteDirect(n, ok) PROVE OrderInv'
  BY <1>3 DEF WriteDirect, OrderInv, FirstSightKept
<1>4. ASSUME NEW w \in Workers, Put(w) PROVE OrderInv'
  <2>1. putting[w] \in Names
    BY <1>4 DEF Put, RowsInv, RecorderTypeOK
  <2> QED
    BY <1>4, <2>1, OfferOrder DEF Put
<1>5. ASSUME NEW t \in Takers, FlushRound(t) PROVE OrderInv'
  BY <1>1, <1>5, TakeOrder, WriteOrder DEF FlushRound, EndTake
<1>6. CASE Restart
  <2>1. /\ queue' = <<>> /\ hand' = [t \in Takers |-> <<>>] /\ lost \subseteq lost'
        /\ UNCHANGED <<kind, stored, accepted>>
    BY <1>6 DEF Restart
  <2>2. Held' = {} /\ ToSet(queue') = {} /\ Kept(stored') = Kept(stored)
    BY <2>1, EmptyRows DEF Held, InHand
  <2>3. \A t \in Takers : Ascending(hand'[t])
    BY <2>1 DEF Ascending
  <2> QED
    BY <2>1, <2>2, <2>3 DEF OrderInv, FirstSightKept, Ascending, Before
<1>7. ASSUME NEW w \in Workers, NEW n \in Names, Notice(w, n) PROVE OrderInv'
  BY <1>1, <1>7 DEF Notice
<1>8. CASE SwitchAsync \/ Wake \/ Stop \/ Join \/ UNCHANGED recordVars
  BY <1>1, <1>8 DEF SwitchAsync, Wake, Stop, Join, recordVars
<1> QED
  BY <1>2, <1>3, <1>4, <1>5, <1>6, <1>7, <1>8 DEF RecorderNext, Kill

\* The row of a domain is the first of those that were not lost, as long as
\* the exit handler waits for the thread: only one of them takes at a time.
THEOREM FirstSightsAreKept ==
    ASSUME "join" \notin Faults
    PROVE  RecorderSpec => []FirstSightKept
<1>1. RowsInv /\ ExitInv /\ OrderInv /\ [RecorderNext]_recordVars => (RowsInv /\ ExitInv /\ OrderInv)'
  BY NextRows, NextExit, NextOrder, ExitInvOneTakes DEF RowsInv
<1>2. OrderInv => FirstSightKept
  BY DEF OrderInv
<1> QED
  BY <1>1, <1>2, InitRows, InitExit, InitOrder, PTL DEF RecorderSpec

-----------------------------------------------------------------------------
(* Statistics.                                                             *)

USE ThreadsAssumption, DaysAssumption, FailuresAssumption, NobodyAssumption DEF None

\* What the count in memory is, and what the steps under the lock know.
CountInv ==
    /\ date = None => since = 0
    /\ date # None => count = row[date] + since
    /\ at = "old" => date # None
    /\ at = "load" => since = 0
    /\ at = "work" => date # None

StatsInv == TypeOK /\ NothingElseLost /\ CountInv

USE ThreadsAssumption, DaysAssumption, FailuresAssumption, NobodyAssumption DEF None

LEMMA InitStats == Init => StatsInv
<1> SUFFICES ASSUME Init PROVE StatsInv
  OBVIOUS
<1>1. failed \in BOOLEAN
  BY Zenon DEF Init
<1>2. TypeOK
  BY <1>1 DEF Init, TypeOK
<1> QED
  BY <1>2 DEF Init, StatsInv, NothingElseLost, CountInv

LEMMA EnterStep ==
    ASSUME StatsInv, NEW t \in Threads, Enter(t)
    PROVE  StatsInv'
BY SMTT(30) DEF Enter, StatsInv, TypeOK, NothingElseLost, CountInv

LEMMA FlushOldStep ==
    ASSUME Failures \subseteq {"write"}, StatsInv, NEW ok \in BOOLEAN, FlushOld(ok)
    PROVE  StatsInv' /\ \A d \in 1..Days : row'[d] >= row[d]
<1>1. ok /\ date \in 1..Days /\ count = row[date] + since
  BY DEF FlushOld, StatsInv, TypeOK, CountInv
<1>2. TypeOK'
  BY <1>1 DEF FlushOld, StatsInv, TypeOK
<1>3. NothingElseLost'
  BY <1>1 DEF FlushOld, StatsInv, TypeOK, NothingElseLost
<1>4. CountInv'
  BY <1>1 DEF FlushOld, StatsInv, TypeOK, CountInv
<1>5. \A d \in 1..Days : row'[d] >= row[d]
  BY <1>1 DEF FlushOld, StatsInv, TypeOK
<1> QED
  BY <1>2, <1>3, <1>4, <1>5 DEF StatsInv

LEMMA LoadStep ==
    ASSUME Failures \subseteq {"write"}, StatsInv, NEW ok \in BOOLEAN, Load(ok)
    PROVE  StatsInv'
<1>1. TypeOK'
  BY DEF Load, StatsInv, TypeOK
<1>2. NothingElseLost'
  BY DEF Load, StatsInv, TypeOK, NothingElseLost, CountInv
<1>3. CountInv'
  BY DEF Load, StatsInv, TypeOK, CountInv
<1> QED
  BY <1>1, <1>2, <1>3 DEF StatsInv

LEMMA RecordStep == StatsInv /\ Record => StatsInv'
<1> SUFFICES ASSUME StatsInv, Record PROVE StatsInv'
  OBVIOUS
<1>1. date \in 1..Days
  BY DEF Record, StatsInv, TypeOK, CountInv
<1>2. TypeOK'
  BY <1>1 DEF Record, Release, StatsInv, TypeOK
<1>3. NothingElseLost'
  BY <1>1 DEF Record, StatsInv, TypeOK, NothingElseLost
<1>4. CountInv'
  BY <1>1 DEF Record, Release, StatsInv, TypeOK, CountInv
<1> QED
  BY <1>2, <1>3, <1>4 DEF StatsInv

LEMMA FlushStep ==
    ASSUME StatsInv, NEW ok \in BOOLEAN, Flush(ok)
    PROVE  StatsInv' /\ \A d \in 1..Days : row'[d] >= row[d]
<1>1. date \in 1..Days /\ count = row[date] + since
  BY DEF Flush, StatsInv, TypeOK, CountInv
<1>2. TypeOK'
  BY <1>1 DEF Flush, Release, StatsInv, TypeOK
<1>3. NothingElseLost'
  BY <1>1 DEF Flush, StatsInv, TypeOK, NothingElseLost
<1>4. CountInv'
  BY <1>1 DEF Flush, Release, StatsInv, TypeOK, CountInv
<1>5. \A d \in 1..Days : row'[d] >= row[d]
  BY <1>1 DEF Flush, StatsInv, TypeOK
<1> QED
  BY <1>2, <1>3, <1>4, <1>5 DEF StatsInv

LEMMA CrashStep == StatsInv /\ Crash => StatsInv'
<1> SUFFICES ASSUME StatsInv, Crash PROVE StatsInv'
  OBVIOUS
<1>1. date # None => kept[date] - since = row[date]
  BY DEF StatsInv, TypeOK, NothingElseLost
<1>2. TypeOK'
  <2>1. failed' \in BOOLEAN
    BY Zenon DEF Crash
  <2> QED
    BY <1>1, <2>1 DEF Crash, Release, StatsInv, TypeOK
<1>3. NothingElseLost'
  BY <1>1 DEF Crash, StatsInv, TypeOK, NothingElseLost, CountInv
<1>4. CountInv'
  BY DEF Crash, Release, CountInv
<1> QED
  BY <1>2, <1>3, <1>4 DEF StatsInv

LEMMA OtherSteps == StatsInv /\ (Midnight \/ UNCHANGED vars) => StatsInv'
<1> SUFFICES ASSUME StatsInv, Midnight \/ UNCHANGED vars PROVE StatsInv'
  OBVIOUS
<1>1. /\ UNCHANGED <<date, count, row, holder, at, day, kept, since, failed>>
      /\ today' = today \/ (today < Days /\ today' = today + 1)
  BY DEF Midnight, vars
<1>2. TypeOK'
  BY <1>1 DEF StatsInv, TypeOK
<1> QED
  BY <1>1, <1>2 DEF StatsInv, NothingElseLost, CountInv

LEMMA NextStats ==
    ASSUME Failures \subseteq {"write"}, StatsInv, [Next]_vars
    PROVE  StatsInv' /\ \A d \in 1..Days : row'[d] >= row[d]
<1>1. row' = row => \A d \in 1..Days : row'[d] >= row[d]
  BY DEF StatsInv, TypeOK
<1>2. ASSUME NEW ok \in BOOLEAN, Load(ok) PROVE row' = row
  BY <1>2 DEF Load
<1>3. CASE Inside
  BY <1>1, <1>2, <1>3, FlushOldStep, LoadStep, FlushStep DEF Inside
<1>4. CASE ~Inside
  <2>1. row' = row
    BY <1>4 DEF Next, vars, Enter, Record, Midnight, Crash
  <2>2. StatsInv'
    BY <1>4, EnterStep, RecordStep, CrashStep, OtherSteps DEF Next
  <2> QED
    BY <1>1, <2>1, <2>2
<1> QED
  BY <1>3, <1>4

\* A crash costs no more than what was counted since the last round, for any
\* number of days, queries and crashes.
THEOREM CrashCosts ==
    ASSUME Failures \subseteq {"write"}
    PROVE  Spec => []NothingElseLost
<1>1. StatsInv /\ [Next]_vars => StatsInv'
  BY NextStats
<1>2. StatsInv => NothingElseLost
  BY DEF StatsInv
<1> QED
  BY <1>1, <1>2, InitStats, PTL DEF Spec

\* No restart takes anything from a row.
THEOREM RowsNeverFall ==
    ASSUME Failures \subseteq {"write"}
    PROVE  Spec => RowsGrow
<1>1. StatsInv /\ [Next]_vars => StatsInv'
  BY NextStats
<1>2. StatsInv /\ [Next]_vars => [\A d \in 1..Days : row'[d] >= row[d]]_vars
  BY NextStats
<1> QED
  BY <1>1, <1>2, InitStats, PTL DEF Spec, RowsGrow

=============================================================================
