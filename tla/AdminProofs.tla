---------------------------- MODULE AdminProofs ----------------------------
(***************************************************************************)
(* The manual lists, the findings and the login guard, for any entries,    *)
(* requests, tools, targets, reviewers and logins.                         *)
(*                                                                         *)
(* Lists: a row is what an insertion or an update has checked, and what an *)
(* import or a tool adds it has not seen before: the invariant carries the *)
(* check from the request, where it is made, to the row.                   *)
(*                                                                         *)
(* Findings: a round looks for a pending finding before its transaction and*)
(* inserts after that.  The invariant says that what it did not see cannot *)
(* have come in between: only rounds insert, and there is one at a time.   *)
(***************************************************************************)
EXTENDS ListAdmin, AiFindings, LoginGuard, FiniteSetTheorems, WellFoundedInduction, TLAPS

LEMMA EachOnce ==
    ASSUME NEW S, IsFiniteSet(S)
    PROVE  SetToSeq(S) \in [1..Cardinality(S) -> S] /\ IsInjective(SetToSeq(S))
<1>1. PICK f : f \in Bijection(1..Cardinality(S), S)
  BY FS_CardinalityType DEF ExistsBijection
<1>2. f \in [1..Cardinality(S) -> S] /\ IsInjective(f)
  BY <1>1 DEF Bijection, Injection, IsInjective
<1> QED
  BY <1>2 DEF SetToSeq

LEMMA Smallest ==
    ASSUME NEW T \in SUBSET Nat, T # {}
    PROVE  \E i \in T : \A j \in T : i <= j
<1>1. PICK i \in T : \A j \in T : ~ <<j, i>> \in OpToRel(<, Nat)
  BY NatLessThanWellFounded, WFMin, Zenon
<1>2. \A j \in T : ~ j < i
  BY <1>1 DEF OpToRel
<1> QED
  BY <1>2

-----------------------------------------------------------------------------
(***************************************************************************)
(* The manual lists, for any entries, requests and tools.  A row that no   *)
(* overlapping update has mixed was checked as it stands, or confirmed by  *)
(* the entrance that does not check: what an update writes is what it      *)
(* checked if the row is still what it read.                               *)
(***************************************************************************)

Entries == [list : {"blacklist", "whitelist"}, target : {"domain", "ip"}, value : Texts]
ListRows == [entry : Entries \union {NoEntry}, by : {"hand", "import", "tool", "confirm"},
             mixed : BOOLEAN, here : BOOLEAN]

\* What a row that is in the table has passed.
Legal(row) ==
    row.here => /\ row.entry \in Entries
                /\ ~row.mixed /\ row.by # "confirm" => validate(row.entry, FALSE)
                /\ row.by = "import" => validate(row.entry, TRUE)

RequestOK(r) ==
    /\ request[r].doing \in {"nothing", "update", "create", "confirm"}
    /\ request[r].doing = "update" =>
          /\ r \in Requests /\ request[r].id \in DOMAIN filter_list
          /\ request[r].new \in Entries /\ validate(request[r].new, FALSE)
    /\ request[r].doing = "create" => r \in Tools /\ request[r].new \in Entries
    /\ request[r].doing = "confirm" => r \in Requests /\ request[r].new \in Entries

ImportOK ==
    /\ import.new \subseteq Entries /\ IsFiniteSet(import.new)
    /\ \A e \in import.new : validate(e, TRUE)
    /\ \A e, f \in import.new : Key(e) = Key(f) => e = f

ListInv ==
    /\ filter_list \in Seq(ListRows)
    /\ \A n \in DOMAIN filter_list : Legal(filter_list[n])
    /\ DOMAIN request = Requests \union Tools /\ \A r \in Requests \union Tools : RequestOK(r)
    /\ ImportOK

LEMMA StrictIsStricter == \A e : validate(e, TRUE) => validate(e, FALSE)
BY DEF validate

LEMMA ListInvImplies == ListInv => RowsAreLegal
BY DEF ListInv, Legal, RowsAreLegal, Stored, Entry

LEMMA ListStart == Init => ListInv
<1> SUFFICES ASSUME Init PROVE ListInv
  OBVIOUS
<1>1. filter_list = <<>> /\ import = NoImport /\ request = [r \in Requests \union Tools |-> Free]
  BY DEF Init
<1>2. \A r \in Requests \union Tools : RequestOK(r)
  BY <1>1 DEF Free, RequestOK
<1>3. ImportOK
  BY <1>1, FS_EmptySet DEF NoImport, ImportOK
<1>4. filter_list \in Seq(ListRows) /\ DOMAIN filter_list = {}
  BY <1>1
<1> QED
  BY <1>1, <1>2, <1>3, <1>4 DEF ListInv

\* Rows that are added leave the others where they are.
LEMMA AddedRows ==
    ASSUME NEW f \in Seq(ListRows), NEW t \in Seq(ListRows)
    PROVE  /\ f \o t \in Seq(ListRows) /\ DOMAIN f \subseteq DOMAIN (f \o t)
           /\ \A n \in DOMAIN f : (f \o t)[n] = f[n]
           /\ \A n \in DOMAIN (f \o t) \ DOMAIN f : \E k \in DOMAIN t : (f \o t)[n] = t[k]
           /\ IsInjective(t) =>
                \A m, n \in DOMAIN (f \o t) \ DOMAIN f : (f \o t)[m] = (f \o t)[n] => m = n
<1>1. /\ f \o t \in Seq(ListRows) /\ DOMAIN (f \o t) = 1..Len(f) + Len(t)
      /\ DOMAIN f = 1..Len(f) /\ DOMAIN t = 1..Len(t) /\ Len(f) \in Nat /\ Len(t) \in Nat
      /\ \A n \in 1..Len(f) : (f \o t)[n] = f[n]
      /\ \A n \in Len(f) + 1..Len(f) + Len(t) : (f \o t)[n] = t[n - Len(f)]
  OBVIOUS
<1>2. \A n \in DOMAIN (f \o t) \ DOMAIN f :
        n \in Nat /\ n - Len(f) \in DOMAIN t /\ (f \o t)[n] = t[n - Len(f)]
  BY <1>1
<1>3. ASSUME IsInjective(t), NEW m \in DOMAIN (f \o t) \ DOMAIN f,
             NEW n \in DOMAIN (f \o t) \ DOMAIN f, (f \o t)[m] = (f \o t)[n]
      PROVE  m = n
  <2>1. m - Len(f) = n - Len(f)
    BY <1>2, <1>3 DEF IsInjective
  <2> QED
    BY <1>1, <1>2, <2>1
<1> QED
  BY <1>1, <1>2, <1>3

LEMMA InsertLegal ==
    ASSUME ListInv, NEW t \in Seq(ListRows), \A k \in DOMAIN t : Legal(t[k]), Insert(t)
    PROVE  /\ filter_list' \in Seq(ListRows) /\ DOMAIN filter_list \subseteq DOMAIN filter_list'
           /\ \A n \in DOMAIN filter_list' : Legal(filter_list'[n])
<1>1. filter_list' = filter_list \o t /\ filter_list \in Seq(ListRows)
  BY DEF Insert, ListInv
<1> QED
  BY <1>1, AddedRows DEF ListInv

\* A row that is added by hand or by a tool, once validated, or confirmed.
LEMMA OneRow ==
    ASSUME NEW e \in Entries, NEW by \in {"hand", "tool", "confirm"},
           validate(e, FALSE) \/ by = "confirm"
    PROVE  /\ Row(e, by) \in ListRows /\ <<Row(e, by)>> \in Seq(ListRows)
           /\ \A k \in DOMAIN <<Row(e, by)>> : Legal(<<Row(e, by)>>[k])
<1>1. Row(e, by) \in ListRows /\ Legal(Row(e, by))
  BY DEF Row, ListRows, Legal
<1> QED
  BY <1>1

LEMMA OneRowOnce ==
    ASSUME NEW row \in ListRows
    PROVE  /\ <<row>> \in Seq(ListRows) /\ IsInjective(<<row>>)
           /\ \A k \in DOMAIN <<row>> : <<row>>[k] = row
BY DEF IsInjective

\* The rows of an import, each once.
LEMMA ImportedRows ==
    ASSUME ImportOK
    PROVE  LET t == SetToSeq({Row(e, "import") : e \in import.new}) IN
           /\ t \in Seq(ListRows) /\ IsInjective(t)
           /\ \A k \in DOMAIN t : \E e \in import.new : t[k] = Row(e, "import")
           /\ \A k \in DOMAIN t : Legal(t[k])
<1> DEFINE S == {Row(e, "import") : e \in import.new}
           t == SetToSeq(S)
<1>1. IsFiniteSet(S)
  <2>1. [e \in import.new |-> Row(e, "import")] \in Surjection(import.new, S)
    BY Zenon DEF Surjection
  <2> QED
    BY <2>1, FS_Surjection DEF ImportOK
<1>2. t \in [1..Cardinality(S) -> S] /\ IsInjective(t) /\ Cardinality(S) \in Nat
  BY <1>1, EachOnce, FS_CardinalityType
<1>3. S \subseteq ListRows /\ \A row \in S : Legal(row)
  <2> SUFFICES ASSUME NEW e \in import.new
               PROVE  Row(e, "import") \in ListRows /\ Legal(Row(e, "import"))
    OBVIOUS
  <2>1. e \in Entries /\ validate(e, TRUE) /\ validate(e, FALSE)
    BY StrictIsStricter DEF ImportOK
  <2> QED
    BY <2>1 DEF Row, ListRows, Legal
<1>4. \A row \in S : \E e \in import.new : row = Row(e, "import")
  OBVIOUS
<1> HIDE DEF S, t
<1>5. DOMAIN t = 1..Cardinality(S) /\ \A k \in DOMAIN t : t[k] \in S
  BY <1>2
<1>6. t \in Seq(ListRows)
  BY <1>2, <1>3
<1>7. /\ \A k \in DOMAIN t : \E e \in import.new : t[k] = Row(e, "import")
      /\ \A k \in DOMAIN t : Legal(t[k])
  BY <1>3, <1>4, <1>5
<1> QED
  BY <1>2, <1>6, <1>7 DEF S, t

\* What the second transaction of an update makes of a row.
Merged(new, old, entry) == [f \in DOMAIN new |-> IF new[f] # old[f] THEN new[f] ELSE entry[f]]

LEMMA MergedEntry ==
    \A new, entry \in Entries : \A old :
        Merged(new, old, entry) \in Entries /\ (entry = old => Merged(new, old, entry) = new)
BY DEF Entries, Merged

LEMMA MergeSound ==
    ASSUME NEW file \in Seq(Typed)
    PROVE  /\ Merge(file) \subseteq Entries /\ IsFiniteSet(Merge(file))
           /\ \A a \in Merge(file) : validate(a, TRUE)
           /\ \A a, b \in Merge(file) : Key(a) = Key(b) => a = b
<1> DEFINE sound == {n \in DOMAIN file : validate(file[n], TRUE)}
           first == {k \in sound : \A m \in sound : m < k => Key(file[m]) # Key(file[k])}
<1>1. Merge(file) = {file[n] : n \in first}
  BY DEF Merge
<1>2. DOMAIN file = 1..Len(file) /\ Len(file) \in Nat /\ \A n \in DOMAIN file : file[n] \in Entries
  BY TypedAssumption DEF Entries
<1>3. first \subseteq 1..Len(file) /\ \A n \in first : validate(file[n], TRUE)
  BY <1>2
<1>4. \A m, n \in first : Key(file[m]) = Key(file[n]) => m = n
  <2> SUFFICES ASSUME NEW m \in first, NEW n \in first, Key(file[m]) = Key(file[n])
               PROVE  m = n
    OBVIOUS
  <2>1. m \in sound /\ n \in sound /\ m \in Nat /\ n \in Nat
    <3>1. m \in 1..Len(file) /\ n \in 1..Len(file)
      BY <1>3
    <3>2. m \in Nat /\ n \in Nat
      BY <1>2, <3>1
    <3>3. first \subseteq sound
      OBVIOUS
    <3> HIDE DEF first, sound
    <3> QED
      BY <3>2, <3>3
  <2>2. /\ \A k \in sound : k < m => Key(file[k]) # Key(file[m])
        /\ \A k \in sound : k < n => Key(file[k]) # Key(file[n])
    OBVIOUS
  <2>3. ~(m < n) /\ ~(n < m)
    BY <2>1, <2>2
  <2> QED
    BY <2>1, <2>3
<1> HIDE DEF sound, first
<1>5. IsFiniteSet(Merge(file))
  <2>1. IsFiniteSet(first)
    <3>1. IsFiniteSet(1..Len(file))
      BY <1>2, FS_Interval
    <3> QED
      BY <1>3, <3>1, FS_Subset
  <2>2. [n \in first |-> file[n]] \in Surjection(first, Merge(file))
    BY <1>1, Zenon DEF Surjection
  <2> QED
    BY <2>1, <2>2, FS_Surjection
<1>6. \A a \in Merge(file) : \E n \in first : a = file[n]
  BY <1>1
<1>7. Merge(file) \subseteq Entries /\ \A a \in Merge(file) : validate(a, TRUE)
  BY <1>2, <1>3, <1>6
<1>8. \A a, b \in Merge(file) : Key(a) = Key(b) => a = b
  BY <1>4, <1>6
<1> QED
  BY <1>5, <1>7, <1>8

-----------------------------------------------------------------------------
(* The steps.                                                              *)

\* What a row was validated as is what an update has looked at, unless it is
\* marked.
LEMMA UpdateWriteStep ==
    ASSUME ListInv, NEW r \in Requests, UpdateWrite(r)
    PROVE  /\ filter_list' \in Seq(ListRows) /\ DOMAIN filter_list' = DOMAIN filter_list
           /\ \A n \in DOMAIN filter_list' : Legal(filter_list'[n])
           /\ \A n \in DOMAIN filter_list' :
                filter_list'[n] = filter_list[n] \/ ~filter_list'[n].here \/ filter_list'[n].by = "hand"
           /\ request' = [request EXCEPT ![r] = Free] /\ UNCHANGED import
<1> DEFINE u == request[r]
           row == filter_list[u.id]
           m == Merged(u.new, u.old, row.entry)
           new == IF row.here THEN [entry |-> m, by |-> "hand", here |-> TRUE,
                                    mixed |-> row.mixed \/ row.entry # u.old]
                  ELSE Deleted
<1>1. /\ u.doing = "update" /\ request' = [request EXCEPT ![r] = Free] /\ UNCHANGED import
      /\ filter_list' = [filter_list EXCEPT ![u.id] = new]
  BY DEF UpdateWrite, Merged
<1>2. /\ u.id \in DOMAIN filter_list /\ u.new \in Entries /\ validate(u.new, FALSE)
  BY <1>1 DEF ListInv, RequestOK
<1>3. row \in ListRows /\ Legal(row) /\ filter_list \in Seq(ListRows)
  BY <1>2 DEF ListInv
<1>4. row.here => row.entry \in Entries /\ m \in Entries /\ (row.entry = u.old => m = u.new)
  BY <1>2, <1>3, MergedEntry DEF Legal
<1> HIDE DEF u, m
<1>5. new \in ListRows /\ Legal(new) /\ (~new.here \/ new.by = "hand")
  <2>1. CASE row.here
    <3>1. row.mixed \in BOOLEAN
      BY <1>3 DEF ListRows
    <3>2. new = [entry |-> m, by |-> "hand", here |-> TRUE, mixed |-> row.mixed \/ row.entry # u.old]
      BY <2>1
    <3> HIDE DEF row, new
    <3>3. new \in ListRows /\ new.by = "hand" /\ new.entry = m
          /\ (~new.mixed => row.entry = u.old)
      BY <1>4, <2>1, <3>1, <3>2 DEF ListRows
    <3> QED
      BY <1>2, <1>4, <2>1, <3>3 DEF Legal
  <2>2. CASE ~row.here
    BY <2>2 DEF Deleted, ListRows, Legal
  <2> QED
    BY <2>1, <2>2
<1> HIDE DEF row, new
<1>6. /\ filter_list' \in Seq(ListRows) /\ DOMAIN filter_list' = DOMAIN filter_list
      /\ filter_list'[u.id] = new /\ \A n \in DOMAIN filter_list : n # u.id => filter_list'[n] = filter_list[n]
  BY <1>1, <1>2, <1>3, <1>5
<1>7. \A n \in DOMAIN filter_list' : Legal(filter_list'[n])
  BY <1>5, <1>6 DEF ListInv
<1>8. \A n \in DOMAIN filter_list' :
        filter_list'[n] = filter_list[n] \/ ~filter_list'[n].here \/ filter_list'[n].by = "hand"
  BY <1>5, <1>6
<1> QED
  BY <1>1, <1>6, <1>7, <1>8

\* The threads' part of the invariant, when one of them has done something.
LEMMA RequestsStay ==
    ASSUME ListInv, NEW r \in Requests \union Tools, NEW v,
           DOMAIN filter_list \subseteq DOMAIN filter_list',
           request' = [request EXCEPT ![r] = v], RequestOK(r)'
    PROVE  DOMAIN request' = Requests \union Tools /\ \A s \in Requests \union Tools : RequestOK(s)'
<1>1. DOMAIN request = Requests \union Tools
  BY DEF ListInv
<1>2. \A s \in Requests \union Tools : s # r => request'[s] = request[s]
  BY <1>1
<1> QED
  BY <1>1, <1>2 DEF ListInv, RequestOK

LEMMA ConfirmedIsEntry == \A text \in Confirmed : ConfirmedEntry(text) \in Entries
<1> SUFFICES ASSUME NEW text \in Confirmed PROVE ConfirmedEntry(text) \in Entries
  OBVIOUS
<1>1. text \in Texts /\ Lower(text.name) \in Seq(Labels)
  <2>1. text \in Texts
    BY ConfirmedAssumption
  <2>2. text.name \in Seq(Labels)
    BY <2>1 DEF Texts
  <2>3. \A n \in DOMAIN text.name : Label(text.name[n].word) \in Labels
    <3>1. \A n \in DOMAIN text.name : text.name[n] \in Labels
      BY <2>2
    <3>2. \A l \in Labels : Label(l.word) \in Labels
      BY DEF Label, Labels
    <3> QED
      BY <3>1, <3>2
  <2>4. DOMAIN text.name = 1..Len(text.name) /\ Len(text.name) \in Nat
    BY <2>2
  <2>5. Lower(text.name) \in [1..Len(text.name) -> Labels]
    BY <2>3, <2>4 DEF Lower
  <2> QED
    BY <2>1, <2>4, <2>5
<1>2. [text EXCEPT !.name = Lower(@)] \in Texts
  BY <1>1 DEF Texts
<1> QED
  BY <1>2 DEF ConfirmedEntry, Entries

LEMMA ListStep == ListInv /\ [Next]_adminVars => ListInv'
<1> SUFFICES ASSUME ListInv, [Next]_adminVars PROVE ListInv'
  OBVIOUS
<1>1. filter_list \in Seq(ListRows) /\ DOMAIN request = Requests \union Tools
  BY DEF ListInv
<1>2. ASSUME UNCHANGED <<request, import>>, filter_list' \in Seq(ListRows),
             DOMAIN filter_list \subseteq DOMAIN filter_list',
             \A n \in DOMAIN filter_list' : Legal(filter_list'[n])
      PROVE  ListInv'
  BY <1>2 DEF ListInv, RequestOK, ImportOK
<1>3. ASSUME NEW e \in Typed, create_item(e) PROVE ListInv'
  <2>1. e \in Entries /\ validate(e, FALSE)
    BY <1>3, TypedAssumption DEF create_item, Entries
  <2> QED
    BY <1>2, <1>3, <2>1, OneRow, InsertLegal DEF create_item
<1>4. ASSUME NEW r \in Requests, NEW id \in Stored, NEW e \in Typed, UpdateRead(r, id, e) PROVE ListInv'
  <2>1. e \in Entries /\ validate(e, FALSE) /\ id \in DOMAIN filter_list
    BY <1>4, TypedAssumption DEF UpdateRead, Entries, Stored
  <2> DEFINE v == [doing |-> "update", id |-> id, old |-> filter_list[id].entry, new |-> e]
  <2>2. request' = [request EXCEPT ![r] = v] /\ filter_list' = filter_list /\ import' = import
    BY <1>4 DEF UpdateRead
  <2>3. RequestOK(r)'
    BY <1>1, <2>1, <2>2 DEF RequestOK
  <2> HIDE DEF v
  <2>4. DOMAIN request' = Requests \union Tools /\ \A s \in Requests \union Tools : RequestOK(s)'
    BY <2>2, <2>3, RequestsStay
  <2> QED
    BY <2>2, <2>4 DEF ListInv, ImportOK
<1>5. ASSUME NEW r \in Requests, UpdateWrite(r) PROVE ListInv'
  <2>1. /\ filter_list' \in Seq(ListRows) /\ DOMAIN filter_list' = DOMAIN filter_list
        /\ \A n \in DOMAIN filter_list' : Legal(filter_list'[n])
        /\ request' = [request EXCEPT ![r] = Free] /\ UNCHANGED import
    BY <1>5, UpdateWriteStep
  <2>2. RequestOK(r)'
    BY <1>1, <2>1 DEF RequestOK, Free
  <2>3. DOMAIN request' = Requests \union Tools /\ \A s \in Requests \union Tools : RequestOK(s)'
    BY <2>1, <2>2, RequestsStay
  <2> QED
    BY <2>1, <2>3 DEF ListInv, ImportOK
<1>6. ASSUME NEW id \in Stored, delete_item(id) PROVE ListInv'
  <2>1. id \in DOMAIN filter_list /\ filter_list' = [filter_list EXCEPT ![id] = Deleted]
    BY <1>6 DEF delete_item, Stored
  <2>2. Deleted \in ListRows /\ Legal(Deleted)
    BY DEF Deleted, ListRows, Legal
  <2>3. filter_list' \in Seq(ListRows) /\ DOMAIN filter_list' = DOMAIN filter_list
    BY <1>1, <2>1, <2>2
  <2>4. \A n \in DOMAIN filter_list' : Legal(filter_list'[n])
    BY <1>1, <2>1, <2>2 DEF ListInv
  <2> QED
    BY <1>2, <1>6, <2>3, <2>4 DEF delete_item
<1>7. ASSUME NEW e \in Typed, NEW f \in Typed, ImportRead(<<e, f>>) PROVE ListInv'
  <2>1. import'.new \subseteq Merge(<<e, f>>) /\ UNCHANGED <<filter_list, request>>
    BY <1>7 DEF ImportRead
  <2>2. <<e, f>> \in Seq(Typed)
    OBVIOUS
  <2>3. ImportOK'
    BY <2>1, <2>2, MergeSound, FS_Subset DEF ImportOK
  <2> QED
    BY <2>1, <2>3 DEF ListInv, RequestOK
<1>8. CASE ImportWrite
  <2> DEFINE t == SetToSeq({Row(e, "import") : e \in import.new})
  <2>1. t \in Seq(ListRows) /\ \A k \in DOMAIN t : Legal(t[k])
    BY ImportedRows DEF ListInv
  <2>2. Insert(t) /\ import' = NoImport /\ request' = request
    BY <1>8 DEF ImportWrite
  <2> HIDE DEF t
  <2>3. /\ filter_list' \in Seq(ListRows) /\ DOMAIN filter_list \subseteq DOMAIN filter_list'
        /\ \A n \in DOMAIN filter_list' : Legal(filter_list'[n])
    BY <2>1, <2>2, InsertLegal
  <2>4. ImportOK'
    BY <2>2, FS_EmptySet DEF NoImport, ImportOK
  <2> QED
    BY <2>2, <2>3, <2>4 DEF ListInv, RequestOK
<1>9. ASSUME NEW t \in Tools, NEW e \in Typed, ToolFind(t, e) PROVE ListInv'
  <2> DEFINE v == [Free EXCEPT !.doing = "create", !.new = e]
  <2>1. request' = [request EXCEPT ![t] = v] /\ UNCHANGED <<filter_list, import>> /\ e \in Entries
    BY <1>9, TypedAssumption DEF ToolFind, Entries
  <2>2. RequestOK(t)'
    BY <1>1, <2>1 DEF RequestOK, Free
  <2> HIDE DEF v
  <2>3. DOMAIN request' = Requests \union Tools /\ \A s \in Requests \union Tools : RequestOK(s)'
    BY <2>1, <2>2, RequestsStay
  <2> QED
    BY <2>1, <2>3 DEF ListInv, ImportOK
<1>10. ASSUME NEW t \in Tools, ToolCreate(t) PROVE ListInv'
  <2> DEFINE e == request[t].new
  <2>1. e \in Entries /\ request' = [request EXCEPT ![t] = Free] /\ UNCHANGED import
    BY <1>10 DEF ToolCreate, ListInv, RequestOK
  <2>2. /\ filter_list' \in Seq(ListRows) /\ DOMAIN filter_list \subseteq DOMAIN filter_list'
        /\ \A n \in DOMAIN filter_list' : Legal(filter_list'[n])
    <3>1. CASE validate(e, FALSE)
      BY <1>10, <2>1, <3>1, OneRow, InsertLegal DEF ToolCreate
    <3>2. CASE ~validate(e, FALSE)
      BY <1>10, <3>2 DEF ToolCreate, ListInv
    <3> QED
      BY <3>1, <3>2
  <2>3. RequestOK(t)'
    BY <1>1, <2>1 DEF RequestOK, Free
  <2>4. DOMAIN request' = Requests \union Tools /\ \A s \in Requests \union Tools : RequestOK(s)'
    BY <2>1, <2>2, <2>3, RequestsStay
  <2> QED
    BY <2>1, <2>2, <2>4 DEF ListInv, ImportOK
<1>11. ASSUME NEW r \in Requests, NEW text \in Confirmed, ConfirmLook(r, text) PROVE ListInv'
  <2> DEFINE v == [Free EXCEPT !.doing = "confirm", !.new = ConfirmedEntry(text)]
  <2>1. request' = [request EXCEPT ![r] = v] /\ UNCHANGED <<filter_list, import>>
    BY <1>11 DEF ConfirmLook
  <2>2. ConfirmedEntry(text) \in Entries
    BY ConfirmedIsEntry
  <2>3. RequestOK(r)'
    BY <1>1, <2>1, <2>2 DEF RequestOK, Free
  <2> HIDE DEF v
  <2>4. DOMAIN request' = Requests \union Tools /\ \A s \in Requests \union Tools : RequestOK(s)'
    BY <2>1, <2>3, RequestsStay
  <2> QED
    BY <2>1, <2>4 DEF ListInv, ImportOK
<1>12. ASSUME NEW r \in Requests, ConfirmWrite(r) PROVE ListInv'
  <2> DEFINE e == request[r].new
  <2>1. /\ e \in Entries /\ request' = [request EXCEPT ![r] = Free] /\ UNCHANGED import
        /\ Insert(<<Row(e, "confirm")>>)
    BY <1>12 DEF ConfirmWrite, ListInv, RequestOK
  <2>2. /\ <<Row(e, "confirm")>> \in Seq(ListRows)
        /\ \A k \in DOMAIN <<Row(e, "confirm")>> : Legal(<<Row(e, "confirm")>>[k])
    BY <2>1, OneRow
  <2>3. /\ filter_list' \in Seq(ListRows) /\ DOMAIN filter_list \subseteq DOMAIN filter_list'
        /\ \A n \in DOMAIN filter_list' : Legal(filter_list'[n])
    BY <2>1, <2>2, InsertLegal
  <2>4. RequestOK(r)'
    BY <1>1, <2>1 DEF RequestOK, Free
  <2>5. DOMAIN request' = Requests \union Tools /\ \A s \in Requests \union Tools : RequestOK(s)'
    BY <2>1, <2>3, <2>4, RequestsStay
  <2> QED
    BY <2>1, <2>3, <2>5 DEF ListInv, ImportOK
<1>13. CASE UNCHANGED adminVars
  BY <1>2, <1>13 DEF adminVars, ListInv
<1> QED
  BY <1>3, <1>4, <1>5, <1>6, <1>7, <1>8, <1>9, <1>10, <1>11, <1>12, <1>13 DEF Next, Start

\* What create, update, import and the tools refuse is in no row of theirs, for
\* any entries and any table of suffixes and whatever confirm_whitelist adds
\* beside them; but where two updates of a row overlapped.
THEOREM ListsAreLegal == Spec => []RowsAreLegal
BY ListStart, ListStep, ListInvImplies, PTL DEF Spec

-----------------------------------------------------------------------------
(* What an import or a tool adds it has looked for before.                 *)

AddInv ==
    /\ AddedOnce
    /\ \A n \in Stored, e \in import.new :
          filter_list[n].by = "import" => Key(Entry(n)) # Key(e)
    /\ \A t \in Tools : request[t].doing = "create" =>
          \A n \in Stored : filter_list[n].by = "tool" => Key(Entry(n)) # Key(request[t].new)

LEMMA AddStart == Init => AddInv
BY DEF Init, AddInv, AddedOnce, Stored, NoImport

\* Steps that add nothing but by hand or by a confirmation.
LEMMA ByHandStep ==
    ASSUME AddInv, UNCHANGED import,
           \A n \in DOMAIN filter_list' :
                \/ n \in DOMAIN filter_list /\ filter_list'[n] = filter_list[n]
                \/ ~filter_list'[n].here \/ filter_list'[n].by \in {"hand", "confirm"},
           \A t \in Tools : request'[t].doing = "create" => request'[t] = request[t]
    PROVE  AddInv'
<1>1. \A n \in Stored' : filter_list'[n].by \in {"import", "tool"} => n \in Stored /\ filter_list'[n] = filter_list[n]
  BY DEF Stored
<1>2. AddedOnce'
  BY <1>1 DEF AddInv, AddedOnce, Entry
<1>3. \A n \in Stored', e \in import'.new :
          filter_list'[n].by = "import" => Key(Entry(n)') # Key(e)
  BY <1>1 DEF AddInv, Entry
<1>4. \A t \in Tools : request'[t].doing = "create" =>
          \A n \in Stored' : filter_list'[n].by = "tool" => Key(Entry(n)') # Key(request'[t].new)
  BY <1>1 DEF AddInv, Entry
<1> QED
  BY <1>2, <1>3, <1>4 DEF AddInv

LEMMA ImportWriteAdds ==
    ASSUME ListInv, AddInv, ImportWrite
    PROVE  AddInv'
<1> DEFINE t == SetToSeq({Row(e, "import") : e \in import.new})
<1>1. /\ t \in Seq(ListRows) /\ IsInjective(t)
      /\ \A k \in DOMAIN t : \E e \in import.new : t[k] = Row(e, "import")
  BY ImportedRows DEF ListInv
<1>2. filter_list' = filter_list \o t /\ import' = NoImport /\ request' = request
  BY DEF ImportWrite, Insert
<1> HIDE DEF t
<1>3. filter_list \in Seq(ListRows) /\ ImportOK
  BY DEF ListInv
<1>4. /\ \A n \in DOMAIN filter_list : filter_list'[n] = filter_list[n]
      /\ DOMAIN filter_list \subseteq DOMAIN filter_list'
      /\ \A n \in DOMAIN filter_list' \ DOMAIN filter_list : \E k \in DOMAIN t : filter_list'[n] = t[k]
      /\ \A m, n \in DOMAIN filter_list' \ DOMAIN filter_list : filter_list'[m] = filter_list'[n] => m = n
  BY <1>1, <1>2, <1>3, AddedRows
<1>5. \A n \in Stored' :
        \/ n \in Stored /\ filter_list'[n] = filter_list[n]
        \/ /\ n \in DOMAIN filter_list' \ DOMAIN filter_list
           /\ \E e \in import.new : filter_list'[n] = Row(e, "import")
  BY <1>1, <1>4 DEF Stored
<1>6. \A e : Row(e, "import").by = "import" /\ Row(e, "import").entry = e
  BY DEF Row
<1>7. AddedOnce'
  <2> SUFFICES ASSUME NEW m \in Stored', NEW n \in Stored',
                      filter_list'[m].by = filter_list'[n].by,
                      filter_list'[m].by \in {"import", "tool"},
                      Key(filter_list'[m].entry) = Key(filter_list'[n].entry)
               PROVE  m = n
    BY DEF AddedOnce, Entry
  <2>1. CASE m \in Stored /\ n \in Stored
    BY <1>4, <2>1 DEF AddInv, AddedOnce, Entry, Stored
  <2>2. CASE m \notin Stored /\ n \notin Stored
    <3>1. PICK e \in import.new : filter_list'[m] = Row(e, "import")
      BY <1>5, <2>2
    <3>2. PICK f \in import.new : filter_list'[n] = Row(f, "import")
      BY <1>5, <2>2
    <3>3. e = f
      BY <1>3, <1>6, <3>1, <3>2 DEF ImportOK
    <3> QED
      BY <1>4, <1>5, <2>2, <3>1, <3>2, <3>3
  <2>3. ASSUME NEW a \in Stored', NEW b \in Stored', a \in Stored, b \notin Stored,
               filter_list'[a].by = filter_list'[b].by,
               Key(filter_list'[a].entry) = Key(filter_list'[b].entry)
        PROVE  FALSE
    <3>1. PICK e \in import.new : filter_list'[b] = Row(e, "import")
      BY <1>5, <2>3
    <3>2. filter_list'[a] = filter_list[a]
      BY <1>4, <2>3 DEF Stored
    <3> QED
      BY <1>6, <2>3, <3>1, <3>2 DEF AddInv, Entry
  <2> QED
    BY <2>1, <2>2, <2>3
<1>8. \A u \in Tools : request'[u].doing = "create" =>
          \A n \in Stored' : filter_list'[n].by = "tool" => Key(Entry(n)') # Key(request'[u].new)
  BY <1>2, <1>5, <1>6, ZenonT(60) DEF AddInv, Entry
<1>9. import'.new = {}
  BY <1>2 DEF NoImport
<1> QED
  BY <1>7, <1>8, <1>9 DEF AddInv

LEMMA ToolCreateAdds ==
    ASSUME \A t, u \in Tools : t = u, ListInv, AddInv, NEW t \in Tools, ToolCreate(t)
    PROVE  AddInv'
<1> DEFINE e == request[t].new
           row == Row(e, "tool")
<1>1. /\ request[t].doing = "create" /\ request' = [request EXCEPT ![t] = Free] /\ UNCHANGED import
      /\ DOMAIN request = Requests \union Tools /\ filter_list \in Seq(ListRows) /\ e \in Entries
  BY DEF ToolCreate, ListInv, RequestOK
<1>2. \A u \in Tools : request'[u].doing = "nothing"
  BY <1>1 DEF Free
<1>3. CASE validate(e, FALSE)
  <2>1. filter_list' = filter_list \o <<row>>
    BY <1>3 DEF ToolCreate, Insert
  <2>2. <<row>> \in Seq(ListRows) /\ IsInjective(<<row>>) /\ \A k \in DOMAIN <<row>> : <<row>>[k] = row
    <3>1. row \in ListRows
      BY <1>1, <1>3, OneRow
    <3> HIDE DEF row
    <3> QED
      BY <3>1, OneRowOnce
  <2>3. row.by = "tool" /\ row.entry = e
    BY DEF Row
  <2> HIDE DEF row
  <2>4. \A n \in Stored' :
          \/ n \in Stored /\ filter_list'[n] = filter_list[n]
          \/ n \in DOMAIN filter_list' \ DOMAIN filter_list /\ filter_list'[n] = row
    BY <1>1, <2>1, <2>2, AddedRows DEF Stored
  <2>5. \A m, n \in DOMAIN filter_list' \ DOMAIN filter_list : filter_list'[m] = filter_list'[n] => m = n
    BY <1>1, <2>1, <2>2, AddedRows
  <2>6. \A n \in Stored : filter_list[n].by = "tool" => Key(filter_list[n].entry) # Key(e)
    BY <1>1 DEF AddInv, Entry
  <2>7. AddedOnce'
    BY <2>3, <2>4, <2>5, <2>6 DEF AddInv, AddedOnce, Entry
  <2>8. \A n \in Stored', f \in import'.new :
          filter_list'[n].by = "import" => Key(Entry(n)') # Key(f)
    BY <1>1, <2>3, <2>4 DEF AddInv, Entry
  <2> QED
    BY <1>2, <2>7, <2>8 DEF AddInv
<1>4. CASE ~validate(e, FALSE)
  <2>1. filter_list' = filter_list
    BY <1>4 DEF ToolCreate
  <2> QED
    BY <1>1, <1>2, <2>1, ByHandStep
<1> QED
  BY <1>3, <1>4

LEMMA AddStep ==
    ASSUME "api" \notin ToolFaults, \A t, u \in Tools : t = u, ListInv, AddInv, [Next]_adminVars
    PROVE  AddInv'
<1>1. DOMAIN request = Requests \union Tools /\ filter_list \in Seq(ListRows)
  BY DEF ListInv
<1>2. ASSUME NEW e \in Typed, create_item(e) PROVE AddInv'
  <2>1. /\ filter_list' = filter_list \o <<Row(e, "hand")>> /\ UNCHANGED <<request, import>>
        /\ e \in Entries /\ validate(e, FALSE)
    BY <1>2, TypedAssumption DEF create_item, Insert, Entries
  <2>2. <<Row(e, "hand")>> \in Seq(ListRows) /\ \A k \in DOMAIN <<Row(e, "hand")>> : <<Row(e, "hand")>>[k].by = "hand"
    <3>1. Row(e, "hand") \in ListRows
      BY <2>1, OneRow
    <3>2. Row(e, "hand").by = "hand"
      BY DEF Row
    <3> QED
      BY <3>1, <3>2, OneRowOnce
  <2>3. \A n \in DOMAIN filter_list' :
          \/ n \in DOMAIN filter_list /\ filter_list'[n] = filter_list[n]
          \/ filter_list'[n].by = "hand"
    BY <1>1, <2>1, <2>2, AddedRows
  <2> QED
    BY <2>1, <2>3, ByHandStep
<1>3. ASSUME NEW r \in Requests, NEW id \in Stored, NEW e \in Typed, UpdateRead(r, id, e) PROVE AddInv'
  <2>1. \A t \in Tools : request'[t] = request[t]
    BY <1>1, <1>3, ThreadAssumption DEF UpdateRead
  <2> QED
    BY <1>3, <2>1, ByHandStep DEF UpdateRead
<1>4. ASSUME NEW r \in Requests, UpdateWrite(r) PROVE AddInv'
  <2>1. /\ DOMAIN filter_list' = DOMAIN filter_list /\ UNCHANGED import
        /\ \A n \in DOMAIN filter_list' :
             filter_list'[n] = filter_list[n] \/ ~filter_list'[n].here \/ filter_list'[n].by = "hand"
        /\ request' = [request EXCEPT ![r] = Free]
    BY <1>4, UpdateWriteStep
  <2>2. \A t \in Tools : request'[t] = request[t]
    BY <1>1, <2>1, ThreadAssumption
  <2> QED
    BY <2>1, <2>2, ByHandStep
<1>5. ASSUME NEW id \in Stored, delete_item(id) PROVE AddInv'
  <2>1. filter_list' = [filter_list EXCEPT ![id] = Deleted] /\ UNCHANGED <<request, import>>
    BY <1>5 DEF delete_item
  <2>2. Deleted.by = "hand"
    BY DEF Deleted
  <2> QED
    BY <2>1, <2>2, ByHandStep
<1>6. ASSUME NEW e \in Typed, NEW f \in Typed, ImportRead(<<e, f>>) PROVE AddInv'
  BY <1>6 DEF ImportRead, AddInv, AddedOnce, Stored, Entry
<1>7. ASSUME NEW t \in Tools, NEW e \in Typed, ToolFind(t, e) PROVE AddInv'
  <2>1. /\ request' = [request EXCEPT ![t] = [Free EXCEPT !.doing = "create", !.new = e]]
        /\ UNCHANGED <<filter_list, import>>
        /\ \A n \in Stored : Key(filter_list[n].entry) # Key(e)
    BY <1>7 DEF ToolFind
  <2>2. \A u \in Tools : request'[u].new = e
    BY <1>1, <2>1 DEF Free
  <2> QED
    BY <2>1, <2>2 DEF AddInv, AddedOnce, Stored, Entry
<1>8. ASSUME NEW r \in Requests, NEW text \in Confirmed, ConfirmLook(r, text) PROVE AddInv'
  <2>1. \A t \in Tools : request'[t] = request[t]
    BY <1>1, <1>8, ThreadAssumption DEF ConfirmLook
  <2> QED
    BY <1>8, <2>1, ByHandStep DEF ConfirmLook
<1>9. ASSUME NEW r \in Requests, ConfirmWrite(r) PROVE AddInv'
  <2> DEFINE row == Row(request[r].new, "confirm")
  <2>1. /\ filter_list' = filter_list \o <<row>> /\ UNCHANGED import
        /\ request[r].new \in Entries /\ request' = [request EXCEPT ![r] = Free]
    BY <1>9 DEF ConfirmWrite, Insert, ListInv, RequestOK
  <2>2. row \in ListRows /\ row.by = "confirm"
    BY <2>1, OneRow DEF Row
  <2> HIDE DEF row
  <2>3. <<row>> \in Seq(ListRows) /\ \A k \in DOMAIN <<row>> : <<row>>[k].by = "confirm"
    BY <2>2, OneRowOnce
  <2>4. \A n \in DOMAIN filter_list' :
          \/ n \in DOMAIN filter_list /\ filter_list'[n] = filter_list[n]
          \/ filter_list'[n].by = "confirm"
    BY <1>1, <2>1, <2>3, AddedRows
  <2>5. \A t \in Tools : request'[t] = request[t]
    BY <1>1, <2>1, ThreadAssumption
  <2> QED
    BY <2>1, <2>4, <2>5, ByHandStep
<1>10. CASE UNCHANGED adminVars
  BY <1>10, ByHandStep DEF adminVars
<1> QED
  BY <1>2, <1>3, <1>4, <1>5, <1>6, <1>7, <1>8, <1>9, <1>10, ImportWriteAdds, ToolCreateAdds DEF Next, Start

\* Imports add no entry twice, and neither does a tool: with one session of
\* the tools, and a platform that answers it.
THEOREM AddsOnce ==
    ASSUME "api" \notin ToolFaults, \A t, u \in Tools : t = u
    PROVE  Spec => []AddedOnce
<1>1. ListInv /\ AddInv /\ [Next]_adminVars => (ListInv /\ AddInv)'
  BY ListStep, AddStep
<1>2. AddInv => AddedOnce
  BY DEF AddInv
<1> QED
  BY <1>1, <1>2, ListStart, AddStart, PTL DEF Spec

-----------------------------------------------------------------------------
(***************************************************************************)
(* What an import lets in is about one owner.  The names below an entry    *)
(* that is no public suffix have the public suffix of the entry, and so    *)
(* its owner: no longer suffix of the table can begin above the entry and  *)
(* end below it.                                                           *)
(***************************************************************************)

\* A tail of a suffix, of two labels or more, is a suffix too.  The table in
\* the code has no suffix of more than two.
SuffixesClosed ==
    \A s \in PublicSuffixes : Len(s) <= 5 =>
        \A t \in TailsOf(s) : Len(t) >= 2 => t \in PublicSuffixes

Ending(d, k) == SubSeq(d, Len(d) - k + 1, Len(d))
EndsWith(a, d) == Len(d) <= Len(a) /\ \A i \in 1..Len(d) : a[Len(a) - Len(d) + i] = d[i]
Listed(d) == {t \in TailsOf(d) : t \in PublicSuffixes /\ Len(t) <= 5}

LEMMA SameNames ==
    ASSUME NEW s \in Seq(Labels), NEW t \in Seq(Labels), Len(s) = Len(t),
           \A i \in 1..Len(s) : s[i] = t[i]
    PROVE  s = t
OBVIOUS

LEMMA EndingIs ==
    ASSUME NEW d \in Seq(Labels), NEW k \in 1..Len(d)
    PROVE  /\ Ending(d, k) \in Seq(Labels) /\ Len(Ending(d, k)) = k
           /\ \A i \in 1..k : Ending(d, k)[i] = d[Len(d) - k + i]
<1>1. Len(d) \in Nat /\ k \in Nat /\ 1 <= k /\ k <= Len(d) /\ Len(d) - k + 1 \in 1..Len(d)
  OBVIOUS
<1>2. Ending(d, k) = [i \in 1..k |-> d[i + (Len(d) - k + 1) - 1]]
  BY <1>1 DEF Ending
<1>3. \A i \in 1..k : i + (Len(d) - k + 1) - 1 = Len(d) - k + i /\ Len(d) - k + i \in 1..Len(d)
  BY <1>1
<1>4. \A i \in 1..k : d[i + (Len(d) - k + 1) - 1] \in Labels
  BY <1>3
<1> QED
  BY <1>1, <1>2, <1>3, <1>4

LEMMA TailsAreEndings ==
    ASSUME NEW d \in Seq(Labels)
    PROVE  TailsOf(d) = {Ending(d, k) : k \in 1..Len(d)}
<1>1. \A k \in 1..Len(d) : Ending(d, k) # <<>>
  BY EndingIs
<1>2. Suffixes(d) = {SubSeq(d, l, Len(d)) : l \in 1..Len(d)} \union {<<>>}
  BY DEF Suffixes
<1>3. \A l \in 1..Len(d) : Len(d) - l + 1 \in 1..Len(d) /\ SubSeq(d, l, Len(d)) = Ending(d, Len(d) - l + 1)
  BY DEF Ending
<1>4. \A k \in 1..Len(d) : Len(d) - k + 1 \in 1..Len(d) /\ Ending(d, k) = SubSeq(d, Len(d) - k + 1, Len(d))
  BY DEF Ending
<1>5. TailsOf(d) \subseteq {Ending(d, k) : k \in 1..Len(d)}
  BY <1>2, <1>3 DEF TailsOf
<1>6. \A k \in 1..Len(d) : Ending(d, k) \in TailsOf(d)
  <2> TAKE k \in 1..Len(d)
  <2>1. Ending(d, k) \in Suffixes(d)
    BY <1>2, <1>4
  <2> QED
    BY <1>1, <2>1 DEF TailsOf
<1> QED
  BY <1>5, <1>6

LEMMA SameEndings ==
    ASSUME NEW a \in Seq(Labels), NEW d \in Seq(Labels), EndsWith(a, d), NEW k \in 1..Len(d)
    PROVE  k \in 1..Len(a) /\ Ending(a, k) = Ending(d, k)
<1>1. Len(a) \in Nat /\ Len(d) \in Nat /\ Len(d) <= Len(a) /\ k \in Nat /\ k \in 1..Len(a) /\ k <= Len(d)
  BY DEF EndsWith
<1>2. \A i \in 1..k : a[Len(a) - k + i] = d[Len(d) - k + i]
  <2> TAKE i \in 1..k
  <2>1. Len(d) - k + i \in 1..Len(d) /\ Len(a) - Len(d) + (Len(d) - k + i) = Len(a) - k + i
    BY <1>1
  <2> QED
    BY <2>1 DEF EndsWith
<1>3. /\ Ending(a, k) \in Seq(Labels) /\ Len(Ending(a, k)) = k
      /\ \A i \in 1..k : Ending(a, k)[i] = a[Len(a) - k + i]
  BY <1>1, EndingIs
<1>4. /\ Ending(d, k) \in Seq(Labels) /\ Len(Ending(d, k)) = k
      /\ \A i \in 1..k : Ending(d, k)[i] = d[Len(d) - k + i]
  BY EndingIs
<1>5. \A i \in 1..Len(Ending(a, k)) : Ending(a, k)[i] = Ending(d, k)[i]
  BY <1>2, <1>3, <1>4
<1>6. Ending(a, k) = Ending(d, k)
  BY <1>3, <1>4, <1>5, SameNames
<1> QED
  BY <1>1, <1>6

LEMMA WholeEnding ==
    ASSUME NEW d \in Seq(Labels), d # <<>>
    PROVE  Ending(d, Len(d)) = d
<1>1. Len(d) \in 1..Len(d) /\ Len(d) \in Nat
  OBVIOUS
<1>2. /\ Ending(d, Len(d)) \in Seq(Labels) /\ Len(Ending(d, Len(d))) = Len(d)
      /\ \A i \in 1..Len(d) : Ending(d, Len(d))[i] = d[Len(d) - Len(d) + i]
  BY <1>1, EndingIs
<1>3. \A i \in 1..Len(d) : Len(d) - Len(d) + i = i
  BY <1>1
<1> QED
  BY <1>2, <1>3, SameNames

\* A tail of a name that is as long as one it ends with, or longer, ends with
\* it too.
LEMMA TailOfTail ==
    ASSUME NEW a \in Seq(Labels), NEW d \in Seq(Labels), d # <<>>, EndsWith(a, d),
           NEW k \in 1..Len(a), Len(d) <= k
    PROVE  d \in TailsOf(Ending(a, k))
<1> DEFINE s == Ending(a, k)
<1>1. Len(d) \in Nat /\ Len(a) \in Nat /\ 1 <= Len(d) /\ Len(d) <= k /\ k \in Nat /\ k <= Len(a)
  BY DEF EndsWith
<1>2. s \in Seq(Labels) /\ Len(s) = k /\ \A i \in 1..k : s[i] = a[Len(a) - k + i]
  BY EndingIs
<1> HIDE DEF s
<1>3. Len(d) \in 1..Len(s)
  BY <1>1, <1>2
<1>4. \A i \in 1..Len(d) : s[k - Len(d) + i] = d[i]
  <2> TAKE i \in 1..Len(d)
  <2>1. k - Len(d) + i \in 1..k /\ Len(a) - k + (k - Len(d) + i) = Len(a) - Len(d) + i
    BY <1>1
  <2> QED
    BY <1>2, <2>1 DEF EndsWith
<1>5. EndsWith(s, d)
  BY <1>1, <1>2, <1>4 DEF EndsWith
<1>6. Ending(s, Len(d)) = Ending(d, Len(d))
  BY <1>2, <1>1, <1>5, SameEndings
<1>7. Ending(d, Len(d)) = d
  BY WholeEnding
<1>8. s \in Seq(Labels) => TailsOf(s) = {Ending(s, j) : j \in 1..Len(s)}
  BY TailsAreEndings
<1> QED
  BY <1>2, <1>3, <1>6, <1>7, <1>8 DEF s

LEMMA LongestIs ==
    ASSUME NEW d \in Seq(Labels), Listed(d) # {}
    PROVE  Longest(Listed(d)) \in Listed(d) /\ \A t \in Listed(d) : Len(t) <= Len(Longest(Listed(d)))
<1>1. TailsOf(d) = {Ending(d, k) : k \in 1..Len(d)}
  BY TailsAreEndings
<1>2. \A t \in Listed(d) : Len(t) \in Nat /\ Len(t) <= 5
  BY <1>1, EndingIs DEF Listed
<1> DEFINE T == {5 - Len(t) : t \in Listed(d)}
<1>3. T \in SUBSET Nat /\ T # {}
  BY <1>2
<1>4. PICK i \in T : \A j \in T : i <= j
  BY <1>3, Smallest
<1>5. PICK s \in Listed(d) : i = 5 - Len(s)
  BY <1>4
<1>6. \A t \in Listed(d) : Len(t) <= Len(s)
  <2> TAKE t \in Listed(d)
  <2>1. 5 - Len(t) \in T
    OBVIOUS
  <2> HIDE DEF T
  <2> QED
    BY <1>2, <1>4, <1>5, <2>1
<1> QED
  BY <1>6 DEF Longest

LEMMA SuffixIs ==
    ASSUME NEW d \in Seq(Labels), d # <<>>
    PROVE  /\ public_suffix(d) = IF Listed(d) # {} THEN Longest(Listed(d)) ELSE <<Last(d)>>
           /\ Len(public_suffix(d)) \in 1..Len(d)
           /\ public_suffix(d) = Ending(d, Len(public_suffix(d)))
<1>1. public_suffix(d) = IF Listed(d) # {} THEN Longest(Listed(d)) ELSE <<Last(d)>>
  BY DEF public_suffix, Listed
<1>2. \A t \in Listed(d) : Len(t) \in 1..Len(d) /\ t = Ending(d, Len(t))
  <2>1. TailsOf(d) = {Ending(d, k) : k \in 1..Len(d)}
    BY TailsAreEndings
  <2>2. \A k \in 1..Len(d) : Len(Ending(d, k)) = k
    BY EndingIs
  <2> QED
    BY <2>1, <2>2 DEF Listed
<1>3. 1 \in 1..Len(d) /\ Last(d) \in Labels /\ Last(d) = d[Len(d)] /\ Len(d) - 1 + 1 = Len(d)
  BY DEF Last
<1>4. /\ Ending(d, 1) \in Seq(Labels) /\ Len(Ending(d, 1)) = 1
      /\ \A i \in 1..1 : Ending(d, 1)[i] = d[Len(d) - 1 + i]
  BY <1>3, EndingIs
<1>5. Ending(d, 1)[1] = Last(d)
  BY <1>3, <1>4
<1>6. <<Last(d)>> \in Seq(Labels) /\ Len(<<Last(d)>>) = 1 /\ <<Last(d)>>[1] = Last(d)
  BY <1>3
<1>7. <<Last(d)>> = Ending(d, 1)
  BY <1>4, <1>5, <1>6, SameNames
<1>8. CASE Listed(d) # {}
  BY <1>1, <1>2, <1>8, LongestIs
<1>9. CASE Listed(d) = {}
  BY <1>1, <1>3, <1>6, <1>7, <1>9
<1> QED
  BY <1>1, <1>8, <1>9

\* All the names below an entry that is no public suffix have one owner.
LEMMA OneOwner ==
    ASSUME SuffixesClosed, NEW a \in Seq(Labels), NEW d \in Seq(Labels),
           d # <<>>, d # public_suffix(d), EndsWith(a, d)
    PROVE  registrable_domain(a) = registrable_domain(d)
<1>1. Len(d) \in Nat /\ Len(a) \in Nat /\ 1 <= Len(d) /\ Len(d) <= Len(a) /\ a # <<>>
  BY DEF EndsWith
<1>2. /\ TailsOf(d) = {Ending(d, k) : k \in 1..Len(d)}
      /\ TailsOf(a) = {Ending(a, k) : k \in 1..Len(a)}
  BY TailsAreEndings
<1>3. /\ \A k \in 1..Len(d) : Len(Ending(d, k)) = k
      /\ \A k \in 1..Len(a) : Len(Ending(a, k)) = k
      /\ \A k \in 1..Len(d) : k \in 1..Len(a) /\ Ending(a, k) = Ending(d, k)
  BY EndingIs, SameEndings
<1>4. /\ public_suffix(d) = IF Listed(d) # {} THEN Longest(Listed(d)) ELSE <<Last(d)>>
      /\ public_suffix(a) = IF Listed(a) # {} THEN Longest(Listed(a)) ELSE <<Last(a)>>
      /\ Len(public_suffix(d)) \in 1..Len(d) /\ public_suffix(d) = Ending(d, Len(public_suffix(d)))
  BY <1>1, SuffixIs
<1>5. Last(a) = Last(d)
  <2>1. a[Len(a) - Len(d) + Len(d)] = d[Len(d)]
    BY <1>1 DEF EndsWith
  <2> QED
    BY <1>1, <2>1 DEF Last
<1>6. Ending(d, Len(d)) = d
  BY <1>1, WholeEnding
<1>7. Len(public_suffix(d)) < Len(d)
  BY <1>1, <1>4, <1>6
<1>8. ~(d \in PublicSuffixes /\ Len(d) <= 5)
  <2> SUFFICES ASSUME d \in PublicSuffixes, Len(d) <= 5 PROVE FALSE
    OBVIOUS
  <2>1. d \in Listed(d)
    BY <1>1, <1>2, <1>6 DEF Listed
  <2>2. Len(d) <= Len(public_suffix(d))
    BY <1>4, <2>1, LongestIs
  <2> QED
    BY <1>1, <1>4, <1>7, <2>2
<1>9. Len(d) >= 2
  BY <1>1, <1>4, <1>7
<1>10. \A t \in Listed(a) : t \in Listed(d)
  <2> SUFFICES ASSUME NEW k \in 1..Len(a), Ending(a, k) \in PublicSuffixes, k <= 5
               PROVE  k \in 1..Len(d)
    BY <1>2, <1>3 DEF Listed
  <2>1. ASSUME Len(d) <= k PROVE FALSE
    <3>1. d \in TailsOf(Ending(a, k))
      BY <1>1, <2>1, TailOfTail
    <3>2. d \in PublicSuffixes
      BY <1>3, <1>9, <3>1 DEF SuffixesClosed
    <3> QED
      BY <1>1, <1>8, <2>1, <3>2
  <2> QED
    BY <1>1, <2>1
<1>11. \A t \in Listed(d) : t \in Listed(a)
  BY <1>2, <1>3 DEF Listed
<1>12. Listed(a) = Listed(d)
  BY <1>10, <1>11
<1>13. public_suffix(a) = public_suffix(d)
  BY <1>4, <1>5, <1>12
<1> DEFINE size == Len(public_suffix(d)) + 1
<1>14. size \in 1..Len(d) /\ ~(Len(d) < size) /\ ~(Len(a) < size)
  BY <1>1, <1>4, <1>7
<1>15. registrable_domain(a) = Ending(a, size) /\ registrable_domain(d) = Ending(d, size)
  BY <1>13, <1>14 DEF registrable_domain, Ending
<1> QED
  BY <1>3, <1>14, <1>15

\* A name that an entry with a star matches ends with it.
LEMMA MatchedEnds ==
    ASSUME NEW s \in Seq(Labels), NEW t \in Seq(Labels), IsSuffix(s, t)
    PROVE  EndsWith(Lower(t), Lower(s)) /\ Lower(s) \in Seq(Labels) /\ Lower(t) \in Seq(Labels)
           /\ Len(Lower(s)) = Len(s)
<1>1. /\ Reverse(s) \in Seq(Labels) /\ Len(Reverse(s)) = Len(s)
      /\ Reverse(t) \in Seq(Labels) /\ Len(Reverse(t)) = Len(t)
      /\ \A i \in 1..Len(s) : Reverse(s)[i] = s[(Len(s) - i) + 1]
      /\ \A i \in 1..Len(t) : Reverse(t)[i] = t[(Len(t) - i) + 1]
  BY DEF Reverse
<1>2. /\ Len(s) <= Len(t)
      /\ SubSeq(Reverse(s), 1, Len(s)) = SubSeq(Reverse(t), 1, Len(s))
  BY <1>1 DEF IsSuffix, IsPrefix
<1>3. \A i \in 1..Len(s) : Reverse(s)[i] = Reverse(t)[i]
  <2> TAKE i \in 1..Len(s)
  <2>1. SubSeq(Reverse(s), 1, Len(s))[i] = Reverse(s)[i]
    BY <1>1
  <2>2. SubSeq(Reverse(t), 1, Len(s))[i] = Reverse(t)[i]
    BY <1>1, <1>2
  <2> QED
    BY <1>2, <2>1, <2>2
<1>4. Len(s) \in Nat /\ Len(t) \in Nat
  OBVIOUS
<1>5. \A i \in 1..Len(s) : t[Len(t) - Len(s) + i] = s[i]
  <2> TAKE i \in 1..Len(s)
  <2> DEFINE j == Len(s) - i + 1
  <2>1. j \in 1..Len(s) /\ j \in 1..Len(t) /\ Len(s) - j + 1 = i /\ Len(t) - j + 1 = Len(t) - Len(s) + i
    BY <1>2, <1>4
  <2> HIDE DEF j
  <2>2. s[i] = Reverse(s)[j] /\ t[Len(t) - Len(s) + i] = Reverse(t)[j]
    BY <1>1, <2>1
  <2> QED
    BY <1>3, <2>1, <2>2
<1>6. ASSUME NEW n \in Seq(Labels)
      PROVE  Lower(n) \in Seq(Labels) /\ Len(Lower(n)) = Len(n)
             /\ \A i \in 1..Len(n) : Lower(n)[i] = Label(n[i].word)
  <2>1. DOMAIN n = 1..Len(n) /\ Len(n) \in Nat
    OBVIOUS
  <2>2. \A i \in 1..Len(n) : n[i].word \in STRING
    <3>1. \A i \in 1..Len(n) : n[i] \in Labels
      BY <2>1
    <3>2. \A x \in Labels : x.word \in STRING
      BY DEF Labels
    <3> QED
      BY <3>1, <3>2
  <2>3. \A i \in 1..Len(n) : Label(n[i].word) \in Labels
    BY <2>2 DEF Label, Labels
  <2>4. Lower(n) = [i \in 1..Len(n) |-> Label(n[i].word)]
    BY <2>1 DEF Lower
  <2> QED
    BY <2>1, <2>3, <2>4
<1>7. \A i \in 1..Len(s) : Len(t) - Len(s) + i \in 1..Len(t)
  BY <1>2, <1>4
<1>8. /\ Lower(s) \in Seq(Labels) /\ Len(Lower(s)) = Len(s)
      /\ Lower(t) \in Seq(Labels) /\ Len(Lower(t)) = Len(t)
      /\ \A i \in 1..Len(s) : Lower(s)[i] = Label(s[i].word)
      /\ \A i \in 1..Len(t) : Lower(t)[i] = Label(t[i].word)
  BY <1>6
<1>9. \A i \in 1..Len(s) : Lower(t)[Len(t) - Len(s) + i] = Lower(s)[i]
  <2> TAKE i \in 1..Len(s)
  <2>1. Lower(t)[Len(t) - Len(s) + i] = Label(t[Len(t) - Len(s) + i].word)
    BY <1>7, <1>8
  <2> QED
    BY <1>5, <1>8, <2>1
<1> QED
  BY <1>2, <1>8, <1>9 DEF EndsWith

\* What an import accepts is the text of one name, or below one owner.
LEMMA ImportedNarrow ==
    ASSUME SuffixesClosed, NEW e \in Entries, validate(e, TRUE),
           NEW a \in Seq(Labels), NEW b \in Seq(Labels), Matches(a, e), Matches(b, e)
    PROVE  a = b \/ registrable_domain(Lower(a)) = registrable_domain(Lower(b))
<1> DEFINE s == e.value.name
           d == Lower(s)
<1>1. e.target = "domain" /\ ~e.value.scheme /\ s \in Seq(Labels)
  BY DEF Matches, match_domain, Entries, Texts
<1>2. CASE e.value.star = "*."
  <2>1. IsSuffix(s, a) /\ IsSuffix(s, b) /\ Wildcard(e.value)
    BY <1>1, <1>2 DEF Matches, match_domain, Wildcard
  <2>2. /\ EndsWith(Lower(a), d) /\ EndsWith(Lower(b), d) /\ d \in Seq(Labels)
        /\ Lower(a) \in Seq(Labels) /\ Lower(b) \in Seq(Labels)
    BY <1>1, <2>1, MatchedEnds
  <2>3. d # <<>> /\ d # public_suffix(d)
    BY <1>1, <2>1 DEF validate, classify_entry, normalize_domain
  <2> HIDE DEF d
  <2> QED
    BY <2>2, <2>3, OneOwner
<1>3. CASE e.value.star # "*."
  BY <1>3 DEF Matches, match_domain
<1> QED
  BY <1>2, <1>3

\* No entry of an import is about the names of two owners, for any table of
\* suffixes that has, with a suffix, its tails of two labels and more.
THEOREM ImportsAreNarrow ==
    ASSUME SuffixesClosed
    PROVE  Spec => []ImportIsNarrow
<1>1. ListInv => ImportIsNarrow
  <2> SUFFICES ASSUME ListInv, NEW n \in Stored, filter_list[n].by = "import",
                      NEW a \in Names, NEW b \in Names,
                      Matches(a, Entry(n)), Matches(b, Entry(n))
               PROVE  a = b \/ registrable_domain(Lower(a)) = registrable_domain(Lower(b))
    BY DEF ImportIsNarrow
  <2>1. Entry(n) \in Entries /\ validate(Entry(n), TRUE)
    BY DEF ListInv, Legal, Stored, Entry
  <2>2. a \in Seq(Labels) /\ b \in Seq(Labels)
    BY TypedAssumption
  <2> QED
    BY <2>1, <2>2, ImportedNarrow
<1> QED
  BY <1>1, ListStart, ListStep, PTL DEF Spec

-----------------------------------------------------------------------------
(***************************************************************************)
(* Findings, for any number of targets and reviewers.                      *)
(***************************************************************************)

FindingRows == Finding \union {Pruned}
Judged == {"confirmed", "dismissed"}
Hits == Kinds \X Targets

Pending(row) == row.status = "pending"
SameHit(a, b) == a.kind = b.kind /\ a.target = b.target

ReviewInv ==
    /\ findings \in Seq(FindingRows)
    /\ round \in [at : Steps, hits : SUBSET Hits, first : Hits \union {NoHit}, seen : SUBSET Nat]
    /\ DOMAIN review = Reviewers
    /\ \A r \in Reviewers : review[r].at = "status" => review[r].status \in Judged

OneOfEach(f) ==
    \A m, n \in DOMAIN f :
        Pending(f[m]) /\ Pending(f[n]) /\ SameHit(f[m], f[n]) => m = n

\* What the first SELECT did not see is not there when the transaction begins.
SeenInv ==
    round.at = "upsert" =>
        /\ round.first \in Hits
        /\ PendingOf(findings, round.first) \subseteq round.seen

FindingsInv == ReviewInv /\ OneOfEach(findings) /\ SeenInv

-----------------------------------------------------------------------------
NewRows(hits) == {[kind |-> h[1], target |-> h[2], status |-> "pending"] : h \in hits}

\* Inserting keeps the rows there are and adds one for each hit.
LEMMA InsertedRows ==
    ASSUME NEW f \in Seq(FindingRows), NEW hits \in SUBSET Hits
    PROVE  /\ Inserted(f, hits) \in Seq(FindingRows)
           /\ Len(f) <= Len(Inserted(f, hits))
           /\ \A n \in 1..Len(f) : Inserted(f, hits)[n] = f[n]
           /\ \A n \in Len(f) + 1..Len(Inserted(f, hits)) : Inserted(f, hits)[n] \in NewRows(hits)
           /\ \A m, n \in Len(f) + 1..Len(Inserted(f, hits)) :
                 Inserted(f, hits)[m] = Inserted(f, hits)[n] => m = n
<1> DEFINE S == NewRows(hits)
           k == Cardinality(S)
           t == SetToSeq(S)
           g == Inserted(f, hits)
<1>1. IsFiniteSet(hits)
  BY HitsAssumption, FS_Product, FS_Subset DEF Hits
<1>2. IsFiniteSet(S)
  <2>1. [h \in hits |-> [kind |-> h[1], target |-> h[2], status |-> "pending"]]
            \in Surjection(hits, S)
    BY Zenon DEF Surjection, NewRows
  <2> QED
    BY <1>1, <2>1, FS_Surjection
<1>3. k \in Nat /\ t \in [1..k -> S] /\ IsInjective(t)
  BY <1>2, EachOnce, FS_CardinalityType
<1>4. S \subseteq FindingRows
  BY DEF NewRows, FindingRows, Finding, Hits
<1>5. g = f \o t
  BY DEF Inserted, NewRows
<1> HIDE DEF S, k, t, g
<1>6. t \in Seq(FindingRows) /\ Len(t) = k /\ \A n \in 1..k : t[n] \in S
  BY <1>3, <1>4
<1>7. /\ g \in Seq(FindingRows) /\ Len(g) = Len(f) + k /\ Len(f) \in Nat
      /\ \A n \in 1..Len(f) : g[n] = f[n]
  BY <1>3, <1>5, <1>6
<1>8. \A n \in Len(f) + 1..Len(g) : n - Len(f) \in 1..k /\ g[n] = t[n - Len(f)]
  BY <1>3, <1>5, <1>6, <1>7
<1>9. \A m, n \in Len(f) + 1..Len(g) : g[m] = g[n] => m = n
  <2> SUFFICES ASSUME NEW m \in Len(f) + 1..Len(g), NEW n \in Len(f) + 1..Len(g), g[m] = g[n]
               PROVE  m = n
    OBVIOUS
  <2>1. m - Len(f) = n - Len(f)
    BY <1>3, <1>8 DEF IsInjective
  <2> QED
    BY <1>7, <2>1
<1>10. \A n \in Len(f) + 1..Len(g) : g[n] \in S
  BY <1>6, <1>8
<1>11. Len(f) <= Len(g)
  BY <1>3, <1>7
<1> QED
  BY <1>7, <1>9, <1>10, <1>11, Zenon DEF S, g

\* Deleting rows and judging them leaves no more pending than there were.
LEMMA FewerPending ==
    ASSUME FindingsInv, NEW f \in Seq(FindingRows), DOMAIN f = DOMAIN findings,
           \A n \in DOMAIN findings : Pending(f[n]) => f[n] = findings[n]
    PROVE  OneOfEach(f) /\ \A hit : PendingOf(f, hit) \subseteq PendingOf(findings, hit)
BY DEF FindingsInv, OneOfEach, PendingOf, Pending

\* What a round is to insert is not yet there to be judged.
LEMMA NewIsNew ==
    ASSUME FindingsInv, round.at = "upsert", NEW hits \in SUBSET Hits,
           \A h \in hits : IF h = round.first THEN round.seen = {} ELSE PendingOf(findings, h) = {}
    PROVE  OneOfEach(Inserted(findings, hits))
<1> DEFINE all == Inserted(findings, hits)
<1>1. \A h \in hits : PendingOf(findings, h) = {}
  BY DEF FindingsInv, SeenInv
<1>2. /\ findings \in Seq(FindingRows) /\ all \in Seq(FindingRows) /\ Len(findings) <= Len(all)
      /\ \A n \in 1..Len(findings) : all[n] = findings[n]
      /\ \A n \in Len(findings) + 1..Len(all) : all[n] \in NewRows(hits)
      /\ \A m, n \in Len(findings) + 1..Len(all) : all[m] = all[n] => m = n
  BY InsertedRows DEF FindingsInv, ReviewInv
<1> HIDE DEF all
<1>3. ASSUME NEW m \in 1..Len(findings), NEW n \in Len(findings) + 1..Len(all),
             Pending(all[m]), SameHit(all[m], all[n])
      PROVE  FALSE
  <2>1. PICK h \in hits : all[n] = [kind |-> h[1], target |-> h[2], status |-> "pending"]
    BY <1>2 DEF NewRows
  <2>2. h = <<h[1], h[2]>>
    BY DEF Hits
  <2>3. m \in PendingOf(findings, h)
    BY <1>2, <1>3, <2>1, <2>2 DEF PendingOf, Pending, SameHit
  <2> QED
    BY <1>1, <2>3
<1>4. ASSUME NEW m \in Len(findings) + 1..Len(all), NEW n \in Len(findings) + 1..Len(all),
             SameHit(all[m], all[n])
      PROVE  m = n
  <2>1. all[m] = all[n]
    BY <1>2, <1>4 DEF NewRows, SameHit
  <2> QED
    BY <1>2, <2>1
<1>5. ASSUME NEW m \in 1..Len(findings), NEW n \in 1..Len(findings),
             Pending(all[m]), Pending(all[n]), SameHit(all[m], all[n])
      PROVE  m = n
  BY <1>2, <1>5 DEF FindingsInv, OneOfEach
<1>6. DOMAIN all = 1..Len(all)
      /\ \A n \in 1..Len(all) : n \in 1..Len(findings) \/ n \in Len(findings) + 1..Len(all)
  BY <1>2
<1>7. \A a, b : SameHit(a, b) => SameHit(b, a)
  BY DEF SameHit
<1> QED
  BY <1>3, <1>4, <1>5, <1>6, <1>7 DEF OneOfEach, all

LEMMA WithoutRows ==
    ASSUME NEW f \in Seq(FindingRows), NEW ids
    PROVE  /\ Without(f, ids) \in Seq(FindingRows) /\ DOMAIN Without(f, ids) = DOMAIN f
           /\ \A n \in DOMAIN f : Pending(Without(f, ids)[n]) => Without(f, ids)[n] = f[n]
BY DEF Without, FindingRows, Pending, Pruned

-----------------------------------------------------------------------------
LEMMA FindingsStart == AiInit => FindingsInv
BY DEF AiInit, FindingsInv, ReviewInv, OneOfEach, SeenInv, NoRound, NoReview, FindingRows, Steps

\* Steps of a round that leave the table and the requests alone.
LEMMA RoundSteps ==
    ASSUME FindingsInv,
           \/ \E hits \in SUBSET (Kinds \X Targets) : Analyze(hits)
           \/ \E hit \in round.hits : FirstSelect(hit)
           \/ PruneSelect \/ RoundFails
    PROVE  FindingsInv'
<1> DEFINE Rounds == [at : Steps, hits : SUBSET Hits, first : Hits \union {NoHit}, seen : SUBSET Nat]
<1>0. round \in Rounds /\ DOMAIN findings \subseteq Nat
  BY DEF FindingsInv, ReviewInv
<1>1. NoRound \in Rounds
  BY DEF NoRound, Steps
<1>2. /\ UNCHANGED <<findings, review>> /\ round' \in Rounds
      /\ round'.at = "upsert" => /\ round'.first \in Hits
                                 /\ PendingOf(findings, round'.first) \subseteq round'.seen
  <2>1. ASSUME NEW hits \in SUBSET (Kinds \X Targets), Analyze(hits)
        PROVE  UNCHANGED <<findings, review>> /\ round' \in Rounds /\ round'.at # "upsert"
    BY <1>1, <2>1 DEF Analyze, NoRound, Steps, Hits
  <2>2. ASSUME NEW hit \in round.hits, FirstSelect(hit)
        PROVE  /\ UNCHANGED <<findings, review>> /\ round' \in Rounds
               /\ round'.first = hit /\ hit \in Hits
               /\ round'.seen = PendingOf(findings, hit)
    <3>1. hit \in Hits /\ PendingOf(findings, hit) \subseteq Nat
      BY <1>0 DEF PendingOf
    <3> QED
      BY <1>0, <2>2, <3>1 DEF FirstSelect, Steps
  <2>3. ASSUME PruneSelect
        PROVE  UNCHANGED <<findings, review>> /\ round' \in Rounds /\ round'.at # "upsert"
    <3>1. Stale(findings, {}) \subseteq Nat
      BY <1>0 DEF Stale
    <3>2. round' = NoRound \/ round' = [round EXCEPT !.at = "delete", !.seen = Stale(findings, {})]
      BY <2>3 DEF PruneSelect
    <3> QED
      BY <1>0, <1>1, <2>3, <3>1, <3>2 DEF PruneSelect, Steps, NoRound
  <2>4. RoundFails => UNCHANGED <<findings, review>> /\ round' \in Rounds /\ round'.at # "upsert"
    BY <1>1 DEF RoundFails, NoRound
  <2> QED
    BY <2>1, <2>2, <2>3, <2>4
<1> QED
  BY <1>2 DEF FindingsInv, ReviewInv, OneOfEach, SeenInv

LEMMA TableSteps ==
    ASSUME FindingsInv, Upsert \/ PruneDelete
    PROVE  FindingsInv'
<1>1. round' = NoRound /\ review' = review
  BY DEF Upsert, PruneDelete
<1>3. NoRound \in [at : Steps, hits : SUBSET Hits, first : Hits \union {NoHit}, seen : SUBSET Nat]
  BY DEF NoRound, Steps
<1>2. findings' \in Seq(FindingRows) /\ OneOfEach(findings')
  <2>1. CASE PruneDelete
    <3>1. findings' = Without(findings, round.seen) /\ findings \in Seq(FindingRows)
      BY <2>1 DEF PruneDelete, FindingsInv, ReviewInv
    <3> QED
      BY <3>1, WithoutRows, FewerPending
  <2>2. CASE Upsert
    <3>1. PICK new \in SUBSET Hits :
            /\ \A h \in new : IF h = round.first THEN round.seen = {}
                              ELSE PendingOf(findings, h) = {}
            /\ findings' = Without(Inserted(findings, new),
                                   Stale(Inserted(findings, new), round.hits))
      BY <2>2 DEF Upsert, FindingsInv, ReviewInv
    <3>2. OneOfEach(Inserted(findings, new)) /\ Inserted(findings, new) \in Seq(FindingRows)
      BY <2>2, <3>1, NewIsNew, InsertedRows DEF Upsert, FindingsInv, ReviewInv
    <3> QED
      BY <3>1, <3>2, WithoutRows DEF OneOfEach
  <2> QED
    BY <2>1, <2>2
<1> QED
  BY <1>1, <1>2, <1>3 DEF FindingsInv, ReviewInv, OneOfEach, SeenInv, NoRound

LEMMA RowByRow ==
    ASSUME NEW f \in Seq(FindingRows), NEW g, g = [n \in DOMAIN f |-> g[n]],
           \A n \in DOMAIN f : g[n] \in FindingRows
    PROVE  g \in Seq(FindingRows) /\ DOMAIN g = DOMAIN f
<1>1. DOMAIN f = 1..Len(f) /\ Len(f) \in Nat
  OBVIOUS
<1> QED
  BY <1>1

\* A judgement never makes a row pending.
LEMMA ReviewSteps ==
    ASSUME FindingsInv, NEW r \in Reviewers,
           \/ \E id \in DOMAIN findings, s \in Judged : ReadFinding(r, id, s)
           \/ \E target \in Targets : CheckWhitelist(r, target)
           \/ WriteStatus(r) \/ WriteWhitelist(r)
    PROVE  FindingsInv'
<1>1. /\ round' = round /\ DOMAIN review' = Reviewers
      /\ \A q \in Reviewers : review'[q].at = "status" => review'[q].status \in Judged
  <2> USE DEF FindingsInv, ReviewInv, NoReview, Judged
  <2> DEFINE Moves(v) == review' = [review EXCEPT ![r] = v] /\ (v.at = "status" => v.status \in Judged)
  <2>1. ASSUME NEW id, NEW s \in Judged, ReadFinding(r, id, s)
        PROVE  round' = round /\ \E v : Moves(v)
    <3>1. review' = [review EXCEPT ![r] = [at |-> "status", id |-> id, status |-> s, target |-> "none"]]
      BY <2>1, Zenon DEF ReadFinding
    <3> QED
      BY <2>1, <3>1 DEF ReadFinding
  <2>2. ASSUME NEW target, CheckWhitelist(r, target)
        PROVE  round' = round /\ \E v : Moves(v)
    <3>1. review' = [review EXCEPT ![r] = [NoReview EXCEPT !.at = "white", !.target = target]]
      BY <2>2, Zenon DEF CheckWhitelist
    <3>2. [NoReview EXCEPT !.at = "white", !.target = target].at = "white"
      OBVIOUS
    <3> QED
      BY <2>2, <3>1, <3>2 DEF CheckWhitelist
  <2>3. WriteStatus(r) \/ WriteWhitelist(r) => round' = round /\ \E v : Moves(v)
    BY DEF WriteStatus, WriteWhitelist
  <2>4. round' = round /\ \E v : Moves(v)
    BY <2>1, <2>2, <2>3
  <2> QED
    BY <2>4
<1>2. /\ findings' \in Seq(FindingRows) /\ DOMAIN findings' = DOMAIN findings
      /\ \A n \in DOMAIN findings : Pending(findings'[n]) => findings'[n] = findings[n]
  <2>1. CASE findings' = findings
    BY <2>1 DEF FindingsInv, ReviewInv
  <2>2. CASE WriteStatus(r)
    <3>1. review[r].status \in Judged /\ findings \in Seq(FindingRows)
      BY <2>2 DEF WriteStatus, FindingsInv, ReviewInv
    <3> DEFINE id == review[r].id
               row == IF findings[id] = Pruned THEN findings[id]
                      ELSE [findings[id] EXCEPT !.status = review[r].status]
    <3>2. findings' = [findings EXCEPT ![id] = row]
      BY <2>2, Zenon DEF WriteStatus
    <3> HIDE DEF row
    <3>3. id \in DOMAIN findings => row \in FindingRows /\ (Pending(row) => row = findings[id])
      <4>1. id \in DOMAIN findings => findings[id] \in FindingRows
        BY <3>1
      <4> QED
        BY <3>1, <4>1 DEF FindingRows, Finding, Pruned, Pending, Judged, row
    <3>4. /\ findings' = [n \in DOMAIN findings |-> findings'[n]]
          /\ \A n \in DOMAIN findings : findings'[n] = IF n = id THEN row ELSE findings[n]
      BY <3>2
    <3>5. \A n \in DOMAIN findings : findings[n] \in FindingRows
      BY <3>1
    <3> QED
      BY <3>1, <3>3, <3>4, <3>5, RowByRow
  <2>3. CASE WriteWhitelist(r)
    <3> DEFINE about == PendingOf(findings, <<"false_positive", review[r].target>>)
    <3>1. findings \in Seq(FindingRows)
      BY DEF FindingsInv, ReviewInv
    <3>2. findings' = [n \in DOMAIN findings |->
              IF n \in about THEN [findings[n] EXCEPT !.status = "confirmed"] ELSE findings[n]]
      BY <2>3 DEF WriteWhitelist
    <3>3. ASSUME NEW n \in about
          PROVE  [findings[n] EXCEPT !.status = "confirmed"] \in FindingRows
                 /\ ~Pending([findings[n] EXCEPT !.status = "confirmed"])
      <4>1. findings[n] \in FindingRows /\ findings[n].status = "pending"
        BY <3>1 DEF PendingOf
      <4>2. findings[n] \in Finding
        BY <4>1 DEF FindingRows, Pruned
      <4> QED
        BY <4>2 DEF FindingRows, Finding, Pending
    <3> HIDE DEF about
    <3> QED
      BY <3>1, <3>2, <3>3, RowByRow, SMTT(30)
  <2> QED
    BY <2>1, <2>2, <2>3 DEF ReadFinding, CheckWhitelist
<1>3. OneOfEach(findings')
      /\ \A hit : PendingOf(findings', hit) \subseteq PendingOf(findings, hit)
  BY <1>2, FewerPending
<1> QED
  BY <1>1, <1>2, <1>3 DEF FindingsInv, ReviewInv, OneOfEach, SeenInv

LEMMA FindingsStep == FindingsInv /\ [AiNext]_findingVars => FindingsInv'
<1>1. FindingsInv /\ UNCHANGED findingVars => FindingsInv'
  BY DEF findingVars, FindingsInv, ReviewInv, OneOfEach, SeenInv, PendingOf
<1> QED
  BY <1>1, RoundSteps, TableSteps, ReviewSteps DEF AiNext, Judged

\* Whatever rounds and people do, no target has two findings of a type to be
\* judged: the row that a round inserts is one that no other can have inserted
\* since the round looked for it (_upsert_finding, ai_batch.py:51).
THEOREM OneToJudge == AiSpec => []OnePending
<1>1. FindingsInv => OnePending
  <2> SUFFICES ASSUME FindingsInv, NEW hit \in Kinds \X Targets
               PROVE  Cardinality(PendingOf(findings, hit)) <= 1
    BY DEF OnePending
  <2>1. PendingOf(findings, hit) = {} \/ \E n : PendingOf(findings, hit) = {n}
    <3>1. \A m, n \in PendingOf(findings, hit) : m = n
      BY DEF PendingOf, FindingsInv, OneOfEach, Pending, SameHit
    <3> QED
      BY <3>1
  <2> QED
    BY <2>1, FS_EmptySet, FS_Singleton
<1> QED
  BY <1>1, FindingsStart, FindingsStep, PTL DEF AiSpec

\* What a person has judged is kept by every round that found something
\* (_prune_pending, ai_batch.py:75-76).
THEOREM JudgementsStay == AiSpec => JudgedKept
<1>1. ASSUME FindingsInv, [AiNext]_findingVars, round.at # "delete",
             NEW n \in DOMAIN findings, findings[n].status \in {"confirmed", "dismissed"}
      PROVE  findings'[n].status \in {"confirmed", "dismissed"}
  <2>1. CASE findings' = findings
    BY <1>1, <2>1
  <2>2. CASE Upsert
    <3>1. PICK new \in SUBSET Hits :
            findings' = Without(Inserted(findings, new), Stale(Inserted(findings, new), round.hits))
      BY <1>1, <2>2 DEF Upsert, FindingsInv, ReviewInv
    <3>2. n \in DOMAIN Inserted(findings, new) /\ Inserted(findings, new)[n] = findings[n]
      BY <1>1, InsertedRows DEF FindingsInv, ReviewInv
    <3>3. n \notin Stale(Inserted(findings, new), round.hits)
      BY <1>1, <3>2 DEF Stale
    <3> QED
      BY <1>1, <3>1, <3>2, <3>3 DEF Without
  <2>3. ASSUME NEW r \in Reviewers, WriteStatus(r)
        PROVE  findings'[n].status \in {"confirmed", "dismissed"}
    <3>1. review[r].status \in Judged /\ findings \in Seq(FindingRows)
      BY <1>1, <2>3 DEF WriteStatus, FindingsInv, ReviewInv
    <3> QED
      BY <1>1, <2>3, <3>1 DEF WriteStatus, Judged, FindingRows, Finding, Pruned
  <2>4. ASSUME NEW r \in Reviewers, WriteWhitelist(r)
        PROVE  findings'[n].status \in {"confirmed", "dismissed"}
    BY <1>1, <2>4 DEF WriteWhitelist, PendingOf
  <2> QED
    BY <1>1, <2>1, <2>2, <2>3, <2>4
       DEF AiNext, Analyze, FirstSelect, PruneSelect, PruneDelete, RoundFails, ReadFinding,
           CheckWhitelist, findingVars
<1>2. FindingsInv /\ [AiNext]_findingVars =>
        [round.at # "delete" =>
          \A n \in DOMAIN findings :
             findings[n].status \in {"confirmed", "dismissed"} =>
                findings'[n].status \in {"confirmed", "dismissed"}]_findingVars
  BY <1>1
<1> QED
  BY <1>2, FindingsStart, FindingsStep, PTL DEF AiSpec, JudgedKept

-----------------------------------------------------------------------------
(***************************************************************************)
(* Login: for all thresholds and times, a lock runs its                    *)
(* whole time.  A login that was let in reports without looking at the     *)
(* lock again; what keeps its report from ending or renewing the lock is   *)
(* that the lock is set once, and that every login under way when it was   *)
(* set is told apart from those that were let in with the account open.    *)
(***************************************************************************)

AccountOK ==
    /\ account \in [fails : Nat, left : 0..Never]
    /\ login \in [Logins -> {"idle", "address", "before", "after"}]

\* While the account is locked nobody is under way who was let in after that.
LetInBefore == Closed(account) => \A l \in Logins : login[l] # "before"

GuardInv == AccountOK /\ LetInBefore

USE TimesAssumption DEF Never, Closed

LEMMA InvInit == GuardInit => GuardInv
BY DEF GuardInit, GuardInv, AccountOK, LetInBefore, NoAccount

LEMMA InvStep == GuardInv /\ [GuardNext]_guardVars => GuardInv'
<1> SUFFICES ASSUME GuardInv, [GuardNext]_guardVars PROVE GuardInv'
  OBVIOUS
<1> USE DEF GuardInv, AccountOK, LetInBefore
<1>1. ASSUME NEW l \in Logins, AskAddress(l) PROVE GuardInv'
  BY <1>1 DEF AskAddress, Go
<1>2. ASSUME NEW l \in Logins, AskAccount(l) PROVE GuardInv'
  <2>1. account' = IF account.left = 0 THEN NoAccount ELSE account
    BY <1>2 DEF AskAccount, account_status
  <2>2. NoAccount \in [fails : Nat, left : 0..Never] /\ ~Closed(NoAccount)
    BY DEF NoAccount
  <2>3. Closed(account)' => Closed(account) /\ login'[l] # "before"
    BY <1>2, <2>1, <2>2 DEF AskAccount, Go, account_status
  <2> QED
    BY <1>2, <2>1, <2>2, <2>3 DEF AskAccount, Go
<1>3. ASSUME NEW l \in Logins, record_failure(l) PROVE GuardInv'
  <2> DEFINE locks == account.fails + 1 >= LockThreshold /\ account.left = Never
  <2>1. account' = [fails |-> account.fails + 1,
                    left |-> IF locks THEN LockTime ELSE account.left]
    BY <1>3 DEF record_failure
  <2>2. \A k \in Logins : \/ login'[k] = "idle"
                          \/ locks /\ login[k] = "before" /\ login'[k] = "after"
                          \/ ~(locks /\ login[k] = "before") /\ login'[k] = login[k]
    BY <1>3 DEF record_failure
  <2>3. login' \in [Logins -> {"idle", "address", "before", "after"}]
    BY <1>3, Zenon DEF record_failure
  <2>4. account' \in [fails : Nat, left : 0..Never]
    BY <2>1
  <2>5. Closed(account)' => locks \/ Closed(account)
    BY <2>1
  <2>6. LetInBefore'
    BY <2>2, <2>5
  <2> QED
    BY <2>3, <2>4, <2>6
<1>4. ASSUME NEW l \in Logins, record_success(l) PROVE GuardInv'
  BY <1>4 DEF record_success, Go, NoAccount
<1>5. CASE change_password
  BY <1>5 DEF change_password, NoAccount
<1>6. CASE Tick
  BY <1>6 DEF Tick
<1>7. CASE UNCHANGED guardVars
  BY <1>7 DEF guardVars
<1> QED
  BY <1>1, <1>2, <1>3, <1>4, <1>5, <1>6, <1>7 DEF GuardNext

\* Nobody but the owner ends a lock before its time, and no failure renews it
\* (login_guard.py:4).
THEOREM LocksHold == GuardSpec => LockHolds
<1>1. ASSUME GuardInv, [GuardNext]_guardVars, Closed(account), account'.left # account.left
      PROVE  \/ Tick \/ change_password
             \/ \E l \in Logins : login[l] = "after" /\ record_success(l)
  <2> USE DEF GuardInv, AccountOK, LetInBefore
  <2>1. ASSUME NEW l \in Logins, AskAddress(l) PROVE FALSE
    BY <1>1, <2>1 DEF AskAddress
  <2>2. ASSUME NEW l \in Logins, AskAccount(l) PROVE FALSE
    BY <1>1, <2>2 DEF AskAccount, account_status
  <2>3. ASSUME NEW l \in Logins, record_failure(l) PROVE FALSE
    BY <1>1, <2>3 DEF record_failure
  <2>4. ASSUME NEW l \in Logins, record_success(l) PROVE login[l] = "after"
    BY <1>1, <2>4 DEF record_success, LetIn
  <2>5. ~UNCHANGED guardVars
    BY <1>1 DEF guardVars
  <2> QED
    BY <1>1, <2>1, <2>2, <2>3, <2>4, <2>5 DEF GuardNext
<1>2. GuardInv /\ [GuardNext]_guardVars =>
        [Closed(account) /\ account'.left # account.left =>
          \/ Tick \/ change_password
          \/ \E l \in Logins : login[l] = "after" /\ record_success(l)]_guardVars
  BY <1>1
<1> QED
  BY <1>2, InvInit, InvStep, PTL DEF GuardSpec, LockHolds

=============================================================================
