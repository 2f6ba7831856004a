--------------------------- MODULE CrossSyncProofs ---------------------------
(***************************************************************************)
(* The lag of the DNS process, for any tables, keys, values and interval:  *)
(* with well-stamped writes nothing it keeps is out of date for longer than*)
(* an interval.                                                            *)
(*                                                                         *)
(* The invariant says what the version stands for: as long as it is the    *)
(* one seen last, what is kept of the table is what is in it; and when     *)
(* something has been out of date for a second, the version that the round *)
(* sees is not the one it compares with, so that the round will act.       *)
(*                                                                         *)
(* The verdicts are left out: a change of the settings that they also rest *)
(* on leaves them as they are.                                             *)
(***************************************************************************)
EXTENDS CrossSync, WellFoundedInduction, TLAPS

\* What is kept of a table, and what a lookup has read to keep, is of now.
Clean(t) == kept[t] \in {Unloaded, InForce(t)} /\ filling[t] \in {Unloaded, InForce(t)}

Stamped(t) == \A k \in Keys[t] : rows[t][k] = Absent \/ rows[t][k].at \in 1..clock

\* Nothing is written before the first round has been through the tables.
BootOK(t) ==
    /\ booting => /\ \A k \in Keys[t] : rows[t][k] = Absent
                  /\ Clean(t) /\ lag[t] = 0
                  /\ baseline[t] \in {Nothing, 0} /\ seen[t] \in {Nothing, 0}
    /\ (~booting \/ sincePoll[t] # Interval) => baseline[t] \in Nat

ChangeShows(t) ==
    /\ Version(t) = baseline[t] /\ seen[t] \in {Nothing, baseline[t]} => Clean(t)
    /\ lag[t] > 0 => (IF seen[t] = Nothing THEN Version(t) ELSE seen[t]) # baseline[t]

PaceOK(t) ==
    /\ sincePoll[t] \in 0..Interval /\ lag[t] \in Nat /\ lag[t] <= sincePoll[t]
    /\ seen[t] # Nothing => sincePoll[t] = Interval /\ seen[t] \in Nat

TableInv(t) == Stamped(t) /\ BootOK(t) /\ ChangeShows(t) /\ PaceOK(t)

SyncInv ==
    /\ clock \in 1..MaxClock
    /\ DOMAIN rows = Tables /\ DOMAIN baseline = Tables /\ DOMAIN seen = Tables
    /\ DOMAIN kept = Tables /\ DOMAIN filling = Tables
    /\ DOMAIN sincePoll = Tables /\ DOMAIN lag = Tables
    /\ \A t \in Tables : DOMAIN rows[t] = Keys[t] /\ TableInv(t)

\* Writes are stamped in seconds of their own, and rows deleted when newest.
WellStamped == happens \subseteq {"delete_newest"}

VerdictsApart == ~({"system_config", "threatintel_api"} \subseteq Tables)

Inv == WellStamped => SyncInv

-----------------------------------------------------------------------------
(* Versions.                                                               *)

LEMMA Smallest ==
    ASSUME NEW T \in SUBSET Nat, T # {}
    PROVE  \E i \in T : \A j \in T : i <= j
<1>1. PICK i \in T : \A j \in T : ~ <<j, i>> \in OpToRel(<, Nat)
  BY NatLessThanWellFounded, WFMin, Zenon
<1>2. \A j \in T : ~ j < i
  BY <1>1 DEF OpToRel
<1> QED
  BY <1>2

LEMMA Greatest ==
    ASSUME NEW n \in Nat, NEW S, S # {}, \A x \in S : x \in Int /\ x <= n
    PROVE  Max(S) \in S /\ \A x \in S : x <= Max(S)
<1> DEFINE T == {n - x : x \in S}
<1>1. T \in SUBSET Nat /\ T # {}
  OBVIOUS
<1>2. PICK i \in T : \A j \in T : i <= j
  BY <1>1, Smallest
<1>3. PICK m \in S : i = n - m
  BY <1>2
<1>4. \A x \in S : m >= x
  <2> TAKE x \in S
  <2>1. n - x \in T
    OBVIOUS
  <2> HIDE DEF T
  <2> QED
    BY <1>2, <1>3, <2>1
<1>5. Max(S) \in S /\ \A x \in S : Max(S) >= x
  BY <1>4 DEF Max
<1> QED
  BY <1>5

Stamps(r, K) == {0} \union {r[k].at : k \in K}

\* The version is that of a row, and of none later.
LEMMA VersionIs ==
    ASSUME NEW now \in Nat, NEW K, NEW r, \A k \in K : r[k] = Absent \/ r[k].at \in 1..now
    PROVE  /\ Max(Stamps(r, K)) \in 0..now
           /\ \A k \in K : r[k].at <= Max(Stamps(r, K))
           /\ Max(Stamps(r, K)) = 0 \/ \E k \in K : r[k] # Absent /\ r[k].at = Max(Stamps(r, K))
<1> DEFINE S == {0} \union {r[k].at : k \in K}
<1>1. Absent.at = -1
  BY DEF Absent, Nothing
<1>2. \A k \in K : r[k].at \in Int /\ r[k].at <= now
  BY <1>1
<1>3. \A x \in S : x \in Int /\ x <= now
  BY <1>2
<1>4. Max(S) \in S /\ \A x \in S : x <= Max(S)
  BY <1>3, Greatest
<1>5. 0 <= Max(S) /\ Max(S) \in Int /\ Max(S) <= now
  BY <1>3, <1>4
<1>6. \A k \in K : r[k].at \in S
  OBVIOUS
<1>7. \A x \in S : x = 0 \/ \E k \in K : x = r[k].at
  OBVIOUS
<1> HIDE DEF S
<1>8. Max(S) = 0 \/ \E k \in K : r[k] # Absent /\ r[k].at = Max(S)
  <2>1. CASE Max(S) = 0
    BY <2>1
  <2>2. ASSUME NEW k \in K, Max(S) = r[k].at PROVE r[k] # Absent
    <3>1. Max(S) # -1
      BY <1>5
    <3> QED
      BY <1>1, <2>2, <3>1
  <2> QED
    BY <1>4, <1>7, <2>1, <2>2
<1>9. Max(S) \in 0..now /\ \A k \in K : r[k].at <= Max(S)
  BY <1>4, <1>5, <1>6
<1> QED
  BY <1>8, <1>9 DEF S, Stamps

-----------------------------------------------------------------------------
(* The steps.                                                              *)

LEMMA OwnSource == VerdictsApart => \A t \in Tables : Sources(t) = {t}
BY DEF VerdictsApart, Sources

LEMMA SyncStart == VerdictsApart /\ Init => SyncInv
<1> SUFFICES ASSUME VerdictsApart, Init PROVE SyncInv
  OBVIOUS
<1>1. ASSUME NEW t \in Tables PROVE DOMAIN rows[t] = Keys[t] /\ TableInv(t)
  <2>1. /\ rows[t] = [k \in Keys[t] |-> Absent] /\ baseline[t] = Nothing /\ seen[t] = Nothing
        /\ filling[t] = Unloaded /\ sincePoll[t] = Interval /\ lag[t] = 0 /\ booting
        /\ kept[t] = IF t = "system_config" THEN [s \in {t} |-> [k \in Keys[t] |-> Nothing]] ELSE Unloaded
    BY DEF Init
  <2>2. InForce(t) = [s \in {t} |-> [k \in Keys[t] |-> Nothing]]
    BY <2>1, OwnSource DEF InForce, View, Absent
  <2>3. Clean(t)
    BY <2>1, <2>2 DEF Clean
  <2>4. Stamped(t)
    BY <2>1 DEF Stamped
  <2>5. BootOK(t) /\ PaceOK(t)
    BY <2>1, <2>3, BoundsAssumption DEF BootOK, PaceOK
  <2>6. ChangeShows(t)
    BY <2>1, <2>3 DEF ChangeShows
  <2> QED
    BY <2>1, <2>4, <2>5, <2>6 DEF TableInv
<1>2. clock \in 1..MaxClock
  BY BoundsAssumption DEF Init
<1> QED
  BY <1>1, <1>2 DEF Init, SyncInv

\* A table that a step does not concern.
LEMMA OtherTable ==
    ASSUME VerdictsApart, NEW t \in Tables, DOMAIN rows[t] = Keys[t], TableInv(t),
           rows'[t] = rows[t], baseline'[t] = baseline[t], seen'[t] = seen[t], kept'[t] = kept[t],
           filling'[t] = filling[t], sincePoll'[t] = sincePoll[t], lag'[t] = lag[t], clock' = clock,
           booting' = booting \/ (~booting' /\ baseline[t] \in Nat)
    PROVE  DOMAIN rows'[t] = Keys[t] /\ TableInv(t)'
<1>1. InForce(t)' = InForce(t)
  BY OwnSource DEF InForce, View
<1>2. Version(t)' = Version(t)
  BY DEF Version
<1>3. Clean(t)' <=> Clean(t)
  BY <1>1 DEF Clean
<1>4. Stamped(t)' /\ BootOK(t)' /\ PaceOK(t)'
  BY <1>3 DEF TableInv, Stamped, BootOK, PaceOK
<1>5. ChangeShows(t)'
  BY <1>2, <1>3 DEF TableInv, ChangeShows
<1> QED
  BY <1>4, <1>5 DEF TableInv

\* A write, or the deletion of the newest row, leaves a version that is not
\* the one that the next round compares with.
LEMMA WriteStep ==
    ASSUME VerdictsApart, WellStamped, SyncInv, NEW t \in Tables, NEW k \in Keys[t], NEW row,
           Write(t, k, row), row # Absent => row.at = clock,
           row = Absent => rows[t][k] # Absent /\ Newest(t, k)
    PROVE  SyncInv'
<1>1. /\ ~booting /\ clock \notin {baseline[t], seen[t]}
      /\ rows' = [rows EXCEPT ![t][k] = row]
      /\ UNCHANGED <<clock, baseline, seen, kept, filling, sincePoll, lag, booting>>
  BY DEF Write, WellStamped
<1>2. /\ DOMAIN rows = Tables /\ DOMAIN rows[t] = Keys[t] /\ TableInv(t)
      /\ clock \in 1..MaxClock /\ clock \in Nat
  BY BoundsAssumption DEF SyncInv
<1>3. /\ rows'[t][k] = row /\ \A j \in Keys[t] \ {k} : rows'[t][j] = rows[t][j]
      /\ DOMAIN rows' = Tables /\ DOMAIN rows'[t] = Keys[t]
      /\ \A u \in Tables \ {t} : rows'[u] = rows[u]
  BY <1>1, <1>2
<1>4. Stamped(t)'
  <2>1. clock \in 1..clock
    BY <1>2
  <2> QED
    BY <1>1, <1>2, <1>3, <2>1 DEF TableInv, Stamped
<1>5. /\ Version(t)' \in 0..clock
      /\ \A j \in Keys[t] : rows'[t][j].at <= Version(t)'
      /\ \/ Version(t)' = 0
         \/ \E j \in Keys[t] : rows'[t][j] # Absent /\ rows'[t][j].at = Version(t)'
  <2> DEFINE r == rows'[t]
             v == Max(Stamps(r, Keys[t]))
  <2>1. Version(t)' = v
    BY DEF Version, Stamps
  <2>2. \A j \in Keys[t] : r[j] = Absent \/ r[j].at \in 1..clock
    BY <1>1, <1>4 DEF Stamped
  <2>3. /\ v \in 0..clock /\ \A j \in Keys[t] : r[j].at <= v
        /\ v = 0 \/ \E j \in Keys[t] : r[j] # Absent /\ r[j].at = v
    <3> HIDE DEF r
    <3> QED
      BY <1>2, <2>2, VersionIs
  <2> QED
    BY <2>1, <2>3
<1>6. Version(t)' # baseline[t]
  <2>1. CASE row # Absent
    BY <1>1, <1>2, <1>3, <1>5, <2>1
  <2>2. CASE row = Absent
    <3>1. /\ rows[t][k].at = baseline[t] /\ rows[t][k].at \in 1..clock
          /\ \A j \in Keys[t] \ {k} : rows[t][j].at < baseline[t]
      BY <1>2, <2>2 DEF Newest, TableInv, Stamped
    <3>2. baseline[t] # 0
      BY <1>2, <3>1
    <3> QED
      BY <1>2, <1>3, <1>5, <2>2, <3>1, <3>2
  <2> QED
    BY <2>1, <2>2
<1>7. ChangeShows(t)'
  <2>1. row = Absent => seen[t] = Nothing
    BY DEF Newest
  <2> QED
    BY <1>1, <1>2, <1>6 DEF TableInv, ChangeShows
<1>8. BootOK(t)' /\ PaceOK(t)'
  BY <1>1, <1>2 DEF TableInv, BootOK, PaceOK
<1>9. ASSUME NEW u \in Tables \ {t} PROVE DOMAIN rows'[u] = Keys[u] /\ TableInv(u)'
  BY <1>1, <1>3, OtherTable DEF SyncInv
<1> QED
  BY <1>1, <1>2, <1>3, <1>4, <1>7, <1>8, <1>9 DEF SyncInv, TableInv

LEMMA FillSteps ==
    ASSUME VerdictsApart, SyncInv, NEW t \in Tables, FillRead(t) \/ FillStore(t)
    PROVE  SyncInv'
<1>1. /\ UNCHANGED <<rows, clock, baseline, seen, sincePoll, lag, booting>>
      /\ \A u \in Tables \ {t} : kept'[u] = kept[u] /\ filling'[u] = filling[u]
      /\ DOMAIN kept' = Tables /\ DOMAIN filling' = Tables
  BY DEF FillRead, FillStore, SyncInv
<1>2. InForce(t)' = InForce(t) /\ Version(t)' = Version(t)
  BY <1>1, OwnSource DEF InForce, View, Version
<1>3. Clean(t) => Clean(t)'
  <2>1. CASE FillRead(t)
    <3>1. t # "system_config" /\ kept' = kept /\ filling' = [filling EXCEPT ![t] = Read(t)]
      BY <2>1 DEF FillRead
    <3>2. Read(t) = InForce(t)
      BY <3>1, OwnSource DEF Read, InForce
    <3> QED
      BY <1>2, <3>1, <3>2 DEF Clean, SyncInv
  <2>2. CASE FillStore(t)
    BY <1>2, <2>2 DEF FillStore, Clean, SyncInv
  <2> QED
    BY <2>1, <2>2
<1>4. TableInv(t)'
  BY <1>1, <1>2, <1>3 DEF SyncInv, TableInv, Stamped, BootOK, ChangeShows, PaceOK
<1>5. ASSUME NEW u \in Tables \ {t} PROVE DOMAIN rows'[u] = Keys[u] /\ TableInv(u)'
  BY <1>1, OtherTable DEF SyncInv
<1> QED
  BY <1>1, <1>4, <1>5 DEF SyncInv

LEMMA PollReadStep ==
    ASSUME VerdictsApart, SyncInv, NEW t \in Tables, PollVersion(t)
    PROVE  SyncInv'
<1>1. /\ sincePoll[t] = Interval /\ seen[t] = Nothing
      /\ UNCHANGED <<rows, clock, baseline, kept, filling, sincePoll, lag, booting>>
      /\ seen' = [seen EXCEPT ![t] = Version(t)]
  BY DEF PollVersion, PollRead
<1>2. DOMAIN seen = Tables /\ seen'[t] = Version(t) /\ \A u \in Tables \ {t} : seen'[u] = seen[u]
  BY <1>1 DEF SyncInv
<1>3. Version(t) \in Nat /\ (booting => Version(t) = 0)
  <2>1. clock \in Nat /\ Stamped(t)
    BY BoundsAssumption DEF SyncInv, TableInv
  <2>2. /\ Version(t) \in 0..clock
        /\ \A k \in Keys[t] : rows[t][k].at <= Version(t)
        /\ Version(t) = 0 \/ \E k \in Keys[t] : rows[t][k] # Absent /\ rows[t][k].at = Version(t)
    <3>1. Version(t) = Max(Stamps(rows[t], Keys[t]))
      BY DEF Version, Stamps
    <3> QED
      BY <2>1, <3>1, VersionIs DEF Stamped
  <2> QED
    BY <2>1, <2>2 DEF SyncInv, TableInv, BootOK
<1>4. InForce(t)' = InForce(t) /\ Version(t)' = Version(t) /\ (Clean(t)' <=> Clean(t))
  BY <1>1, OwnSource DEF InForce, View, Version, Clean
<1>5. TableInv(t)'
  <2>1. Stamped(t)' /\ BootOK(t)' /\ PaceOK(t)'
    BY <1>1, <1>2, <1>3, <1>4 DEF SyncInv, TableInv, Stamped, BootOK, PaceOK
  <2>2. ChangeShows(t)'
    BY <1>1, <1>2, <1>3, <1>4 DEF SyncInv, TableInv, ChangeShows, Nothing
  <2> QED
    BY <2>1, <2>2 DEF TableInv
<1>6. ASSUME NEW u \in Tables \ {t} PROVE DOMAIN rows'[u] = Keys[u] /\ TableInv(u)'
  BY <1>1, <1>2, OtherTable DEF SyncInv
<1> QED
  BY <1>1, <1>2, <1>5, <1>6 DEF SyncInv

\* The round acts on what it has seen: afterwards either everything that is
\* kept is of now, or another write has come after the look.
LEMMA PollActStep ==
    ASSUME VerdictsApart, WellStamped, SyncInv, NEW t \in Tables, PollAct(t)
    PROVE  SyncInv'
<1>1. /\ seen[t] # Nothing /\ filling[t] = Unloaded
      /\ kept' = IF Changed(t) THEN [kept EXCEPT ![t] = Refresh(t)] ELSE kept
      /\ lag' = IF Changed(t) THEN [lag EXCEPT ![t] = 0] ELSE lag
      /\ baseline' = [baseline EXCEPT ![t] = seen[t]] /\ seen' = [seen EXCEPT ![t] = Nothing]
      /\ sincePoll' = [sincePoll EXCEPT ![t] = 0]
      /\ booting' = (booting /\ \E s \in Tables \ {t} : sincePoll[s] = Interval)
      /\ UNCHANGED <<rows, clock, filling>>
  BY DEF PollAct, WellStamped
<1>2. /\ DOMAIN rows[t] = Keys[t] /\ TableInv(t) /\ seen[t] \in Nat /\ sincePoll[t] = Interval
  BY <1>1 DEF SyncInv, TableInv, PaceOK
<1>3. /\ baseline'[t] = seen[t] /\ seen'[t] = Nothing /\ sincePoll'[t] = 0
      /\ kept'[t] = IF Changed(t) THEN Refresh(t) ELSE kept[t]
      /\ lag'[t] = IF Changed(t) THEN 0 ELSE lag[t]
      /\ \A u \in Tables \ {t} :
            /\ baseline'[u] = baseline[u] /\ seen'[u] = seen[u] /\ kept'[u] = kept[u]
            /\ lag'[u] = lag[u] /\ sincePoll'[u] = sincePoll[u]
      /\ DOMAIN baseline' = Tables /\ DOMAIN seen' = Tables /\ DOMAIN kept' = Tables
      /\ DOMAIN lag' = Tables /\ DOMAIN sincePoll' = Tables
  BY <1>1 DEF SyncInv
<1>4. InForce(t)' = InForce(t) /\ Version(t)' = Version(t)
  BY <1>1, OwnSource DEF InForce, View, Version
<1>5. Refresh(t) \in {Unloaded, InForce(t)}
  BY OwnSource DEF Refresh, InForce
<1>6. baseline[t] = Nothing => booting
  BY DEF Nothing, SyncInv, TableInv, BootOK
<1>7. ~Changed(t) => seen[t] = baseline[t] \/ booting
  BY <1>2, <1>6 DEF Changed, Failed, SyncInv, TableInv, BootOK
<1>8. lag'[t] = 0
  <2>1. CASE Changed(t)
    BY <1>3, <2>1
  <2>2. CASE ~Changed(t)
    BY <1>1, <1>2, <1>3, <1>7, <2>2 DEF TableInv, ChangeShows, BootOK, PaceOK
  <2> QED
    BY <2>1, <2>2
<1>9. Version(t) = seen[t] => Clean(t)'
  <2>1. CASE Changed(t)
    BY <1>1, <1>3, <1>4, <1>5, <2>1 DEF Clean
  <2>2. CASE ~Changed(t)
    <3>1. Version(t) = seen[t] => Clean(t)
      BY <1>2, <1>7, <2>2 DEF TableInv, ChangeShows, BootOK
    <3> QED
      BY <1>1, <1>3, <1>4, <2>2, <3>1 DEF Clean
  <2> QED
    BY <2>1, <2>2
<1>10. booting => Clean(t)' /\ ~Changed(t) /\ seen[t] = 0
  <2>1. booting => seen[t] = 0 /\ ~Changed(t) /\ Clean(t)
    BY <1>2 DEF Changed, TableInv, BootOK, Nothing
  <2> QED
    BY <1>1, <1>3, <1>4, <2>1 DEF Clean
<1>11. TableInv(t)'
  <2>1. Stamped(t)'
    BY <1>1, <1>2 DEF TableInv, Stamped
  <2>2. BootOK(t)'
    BY <1>1, <1>2, <1>3, <1>8, <1>10 DEF TableInv, BootOK
  <2>3. PaceOK(t)'
    BY <1>3, <1>8, BoundsAssumption DEF PaceOK
  <2>4. ChangeShows(t)'
    BY <1>3, <1>4, <1>8, <1>9 DEF ChangeShows
  <2> QED
    BY <2>1, <2>2, <2>3, <2>4 DEF TableInv
<1>12. ASSUME NEW u \in Tables \ {t} PROVE DOMAIN rows'[u] = Keys[u] /\ TableInv(u)'
  <2>1. booting' = booting \/ (~booting' /\ baseline[u] \in Nat)
    BY <1>1 DEF SyncInv, TableInv, BootOK
  <2> QED
    BY <1>1, <1>3, <2>1, OtherTable DEF SyncInv
<1> QED
  BY <1>1, <1>3, <1>11, <1>12 DEF SyncInv

LEMMA TickStep ==
    ASSUME VerdictsApart, SyncInv, Tick
    PROVE  SyncInv'
<1>1. /\ \A t \in Tables : sincePoll[t] < Interval
      /\ sincePoll' = [t \in Tables |-> sincePoll[t] + 1]
      /\ lag' = [t \in Tables |-> IF ~OutOfDate(t) THEN 0
                                  ELSE IF lag[t] <= Interval THEN lag[t] + 1 ELSE lag[t]]
      /\ UNCHANGED <<rows, baseline, seen, kept, filling, booting>>
      /\ clock' = IF clock < MaxClock THEN clock + 1 ELSE clock
  BY DEF Tick
<1>2. clock \in 1..MaxClock /\ clock' \in 1..MaxClock /\ clock <= clock' /\ clock \in Nat /\ clock' \in Nat
  BY <1>1, BoundsAssumption DEF SyncInv
<1>3. ASSUME NEW t \in Tables PROVE DOMAIN rows'[t] = Keys[t] /\ TableInv(t)'
  <2>1. DOMAIN rows[t] = Keys[t] /\ TableInv(t)
    BY DEF SyncInv
  <2>2. InForce(t)' = InForce(t) /\ Version(t)' = Version(t) /\ (Clean(t)' <=> Clean(t))
    BY <1>1, OwnSource DEF InForce, View, Version, Clean
  <2>3. seen[t] = Nothing /\ baseline[t] \in Nat
    BY <1>1, <2>1, BoundsAssumption DEF TableInv, PaceOK, BootOK
  <2>4. OutOfDate(t) => ~Clean(t)
    BY DEF OutOfDate, Clean
  <2>5. Stamped(t)'
    BY <1>1, <1>2, <2>1 DEF TableInv, Stamped
  <2>6. BootOK(t)'
    BY <1>1, <2>1, <2>2, <2>3, <2>4 DEF TableInv, BootOK
  <2>7. PaceOK(t)'
    BY <1>1, <2>1, <2>3, BoundsAssumption DEF TableInv, PaceOK
  <2>8. ChangeShows(t)'
    BY <1>1, <2>1, <2>2, <2>3, <2>4 DEF TableInv, ChangeShows
  <2> QED
    BY <1>1, <2>1, <2>5, <2>6, <2>7, <2>8 DEF TableInv
<1> QED
  BY <1>1, <1>2, <1>3 DEF SyncInv

LEMMA SyncStep == VerdictsApart /\ Inv /\ [Next]_vars => Inv'
<1> SUFFICES ASSUME VerdictsApart, Inv, [Next]_vars, WellStamped' PROVE SyncInv'
  BY DEF Inv
<1>1. happens' = happens
  BY DEF Next, Put, Toggle, Delete, Write, FillRead, FillStore, PollVersion, PollError, PollRead,
         PollAct, Tick, vars
<1>2. WellStamped /\ SyncInv
  BY <1>1 DEF WellStamped, Inv
<1>3. ASSUME NEW t \in Tables, NEW k \in Keys[t], NEW v, Put(t, k, v) PROVE SyncInv'
  <2> DEFINE row == [value |-> v, at |-> clock]
  <2>1. Write(t, k, row) /\ row.at = clock
    BY <1>3 DEF Put
  <2>2. row # Absent
    <3>1. clock # -1
      BY <1>2 DEF SyncInv
    <3> QED
      BY <2>1, <3>1 DEF Absent, Nothing
  <2> HIDE DEF row
  <2> QED
    BY <1>2, <2>1, <2>2, WriteStep
<1>4. ASSUME NEW t \in Tables, NEW k \in Keys[t], NEW v, Toggle(t, k, v) PROVE SyncInv'
  BY <1>2, <1>4 DEF Toggle, WellStamped
<1>5. ASSUME NEW t \in Tables, NEW k \in Keys[t], Delete(t, k) PROVE SyncInv'
  <2>1. Write(t, k, Absent) /\ rows[t][k] # Absent /\ Newest(t, k)
    BY <1>2, <1>5 DEF Delete, WellStamped
  <2> QED
    BY <1>2, <2>1, WriteStep
<1>6. ASSUME NEW t \in Tables, PollError(t) PROVE SyncInv'
  BY <1>2, <1>6 DEF PollError, WellStamped
<1>7. CASE UNCHANGED vars
  <2>1. ASSUME NEW t \in Tables PROVE DOMAIN rows'[t] = Keys[t] /\ TableInv(t)'
    BY <1>2, <1>7, OtherTable DEF SyncInv, vars
  <2> QED
    BY <1>2, <1>7, <2>1 DEF SyncInv, vars
<1> QED
  BY <1>2, <1>3, <1>4, <1>5, <1>6, <1>7, FillSteps, PollReadStep, PollActStep, TickStep DEF Next

\* What the DNS process works with lags by one interval at most, where every
\* write has a second of its own and rows are deleted only when newest: for
\* any tables but that of the sources beside the settings.
THEOREM LagIsBounded ==
    ASSUME VerdictsApart
    PROVE  Spec => []BoundedLag
<1>1. Init => Inv
  BY SyncStart DEF Inv
<1>2. Inv /\ [Next]_vars => Inv'
  BY SyncStep
<1>3. Inv => BoundedLag
  <2> SUFFICES ASSUME WellStamped, SyncInv, NEW t \in Tables PROVE lag[t] <= Interval
    BY DEF Inv, BoundedLag, WellStamped
  <2>1. sincePoll[t] \in 0..Interval /\ lag[t] \in Nat /\ lag[t] <= sincePoll[t]
    BY DEF SyncInv, TableInv, PaceOK
  <2> QED
    BY <2>1, BoundsAssumption
<1> QED
  BY <1>1, <1>2, <1>3, PTL DEF Spec

=============================================================================
