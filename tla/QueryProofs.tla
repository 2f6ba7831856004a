---------------------------- MODULE QueryProofs ----------------------------
(***************************************************************************)
(* What a query reads, for every set of addresses, sources, domains,       *)
(* threads and every number of changes of the lists and settings.          *)
(*                                                                         *)
(* ProcessQuery.  The path is counted once (OneOutcome), from an invariant *)
(* that counts nothing and writes no block before the last step.  Of the   *)
(* settings in force since the arrival at least one explains the whole     *)
(* answer as long as there are no more than two (SomeSettingExplains): two *)
(* of them differ in one key, the layers before have read other keys, and  *)
(* so one of the two agrees with the layer that reads this one             *)
(* (SomeAgrees).  The fusion that they all use is the documented one       *)
(* (FusionIsDocumented).                                                   *)
(*                                                                         *)
(* VerdictCache.  What the cache can serve outlives the configuration it   *)
(* rests on by at most QueryBound + TTL seconds: a conclusion in the       *)
(* making is not outdated for longer than it has been in the making.       *)
(*                                                                         *)
(* NewDomains.  What is in the table is in memory or in the snapshot that  *)
(* a thread is about to merge; the routing table goes only during a        *)
(* refresh, which puts its backup back.                                    *)
(***************************************************************************)
EXTENDS ProcessQuery, VerdictCache, NewDomains, FiniteSetTheorems, TLAPS

-----------------------------------------------------------------------------
(* ProcessQuery: a query is counted once, as what its client got.          *)

Alive == pc \notin {"done", "failed"}
Deeds == {n \in DOMAIN rows : rows[n] # "observe"}

OutcomeInv ==
    /\ counted \in Seq({"allow", "intercept", "remove_ip"}) /\ Len(counted) <= 1
    /\ rows \in Seq({"observe", "intercept", "remove_ip"})
    /\ Alive => counted = <<>> /\ Deeds = {}
    /\ Ended => OneOutcome

\* Finish counts what it answers, and adds the row of a block or a removal.
LEMMA FinishCounts ==
    ASSUME OutcomeInv, Alive, NEW count, NEW reply, NEW row,
           \/ count = "allow" /\ row = <<>> /\ reply.kind = "upstream"
           \/ count \in {"intercept", "remove_ip"} /\ row = <<count>>
              /\ CountOf(reply.kind) = count,
           Finish(count, row, reply)
    PROVE  OutcomeInv'
<1>1. counted' = <<count>> /\ count \in {"allow", "intercept", "remove_ip"}
  BY DEF OutcomeInv, Finish
<1>2. CASE rows' = rows \o row /\ answer' = reply /\ pc' = "done"
  <2>1. CASE row = <<>>
    <3>1. rows' = rows /\ count = "allow" /\ CountOf(reply.kind) = "allow"
      BY <1>2, <2>1 DEF OutcomeInv, CountOf
    <3> QED
      BY <1>1, <1>2, <3>1 DEF OutcomeInv, OneOutcome, Ended, Alive, Deeds, CountOf
  <2>2. CASE row = <<count>> /\ count # "allow"
    <3>1. /\ rows' \in Seq({"observe", "intercept", "remove_ip"})
          /\ Len(rows') = Len(rows) + 1
          /\ rows'[Len(rows) + 1] = count
          /\ \A n \in 1..Len(rows) : rows'[n] = rows[n]
      BY <1>1, <1>2, <2>2 DEF OutcomeInv
    <3>2. Deeds' = {Len(rows) + 1}
      BY <1>1, <3>1, <2>2 DEF OutcomeInv, Deeds
    <3>3. CountOf(answer'.kind) = count
      BY <1>2, <2>2
    <3>4. counted' # <<"allow">> /\ counted'[1] = count
      BY <1>1, <2>2
    <3>5. OneOutcome'
      BY <1>1, <3>1, <3>2, <3>3, <3>4 DEF OneOutcome, CountOf, Deeds
    <3> QED
      BY <1>1, <1>2, <3>1, <3>5 DEF OutcomeInv, Alive
  <2> QED
    BY <2>1, <2>2
<1>3. CASE pc' = "failed" /\ UNCHANGED rows
  BY <1>1, <1>3 DEF OutcomeInv, Alive, Ended
<1> QED
  BY <1>2, <1>3 DEF Finish

LEMMA ForwardCounts == OutcomeInv /\ Alive /\ Forward => OutcomeInv'
BY FinishCounts DEF Forward, Forwarded

LEMMA InterceptCounts == OutcomeInv /\ Alive /\ Intercept => OutcomeInv'
<1>1. CountOf(Alert.kind) = "intercept"
  BY DEF Alert, CountOf
<1> QED
  BY <1>1, FinishCounts DEF Intercept

\* Going on, with or without an observation, neither counts nor blocks.
LEMMA GoCounts ==
    ASSUME OutcomeInv, Alive, NEW layer, layer \notin {"done", "failed"}, Go(layer),
           UNCHANGED rows \/ rows' = Append(rows, "observe")
    PROVE  OutcomeInv'
<1>1. CASE UNCHANGED rows
  BY <1>1 DEF OutcomeInv, Go, Alive, Ended, Deeds
<1>2. CASE rows' = Append(rows, "observe")
  <2>1. /\ rows' \in Seq({"observe", "intercept", "remove_ip"})
        /\ \A n \in DOMAIN rows' : \/ n \in DOMAIN rows /\ rows'[n] = rows[n]
                                   \/ rows'[n] = "observe"
    BY <1>2 DEF OutcomeInv
  <2> QED
    BY <2>1 DEF OutcomeInv, Go, Alive, Ended, Deeds
<1> QED
  BY <1>1, <1>2

LEMMA OutcomeInit == Init => OutcomeInv
BY DEF Init, OutcomeInv, Alive, Ended, Deeds

LEMMA OutcomeStep == OutcomeInv /\ [Next]_queryVars => OutcomeInv'
<1> SUFFICES ASSUME OutcomeInv, [Next]_queryVars PROVE OutcomeInv'
  OBVIOUS
<1> USE ForwardCounts, InterceptCounts, GoCounts DEF At
<1>1. ASSUME Arrive PROVE OutcomeInv'
  BY <1>1 DEF Arrive, OutcomeInv, Alive, Ended, Deeds
<1>2. ASSUME Dispatch PROVE OutcomeInv'
  BY <1>2 DEF Dispatch, Alive
<1>3. ASSUME Whitelist \/ Blacklist \/ PtrWhitelist PROVE OutcomeInv'
  BY <1>3 DEF Whitelist, Blacklist, PtrWhitelist, Alive
<1>4. ASSUME Offline \/ NrdOffline \/ Nrd \/ NrdMode PROVE OutcomeInv'
  BY <1>4 DEF Offline, NrdOffline, Nrd, NrdMode, Observe, Alive
<1>5. ASSUME Online PROVE OutcomeInv'
  BY <1>5 DEF Online, Alive
<1>6. ASSUME Upstream PROVE OutcomeInv'
  BY <1>6, FinishCounts DEF Upstream, Alive
<1>7. ASSUME StartChecks \/ \E i \in Ips : Listed(i) \/ CheckIp(i) PROVE OutcomeInv'
  BY <1>7 DEF StartChecks, Listed, CheckIp, Alive
<1>8. ASSUME Filter PROVE OutcomeInv'
  BY <1>8, FinishCounts DEF Filter, Alive, CountOf
<1>9. ASSUME PtrLists PROVE OutcomeInv'
  BY <1>9 DEF PtrLists, Alive
<1>10. ASSUME PtrOnline PROVE OutcomeInv'
  BY <1>10, FinishCounts DEF PtrOnline, Alive, Forwarded
<1>11. ASSUME Raise PROVE OutcomeInv'
  BY <1>11 DEF Raise, OutcomeInv, Alive, Ended
<1>12. ASSUME Change \/ UNCHANGED queryVars PROVE OutcomeInv'
  BY <1>12 DEF Change, queryVars, OutcomeInv, Alive, Ended, Deeds, OneOutcome
<1> QED
  BY <1>1, <1>2, <1>3, <1>4, <1>5, <1>6, <1>7, <1>8, <1>9, <1>10, <1>11, <1>12
     DEF Next, Layers

\* Whatever sources, lists and settings there are and however they change: no
\* query is counted twice, also one that raises.  A query that is answered is
\* counted as what its client got, and has exactly one row if it was blocked or
\* lost addresses and none if it was let through, its rows of observation aside.
THEOREM QueriesCountOnce == Spec => []OneOutcome
<1>1. OutcomeInv => OneOutcome
  BY DEF OutcomeInv, OneOutcome
<1> QED
  BY <1>1, OutcomeInit, OutcomeStep, PTL DEF Spec

-----------------------------------------------------------------------------
(* The fusion of what the sources conclude.                                *)

\* The strategies as their documentation has them (adapters/__init__.py,
\* lines 121-124): one source suffices; more than half of the sources that
\* have a conclusion; all of those, of which there is one.
Documented(c, strategy) ==
    LET Say(x) == {v \in DOMAIN c : c[v] = x}
    IN  CASE strategy = "any" -> Say("malicious") # {}
          [] strategy = "majority" -> Cardinality(Say("malicious")) > Cardinality(Say("clean"))
          [] strategy = "all" -> Say("malicious") # {} /\ Say("clean") = {}

\* For any number of sources and whatever they conclude: run_fusion, which is
\* given the conclusions alone, decides as documented; a source without a
\* conclusion changes nothing.
THEOREM FusionIsDocumented ==
    ASSUME NEW on, IsFiniteSet(on), NEW c \in [on -> Conclusions], NEW strategy \in Strategies
    PROVE  run_fusion(Votes(c), strategy) <=> Documented(c, strategy)
<1> DEFINE bad == {v \in on : c[v] = "malicious"}
           clean == {v \in on : c[v] = "clean"}
           all == {v \in on : c[v] # "none"}
<1>1. /\ bad \subseteq on /\ clean \subseteq on
      /\ all = bad \union clean /\ bad \intersect clean = {}
  BY DEF Conclusions
<1>2. Votes(c) = [all |-> Cardinality(all), bad |-> Cardinality(bad)]
  BY DEF Votes
<1>3. /\ Documented(c, "any") <=> bad # {}
      /\ Documented(c, "majority") <=> Cardinality(bad) > Cardinality(clean)
      /\ Documented(c, "all") <=> bad # {} /\ clean = {}
  BY DEF Documented
<1> HIDE DEF bad, clean, all
<1>4. IsFiniteSet(bad) /\ IsFiniteSet(clean)
  BY <1>1, FS_Subset
<1>5. /\ Cardinality(bad) \in Nat /\ Cardinality(clean) \in Nat
      /\ Cardinality(bad) = 0 <=> bad = {}
      /\ Cardinality(clean) = 0 <=> clean = {}
  BY <1>4, FS_CardinalityType, FS_EmptySet
<1>6. Cardinality(all) = Cardinality(bad) + Cardinality(clean)
  <2>1. Cardinality(all) = Cardinality(bad) + Cardinality(clean) - Cardinality(bad \intersect clean)
    BY <1>1, <1>4, FS_Union
  <2>2. Cardinality(bad \intersect clean) = 0
    BY <1>1, FS_EmptySet
  <2> QED
    BY <1>5, <2>1, <2>2
<1>7. CASE strategy = "any"
  BY <1>2, <1>3, <1>5, <1>6, <1>7 DEF run_fusion
<1>8. CASE strategy = "majority"
  BY <1>2, <1>3, <1>5, <1>6, <1>8 DEF run_fusion
<1>9. CASE strategy = "all"
  BY <1>2, <1>3, <1>5, <1>6, <1>9 DEF run_fusion
<1> QED
  BY <1>7, <1>8, <1>9 DEF Strategies

\* Whatever the reply, it comes to one of the three conclusions.
LEMMA Concludes ==
    ASSUME NEW v \in Vendors, NEW reply
    PROVE  Conclude(v, TRUE, reply) \in Conclusions
<1>1. \A x : Judge(x) \in Conclusions
  BY DEF Judge, Conclusions
<1>2. "none" \in Conclusions /\ "clean" \in Conclusions /\ "malicious" \in Conclusions
  BY DEF Conclusions
<1> DEFINE b == reply.body
<1>3. /\ AbuseIPDB(b) \in Conclusions /\ VirusTotal(b) \in Conclusions
      /\ BlocklistDe(b) \in Conclusions /\ PhishTank(b) \in Conclusions
      /\ ThreatBook(b) \in Conclusions /\ ThreatFox(b) \in Conclusions
  BY <1>1, <1>2 DEF AbuseIPDB, VirusTotal, BlocklistDe, PhishTank, ThreatBook, ThreatFox
<1>4. /\ GreyNoise(b) \in Conclusions /\ OTX(b) \in Conclusions /\ XForce(b) \in Conclusions
      /\ DShield(b) \in Conclusions /\ URLhaus(b) \in Conclusions
      /\ DNSBL(v, b.codes) \in Conclusions
  BY <1>1, <1>2 DEF GreyNoise, OTX, XForce, DShield, URLhaus, DNSBL
<1>5. Parse(v, b) \in Conclusions
  BY <1>2, <1>3, <1>4 DEF Parse, Vendors, DomainSources, IpSources, Blocklists
<1> QED
  BY <1>2, <1>5 DEF Conclude

-----------------------------------------------------------------------------
(* What is found out, and what a setting makes of it.                      *)

Counts == [all : Nat, bad : Nat]
Outcomes == [from : {"nobody", "sources", "cache"}, results : Counts, verdict : BOOLEAN]

LEMMA FiveAreFinite ==
    ASSUME NEW a, NEW b, NEW c, NEW d, NEW e
    PROVE  IsFiniteSet({a, b, c, d, e})
<1>1. IsFiniteSet({a})
  BY FS_Singleton
<1>2. IsFiniteSet({a} \union {b})
  BY <1>1, FS_AddElement
<1>3. IsFiniteSet(({a} \union {b}) \union {c})
  BY <1>2, FS_AddElement
<1>4. IsFiniteSet((({a} \union {b}) \union {c}) \union {d})
  BY <1>3, FS_AddElement
<1>5. IsFiniteSet(((({a} \union {b}) \union {c}) \union {d}) \union {e})
  BY <1>4, FS_AddElement
<1>6. ((({a} \union {b}) \union {c}) \union {d}) \union {e} = {a, b, c, d, e}
  OBVIOUS
<1> QED
  BY <1>5, <1>6

LEMMA VendorsAreFinite == IsFiniteSet(Vendors)
<1>1. Vendors = ({"example", "virustotal", "phishtank", "threatbook", "threatfox"}
                 \union {"otx", "xforce", "urlhaus", "spamhaus_dbl", "spfbl"})
                \union ({"abuseipdb", "blocklist_de", "greynoise", "dshield", "spamhaus_zen"}
                 \union {"dronebl", "example", "otx", "xforce", "urlhaus"})
  BY DEF Vendors, DomainSources, IpSources
<1> QED
  BY <1>1, FiveAreFinite, FS_Union

LEMMA OutcomesAreTyped ==
    /\ NameOutcomes \subseteq Outcomes /\ IpOutcomes \subseteq Outcomes
    /\ Unasked \in Outcomes
<1>1. NoVotes \in Counts /\ Unasked \in Outcomes /\ Cached \subseteq Outcomes
  <2>1. NoVotes \in Counts
    BY DEF NoVotes, Counts
  <2>2. Unasked \in Outcomes
    BY <2>1 DEF Unasked, Outcomes
  <2>3. ASSUME NEW bad \in BOOLEAN
        PROVE  [Unasked EXCEPT !.from = "cache", !.verdict = bad] \in Outcomes
    BY <2>2 DEF Outcomes
  <2> QED
    BY <2>1, <2>2, <2>3 DEF Cached
<1>2. ASSUME NEW results \in Counts PROVE Asked(results) \in Outcomes
  BY <1>1 DEF Asked, Unasked, Outcomes
<1>3. ASSUME NEW on \in SUBSET Vendors, NEW c \in [on -> Conclusions] PROVE Votes(c) \in Counts
  <2>1. IsFiniteSet(on)
    BY VendorsAreFinite, FS_Subset
  <2>2. IsFiniteSet({v \in on : c[v] # "none"}) /\ IsFiniteSet({v \in on : c[v] = "malicious"})
    BY <2>1, FS_Subset
  <2>3. DOMAIN c = on
    OBVIOUS
  <2> QED
    BY <2>2, <2>3, FS_CardinalityType DEF Votes, Counts
<1>4. ASSUME NEW on \in SUBSET Vendors PROVE Fused(on) \subseteq Outcomes
  <2>1. ASSUME NEW r PROVE Votes([v \in on |-> Conclude(v, TRUE, r[v])]) \in Counts
    <3> DEFINE c == [v \in on |-> Conclude(v, TRUE, r[v])]
    <3>1. c \in [on -> Conclusions]
      BY Concludes
    <3> HIDE DEF c
    <3>2. Votes(c) \in Counts
      BY <1>3, <3>1
    <3> QED
      BY <3>2 DEF c
  <2> QED
    BY <1>1, <1>2, <2>1 DEF Fused
<1> QED
  BY <1>1, <1>4 DEF NameOutcomes, IpOutcomes, Vendors

\* The program blocks what the setting it reads convicts.
LEMMA MaliciousIsConvicted ==
    ASSUME NEW o \in Outcomes, world \in Worlds
    PROVE  Malicious(o) <=> Convicts(world, o)
<1>1. /\ o.results.all \in Nat /\ o.results.bad \in Nat
      /\ world.strategy \in {"any", "majority", "all"}
  BY DEF Outcomes, Counts, Worlds, Strategies
<1>2. CASE o.from # "sources" \/ o.results.all = 0
  BY <1>1, <1>2 DEF Malicious, Convicts
<1>3. CASE o.from = "sources" /\ o.results.all # 0
  <2>1. o.results.all > 0
    BY <1>1, <1>3
  <2>2. CASE world.strategy = "any"
    BY <1>1, <1>3, <2>1, <2>2 DEF Malicious, Convicts, run_fusion
  <2>3. CASE world.strategy = "majority"
    BY <1>1, <1>3, <2>1, <2>3 DEF Malicious, Convicts, run_fusion
  <2>4. CASE world.strategy = "all"
    BY <1>1, <1>3, <2>1, <2>4 DEF Malicious, Convicts, run_fusion
  <2> QED
    BY <1>1, <2>2, <2>3, <2>4
<1> QED
  BY <1>2, <1>3

-----------------------------------------------------------------------------
(* Types.                                                                  *)

Layer == {"switch", "white", "black", "offline", "nrdOffline", "nrd", "nrdMode", "online",
          "upstream", "listed", "verdicts", "checks", "ptrWhite", "ptrBlack", "ptrOffline",
          "ptrOnline"}
Known == [new : BOOLEAN, name : Outcomes, ip : [Ips -> Outcomes],
          ips : SUBSET Ips, readable : BOOLEAN, pending : SUBSET Ips, bad : SUBSET Ips]

QueryTyped ==
    /\ type \in Types
    /\ world \in Worlds /\ worlds \subseteq Worlds
    /\ changes \in 0..MaxChanges
    /\ known \in Known
    /\ known.pending \subseteq known.ips /\ known.bad \subseteq known.ips
    /\ pc \in Layer \union {"coming", "done", "failed"}
    /\ known.ips # {} => pc \in {"listed", "verdicts", "checks", "done", "failed"}
    /\ Running => world \in worlds

LEMMA UsualIsWorld == Usual \in Worlds
BY DEF Usual, Worlds, Modes, Strategies

LEMMA ChangesStayWorlds ==
    ASSUME NEW w \in Worlds, NEW v \in Changed(w)
    PROVE  v \in Worlds
<1> USE DEF Worlds
<1>1. CASE \E b \in BOOLEAN :
              \/ v = [w EXCEPT !.enabled = b] \/ v = [w EXCEPT !.white = b]
              \/ v = [w EXCEPT !.black = b] \/ v = [w EXCEPT !.whiteIp = b]
              \/ v = [w EXCEPT !.offlineIp = b] \/ v = [w EXCEPT !.nrd = b]
  BY <1>1
<1>2. CASE \/ \E o \in {"none", "plain", "nrd"} : v = [w EXCEPT !.offline = o]
           \/ \E m \in Modes : v = [w EXCEPT !.nrdOffline = m]
           \/ \E m \in Modes \ {"off"} : v = [w EXCEPT !.nrdMode = m]
           \/ \E s \in Strategies : v = [w EXCEPT !.strategy = s]
           \/ \E f \in {"intercept", "degrade"} : v = [w EXCEPT !.failsafe = f]
  BY <1>2
<1>3. CASE \E i \in Ips : v = [w EXCEPT !.blackIps = SymDiff(@, {i})]
  BY <1>3 DEF SymDiff
<1> QED
  BY <1>1, <1>2, <1>3 DEF Changed

\* Any two settings of which one is a change of the other differ in one key.
Keys == {"enabled", "white", "black", "offline", "nrdOffline", "nrd", "nrdMode", "whiteIp",
         "offlineIp", "blackIps", "strategy", "failsafe"}
Near(a, b) == \A j, k \in Keys : a[j] # b[j] /\ a[k] # b[k] => j = k

LEMMA ChangesAreNear ==
    ASSUME NEW w \in Worlds, NEW v \in Changed(w)
    PROVE  Near(w, v) /\ Near(v, w)
<1> USE DEF Worlds, Near, Keys
<1>1. CASE \E b \in BOOLEAN :
              \/ v = [w EXCEPT !.enabled = b] \/ v = [w EXCEPT !.white = b]
              \/ v = [w EXCEPT !.black = b] \/ v = [w EXCEPT !.whiteIp = b]
              \/ v = [w EXCEPT !.offlineIp = b] \/ v = [w EXCEPT !.nrd = b]
  BY <1>1
<1>2. CASE \/ \E o \in {"none", "plain", "nrd"} : v = [w EXCEPT !.offline = o]
           \/ \E m \in Modes : v = [w EXCEPT !.nrdOffline = m]
           \/ \E m \in Modes \ {"off"} : v = [w EXCEPT !.nrdMode = m]
           \/ \E s \in Strategies : v = [w EXCEPT !.strategy = s]
           \/ \E f \in {"intercept", "degrade"} : v = [w EXCEPT !.failsafe = f]
  BY <1>2
<1>3. CASE \E i \in Ips : v = [w EXCEPT !.blackIps = SymDiff(@, {i})]
  BY <1>3 DEF SymDiff
<1> QED
  BY <1>1, <1>2, <1>3, ZenonT(60) DEF Changed

LEMMA NearElsewhere ==
    ASSUME NEW a, NEW b, Near(a, b), NEW k \in Keys, a[k] # b[k]
    PROVE  \A j \in Keys \ {k} : a[j] = b[j]
BY DEF Near

LEMMA QueryTypedInit == Init => QueryTyped
<1>1. 0 \in 0..MaxChanges
  BY QueryAssumption
<1> QED
  BY <1>1, UsualIsWorld, OutcomesAreTyped DEF Init, QueryTyped, Nothing, Known, Running

LEMMA QueryTypedStep == QueryTyped /\ [Next]_queryVars => QueryTyped'
<1> SUFFICES ASSUME QueryTyped, [Next]_queryVars PROVE QueryTyped'
  OBVIOUS
<1> USE DEF QueryTyped, Layer, Running, At, Go, Finish, Forward, Intercept, Observe
<1>1. ASSUME Arrive PROVE QueryTyped'
  BY <1>1 DEF Arrive
<1>2. ASSUME Dispatch \/ Whitelist \/ Blacklist \/ Offline \/ NrdOffline PROVE QueryTyped'
  BY <1>2 DEF Dispatch, Whitelist, Blacklist, Offline, NrdOffline
<1>3. ASSUME Nrd \/ NrdMode PROVE QueryTyped'
  BY <1>3 DEF Nrd, NrdMode, Known
<1>4. ASSUME Online PROVE QueryTyped'
  BY <1>4, OutcomesAreTyped DEF Online, Known
<1>5. ASSUME Upstream PROVE QueryTyped'
  <2>1. CASE Forward
    BY <1>5, <2>1 DEF Upstream
  <2>2. ASSUME NEW ips \in SUBSET Ips, NEW readable \in BOOLEAN, pc = "upstream",
               known' = [known EXCEPT !.ips = ips, !.readable = readable, !.pending = ips],
               IF readable THEN Go("listed") /\ UNCHANGED rows
               ELSE Finish("allow", <<>>, [kind |-> "upstream", ips |-> ips])
        PROVE  QueryTyped'
    <3>1. known' \in Known /\ known'.pending \subseteq known'.ips
      BY <2>2 DEF Known
    <3>2. known'.bad \subseteq known'.ips
      BY <2>2 DEF Known
    <3> QED
      BY <2>2, <3>1, <3>2 DEF Known
  <2> QED
    BY <1>5, <2>1, <2>2 DEF Upstream
<1>6. ASSUME NEW i \in Ips, Listed(i) PROVE QueryTyped'
  BY <1>6 DEF Listed, Known
<1>7. ASSUME NEW i \in Ips, CheckIp(i) PROVE QueryTyped'
  <2>1. PICK o \in Outcomes :
            known' = [known EXCEPT !.pending = @ \ {i}, !.ip[i] = o,
                                   !.bad = IF Malicious(o) THEN @ \union {i} ELSE @]
    BY <1>7, OutcomesAreTyped DEF CheckIp
  <2>2. known' \in Known /\ known'.pending \subseteq known'.ips /\ known'.bad \subseteq known'.ips
    BY <1>7, <2>1, ZenonT(60) DEF CheckIp, Known
  <2> QED
    BY <1>7, <2>2 DEF CheckIp
<1>8. ASSUME StartChecks PROVE QueryTyped'
  BY <1>8 DEF StartChecks, Known
<1>9. ASSUME Filter PROVE QueryTyped'
  BY <1>9 DEF Filter
<1>10. ASSUME PtrWhitelist \/ PtrLists PROVE QueryTyped'
  BY <1>10 DEF PtrWhitelist, PtrLists
<1>11. ASSUME PtrOnline PROVE QueryTyped'
  <2>1. PtrIp \in Ips
    BY QueryAssumption DEF PtrIp
  <2>2. PICK o \in Outcomes : known' = [known EXCEPT !.ip[PtrIp] = o]
    BY <1>11, OutcomesAreTyped DEF PtrOnline
  <2>3. known' \in Known /\ known'.pending \subseteq known'.ips /\ known'.bad \subseteq known'.ips
    BY <2>1, <2>2 DEF Known
  <2> QED
    BY <1>11, <2>3 DEF PtrOnline
<1>12. ASSUME Raise PROVE QueryTyped'
  BY <1>12 DEF Raise
<1>13. ASSUME Change PROVE QueryTyped'
  BY <1>13, ChangesStayWorlds, QueryAssumption DEF Change
<1>14. ASSUME UNCHANGED queryVars PROVE QueryTyped'
  BY <1>14 DEF queryVars
<1> QED
  BY <1>1, <1>2, <1>3, <1>4, <1>5, <1>6, <1>7, <1>8, <1>9, <1>10, <1>11, <1>12, <1>13, <1>14
     DEF Next, Layers

\* Every variable of ProcessQuery has its type.
THEOREM QueryTypeCorrect == Spec => []TypeOK
<1>1. QueryTyped /\ OutcomeInv => TypeOK
  BY DEF QueryTyped, OutcomeInv, TypeOK
<1> QED
  BY <1>1, QueryTypedInit, QueryTypedStep, OutcomeInit, OutcomeStep, PTL DEF Spec

-----------------------------------------------------------------------------
(* What a query knows at each layer.                                       *)

PtrLayers == {"ptrWhite", "ptrBlack", "ptrOffline", "ptrOnline"}
Filtering == {"listed", "verdicts", "checks"}
PastOnline == {"upstream"} \union Filtering
PastNrd == {"online"} \union PastOnline
PastOffline == {"nrd", "nrdMode"} \union PastNrd
PastBlack == {"offline", "nrdOffline"} \union PastOffline
PastWhite == {"black"} \union PastBlack

KnownSoFar ==
    /\ pc \notin {"coming", "switch", "done", "failed"} =>
          type \in (IF pc \in PtrLayers THEN {"PTR"} ELSE {"A", "AAAA"})
    /\ known.new => pc \in {"nrdMode", "done", "failed"} \union PastNrd
    /\ pc = "nrdMode" => known.new
    /\ pc \notin {"done", "failed"} \union PastOnline => known.name = Unasked
    /\ pc \in Filtering => known.ips # {} /\ known.readable
    /\ pc = "verdicts" => known.pending = {}
    /\ pc \in {"listed", "checks"} => known.pending \cap known.bad = {}
    /\ \A i \in Ips :
          \/ pc \in {"done", "failed"} \/ known.ip[i] = Unasked
          \/ pc = "checks" /\ i \notin known.pending

LEMMA KnownInit == Init => KnownSoFar
BY DEF Init, KnownSoFar, Nothing, PtrLayers, Filtering, PastOnline, PastNrd

LEMMA KnownStep == QueryTyped /\ KnownSoFar /\ [Next]_queryVars => KnownSoFar'
<1> SUFFICES ASSUME QueryTyped, KnownSoFar, [Next]_queryVars PROVE KnownSoFar'
  OBVIOUS
<1> USE DEF KnownSoFar, PtrLayers, Filtering, PastOnline, PastNrd, At, Go, Finish, Forward,
            Intercept, Observe
<1>1. ASSUME Arrive PROVE KnownSoFar'
  BY <1>1 DEF Arrive
<1>2. ASSUME Dispatch PROVE KnownSoFar'
  BY <1>2 DEF Dispatch, QueryTyped, Types
<1>3. ASSUME Whitelist \/ Blacklist \/ Offline \/ NrdOffline PROVE KnownSoFar'
  BY <1>3 DEF Whitelist, Blacklist, Offline, NrdOffline
<1>4. ASSUME Nrd \/ NrdMode PROVE KnownSoFar'
  BY <1>4 DEF Nrd, NrdMode, QueryTyped, Known
<1>5. ASSUME Online PROVE KnownSoFar'
  BY <1>5 DEF Online, QueryTyped, Known
<1>6. ASSUME Upstream PROVE KnownSoFar'
  BY <1>6, ZenonT(60) DEF Upstream, QueryTyped, Known
<1>7. ASSUME NEW i \in Ips, Listed(i) PROVE KnownSoFar'
  BY <1>7 DEF Listed, QueryTyped, Known
<1>8. ASSUME NEW i \in Ips, CheckIp(i) PROVE KnownSoFar'
  BY <1>8 DEF CheckIp, QueryTyped, Known
<1>9. ASSUME StartChecks \/ Filter PROVE KnownSoFar'
  BY <1>9 DEF StartChecks, Filter, QueryTyped, Known
<1>10. ASSUME PtrWhitelist \/ PtrLists \/ PtrOnline PROVE KnownSoFar'
  BY <1>10 DEF PtrWhitelist, PtrLists, PtrOnline
<1>11. ASSUME Raise \/ Change \/ UNCHANGED queryVars PROVE KnownSoFar'
  BY <1>11 DEF Raise, Change, queryVars
<1> QED
  BY <1>1, <1>2, <1>3, <1>4, <1>5, <1>6, <1>7, <1>8, <1>9, <1>10, <1>11 DEF Next, Layers

-----------------------------------------------------------------------------
(* The settings that were in force: one, two that differ in one key, or    *)
(* at least three.                                                         *)

Few == \E a, b \in worlds : worlds = {a, b}

WorldsInv ==
    /\ IsFiniteSet(worlds)
    /\ Few \/ \E a, b, c \in worlds : a # b /\ a # c /\ b # c
    /\ Few => \A a, b \in worlds : Near(a, b)

LEMMA OneWorld ==
    ASSUME NEW w
    PROVE  IsFiniteSet({w}) /\ (\A a, b \in {w} : Near(a, b))
BY FS_Singleton DEF Near

LEMMA WorldsInit == Init => WorldsInv
BY OneWorld DEF Init, WorldsInv, Few

LEMMA WorldsStep == QueryTyped /\ WorldsInv /\ [Next]_queryVars => WorldsInv'
<1> SUFFICES ASSUME QueryTyped, WorldsInv, [Next]_queryVars PROVE WorldsInv'
  OBVIOUS
<1>1. CASE Arrive
  BY <1>1, OneWorld DEF Arrive, WorldsInv, Few
<1>2. CASE Change /\ Running
  <2>1. PICK w \in Changed(world) : worlds' = worlds \union {w}
    BY <1>2 DEF Change
  <2>2. world \in worlds /\ world \in Worlds /\ Near(world, w) /\ Near(w, world) /\ w # world
    BY <1>2, ChangesAreNear DEF QueryTyped, Changed
  <2>3. IsFiniteSet(worlds')
    BY <2>1, FS_AddElement DEF WorldsInv
  <2>4. CASE w \in worlds
    <3>1. worlds' = worlds
      BY <2>1, <2>4
    <3> QED
      BY <3>1 DEF WorldsInv, Few
  <2>5. CASE worlds = {world} 
    <3>1. worlds' = {world, w} /\ \A a, b \in worlds' : Near(a, b)
      BY <2>1, <2>2, <2>5 DEF Near
    <3> QED
      BY <2>3, <3>1 DEF WorldsInv, Few
  <2>6. CASE w \notin worlds /\ worlds # {world}
    <3>1. PICK v \in worlds : v # world
      BY <2>2, <2>6
    <3>2. v # world /\ v # w /\ world # w /\ {v, world, w} \subseteq worlds'
      BY <2>1, <2>2, <2>6, <3>1
    <3>3. ~Few'
      BY <3>2 DEF Few
    <3> QED
      BY <2>3, <3>2, <3>3 DEF WorldsInv
  <2> QED
    BY <2>4, <2>5, <2>6
<1>3. CASE UNCHANGED worlds
  BY <1>3 DEF WorldsInv, Few
<1>4. Next => Arrive \/ (Change /\ Running) \/ UNCHANGED worlds
  BY DEF Next, Layers, Change, Raise, Dispatch, Whitelist, Blacklist, Offline, NrdOffline, Nrd,
         NrdMode, Online, Upstream, StartChecks, Filter, PtrWhitelist, PtrLists, PtrOnline,
         Listed, CheckIp, Go, Finish, Forward, Intercept, Observe
<1> QED
  BY <1>1, <1>2, <1>3, <1>4 DEF queryVars

-----------------------------------------------------------------------------
(* Of two settings that were in force, one explains the whole way of a     *)
(* query: the next layer decides by a key that no layer before has read.   *)

Explains(w) ==
    /\ pc # "switch" => w.enabled
    /\ pc \in PastWhite => ~w.white
    /\ pc \in PastBlack => ~w.black
    /\ pc = "nrdOffline" => w.offline = "nrd"
    /\ pc \in PastOffline =>
          w.offline # "plain" /\ (w.offline = "nrd" => w.nrdOffline # "intercept")
    /\ pc = "nrdMode" => w.nrd
    /\ pc \in PastNrd => ~(known.new /\ w.nrd /\ w.nrdMode = "intercept")
    /\ pc \in PastOnline => ~Convicts(w, known.name)
    /\ pc \in {"ptrBlack", "ptrOffline", "ptrOnline"} => ~w.whiteIp
    /\ pc \in {"ptrOffline", "ptrOnline"} => PtrIp \notin w.blackIps
    /\ pc = "ptrOnline" => ~w.offlineIp

\* The addresses that have been looked at; each is good or bad by one of the
\* settings.
Seen == IF pc = "listed" THEN known.ips \ known.pending
        ELSE IF pc \in {"verdicts", "checks"} THEN known.ips ELSE {}

AddressesExplained == \A i \in Seen : \E v \in worlds : i \notin known.bad <=> Good(v, i)

AnswerExplained ==
    \E w \in worlds, good \in SUBSET known.ips :
        /\ \A i \in known.ips : \E v \in worlds : i \in good <=> Good(v, i)
        /\ answer = Promise(w, good)

ExplainInv ==
    Few => /\ Running => (\E w \in worlds : Explains(w)) /\ AddressesExplained
           /\ Ended => AnswerExplained

QueryInv == QueryTyped /\ KnownSoFar /\ WorldsInv

LEMMA Decide ==
    ASSUME QueryInv, Few, Running, NEW w \in worlds, NEW k \in Keys
    PROVE  w[k] = world[k] \/ \A j \in Keys \ {k} : w[j] = world[j]
BY DEF QueryInv, QueryTyped, WorldsInv, Near

LEMMA DecideConvicts ==
    ASSUME QueryInv, Few, Running, NEW w \in worlds, NEW o
    PROVE  \/ w.strategy = world.strategy /\ w.failsafe = world.failsafe
              /\ (Convicts(w, o) <=> Convicts(world, o))
           \/ \A j \in Keys \ {"strategy", "failsafe"} : w[j] = world[j]
<1>1. CASE w.strategy = world.strategy /\ w.failsafe = world.failsafe
  BY <1>1 DEF Convicts
<1>2. CASE w.strategy # world.strategy \/ w.failsafe # world.failsafe
  BY <1>2, Decide DEF Keys
<1> QED
  BY <1>1, <1>2

\* Before the addresses: one setting that explains the next place is enough.
LEMMA ExplainGo ==
    ASSUME NEW layer, layer \notin Filtering \union {"coming", "done", "failed"}, Go(layer),
           Running, Few => \E w \in worlds : Explains(w)'
    PROVE  ExplainInv'
BY DEF ExplainInv, Go, Ended, Running, Filtering, AddressesExplained, Seen, Few

LEMMA ExplainFinish ==
    ASSUME NEW count, NEW row, NEW reply, Finish(count, row, reply), known'.ips = {},
           Few => \E w \in worlds : reply = Promise(w, {})'
    PROVE  ExplainInv'
<1>1. CASE pc' = "failed"
  BY <1>1 DEF ExplainInv, Ended, Running
<1>2. CASE pc' = "done" /\ answer' = reply
  <2>1. worlds' = worlds
    BY DEF Finish
  <2> QED
    BY <1>2, <2>1 DEF ExplainInv, Ended, Running, AnswerExplained, Few
<1> QED
  BY <1>1, <1>2 DEF Finish

\* The key that the layer pc reads.
Reads(k) ==
    \/ pc \in {"white", "black", "offline", "nrdOffline", "nrd", "nrdMode"} /\ k = pc
    \/ pc = "ptrWhite" /\ k = "whiteIp"
    \/ pc = "ptrBlack" /\ k = "blackIps"
    \/ pc = "ptrOffline" /\ k = "offlineIp"

LEMMA SomeAgrees ==
    ASSUME QueryInv, ExplainInv, Few, NEW k, Reads(k)
    PROVE  \E w \in worlds : Explains(w) /\ w[k] = world[k]
<1> USE DEF PastWhite, PastBlack, PastOffline, PastNrd, PastOnline, Filtering, Keys
<1>1. Running /\ k \in Keys /\ world \in worlds
  BY DEF Reads, Running, QueryInv, QueryTyped
<1>2. PICK w \in worlds : Explains(w)
  BY <1>1 DEF ExplainInv
<1>3. CASE \A j \in Keys \ {k} : w[j] = world[j]
  <2> SUFFICES Explains(world)
    BY <1>1
  <2>1. CASE pc = "white"
    BY <1>2, <1>3, <2>1 DEF Explains, Reads
  <2>2. CASE pc = "black"
    BY <1>2, <1>3, <2>2 DEF Explains, Reads
  <2>3. CASE pc = "offline"
    BY <1>2, <1>3, <2>3 DEF Explains, Reads
  <2>4. CASE pc = "nrdOffline"
    BY <1>2, <1>3, <2>4 DEF Explains, Reads
  <2>5. CASE pc = "nrd"
    BY <1>2, <1>3, <2>5 DEF Explains, Reads
  <2>6. CASE pc = "nrdMode"
    BY <1>2, <1>3, <2>6 DEF Explains, Reads
  <2>7. CASE pc = "ptrWhite"
    BY <1>2, <1>3, <2>7 DEF Explains, Reads
  <2>8. CASE pc = "ptrBlack"
    BY <1>2, <1>3, <2>8 DEF Explains, Reads
  <2>9. CASE pc = "ptrOffline"
    BY <1>2, <1>3, <2>9 DEF Explains, Reads
  <2> QED
    BY <2>1, <2>2, <2>3, <2>4, <2>5, <2>6, <2>7, <2>8, <2>9 DEF Reads
<1> QED
  BY <1>1, <1>2, <1>3, Decide

LEMMA SomeConvictsAlike ==
    ASSUME QueryInv, ExplainInv, Few, pc \in {"online", "ptrOnline"}, NEW o
    PROVE  \E w \in worlds : Explains(w) /\ (Convicts(w, o) <=> Convicts(world, o))
<1> USE DEF PastWhite, PastBlack, PastOffline, PastNrd, PastOnline, Filtering, Keys
<1>1. Running /\ world \in worlds
  BY DEF Running, QueryInv, QueryTyped
<1>2. PICK w \in worlds : Explains(w)
  BY <1>1 DEF ExplainInv
<1>3. CASE \A j \in Keys \ {"strategy", "failsafe"} : w[j] = world[j]
  <2>1. Explains(world)
    BY <1>2, <1>3 DEF Explains
  <2> QED
    BY <1>1, <2>1
<1> QED
  BY <1>1, <1>2, <1>3, DecideConvicts

\* What holds in every layer of a name before the upstream answer.
LEMMA BeforeUpstream ==
    ASSUME QueryInv, pc \in {"switch", "white", "black", "offline", "nrdOffline", "nrd",
                             "nrdMode", "online", "upstream"} \union PtrLayers
    PROVE  /\ Running /\ world \in worlds /\ known.ips = {}
           /\ pc \notin {"switch"} \union PtrLayers => type \in {"A", "AAAA"}
           /\ pc \in PtrLayers => type = "PTR"
BY DEF QueryInv, QueryTyped, KnownSoFar, Running, PtrLayers

LEMMA ExplainDispatch == QueryInv /\ ExplainInv /\ Dispatch => ExplainInv'
<1> SUFFICES ASSUME QueryInv, ExplainInv, Dispatch PROVE ExplainInv'
  OBVIOUS
<1>1. Running /\ world \in worlds /\ known.ips = {}
  BY BeforeUpstream DEF Dispatch, At
<1>2. CASE ~world.enabled \/ type \in {"other", "badPTR"}
  <2>1. ASSUME NEW w \in worlds, ~w.enabled \/ type \in {"other", "badPTR"}
        PROVE  Forwarded = Promise(w, {})'
    BY <1>2, <2>1 DEF Promise, Dispatch, Forward, Finish
  <2>2. \E w \in worlds : Forwarded = Promise(w, {})'
    BY <1>1, <1>2, <2>1
  <2> QED
    BY <1>1, <1>2, <2>2, ExplainFinish DEF Dispatch, Forward
<1>3. CASE world.enabled /\ type \notin {"other", "badPTR"}
  <2>1. PICK layer \in {"white", "ptrWhite"} : Go(layer)
    BY <1>3 DEF Dispatch
  <2>2. ASSUME NEW w \in worlds, w.enabled PROVE Explains(w)'
    BY <2>1, <2>2 DEF Explains, Go, PastWhite, PastBlack, PastOffline, PastNrd,
       PastOnline, Filtering
  <2>3. \E w \in worlds : Explains(w)'
    BY <1>1, <1>3, <2>2
  <2> QED
    BY <1>1, <2>1, <2>3, ExplainGo DEF Filtering
<1> QED
  BY <1>2, <1>3

LEMMA ExplainWhitelist == QueryInv /\ ExplainInv /\ Whitelist => ExplainInv'
<1> SUFFICES ASSUME QueryInv, ExplainInv, Whitelist PROVE ExplainInv'
  OBVIOUS
<1> USE DEF PastWhite, PastBlack, PastOffline, PastNrd, PastOnline, Filtering, PtrLayers
<1>1. Running /\ known.ips = {} /\ type \in {"A", "AAAA"} /\ pc = "white"
  BY BeforeUpstream DEF Whitelist, At
<1>2. Few => \E w \in worlds : Explains(w) /\ w["white"] = world["white"]
  BY <1>1, SomeAgrees DEF Reads
<1>3. CASE world["white"]
  <2>1. ASSUME NEW w \in worlds, Explains(w), w["white"] PROVE Forwarded = Promise(w, {})'
    BY <1>1, <1>3, <2>1 DEF Explains, Promise, Whitelist, Forward, Finish
  <2>2. Few => \E w \in worlds : Forwarded = Promise(w, {})'
    BY <1>2, <1>3, <2>1
  <2> QED
    BY <1>1, <1>3, <2>2, ExplainFinish DEF Whitelist, Forward
<1>4. CASE ~world["white"]
  <2>1. ASSUME NEW w \in worlds, Explains(w), ~w["white"] PROVE Explains(w)'
    BY <1>1, <1>4, <2>1 DEF Explains, Whitelist, Go
  <2>2. Few => \E w \in worlds : Explains(w)'
    BY <1>2, <1>4, <2>1
  <2> QED
    BY <1>1, <1>4, <2>2, ExplainGo DEF Whitelist
<1> QED
  BY <1>3, <1>4


LEMMA ExplainBlacklist == QueryInv /\ ExplainInv /\ Blacklist => ExplainInv'
<1> SUFFICES ASSUME QueryInv, ExplainInv, Blacklist PROVE ExplainInv'
  OBVIOUS
<1> USE DEF PastWhite, PastBlack, PastOffline, PastNrd, PastOnline, Filtering, PtrLayers
<1>1. Running /\ known.ips = {} /\ type \in {"A", "AAAA"} /\ pc = "black"
  BY BeforeUpstream DEF Blacklist, At
<1>2. Few => \E w \in worlds : Explains(w) /\ w["black"] = world["black"]
  BY <1>1, SomeAgrees DEF Reads
<1>3. CASE world["black"]
  <2>1. ASSUME NEW w \in worlds, Explains(w), w["black"] PROVE Alert = Promise(w, {})'
    BY <1>1, <1>3, <2>1 DEF Explains, Promise, Blacklist, Intercept, Finish, NameIsBad, Alert
  <2>2. Few => \E w \in worlds : Alert = Promise(w, {})'
    BY <1>2, <1>3, <2>1
  <2> QED
    BY <1>1, <1>3, <2>2, ExplainFinish DEF Blacklist, Intercept
<1>4. CASE ~world["black"]
  <2>1. ASSUME NEW w \in worlds, Explains(w), ~w["black"] PROVE Explains(w)'
    BY <1>1, <1>4, <2>1 DEF Explains, Blacklist, Go
  <2>2. Few => \E w \in worlds : Explains(w)'
    BY <1>2, <1>4, <2>1
  <2> QED
    BY <1>1, <1>4, <2>2, ExplainGo DEF Blacklist
<1> QED
  BY <1>3, <1>4


LEMMA ExplainOffline == QueryInv /\ ExplainInv /\ Offline => ExplainInv'
<1> SUFFICES ASSUME QueryInv, ExplainInv, Offline PROVE ExplainInv'
  OBVIOUS
<1> USE DEF PastWhite, PastBlack, PastOffline, PastNrd, PastOnline, Filtering, PtrLayers
<1>1. Running /\ known.ips = {} /\ type \in {"A", "AAAA"} /\ pc = "offline"
  BY BeforeUpstream DEF Offline, At
<1>2. Few => \E w \in worlds : Explains(w) /\ w["offline"] = world["offline"]
  BY <1>1, SomeAgrees DEF Reads
<1>3. CASE world["offline"] = "plain"
  <2>1. ASSUME NEW w \in worlds, Explains(w), w["offline"] = "plain" PROVE Alert = Promise(w, {})'
    BY <1>1, <1>3, <2>1 DEF Explains, Promise, Offline, Intercept, Finish, NameIsBad, Alert
  <2>2. Few => \E w \in worlds : Alert = Promise(w, {})'
    BY <1>2, <1>3, <2>1
  <2> QED
    BY <1>1, <1>3, <2>2, ExplainFinish DEF Offline, Intercept
<1>4. CASE world["offline"] = "nrd"
  <2>1. ASSUME NEW w \in worlds, Explains(w), w["offline"] = "nrd" PROVE Explains(w)'
    BY <1>1, <1>4, <2>1 DEF Explains, Offline, Go
  <2>2. Few => \E w \in worlds : Explains(w)'
    BY <1>2, <1>4, <2>1
  <2> QED
    BY <1>1, <1>4, <2>2, ExplainGo DEF Offline
<1>5. CASE world["offline"] \notin {"plain", "nrd"}
  <2>1. ASSUME NEW w \in worlds, Explains(w), w["offline"] \notin {"plain", "nrd"} PROVE Explains(w)'
    BY <1>1, <1>5, <2>1 DEF Explains, Offline, Go
  <2>2. Few => \E w \in worlds : Explains(w)'
    BY <1>2, <1>5, <2>1
  <2> QED
    BY <1>1, <1>5, <2>2, ExplainGo DEF Offline
<1> QED
  BY <1>3, <1>4, <1>5


LEMMA ExplainNrdOffline == QueryInv /\ ExplainInv /\ NrdOffline => ExplainInv'
<1> SUFFICES ASSUME QueryInv, ExplainInv, NrdOffline PROVE ExplainInv'
  OBVIOUS
<1> USE DEF PastWhite, PastBlack, PastOffline, PastNrd, PastOnline, Filtering, PtrLayers
<1>1. Running /\ known.ips = {} /\ type \in {"A", "AAAA"} /\ pc = "nrdOffline"
  BY BeforeUpstream DEF NrdOffline, At
<1>2. Few => \E w \in worlds : Explains(w) /\ w["nrdOffline"] = world["nrdOffline"]
  BY <1>1, SomeAgrees DEF Reads
<1>3. CASE world["nrdOffline"] = "intercept"
  <2>1. ASSUME NEW w \in worlds, Explains(w), w["nrdOffline"] = "intercept" PROVE Alert = Promise(w, {})'
    BY <1>1, <1>3, <2>1 DEF Explains, Promise, NrdOffline, Intercept, Finish, NameIsBad, Alert
  <2>2. Few => \E w \in worlds : Alert = Promise(w, {})'
    BY <1>2, <1>3, <2>1
  <2> QED
    BY <1>1, <1>3, <2>2, ExplainFinish DEF NrdOffline, Intercept
<1>4. CASE world["nrdOffline"] = "observe"
  <2>1. ASSUME NEW w \in worlds, Explains(w), w["nrdOffline"] = "observe" PROVE Explains(w)'
    BY <1>1, <1>4, <2>1 DEF Explains, NrdOffline, Go, Observe
  <2>2. Few => \E w \in worlds : Explains(w)'
    BY <1>2, <1>4, <2>1
  <2> QED
    BY <1>1, <1>4, <2>2, ExplainGo DEF NrdOffline, Observe
<1>5. CASE world["nrdOffline"] \notin {"intercept", "observe"}
  <2>1. ASSUME NEW w \in worlds, Explains(w), w["nrdOffline"] \notin {"intercept", "observe"} PROVE Explains(w)'
    BY <1>1, <1>5, <2>1 DEF Explains, NrdOffline, Go
  <2>2. Few => \E w \in worlds : Explains(w)'
    BY <1>2, <1>5, <2>1
  <2> QED
    BY <1>1, <1>5, <2>2, ExplainGo DEF NrdOffline
<1> QED
  BY <1>3, <1>4, <1>5


LEMMA ExplainNrd == QueryInv /\ ExplainInv /\ Nrd => ExplainInv'
<1> SUFFICES ASSUME QueryInv, ExplainInv, Nrd PROVE ExplainInv'
  OBVIOUS
<1> USE DEF PastWhite, PastBlack, PastOffline, PastNrd, PastOnline, Filtering, PtrLayers
<1>1. Running /\ known.ips = {} /\ type \in {"A", "AAAA"} /\ pc = "nrd"
  BY BeforeUpstream DEF Nrd, At
<1>2. Few => \E w \in worlds : Explains(w) /\ w["nrd"] = world["nrd"]
  BY <1>1, SomeAgrees DEF Reads
<1>3. CASE world["nrd"]
  <2>1. ASSUME NEW w \in worlds, Explains(w), w["nrd"] PROVE Explains(w)'
    BY <1>1, <1>3, <2>1 DEF Explains, Nrd, Go, QueryInv, QueryTyped, KnownSoFar, Known
  <2>2. Few => \E w \in worlds : Explains(w)'
    BY <1>2, <1>3, <2>1
  <2> QED
    BY <1>1, <1>3, <2>2, ExplainGo DEF Nrd
<1>4. CASE ~world["nrd"]
  <2>1. ASSUME NEW w \in worlds, Explains(w), ~w["nrd"] PROVE Explains(w)'
    BY <1>1, <1>4, <2>1 DEF Explains, Nrd, Go, QueryInv, QueryTyped, KnownSoFar, Known
  <2>2. Few => \E w \in worlds : Explains(w)'
    BY <1>2, <1>4, <2>1
  <2> QED
    BY <1>1, <1>4, <2>2, ExplainGo DEF Nrd
<1> QED
  BY <1>3, <1>4


LEMMA ExplainNrdMode == QueryInv /\ ExplainInv /\ NrdMode => ExplainInv'
<1> SUFFICES ASSUME QueryInv, ExplainInv, NrdMode PROVE ExplainInv'
  OBVIOUS
<1> USE DEF PastWhite, PastBlack, PastOffline, PastNrd, PastOnline, Filtering, PtrLayers
<1>1. Running /\ known.ips = {} /\ type \in {"A", "AAAA"} /\ pc = "nrdMode" /\ known.new
  BY BeforeUpstream DEF NrdMode, At, QueryInv, KnownSoFar
<1>2. Few => \E w \in worlds : Explains(w) /\ w["nrdMode"] = world["nrdMode"]
  BY <1>1, SomeAgrees DEF Reads
<1>3. CASE world["nrdMode"] = "intercept"
  <2>1. ASSUME NEW w \in worlds, Explains(w), w["nrdMode"] = "intercept" PROVE Alert = Promise(w, {})'
    BY <1>1, <1>3, <2>1 DEF Explains, Promise, NrdMode, Intercept, Finish, NameIsBad, Alert
  <2>2. Few => \E w \in worlds : Alert = Promise(w, {})'
    BY <1>2, <1>3, <2>1
  <2> QED
    BY <1>1, <1>3, <2>2, ExplainFinish DEF NrdMode, Intercept
<1>4. CASE world["nrdMode"] # "intercept"
  <2>1. ASSUME NEW w \in worlds, Explains(w), w["nrdMode"] # "intercept" PROVE Explains(w)'
    BY <1>1, <1>4, <2>1 DEF Explains, NrdMode, Go, Observe
  <2>2. Few => \E w \in worlds : Explains(w)'
    BY <1>2, <1>4, <2>1
  <2> QED
    BY <1>1, <1>4, <2>2, ExplainGo DEF NrdMode, Observe
<1> QED
  BY <1>3, <1>4


LEMMA ExplainPtrWhitelist == QueryInv /\ ExplainInv /\ PtrWhitelist => ExplainInv'
<1> SUFFICES ASSUME QueryInv, ExplainInv, PtrWhitelist PROVE ExplainInv'
  OBVIOUS
<1> USE DEF PastWhite, PastBlack, PastOffline, PastNrd, PastOnline, Filtering, PtrLayers
<1>1. Running /\ known.ips = {} /\ type = "PTR" /\ pc = "ptrWhite"
  BY BeforeUpstream DEF PtrWhitelist, At
<1>2. Few => \E w \in worlds : Explains(w) /\ w["whiteIp"] = world["whiteIp"]
  BY <1>1, SomeAgrees DEF Reads
<1>3. CASE world["whiteIp"]
  <2>1. ASSUME NEW w \in worlds, Explains(w), w["whiteIp"] PROVE Forwarded = Promise(w, {})'
    BY <1>1, <1>3, <2>1 DEF Explains, Promise, PtrWhitelist, Forward, Finish
  <2>2. Few => \E w \in worlds : Forwarded = Promise(w, {})'
    BY <1>2, <1>3, <2>1
  <2> QED
    BY <1>1, <1>3, <2>2, ExplainFinish DEF PtrWhitelist, Forward
<1>4. CASE ~world["whiteIp"]
  <2>1. ASSUME NEW w \in worlds, Explains(w), ~w["whiteIp"] PROVE Explains(w)'
    BY <1>1, <1>4, <2>1 DEF Explains, PtrWhitelist, Go
  <2>2. Few => \E w \in worlds : Explains(w)'
    BY <1>2, <1>4, <2>1
  <2> QED
    BY <1>1, <1>4, <2>2, ExplainGo DEF PtrWhitelist
<1> QED
  BY <1>3, <1>4


LEMMA ExplainPtrLists == QueryInv /\ ExplainInv /\ PtrLists => ExplainInv'
<1> SUFFICES ASSUME QueryInv, ExplainInv, PtrLists PROVE ExplainInv'
  OBVIOUS
<1> USE DEF PastWhite, PastBlack, PastOffline, PastNrd, PastOnline, Filtering, PtrLayers
<1>1. Running /\ known.ips = {} /\ type = "PTR"
  BY BeforeUpstream DEF PtrLists, At
<1>2. CASE pc = "ptrBlack"
  <2>1. Few => \E w \in worlds : Explains(w) /\ w["blackIps"] = world["blackIps"]
    BY <1>2, SomeAgrees DEF Reads
  <2>2. CASE PtrIp \in world.blackIps
    <3>1. ASSUME NEW w \in worlds, Explains(w), PtrIp \in w["blackIps"]
          PROVE  Alert = Promise(w, {})'
      BY <1>1, <1>2, <2>2, <3>1
         DEF Explains, Promise, PtrLists, At, Intercept, Finish, Good, Alert
    <3>2. Few => \E w \in worlds : Alert = Promise(w, {})'
      BY <2>1, <2>2, <3>1
    <3> QED
      BY <1>1, <1>2, <2>2, <3>2, ExplainFinish DEF PtrLists, At, Intercept
  <2>3. CASE PtrIp \notin world.blackIps
    <3>1. ASSUME NEW w \in worlds, Explains(w), PtrIp \notin w["blackIps"] PROVE Explains(w)'
      BY <1>1, <1>2, <2>3, <3>1 DEF Explains, PtrLists, At, Go
    <3>2. Few => \E w \in worlds : Explains(w)'
      BY <2>1, <2>3, <3>1
    <3> QED
      BY <1>1, <1>2, <2>3, <3>2, ExplainGo DEF PtrLists, At
  <2> QED
    BY <2>2, <2>3
<1>3. CASE pc = "ptrOffline"
  <2>1. Few => \E w \in worlds : Explains(w) /\ w["offlineIp"] = world["offlineIp"]
    BY <1>3, SomeAgrees DEF Reads
  <2>2. CASE world.offlineIp
    <3>1. ASSUME NEW w \in worlds, Explains(w), w["offlineIp"] PROVE Alert = Promise(w, {})'
      BY <1>1, <1>3, <2>2, <3>1
         DEF Explains, Promise, PtrLists, At, Intercept, Finish, Good, Alert
    <3>2. Few => \E w \in worlds : Alert = Promise(w, {})'
      BY <2>1, <2>2, <3>1
    <3> QED
      BY <1>1, <1>3, <2>2, <3>2, ExplainFinish DEF PtrLists, At, Intercept
  <2>3. CASE ~world.offlineIp
    <3>1. ASSUME NEW w \in worlds, Explains(w), ~w["offlineIp"] PROVE Explains(w)'
      BY <1>1, <1>3, <2>3, <3>1 DEF Explains, PtrLists, At, Go
    <3>2. Few => \E w \in worlds : Explains(w)'
      BY <2>1, <2>3, <3>1
    <3> QED
      BY <1>1, <1>3, <2>3, <3>2, ExplainGo DEF PtrLists, At
  <2> QED
    BY <2>2, <2>3
<1> QED
  BY <1>2, <1>3 DEF PtrLists, At

LEMMA ExplainPtrOnline == QueryInv /\ ExplainInv /\ PtrOnline => ExplainInv'
<1> SUFFICES ASSUME QueryInv, ExplainInv, PtrOnline PROVE ExplainInv'
  OBVIOUS
<1> USE DEF PastWhite, PastBlack, PastOffline, PastNrd, PastOnline, Filtering, PtrLayers
<1>1. Running /\ known.ips = {} /\ type = "PTR" /\ pc = "ptrOnline" /\ world \in Worlds
  BY BeforeUpstream DEF PtrOnline, At, QueryInv, QueryTyped
<1>2. PICK o \in Outcomes :
          /\ known' = [known EXCEPT !.ip[PtrIp] = o]
          /\ IF Malicious(o) THEN Intercept ELSE Finish("allow", <<>>, Forwarded)
  BY OutcomesAreTyped DEF PtrOnline
<1>3. known'.ip[PtrIp] = o /\ known'.ips = {}
  <2>1. PtrIp \in Ips
    BY QueryAssumption DEF PtrIp
  <2> QED
    BY <1>1, <1>2, <2>1 DEF QueryInv, QueryTyped, Known
<1>4. Malicious(o) <=> Convicts(world, o)
  BY <1>1, MaliciousIsConvicted
<1>5. Few => \E w \in worlds : Explains(w) /\ (Convicts(w, o) <=> Convicts(world, o))
  BY <1>1, SomeConvictsAlike
<1>6. CASE Malicious(o)
  <2>1. ASSUME NEW w \in worlds, Explains(w), Convicts(w, o) PROVE Alert = Promise(w, {})'
    <3>1. ~Good(w, PtrIp)'
      BY <1>3, <2>1 DEF Good, Convicts
    <3> QED
      BY <1>1, <1>2, <1>6, <2>1, <3>1 DEF Explains, Promise, Intercept, Finish, Alert
  <2>2. Few => \E w \in worlds : Alert = Promise(w, {})'
    BY <1>4, <1>5, <1>6, <2>1
  <2> QED
    BY <1>2, <1>3, <1>6, <2>2, ExplainFinish DEF Intercept
<1>7. CASE ~Malicious(o)
  <2>1. ASSUME NEW w \in worlds, Explains(w), ~Convicts(w, o) PROVE Forwarded = Promise(w, {})'
    <3>1. Good(w, PtrIp)'
      BY <1>1, <1>3, <2>1 DEF Good, Convicts, Explains
    <3> QED
      BY <1>1, <1>2, <1>7, <2>1, <3>1 DEF Explains, Promise, Finish
  <2>2. Few => \E w \in worlds : Forwarded = Promise(w, {})'
    BY <1>4, <1>5, <1>7, <2>1
  <2> QED
    BY <1>2, <1>3, <1>7, <2>2, ExplainFinish
<1> QED
  BY <1>6, <1>7

LEMMA ExplainOnline == QueryInv /\ ExplainInv /\ Online => ExplainInv'
<1> SUFFICES ASSUME QueryInv, ExplainInv, Online PROVE ExplainInv'
  OBVIOUS
<1> USE DEF PastWhite, PastBlack, PastOffline, PastNrd, PastOnline, Filtering, PtrLayers
<1>1. /\ Running /\ known.ips = {} /\ type \in {"A", "AAAA"} /\ pc = "online"
      /\ world \in Worlds
  BY BeforeUpstream DEF Online, At, QueryInv, QueryTyped
<1>2. PICK o \in Outcomes :
          /\ known' = [known EXCEPT !.name = o]
          /\ IF Malicious(o) THEN Intercept ELSE Go("upstream") /\ UNCHANGED rows
  BY OutcomesAreTyped DEF Online
<1>3. known'.name = o /\ known'.ips = {} /\ known'.new = known.new
  BY <1>1, <1>2 DEF QueryInv, QueryTyped, Known
<1>4. Malicious(o) <=> Convicts(world, o)
  BY <1>1, MaliciousIsConvicted
<1>5. Few => \E w \in worlds : Explains(w) /\ (Convicts(w, o) <=> Convicts(world, o))
  BY <1>1, SomeConvictsAlike
<1>6. CASE Malicious(o)
  <2>1. ASSUME NEW w \in worlds, Explains(w), Convicts(w, o) PROVE Alert = Promise(w, {})'
    <3>1. NameIsBad(w)'
      BY <1>3, <2>1 DEF NameIsBad, Convicts
    <3> QED
      BY <1>1, <1>2, <1>6, <2>1, <3>1 DEF Explains, Promise, Intercept, Finish, Alert
  <2>2. Few => \E w \in worlds : Alert = Promise(w, {})'
    BY <1>4, <1>5, <1>6, <2>1
  <2> QED
    BY <1>2, <1>3, <1>6, <2>2, ExplainFinish DEF Intercept
<1>7. CASE ~Malicious(o)
  <2>1. ASSUME NEW w \in worlds, Explains(w), ~Convicts(w, o) PROVE Explains(w)'
    <3>1. ~Convicts(w, known.name)'
      BY <1>3, <2>1 DEF Convicts
    <3> QED
      BY <1>1, <1>2, <1>3, <1>7, <2>1, <3>1 DEF Explains, Go
  <2>2. Few => \E w \in worlds : Explains(w)'
    BY <1>4, <1>5, <1>7, <2>1
  <2> QED
    BY <1>1, <1>2, <1>7, <2>2, ExplainGo
<1> QED
  BY <1>6, <1>7

\* A setting that explains the way to the upstream answer lets the name pass.
LEMMA NamePasses ==
    ASSUME NEW w, Explains(w), pc \in {"upstream"} \union Filtering
    PROVE  w.enabled /\ ~w.white /\ ~NameIsBad(w)
BY DEF Explains, NameIsBad, PastWhite, PastBlack, PastOffline, PastNrd, PastOnline, Filtering

LEMMA ExplainUpstream == QueryInv /\ ExplainInv /\ Upstream => ExplainInv'
<1> SUFFICES ASSUME QueryInv, ExplainInv, Upstream PROVE ExplainInv'
  OBVIOUS
<1> USE DEF PastWhite, PastBlack, PastOffline, PastNrd, PastOnline, Filtering, PtrLayers
<1>1. /\ Running /\ known.ips = {} /\ type \in {"A", "AAAA"} /\ pc = "upstream"
      /\ known \in Known /\ \A i \in Ips : known.ip[i] = Unasked
  BY BeforeUpstream DEF Upstream, At, QueryInv, QueryTyped, KnownSoFar
<1>2. Few => \E w \in worlds : Explains(w)
  BY <1>1 DEF ExplainInv
<1>3. CASE Forward
  <2>1. ASSUME NEW w \in worlds, Explains(w) PROVE Forwarded = Promise(w, {})'
    <3>1. w.enabled /\ ~w.white /\ ~NameIsBad(w)
      BY <1>1, <2>1, NamePasses
    <3>2. (w.enabled /\ ~w.white /\ ~NameIsBad(w))'
      BY <1>3, <3>1 DEF Forward, NameIsBad, Convicts
    <3> QED
      BY <1>1, <1>3, <3>2 DEF Forward, Finish, Promise, Forwarded
  <2>2. Few => \E w \in worlds : Forwarded = Promise(w, {})'
    BY <1>2, <2>1
  <2> QED
    BY <1>1, <1>3, <2>2, ExplainFinish DEF Forward
<1>4. ASSUME NEW ips \in SUBSET Ips, NEW readable \in BOOLEAN, ips # {},
             known' = [known EXCEPT !.ips = ips, !.readable = readable, !.pending = ips],
             IF readable THEN Go("listed") /\ UNCHANGED rows
             ELSE Finish("allow", <<>>, [kind |-> "upstream", ips |-> ips])
      PROVE  ExplainInv'
  <2>1. /\ known'.ips = ips /\ known'.readable = readable /\ known'.pending = ips
        /\ known'.new = known.new /\ known'.name = known.name /\ known'.ip = known.ip
    BY <1>1, <1>4 DEF Known
  <2>2. CASE readable
    <3>1. ASSUME NEW w \in worlds, Explains(w) PROVE Explains(w)'
      BY <1>1, <1>4, <2>1, <2>2, <3>1 DEF Explains, Go, Convicts
    <3>2. Few => \E w \in worlds : Explains(w)'
      BY <1>2, <3>1
    <3>3. Seen' = {}
      BY <1>4, <2>1, <2>2 DEF Seen, Go
    <3> QED
      BY <1>4, <2>2, <3>2, <3>3 DEF ExplainInv, AddressesExplained, Go, Ended, Few
  <2>3. CASE ~readable
    <3> SUFFICES ASSUME Few', Ended' PROVE AnswerExplained'
      BY <1>4, <2>3 DEF ExplainInv, Finish, Ended, Running
    <3>1. worlds' = worlds /\ type' = type /\ answer' = [kind |-> "upstream", ips |-> ips]
      BY <1>4, <2>3 DEF Finish, Ended
    <3>2. PICK w \in worlds : Explains(w)
      BY <1>2, <3>1 DEF Few
    <3>3. w.enabled /\ ~w.white /\ ~NameIsBad(w)
      BY <1>1, <3>2, NamePasses
    <3>4. (w.enabled /\ ~w.white /\ ~NameIsBad(w))'
      BY <2>1, <3>3 DEF NameIsBad, Convicts
    <3>5. PICK good \in SUBSET ips : good = {i \in ips : Good(w, i)'}
      OBVIOUS
    <3>6. answer' = Promise(w, good)'
      BY <1>1, <1>4, <2>1, <2>3, <3>1, <3>4 DEF Promise
    <3>7. \A i \in known'.ips : i \in good <=> Good(w, i)'
      BY <2>1, <3>5
    <3> QED
      BY <2>1, <3>1, <3>6, <3>7 DEF AnswerExplained
  <2> QED
    BY <2>2, <2>3
<1> QED
  BY <1>3, <1>4 DEF Upstream

LEMMA ExplainListed ==
    ASSUME QueryInv, ExplainInv, NEW i \in Ips, Listed(i)
    PROVE  ExplainInv'
<1> USE DEF PastWhite, PastBlack, PastOffline, PastNrd, PastOnline, Filtering, PtrLayers
<1>1. /\ Running /\ pc = "listed" /\ known \in Known /\ world \in worlds /\ i \in known.pending
      /\ known.pending \subseteq known.ips /\ known.ip[i] = Unasked
  BY DEF Listed, At, Running, QueryInv, QueryTyped, KnownSoFar
<1>2. /\ known'.ips = known.ips /\ known'.pending = known.pending \ {i}
      /\ known'.bad = IF i \in world.blackIps THEN known.bad \union {i} ELSE known.bad
      /\ known'.new = known.new /\ known'.name = known.name /\ known'.ip = known.ip
      /\ pc' = (IF known.pending = {i} THEN "verdicts" ELSE "listed") /\ UNCHANGED worlds
  BY <1>1 DEF Listed, Known, Go
<1>3. ASSUME NEW w \in worlds, Explains(w) PROVE Explains(w)'
  BY <1>1, <1>2, <1>3 DEF Explains, Convicts
<1>4. ASSUME NEW w, NEW j PROVE Good(w, j)' <=> Good(w, j)
  BY <1>2 DEF Good, Convicts
<1>5. Good(world, i) <=> i \notin world.blackIps
  BY <1>1 DEF Good, Convicts, Unasked
<1>6. Seen' \subseteq Seen \union {i}
  BY <1>1, <1>2 DEF Seen
<1>7. i \notin known.bad
  BY <1>1 DEF QueryInv, KnownSoFar
<1>8. Few /\ AddressesExplained => AddressesExplained'
  <2> SUFFICES ASSUME AddressesExplained, NEW j \in Seen'
               PROVE  \E v \in worlds : j \notin known'.bad <=> Good(v, j)'
    BY <1>2 DEF AddressesExplained
  <2>1. CASE j = i
    BY <1>1, <1>2, <1>4, <1>5, <1>7, <2>1
  <2>2. CASE j # i
    <3>1. PICK v \in worlds : j \notin known.bad <=> Good(v, j)
      BY <1>6, <2>2 DEF AddressesExplained
    <3> QED
      BY <1>2, <1>4, <2>2, <3>1
  <2> QED
    BY <2>1, <2>2
<1> QED
  BY <1>1, <1>2, <1>3, <1>8 DEF ExplainInv, Running, Ended, Few

LEMMA ExplainStartChecks == QueryInv /\ ExplainInv /\ StartChecks => ExplainInv'
<1> SUFFICES ASSUME QueryInv, ExplainInv, StartChecks PROVE ExplainInv'
  OBVIOUS
<1> USE DEF PastWhite, PastBlack, PastOffline, PastNrd, PastOnline, Filtering, PtrLayers
<1>1. Running /\ pc = "verdicts" /\ known \in Known
  BY DEF StartChecks, At, Running, QueryInv, QueryTyped
<1>2. /\ known'.ips = known.ips /\ known'.bad = known.bad
      /\ known'.new = known.new /\ known'.name = known.name /\ known'.ip = known.ip
      /\ pc' = "checks" /\ UNCHANGED worlds
  BY <1>1 DEF StartChecks, Known, Go
<1>3. ASSUME NEW w \in worlds, Explains(w) PROVE Explains(w)'
  BY <1>1, <1>2, <1>3 DEF Explains, Convicts
<1>4. ASSUME NEW w, NEW j PROVE Good(w, j)' <=> Good(w, j)
  BY <1>2 DEF Good, Convicts
<1>5. AddressesExplained => AddressesExplained'
  BY <1>1, <1>2, <1>4 DEF AddressesExplained, Seen
<1> QED
  BY <1>1, <1>2, <1>3, <1>5 DEF ExplainInv, Running, Ended, Few

LEMMA ExplainCheckIp ==
    ASSUME QueryInv, ExplainInv, NEW i \in Ips, CheckIp(i)
    PROVE  ExplainInv'
<1> USE DEF PastWhite, PastBlack, PastOffline, PastNrd, PastOnline, Filtering, PtrLayers
<1>1. /\ Running /\ pc = "checks" /\ known \in Known /\ world \in worlds /\ world \in Worlds
      /\ i \in known.pending /\ known.pending \subseteq known.ips
      /\ known.ip[i] = Unasked /\ i \notin known.bad
  BY DEF CheckIp, At, Running, QueryInv, QueryTyped, KnownSoFar
<1>2. PICK o \in Outcomes :
          known' = [known EXCEPT !.pending = @ \ {i}, !.ip[i] = o,
                                 !.bad = IF Malicious(o) THEN @ \union {i} ELSE @]
  BY OutcomesAreTyped DEF CheckIp
<1>3. /\ known'.ips = known.ips /\ known'.ip = [known.ip EXCEPT ![i] = o]
      /\ known'.bad = IF Malicious(o) THEN known.bad \union {i} ELSE known.bad
      /\ known'.new = known.new /\ known'.name = known.name
  BY <1>1, <1>2 DEF Known
<1>4. pc' = "checks" /\ UNCHANGED worlds
  BY DEF CheckIp, Go
<1>5. ASSUME NEW w \in worlds, Explains(w) PROVE Explains(w)'
  BY <1>1, <1>3, <1>4, <1>5 DEF Explains, Convicts
<1>6. ASSUME NEW w, NEW j \in Ips, j # i PROVE Good(w, j)' <=> Good(w, j)
  <2>1. known'.ip[j] = known.ip[j]
    BY <1>1, <1>3, <1>6 DEF Known
  <2> QED
    BY <2>1 DEF Good, Convicts
<1>7. ASSUME NEW w PROVE Good(w, i)' <=> i \notin w.blackIps /\ ~Convicts(w, o)
  <2>1. known'.ip[i] = o
    BY <1>1, <1>3 DEF Known
  <2> QED
    BY <2>1 DEF Good, Convicts
<1>8. ASSUME NEW w PROVE Good(w, i) <=> i \notin w.blackIps
  BY <1>1 DEF Good, Convicts, Unasked
<1>9. Malicious(o) <=> Convicts(world, o)
  BY <1>1, MaliciousIsConvicted
<1>10. ASSUME Few, AddressesExplained PROVE AddressesExplained'
  <2> SUFFICES ASSUME NEW j \in known.ips
               PROVE  \E v \in worlds : j \notin known'.bad <=> Good(v, j)'
    BY <1>3, <1>4 DEF AddressesExplained, Seen
  <2>1. PICK v \in worlds : j \notin known.bad <=> Good(v, j)
    BY <1>1, <1>10 DEF AddressesExplained, Seen
  <2>2. CASE j # i
    <3>1. j \in Ips
      BY <1>1 DEF Known
    <3> QED
      BY <1>3, <1>6, <2>1, <2>2, <3>1
  <2>3. CASE j = i /\ Malicious(o)
    BY <1>1, <1>3, <1>7, <1>9, <2>3
  <2>4. CASE j = i /\ ~Malicious(o)
    <3>1. i \notin v.blackIps /\ ~Convicts(world, o) /\ i \notin known'.bad
      BY <1>1, <1>3, <1>8, <1>9, <2>1, <2>4
    <3>2. CASE Convicts(v, o) <=> Convicts(world, o)
      BY <1>7, <2>4, <3>1, <3>2
    <3>3. CASE v["blackIps"] = world["blackIps"]
      BY <1>1, <1>7, <2>4, <3>1, <3>3
    <3> QED
      BY <1>1, <1>10, <3>2, <3>3, DecideConvicts DEF Keys
  <2> QED
    BY <2>2, <2>3, <2>4
<1> QED
  BY <1>1, <1>4, <1>5, <1>10 DEF ExplainInv, Running, Ended, Few

LEMMA ExplainFilter == QueryInv /\ ExplainInv /\ Filter => ExplainInv'
<1> SUFFICES ASSUME QueryInv, ExplainInv, Filter PROVE ExplainInv'
  OBVIOUS
<1> USE DEF PastWhite, PastBlack, PastOffline, PastNrd, PastOnline, Filtering, PtrLayers
<1> DEFINE kept == known.ips \ known.bad
<1>1. /\ Running /\ pc = "checks" /\ known \in Known /\ type \in {"A", "AAAA"}
      /\ known.ips # {} /\ known.readable /\ known.bad \subseteq known.ips
  BY DEF Filter, At, Running, QueryInv, QueryTyped, KnownSoFar
<1>2. UNCHANGED <<type, worlds, known>>
  BY DEF Filter, Finish, Intercept
<1>3. pc' = "done" =>
          answer' = IF kept = {} THEN Alert
                    ELSE [kind |-> IF known.bad # {} THEN "remaining" ELSE "upstream", ips |-> kept]
  BY DEF Filter, Finish, Intercept
<1>4. ~Running'
  BY DEF Filter, Finish, Intercept, Running
<1> SUFFICES ASSUME Few', Ended' PROVE AnswerExplained'
  BY <1>4 DEF ExplainInv
<1>5. PICK w \in worlds : Explains(w)
  BY <1>1, <1>2 DEF ExplainInv, Few
<1>6. w.enabled /\ ~w.white /\ ~NameIsBad(w)
  BY <1>1, <1>5, NamePasses
<1>7. answer' = Promise(w, kept)
  BY <1>1, <1>3, <1>6 DEF Promise, Ended
<1>8. answer' = Promise(w, kept)'
  BY <1>2, <1>7 DEF Promise, NameIsBad, Convicts, Good, Alert
<1>9. \A i \in known.ips : \E v \in worlds : i \in kept <=> Good(v, i)
  BY <1>1, <1>2 DEF ExplainInv, AddressesExplained, Seen, Few
<1>10. \A i \in known.ips : \E v \in worlds : i \in kept <=> Good(v, i)'
  BY <1>2, <1>9 DEF Good, Convicts
<1> QED
  BY <1>2, <1>8, <1>10 DEF AnswerExplained

LEMMA ExplainInit == Init => ExplainInv
BY DEF Init, ExplainInv, Running, Ended

LEMMA ExplainStep == QueryInv /\ ExplainInv /\ [Next]_queryVars => ExplainInv'
<1> SUFFICES ASSUME QueryInv, ExplainInv, [Next]_queryVars PROVE ExplainInv'
  OBVIOUS
<1>1. CASE Arrive
  <2>1. pc' = "switch" /\ worlds' = {world}
    BY <1>1 DEF Arrive
  <2>2. ASSUME NEW w PROVE Explains(w)'
    BY <2>1 DEF Explains, PastWhite, PastBlack, PastOffline, PastNrd, PastOnline, Filtering
  <2>3. Seen' = {}
    BY <2>1 DEF Seen
  <2> QED
    BY <2>1, <2>2, <2>3 DEF ExplainInv, AddressesExplained, Ended
<1>2. CASE Change
  <2>1. /\ UNCHANGED <<type, known, pc, answer>> /\ ~Ended /\ worlds \subseteq worlds'
        /\ worlds # {} \/ ~Running
    BY <1>2 DEF Change, Running, Ended, QueryInv, QueryTyped
  <2>2. Few' /\ Running => Few
    BY <2>1 DEF Few
  <2>3. ASSUME NEW w PROVE Explains(w) => Explains(w)'
    BY <2>1, ZenonT(60) DEF Explains, Convicts
  <2>4. ASSUME NEW w, NEW i PROVE Good(w, i)' <=> Good(w, i)
    BY <2>1 DEF Good, Convicts
  <2>5. Seen' = Seen
    BY <2>1 DEF Seen
  <2>6. AddressesExplained => AddressesExplained'
    BY <2>1, <2>4, <2>5 DEF AddressesExplained
  <2>7. (Running' <=> Running) /\ ~Ended'
    BY <2>1 DEF Running, Ended
  <2> QED
    BY <2>1, <2>2, <2>3, <2>6, <2>7 DEF ExplainInv
<1>3. CASE Raise
  BY <1>3 DEF Raise, ExplainInv, Running, Ended
<1>4. CASE UNCHANGED queryVars
  <2> USE <1>4 DEF queryVars
  <2>1. ASSUME NEW w PROVE Explains(w)' <=> Explains(w)
    BY DEF Explains, Convicts
  <2>2. ASSUME NEW w, NEW i PROVE Good(w, i)' <=> Good(w, i)
    BY DEF Good, Convicts
  <2>3. AddressesExplained' <=> AddressesExplained
    BY <2>2 DEF AddressesExplained, Seen
  <2>4. ASSUME NEW w, NEW good PROVE Promise(w, good)' = Promise(w, good)
    BY <2>2 DEF Promise, NameIsBad, Convicts, Alert
  <2>5. AnswerExplained' <=> AnswerExplained
    BY <2>2, <2>4 DEF AnswerExplained
  <2> QED
    BY <2>1, <2>3, <2>5 DEF ExplainInv, Few, Running, Ended
<1>5. CASE PtrWhitelist
  BY <1>5, ExplainPtrWhitelist
<1> QED
  BY <1>1, <1>2, <1>3, <1>4, <1>5, ExplainDispatch, ExplainWhitelist, ExplainBlacklist,
     ExplainOffline, ExplainNrdOffline, ExplainNrd, ExplainNrdMode, ExplainOnline,
     ExplainUpstream, ExplainListed, ExplainStartChecks, ExplainCheckIp, ExplainFilter,
     ExplainPtrLists, ExplainPtrOnline DEF Next, Layers

LEMMA QueryInvStep == QueryInv /\ [Next]_queryVars => QueryInv'
BY QueryTypedStep, KnownStep, WorldsStep DEF QueryInv

LEMMA QueryInvInit == Init => QueryInv
BY QueryTypedInit, KnownInit, WorldsInit DEF QueryInv

\* However the lists and settings change while a query is under way: of one
\* change it sees either all or nothing, where a verdict that a cache holds
\* stands as it was fused, by whatever strategy of an earlier time.
THEOREM ChangesAreSeenWhole == Spec => []SomeSettingExplains
<1>1. QueryInv /\ ExplainInv => SomeSettingExplains
  <2> SUFFICES ASSUME QueryInv, ExplainInv, Ended, Cardinality(worlds) <= 2
               PROVE  AnswerExplained
    BY DEF SomeSettingExplains, AnswerExplained
  <2>1. Few
    <3> SUFFICES ASSUME NEW a \in worlds, NEW b \in worlds, NEW c \in worlds,
                        a # b, a # c, b # c
                 PROVE  FALSE
      BY DEF QueryInv, WorldsInv
    <3>1. IsFiniteSet({a}) /\ Cardinality({a}) = 1
      BY FS_Singleton
    <3>2. IsFiniteSet({a} \union {b}) /\ Cardinality({a} \union {b}) = 1 + 1
      <4>1. b \notin {a}
        OBVIOUS
      <4> QED
        BY <3>1, <4>1, FS_AddElement, Zenon
    <3>3. Cardinality(({a} \union {b}) \union {c}) = (1 + 1) + 1
      <4>1. c \notin {a} \union {b}
        OBVIOUS
      <4> QED
        BY <3>2, <4>1, FS_AddElement, Zenon
    <3>4. Cardinality(({a} \union {b}) \union {c}) <= Cardinality(worlds)
      BY FS_Subset DEF QueryInv, WorldsInv
    <3>5. Cardinality(worlds) \in Nat
      BY FS_CardinalityType DEF QueryInv, WorldsInv
    <3> QED
      BY <3>3, <3>4, <3>5
  <2> QED
    BY <2>1 DEF ExplainInv
<1> QED
  BY <1>1, QueryInvInit, QueryInvStep, ExplainInit, ExplainStep, PTL DEF Spec

-----------------------------------------------------------------------------
(* Lists that are kept.                                                    *)

KeptInv ==
    /\ pc \in PastWhite => \E w \in worlds : ~w.white
    /\ pc \in PastBlack => \E w \in worlds : ~w.black
    /\ \A i \in Seen \ known.bad : \E w \in worlds : i \notin w.blackIps
    /\ Ended => ListsAreKept

LEMMA KeptInit == Init => KeptInv
BY DEF Init, KeptInv, Ended, Seen, PastWhite, PastBlack, PastOffline, PastNrd, PastOnline, Filtering

\* Answers that keep the lists: blocks of a name that some setting does not let
\* through, names let through that some setting lets through, and addresses
\* that some setting does not block.
LEMMA KeptFinish ==
    ASSUME NEW count, NEW row, NEW reply, Finish(count, row, reply),
           \/ type \notin {"A", "AAAA"}
           \/ \E w \in worlds : ~w.enabled
           \/ /\ reply.kind \in {"alert", "empty"} /\ reply.ips = {}
              /\ \E w \in worlds : ~w.white
           \/ /\ reply.kind = "upstream" /\ reply.ips = {}
              /\ \E w \in worlds : w.white \/ ~w.black
           \/ /\ reply.kind = "upstream" \/ \E w \in worlds : ~w.white
              /\ \E w \in worlds : ~w.black
              /\ known'.readable => \A i \in reply.ips : \E w \in worlds : i \notin w.blackIps
    PROVE  KeptInv'
<1>1. worlds' = worlds /\ type' = type /\ pc' \in {"done", "failed"}
  BY DEF Finish
<1>2. ListsAreKept' \/ pc' = "failed"
  BY <1>1 DEF Finish, ListsAreKept, Always, Blocked, Ended
<1> QED
  BY <1>1, <1>2 DEF KeptInv, Ended, Seen, PastWhite, PastBlack, PastOffline, PastNrd,
     PastOnline, Filtering

LEMMA KeptGo ==
    ASSUME KeptInv, NEW layer, layer \notin Filtering \union {"done", "failed"}, Go(layer),
           layer \in PastWhite => \E w \in worlds : ~w.white,
           layer \in PastBlack => \E w \in worlds : ~w.black
    PROVE  KeptInv'
BY DEF KeptInv, Go, Ended, Seen, Filtering

LEMMA KeptStep == QueryInv /\ KeptInv /\ [Next]_queryVars => KeptInv'
<1> SUFFICES ASSUME QueryInv, KeptInv, [Next]_queryVars PROVE KeptInv'
  OBVIOUS
<1> USE DEF PastWhite, PastBlack, PastOffline, PastNrd, PastOnline, Filtering, PtrLayers, At,
            Forward, Intercept, Forwarded, Alert
<1>1. CASE Arrive
  BY <1>1 DEF Arrive, KeptInv, Seen, Ended
<1>2. CASE Change
  <2>1. UNCHANGED <<known, pc>> /\ ~Ended /\ (worlds \subseteq worlds' \/ pc = "coming")
    BY <1>2 DEF Change, Running, Ended
  <2> QED
    BY <1>2, <2>1 DEF Change, KeptInv, Seen, Ended
<1>3. CASE Raise
  BY <1>3 DEF Raise, KeptInv, Seen, Ended
<1>4. CASE UNCHANGED queryVars
  <2> USE <1>4 DEF queryVars
  <2>1. ListsAreKept' <=> ListsAreKept
    BY DEF ListsAreKept, Always, Ended, Blocked
  <2> QED
    BY <2>1 DEF KeptInv, Seen, Ended
<1>5. CASE Dispatch
  <2>1. world \in worlds
    BY <1>5, BeforeUpstream DEF Dispatch
  <2>2. CASE ~world.enabled \/ type \in {"other", "badPTR"}
    <3>1. (\E w \in worlds : ~w.enabled) \/ type \notin {"A", "AAAA"}
      BY <2>1, <2>2
    <3> QED
      BY <1>5, <2>2, <3>1, KeptFinish DEF Dispatch
  <2>3. CASE world.enabled /\ type \notin {"other", "badPTR"}
    BY <1>5, <2>3, KeptGo DEF Dispatch
  <2> QED
    BY <2>2, <2>3
<1>6. CASE Whitelist
  <2>1. world \in worlds
    BY <1>6, BeforeUpstream DEF Whitelist
  <2>2. CASE world.white
    <3>1. \E w \in worlds : w.white \/ ~w.black
      BY <2>1, <2>2
    <3> QED
      BY <1>6, <2>2, <3>1, KeptFinish DEF Whitelist
  <2>3. CASE ~world.white
    <3>1. \E w \in worlds : ~w.white
      BY <2>1, <2>3
    <3> QED
      BY <1>6, <2>3, <3>1, KeptGo DEF Whitelist
  <2> QED
    BY <2>2, <2>3
<1>7. CASE Blacklist
  <2>1. world \in worlds /\ \E w \in worlds : ~w.white
    BY <1>7, BeforeUpstream DEF Blacklist, KeptInv
  <2>2. CASE world.black
    BY <1>7, <2>1, <2>2, KeptFinish DEF Blacklist
  <2>3. CASE ~world.black
    <3>1. \E w \in worlds : ~w.black
      BY <2>1, <2>3
    <3> QED
      BY <1>7, <2>1, <2>3, <3>1, KeptGo DEF Blacklist
  <2> QED
    BY <2>2, <2>3
<1>8. ASSUME Offline \/ NrdOffline \/ Nrd \/ NrdMode \/ Online PROVE KeptInv'
  <2>1. (\E w \in worlds : ~w.white) /\ (\E w \in worlds : ~w.black)
    BY <1>8 DEF Offline, NrdOffline, Nrd, NrdMode, Online, KeptInv
  <2>2. CASE Intercept
    BY <2>1, <2>2, KeptFinish
  <2>3. CASE \E layer \in {"nrdOffline", "nrd", "nrdMode", "online", "upstream"} : Go(layer)
    BY <2>1, <2>3, KeptGo
  <2> QED
    BY <1>8, <2>2, <2>3 DEF Offline, NrdOffline, Nrd, NrdMode, Online, Observe
<1>9. CASE Upstream
  <2>1. (\E w \in worlds : ~w.white) /\ (\E w \in worlds : ~w.black) /\ known \in Known
    BY <1>9 DEF Upstream, KeptInv, QueryInv, QueryTyped
  <2>2. CASE Forward
    <3>1. \E w \in worlds : w.white \/ ~w.black
      BY <2>1
    <3> QED
      BY <2>2, <3>1, KeptFinish
  <2>3. ASSUME NEW ips \in SUBSET Ips, NEW readable \in BOOLEAN,
               known' = [known EXCEPT !.ips = ips, !.readable = readable, !.pending = ips],
               IF readable THEN Go("listed") /\ UNCHANGED rows
               ELSE Finish("allow", <<>>, [kind |-> "upstream", ips |-> ips])
        PROVE  KeptInv'
    <3>1. known'.ips = ips /\ known'.readable = readable /\ known'.pending = ips
      BY <2>1, <2>3 DEF Known
    <3>2. CASE readable
      BY <2>1, <2>3, <3>1, <3>2 DEF KeptInv, Go, Seen, Ended
    <3>3. CASE ~readable
      BY <2>1, <2>3, <3>1, <3>3, KeptFinish
    <3> QED
      BY <3>2, <3>3
  <2> QED
    BY <1>9, <2>2, <2>3 DEF Upstream
<1>10. ASSUME NEW i \in Ips, Listed(i) PROVE KeptInv'
  <2>1. known \in Known /\ world \in worlds /\ known.pending \subseteq known.ips
    BY <1>10 DEF Listed, Running, QueryInv, QueryTyped
  <2>2. /\ known'.ips = known.ips /\ known'.pending = known.pending \ {i}
        /\ known'.bad = IF i \in world.blackIps THEN known.bad \union {i} ELSE known.bad
    BY <1>10, <2>1 DEF Listed, Known
  <2> QED
    BY <1>10, <2>1, <2>2 DEF KeptInv, Listed, Go, Seen, Ended
<1>11. ASSUME StartChecks \/ \E i \in Ips : CheckIp(i) PROVE KeptInv'
  <2>1. known \in Known
    BY DEF QueryInv, QueryTyped
  <2>2. known'.ips = known.ips /\ known.bad \subseteq known'.bad
    BY <1>11, <2>1 DEF StartChecks, CheckIp, Known
  <2>3. /\ pc \in {"verdicts", "checks"} /\ pc' = "checks" /\ UNCHANGED worlds
    BY <1>11 DEF StartChecks, CheckIp, Go
  <2> QED
    BY <2>2, <2>3 DEF KeptInv, Seen, Ended
<1>12. CASE Filter
  <2>1. /\ (\E w \in worlds : ~w.white) /\ (\E w \in worlds : ~w.black)
        /\ \A i \in known.ips \ known.bad : \E w \in worlds : i \notin w.blackIps
    BY <1>12 DEF Filter, KeptInv, Seen
  <2>2. CASE Intercept
    BY <2>1, <2>2, KeptFinish
  <2>3. ASSUME NEW count, NEW row, NEW kind,
               Finish(count, row, [kind |-> kind, ips |-> known.ips \ known.bad]), UNCHANGED known
        PROVE  KeptInv'
    BY <2>1, <2>3, KeptFinish
  <2> QED
    BY <1>12, <2>2, <2>3 DEF Filter
<1>13. ASSUME PtrWhitelist \/ PtrLists \/ PtrOnline PROVE KeptInv'
  <2>1. type = "PTR"
    BY <1>13, BeforeUpstream DEF PtrWhitelist, PtrLists, PtrOnline
  <2>2. CASE \E layer \in PtrLayers : Go(layer)
    BY <2>2, KeptGo
  <2>3. ASSUME NEW count, NEW row, NEW reply, Finish(count, row, reply) PROVE KeptInv'
    BY <2>1, <2>3, KeptFinish
  <2> QED
    BY <1>13, <2>2, <2>3 DEF PtrWhitelist, PtrLists, PtrOnline
<1> QED
  BY <1>1, <1>2, <1>3, <1>4, <1>5, <1>6, <1>7, <1>8, <1>9, <1>10, <1>11, <1>12, <1>13
     DEF Next, Layers

\* A list that holds a name, or an address, all the time is obeyed, whatever
\* else changes and however often.
THEOREM ListsKept == Spec => []ListsAreKept
<1>1. KeptInv => ListsAreKept
  BY DEF KeptInv, ListsAreKept, Ended
<1> QED
  BY <1>1, QueryInvInit, QueryInvStep, KeptInit, KeptStep, PTL DEF Spec

-----------------------------------------------------------------------------
(* VerdictCache.                                                           *)

Entries == [left : 0..TTL, outdated : Outdatings] \union {Absent}
Jobs == [phase : {"idle", "querying", "fused"}, age : 0..QueryBound, outdated : Outdatings]

\* An entry within the bound; a job not outdated for longer than it lasts.
EntryOK(x) ==
    /\ x \in Entries
    /\ x.left > 0 /\ x.outdated # Current => x.outdated + x.left <= QueryBound + TTL

JobOK(j) ==
    /\ j \in Jobs
    /\ j.outdated # Current => j.outdated <= j.age

StaleInv ==
    /\ cache \in [Domains -> Entries]
    /\ \A d \in Domains : EntryOK(cache[d])
    /\ work \in [Workers -> Jobs]
    /\ \A w \in Workers : JobOK(work[w])
    /\ asked \in [Workers -> Domains]

USE SizeAssumption, TimeAssumption DEF Current

LEMMA AbsentOK == EntryOK(Absent) /\ Absent \in Entries
BY DEF EntryOK, Entries, Absent

LEMMA IdleOK == JobOK(Idle) /\ Idle \in Jobs
BY DEF JobOK, Jobs, Idle, Outdatings, Horizon

\* Ageing by a second keeps an entry within the bound: its rest of life
\* shrinks as its outdating grows.
LEMMA AgeEntryOK ==
    ASSUME NEW x \in Entries, EntryOK(x)
    PROVE  EntryOK(AgeEntry(x)) /\ AgeEntry(x) \in Entries
<1>1. CASE x = Absent
  BY <1>1, AbsentOK DEF AgeEntry
<1>2. CASE x # Absent
  <2>1. x \in [left : 0..TTL, outdated : Outdatings]
    BY <1>2 DEF Entries
  <2>2. AgeEntry(x).left = IF x.left > 0 THEN x.left - 1 ELSE 0
    BY <1>2 DEF AgeEntry
  <2>3. AgeEntry(x).outdated = Older(x.outdated)
    BY <1>2 DEF AgeEntry
  <2>4. AgeEntry(x) \in [left : 0..TTL, outdated : Outdatings]
    BY <1>2, <2>1 DEF AgeEntry, Older, Outdatings, Horizon
  <2> QED
    BY <2>1, <2>2, <2>3, <2>4 DEF EntryOK, Entries, Older, Outdatings, Horizon
<1> QED
  BY <1>1, <1>2

\* An edit starts the count of an entry at 0.
LEMMA OutdateEntryOK ==
    ASSUME NEW x \in Entries, EntryOK(x), x # Absent
    PROVE  EntryOK(Outdate(x)) /\ Outdate(x) \in Entries
<1>1. x \in [left : 0..TTL, outdated : Outdatings]
  BY DEF Entries
<1>2. Outdate(x) \in [left : 0..TTL, outdated : Outdatings]
  BY <1>1 DEF Outdate, Outdatings, Horizon
<1>3. Outdate(x).left = x.left /\ (Outdate(x).outdated = x.outdated \/ Outdate(x).outdated = 0)
  BY <1>1 DEF Outdate
<1> QED
  BY <1>1, <1>2, <1>3 DEF EntryOK, Entries, Outdatings

LEMMA OutdateJobOK ==
    ASSUME NEW j \in Jobs, JobOK(j)
    PROVE  JobOK(Outdate(j)) /\ Outdate(j) \in Jobs
<1>1. Outdate(j) \in Jobs
  BY DEF Jobs, Outdate, Outdatings, Horizon
<1>2. Outdate(j).age = j.age /\ (Outdate(j).outdated = j.outdated \/ Outdate(j).outdated = 0)
  BY DEF Jobs, Outdate
<1> QED
  BY <1>1, <1>2 DEF JobOK, Jobs, Outdatings

LEMMA StaleInit == CacheInit => StaleInv
BY AbsentOK, IdleOK DEF CacheInit, StaleInv

LEMMA StaleNext == StaleInv /\ [CacheNext]_cacheVars => StaleInv'
<1> SUFFICES ASSUME StaleInv, [CacheNext]_cacheVars PROVE StaleInv'
  OBVIOUS
<1> USE DEF StaleInv
<1>1. ASSUME NEW d \in Domains, Hit(d) PROVE StaleInv'
  BY <1>1 DEF Hit
<1>2. ASSUME NEW w \in Workers, NEW d \in Domains, Miss(w, d) PROVE StaleInv'
  <2>1. [Idle EXCEPT !.phase = "querying"] \in Jobs /\ JobOK([Idle EXCEPT !.phase = "querying"])
    BY DEF Idle, Jobs, JobOK, Outdatings, Horizon
  <2> QED
    BY <1>2, <2>1, AbsentOK DEF Miss
<1>3. ASSUME NEW w \in Workers, Abandon(w) PROVE StaleInv'
  BY <1>3, IdleOK DEF Abandon
<1>4. ASSUME NEW w \in Workers, Fuse(w) PROVE StaleInv'
  <2> DEFINE j == [work[w] EXCEPT !.phase = "fused"]
  <2>1. j \in Jobs /\ JobOK(j)
    BY DEF Jobs, JobOK
  <2>2. work' = [work EXCEPT ![w] = j]
    BY <1>4 DEF Fuse
  <2> HIDE DEF j
  <2> QED
    BY <1>4, <2>1, <2>2 DEF Fuse
<1>5. ASSUME NEW w \in Workers, Store(w) PROVE StaleInv'
  <2> DEFINE x == [left |-> TTL, outdated |-> work[w].outdated]
  <2>1. x \in Entries /\ EntryOK(x)
    BY DEF Entries, EntryOK, JobOK, Jobs, Outdatings
  <2>2. cache' \in [Domains -> Entries]
    BY <1>5, <2>1, AbsentOK DEF Store
  <2>3. ASSUME NEW e \in Domains PROVE EntryOK(cache'[e])
    BY <1>5, <2>1, AbsentOK DEF Store
  <2>4. work' \in [Workers -> Jobs] /\ \A v \in Workers : JobOK(work'[v])
    BY <1>5, IdleOK DEF Store
  <2> QED
    BY <1>5, <2>2, <2>3, <2>4 DEF Store
<1>6. ASSUME NEW e \in Editors, NEW k \in Edits, Commit(e, k) PROVE StaleInv'
  <2>1. ASSUME NEW d \in Domains PROVE EntryOK(cache'[d]) /\ cache'[d] \in Entries
    BY <1>6, AbsentOK, OutdateEntryOK DEF Commit
  <2>2. ASSUME NEW w \in Workers PROVE JobOK(work'[w]) /\ work'[w] \in Jobs
    BY <1>6, OutdateJobOK DEF Commit
  <2> QED
    BY <1>6, <2>1, <2>2 DEF Commit
<1>7. ASSUME NEW e \in Editors, Clear(e) PROVE StaleInv'
  BY <1>7, AbsentOK DEF Clear
<1>8. ASSUME NEW e \in Editors, ReturnUncleared(e) PROVE StaleInv'
  BY <1>8 DEF ReturnUncleared
<1>9. ASSUME Tick PROVE StaleInv'
  <2>1. ASSUME NEW d \in Domains PROVE EntryOK(cache'[d]) /\ cache'[d] \in Entries
    BY <1>9, AgeEntryOK DEF Tick
  <2>2. ASSUME NEW w \in Workers PROVE JobOK(work'[w]) /\ work'[w] \in Jobs
    <3>1. CASE work[w].phase = "idle"
      BY <1>9, <3>1 DEF Tick
    <3>2. CASE work[w].phase # "idle"
      <4> DEFINE j == [phase |-> work[w].phase, age |-> work[w].age + 1,
                       outdated |-> Older(work[w].outdated)]
      <4>1. work'[w] = j
        BY <1>9, <3>2 DEF Tick
      <4>2. work[w].age < QueryBound
        BY <1>9, <3>2 DEF Tick
      <4>3. j \in Jobs /\ JobOK(j)
        BY <4>2 DEF Jobs, JobOK, Older, Outdatings, Horizon
      <4> QED
        BY <4>1, <4>3
    <3> QED
      BY <3>1, <3>2
  <2> QED
    BY <1>9, <2>1, <2>2 DEF Tick
<1>10. ASSUME UNCHANGED cacheVars PROVE StaleInv'
  BY <1>10 DEF cacheVars
<1> QED
  BY <1>1, <1>2, <1>3, <1>4, <1>5, <1>6, <1>7, <1>8, <1>9, <1>10 DEF CacheNext

\* Staleness is bounded: an entry that can still be served ends its life
\* at most QueryBound + TTL seconds after the edit that outdated it.
THEOREM StalenessBounded == CacheSpec => []BoundedStaleness
<1>1. StaleInv => BoundedStaleness
  BY DEF StaleInv, BoundedStaleness, EntryOK, Live
<1> QED
  BY <1>1, StaleInit, StaleNext, PTL DEF CacheSpec

-----------------------------------------------------------------------------
(* NewDomains.  Who is not idle has a domain, so that what reaches memory  *)
(* and the table is one.                                                   *)

NrdTyped ==
    /\ NrdTypeOK
    /\ \A c \in Checkers : nrd[c] # "idle" => domain[c] \in NrdDomains
    /\ nrd[Refresher] \in {"sleep", "clear", "fetch", "fetching", "save", "restore"}

USE DEF NrdThreads, Goto, caches, library

LEMMA Starts ==
    /\ StartOf(Refresher) = "sleep"
    /\ \A c \in Checkers : StartOf(c) = "idle"
    /\ \A t \in NrdThreads : StartOf(t) \in {"warm", "sleep", "idle"}
<1>1. Warmer # Refresher
  BY DEF Warmer, Refresher
<1> QED
  BY <1>1, ThreadsAssumption DEF StartOf

LEMMA NrdTypedInit == NrdInit => NrdTyped
<1> SUFFICES ASSUME NrdInit PROVE NrdTyped
  OBVIOUS
<1>1. NrdTypeOK
  BY Starts DEF NrdInit, NrdTypeOK
<1> QED
  BY <1>1, Starts DEF NrdInit, NrdTyped

LEMMA NrdTypedStep == NrdTyped /\ [NrdNext]_nrdVars => NrdTyped'
<1> SUFFICES ASSUME NrdTyped, [NrdNext]_nrdVars PROVE NrdTyped'
  OBVIOUS
<1> USE ThreadsAssumption DEF NrdTyped, NrdTypeOK
<1>1. ASSUME NEW c \in Checkers PROVE c # Refresher /\ c # Warmer /\ c \in NrdThreads
  OBVIOUS
<1>2. ASSUME NEW c \in Checkers, NEW d \in NrdDomains, NEW ok \in BOOLEAN, Check(c, d, ok)
      PROVE  NrdTyped'
  BY <1>1, <1>2 DEF Check
<1>3. ASSUME NEW c \in Checkers, Merge(c) PROVE NrdTyped'
  BY <1>1, <1>3 DEF Merge
<1>4. ASSUME NEW c \in Checkers, Lookup(c) PROVE NrdTyped'
  BY <1>1, <1>4 DEF Lookup
<1>5. ASSUME NEW c \in Checkers, Ask(c) PROVE NrdTyped'
  BY <1>1, <1>5 DEF Ask, SaveTimeout
<1>6. ASSUME NEW c \in Checkers, NEW ok \in BOOLEAN, Answer(c, ok) PROVE NrdTyped'
  BY <1>1, <1>6 DEF Answer, RestoreTimeout
<1>7. ASSUME NEW c \in Checkers, NEW ok \in BOOLEAN, StoreDate(c, ok) PROVE NrdTyped'
  BY <1>1, <1>7 DEF StoreDate
<1>8. ASSUME NEW t \in NrdThreads, NEW ok \in BOOLEAN, Warm(t, ok) PROVE NrdTyped'
  BY <1>1, <1>8, ZenonT(60) DEF Warm, Leave
<1>9. ASSUME NEW t \in NrdThreads, SetReady(t) PROVE NrdTyped'
  BY <1>1, <1>9 DEF SetReady, Leave
<1>10. ASSUME NEW t \in NrdThreads, Fetch(t) PROVE NrdTyped'
  BY <1>1, <1>10 DEF Fetch, SaveTimeout
<1>11. ASSUME NEW t \in NrdThreads, NEW ok \in BOOLEAN, Fetched(t, ok) PROVE NrdTyped'
  BY <1>1, <1>11 DEF Fetched, RestoreTimeout, Leave
<1>12. ASSUME NEW t \in NrdThreads, NEW ok \in BOOLEAN, SaveFile(t, ok) PROVE NrdTyped'
  BY <1>1, <1>12 DEF SaveFile, Leave
<1>13. CASE Backup
  BY <1>1, <1>13 DEF Backup
<1>14. CASE ClearRoutes
  BY <1>1, <1>14 DEF ClearRoutes
<1>15. CASE RestoreRoutes
  BY <1>1, <1>15 DEF RestoreRoutes
<1>16. CASE Restart
  BY <1>1, <1>16, Starts DEF Restart
<1>17. CASE UNCHANGED nrdVars
  BY <1>17 DEF nrdVars
<1> QED
  BY <1>2, <1>3, <1>4, <1>5, <1>6, <1>7, <1>8, <1>9, <1>10, <1>11, <1>12, <1>13, <1>14,
     <1>15, <1>16, <1>17 DEF NrdNext

\* Every variable of NewDomains has its type.
THEOREM NrdTypeCorrect == NrdSpec => []NrdTypeOK
<1>1. NrdTyped => NrdTypeOK
  BY DEF NrdTyped
<1> QED
  BY <1>1, NrdTypedInit, NrdTypedStep, PTL DEF NrdSpec

-----------------------------------------------------------------------------
(* What is in the table is in memory, once that is loaded.                 *)

MemoryInv ==
    /\ loaded => nrdRows \subseteq memory
    /\ \A c \in Checkers :
          /\ nrd[c] = "lookup" => loaded
          /\ nrd[c] = "insert" => domain[c] \in memory
          /\ nrd[c] = "merge" => nrdRows \subseteq memory \union snapshot[c]

LEMMA MemoryInit == NrdInit => MemoryInv
BY Starts DEF NrdInit, MemoryInv

LEMMA MemoryStep ==
    ASSUME "load" \notin NrdFaults
    PROVE  NrdTyped /\ MemoryInv /\ [NrdNext]_nrdVars => MemoryInv'
<1> SUFFICES ASSUME NrdTyped, MemoryInv, [NrdNext]_nrdVars PROVE MemoryInv'
  OBVIOUS
<1> USE ThreadsAssumption DEF NrdTyped, NrdTypeOK, MemoryInv
<1>1. ASSUME NEW c \in Checkers PROVE c # Refresher /\ c # Warmer /\ c \in NrdThreads
  OBVIOUS
<1>2. ASSUME NEW c \in Checkers, NEW d \in NrdDomains, NEW ok \in BOOLEAN, Check(c, d, ok)
      PROVE  MemoryInv'
  BY <1>1, <1>2 DEF Check
<1>3. ASSUME NEW c \in Checkers, Merge(c) PROVE MemoryInv'
  BY <1>1, <1>3 DEF Merge
<1>4. ASSUME NEW c \in Checkers, Lookup(c) PROVE MemoryInv'
  BY <1>1, <1>4 DEF Lookup
<1>5. ASSUME NEW c \in Checkers, Ask(c) PROVE MemoryInv'
  BY <1>1, <1>5 DEF Ask, SaveTimeout
<1>6. ASSUME NEW c \in Checkers, NEW ok \in BOOLEAN, Answer(c, ok) PROVE MemoryInv'
  BY <1>1, <1>6 DEF Answer, RestoreTimeout
<1>7. ASSUME NEW c \in Checkers, NEW ok \in BOOLEAN, StoreDate(c, ok) PROVE MemoryInv'
  BY <1>1, <1>7 DEF StoreDate
<1>8. ASSUME NEW t \in NrdThreads, NEW ok \in BOOLEAN, Warm(t, ok) PROVE MemoryInv'
  BY <1>1, <1>8 DEF Warm, Leave
<1>9. ASSUME NEW t \in NrdThreads, SetReady(t) PROVE MemoryInv'
  BY <1>1, <1>9 DEF SetReady, Leave
<1>10. ASSUME NEW t \in NrdThreads, Fetch(t) PROVE MemoryInv'
  BY <1>1, <1>10 DEF Fetch, SaveTimeout
<1>11. ASSUME NEW t \in NrdThreads, NEW ok \in BOOLEAN, Fetched(t, ok) PROVE MemoryInv'
  BY <1>1, <1>11 DEF Fetched, RestoreTimeout, Leave
<1>12. ASSUME NEW t \in NrdThreads, NEW ok \in BOOLEAN, SaveFile(t, ok) PROVE MemoryInv'
  BY <1>1, <1>12 DEF SaveFile, Leave
<1>13. CASE Backup \/ ClearRoutes \/ RestoreRoutes
  <2>1. \A c \in Checkers : nrd'[c] = nrd[c]
    BY <1>1, <1>13 DEF Backup, ClearRoutes, RestoreRoutes
  <2>2. UNCHANGED <<caches, domain>>
    BY <1>13 DEF Backup, ClearRoutes, RestoreRoutes
  <2> QED
    BY <2>1, <2>2
<1>14. CASE Restart
  BY <1>1, <1>14, Starts DEF Restart
<1>15. CASE UNCHANGED nrdVars
  BY <1>15 DEF nrdVars
<1> QED
  BY <1>2, <1>3, <1>4, <1>5, <1>6, <1>7, <1>8, <1>9, <1>10, <1>11, <1>12, <1>13, <1>14,
     <1>15 DEF NrdNext

\* A domain that has a row is not asked for again, in this life of the process
\* or a later one, provided that the table can be read (rdap_nrd.py:29).
THEOREM KnownAreNotAsked ==
    ASSUME "load" \notin NrdFaults
    PROVE  NrdSpec => KnownNotAsked
<1> DEFINE Asks == \A c \in Checkers :
              nrd[c] = "lookup" /\ nrd'[c] \in {"ask", "warm"} => domain[c] \notin nrdRows
<1>1. NrdTyped /\ MemoryInv /\ [NrdNext]_nrdVars => [Asks]_nrdVars
  <2> SUFFICES ASSUME NrdTyped, MemoryInv, NrdNext,
                      NEW c \in Checkers, nrd[c] = "lookup", nrd'[c] \in {"ask", "warm"}
               PROVE  domain[c] \notin nrdRows
    OBVIOUS
  <2> USE ThreadsAssumption DEF NrdTyped, NrdTypeOK
  <2>1. c \in NrdThreads /\ c # Refresher
    OBVIOUS
  <2>2. CASE Lookup(c)
    <3>1. domain[c] \notin memory
      BY <2>2, <2>1 DEF Lookup
    <3> QED
      BY <3>1 DEF MemoryInv
  <2>3. CASE Restart
    BY <2>1, <2>3, Starts DEF Restart
  <2>4. CASE \E e \in Checkers \ {c} :
                \/ \E d \in NrdDomains, ok \in BOOLEAN : Check(e, d, ok)
                \/ Merge(e) \/ Lookup(e) \/ Ask(e)
                \/ \E ok \in BOOLEAN : Answer(e, ok) \/ StoreDate(e, ok)
    BY <2>1, <2>4 DEF Check, Merge, Lookup, Ask, Answer, StoreDate
  <2>5. CASE \/ \E d \in NrdDomains, ok \in BOOLEAN : Check(c, d, ok)
             \/ Merge(c) \/ Ask(c)
             \/ \E ok \in BOOLEAN : Answer(c, ok) \/ StoreDate(c, ok)
    BY <2>1, <2>5 DEF Check, Merge, Ask, Answer, StoreDate
  <2>6. CASE \E t \in NrdThreads :
                \/ SetReady(t) \/ Fetch(t)
                \/ \E ok \in BOOLEAN : Warm(t, ok) \/ Fetched(t, ok) \/ SaveFile(t, ok)
    BY <2>1, <2>6 DEF Warm, SetReady, Fetch, Fetched, SaveFile
  <2>7. CASE Backup \/ ClearRoutes \/ RestoreRoutes
    BY <2>1, <2>7 DEF Backup, ClearRoutes, RestoreRoutes
  <2> QED
    BY <2>2, <2>3, <2>4, <2>5, <2>6, <2>7 DEF NrdNext
<1> QED
  BY <1>1, NrdTypedInit, NrdTypedStep, MemoryInit, MemoryStep, PTL DEF NrdSpec, KnownNotAsked

-----------------------------------------------------------------------------
(* Only a refresh clears the routing table, and it has a backup by then.   *)

RoutesInv ==
    /\ backup = "untried" => nrd[Refresher] = "sleep"
    /\ backup = "untried" /\ (ready \/ \E t \in NrdThreads : nrd[t] = "ready") => routes
    /\ backup = "taken" /\ nrd[Refresher] \in {"sleep", "save"} => routes

LEMMA RoutesInit == NrdInit => RoutesInv
BY Starts DEF NrdInit, RoutesInv

LEMMA RoutesStep == NrdTyped /\ RoutesInv /\ [NrdNext]_nrdVars => RoutesInv'
<1> SUFFICES ASSUME NrdTyped, RoutesInv, [NrdNext]_nrdVars PROVE RoutesInv'
  OBVIOUS
<1> USE ThreadsAssumption DEF NrdTyped, NrdTypeOK, RoutesInv
<1>1. ASSUME NEW c \in Checkers PROVE c # Refresher /\ c # Warmer /\ c \in NrdThreads
  OBVIOUS
<1>2. ASSUME NEW c \in Checkers, NEW d \in NrdDomains, NEW ok \in BOOLEAN, Check(c, d, ok)
      PROVE  RoutesInv'
  BY <1>1, <1>2 DEF Check
<1>3. ASSUME NEW c \in Checkers, Merge(c) PROVE RoutesInv'
  BY <1>1, <1>3 DEF Merge
<1>4. ASSUME NEW c \in Checkers, Lookup(c) PROVE RoutesInv'
  BY <1>1, <1>4 DEF Lookup
<1>5. ASSUME NEW c \in Checkers, Ask(c) PROVE RoutesInv'
  BY <1>1, <1>5 DEF Ask, SaveTimeout
<1>6. ASSUME NEW c \in Checkers, NEW ok \in BOOLEAN, Answer(c, ok) PROVE RoutesInv'
  BY <1>1, <1>6 DEF Answer, RestoreTimeout
<1>7. ASSUME NEW c \in Checkers, NEW ok \in BOOLEAN, StoreDate(c, ok) PROVE RoutesInv'
  BY <1>1, <1>7 DEF StoreDate
<1>8. ASSUME NEW t \in NrdThreads, NEW ok \in BOOLEAN, Warm(t, ok) PROVE RoutesInv'
  BY <1>1, <1>8 DEF Warm, Leave
<1>9. ASSUME NEW t \in NrdThreads, SetReady(t) PROVE RoutesInv'
  BY <1>1, <1>9 DEF SetReady, Leave
<1>10. ASSUME NEW t \in NrdThreads, Fetch(t) PROVE RoutesInv'
  BY <1>1, <1>10 DEF Fetch, SaveTimeout
<1>11. ASSUME NEW t \in NrdThreads, NEW ok \in BOOLEAN, Fetched(t, ok) PROVE RoutesInv'
  BY <1>1, <1>11 DEF Fetched, RestoreTimeout, Leave
<1>12. ASSUME NEW t \in NrdThreads, NEW ok \in BOOLEAN, SaveFile(t, ok) PROVE RoutesInv'
  BY <1>1, <1>12 DEF SaveFile, Leave
<1>13. CASE Backup \/ ClearRoutes \/ RestoreRoutes
  BY <1>1, <1>13 DEF Backup, ClearRoutes, RestoreRoutes
<1>14. CASE Restart
  BY <1>1, <1>14, Starts DEF Restart
<1>15. CASE UNCHANGED nrdVars
  BY <1>15 DEF nrdVars
<1> QED
  BY <1>2, <1>3, <1>4, <1>5, <1>6, <1>7, <1>8, <1>9, <1>10, <1>11, <1>12, <1>13, <1>14,
     <1>15 DEF NrdNext

\* A refresh that has a backup leaves no process that is ready without a
\* routing table, whatever fails and whoever warms up meanwhile (line 267).
THEOREM RoutesAreKept == NrdSpec => []RoutesSurvive
<1>1. NrdTyped /\ RoutesInv => RoutesSurvive
  BY DEF NrdTyped, NrdTypeOK, RoutesInv, RoutesSurvive
<1> QED
  BY <1>1, NrdTypedInit, NrdTypedStep, RoutesInit, RoutesStep, PTL DEF NrdSpec

=============================================================================
