------------------------------ MODULE Verdicts ------------------------------
(***************************************************************************)
(* What the adapters of the online sources make of a vendor's reply        *)
(* (platform/adapters/*.py) and how run_fusion joins their conclusions.    *)
(*                                                                         *)
(* A reply has an HTTP status (NoReply for a time-out or a network error)  *)
(* and a body, the fields that the adapter looks at (of a DNS blocklist,   *)
(* the sequence of its return codes), or Unreadable when it is not the     *)
(* JSON or text that is expected.  A yes or no is 1 or 0.  Texts and       *)
(* confidences are left out.                                               *)
(***************************************************************************)
EXTENDS Integers, SequencesExt, FiniteSetsExt

NoReply == 0
Unreadable == [fields |-> 0]
Missing == -1               \* a field that the body does not have

Conclusions == {"malicious", "clean", "none"}
Judge(bad) == IF bad THEN "malicious" ELSE "clean"

Blocklists == {"spamhaus_zen", "spamhaus_dbl", "dronebl", "spfbl"}
DomainSources == {"example", "virustotal", "phishtank", "threatbook", "threatfox",
                  "otx", "xforce", "urlhaus", "spamhaus_dbl", "spfbl"}
IpSources == {"example", "virustotal", "abuseipdb", "blocklist_de", "threatbook",
              "threatfox", "greynoise", "otx", "xforce", "dshield", "urlhaus",
              "spamhaus_zen", "dronebl", "spfbl"}
Vendors == DomainSources \union IpSources

\* Vendors whose adapter asks nothing before a key is configured.
KeyNeeded == {"threatbook", "threatfox", "greynoise", "otx", "xforce", "urlhaus"}

-----------------------------------------------------------------------------
(* One operator per vendor: the conclusion from a body that could be read. *)

ConfidenceThreshold == 25
AbuseIPDB(b) == Judge(b.score >= ConfidenceThreshold)

VirusTotal(b) == Judge(b.malicious + b.suspicious > 0)

MinAttacks == 1
BlocklistDe(b) == Judge(b.attacks >= MinAttacks)

PhishTank(b) ==
    IF b.in_database = Missing THEN "none" ELSE Judge(b.in_database = 1)

ThreatBook(b) ==
    IF b.is_malicious = Missing THEN "none" ELSE Judge(b.is_malicious = 1)

ThreatFox(b) ==
    CASE b.query_status = "ok" -> IF b.rows > 0 THEN "malicious" ELSE "none"
      [] b.query_status = "no_result" -> "clean"
      [] OTHER -> "none"

GreyNoise(b) == Judge(b.classification = "malicious")

OTX(b) == Judge(b.count > 0)

ScoreThreshold == 5
XForce(b) == IF b.score = Missing THEN "none" ELSE Judge(b.score >= ScoreThreshold)

MinCount == 500
MaxAgeDays == 14
DShield(b) ==
    IF b.count < MinCount THEN "clean"
    ELSE IF b.age = Missing THEN "none" ELSE Judge(b.age <= MaxAgeDays)

\* Links that are no longer online are history.
URLhaus(b) ==
    IF b.query_status \in {"ok", "no_results"} THEN Judge(b.online > 0) ELSE "none"

\* Codes: "listed"; "weak", one of the vendor's _IGNORE_CODES; "refused", that
\* the vendor limits the resolver; "foreign", not in 127.0.0.0/8.
Ignores(v) == v \in {"spamhaus_zen", "dronebl", "spfbl"}    \* ignore_pbl is on

DNSBL(v, codes) ==
    LET hits == {n \in DOMAIN codes : codes[n] \in {"listed", "weak"}}
    IN  IF hits # {} THEN Judge(~(codes[Min(hits)] = "weak" /\ Ignores(v)))
        ELSE IF \E n \in DOMAIN codes : codes[n] = "refused" THEN "none" ELSE "clean"

Parse(v, b) ==
    CASE v = "abuseipdb" -> AbuseIPDB(b)
      [] v = "virustotal" -> VirusTotal(b)
      [] v = "blocklist_de" -> BlocklistDe(b)
      [] v = "phishtank" -> PhishTank(b)
      [] v = "threatbook" -> ThreatBook(b)
      [] v = "threatfox" -> ThreatFox(b)
      [] v = "greynoise" -> GreyNoise(b)
      [] v = "otx" -> OTX(b)
      [] v = "xforce" -> XForce(b)
      [] v = "dshield" -> DShield(b)
      [] v = "urlhaus" -> URLhaus(b)
      [] v \in Blocklists -> DNSBL(v, b.codes)
      [] v = "example" -> "none"

\* query_domain, query_ip: these two vendors answer 404 for what they do not
\* know; of every other, a status that is not 200 is no conclusion.
Conclude(v, keyed, reply) ==
    IF v \in KeyNeeded /\ ~keyed THEN "none"
    ELSE IF v \in {"greynoise", "otx"} /\ reply.status = 404 THEN "clean"
    ELSE IF reply.status # 200 \/ reply.body = Unreadable THEN "none"
    ELSE Parse(v, reply.body)

-----------------------------------------------------------------------------
(* run_fusion.                                                             *)

Strategies == {"any", "majority", "all"}

BugHalfIsMajority(results, strategy) ==
    /\ results.all > 0
    /\ CASE strategy = "all" -> results.bad = results.all
         [] strategy = "majority" -> 2 * results.bad >= results.all
         [] OTHER -> results.bad > 0

\* results: how many sources have a conclusion, and how many of them say that
\* the name or address is malicious.
run_fusion(results, strategy) ==
    /\ results.all > 0
    /\ CASE strategy = "all" -> results.bad = results.all
         [] strategy = "majority" -> 2 * results.bad > results.all
         [] OTHER -> results.bad > 0

-----------------------------------------------------------------------------
(* Replies that vendors give: of each field that an adapter looks at, the  *)
(* values it tells apart and both sides of every threshold.                *)

SomeCodes == SeqOf({"listed", "weak", "refused", "foreign"}, 2)

Bodies(v) ==
    CASE v = "abuseipdb" -> [score : {24, 25}]
      [] v = "virustotal" -> [malicious : 0..1, suspicious : 0..1]
      [] v = "blocklist_de" -> [attacks : 0..1]
      [] v = "phishtank" -> [in_database : {Missing, 0, 1}]
      [] v = "threatbook" -> [is_malicious : {Missing, 0, 1}]
      [] v = "threatfox" -> [query_status : {"ok", "no_result", "other"}, rows : 0..1]
      [] v = "greynoise" -> [classification : {"malicious", "benign"}]
      [] v = "otx" -> [count : 0..1]
      [] v = "xforce" -> [score : {Missing, 4, 5}]
      [] v = "dshield" -> [count : {499, 500}, age : {Missing, 14, 15}]
      [] v = "urlhaus" -> [query_status : {"ok", "no_results", "other"}, online : 0..1]
      [] v \in Blocklists -> [codes : SomeCodes]
      [] OTHER -> {}

Replies(v) ==
    [status : {200}, body : Bodies(v) \union {Unreadable}]
    \union [status : {NoReply, 404, 429, 500}, body : {Unreadable}]

=============================================================================
