------------------------------ MODULE MCQueries ------------------------------
(***************************************************************************)
(* What a query reads, in one run.  part says which module a behaviour is  *)
(* of: ProcessQuery, VerdictCache or NewDomains; the variables of the      *)
(* others rest.  Each has a process and an administrator of its own here,  *)
(* since a query knows of the other two only what they return.             *)
(***************************************************************************)
EXTENDS ProcessQuery, VerdictCache, NewDomains

VARIABLE part

allVars == <<part, queryVars, cacheVars, nrdVars>>

\* Every source alone, and three that answer in different ways together.
MCAskedOfName == {{v} : v \in DomainSources} \union {{"xforce", "urlhaus", "spfbl"}}
MCAskedOfIp == {{v} : v \in IpSources}

\* A part that rests has one initial state.
MCInit ==
    /\ part \in {"query", "cache", "new"}
    /\ Init /\ CacheInit /\ NrdInit
    /\ part # "query" => type = "A"
    /\ part # "cache" => \A w \in Workers : asked[w] = CHOOSE d \in Domains : TRUE

QueryNext == part = "query" /\ Next /\ UNCHANGED <<part, cacheVars, nrdVars>>
VerdictNext == part = "cache" /\ CacheNext /\ UNCHANGED <<part, queryVars, nrdVars>>
NewNext == part = "new" /\ NrdNext /\ UNCHANGED <<part, queryVars, cacheVars>>

MCSpec == MCInit /\ [][QueryNext \/ VerdictNext \/ NewNext]_allVars

=============================================================================
