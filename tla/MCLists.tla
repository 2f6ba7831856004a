------------------------------- MODULE MCLists -------------------------------
(***************************************************************************)
(* The offline lists in one run.  part says which module a behaviour is    *)
(* of: ThreatListImport, which fills the table, or ThreatListCache, which  *)
(* reads it; of the table the second needs the version only.               *)
(***************************************************************************)
EXTENDS ThreatListImport, ThreatListCache

VARIABLE part

allVars == <<part, vars, cacheVars>>

MCInit == part \in {"import", "cache"} /\ Init /\ CacheInit

OfImport(A) == part = "import" /\ A /\ UNCHANGED <<part, cacheVars>>

ImportNext == OfImport(Next)
ReadNext == part = "cache" /\ CacheNext /\ UNCHANGED <<part, vars>>

\* The fairness of ThreatListImport!FairSpec.
MCSpec ==
    /\ MCInit /\ [][ImportNext \/ ReadNext]_allVars
    /\ \A j \in Jobs : SF_allVars(OfImport(Lock(j))) /\ WF_allVars(OfImport(Import(j)))

=============================================================================
