------------------------------ MODULE AiFindings ------------------------------
(***************************************************************************)
(* The findings of the analysis and the people who judge them: the rounds  *)
(* of the batch thread (run_analysis in platform/ai_batch.py), the request *)
(* that confirms or dismisses a finding and the one that puts a false      *)
(* positive on the whitelist (platform/app/routers/ai.py).                 *)
(*                                                                         *)
(* A round writes in one transaction, but SQLite begins it with the first  *)
(* statement that writes: what is read before may have changed by then.    *)
(* From then on until the commit nobody else writes, so that the rest of   *)
(* the round is one step.  Scores and evidence are left out.               *)
(***************************************************************************)
EXTENDS Naturals, FiniteSets, SequencesExt

CONSTANTS
    Kinds,          \* types of findings; "false_positive" is one
    Snapshots,      \* those whose pending findings are pruned
    Targets,        \* domains, parents or clients
    Reviewers,      \* requests of people
    MaxFindings     \* bound: findings ever inserted

ASSUME HitsAssumption == IsFiniteSet(Kinds) /\ IsFiniteSet(Targets)

VARIABLES
    findings,       \* ai_findings: a sequence of rows, by their id
    whitelist,      \* targets put on it by confirm_whitelist, with repetition
    round,          \* the round under way
    review          \* what each request is doing

findingVars == <<findings, whitelist, round, review>>

Finding == [kind : Kinds, target : Targets,
            status : {"pending", "confirmed", "dismissed"}]
Pruned == [kind |-> "none", target |-> "none", status |-> "none"]

\* The analysis comes to what it finds by reading the logs (hits).
NoHit == <<"none", "none">>
NoRound == [at |-> "idle", hits |-> {}, first |-> NoHit, seen |-> {}]
NoReview == [at |-> "idle", id |-> 0, status |-> "none", target |-> "none"]

Steps == {"idle", "found", "upsert", "prune", "delete"}

AiTypeOK ==
    /\ findings \in Seq(Finding \union {Pruned})
    /\ Len(findings) <= MaxFindings
    /\ whitelist \in Seq(Targets)
    /\ round.at \in Steps /\ round.hits \subseteq Kinds \X Targets

AiInit ==
    /\ findings = <<>>
    /\ whitelist = <<>>
    /\ round = NoRound
    /\ review = [r \in Reviewers |-> NoReview]

PendingOf(f, hit) ==
    {n \in DOMAIN f : /\ f[n].status = "pending"
                      /\ <<f[n].kind, f[n].target>> = hit}

-----------------------------------------------------------------------------
(* A round of run_analysis.                                                *)

Analyze(hits) ==
    /\ round.at = "idle"
    /\ round' = [NoRound EXCEPT !.at = IF hits = {} THEN "prune" ELSE "found",
                                !.hits = hits]
    /\ UNCHANGED <<findings, whitelist, review>>

\* The SELECT of the first _upsert_finding, before the transaction.
FirstSelect(hit) ==
    /\ round.at = "found" /\ hit \in round.hits
    /\ round' = [round EXCEPT !.at = "upsert", !.first = hit,
                              !.seen = PendingOf(findings, hit)]
    /\ UNCHANGED <<findings, whitelist, review>>

Inserted(f, hits) ==
    f \o SetToSeq({[kind |-> h[1], target |-> h[2], status |-> "pending"] : h \in hits})

BugAnyStatus(f, hits) ==    \* prunes what has been judged as well
    {n \in DOMAIN f : /\ f[n].kind \in Snapshots
                      /\ <<f[n].kind, f[n].target>> \notin hits}

Stale(f, hits) ==
    {n \in DOMAIN f : /\ f[n].status = "pending" /\ f[n].kind \in Snapshots
                      /\ <<f[n].kind, f[n].target>> \notin hits}

Without(f, ids) == [n \in DOMAIN f |-> IF n \in ids THEN Pruned ELSE f[n]]

BugInsertsAll ==        \* without looking for the pending finding
    /\ round.at = "upsert"
    /\ Len(findings) + Cardinality(round.hits) <= MaxFindings
    /\ LET all == Inserted(findings, round.hits)
       IN  findings' = Without(all, Stale(all, round.hits))
    /\ round' = NoRound
    /\ UNCHANGED <<whitelist, review>>

\* The first INSERT or UPDATE begins the transaction; the other upserts, the
\* pruning and the commit follow.
Upsert ==
    LET new == {h \in round.hits :
                  IF h = round.first THEN round.seen = {} ELSE PendingOf(findings, h) = {}}
        all == Inserted(findings, new)
    IN  /\ round.at = "upsert"
        /\ Len(all) <= MaxFindings
        /\ findings' = Without(all, Stale(all, round.hits))
        /\ round' = NoRound
        /\ UNCHANGED <<whitelist, review>>

\* A round that found nothing: the pending findings are read, and deleted by
\* their ids in the statement that begins the transaction.
PruneSelect ==
    /\ round.at = "prune"
    /\ LET stale == Stale(findings, {})
       IN  round' = IF stale = {} THEN NoRound
                    ELSE [round EXCEPT !.at = "delete", !.seen = stale]
    /\ UNCHANGED <<findings, whitelist, review>>

PruneDelete ==
    /\ round.at = "delete"
    /\ findings' = Without(findings, round.seen)
    /\ round' = NoRound
    /\ UNCHANGED <<whitelist, review>>

\* An exception: rolled back, and tried again by the next round.
RoundFails ==
    /\ round.at # "idle"
    /\ round' = NoRound
    /\ UNCHANGED <<findings, whitelist, review>>

-----------------------------------------------------------------------------
(* update_finding_status: the row is read, then written by its id.         *)

ReadFinding(r, id, status) ==
    /\ review[r].at = "idle"
    /\ id \in DOMAIN findings /\ findings[id] # Pruned
    /\ review' = [review EXCEPT ![r] =
          [at |-> "status", id |-> id, status |-> status, target |-> "none"]]
    /\ UNCHANGED <<findings, whitelist, round>>

WriteStatus(r) ==
    /\ review[r].at = "status"
    /\ findings' = [findings EXCEPT ![review[r].id] =
          IF @ = Pruned THEN @ ELSE [@ EXCEPT !.status = review[r].status]]
    /\ review' = [review EXCEPT ![r] = NoReview]
    /\ UNCHANGED <<whitelist, round>>

\* confirm_whitelist: refused if the target is on the whitelist; then the
\* entry is inserted and the pending findings about it are confirmed.
CheckWhitelist(r, target) ==
    /\ review[r].at = "idle"
    /\ \A n \in DOMAIN whitelist : whitelist[n] # target
    /\ review' = [review EXCEPT ![r] = [NoReview EXCEPT !.at = "white", !.target = target]]
    /\ UNCHANGED <<findings, whitelist, round>>

WriteWhitelist(r) ==
    LET target == review[r].target
        about == PendingOf(findings, <<"false_positive", target>>)
    IN  /\ review[r].at = "white"
        /\ whitelist' = Append(whitelist, target)
        /\ findings' = [n \in DOMAIN findings |->
              IF n \in about THEN [findings[n] EXCEPT !.status = "confirmed"]
              ELSE findings[n]]
        /\ review' = [review EXCEPT ![r] = NoReview]
        /\ UNCHANGED round

AiNext ==
    \/ \E hits \in SUBSET (Kinds \X Targets) : Analyze(hits)
    \/ \E hit \in round.hits : FirstSelect(hit)
    \/ Upsert \/ PruneSelect \/ PruneDelete \/ RoundFails
    \/ \E r \in Reviewers :
          \/ \E id \in DOMAIN findings, s \in {"confirmed", "dismissed"} :
                ReadFinding(r, id, s)
          \/ \E target \in Targets : CheckWhitelist(r, target)
          \/ WriteStatus(r) \/ WriteWhitelist(r)

AiSpec == AiInit /\ [][AiNext]_findingVars

-----------------------------------------------------------------------------
(* Properties.                                                             *)

\* However the rounds and the people interleave, no target has two findings
\* of a type to be judged (lines 13-14 of ai_batch.py).
OnePending ==
    \A hit \in Kinds \X Targets : Cardinality(PendingOf(findings, hit)) <= 1

\* What a person has judged is kept (lines 75-76 of ai_batch.py) by every
\* round that found something, which holds the lock when it reads what it
\* prunes.  (A round that found nothing reads before it holds the lock, and
\* may delete what has been judged since.)
JudgedKept ==
    [][round.at # "delete" =>
          \A n \in DOMAIN findings :
             findings[n].status \in {"confirmed", "dismissed"} =>
                findings'[n].status \in {"confirmed", "dismissed"}]_findingVars

=============================================================================
