------------------------------- MODULE MCAdmin -------------------------------
(***************************************************************************)
(* What people change through the console, in one run: the manual lists    *)
(* (ListAdmin), the findings they judge (AiFindings) and the lock that     *)
(* keeps others out (LoginGuard).  part says which of them a behaviour is  *)
(* of; they share no state.                                                *)
(***************************************************************************)
EXTENDS ListAdmin, AiFindings, LoginGuard, TLC

VARIABLE part

allVars == <<part, adminVars, findingVars, guardVars>>

-----------------------------------------------------------------------------
\* Two public suffixes, one of them above the other; a name of one owner in
\* capitals and not, names of other owners below the second suffix, and an
\* address (the text alone, since the code asks ipaddress about it).
com == Label("com")
cojp == <<Label("co"), Label("jp")>>
MCPublicSuffixes == {<<com>>, <<Label("jp")>>, cojp}
bad == <<Label("bad"), com>>
Bad == <<Capital("bad"), com>>

Black(target, value) == [list |-> "blacklist", target |-> target, value |-> value]
MCTyped == {Black("domain", Text("", bad)), Black("domain", Text("", Bad)),
            Black("domain", Text("*.", cojp)),
            Black("domain", Text("*", <<>>)),
            Black("ip", Text("", bad)), Black("ip", Text("*", <<>>))}
\* What the path "*. ." becomes: a star and a blank.
MCConfirmed == {[Text("*.", <<>>) EXCEPT !.blank = TRUE]}
MCNames == {bad, Bad, <<Label("a")>> \o bad, <<Label("x")>> \o cojp, <<Label("y")>> \o cojp}

MCSymmetry == Permutations(Requests) \union Permutations(Reviewers)

-----------------------------------------------------------------------------
MCInit == part \in {"lists", "findings", "login"} /\ Init /\ AiInit /\ GuardInit

ListsNext == part = "lists" /\ Next /\ UNCHANGED <<part, findingVars, guardVars>>
FindingsNext == part = "findings" /\ AiNext /\ UNCHANGED <<part, adminVars, guardVars>>
LoginNext == part = "login" /\ GuardNext /\ UNCHANGED <<part, adminVars, findingVars>>

MCSpec == MCInit /\ [][ListsNext \/ FindingsNext \/ LoginNext]_allVars

=============================================================================
