---------------------------- MODULE DomainMatching ----------------------------
(***************************************************************************)
(* How an entry of the manual lists is classified when it is stored        *)
(* (platform/app/domain_level.py) and how it is compared with the name of  *)
(* a query (platform/detectors.py, platform/app/threat_list.py).           *)
(*                                                                         *)
(* A label is a word and the way it is written, so that two texts may      *)
(* differ in capitals only.  A name is a sequence of labels; the dot at    *)
(* its end is gone.  What an administrator types is a name behind an       *)
(* optional scheme ("http://") and an optional star: "*." or a bare "*".   *)
(* A blank at its end is ignored by all that is described here; only       *)
(* confirm_whitelist stores one (ListAdmin).                               *)
(***************************************************************************)
EXTENDS Naturals, SequencesExt

CONSTANT PublicSuffixes \* the table of public suffixes: small names

Label(word) == [word |-> word, capital |-> FALSE]
Capital(word) == [word |-> word, capital |-> TRUE]
Lower(name) == [n \in DOMAIN name |-> Label(name[n].word)]

Labels == [word : STRING, capital : BOOLEAN]
Texts == [scheme : BOOLEAN, star : {"", "*", "*."}, name : Seq(Labels), blank : BOOLEAN]
Text(star, name) == [scheme |-> FALSE, star |-> star, name |-> name, blank |-> FALSE]

\* The key of a text in list.py and mcp_server.py: strip().lower().
KeyOf(text) == [text EXCEPT !.name = Lower(@), !.blank = FALSE]

-----------------------------------------------------------------------------
(* domain_level.py                                                         *)

\* Scheme and star are dropped, capitals made small.
normalize_domain(text) == Lower(text.name)

TailsOf(name) == Suffixes(name) \ {<<>>}

Longest(names) == CHOOSE s \in names : \A t \in names : Len(t) <= Len(s)

\* The longest suffix of the table, or the last label.
public_suffix(d) ==
    LET listed == {t \in TailsOf(d) : t \in PublicSuffixes /\ Len(t) <= 5}
    IN  IF d = <<>> THEN <<>>
        ELSE IF listed # {} THEN Longest(listed)
        ELSE <<Last(d)>>

registrable_domain(d) ==
    LET size == Len(public_suffix(d)) + 1
    IN  IF Len(d) < size THEN <<>> ELSE SubSeq(d, Len(d) - size + 1, Len(d))

Wildcard(text) == ~text.scheme /\ text.star = "*."

classify_entry(target, text) ==
    LET d == normalize_domain(text)
        level == IF d = public_suffix(d) THEN "tld"
                 ELSE IF d = registrable_domain(d) THEN "registrable"
                 ELSE "subdomain"
        risk == CASE Wildcard(text) /\ level = "tld" -> "blocked"
                  [] Wildcard(text) /\ level = "registrable" -> "warn"
                  [] OTHER -> ""
    IN  IF target # "domain" THEN [level |-> "ip", risk |-> ""]
        ELSE IF d = <<>> THEN [level |-> "", risk |-> "blocked"]
        ELSE [level |-> level, risk |-> risk]

-----------------------------------------------------------------------------
(* detectors.py and threat_list.py: which names an entry is about.         *)

\* _match_domain of a name against one entry: as it was typed.
match_domain(name, text) ==
    /\ ~text.scheme
    /\ IF text.star = "*." THEN text.name # <<>> /\ IsSuffix(text.name, name)
       ELSE text.star = "" /\ name = text.name

\* find_domain: the entries of the offline lists are small, and so is the
\* name that is looked up, with each of its parents.
find_domain(name, entries) == TailsOf(Lower(name)) \intersect entries # {}

=============================================================================
