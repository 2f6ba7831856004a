---------------------------- MODULE MCCrossSync ----------------------------
(***************************************************************************)
(* Instances of CrossSync for TLC.  The settings have two keys, so that a  *)
(* change of one can hide a change of the other; a built-in list is one    *)
(* row, on (1) or off (2).  A list of domains has two rows.                *)
(***************************************************************************)
EXTENDS CrossSync

CONSTANTS k1, k2

MCKeys == [t \in Tables |-> IF t = "threat_list" THEN {k1} ELSE {k1, k2}]
MCValues == [t \in Tables |-> IF t = "threat_list" THEN {1, 2} ELSE {1}]

=============================================================================
