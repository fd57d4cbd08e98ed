------------------------------ MODULE Subsumption ------------------------------
(***************************************************************************)
(* Two rules of a policy compared by pattern_subsumes: one is held fixed   *)
(* while the other ranges over the rules, as the scan of a length bucket   *)
(* in st_policy_add_locked_view does (shelltype/src/policy.c).             *)
(***************************************************************************)
EXTENDS RuleUniverse

VARIABLES wide, narrow

pair == <<wide, narrow>>

TypeOK == wide \in Rules /\ narrow \in Rules

PairInit == wide \in Rules /\ narrow = wide

Compare(rule) == narrow' = rule /\ wide' = wide

PairNext == \E rule \in Rules : Compare(rule)

PairSpec == PairInit /\ [][PairNext]_pair

(* pattern_subsumes, policy.c:920: "Returns true if every command accepted *)
(* by B is also accepted by A", whatever context the command gives its     *)
(* words.                                                                  *)
SubsumesSound ==
    Subsumes(wide, narrow) =>
        \A c \in Commands : Matches(narrow, c) => Matches(wide, c)

(* A rule that covers a second one covers everything the second covers, so *)
(* dropping subsumed rules in any order leaves the same maximal rules.     *)
SubsumesTransitive ==
    Subsumes(wide, narrow) =>
        \A r \in Rules : Subsumes(narrow, r) => Subsumes(wide, r)

===============================================================================
