------------------------------ MODULE TypeLattice ------------------------------
(***************************************************************************)
(* The token type tables: st_type_compatible and st_type_join (the         *)
(* generalisation lattice, shelltype/src/normalize.c) and                  *)
(* st_runtime_match_mask (shelltype/src/policy.c).                         *)
(*                                                                         *)
(* Below "*" the lattice is a tree, so the two 45 x 45 tables are written  *)
(* here as the children of each inner type; LITERAL is the bottom.         *)
(***************************************************************************)
Children ==
    [ANY |-> {"VALUE", "PATH", "URL"},
     VALUE |-> {"HEXHASH", "IPADDR", "WORD", "QUOTED_SPACE", "OPT", "UUID",
                "EMAIL", "HOSTNAME", "NUMBER", "SIZE", "SEMVER", "TIMESTAMP",
                "ENV_VAR", "BRANCH", "IMAGE", "PKG", "USER", "FINGERPRINT",
                "MAC", "CRON", "DURATION", "REGEX", "GLOB", "RANGE",
                "SIGNAL", "USER_GROUP"},
     HEXHASH |-> {"SHA"}, IPADDR |-> {"IPV4", "IPV6"},
     WORD |-> {"HASH_ALGO", "HYPHENATED", "METHOD"},
     QUOTED_SPACE |-> {"QUOTED"}, OPT |-> {"SHORTOPT", "LONGOPT"},
     NUMBER |-> {"PORT", "PERM_OCTAL"},
     PATH |-> {"REL_PATH", "ABS_PATH"}, REL_PATH |-> {"FILENAME"}]

Typed == {"ANY"} \cup UNION {Children[p] : p \in DOMAIN Children}
TokenTypes == {"LITERAL"} \cup Typed

(* A typed token type with everything above it. *)
Above[t \in Typed] ==
    {t} \cup UNION {Above[p] : p \in {q \in DOMAIN Children : t \in Children[q]}}

TypeCompatible ==
    {<<a, b>> \in TokenTypes \X TokenTypes :
        a = "LITERAL" \/ (b # "LITERAL" /\ b \in Above[a])}

(* The narrowest type above both: its ancestors are exactly the shared ones. *)
TypeJoin(a, b) ==
    IF a = "LITERAL" THEN b ELSE IF b = "LITERAL" THEN a
    ELSE CHOOSE c \in Above[a] : Above[c] = Above[a] \cap Above[b]

(* Policy wildcards a classified word satisfies: the types above its own,  *)
(* the alternatives of a union type, and only "*" for an unclassified word. *)
Alternatives(t) ==
    CASE t = "HEXHASH" -> {"NUMBER"}
      [] t = "IPADDR"  -> {"IPV4", "IPV6"}
      [] t = "OPT"     -> {"SHORTOPT", "LONGOPT"}
      [] OTHER         -> {}

MatchMask ==
    [t \in TokenTypes |-> IF t = "LITERAL" THEN {"LITERAL", "ANY"}
                          ELSE Above[t] \cup Alternatives(t)]
===============================================================================
