------------------------------- MODULE MCLearner -------------------------------
(* The real type tables and a vocabulary in which values of one type agree *)
(* or disagree in metadata, options share a prefix, one with an empty      *)
(* value, heads are typed, and a word is a signal only after -s.           *)
EXTENDS LearnerFile, TLC

Lattice == INSTANCE TypeLattice

MCTypes      == Lattice!TokenTypes
MCCompatible == Lattice!TypeCompatible
MCMask       == Lattice!MatchMask
MCJoin       == [ab \in MCTypes \X MCTypes |-> Lattice!TypeJoin(ab[1], ab[2])]

MCWords == {"g", "-s", "-k", "TERM", "9", "ab12", "ab1234", "/x", "u1", "u4",
            "--n=9", "--n=/x", "--n=", ""}

MCClassify ==
    [wc \in MCWords \X {"none", "long", "signal"} |->
        CASE wc[1] \in {"-s", "-k"} -> "SHORTOPT"
          [] wc[1] = "TERM" -> IF wc[2] = "signal" THEN "SIGNAL" ELSE "LITERAL"
          [] wc[1] = "9"    -> IF wc[2] = "signal" THEN "SIGNAL" ELSE "NUMBER"
          [] wc[1] = "ab12" -> "HEXHASH"
          [] wc[1] = "ab1234" -> "SHA"
          [] wc[1] = "/x"   -> "ABS_PATH"
          [] wc[1] \in {"u1", "u4"} -> "UUID"
          [] OTHER -> "LITERAL"]
MCAfter == [w \in MCWords |-> IF w = "-s" THEN "signal" ELSE "none"]

MCParams     == {"v4"}
MCParamType  == [p \in MCParams |-> "UUID"]
MCParamWords == [p \in MCParams |-> {"u4"}]
MCMeta == [tw \in MCTypes \X MCWords |->
             IF tw = <<"UUID", "u4">> THEN "v4" ELSE NoParam]

MCCapture == [aw \in {"--n={}"} \X MCWords |->
                CASE aw[2] = "--n=9"  -> "9"
                  [] aw[2] = "--n=/x" -> "/x"
                  [] aw[2] = "--n="   -> ""
                  [] OTHER            -> NoCapture]
MCOptionAffix == [w \in MCWords |-> IF w \in {"--n=9", "--n=/x"}
                                    THEN "--n={}" ELSE NoAffix]

MCGeneral == [t \in {"ABS_PATH", "REL_PATH", "HEXHASH", "SHA"} |->
                IF t \in {"ABS_PATH", "REL_PATH"} THEN "PATH" ELSE "VALUE"]

MCCommands ==
    {<<"g", w>> : w \in {"u4", "--n=9", "--n=/x", "--n="}}
    \cup {<<w, "u4">> : w \in {"9", "/x"}} \cup {<<w, "u1">> : w \in {"ab12", "ab1234"}}
    \cup {<<w, "TERM">> : w \in {"-s", "-k"}} \cup {<<"g">>}

MCConfigs ==
    {[min_support |-> 1, min_confidence |-> <<0, 1>>, max_suggestions |-> 9],
     [min_support |-> 2, min_confidence |-> <<2, 3>>, max_suggestions |-> 2]}

Lit(w)  == [kind |-> "lit", word |-> w]
Wild(t) == [kind |-> "wild", type |-> t, param |-> NoParam]

MCBlacklist == {<<Lit("g"), Wild("UUID")>>}

Row(parent, label, count, metadata) ==
    [parent |-> parent, label |-> label, count |-> count,
     metadata |-> metadata,
     observations |-> IF label.kind = "lit" THEN 0 ELSE count]

File(total_, rows, command) ==
    [total |-> total_, rows |-> rows,
     fed |-> [c \in MCCommands |-> IF c = command THEN total_ ELSE 0]]

(* One file a load accepts, and files whose records name a node twice, give *)
(* more commands to the children than to their parent, leave commands at    *)
(* the root, disagree with the total, or leave a bucket's metadata open:    *)
(* no commands are behind those.                                            *)
MCForeignFiles ==
    {File(2, <<Row(0, Lit("g"), 2, "-"), Row(1, Wild("UUID"), 2, "v4")>>, <<"g", "u4">>),
     File(2, <<Row(0, Lit("g"), 1, "-"), Row(0, Lit("g"), 1, "-")>>, <<>>),
     File(1, <<Row(0, Lit("g"), 1, "-"), Row(1, Lit("--n="), 1, "-"),
               Row(1, Wild("UUID"), 1, "v4")>>, <<>>),
     File(2, <<Row(0, Lit("g"), 1, "-"), Row(1, Lit("--n="), 1, "-")>>, <<>>),
     File(1, <<Row(0, Lit("g"), 1, "-"), Row(1, Wild("UUID"), 1, "-")>>, <<>>)}
===============================================================================
