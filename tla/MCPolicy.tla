------------------------------- MODULE MCPolicy -------------------------------
(* A small vocabulary for Policy: two plain words, a number, a word with a *)
(* numeric capture, and rules of every token kind that compete for the     *)
(* same commands.                                                          *)
EXTENDS Policy, TLC

MCWords    == {"g", "a", "1", "x1"}
MCTypes    == {"LITERAL", "NUMBER", "VALUE", "ANY"}
MCContexts == {"none", "long"}
MCClassify == [wc \in MCWords \X MCContexts |->
                 IF wc[1] = "1" THEN "NUMBER" ELSE "LITERAL"]
MCAfter    == [w \in MCWords |-> "none"]
MCCompatible ==
    {<<t, t>> : t \in MCTypes} \cup {<<"LITERAL", t>> : t \in MCTypes}
    \cup {<<t, "ANY">> : t \in MCTypes} \cup {<<"NUMBER", "VALUE">>}
MCMask == [t \in MCTypes |-> CASE t = "LITERAL" -> {"LITERAL", "ANY"}
                               [] t = "NUMBER"  -> {"NUMBER", "VALUE", "ANY"}
                               [] t = "VALUE"   -> {"VALUE", "ANY"}
                               [] t = "ANY"     -> {"ANY"}]
MCParamType  == [p \in {} |-> "VALUE"]
MCParamWords == [p \in {} |-> {}]
MCCapture == [aw \in {"x{}"} \X MCWords |->
                IF aw[2] = "x1" THEN "1" ELSE NoCapture]

Lit(w)     == [kind |-> "lit", word |-> w]
Wild(t)    == [kind |-> "wild", type |-> t, param |-> NoParam]
Comp(x, t) == [kind |-> "comp", affix |-> x, type |-> t, param |-> NoParam]

G    == <<Lit("g")>>
GA   == <<Lit("g"), Lit("a")>>
G1   == <<Lit("g"), Lit("1")>>
GN   == <<Lit("g"), Wild("NUMBER")>>
GX   == <<Lit("g"), Comp("x{}", "NUMBER")>>
GAll == <<Lit("g"), Wild("ANY")>>

(* Storage and staged operations, no evaluation in progress. *)
StagedRules   == {G, GA, G1, GN, GX, GAll}
StagedBatches == {<<GA, GN>>, <<G1, G, GAll>>}

(* Evaluations and rebuilds against every mutator. *)
EvalRules   == {GA, GX, GAll}
EvalBatches == {<<GA, GX>>}

MCCommands == {<<"g", "a">>, <<"g", "1">>, <<"g", "x1">>}
===============================================================================
