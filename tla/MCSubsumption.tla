------------------------------ MODULE MCSubsumption ------------------------------
(* The real type tables, and words whose type depends on the context: "9"  *)
(* is a signal after -s, "A=b" is only classified after a long option.     *)
(* Sizes are 7 bits wide: the record of a "#signal" is 14 bytes long, and  *)
(* one digit more makes that 142, which is 14 again in 7 bits.             *)
EXTENDS RuleVariants, RuleStore, TLC

Lattice == INSTANCE TypeLattice

MCTypes      == Lattice!TokenTypes
MCCompatible == Lattice!TypeCompatible
MCMask       == Lattice!MatchMask
MCJoin       == [ab \in MCTypes \X MCTypes |-> Lattice!TypeJoin(ab[1], ab[2])]

MCWords    == {"-s", "--env", "9", "10K", "A=b", "x9", "x10K"}
MCContexts == {"none", "long", "signal"}

Span == [x9 |-> "LITERAL", x10K |-> "LITERAL"]
        @@ ("--env" :> "LONGOPT") @@ ("-s" :> "SHORTOPT")
        @@ ("9" :> "NUMBER") @@ ("10K" :> "SIZE") @@ ("A=b" :> "ENV_VAR")

MCClassify ==
    [wc \in MCWords \X MCContexts |->
        IF wc[2] = "signal" /\ wc[1] = "9" THEN "SIGNAL"
        ELSE IF wc[2] # "long" /\ wc[1] = "A=b" THEN "LITERAL"
        ELSE Span[wc[1]]]
MCAfter == [w \in MCWords |-> CASE w = "--env" -> "long"
                                [] w = "-s"    -> "signal"
                                [] OTHER       -> "none"]

MCParams     == {"K"}
MCParamType  == [p \in MCParams |-> "SIZE"]
MCParamWords == [p \in MCParams |-> {"10K"}]
MCCapture    == [aw \in {"x{}"} \X MCWords |-> CASE aw[2] = "x9"   -> "9"
                                                 [] aw[2] = "x10K" -> "10K"
                                                 [] OTHER          -> NoCapture]

Lit(w)     == [kind |-> "lit", word |-> w]
Wild(t, p) == [kind |-> "wild", type |-> t, param |-> p]
Comp(t, p) == [kind |-> "comp", affix |-> "x{}", type |-> t, param |-> p]

Heads == {Lit("-s"), Lit("--env"), Wild("LONGOPT", NoParam),
          Wild("VALUE", NoParam)}
Tails == {Lit(w) : w \in {"9", "10K", "A=b", "x9"}}
         \cup {Wild(t, NoParam) : t \in {"NUMBER", "SIGNAL", "VALUE", "ANY",
                                         "SIZE", "ENV_VAR"}}
         \cup {Wild("SIZE", "K"), Comp("SIZE", "K")}
         \cup {Comp(t, NoParam) : t \in {"NUMBER", "SIZE", "VALUE"}}

MCRules    == {<<h, t>> : h \in Heads, t \in Tails} \cup {<<h>> : h \in Heads}
MCCommands == {<<a, b>> : a \in MCWords, b \in MCWords} \cup {<<a>> : a \in MCWords}

MCWordText == [w \in MCWords |->
    CASE w = "-s"    -> <<"-", "s">>
      [] w = "--env" -> <<"-", "-", "e", "n", "v">>
      [] w = "9"     -> <<"9">>
      [] w = "10K"   -> <<"1", "0", "K">>
      [] w = "A=b"   -> <<"A", "=", "b">>
      [] w = "x9"    -> <<"x", "9">>
      [] w = "x10K"  -> <<"x", "1", "0", "K">>]
MCPrefix == [a \in {"x{}"} |-> <<"x">>]
MCSuffix == [a \in {"x{}"} |-> <<>>]
MCSymbol == [t \in MCTypes |->
    CASE t = "LITERAL"  -> <<>>
      [] t = "ANY"      -> <<"*">>
      [] t = "NUMBER"   -> <<"#", "n">>
      [] t = "SIZE"     -> <<"#", "s", "i", "z", "e">>
      [] t = "VALUE"    -> <<"#", "v", "a", "l">>
      [] t = "SIGNAL"   -> <<"#", "s", "i", "g", "n", "a", "l">>
      [] t = "ENV_VAR"  -> <<"#", "e", "n", "v">>
      [] t = "LONGOPT"  -> <<"#", "l", "o", "p", "t">>
      [] t = "SHORTOPT" -> <<"#", "s", "o", "p", "t">>
      [] OTHER          -> <<"#", t>>]
MCParamName      == [p \in MCParams |-> <<"K">>]
MCParamSpellings == [p \in MCParams |-> {<<"K">>, <<"k">>}]

MCStrayBytes == {"0", "1", "2", "3", ":", ",", "L", "T", "C", "*", "k", NUL}
MCBytes == ToSet(Digits) \cup MCStrayBytes
           \cup UNION {ToSet(MCWordText[w]) : w \in MCWords}
           \cup UNION {ToSet(MCSymbol[t]) : t \in MCTypes} \cup {"\n", ".", "K"}
MCStored == {<<Lit("-s"), Wild("SIGNAL", NoParam)>>, <<Lit("-s"), Wild("SIZE", "K")>>,
             <<Wild("VALUE", NoParam), Comp("NUMBER", NoParam)>>,
             <<Wild("VALUE", NoParam), Wild("ANY", NoParam)>>, <<Lit("--env")>>}
===============================================================================
