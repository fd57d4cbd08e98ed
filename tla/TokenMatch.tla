------------------------------ MODULE TokenMatch ------------------------------
(***************************************************************************)
(* How one policy rule (a canonical netpattern, decoded into tokens) is    *)
(* matched against one classified command, and when one rule subsumes      *)
(* another (shelltype/src/policy.c, normalize.c, pattern_internal.h).      *)
(*                                                                         *)
(* A command is a sequence of words.  The type of a word at run time       *)
(* depends on the word and on the context its predecessor leaves behind    *)
(* (st_arg_context_after); the rule side never sees that context, which is *)
(* what makes "wildcard subsumes literal" delicate.                        *)
(*                                                                         *)
(* Texts are abstract: a word is a member of Words, a compound rule token  *)
(* "prefix{#type}suffix" is a member of Affixes with a capture type, and   *)
(* Capture says which word the affixes leave between them.                 *)
(***************************************************************************)
EXTENDS Integers, Sequences

CONSTANTS
    Words,      \* argv payloads
    Types,      \* st_token_type_t
    LiteralType,    \* ST_TYPE_LITERAL
    AnyType,        \* ST_TYPE_ANY
    Contexts,   \* st_arg_context_t
    NoContext,  \* ST_ARG_CONTEXT_NONE
    SpanContext,\* ST_ARG_CONTEXT_LONG_OPTION: the plain span classifier
    Classify,   \* [Words \X Contexts -> Types], st_token_classify_context
    After,      \* [Words -> Contexts], st_arg_context_after
    Compatible, \* SUBSET (Types \X Types), st_type_compatible
    Mask,       \* [Types -> SUBSET Types], st_runtime_match_mask
    Params,     \* parameters of #type.parameter wildcards
    NoParam,
    ParamType,  \* [Params -> Types]
    ParamWords, \* [Params -> SUBSET Words]: words whose metadata satisfies it
    Affixes,    \* prefix/suffix pairs of compound tokens
    NoCapture,
    Capture     \* [Affixes \X Words -> Words \cup {NoCapture}]

(***************************************************************************)
(* Shape of the constants, and the facts about the type tables that the    *)
(* matcher relies on: every type satisfies "*", acceptance is closed       *)
(* upwards, and compatibility is a partial order.  MCSubsumption gives the *)
(* constants the real tables of TypeLattice.                               *)
(***************************************************************************)
ASSUME TableAssumption ==
    /\ LiteralType \in Types /\ AnyType \in Types /\ LiteralType # AnyType
    /\ NoContext \in Contexts /\ SpanContext \in Contexts
    /\ Classify \in [Words \X Contexts -> Types]
    /\ After \in [Words -> Contexts]
    /\ Compatible \in SUBSET (Types \X Types)
    /\ Mask \in [Types -> SUBSET Types]
    /\ NoParam \notin Params
    /\ ParamType \in [Params -> Types \ {LiteralType, AnyType}]
    /\ ParamWords \in [Params -> SUBSET Words]
    /\ NoCapture \notin Words
    /\ Capture \in [Affixes \X Words -> Words \cup {NoCapture}]

ASSUME AnyAssumption ==
    \A t \in Types : AnyType \in Mask[t] /\ <<t, AnyType>> \in Compatible

ASSUME UpwardAssumption ==
    \A t \in Types, b \in Types \ {LiteralType}, a \in Types :
        b \in Mask[t] /\ <<b, a>> \in Compatible => a \in Mask[t]

ASSUME CompatibleAssumption ==
    /\ \A t \in Types : <<t, t>> \in Compatible
    /\ \A a, b, c \in Types :
           <<a, b>> \in Compatible /\ <<b, c>> \in Compatible =>
               <<a, c>> \in Compatible
    /\ \A a, b \in Types :
           <<a, b>> \in Compatible /\ <<b, a>> \in Compatible => a = b

-------------------------------------------------------------------------------
(* Rule tokens, as st_netpattern_decode_view builds them. *)

LiteralToken  == [kind : {"lit"}, word : Words]
WildcardToken == {w \in [kind : {"wild"}, type : Types \ {LiteralType},
                         param : Params \cup {NoParam}] :
                    w.param # NoParam => ParamType[w.param] = w.type}
CompoundToken == {w \in [kind : {"comp"}, affix : Affixes,
                         type : Types \ {LiteralType},
                         param : Params \cup {NoParam}] :
                    w.param # NoParam => ParamType[w.param] = w.type}
Token == LiteralToken \cup WildcardToken \cup CompoundToken

(* Faulty variant: a generalised predecessor is taken to leave no context. *)
LiteralTypesNoContext(rule, i) ==
    IF i = 1 \/ rule[i - 1].kind # "lit"
    THEN {Classify[<<rule[i].word, NoContext>>]}
    ELSE {Classify[<<rule[i].word, After[rule[i - 1].word]>>]}

(* The rule forms the run-time context of a literal is read from: an exact *)
(* predecessor fixes it, a generalised one leaves every context possible.  *)
LiteralTypes(rule, i) ==
    IF i = 1
    THEN {Classify[<<rule[i].word, NoContext>>]}
    ELSE IF rule[i - 1].kind = "lit"
         THEN {Classify[<<rule[i].word, After[rule[i - 1].word]>>]}
         ELSE {Classify[<<rule[i].word, ctx>>] : ctx \in Contexts}

(* Type of the i-th word of a command. *)
CommandType(command, i) ==
    Classify[<<command[i],
               IF i = 1 THEN NoContext ELSE After[command[i - 1]]>>]

(* A parameter accepts only words classified exactly as its base type. *)
ParamMatches(word, type, token) ==
    token.param # NoParam =>
        type = token.type /\ word \in ParamWords[token.param]

WildcardAccepts(token, word, type) ==
    token.type \in Mask[type] /\ ParamMatches(word, type, token)

CompoundAccepts(token, word) ==
    LET inner == Capture[<<token.affix, word>>] IN
    /\ inner # NoCapture
    /\ WildcardAccepts(token, inner, Classify[<<inner, SpanContext>>])

TokenAccepts(token, word, type) ==
    \/ token.kind = "lit"  /\ token.word = word
    \/ token.kind = "wild" /\ WildcardAccepts(token, word, type)
    \/ token.kind = "comp" /\ CompoundAccepts(token, word)

(* The rule accepts the command: what a complete trie path checks. *)
Matches(rule, command) ==
    /\ Len(rule) = Len(command)
    /\ \A i \in 1..Len(rule) :
           TokenAccepts(rule[i], command[i], CommandType(command, i))

-------------------------------------------------------------------------------
(* pattern_subsumes, token by token. *)

ParamSubsumes(a, b) == a.param = NoParam \/ a.param = b.param

TokenSubsumes(a, rule, i) ==
    LET b == rule[i] IN
    \/ /\ a.kind = "comp" /\ b.kind = "comp"
       /\ a.affix = b.affix
       /\ <<b.type, a.type>> \in Compatible
       /\ ParamSubsumes(a, b)
    \/ /\ a.kind = "wild" /\ b.kind = "comp"
       /\ a.type = AnyType
    \/ /\ a.kind = "lit" /\ b.kind = "lit"
       /\ a.word = b.word
    \/ /\ a.kind = "wild" /\ b.kind = "wild"
       /\ <<b.type, a.type>> \in Compatible
       /\ ParamSubsumes(a, b)
    \/ /\ a.kind = "wild" /\ b.kind = "lit"
       /\ \A t \in LiteralTypes(rule, i) : WildcardAccepts(a, b.word, t)

Subsumes(wide, narrow) ==
    /\ Len(wide) = Len(narrow)
    /\ \A i \in 1..Len(wide) : TokenSubsumes(wide[i], narrow, i)

(* A rule may not start with "*" or with a compound token. *)
HeadAllowed(rule) ==
    /\ rule[1].kind # "comp"
    /\ rule[1].kind = "wild" => rule[1].type # AnyType

(* Faulty variant: only the head is looked at. *)
HasWildcardHead(rule) == rule[1].kind = "wild"

HasWildcard(rule)  == \E i \in 1..Len(rule) : rule[i].kind = "wild"
PlainLiteral(rule) == \A i \in 1..Len(rule) : rule[i].kind = "lit"
===============================================================================
