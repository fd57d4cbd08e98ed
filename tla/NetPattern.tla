------------------------------- MODULE NetPattern -------------------------------
(***************************************************************************)
(* The canonical text of a rule (shelltype/src/netpattern.c): one record   *)
(* per token, holding a tag record and a value record.  "L" is a literal,  *)
(* "T" a wildcard spelling, "C" a compound whose value is again a list of  *)
(* such records.  A decoded token keeps the bytes it was read from, as the *)
(* code does; Raw gives the form of a rule of TokenMatch.                  *)
(***************************************************************************)
EXTENDS TokenMatch, Netstring

CONSTANTS
    WordText,       \* [Words -> Seq(byte)]
    Prefix, Suffix, \* [Affixes -> Seq(byte)]
    Symbol,         \* [Types -> Seq(byte)], st_type_symbol
    ParamName,      \* [Params -> Seq(byte)], the name in st_metadata_entries
    ParamSpellings, \* [Params -> SUBSET Seq(byte)]: name, alias, any case
    MaxTokenLen,    \* ST_MAX_TOKEN_LEN
    MaxCmdTokens,   \* ST_MAX_CMD_TOKENS
    MaxNetpatternLen  \* ST_MAX_NETPATTERN_LEN

NUL == "NUL"

ASSUME TextAssumption ==
    /\ {".", "L", "T", "C", NUL} \subseteq Bytes
    /\ WordText \in [Words -> Seq(Bytes)]
    /\ Prefix \in [Affixes -> Seq(Bytes)] /\ Suffix \in [Affixes -> Seq(Bytes)]
    /\ Symbol \in [Types -> Seq(Bytes)] /\ ParamName \in [Params -> Seq(Bytes)]
    /\ ParamSpellings \in [Params -> SUBSET Seq(Bytes)]
    /\ MaxTokenLen \in Nat /\ MaxCmdTokens \in Nat /\ MaxNetpatternLen \in Nat \ {0}

Plain(type, text) ==
    [compound |-> FALSE, type |-> type, text |-> text]
Compound(type, prefix, capture, suffix) ==
    [compound |-> TRUE, type |-> type, text |-> capture,
     prefix |-> prefix, suffix |-> suffix]

Spelling(type, param) ==
    Symbol[type] \o IF param = NoParam THEN <<>> ELSE <<".">> \o ParamName[param]

RawToken(token) ==
    CASE token.kind = "lit"  -> Plain(LiteralType, WordText[token.word])
      [] token.kind = "wild" -> Plain(token.type, Spelling(token.type, token.param))
      [] token.kind = "comp" -> Compound(token.type, Prefix[token.affix],
                                         Spelling(token.type, token.param),
                                         Suffix[token.affix])

Raw(rule) == [i \in DOMAIN rule |-> RawToken(rule[i])]

(* The vocabulary (st_type_symbol, st_metadata_entries): a wildcard is a    *)
(* short C string, and no spelling of one parameter is another wildcard.   *)
Wildcards ==
    {<<t, NoParam>> : t \in Types \ {LiteralType}} \cup {<<ParamType[p], p>> : p \in Params}

ASSUME VocabularyAssumption ==
    /\ \A p \in Params : ParamName[p] \in ParamSpellings[p]
    /\ \A w \in Wildcards : LET text == Spelling(w[1], w[2]) IN
           /\ Len(text) < MaxTokenLen /\ NUL \notin ToSet(text)
           /\ \A q \in Params : \A name \in ParamSpellings[q] :
                  text = Symbol[ParamType[q]] \o <<".">> \o name => w[2] = q

-------------------------------------------------------------------------------
(* The vocabulary of wildcards is read as C strings: up to the first NUL.  *)

CString(text) ==
    LET nuls == {i \in DOMAIN text : text[i] = NUL} IN
    IF nuls = {} THEN text
    ELSE SubSeq(text, 1, (CHOOSE i \in nuls : \A j \in nuls : i <= j) - 1)

(* wildcard_type: a symbol, or a symbol with a parameter of its type in    *)
(* any of its spellings; anything else is a literal.                       *)
WildTypes(text) ==
    {t \in Types \ {LiteralType} : Symbol[t] = text}
    \cup {ParamType[p] : p \in {q \in Params :
             \E name \in ParamSpellings[q] :
                 text = Symbol[ParamType[q]] \o <<".">> \o name}}

WildType(text) ==
    LET types == WildTypes(CString(text)) IN
    IF types = {} THEN LiteralType ELSE CHOOSE t \in types : TRUE

(* canonical_wildcard_view: the canonical spellings of a text (none or one). *)
CanonicalWildcards(text) ==
    IF Len(text) >= MaxTokenLen \/ NUL \in ToSet(text) THEN {}
    ELSE {s \in {Symbol[t] : t \in Types \ {LiteralType}} : s = text}
         \cup {Spelling(ParamType[p], p) : p \in {q \in Params :
                  \E name \in ParamSpellings[q] :
                      text = Symbol[ParamType[q]] \o <<".">> \o name}}

-------------------------------------------------------------------------------
Encoded(bytes) == [status |-> "ok", bytes |-> bytes]
Refused(error) == [status |-> error, bytes |-> <<>>]

(* encode_tagged_record *)
Tagged(tag, value) == Netstring(Netstring(<<tag>>) \o Netstring(value))

CompoundParts(token, wild) ==
    (IF token.prefix = <<>> THEN <<>> ELSE Tagged("L", token.prefix))
    \o Tagged("T", wild)
    \o (IF token.suffix = <<>> THEN <<>> ELSE Tagged("L", token.suffix))

EncodeCompound(token) ==
    LET wilds == CanonicalWildcards(token.text) IN
    IF token.type = LiteralType \/ (token.prefix = <<>> /\ token.suffix = <<>>)
    THEN Refused("invalid")
    ELSE IF \E part \in {token.prefix, token.text, token.suffix} :
                Len(part) >= MaxTokenLen
    THEN Refused("limit")
    ELSE IF wilds = {} \/ WildType(token.text) # token.type
    THEN Refused("format")
    ELSE Encoded(Tagged("C", CompoundParts(token, CHOOSE w \in wilds : TRUE)))

(* A typed token whose text is no wildcard goes out as a literal.          *)
EncodePlain(token) ==
    LET wilds == IF token.type = LiteralType THEN {}
                 ELSE CanonicalWildcards(token.text)
    IN IF Len(token.text) >= MaxTokenLen THEN Refused("limit")
       ELSE IF wilds = {} THEN Encoded(Tagged("L", token.text))
       ELSE IF WildType(token.text) # token.type THEN Refused("format")
       ELSE Encoded(Tagged("T", CHOOSE w \in wilds : TRUE))

EncodeToken(token) ==
    IF token.compound THEN EncodeCompound(token) ELSE EncodePlain(token)

(* st_netpattern_encode_owned: the first token at fault decides the error. *)
Joined(records) ==
    LET faulty == {i \in DOMAIN records : records[i].status # "ok"}
        all    == FlattenSeq([i \in DOMAIN records |-> records[i].bytes])
    IN IF faulty # {}
       THEN records[CHOOSE i \in faulty : \A j \in faulty : i <= j]
       ELSE IF Len(all) >= MaxNetpatternLen THEN Refused("limit")
       ELSE Encoded(all)

Encode(tokens) ==
    IF Len(tokens) \notin 1..MaxCmdTokens THEN Refused("invalid")
    ELSE Joined([i \in DOMAIN tokens |-> EncodeToken(tokens[i])])

-------------------------------------------------------------------------------
Malformed == [compound |-> FALSE, type |-> LiteralType, text |-> <<>>, bad |-> TRUE]

(* A tag of one byte and a value, and nothing after them. *)
FieldsOf(records) ==
    IF records.status = "done" /\ Len(records.payloads) = 2
       /\ Len(records.payloads[1]) = 1
    THEN [tag |-> records.payloads[1][1], value |-> records.payloads[2]]
    ELSE [tag |-> "none", value |-> <<>>]

Fields(payload) == FieldsOf(Records(payload))

DecodePlain(tag, value) ==
    LET type == IF tag = "T" THEN WildType(value) ELSE LiteralType IN
    IF Len(value) >= MaxTokenLen \/ (tag = "T" /\ type = LiteralType)
    THEN Malformed ELSE Plain(type, value)

(* A wildcard with a literal before it, after it or on both sides. *)
DecodeParts(parts) ==
    LET tags   == [i \in DOMAIN parts |-> parts[i].tag]
        typed  == CHOOSE i \in DOMAIN parts : tags[i] = "T"
        prefix == IF typed = 1 THEN <<>> ELSE parts[1].value
        suffix == IF typed = Len(parts) THEN <<>> ELSE parts[Len(parts)].value
        type   == WildType(parts[typed].value)
    IN IF \/ tags \notin {<<"L", "T">>, <<"T", "L">>, <<"L", "T", "L">>}
          \/ \E i \in DOMAIN parts : Len(parts[i].value) >= MaxTokenLen
       THEN Malformed
       ELSE IF type = LiteralType \/ (prefix = <<>> /\ suffix = <<>>)
       THEN Malformed
       ELSE Compound(type, prefix, parts[typed].value, suffix)

DecodeRecords(records) ==
    IF records.status # "done" THEN Malformed
    ELSE DecodeParts([i \in DOMAIN records.payloads |-> Fields(records.payloads[i])])

DecodeCompound(value) == DecodeRecords(Records(value))

DecodeFields(fields) ==
    CASE fields.tag \in {"L", "T"} -> DecodePlain(fields.tag, fields.value)
      [] fields.tag = "C" /\ Len(fields.value) < MaxNetpatternLen
                          -> DecodeCompound(fields.value)
      [] OTHER -> Malformed

DecodeToken(payload) == DecodeFields(Fields(payload))

Decoded(tokens) == [status |-> "ok", tokens |-> tokens]
Undecoded(error) == [status |-> error, tokens |-> <<>>]

(* The tokens of the outer records, as many as there is room for, up to    *)
(* the first fault: a malformed token, one too many, or a bad record.      *)
DecodeAll(records) ==
    LET tokens == [i \in DOMAIN records.payloads |-> DecodeToken(records.payloads[i])]
    IN IF \E i \in DOMAIN tokens : i <= MaxCmdTokens /\ tokens[i] = Malformed
       THEN Undecoded("format")
       ELSE IF records.status = "done" /\ Len(tokens) <= MaxCmdTokens
       THEN Decoded(tokens)
       ELSE Undecoded(IF Len(tokens) >= MaxCmdTokens \/ records.status = "overflow"
                      THEN "limit" ELSE "format")

DecodeTokens(data) == DecodeAll(Records(data))

(* Faulty variant: what could be taken apart is taken as it is. *)
DecodeLenient(data) ==
    IF Len(data) \notin 1..(MaxNetpatternLen - 1) THEN Undecoded("format")
    ELSE DecodeTokens(data)

(* st_netpattern_decode_view: the tokens are encoded again, and only the   *)
(* very bytes that come out are accepted.                                  *)
Accepted(data, read) ==
    LET again == Encode(read.tokens) IN
    IF read.status # "ok" THEN read
    ELSE IF again.status # "ok"
    THEN Undecoded(IF again.status = "limit" THEN "limit" ELSE "format")
    ELSE IF again.bytes # data THEN Undecoded("format")
    ELSE read

Decode(data) ==
    IF Len(data) \notin 1..(MaxNetpatternLen - 1) THEN Undecoded("format")
    ELSE Accepted(data, DecodeTokens(data))
===============================================================================
