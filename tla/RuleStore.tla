-------------------------------- MODULE RuleStore --------------------------------
(***************************************************************************)
(* The line of a policy file that holds a rule, written by st_policy_save  *)
(* and read back by st_policy_load (shelltype/src/policy.c), and what is   *)
(* left of it when one byte is altered, lost or added, or the tail is cut. *)
(* The rule is the narrow one of Subsumption.  The checksum of the file is *)
(* left out: the reader must not need it.                                  *)
(***************************************************************************)
EXTENDS Subsumption, NetPattern

CONSTANTS
    StrayBytes, \* bytes a fault may put into the text
    Stored      \* rules whose text is damaged

(* A policy only has rules the encoder has accepted, and SIZE_MAX leaves   *)
(* room for the longest.                                                   *)
ASSUME StoreAssumption ==
    /\ Stored \subseteq Rules /\ StrayBytes \cup {"\n"} \subseteq Bytes
    /\ \A rule \in Rules : Encode(Raw(rule)).status = "ok"
    /\ \A n \in 0..(MaxNetpatternLen - 1) :
           EncodedLength(n) + 2 < SizeMax /\ EncodedLength(n) <= MaxNetpatternLen + 32

VARIABLE text

storeVars == <<wide, narrow, text>>

(* dfs_save: one record and a newline per pattern. *)
Saved == [rule \in Rules |-> Netstring(Encode(Raw(rule)).bytes) \o <<"\n">>]

Altered(t, i, byte) == [t EXCEPT ![i] = byte]
Lost(t, i)          == SubSeq(t, 1, i - 1) \o SubSeq(t, i + 1, Len(t))
Added(t, i, byte)   == SubSeq(t, 1, i) \o <<byte>> \o SubSeq(t, i + 1, Len(t))
Cut(t, i)           == SubSeq(t, 1, i)

Damaged(t) ==
    {Altered(t, i, b) : i \in DOMAIN t, b \in StrayBytes}
    \cup {Added(t, i, b) : i \in 0..Len(t), b \in StrayBytes}
    \cup {Lost(t, i) : i \in DOMAIN t}
    \cup {Cut(t, i) : i \in 0..(Len(t) - 1)}

(* A record of the file: read from the stream, iterated again as a slice,  *)
(* followed by a newline, and a netpattern.                                *)
Loaded(decoded) == IF decoded.status = "ok" THEN decoded ELSE Undecoded("format")

LoadRecord(t, record) ==
    IF record.status # "ok"
    THEN Undecoded(IF record.status = "overflow" THEN "limit" ELSE "format")
    ELSE IF \/ NextRecord(Cut(t, record.next - 1), 1) # record
            \/ Len(record.payload) \notin 1..(MaxNetpatternLen - 1)
            \/ ByteAt(t, record.next) # "\n"
    THEN Undecoded("format")
    ELSE Loaded(Decode(record.payload))

Load(t) == LoadRecord(t, ReadStream(t, 1, MaxNetpatternLen + 32))

-------------------------------------------------------------------------------
StoreInit == PairInit /\ text = Saved[narrow]

(* Another rule is compared, and its text is the one on file. *)
Pick ==
    /\ text = Saved[narrow]
    /\ \E rule \in Rules : Compare(rule) /\ text' = Saved[rule]

Damage ==
    /\ text = Saved[narrow] /\ wide = narrow /\ narrow \in Stored
    /\ text' \in Damaged(text)
    /\ UNCHANGED <<wide, narrow>>

(* The file is written anew. *)
Save ==
    /\ text # Saved[narrow]
    /\ text' = Saved[narrow]
    /\ UNCHANGED <<wide, narrow>>

StoreNext == Pick \/ Damage \/ Save

StoreSpec == StoreInit /\ [][StoreNext]_storeVars

-------------------------------------------------------------------------------
(* A text written by st_policy_save loads to the tokens it was made from,  *)
(* and whatever loads, from a damaged text too, is a legal rule in the one *)
(* form the writer gives it: no two texts are the same rule, and a change  *)
(* that is not noticed is a change to another canonical rule.              *)
LoadExact ==
    \A loaded \in {Load(text)} :
        /\ text = Saved[narrow] => loaded = Decoded(Raw(narrow))
        /\ loaded.status = "ok" =>
              \E canonical \in {Netstring(Encode(loaded.tokens).bytes) \o <<"\n">>} :
                  canonical = Cut(text, Len(canonical))

(* At every offset the iterator and the stream reader find the same        *)
(* record, and they find one exactly where the writer could have put it:   *)
(* no length that overflows or runs past the end is taken for another.     *)
FramingExact ==
    \A start \in 1..Len(text) :
        LET record  == NextRecord(text, start)
            first(n) == start + Len(Decimal[n]) + 1
            last(n)  == start + EncodedLength(n) - 1
            written == {n \in 0..Len(text) :
                           /\ last(n) <= Len(text)
                           /\ SubSeq(text, start, last(n)) =
                                 Netstring(SubSeq(text, first(n), last(n) - 1))}
        IN /\ record.status = "ok" <=> written # {}
           /\ record.status = "ok" =>
                 /\ Len(record.payload) \in written
                 /\ ReadStream(text, start, 0) = record
           /\ ReadStream(text, start, 0).status = "ok" => record.status = "ok"
===============================================================================
