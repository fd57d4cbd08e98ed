------------------------------ MODULE LearnerFile ------------------------------
(***************************************************************************)
(* st_learner_save and st_learner_load (shelltype/src/trie.c): the trie as *)
(* a list of node records, each naming its parent by number.               *)
(*                                                                         *)
(* A save replaces the file as a whole (module AtomicOutput); one that     *)
(* fails before that changes nothing and is not an action.  A load builds  *)
(* a trie of its own and installs it when every record and every total     *)
(* was accepted; a load that is refused, or whose checksum shows damage,   *)
(* changes nothing.                                                        *)
(***************************************************************************)
EXTENDS LearnerSuggest

CONSTANTS
    MaxTokens,      \* ST_MAX_CMD_TOKENS
    ForeignFiles,   \* well-formed files with a right checksum that this
                    \* learner did not write
    NoFile

ASSUME FileAssumption == \A c \in Commands : Len(c) <= MaxTokens

VARIABLE file   \* [total, rows] and, as history, the commands behind them

fileVars == <<learnerVars, file>>

FileInit == Init /\ file \in ForeignFiles \cup {NoFile}

(* dfs_save_v4: the nodes in preorder. *)
Preorder[path \in DOMAIN trie] ==
    FoldLeft(LAMBDA list, child : list \o Preorder[child], <<path>>,
             SetToSeq(Children(path)))

SavedMetadata(node) ==
    IF node.mixed THEN "!" ELSE IF node.common = NoParam THEN "-" ELSE node.common

SavedRows ==
    LET order == Tail(Preorder[<<>>])
        Id(path) == IF path = <<>> THEN 0
                    ELSE CHOOSE i \in 1..Len(order) : order[i] = path
    IN [i \in 1..Len(order) |->
          [parent |-> Id(Front(order[i])), label |-> Last(order[i]),
           count |-> trie[order[i]].count,
           metadata |-> SavedMetadata(trie[order[i]]),
           observations |-> trie[order[i]].observations]]

Save ==
    /\ Idle
    /\ file' = [total |-> total, rows |-> SavedRows, fed |-> fed]
    /\ UNCHANGED learnerVars

-------------------------------------------------------------------------------
(* The metadata field of a record: none for a literal, exactly one of      *)
(* "mixed" and the name of the common one for a type.                      *)
MetadataValid(row) ==
    IF row.label.kind = "lit"
    THEN row.observations = 0 /\ row.metadata = "-"
    ELSE /\ row.observations = row.count
         /\ \/ row.metadata = "!"
            \/ row.metadata \in Params /\ ParamType[row.metadata] = row.label.type

LoadedNode(row) ==
    [count |-> row.count,
     observed |-> IF row.label.kind = "lit" THEN {} ELSE {row.label.type},
     observations |-> row.observations,
     common |-> IF row.metadata \in {"-", "!"} THEN NoParam ELSE row.metadata,
     mixed |-> row.metadata = "!"]

RowValid(built, row) ==
    /\ row.parent < Len(built.nodes)
    /\ Len(built.nodes[row.parent + 1]) < MaxTokens
    /\ row.count # 0
    /\ Append(built.nodes[row.parent + 1], row.label) \notin DOMAIN built.trie
    /\ MetadataValid(row)

AddRow(built, row) ==
    IF ~built.valid \/ ~RowValid(built, row) THEN [built EXCEPT !.valid = FALSE]
    ELSE LET path == Append(built.nodes[row.parent + 1], row.label) IN
         [valid |-> TRUE, nodes |-> Append(built.nodes, path),
          trie |-> Put(built.trie, path, LoadedNode(row))]

Built ==
    FoldLeft(AddRow,
             [valid |-> TRUE, nodes |-> <<<<>>>>,
              trie |-> [p \in {<<>>} |-> [NewNode EXCEPT !.count = file.total]]],
             file.rows)

(* node_counts_valid, and the children of the root are all the commands.   *)
ChildTotal(t, path) ==
    MapThenSumSet(LAMBDA p : t[p].count,
                  {p \in DOMAIN t : Len(p) = Len(path) + 1 /\ Front(p) = path})

CountsValid(t) ==
    /\ \A p \in DOMAIN t : ChildTotal(t, p) <= t[p].count
    /\ ChildTotal(t, <<>>) = file.total

Load ==
    /\ Idle /\ file # NoFile
    /\ Built.valid /\ CountsValid(Built.trie)
    /\ trie' = Built.trie
    /\ total' = file.total
    /\ before' = trie' /\ fed' = file.fed
    /\ UNCHANGED <<blacklist, config, cmd, done, created, saved, file>>

FileNext ==
    \/ LearnerNext /\ UNCHANGED file
    \/ Save
    \/ Load

FileSpec == FileInit /\ [][FileNext]_fileVars
===============================================================================
