------------------------------ MODULE SourceRuntime ------------------------------
(***************************************************************************)
(* The per-thread operation behind every shellsplit parser                 *)
(* (shellsplit/src/shell_source_runtime.c).  Calls nest: an inner call on  *)
(* a part of the source shares the operation of the outer one, a user      *)
(* callback suspends it and its calls have operations of their own.  An    *)
(* operation has two stores.  The index of lexical facts is a bounded hash *)
(* table: one per thread, leased, or one that a graph brings.  The arena   *)
(* gives temporary blocks from its front, released by marks, and keeps     *)
(* array facts and the state of an iterator at its tail.                   *)
(*                                                                         *)
(* A view of the source is an interval of addresses, and an arena is       *)
(* measured in units: alignment and the bytes kept in it are left out.     *)
(***************************************************************************)
EXTENDS Integers, Sequences, FiniteSetsExt, SequencesExt

CONSTANTS
    Roots,      \* views a public call is made on
    Parts,      \* views of nested consumers
    Documents,  \* roots with a here-document
    Grouped,    \* roots with a fragment that may hold documents in groups
    Conditionals,   \* roots with a "[["
    Brackets,   \* [Roots \cup Parts -> Nat], the "[" of a view
    WorkspaceSize,  \* [Roots -> Nat], shell_source_workspace_size of its length
    Kinds,      \* kinds of lexical facts
    DefaultIndex, OwnIndexes,   \* the index of the thread, those of graphs
    NoIndex,
    Capacity, Probes,       \* SHELL_SOURCE_INDEX_CAPACITY, _PROBES
    MaxGeneration,          \* UINT_MAX
    Buffers,    \* workspaces of callers
    Size,       \* [Buffers -> Nat]
    Scratch, Heap, NoBuffer,    \* operation.scratch, its owned workspace
    ScratchSize, InlineArrays,  \* the arena and facts inside an operation
    FactSize, RecordSize,   \* an array fact, the saved record of an iterator
    Takes,      \* sizes reserved at a time
    MaxCalls    \* bound of the exploration: calls that are nested

ASSUME RuntimeAssumption ==
    /\ \A v \in Roots \cup Parts : v[1] \in Nat /\ v[2] \in Nat /\ v[1] <= v[2]
    /\ Documents \cup Grouped \cup Conditionals \subseteq Roots
    /\ WorkspaceSize \in [Roots -> Nat]
    /\ Brackets \in [Roots \cup Parts -> Nat]
    /\ DefaultIndex \notin OwnIndexes /\ NoIndex \notin OwnIndexes \cup {DefaultIndex}
    /\ Kinds \subseteq Nat /\ Capacity \in Nat \ {0} /\ Probes \in 1..Capacity
    /\ MaxGeneration \in Nat \ {0}
    /\ Size \in [Buffers -> Nat] /\ {Scratch, Heap, NoBuffer} \cap Buffers = {}
    /\ Scratch # Heap /\ NoBuffer \notin {Scratch, Heap} /\ Takes \subseteq Nat
    /\ {ScratchSize, InlineArrays, FactSize, RecordSize} \subseteq Nat

VARIABLES
    op,         \* source_operation
    calls,      \* what the calls in progress restore when they return
    table,      \* [index -> [slot -> entry]]
    lease,      \* default_index_borrowed
    generation, \* default_generation
    iterator,   \* the state a public iterator keeps in its workspace
    caller      \* "index" or "arena": the store this caller uses

vars == <<op, calls, table, lease, generation, iterator, caller>>

Within(inner, outer) == outer[1] <= inner[1] /\ inner[2] <= outer[2]
Length(view) == view[2] - view[1]
Entire(view) == [begin |-> view[1], end |-> view[2], frontier |-> view[1]]

NoArrays == [prepared |-> FALSE, count |-> 0, at |-> NoBuffer]
NoView   == <<0, 0>>

(* History: front and tails are the extents in use, inline is the view     *)
(* whose facts the inline array holds, known is what was put.              *)
Idle ==
    [depth |-> 0, view |-> NoView, scope |-> Entire(NoView),
     index |-> NoIndex, generation |-> 0, owns |-> FALSE, known |-> {},
     buffer |-> NoBuffer, window |-> NoView, size |-> 0, used |-> 0,
     exhausted |-> FALSE, arrays |-> NoArrays, inline |-> NoView,
     front |-> <<>>, tails |-> <<>>]

Unused == [key |-> 0, kind |-> 0, value |-> 0, generation |-> 0]
Clear  == [slot \in 0..(Capacity - 1) |-> Unused]

Init ==
    /\ op = Idle /\ calls = <<>> /\ lease = FALSE /\ generation = 0
    /\ table = [i \in OwnIndexes \cup {DefaultIndex} |-> Clear]
    /\ iterator = [open |-> FALSE]
    /\ caller \in {"index", "arena"}

Active == op.depth > 0
Room   == Len(calls) < MaxCalls
Call(kind, saved) ==
    calls' = Append(calls, [kind |-> kind, saved |-> saved,
                            before |-> Len(op.front)])
Returning(kind) == calls # <<>> /\ Last(calls).kind = kind
Return == calls' = Front(calls)

-------------------------------------------------------------------------------
(* shell_source_operation_begin at the outermost level: lease the index of *)
(* the thread if it is free.  Its entries are told apart by a generation,  *)
(* and are cleared when that wraps to 0.                                   *)

Wraps == generation = MaxGeneration
NextGeneration == IF Wraps THEN 1 ELSE generation + 1

Begun(view) ==
    [Idle EXCEPT !.depth = 1, !.view = view, !.scope = Entire(view),
                 !.window = view, !.owns = ~lease,
                 !.index = IF lease THEN NoIndex ELSE DefaultIndex,
                 !.generation = IF lease THEN 0 ELSE NextGeneration]

(* Faulty variant: the entries outlive the wrap of the generation. *)
LeaseWithoutClear ==
    /\ lease' = TRUE
    /\ generation' = IF lease THEN generation ELSE NextGeneration
    /\ UNCHANGED table

Lease ==
    /\ lease' = TRUE
    /\ generation' = IF lease THEN generation ELSE NextGeneration
    /\ table' = IF ~lease /\ Wraps THEN [table EXCEPT ![DefaultIndex] = Clear]
                ELSE table

Nested == op' = [op EXCEPT !.depth = @ + 1] /\ UNCHANGED <<table, lease, generation>>

OperationBegin(view) ==
    /\ Room /\ Call("operation", NoView)
    /\ IF Active THEN Nested ELSE op' = Begun(view) /\ Lease
    /\ UNCHANGED <<iterator, caller>>

(* shell_source_operation_begin_owned: an arena is allocated for a source   *)
(* with more array candidates than fit inline, and for one with a document  *)
(* or a conditional that needs more than the arena inside the operation.    *)
SourceSized(view) == view \in Conditionals \cup (Documents \cap Grouped)

OwnedSize(view) ==
    IF SourceSized(view) THEN WorkspaceSize[view]
    ELSE ScratchSize + (IF view \in Documents THEN 2 * Length(view) ELSE 0)
         + Brackets[view] * FactSize

Spills(view) ==
    \/ Brackets[view] > InlineArrays
    \/ view \in Documents \cup Conditionals /\ OwnedSize(view) > ScratchSize

OperationBeginOwned(view) ==
    /\ caller = "arena" /\ Room /\ Call("operation", NoView)
    /\ IF Active THEN Nested
       ELSE /\ Lease
            /\ op' = [Begun(view) EXCEPT
                         !.arrays.count = Brackets[view],
                         !.buffer = IF Spills(view) THEN Heap ELSE NoBuffer,
                         !.size   = IF Spills(view) THEN OwnedSize(view) ELSE 0]
    /\ UNCHANGED <<iterator, caller>>

(* The allocation fails and the operation is ended again.                  *)
OperationRefused(view) ==
    /\ caller = "arena" /\ ~Active /\ Spills(view) /\ ~lease
    /\ generation' = NextGeneration
    /\ table' = IF Wraps THEN [table EXCEPT ![DefaultIndex] = Clear] ELSE table
    /\ UNCHANGED <<op, calls, lease, iterator, caller>>

(* Faulty variant: the lease is given back by whoever ends an operation. *)
EndedReleases(o) ==
    IF o.depth > 1 THEN op' = [o EXCEPT !.depth = @ - 1] /\ UNCHANGED lease
    ELSE op' = Idle /\ lease' = FALSE

Ended(o) ==
    IF o.depth > 1 THEN op' = [o EXCEPT !.depth = @ - 1] /\ UNCHANGED lease
    ELSE op' = Idle /\ lease' = (lease /\ ~o.owns)

OperationEnd ==
    /\ Returning("operation") /\ Return
    /\ Ended(op)
    /\ UNCHANGED <<table, generation, iterator, caller>>

(* shell_source_operation_suspend and _restore around a user callback.     *)
Suspend ==
    /\ caller = "index" /\ Active /\ Room
    /\ Call("callback", op)
    /\ op' = Idle
    /\ UNCHANGED <<table, lease, generation, iterator, caller>>

Restore ==
    /\ Returning("callback") /\ Return
    /\ op' = Last(calls).saved
    /\ UNCHANGED <<table, lease, generation, iterator, caller>>

Suspended == {calls[i].saved : i \in {j \in DOMAIN calls : calls[j].kind = "callback"}}

(* shell_source_operation_index: a graph binds its own index before it      *)
(* looks at the source, and lets the one of the thread go.                 *)
OperationIndex(index) ==
    /\ caller = "index" /\ op.depth = 1 /\ Returning("operation") /\ op.known = {}
    /\ \A o \in Suspended \cup {op} : o.index # index
    /\ lease' = (lease /\ ~op.owns)
    /\ table' = [table EXCEPT ![index] = Clear]
    /\ op' = [op EXCEPT !.owns = FALSE, !.index = index, !.generation = 1]
    /\ UNCHANGED <<calls, generation, iterator, caller>>

-------------------------------------------------------------------------------
(* The index.  Entries of another generation are free.  An entry that ends *)
(* before the body being read, starts after it, or was passed by the       *)
(* iterator of that body may be reused; the others are evicted only for a  *)
(* fact that spans as much.                                                *)

Expired(entry) ==
    \/ entry.value < op.scope.begin
    \/ entry.key > op.scope.end
    \/ entry.key >= op.scope.begin /\ entry.value <= op.scope.frontier

Free(slot)  == table[op.index][slot].generation # op.generation
Holds(slot, key, kind) ==
    ~Free(slot) /\ table[op.index][slot].key = key /\ table[op.index][slot].kind = kind

Slot(key, kind, probe) == (key + kind + probe) % Capacity

(* source_index_entry (at most one slot): the probe ends at a free slot or *)
(* at the fact itself, and only if the fact is not there is an expired     *)
(* entry passed on the way reused.                                         *)
EntrySlots(key, kind) ==
    LET slot(p)  == Slot(key, kind, p)
        ends     == {p \in 0..(Probes - 1) :
                        Free(slot(p)) \/ Holds(slot(p), key, kind)}
        end      == IF ends = {} THEN Probes ELSE Min(ends)
        reusable == {p \in 0..(end - 1) : Expired(table[op.index][slot(p)])}
    IN IF end < Probes /\ Holds(slot(end), key, kind) THEN {slot(end)}
       ELSE IF reusable # {} THEN {slot(Min(reusable))}
       ELSE IF end < Probes THEN {slot(end)} ELSE {}

(* shell_source_index_get *)
Known(key, kind) ==
    {table[op.index][s].value : s \in {t \in EntrySlots(key, kind) : Holds(t, key, kind)}}

Span(slot) == table[op.index][slot].value - table[op.index][slot].key

(* The first slot of the window among those with the smallest span.        *)
Smallest(key, kind) ==
    LET slot(p)  == Slot(key, kind, p)
        smallest == Min({Span(slot(p)) : p \in 0..(Probes - 1)})
    IN slot(Min({p \in 0..(Probes - 1) : Span(slot(p)) = smallest}))

(* shell_source_index_put *)
IndexPut(key, kind, value) ==
    /\ caller = "index" /\ Active /\ op.index # NoIndex
    /\ op.view[1] <= key /\ value <= op.view[2]
    /\ LET slots == IF EntrySlots(key, kind) # {} THEN EntrySlots(key, kind)
                    ELSE {s \in {Smallest(key, kind)} : value - key >= Span(s)}
       IN table' = [table EXCEPT ![op.index] =
                       [s \in DOMAIN @ |->
                           IF s \notin slots THEN @[s]
                           ELSE [key |-> key, kind |-> kind, value |-> value,
                                 generation |-> op.generation]]]
    /\ op' = [op EXCEPT !.known = {k \in @ : k[1] # key \/ k[2] # kind}
                                      \cup {<<key, kind, value>>}]
    /\ UNCHANGED <<calls, lease, generation, iterator, caller>>

(* shell_source_scope_begin, _end and _frontier *)
ScopeBegin(view) ==
    /\ caller = "index" /\ Active /\ Within(view, op.view) /\ Room
    /\ Call("scope", op.scope)
    /\ op' = [op EXCEPT !.scope = Entire(view)]
    /\ UNCHANGED <<table, lease, generation, iterator, caller>>

ScopeEnd ==
    /\ Returning("scope") /\ Return
    /\ op' = [op EXCEPT !.scope = Last(calls).saved]
    /\ UNCHANGED <<table, lease, generation, iterator, caller>>

ScopeFrontier(position) ==
    /\ caller = "index" /\ Active
    /\ position \in (op.scope.frontier + 1)..op.scope.end
    /\ op' = [op EXCEPT !.scope.frontier = position]
    /\ UNCHANGED <<calls, table, lease, generation, iterator, caller>>

-------------------------------------------------------------------------------
(* The arena. *)

Arena(o)    == IF o.buffer = NoBuffer THEN Scratch ELSE o.buffer
ArenaSize(o) == IF o.buffer = NoBuffer THEN ScratchSize ELSE o.size
Extent(buffer, from, length) ==
    [buffer |-> buffer, from |-> from, to |-> from + length]

(* source_workspace_begin: a view of the current one inherits its arena,   *)
(* and a buffer that is large enough, or retained, takes its place.        *)
Inherits(o, view) == Within(view, o.window)

Fresh(o, view) ==
    IF Inherits(o, view) THEN o
    ELSE [o EXCEPT !.exhausted = FALSE, !.buffer = NoBuffer, !.size = 0,
                   !.used = 0, !.window = view, !.arrays = NoArrays]

Replaces(o, view, buffer, retained) ==
    /\ buffer # NoBuffer /\ buffer # Fresh(o, view).buffer
    /\ retained \/ Size[buffer] > ScratchSize

Entered(o, view, buffer, retained) ==
    IF Replaces(o, view, buffer, retained)
    THEN [Fresh(o, view) EXCEPT !.buffer = buffer, !.size = Size[buffer],
                                !.used = 0, !.arrays = NoArrays]
    ELSE Fresh(o, view)

Previous(o, view, buffer, retained) ==
    [op |-> o, inherit |-> Inherits(o, view),
     share |-> Inherits(o, view) /\ ~Replaces(o, view, buffer, retained)]

(* Faulty variant: the size of the arena is restored, whoever reserved     *)
(* facts at its tail.                                                      *)
LeftResized(o, previous) ==
    [previous.op EXCEPT
        !.depth = o.depth,
        !.arrays = IF previous.share THEN o.arrays ELSE @,
        !.inline = IF previous.share THEN o.inline ELSE @,
        !.tails  = IF previous.share THEN o.tails ELSE @,
        !.exhausted = @ \/ (previous.inherit /\ o.exhausted)]

(* shell_source_workspace_end: blocks are given up, but facts reserved in  *)
(* an arena that was shared stay, and so does the size they leave.  The    *)
(* inline facts are put back only if there were any.                       *)
Left(o, previous) ==
    [previous.op EXCEPT
        !.depth = o.depth,
        !.size   = IF previous.share THEN o.size ELSE @,
        !.arrays = IF previous.share THEN o.arrays ELSE @,
        !.inline = IF /\ ~previous.share /\ previous.op.arrays.prepared
                      /\ previous.op.arrays.at = NoBuffer
                   THEN @ ELSE o.inline,
        !.tails  = IF previous.share THEN o.tails ELSE @,
        !.exhausted = @ \/ (previous.inherit /\ o.exhausted)]

(* A nested consumer brings no buffer, the current one or an unused one;   *)
(* one that reads a text of its own leaves no block in operation.scratch.  *)
InUse ==
    {o.buffer : o \in Suspended \cup {op}}
    \cup {calls[i].saved.op.buffer :
             i \in {j \in DOMAIN calls : calls[j].kind \in {"workspace", "iterator"}}}
    \cup (IF iterator.open THEN {iterator.buffer} ELSE {})

MayBring(view, buffer) ==
    IF Inherits(op, view) THEN buffer \in {NoBuffer, op.buffer} \/ buffer \notin InUse
    ELSE buffer = NoBuffer /\ \A block \in ToSet(op.front) : block.buffer # Scratch

WorkspaceBegin(view, buffer, retained) ==
    /\ caller = "arena" /\ Active /\ Room
    /\ buffer \in Buffers \cup {NoBuffer} /\ MayBring(view, buffer)
    /\ Call("workspace", Previous(op, view, buffer, retained))
    /\ op' = Entered(op, view, buffer, retained)
    /\ UNCHANGED <<table, lease, generation, iterator, caller>>

WorkspaceEnd ==
    /\ Returning("workspace") /\ Return
    /\ op' = Left(op, Last(calls).saved)
    /\ UNCHANGED <<table, lease, generation, iterator, caller>>

(* shell_source_scratch_take; a refusal is remembered.                     *)
Take(size) ==
    /\ caller = "arena" /\ Active
    /\ op' = IF size > ArenaSize(op) - op.used
             THEN [op EXCEPT !.exhausted = TRUE]
             ELSE [op EXCEPT !.used = @ + size,
                             !.front = Append(@, Extent(Arena(op), op.used, size))]
    /\ UNCHANGED <<calls, table, lease, generation, iterator, caller>>

(* shell_source_scratch_release, to a mark that this call has taken.       *)
Taken ==
    {i \in DOMAIN op.front : i > Last(calls).before /\ op.front[i].buffer = Arena(op)}

Release(mark) ==
    /\ caller = "arena" /\ Active /\ mark \in Taken
    /\ op' = [op EXCEPT !.used = op.front[mark].from,
                        !.front = SubSeq(@, 1, mark - 1)]
    /\ UNCHANGED <<calls, table, lease, generation, iterator, caller>>

(* source_array_index_prepare, at the first array candidate of the view.   *)
ArrayFacts ==
    LET count == IF op.arrays.count # 0 THEN op.arrays.count ELSE Brackets[op.window]
        need  == count * FactSize
        out   == count > InlineArrays \/ op.buffer # NoBuffer
        fits  == op.buffer # NoBuffer /\ need <= op.size - op.used
    IN /\ caller = "arena" /\ Active
       /\ ~op.arrays.prepared /\ Brackets[op.window] > 0
       /\ op' = IF ~out
                THEN [op EXCEPT !.arrays = [prepared |-> TRUE, count |-> count,
                                            at |-> NoBuffer],
                                !.inline = op.window]
                ELSE IF ~fits
                THEN [op EXCEPT !.arrays = [prepared |-> TRUE, count |-> count,
                                            at |-> NoBuffer],
                                !.exhausted = TRUE]
                ELSE [op EXCEPT !.arrays = [prepared |-> TRUE, count |-> count,
                                            at |-> op.buffer],
                                !.size = @ - need,
                                !.tails = Append(@, Extent(op.buffer, op.size - need, need))]
       /\ UNCHANGED <<calls, table, lease, generation, iterator, caller>>

-------------------------------------------------------------------------------
(* A public iterator: every call is an operation of its own, and what the  *)
(* calls share is kept at the tail of the workspace.                       *)

Advancing == \E i \in DOMAIN calls : calls[i].kind = "iterator"

(* shell_source_iterator_begin and _end with initialize: the workspace is   *)
(* dropped if it is small or the iterator an internal one.                 *)
IteratorInit(view, buffer) ==
    /\ caller = "arena" /\ ~Active /\ Room /\ ~Advancing
    /\ ~iterator.open /\ buffer \in Buffers \ InUse
    /\ Size[buffer] > ScratchSize + RecordSize
    /\ LET record == Extent(buffer, Size[buffer] - RecordSize, RecordSize)
           begun  == Begun(view)
       IN /\ Call("iterator", Previous(begun, view, buffer, FALSE))
          /\ op' = [Entered(begun, view, buffer, FALSE) EXCEPT
                       !.size = @ - RecordSize, !.tails = <<record>>]
          /\ iterator' = [open |-> TRUE, view |-> view, buffer |-> buffer]
    /\ Lease
    /\ UNCHANGED caller

(* The iterators that parsers advance inside an operation have no workspace *)
(* (they are initialised without limits): an advance of theirs is           *)
(* OperationBegin and WorkspaceBegin with NoBuffer.                         *)
IteratorNext ==
    /\ caller = "arena" /\ ~Active /\ Room /\ ~Advancing /\ iterator.open
    /\ LET begun == Begun(iterator.view) IN
          /\ Call("iterator",
                  Previous(begun, iterator.view, iterator.buffer, FALSE))
          /\ op' = [Entered(begun, iterator.view, iterator.buffer, FALSE) EXCEPT
                       !.size = iterator.size, !.arrays = iterator.arrays,
                       !.tails = iterator.tails]
    /\ Lease
    /\ UNCHANGED <<iterator, caller>>

IteratorEnd ==
    /\ Returning("iterator") /\ Return
    /\ iterator' = [open |-> TRUE, view |-> iterator.view, buffer |-> iterator.buffer,
                    size |-> op.size, tails |-> op.tails,
                    arrays |-> IF op.arrays.at = NoBuffer THEN NoArrays ELSE op.arrays]
    /\ Ended(Left(op, Last(calls).saved))
    /\ UNCHANGED <<table, generation, caller>>

(* The caller is done with its iterator and its workspace. *)
IteratorDrop ==
    /\ iterator.open /\ ~Advancing
    /\ iterator' = [open |-> FALSE]
    /\ UNCHANGED <<op, calls, table, lease, generation, caller>>

-------------------------------------------------------------------------------
Addresses(view) == view[1]..view[2]

Next ==
    \/ \E view \in Roots : OperationBegin(view) \/ OperationBeginOwned(view)
                               \/ OperationRefused(view)
    \/ OperationEnd \/ Suspend \/ Restore
    \/ \E index \in OwnIndexes : OperationIndex(index)
    \/ \E key \in Addresses(op.view), kind \in Kinds :
           \E value \in key..op.view[2] : IndexPut(key, kind, value)
    \/ \E view \in Parts : ScopeBegin(view)
    \/ ScopeEnd \/ \E position \in Addresses(op.view) : ScopeFrontier(position)
    \/ \E view \in Roots \cup Parts, retained \in BOOLEAN :
           \E buffer \in Buffers \cup {NoBuffer} : WorkspaceBegin(view, buffer, retained)
    \/ WorkspaceEnd
    \/ \E size \in Takes : Take(size)
    \/ \E mark \in Taken : Release(mark)
    \/ ArrayFacts
    \/ \E view \in Roots, buffer \in Buffers : IteratorInit(view, buffer)
    \/ IteratorNext \/ IteratorEnd \/ IteratorDrop

Spec == Init /\ [][Next]_vars

-------------------------------------------------------------------------------
(* The index only answers with what this operation has put last for that   *)
(* place and kind: not with a fact of an earlier operation whose generation *)
(* came round again, of a callback, or one that was replaced meanwhile.    *)
IndexFresh ==
    Active /\ op.index # NoIndex =>
        \A key \in Addresses(op.view), kind \in Kinds :
            \A value \in Known(key, kind) : <<key, kind, value>> \in op.known

(* The index of the thread has one user at a time, whatever callbacks run  *)
(* in between, and when the last call has returned it is free again.       *)
LeaseExact ==
    LET callbacks == {i \in DOMAIN calls : calls[i].kind = "callback"}
        users == {i \in callbacks : calls[i].saved.index = DefaultIndex}
                 \cup (IF op.index = DefaultIndex THEN {0} ELSE {})
    IN /\ Cardinality(users) = IF lease THEN 1 ELSE 0
       /\ calls = <<>> => ~Active /\ ~lease

Capacities(buffer) ==
    CASE buffer = Scratch -> ScratchSize
      [] buffer = Heap    -> OwnedSize(op.view)
      [] OTHER            -> Size[buffer]

Apart(a, b) == a.buffer # b.buffer \/ a.to <= b.from \/ b.to <= a.from

(* Everything the arena has given out stays intact until it is given up:   *)
(* the extents in use lie in their buffer and none overlaps another, over  *)
(* nested consumers, iterator calls and marks, and the array facts at hand *)
(* are those of the view being read.                                       *)
ArenaIntact ==
    LET live == op.front \o op.tails IN
    /\ \A i \in DOMAIN live : live[i].to <= Capacities(live[i].buffer)
    /\ \A i, j \in DOMAIN live : i # j => Apart(live[i], live[j])
    /\ op.arrays.prepared /\ ~op.exhausted =>
          IF op.arrays.at = NoBuffer THEN op.inline = op.window
          ELSE \E i \in DOMAIN op.tails :
                  /\ op.tails[i].buffer = op.buffer /\ op.arrays.at = op.buffer
                  /\ op.tails[i].from = op.size
===============================================================================
