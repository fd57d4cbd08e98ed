------------------------------- MODULE PolicyCtx -------------------------------
(***************************************************************************)
(* A policy context shared by several policies (shelltype/src/policy_ctx.c *)
(* and its users in policy.c): reference counting, string interning, and   *)
(* the two operations that replace the string storage under a live         *)
(* context, reset and compaction.                                          *)
(*                                                                         *)
(* A generation stands for one string pool with its chunks.  Policies keep *)
(* raw pointers into the generation current when they interned; freeing it *)
(* leaves them dangling.  Every policy has its own lock, so operations of  *)
(* different policies interleave at each access to the context; operations *)
(* that mutate one policy are serialised by its callers.                   *)
(***************************************************************************)
EXTENDS Integers, FiniteSets

CONSTANTS
    Policies,           \* policy handles
    MaxCallers,         \* bound on references held outside policies
    MaxGen,             \* bound on storage replacements
    CallerMayRelease    \* callers drop their last reference under live policies

ASSUME CtxAssumption ==
    /\ IsFiniteSet(Policies)
    /\ MaxCallers \in Nat \ {0} /\ MaxGen \in Nat
    /\ CallerMayRelease \in BOOLEAN

VARIABLES
    refcount,   \* ctx->refcount; 0 once the context is destroyed
    callers,    \* references held by callers
    live,       \* policies that exist
    staging,    \* policies whose batch holds a staged policy on the context
    checked,    \* policies in st_policy_compact, past the exclusivity check
    gen,        \* current string storage
    freed,      \* storages freed
    strings,    \* policy -> storages its patterns point into
    fresh       \* policy -> storages its staged replacement points into

vars == <<refcount, callers, live, staging, checked, gen, freed, strings, fresh>>

TypeOK ==
    /\ refcount \in Nat /\ callers \in Nat /\ gen \in Nat
    /\ live \subseteq Policies /\ staging \subseteq Policies
    /\ checked \subseteq Policies
    /\ freed \subseteq Nat
    /\ strings \in [Policies -> SUBSET Nat]
    /\ fresh \in [Policies -> SUBSET Nat]

(* st_policy_ctx_new *)
Init ==
    /\ refcount = 1 /\ callers = 1
    /\ live = {} /\ staging = {} /\ checked = {}
    /\ gen = 0 /\ freed = {}
    /\ strings = [p \in Policies |-> {}]
    /\ fresh = [p \in Policies |-> {}]

(* Faulty variant: the context goes with the last reference but one. *)
ReleaseEarly ==
    /\ refcount' = refcount - 1
    /\ freed' = IF refcount = 2 THEN freed \cup {gen} ELSE freed

(* st_policy_ctx_release: the last reference destroys the context. *)
Release ==
    /\ refcount' = refcount - 1
    /\ freed' = IF refcount = 1 THEN freed \cup {gen} ELSE freed

Idle(p) == p \in live /\ p \notin staging /\ p \notin checked

CallerRetain ==
    /\ callers > 0 /\ callers < MaxCallers
    /\ callers' = callers + 1 /\ refcount' = refcount + 1
    /\ UNCHANGED <<live, staging, checked, gen, freed, strings, fresh>>

CallerRelease ==
    /\ callers > 0
    /\ CallerMayRelease \/ callers > 1 \/ live = {}
    /\ callers' = callers - 1
    /\ Release
    /\ UNCHANGED <<live, staging, checked, gen, strings, fresh>>

(* Swap the storage for an empty one and free the old one. *)
ReplaceStorage ==
    /\ gen < MaxGen
    /\ gen' = gen + 1
    /\ freed' = freed \cup {gen}

(* st_policy_ctx_reset *)
Reset ==
    /\ callers > 0
    /\ refcount = 1
    /\ ReplaceStorage
    /\ UNCHANGED <<refcount, callers, live, staging, checked, strings, fresh>>

(* st_policy_new, by a caller that holds a reference *)
New(p) ==
    /\ callers > 0 /\ p \notin live
    /\ live' = live \cup {p} /\ refcount' = refcount + 1
    /\ UNCHANGED <<callers, staging, checked, gen, freed, strings, fresh>>

(* st_policy_free *)
Free(p) ==
    /\ Idle(p)
    /\ live' = live \ {p}
    /\ strings' = [strings EXCEPT ![p] = {}]
    /\ Release
    /\ UNCHANGED <<callers, staging, checked, gen, fresh>>

(* st_policy_add interns the texts of its rule. *)
Intern(p) ==
    /\ Idle(p)
    /\ strings' = [strings EXCEPT ![p] = @ \cup {gen}]
    /\ UNCHANGED <<refcount, callers, live, staging, checked, gen, freed, fresh>>

(* A batch or a load creates a second policy on the same context, fills it *)
(* and swaps it with the live one, or drops it; freeing what is left       *)
(* releases its reference.                                                 *)
BatchBegin(p) ==
    /\ Idle(p)
    /\ staging' = staging \cup {p} /\ refcount' = refcount + 1
    /\ UNCHANGED <<callers, live, checked, gen, freed, strings, fresh>>

BatchIntern(p) ==
    /\ p \in staging
    /\ fresh' = [fresh EXCEPT ![p] = @ \cup {gen}]
    /\ UNCHANGED <<refcount, callers, live, staging, checked, gen, freed, strings>>

BatchEndKeeps(p) ==         \* faulty variant: the reference is not released
    /\ p \in staging
    /\ staging' = staging \ {p}
    /\ strings' \in {strings, [strings EXCEPT ![p] = fresh[p]]}
    /\ fresh' = [fresh EXCEPT ![p] = {}]
    /\ UNCHANGED <<refcount, callers, live, checked, gen, freed>>

BatchEnd(p) ==
    /\ p \in staging
    /\ staging' = staging \ {p}
    /\ strings' \in {strings, [strings EXCEPT ![p] = fresh[p]]}
    /\ fresh' = [fresh EXCEPT ![p] = {}]
    /\ Release
    /\ UNCHANGED <<callers, live, checked, gen>>

(* st_policy_compact: st_policy_ctx_is_exclusive is asked before the       *)
(* policy is locked; the replacement is built on a context of its own.     *)
CompactCheck(p) ==
    /\ Idle(p) /\ strings[p] # {}
    /\ refcount = 2
    /\ checked' = checked \cup {p}
    /\ UNCHANGED <<refcount, callers, live, staging, gen, freed, strings, fresh>>

CompactSwapUnchecked(p) ==  \* faulty variant: does not ask again
    /\ p \in checked
    /\ ReplaceStorage
    /\ strings' = [strings EXCEPT ![p] = {gen'}]
    /\ checked' = checked \ {p}
    /\ UNCHANGED <<refcount, callers, live, staging, fresh>>

(* st_policy_ctx_swap_storage asks again under the context lock; then the  *)
(* policy takes the rebuilt rules and the old storage is freed.            *)
CompactSwap(p) ==
    /\ p \in checked
    /\ refcount = 2
    /\ ReplaceStorage
    /\ strings' = [strings EXCEPT ![p] = {gen'}]
    /\ checked' = checked \ {p}
    /\ UNCHANGED <<refcount, callers, live, staging, fresh>>

(* ST_ERR_INVALID from the second check, or a failure to build. *)
CompactAbort(p) ==
    /\ p \in checked
    /\ checked' = checked \ {p}
    /\ UNCHANGED <<refcount, callers, live, staging, gen, freed, strings, fresh>>

Next ==
    \/ CallerRetain \/ CallerRelease \/ Reset
    \/ \E p \in Policies :
           \/ New(p) \/ Free(p) \/ Intern(p)
           \/ BatchBegin(p) \/ BatchIntern(p) \/ BatchEnd(p)
           \/ CompactCheck(p) \/ CompactSwap(p) \/ CompactAbort(p)

Spec == Init /\ [][Next]_vars

-------------------------------------------------------------------------------
(* Every reference is accounted for by a caller, a policy or a staged      *)
(* policy: a lost release would make every later reset and compaction fail.*)
RefcountExact == refcount = callers + Cardinality(live) + Cardinality(staging)

(* No policy, nor a replacement being built for one, ever points into a    *)
(* string storage that has been freed.                                     *)
NoDangling ==
    \A p \in live : (strings[p] \cup fresh[p]) \cap freed = {}

(* The context is destroyed with its last user, no earlier and no later:   *)
(* the current storage is freed exactly when nobody holds a reference.     *)
DestroyedWithLastUser ==
    gen \in freed <=> callers = 0 /\ live = {} /\ staging = {}

(* st_policy_compact "requires exclusive use of the context (no other      *)
(* policies sharing the same context). If the context is shared,           *)
(* ST_ERR_INVALID is returned." (policy.c:1975)                            *)
CompactRefusesShared ==
    [][\A p \in Policies : CompactSwap(p) => live = {p} /\ staging = {}]_vars
===============================================================================
