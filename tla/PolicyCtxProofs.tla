---------------------------- MODULE PolicyCtxProofs ----------------------------
(***************************************************************************)
(* The context protocol is safe for any number of policies, provided a     *)
(* caller keeps a reference while policies are alive: the reading of       *)
(* "refcount == 2" in st_policy_ctx_is_exclusive.                          *)
(***************************************************************************)
EXTENDS PolicyCtx, FiniteSetTheorems, TLAPS

(* References are counted exactly, the storage in use is the current one,  *)
(* and it is freed only when the count has dropped to zero.                *)
IInv ==
    /\ TypeOK
    /\ RefcountExact
    /\ staging \subseteq live /\ checked \subseteq live
    /\ staging \cap checked = {}
    /\ live # {} => callers > 0
    /\ freed \subseteq 0..gen
    /\ gen \in freed <=> refcount = 0
    /\ \A p \in Policies : strings[p] \subseteq {gen} /\ fresh[p] \subseteq {gen}
    /\ \A p \in Policies \ live : strings[p] = {}
    /\ \A p \in Policies \ staging : fresh[p] = {}

(* Sizes of the sets of policies, with one policy more or less.            *)
LEMMA PolicySets ==
    ASSUME NEW S \in SUBSET Policies
    PROVE  /\ IsFiniteSet(S) /\ Cardinality(S) \in Nat
           /\ Cardinality(S) = 0 <=> S = {}
           /\ \A p \in Policies :
                  /\ p \notin S => Cardinality(S \cup {p}) = Cardinality(S) + 1
                  /\ p \in S => Cardinality(S \ {p}) = Cardinality(S) - 1
<1>1. IsFiniteSet(S)
  BY CtxAssumption, FS_Subset
<1>2. Cardinality(S) \in Nat /\ (Cardinality(S) = 0 <=> S = {})
  BY <1>1, FS_CardinalityType, FS_EmptySet
<1>3. \A p \in Policies : p \notin S => Cardinality(S \cup {p}) = Cardinality(S) + 1
  BY <1>1, FS_AddElement
<1>4. \A p \in Policies : p \in S => Cardinality(S \ {p}) = Cardinality(S) - 1
  BY <1>1, FS_RemoveElement
<1> QED BY <1>1, <1>2, <1>3, <1>4

(* Two references, one of them a caller's, leave room for one policy only. *)
LEMMA TwoReferences ==
    ASSUME IInv, NEW p \in live, refcount = 2
    PROVE  live = {p} /\ staging = {}
<1>1. callers \in Nat /\ callers > 0
  BY DEF IInv, TypeOK
<1>2. live \in SUBSET Policies /\ staging \in SUBSET Policies /\ p \in Policies
  BY DEF IInv, TypeOK
<1>3. /\ Cardinality(live) \in Nat /\ Cardinality(staging) \in Nat
      /\ Cardinality(live) # 0
      /\ Cardinality(live \ {p}) = Cardinality(live) - 1
  BY <1>2, PolicySets
<1>4. Cardinality(live) + Cardinality(staging) + callers = 2
  BY <1>1, <1>3 DEF IInv, RefcountExact
<1>5. Cardinality(live \ {p}) = 0 /\ Cardinality(staging) = 0
  BY <1>1, <1>3, <1>4
<1>6. live \ {p} \in SUBSET Policies
  BY <1>2
<1>7. live \ {p} = {} /\ staging = {}
  BY <1>2, <1>5, <1>6, PolicySets
<1> QED BY <1>7

(* One reference, a caller's, leaves room for no policy.                   *)
LEMMA OneReference ==
    ASSUME IInv, callers > 0, refcount = 1
    PROVE  live = {} /\ staging = {}
<1>1. callers \in Nat /\ live \in SUBSET Policies /\ staging \in SUBSET Policies
  BY DEF IInv, TypeOK
<1>2. Cardinality(live) \in Nat /\ Cardinality(staging) \in Nat
  BY <1>1, PolicySets
<1>3. Cardinality(live) = 0 /\ Cardinality(staging) = 0
  BY <1>1, <1>2 DEF IInv, RefcountExact
<1> QED BY <1>1, <1>3, PolicySets

(* st_policy_ctx_new establishes the invariant.                            *)
LEMMA InitIInv == Init => IInv
<1> SUFFICES ASSUME Init PROVE IInv
  OBVIOUS
<1>1. Cardinality({}) = 0
  BY FS_EmptySet
<1> QED BY <1>1 DEF Init, IInv, TypeOK, RefcountExact

(* Every step that takes or drops a reference, moves the storage, or       *)
(* interns a text keeps the invariant.                                     *)
LEMMA NextIInv ==
    ASSUME ~CallerMayRelease, IInv, [Next]_vars
    PROVE  IInv'
<1> USE DEF IInv, TypeOK, RefcountExact
<1>0. /\ live \in SUBSET Policies /\ staging \in SUBSET Policies
      /\ Cardinality(live) \in Nat /\ Cardinality(staging) \in Nat
      /\ Cardinality(live) = 0 <=> live = {}
      /\ Cardinality(staging) = 0 <=> staging = {}
  BY PolicySets
<1>1. CASE CallerRetain
  BY <1>0, <1>1 DEF CallerRetain
<1>2. CASE CallerRelease
  <2>1. callers > 0 /\ callers \in Nat /\ refcount \in Nat
    BY <1>2 DEF CallerRelease
  <2>2. refcount > 0 /\ callers' \in Nat /\ refcount' \in Nat
    BY <1>0, <1>2, <2>1 DEF CallerRelease, Release
  <2>3. live # {} => callers' > 0
    BY <1>2, <2>1 DEF CallerRelease
  <2>4. RefcountExact'
    BY <1>0, <1>2, <2>1 DEF CallerRelease, Release
  <2>5. freed' \subseteq 0..gen /\ (gen \in freed' <=> refcount' = 0)
    BY <1>2, <2>2 DEF CallerRelease, Release
  <2> QED BY <1>2, <2>2, <2>3, <2>4, <2>5 DEF CallerRelease
<1>3. CASE Reset
  BY <1>0, <1>3, OneReference DEF Reset, ReplaceStorage
<1>4. ASSUME NEW p \in Policies, New(p) PROVE IInv'
  <2>1. Cardinality(live') = Cardinality(live) + 1
    BY <1>0, <1>4, PolicySets DEF New
  <2> QED BY <1>0, <1>4, <2>1 DEF New
<1>5. ASSUME NEW p \in Policies, Free(p) PROVE IInv'
  <2>1. Cardinality(live') = Cardinality(live) - 1
    BY <1>0, <1>5, PolicySets DEF Free, Idle
  <2>2. live # {} /\ p \notin staging /\ p \notin checked
    BY <1>5 DEF Free, Idle
  <2> QED BY <1>0, <1>5, <2>1, <2>2 DEF Free, Release
<1>6. ASSUME NEW p \in Policies, Intern(p) PROVE IInv'
  BY <1>0, <1>6 DEF Intern, Idle
<1>7. ASSUME NEW p \in Policies, BatchBegin(p) PROVE IInv'
  <2>1. Cardinality(staging') = Cardinality(staging) + 1
    BY <1>0, <1>7, PolicySets DEF BatchBegin, Idle
  <2> QED BY <1>0, <1>7, <2>1 DEF BatchBegin, Idle
<1>8. ASSUME NEW p \in Policies, BatchIntern(p) PROVE IInv'
  BY <1>0, <1>8 DEF BatchIntern
<1>9. ASSUME NEW p \in Policies, BatchEnd(p) PROVE IInv'
  <2>1. Cardinality(staging') = Cardinality(staging) - 1
    BY <1>0, <1>9, PolicySets DEF BatchEnd
  <2>2. live # {} /\ callers > 0
    BY <1>9 DEF BatchEnd
  <2> QED BY <1>0, <1>9, <2>1, <2>2 DEF BatchEnd, Release
<1>10. ASSUME NEW p \in Policies, CompactCheck(p) PROVE IInv'
  BY <1>0, <1>10 DEF CompactCheck, Idle
<1>11. ASSUME NEW p \in Policies, CompactSwap(p) PROVE IInv'
  <2>1. live = {p} /\ staging = {}
    BY <1>11, TwoReferences DEF CompactSwap
  <2> QED BY <1>0, <1>11, <2>1 DEF CompactSwap, ReplaceStorage
<1>12. ASSUME NEW p \in Policies, CompactAbort(p) PROVE IInv'
  BY <1>0, <1>12 DEF CompactAbort
<1>13. CASE UNCHANGED vars
  BY <1>13 DEF vars
<1> QED
  BY <1>1, <1>2, <1>3, <1>4, <1>5, <1>6, <1>7, <1>8, <1>9, <1>10, <1>11, <1>12,
     <1>13 DEF Next

(* The invariant holds throughout.                                         *)
THEOREM Invariance ==
    ASSUME ~CallerMayRelease
    PROVE  Spec => []IInv
<1>1. IInv /\ [Next]_vars => IInv'
  BY NextIInv
<1> QED BY InitIInv, <1>1, PTL DEF Spec

(* References are counted exactly.                                         *)
THEOREM CountExact ==
    ASSUME ~CallerMayRelease
    PROVE  Spec => []RefcountExact
<1>1. IInv => RefcountExact
  BY DEF IInv
<1> QED BY <1>1, Invariance, PTL

(* No policy ever points into freed string storage.                        *)
THEOREM NeverDangling ==
    ASSUME ~CallerMayRelease
    PROVE  Spec => []NoDangling
<1>1. IInv => NoDangling
  <2> SUFFICES ASSUME IInv, NEW p \in live
               PROVE  (strings[p] \cup fresh[p]) \cap freed = {}
    BY DEF NoDangling
  <2>1. callers \in Nat /\ callers > 0 /\ p \in Policies
    BY DEF IInv, TypeOK
  <2>2. Cardinality(live) \in Nat /\ Cardinality(staging) \in Nat
    BY PolicySets DEF IInv, TypeOK
  <2>3. refcount # 0
    BY <2>1, <2>2 DEF IInv, RefcountExact
  <2> QED BY <2>1, <2>3 DEF IInv
<1> QED BY <1>1, Invariance, PTL

(* The context is destroyed exactly when its last user lets go.            *)
THEOREM DestroyedOnTime ==
    ASSUME ~CallerMayRelease
    PROVE  Spec => []DestroyedWithLastUser
<1>1. IInv => DestroyedWithLastUser
  <2> SUFFICES ASSUME IInv PROVE DestroyedWithLastUser
    OBVIOUS
  <2>1. /\ callers \in Nat
        /\ Cardinality(live) \in Nat /\ Cardinality(staging) \in Nat
        /\ Cardinality(live) = 0 <=> live = {}
        /\ Cardinality(staging) = 0 <=> staging = {}
    BY PolicySets DEF IInv, TypeOK
  <2> DEFINE L == Cardinality(live)
             S == Cardinality(staging)
  <2>2. refcount = callers + L + S /\ L \in Nat /\ S \in Nat
    BY <2>1 DEF IInv, RefcountExact
  <2> HIDE DEF L, S
  <2>4. refcount = 0 <=> callers = 0 /\ L = 0 /\ S = 0
    BY <2>1, <2>2
  <2>5. refcount = 0 <=> callers = 0 /\ live = {} /\ staging = {}
    BY <2>1, <2>4 DEF L, S
  <2>3. gen \in freed <=> refcount = 0
    BY DEF IInv
  <2> QED BY <2>3, <2>5 DEF DestroyedWithLastUser
<1> QED BY <1>1, Invariance, PTL

(* A compaction replaces the storage only of a context it has to itself.   *)
THEOREM CompactsAlone ==
    ASSUME ~CallerMayRelease
    PROVE  Spec => CompactRefusesShared
<1>1. IInv /\ [Next]_vars =>
        [\A p \in Policies : CompactSwap(p) => live = {p} /\ staging = {}]_vars
  BY TwoReferences DEF IInv, CompactSwap
<1> QED BY <1>1, Invariance, PTL DEF Spec, CompactRefusesShared
===============================================================================
