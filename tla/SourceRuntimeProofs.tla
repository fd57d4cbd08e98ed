--------------------------- MODULE SourceRuntimeProofs ---------------------------
(***************************************************************************)
(* Theorems about the per-thread operation of SourceRuntime, and their     *)
(* proofs: the index of the thread has one user at a time, no index        *)
(* answers with a fact its operation did not put last, and the arena keeps *)
(* what it has given out intact until it is given up.                      *)
(***************************************************************************)
EXTENDS SourceRuntime, FiniteSetTheorems, NaturalsInduction, TLAPS

OpFields == {"depth", "view", "scope", "index", "generation", "owns", "known",
             "buffer", "window", "size", "used", "exhausted", "arrays",
             "inline", "front", "tails"}

IsOp(o)   == o = [f \in OpFields |-> o[f]]
Listed(s) == s \in Seq(ToSet(s))

(* The calls in progress that belong to the operation at hand: those since *)
(* the last callback.                                                      *)
Opens(kind)  == kind \in {"operation", "iterator"}
Opened(s, n) == {i \in 1..n : /\ Opens(s[i].kind)
                              /\ \A j \in i..n : s[j].kind # "callback"}

SameOwner(o, p) ==
    /\ o.index = p.index /\ o.generation = p.generation
    /\ o.owns = p.owns /\ o.known = p.known /\ o.view = p.view

(* What a call restores when it returns.                                   *)
Frame(s, i, o, c) ==
    /\ s[i].kind \in {"operation", "iterator", "callback", "scope", "workspace"}
    /\ s[i].kind = "callback" =>
           /\ c = "index" /\ IsOp(s[i].saved) /\ s[i].saved.depth > 0
           /\ s[i].saved.depth = Cardinality(Opened(s, i - 1))
    /\ s[i].kind = "scope" => c = "index"
    /\ s[i].kind \in {"scope", "workspace"} => Cardinality(Opened(s, i - 1)) > 0
    /\ s[i].kind \in {"workspace", "iterator"} =>
           c = "arena" /\ IsOp(s[i].saved.op) /\ SameOwner(s[i].saved.op, o)
    /\ s[i].kind = "iterator" => i = 1

Nesting(s, o, c) ==
    /\ Listed(s) /\ IsOp(o) /\ c \in {"index", "arena"}
    /\ \A i \in DOMAIN s : Frame(s, i, o, c)
    /\ o.depth = Cardinality(Opened(s, Len(s)))
    /\ o.depth = 0 => o = Idle
    /\ c = "arena" /\ s # <<>> => Opens(s[1].kind)

(* The operations of the thread: the current one, at place 0, and those    *)
(* suspended by a callback.                                                *)
Places(s)   == {0} \cup {i \in DOMAIN s : s[i].kind = "callback"}
At(s, o, x) == IF x = 0 THEN o ELSE s[x].saved

Owner(o) ==
    /\ o.index \in OwnIndexes \cup {DefaultIndex, NoIndex}
    /\ o.owns \in BOOLEAN /\ (o.owns <=> o.index = DefaultIndex)
    /\ o.view \in Roots \cup {NoView}

Ownership(s, o, l) ==
    /\ l \in BOOLEAN
    /\ \A x \in Places(s) : Owner(At(s, o, x))
    /\ \A x, y \in Places(s) :
           At(s, o, x).index = At(s, o, y).index
           /\ At(s, o, x).index # NoIndex => x = y
    /\ l <=> \E x \in Places(s) : At(s, o, x).index = DefaultIndex

(* Every entry of the generation was put last for its fact, and a probe    *)
(* from the home of the fact reaches it.                                   *)
Slots == 0..(Capacity - 1)
Entry == [key : Nat, kind : Nat, value : Nat, generation : Nat]

Sound(T, gen, known) ==
    \A s \in Slots : T[s].generation = gen =>
        /\ <<T[s].key, T[s].kind, T[s].value>> \in known
        /\ \E p \in 0..(Probes - 1) :
               /\ s = Slot(T[s].key, T[s].kind, p)
               /\ \A q \in 0..(p - 1) :
                      LET t == Slot(T[s].key, T[s].kind, q) IN
                      /\ T[t].generation = gen
                      /\ T[t].key # T[s].key \/ T[t].kind # T[s].kind

Tables(tab) ==
    /\ tab \in [OwnIndexes \cup {DefaultIndex} -> [Slots -> Entry]]
    /\ \A i \in OwnIndexes \cup {DefaultIndex} :
           \A n \in Slots : tab[i][n].key <= tab[i][n].value

Freshness(s, o, tab, gen) ==
    /\ Tables(tab) /\ gen \in Nat
    /\ \A n \in Slots : tab[DefaultIndex][n].generation <= gen
    /\ \A x \in Places(s) : At(s, o, x).index # NoIndex =>
           /\ At(s, o, x).generation \in Nat \ {0}
           /\ At(s, o, x).index = DefaultIndex => At(s, o, x).generation = gen
           /\ Sound(tab[At(s, o, x).index], At(s, o, x).generation,
                    At(s, o, x).known)

OwnerInv ==
    /\ Nesting(calls, op, caller)
    /\ Ownership(calls, op, lease)
    /\ Freshness(calls, op, table, generation)

(* An iterator that is open, or advancing, is one of a root.               *)
IteratorKept == iterator.open \/ Advancing => iterator.view \in Roots

IInv == OwnerInv /\ IteratorKept

-------------------------------------------------------------------------------
(* A push and a pop, as functions. *)
LEMMA PushList ==
    ASSUME NEW s, Listed(s), NEW f
    PROVE  /\ Listed(Append(s, f)) /\ Len(s) \in Nat
           /\ DOMAIN s = 1..Len(s)
           /\ Len(Append(s, f)) = Len(s) + 1
           /\ DOMAIN Append(s, f) = 1..(Len(s) + 1)
           /\ \A i \in 1..Len(s) : Append(s, f)[i] = s[i]
           /\ Append(s, f)[Len(s) + 1] = f
           /\ Append(s, f) # <<>>
<1> DEFINE A == ToSet(s) \cup {f}
<1>1. s \in Seq(A)
  BY DEF Listed
<1>2. Len(s) \in Nat /\ DOMAIN s = 1..Len(s)
  BY <1>1
<1>3. /\ Append(s, f) \in Seq(A) /\ Len(Append(s, f)) = Len(s) + 1
      /\ \A i \in 1..Len(s) : Append(s, f)[i] = s[i]
      /\ Append(s, f)[Len(s) + 1] = f
  BY <1>1
<1>4. DOMAIN Append(s, f) = 1..(Len(s) + 1)
  BY <1>3, <1>2
<1>5. \A i \in 1..(Len(s) + 1) : Append(s, f)[i] \in ToSet(Append(s, f))
  BY <1>4 DEF ToSet
<1>6. A \subseteq ToSet(Append(s, f))
  BY <1>2, <1>3, <1>5 DEF ToSet
<1>7. Append(s, f) \in Seq(ToSet(Append(s, f)))
  BY <1>3, <1>6
<1>8. Append(s, f) # <<>>
  BY <1>2, <1>4
<1> QED
  BY <1>2, <1>3, <1>4, <1>7, <1>8 DEF Listed

LEMMA PopList ==
    ASSUME NEW s, Listed(s), s # <<>>
    PROVE  /\ Listed(Front(s)) /\ Len(s) \in Nat \ {0}
           /\ DOMAIN s = 1..Len(s)
           /\ Len(Front(s)) = Len(s) - 1
           /\ DOMAIN Front(s) = 1..(Len(s) - 1)
           /\ \A i \in 1..(Len(s) - 1) : Front(s)[i] = s[i]
           /\ Last(s) = s[Len(s)]
<1>1. Len(s) \in Nat \ {0} /\ DOMAIN s = 1..Len(s)
  BY DEF Listed
<1>2. Front(s) = [i \in 1..(Len(s) - 1) |-> s[i]]
  BY <1>1 DEF Front, Listed
<1>3. Front(s) \in Seq(ToSet(Front(s))) /\ Len(Front(s)) = Len(s) - 1
  BY <1>1, <1>2 DEF ToSet
<1> QED
  BY <1>1, <1>2, <1>3 DEF Listed, Last

(* What is open depends on the kinds alone, and grows by one call at a time. *)
LEMMA OpenedSame ==
    ASSUME NEW s, NEW t, NEW n \in Nat, \A i \in 1..n : s[i].kind = t[i].kind
    PROVE  Opened(s, n) = Opened(t, n)
BY DEF Opened

LEMMA OpenedFinite ==
    ASSUME NEW s, NEW n \in Nat
    PROVE  /\ IsFiniteSet(Opened(s, n)) /\ Cardinality(Opened(s, n)) \in Nat
           /\ Cardinality(Opened(s, n)) = 0 => Opened(s, n) = {}
<1>1. IsFiniteSet(1..n)
  BY FS_Interval
<1>2. IsFiniteSet(Opened(s, n))
  BY <1>1, FS_Subset DEF Opened
<1> QED
  BY <1>2, FS_CardinalityType, FS_EmptySet

LEMMA OpenedLast ==
    ASSUME NEW s, NEW n \in Nat \ {0}
    PROVE  /\ s[n].kind = "callback" => Cardinality(Opened(s, n)) = 0
           /\ Opens(s[n].kind) =>
                 Cardinality(Opened(s, n)) = Cardinality(Opened(s, n - 1)) + 1
           /\ s[n].kind # "callback" /\ ~Opens(s[n].kind) =>
                 Cardinality(Opened(s, n)) = Cardinality(Opened(s, n - 1))
<1>1. CASE s[n].kind = "callback"
  <2>1. Opened(s, n) = {}
    BY <1>1 DEF Opened
  <2> QED
    BY <2>1, <1>1, FS_EmptySet DEF Opens
<1>2. CASE Opens(s[n].kind)
  <2>1. Opened(s, n) = Opened(s, n - 1) \cup {n} /\ n \notin Opened(s, n - 1)
    BY <1>2 DEF Opened, Opens
  <2>2. IsFiniteSet(Opened(s, n - 1))
    BY OpenedFinite
  <2> QED
    BY <2>1, <2>2, <1>2, FS_AddElement DEF Opens
<1>3. CASE s[n].kind # "callback" /\ ~Opens(s[n].kind)
  <2>1. Opened(s, n) = Opened(s, n - 1)
    BY <1>3 DEF Opened
  <2> QED
    BY <2>1, <1>3
<1> QED
  BY <1>1, <1>2, <1>3

-------------------------------------------------------------------------------
(* Calls nest: what a push, a pop and a step within a call must keep. *)
FrameKinds == {"operation", "iterator", "callback", "scope", "workspace"}

LEMMA NestingPush ==
    ASSUME NEW s, NEW o, NEW c, NEW f, NEW p, Nesting(s, o, c), IsOp(p),
           f.kind \in FrameKinds,
           f.kind = "callback" => c = "index" /\ f.saved = o /\ o.depth > 0,
           f.kind = "scope" => c = "index",
           f.kind \in {"scope", "workspace"} => o.depth > 0,
           f.kind \in {"workspace", "iterator"} =>
               c = "arena" /\ IsOp(f.saved.op) /\ SameOwner(f.saved.op, p),
           f.kind = "iterator" => s = <<>>,
           c = "arena" => IF s = <<>> THEN Opens(f.kind) ELSE SameOwner(o, p),
           f.kind = "callback" => p = Idle,
           f.kind # "callback" =>
               p.depth = IF Opens(f.kind) THEN o.depth + 1 ELSE o.depth,
           p.depth = 0 => p = Idle
    PROVE  Nesting(Append(s, f), p, c)
<1> DEFINE t == Append(s, f)
           n == Len(s)
<1>1. Listed(s) /\ IsOp(o) /\ c \in {"index", "arena"}
  BY DEF Nesting
<1>2. /\ Listed(t) /\ n \in Nat /\ DOMAIN s = 1..n
      /\ Len(t) = n + 1 /\ DOMAIN t = 1..(n + 1)
      /\ \A i \in 1..n : t[i] = s[i]
      /\ t[n + 1] = f /\ t # <<>>
  BY <1>1, PushList
<1> HIDE DEF t
<1>3. \A m \in 0..n : Opened(t, m) = Opened(s, m)
  <2> TAKE m \in 0..n
  <2>1. m \in Nat /\ \A i \in 1..m : t[i].kind = s[i].kind
    BY <1>2
  <2> QED
    BY <2>1, OpenedSame
<1>4. o.depth = Cardinality(Opened(t, n)) /\ o.depth \in Nat
  BY <1>2, <1>3, OpenedFinite DEF Nesting
<1>5. ASSUME NEW i \in DOMAIN t PROVE Frame(t, i, p, c)
  <2>1. CASE i \in 1..n
    <3>1. Frame(s, i, o, c)
      BY <2>1, <1>2 DEF Nesting
    <3>2. t[i] = s[i] /\ Opened(t, i - 1) = Opened(s, i - 1)
      BY <2>1, <1>2, <1>3
    <3>3. c = "arena" => SameOwner(o, p)
      BY <2>1, <1>2
    <3> QED
      BY <3>1, <3>2, <3>3 DEF Frame, SameOwner
  <2>2. CASE i = n + 1
    <3>1. t[i] = f /\ i - 1 = n
      BY <2>2, <1>2
    <3>2. f.kind = "iterator" => i = 1
      BY <2>2, <1>2
    <3> QED
      BY <3>1, <3>2, <1>4, <1>1 DEF Frame, FrameKinds
  <2> QED
    BY <2>1, <2>2, <1>2
<1>6. p.depth = Cardinality(Opened(t, Len(t)))
  <2>1. /\ t[n + 1].kind = "callback" => Cardinality(Opened(t, n + 1)) = 0
        /\ Opens(t[n + 1].kind) =>
               Cardinality(Opened(t, n + 1)) = Cardinality(Opened(t, n)) + 1
        /\ t[n + 1].kind # "callback" /\ ~Opens(t[n + 1].kind) =>
               Cardinality(Opened(t, n + 1)) = Cardinality(Opened(t, n))
    <3>1. n + 1 \in Nat \ {0} /\ (n + 1) - 1 = n
      BY <1>2
    <3> QED
      BY ONLY <3>1, OpenedLast
  <2>2. Idle.depth = 0
    BY DEF Idle
  <2> QED
    BY <2>1, <2>2, <1>2, <1>4 DEF Opens
<1>7. c = "arena" /\ t # <<>> => Opens(t[1].kind)
  <2>1. CASE s = <<>>
    BY <2>1, <1>2
  <2>2. CASE s # <<>>
    <3>1. n # 0
      BY <2>2, <1>1, <1>2 DEF Listed
    <3> QED
      BY <3>1, <2>2, <1>2 DEF Nesting
  <2> QED
    BY <2>1, <2>2
<1> QED
  BY <1>1, <1>2, <1>5, <1>6, <1>7 DEF Nesting, t

LEMMA NestingPop ==
    ASSUME NEW s, NEW o, NEW c, NEW p, Nesting(s, o, c), s # <<>>, IsOp(p),
           Last(s).kind = "callback" => p = Last(s).saved,
           Last(s).kind # "callback" =>
               p.depth = IF Opens(Last(s).kind) THEN o.depth - 1 ELSE o.depth,
           c = "arena" => SameOwner(o, p) \/ Len(s) = 1,
           p.depth = 0 => p = Idle
    PROVE  Nesting(Front(s), p, c)
<1> DEFINE t == Front(s)
           n == Len(s) - 1
<1>1. Listed(s) /\ IsOp(o) /\ c \in {"index", "arena"}
  BY DEF Nesting
<1>2. /\ Listed(t) /\ n \in Nat /\ DOMAIN s = 1..(n + 1) /\ Len(s) = n + 1
      /\ Len(t) = n /\ DOMAIN t = 1..n
      /\ \A i \in 1..n : t[i] = s[i]
      /\ Last(s) = s[n + 1]
  BY <1>1, PopList
<1> HIDE DEF t, n
<1>3. \A m \in 0..n : Opened(t, m) = Opened(s, m)
  <2> TAKE m \in 0..n
  <2>1. m \in Nat /\ \A i \in 1..m : t[i].kind = s[i].kind
    BY <1>2
  <2> QED
    BY <2>1, OpenedSame
<1>4. Cardinality(Opened(s, n)) \in Nat
  BY <1>2, OpenedFinite
<1>5. ASSUME NEW i \in DOMAIN t PROVE Frame(t, i, p, c)
  <2>1. Frame(s, i, o, c)
    BY <1>2 DEF Nesting
  <2>2. t[i] = s[i] /\ Opened(t, i - 1) = Opened(s, i - 1)
    BY <1>2, <1>3
  <2>3. c = "arena" => SameOwner(o, p)
    BY <1>2
  <2> QED
    BY <2>1, <2>2, <2>3 DEF Frame, SameOwner
<1>6. p.depth = Cardinality(Opened(t, Len(t)))
  <2>1. /\ Opens(s[n + 1].kind) =>
               Cardinality(Opened(s, n + 1)) = Cardinality(Opened(s, n)) + 1
        /\ s[n + 1].kind # "callback" /\ ~Opens(s[n + 1].kind) =>
               Cardinality(Opened(s, n + 1)) = Cardinality(Opened(s, n))
    <3>1. n + 1 \in Nat \ {0} /\ (n + 1) - 1 = n
      BY <1>2
    <3> QED
      BY ONLY <3>1, OpenedLast
  <2>2. Frame(s, n + 1, o, c) /\ o.depth = Cardinality(Opened(s, n + 1))
    BY <1>2 DEF Nesting
  <2>3. s[n + 1].kind = "callback" =>
            s[n + 1].saved.depth = Cardinality(Opened(s, n))
    BY <2>2, <1>2 DEF Frame
  <2>4. Opened(t, Len(t)) = Opened(s, n)
    BY <1>2, <1>3
  <2> QED
    BY <2>1, <2>2, <2>3, <2>4, <1>2, <1>4 DEF Opens
<1>7. c = "arena" /\ t # <<>> => Opens(t[1].kind)
  <2> SUFFICES ASSUME c = "arena", t # <<>> PROVE Opens(t[1].kind)
    OBVIOUS
  <2>1. n # 0
    BY <1>2 DEF Listed
  <2> QED
    BY <2>1, <1>2 DEF Nesting
<1> QED
  BY <1>1, <1>2, <1>5, <1>6, <1>7 DEF Nesting, t

LEMMA NestingStay ==
    ASSUME NEW s, NEW o, NEW c, NEW p, Nesting(s, o, c), IsOp(p),
           p.depth = o.depth, o.depth # 0, c = "arena" => SameOwner(o, p)
    PROVE  Nesting(s, p, c)
<1>1. ASSUME NEW i \in DOMAIN s PROVE Frame(s, i, p, c)
  <2>1. Frame(s, i, o, c)
    BY DEF Nesting
  <2> QED
    BY <2>1 DEF Frame, SameOwner
<1> QED
  BY <1>1 DEF Nesting

-------------------------------------------------------------------------------
(* No push touches the places there were.                                  *)
KeptPlaces(s, f, o, p) ==
    \A x \in Places(s) \ {0} : At(Append(s, f), p, x) = At(s, o, x)

LEMMA PushKeepsPlaces ==
    ASSUME NEW s, NEW f, NEW o, NEW p, Listed(s)
    PROVE  KeptPlaces(s, f, o, p)
<1>1. /\ DOMAIN s = 1..Len(s) /\ DOMAIN Append(s, f) = 1..(Len(s) + 1)
      /\ \A i \in 1..Len(s) : Append(s, f)[i] = s[i] /\ Len(s) \in Nat
  BY PushList
<1>2. ASSUME NEW x \in Places(s) \ {0}
      PROVE  At(Append(s, f), p, x) = At(s, o, x)
  BY <1>1 DEF Places, At
<1> QED
  BY <1>2 DEF KeptPlaces

(* Places of the operations after a push and a pop. *)
LEMMA PlacesPush ==
    ASSUME NEW s, NEW f, NEW o, NEW p, Listed(s)
    PROVE  /\ \A x \in Places(s) \ {0} : At(Append(s, f), p, x) = At(s, o, x)
           /\ \A x \in Places(s) : x \in 0..Len(s)
           /\ Len(s) + 1 \notin Places(s) /\ Len(s) + 1 # 0
           /\ f.kind # "callback" => Places(Append(s, f)) = Places(s)
           /\ f.kind = "callback" =>
                 /\ Places(Append(s, f)) = Places(s) \cup {Len(s) + 1}
                 /\ At(Append(s, f), p, Len(s) + 1) = f.saved
<1> DEFINE t == Append(s, f)
<1>1. /\ Len(s) \in Nat /\ DOMAIN s = 1..Len(s)
      /\ DOMAIN t = 1..(Len(s) + 1)
      /\ \A i \in 1..Len(s) : t[i] = s[i]
      /\ t[Len(s) + 1] = f
  BY PushList
<1> HIDE DEF t
<1>2. Len(s) + 1 \notin Places(s) /\ Len(s) + 1 # 0
  BY <1>1 DEF Places
<1>3. \A x \in Places(s) : x \in 0..Len(s)
  BY <1>1 DEF Places
<1>4. \A x \in Places(s) \ {0} : At(t, p, x) = At(s, o, x)
  BY <1>1 DEF Places, At
<1>5. f.kind # "callback" => Places(t) = Places(s)
  BY <1>1 DEF Places
<1>6. f.kind = "callback" => Places(t) = Places(s) \cup {Len(s) + 1}
  BY <1>1 DEF Places
<1>7. At(t, p, Len(s) + 1) = f.saved
  BY <1>1, <1>2 DEF At
<1> QED
  BY <1>2, <1>3, <1>4, <1>5, <1>6, <1>7 DEF t

LEMMA PlacesPop ==
    ASSUME NEW s, NEW o, NEW p, Listed(s), s # <<>>
    PROVE  /\ \A x \in Places(Front(s)) \ {0} : At(Front(s), p, x) = At(s, o, x)
           /\ Len(s) # 0 /\ Len(s) \notin Places(Front(s))
           /\ Last(s).kind # "callback" => Places(Front(s)) = Places(s)
           /\ Last(s).kind = "callback" =>
                 /\ Places(s) = Places(Front(s)) \cup {Len(s)}
                 /\ At(s, o, Len(s)) = Last(s).saved
<1> DEFINE t == Front(s)
<1>1. /\ Len(s) \in Nat \ {0} /\ DOMAIN s = 1..Len(s)
      /\ DOMAIN t = 1..(Len(s) - 1)
      /\ \A i \in 1..(Len(s) - 1) : t[i] = s[i]
      /\ Last(s) = s[Len(s)]
  BY PopList
<1> HIDE DEF t
<1>2. Len(s) # 0 /\ Len(s) \notin Places(t)
  BY <1>1 DEF Places
<1>4. \A x \in Places(t) \ {0} : At(t, p, x) = At(s, o, x)
  BY <1>1 DEF Places, At
<1>5. Last(s).kind # "callback" => Places(t) = Places(s)
  BY <1>1 DEF Places
<1>6. Last(s).kind = "callback" => Places(s) = Places(t) \cup {Len(s)}
  BY <1>1 DEF Places
<1>7. At(s, o, Len(s)) = Last(s).saved
  BY <1>1 DEF At
<1> QED
  BY <1>2, <1>4, <1>5, <1>6, <1>7 DEF t

(* A push or pop that is no callback keeps the places. *)
SamePlaces(s, t) ==
    /\ Places(t) = Places(s)
    /\ \A x \in Places(s) \ {0} : t[x].saved = s[x].saved

LEMMA SamePlacesPush ==
    ASSUME NEW s, NEW f, Listed(s), f.kind # "callback"
    PROVE  SamePlaces(s, Append(s, f))
<1>1. ASSUME NEW x \in Places(s) \ {0}
      PROVE  At(Append(s, f), Idle, x) = At(s, Idle, x)
  <2>1. KeptPlaces(s, f, Idle, Idle)
    BY PushKeepsPlaces
  <2> QED
    BY <2>1 DEF KeptPlaces
<1>2. Places(Append(s, f)) = Places(s)
  BY PlacesPush, Zenon
<1> QED
  BY <1>1, <1>2 DEF SamePlaces, At

LEMMA SamePlacesPop ==
    ASSUME NEW s, Listed(s), s # <<>>, Last(s).kind # "callback"
    PROVE  SamePlaces(s, Front(s))
<1>1. /\ \A x \in Places(Front(s)) \ {0} :
             At(Front(s), Idle, x) = At(s, Idle, x)
      /\ Places(Front(s)) = Places(s)
  BY PlacesPop
<1> QED
  BY <1>1 DEF SamePlaces, At

-------------------------------------------------------------------------------
(* A step that changes no owner. *)
LEMMA OwnersKept ==
    ASSUME NEW s, NEW t, NEW o, NEW p, NEW l, NEW tab, NEW gen,
           SamePlaces(s, t), SameOwner(o, p),
           Ownership(s, o, l), Freshness(s, o, tab, gen)
    PROVE  Ownership(t, p, l) /\ Freshness(t, p, tab, gen)
<1>1. Places(t) = Places(s) /\ \A x \in Places(s) : SameOwner(At(s, o, x), At(t, p, x))
  BY DEF SamePlaces, At, SameOwner
<1>2. Ownership(t, p, l)
  BY <1>1 DEF Ownership, SameOwner, Owner
<1>3. Freshness(t, p, tab, gen)
  BY <1>1 DEF Freshness, SameOwner
<1> QED
  BY <1>2, <1>3

LEMMA IdleFacts ==
    /\ IsOp(Idle) /\ Idle.depth = 0 /\ Idle.index = NoIndex /\ Idle.owns = FALSE
    /\ Idle.view = NoView /\ Idle.index # DefaultIndex /\ Owner(Idle)
BY RuntimeAssumption DEF Idle, IsOp, OpFields, Owner

(* An operation begins where none was, and leases the index if it is free. *)
Leased(l, gen, l2, gen2, tab, tab2) ==
    /\ l2 = TRUE
    /\ gen2 = IF l THEN gen ELSE IF gen = MaxGeneration THEN 1 ELSE gen + 1
    /\ tab2 = IF ~l /\ gen = MaxGeneration THEN [tab EXCEPT ![DefaultIndex] = Clear]
              ELSE tab

LEMMA ClearFacts ==
    /\ Clear \in [Slots -> Entry]
    /\ \A n \in Slots : Clear[n].generation = 0 /\ Clear[n].key <= Clear[n].value
<1>1. Unused \in Entry /\ Unused.generation = 0 /\ Unused.key <= Unused.value
  BY DEF Unused, Entry
<1> QED
  BY <1>1 DEF Clear, Slots

LEMMA CleanTable ==
    ASSUME NEW tab, Tables(tab), NEW i \in OwnIndexes \cup {DefaultIndex}
    PROVE  /\ Tables([tab EXCEPT ![i] = Clear])
           /\ [tab EXCEPT ![i] = Clear][i] = Clear
           /\ \A j \in OwnIndexes \cup {DefaultIndex} :
                 j # i => [tab EXCEPT ![i] = Clear][j] = tab[j]
BY ClearFacts DEF Tables

(* After the lease no entry of the default index is of the new generation. *)
LEMMA LeasedFresh ==
    ASSUME NEW l \in BOOLEAN, NEW gen \in Nat, NEW l2, NEW gen2, NEW tab, NEW tab2,
           Tables(tab), Leased(l, gen, l2, gen2, tab, tab2),
           \A n \in Slots : tab[DefaultIndex][n].generation <= gen
    PROVE  /\ Tables(tab2) /\ gen2 \in Nat
           /\ \A n \in Slots : tab2[DefaultIndex][n].generation <= gen2
           /\ \A i \in OwnIndexes : tab2[i] = tab[i]
           /\ l => tab2 = tab /\ gen2 = gen
           /\ ~l => /\ gen2 # 0
                    /\ \A n \in Slots : tab2[DefaultIndex][n].generation # gen2
<1>0. MaxGeneration \in Nat \ {0} /\ DefaultIndex \notin OwnIndexes
  BY RuntimeAssumption
<1>1. CASE l
  BY <1>1 DEF Leased
<1>2. CASE ~l /\ gen = MaxGeneration
  <2>1. gen2 = 1 /\ tab2 = [tab EXCEPT ![DefaultIndex] = Clear]
    BY <1>2 DEF Leased
  <2>2. Tables(tab2) /\ tab2[DefaultIndex] = Clear
    BY <2>1, CleanTable
  <2>3. \A i \in OwnIndexes : tab2[i] = tab[i]
    BY <2>1, <1>0, CleanTable
  <2> QED
    BY <2>1, <2>2, <2>3, <1>2, ClearFacts
<1>3. CASE ~l /\ gen # MaxGeneration
  <2>1. gen2 = gen + 1 /\ tab2 = tab
    BY <1>3 DEF Leased
  <2>2. \A n \in Slots : tab[DefaultIndex][n].generation \in Nat
    BY DEF Tables, Entry
  <2> QED
    BY <2>1, <2>2, <1>3
<1> QED
  BY <1>1, <1>2, <1>3

LEMMA Beginning ==
    ASSUME NEW s, NEW t, NEW p, NEW l, NEW l2, NEW tab, NEW tab2, NEW gen, NEW gen2,
           SamePlaces(s, t), Ownership(s, Idle, l), Freshness(s, Idle, tab, gen),
           Leased(l, gen, l2, gen2, tab, tab2),
           p.view \in Roots, p.owns = ~l,
           p.index = IF l THEN NoIndex ELSE DefaultIndex,
           ~l => p.generation = gen2
    PROVE  Ownership(t, p, l2) /\ Freshness(t, p, tab2, gen2)
<1>0. /\ l \in BOOLEAN /\ gen \in Nat /\ Tables(tab)
      /\ \A n \in Slots : tab[DefaultIndex][n].generation <= gen
  BY DEF Ownership, Freshness
<1>1. /\ Tables(tab2) /\ gen2 \in Nat
      /\ \A n \in Slots : tab2[DefaultIndex][n].generation <= gen2
      /\ \A i \in OwnIndexes : tab2[i] = tab[i]
      /\ l => tab2 = tab /\ gen2 = gen
      /\ ~l => /\ gen2 # 0
               /\ \A n \in Slots : tab2[DefaultIndex][n].generation # gen2
  BY <1>0, LeasedFresh
<1>2. /\ Places(t) = Places(s) /\ 0 \in Places(s)
      /\ At(t, p, 0) = p /\ At(s, Idle, 0) = Idle
      /\ \A x \in Places(s) \ {0} : At(t, p, x) = At(s, Idle, x)
  BY DEF SamePlaces, At, Places
<1>3. NoIndex # DefaultIndex /\ l2 = TRUE
  BY RuntimeAssumption DEF Leased
<1>4. CASE l
  <2>1. Owner(p) /\ p.index = NoIndex
    BY <1>4, <1>3 DEF Owner
  <2>2. Ownership(t, p, l2)
    BY <2>1, <1>2, <1>3, <1>4, IdleFacts DEF Ownership
  <2>3. Freshness(t, p, tab2, gen2)
    BY <2>1, <1>1, <1>2, <1>4 DEF Freshness
  <2> QED
    BY <2>2, <2>3
<1>5. CASE ~l
  <2>1. Owner(p) /\ p.index = DefaultIndex /\ p.generation = gen2
    BY <1>5, <1>3 DEF Owner
  <2>2. \A x \in Places(s) : At(s, Idle, x).index # DefaultIndex
    BY <1>5 DEF Ownership
  <2>3. Ownership(t, p, l2)
    BY <2>1, <2>2, <1>2, <1>3 DEF Ownership
  <2>4. Sound(tab2[DefaultIndex], gen2, p.known)
    BY <1>1, <1>5 DEF Sound
  <2>5. ASSUME NEW x \in Places(s) \ {0}, At(s, Idle, x).index # NoIndex
        PROVE  At(s, Idle, x).index \in OwnIndexes
    BY <2>5, <2>2 DEF Ownership, Owner
  <2>6. Freshness(t, p, tab2, gen2)
    <3>1. ASSUME NEW x \in Places(t), At(t, p, x).index # NoIndex
          PROVE  /\ At(t, p, x).generation \in Nat \ {0}
                 /\ At(t, p, x).index = DefaultIndex => At(t, p, x).generation = gen2
                 /\ Sound(tab2[At(t, p, x).index], At(t, p, x).generation,
                          At(t, p, x).known)
      <4>1. CASE x = 0
        BY <4>1, <1>1, <1>2, <1>5, <2>1, <2>4
      <4>2. CASE x # 0
        <5>1. x \in Places(s) \ {0} /\ At(t, p, x) = At(s, Idle, x)
          BY <4>2, <1>2
        <5>2. At(s, Idle, x).index \in OwnIndexes
          BY <5>1, <3>1, <2>5
        <5> QED
          BY <5>1, <5>2, <3>1, <1>1, <2>2 DEF Freshness
      <4> QED
        BY <4>1, <4>2
    <3> QED
      BY <3>1, <1>1 DEF Freshness
  <2> QED
    BY <2>3, <2>6
<1> QED
  BY <1>4, <1>5, <1>0

(* An operation ends, and gives the index back if it is the one that owns it. *)
LEMMA Ending ==
    ASSUME NEW s, NEW t, NEW o, NEW l, NEW l2, NEW tab, NEW gen,
           SamePlaces(s, t), Ownership(s, o, l), Freshness(s, o, tab, gen),
           l2 = (l /\ ~o.owns)
    PROVE  Ownership(t, Idle, l2) /\ Freshness(t, Idle, tab, gen)
<1>1. /\ Places(t) = Places(s) /\ 0 \in Places(s)
      /\ At(t, Idle, 0) = Idle /\ At(s, o, 0) = o
      /\ \A x \in Places(s) \ {0} : At(t, Idle, x) = At(s, o, x)
  BY DEF SamePlaces, At, Places
<1>2. l2 <=> \E x \in Places(s) \ {0} : At(s, o, x).index = DefaultIndex
  <2>1. Owner(o) /\ l \in BOOLEAN /\ DefaultIndex # NoIndex
    BY <1>1, RuntimeAssumption DEF Ownership
  <2>2. CASE o.owns
    <3>1. o.index = DefaultIndex /\ ~l2
      BY <2>1, <2>2 DEF Owner
    <3>2. \A x \in Places(s) \ {0} : At(s, o, x).index # DefaultIndex
      BY <3>1, <2>1, <1>1 DEF Ownership
    <3> QED
      BY <3>1, <3>2
  <2>3. CASE ~o.owns
    BY <2>1, <2>3, <1>1 DEF Ownership, Owner
  <2> QED
    BY <2>2, <2>3
<1>3. Ownership(t, Idle, l2)
  <2>1. l2 \in BOOLEAN
    OBVIOUS
  <2> QED
    BY <2>1, <1>1, <1>2, IdleFacts DEF Ownership
<1>4. Freshness(t, Idle, tab, gen)
  <2>1. ASSUME NEW x \in Places(t), At(t, Idle, x).index # NoIndex
        PROVE  x \in Places(s) \ {0} /\ At(t, Idle, x) = At(s, o, x)
    BY <2>1, <1>1, IdleFacts
  <2> QED
    BY <2>1 DEF Freshness
<1> QED
  BY <1>3, <1>4

LEMMA Suspending ==
    ASSUME NEW s, NEW f, NEW o, NEW l, NEW tab, NEW gen, Listed(s),
           f.kind = "callback", f.saved = o,
           Ownership(s, o, l), Freshness(s, o, tab, gen)
    PROVE  /\ Ownership(Append(s, f), Idle, l)
           /\ Freshness(Append(s, f), Idle, tab, gen)
<1> DEFINE t == Append(s, f)
           n == Len(s) + 1
<1>1. /\ \A x \in Places(s) \ {0} : At(t, Idle, x) = At(s, o, x)
      /\ n \notin Places(s) /\ n # 0
      /\ Places(t) = Places(s) \cup {n} /\ At(t, Idle, n) = o
  <2>1. \A x \in Places(s) \ {0} : At(t, Idle, x) = At(s, o, x)
    BY PlacesPush
  <2>2. n \notin Places(s) /\ n # 0
    BY PlacesPush
  <2>3. Places(t) = Places(s) \cup {n}
    BY PlacesPush
  <2>4. At(t, Idle, n) = f.saved
    BY PlacesPush
  <2> QED
    BY <2>1, <2>2, <2>3, <2>4
<1> HIDE DEF t, n
<1>2. At(t, Idle, 0) = Idle /\ At(s, o, 0) = o /\ 0 \in Places(s)
  BY DEF At, Places
<1>3. \A x \in Places(t) : x # 0 /\ x # n => x \in Places(s) \ {0}
  BY <1>1
<1>4. Ownership(t, Idle, l)
  <2>1. ASSUME NEW x \in Places(t) PROVE Owner(At(t, Idle, x))
    BY <1>1, <1>2, <1>3, IdleFacts DEF Ownership
  <2>2. ASSUME NEW x \in Places(t), NEW y \in Places(t),
               At(t, Idle, x).index = At(t, Idle, y).index,
               At(t, Idle, x).index # NoIndex
        PROVE  x = y
    <3>1. x # 0 /\ y # 0
      BY <2>2, <1>2, IdleFacts
    <3>2. CASE x = n /\ y # n
      BY <3>1, <3>2, <2>2, <1>1, <1>2, <1>3 DEF Ownership
    <3>3. CASE x # n /\ y = n
      BY <3>1, <3>3, <2>2, <1>1, <1>2, <1>3 DEF Ownership
    <3>4. CASE x # n /\ y # n
      BY <3>1, <3>4, <2>2, <1>1, <1>2, <1>3 DEF Ownership
    <3> QED
      BY <3>2, <3>3, <3>4
  <2>3. l <=> \E x \in Places(t) : At(t, Idle, x).index = DefaultIndex
    <3>1. ASSUME NEW x \in Places(s), At(s, o, x).index = DefaultIndex
          PROVE  \E y \in Places(t) : At(t, Idle, y).index = DefaultIndex
      <4>1. CASE x = 0
        BY <4>1, <3>1, <1>1, <1>2
      <4>2. CASE x # 0
        BY <4>2, <3>1, <1>1, <1>2
      <4> QED
        BY <4>1, <4>2
    <3>2. ASSUME NEW x \in Places(t), At(t, Idle, x).index = DefaultIndex
          PROVE  \E y \in Places(s) : At(s, o, y).index = DefaultIndex
      BY <3>2, <1>1, <1>2, <1>3, IdleFacts
    <3> QED
      BY <3>1, <3>2 DEF Ownership
  <2> QED
    BY <2>1, <2>2, <2>3 DEF Ownership
<1>5. Freshness(t, Idle, tab, gen)
  <2>1. ASSUME NEW x \in Places(t), At(t, Idle, x).index # NoIndex
        PROVE  \E y \in Places(s) : At(t, Idle, x) = At(s, o, y)
    BY <2>1, <1>1, <1>2, <1>3, IdleFacts
  <2> QED
    BY <2>1 DEF Freshness
<1> QED
  BY <1>4, <1>5 DEF t

LEMMA Restoring ==
    ASSUME NEW s, NEW l, NEW tab, NEW gen, Listed(s), s # <<>>,
           Last(s).kind = "callback",
           Ownership(s, Idle, l), Freshness(s, Idle, tab, gen)
    PROVE  /\ Ownership(Front(s), Last(s).saved, l)
           /\ Freshness(Front(s), Last(s).saved, tab, gen)
<1> DEFINE t == Front(s)
           n == Len(s)
           p == Last(s).saved
<1>1. /\ \A x \in Places(t) \ {0} : At(t, p, x) = At(s, Idle, x)
      /\ n # 0 /\ n \notin Places(t)
      /\ Places(s) = Places(t) \cup {n} /\ At(s, Idle, n) = p
  BY PlacesPop
<1> HIDE DEF t, n, p
<1>2. At(s, Idle, 0) = Idle /\ At(t, p, 0) = p /\ 0 \in Places(t)
  BY DEF At, Places
<1> DEFINE Was(x) == IF x = 0 THEN n ELSE x
<1>3. \A x \in Places(t) : Was(x) \in Places(s) /\ At(t, p, x) = At(s, Idle, Was(x))
  BY <1>1, <1>2
<1>4. \A x, y \in Places(t) : Was(x) = Was(y) => x = y
  BY <1>1
<1>5. \A x \in Places(s) : x # 0 => \E y \in Places(t) : x = Was(y)
  BY <1>1, <1>2
<1> HIDE DEF Was
<1>6. Ownership(t, p, l)
  <2>1. l <=> \E x \in Places(t) : At(t, p, x).index = DefaultIndex
    <3>1. ASSUME NEW x \in Places(s), At(s, Idle, x).index = DefaultIndex
          PROVE  \E y \in Places(t) : At(t, p, y).index = DefaultIndex
      BY <3>1, <1>2, <1>3, <1>5, IdleFacts
    <3>2. ASSUME NEW x \in Places(t), At(t, p, x).index = DefaultIndex
          PROVE  \E y \in Places(s) : At(s, Idle, y).index = DefaultIndex
      BY <3>2, <1>3
    <3> QED
      BY <3>1, <3>2 DEF Ownership
  <2>2. ASSUME NEW x \in Places(t), NEW y \in Places(t),
               At(t, p, x).index = At(t, p, y).index, At(t, p, x).index # NoIndex
        PROVE  x = y
    BY <2>2, <1>3, <1>4 DEF Ownership
  <2>3. \A x \in Places(t) : Owner(At(t, p, x))
    BY <1>3 DEF Ownership
  <2> QED
    BY <2>1, <2>2, <2>3 DEF Ownership
<1>7. Freshness(t, p, tab, gen)
  BY <1>3 DEF Freshness
<1> QED
  BY <1>6, <1>7 DEF t, p

(* A graph binds an index that no operation uses. *)
Bound(s, o, p, l, l2, tab, tab2, i) ==
    /\ i \in OwnIndexes /\ \A x \in Places(s) : At(s, o, x).index # i
    /\ l2 = (l /\ ~o.owns) /\ tab2 = [tab EXCEPT ![i] = Clear]
    /\ p.view = o.view /\ p.owns \in BOOLEAN /\ ~p.owns
    /\ p.index = i /\ p.generation = 1

LEMMA Binding ==
    ASSUME NEW s, NEW o, NEW p, NEW l, NEW l2, NEW tab, NEW tab2, NEW gen, NEW i,
           Ownership(s, o, l), Freshness(s, o, tab, gen),
           Bound(s, o, p, l, l2, tab, tab2, i)
    PROVE  Ownership(s, p, l2) /\ Freshness(s, p, tab2, gen)
<1> USE DEF Bound
<1>0. i # DefaultIndex /\ i # NoIndex /\ DefaultIndex # NoIndex
  BY RuntimeAssumption
<1>1. /\ 0 \in Places(s) /\ At(s, p, 0) = p /\ At(s, o, 0) = o
      /\ \A x \in Places(s) \ {0} : At(s, p, x) = At(s, o, x)
  BY DEF At, Places
<1>2. /\ Tables(tab2) /\ tab2[i] = Clear
      /\ \A j \in OwnIndexes \cup {DefaultIndex} : j # i => tab2[j] = tab[j]
  <2>1. Tables(tab) /\ i \in OwnIndexes \cup {DefaultIndex}
    BY DEF Freshness
  <2>2. Tables([tab EXCEPT ![i] = Clear])
    BY <2>1, CleanTable
  <2>3. [tab EXCEPT ![i] = Clear][i] = Clear
    BY <2>1, CleanTable
  <2>4. \A j \in OwnIndexes \cup {DefaultIndex} :
            j # i => [tab EXCEPT ![i] = Clear][j] = tab[j]
    BY <2>1, CleanTable
  <2> QED
    BY <2>2, <2>3, <2>4
<1>3. l2 <=> \E x \in Places(s) \ {0} : At(s, o, x).index = DefaultIndex
  <2>1. Owner(o) /\ l \in BOOLEAN
    BY <1>1 DEF Ownership
  <2>2. CASE o.owns
    <3>1. o.index = DefaultIndex /\ ~l2
      BY <2>1, <2>2 DEF Owner
    <3>2. \A x \in Places(s) \ {0} : At(s, o, x).index # DefaultIndex
      BY <3>1, <1>0, <2>1, <1>1 DEF Ownership
    <3> QED
      BY <3>1, <3>2
  <2>3. CASE ~o.owns
    BY <2>1, <2>3, <1>1 DEF Ownership, Owner
  <2> QED
    BY <2>2, <2>3
<1>4. Ownership(s, p, l2)
  <2>1. Owner(p)
    BY <1>0, <1>1 DEF Ownership, Owner
  <2>2. l2 \in BOOLEAN
    OBVIOUS
  <2> QED
    BY <2>1, <2>2, <1>0, <1>1, <1>3 DEF Ownership
<1>5. Freshness(s, p, tab2, gen)
  <2>1. ASSUME NEW x \in Places(s), At(s, p, x).index # NoIndex
        PROVE  /\ At(s, p, x).generation \in Nat \ {0}
               /\ At(s, p, x).index = DefaultIndex => At(s, p, x).generation = gen
               /\ Sound(tab2[At(s, p, x).index], At(s, p, x).generation,
                        At(s, p, x).known)
    <3>1. CASE x = 0
      <4>1. Sound(Clear, 1, p.known)
        BY ClearFacts DEF Sound
      <4> QED
        BY <4>1, <3>1, <1>0, <1>1, <1>2
    <3>2. CASE x # 0
      <4>1. At(s, p, x) = At(s, o, x)
        BY <3>2, <1>1
      <4>2. tab2[At(s, o, x).index] = tab[At(s, o, x).index]
        BY <4>1, <2>1, <1>2 DEF Ownership, Owner
      <4> QED
        BY <4>1, <4>2, <2>1 DEF Freshness
    <3> QED
      BY <3>1, <3>2
  <2>2. tab2[DefaultIndex] = tab[DefaultIndex]
    BY <1>0, <1>2
  <2> QED
    BY <2>1, <2>2, <1>2 DEF Freshness
<1> QED
  BY <1>4, <1>5

(* A lease that is given back at once, before an operation begins. *)
LEMMA Refused ==
    ASSUME NEW s, NEW o, NEW tab, NEW tab2, NEW l, NEW l2, NEW gen, NEW gen2,
           ~l, Ownership(s, o, l), Freshness(s, o, tab, gen),
           Leased(l, gen, l2, gen2, tab, tab2)
    PROVE  Freshness(s, o, tab2, gen2)
<1>1. /\ Tables(tab2) /\ gen2 \in Nat
      /\ \A n \in Slots : tab2[DefaultIndex][n].generation <= gen2
      /\ \A i \in OwnIndexes : tab2[i] = tab[i]
  <2>1. /\ gen \in Nat /\ Tables(tab) /\ l \in BOOLEAN
        /\ \A n \in Slots : tab[DefaultIndex][n].generation <= gen
    BY DEF Freshness, Ownership
  <2> QED
    BY <2>1, LeasedFresh
<1>2. ASSUME NEW x \in Places(s), At(s, o, x).index # NoIndex
      PROVE  At(s, o, x).index \in OwnIndexes /\ At(s, o, x).index # DefaultIndex
  BY <1>2 DEF Ownership, Owner
<1> QED
  BY <1>1, <1>2 DEF Freshness

-------------------------------------------------------------------------------
(* A put.  What a probe has passed is neither free nor the fact itself. *)
Holding(T, gen, s, key, kind) ==
    T[s].generation = gen /\ T[s].key = key /\ T[s].kind = kind

Passed(T, gen, key, kind, p) ==
    \A q \in 0..(p - 1) :
        LET t == Slot(key, kind, q) IN
        /\ T[t].generation = gen
        /\ T[t].key # key \/ T[t].kind # kind

LEMMA SlotRange ==
    ASSUME NEW key \in Nat, NEW kind \in Nat, NEW p \in Nat
    PROVE  Slot(key, kind, p) \in Slots
<1>1. Capacity \in Nat \ {0} /\ key + kind + p \in Nat
  BY RuntimeAssumption
<1> QED
  BY <1>1 DEF Slot, Slots

LEMMA LeastNat ==
    ASSUME NEW S, S \subseteq Nat, S # {}
    PROVE  Min(S) \in S /\ \A x \in S : Min(S) <= x
<1>1. \E x \in S : \A y \in S : x <= y
  <2>1. PICK x \in S : \A y \in S : ~ (<<y, x>> \in OpToRel(<, Nat))
    BY WFMin, NatLessThanWellFounded
  <2>2. \A y \in S : y \in Nat /\ ~(y < x)
    BY <2>1 DEF OpToRel
  <2>3. x \in Nat
    OBVIOUS
  <2> QED
    BY <2>2, <2>3
<1> QED
  BY <1>1 DEF Min

(* A fact is held at most once. *)
LEMMA HeldOnce ==
    ASSUME NEW T, NEW gen, NEW known, NEW key \in Nat, NEW kind \in Nat,
           Sound(T, gen, known),
           NEW p \in 0..(Probes - 1), Passed(T, gen, key, kind, p),
           Holding(T, gen, Slot(key, kind, p), key, kind),
           NEW s \in Slots, Holding(T, gen, s, key, kind)
    PROVE  s = Slot(key, kind, p)
<1>1. PICK r \in 0..(Probes - 1) :
          s = Slot(key, kind, r) /\ Passed(T, gen, key, kind, r)
  BY DEF Sound, Holding, Passed
<1>2. Probes \in Nat
  BY RuntimeAssumption
<1>3. ~(p < r)
  <2> SUFFICES ASSUME p < r PROVE FALSE
    OBVIOUS
  <2>1. p \in 0..(r - 1)
    BY <1>2
  <2> QED
    BY <2>1, <1>1 DEF Passed, Holding
<1>4. ~(r < p)
  <2> SUFFICES ASSUME r < p PROVE FALSE
    OBVIOUS
  <2>1. r \in 0..(p - 1)
    BY <1>2
  <2> QED
    BY <2>1, <1>1 DEF Passed, Holding
<1>5. r = p
  BY <1>2, <1>3, <1>4
<1> QED
  BY <1>1, <1>5

Written(T, slots, key, kind, value, gen) ==
    [s \in Slots |-> IF s \notin slots THEN T[s]
                     ELSE [key |-> key, kind |-> kind, value |-> value,
                           generation |-> gen]]

Learnt(known, key, kind, value) ==
    {k \in known : k[1] # key \/ k[2] # kind} \cup {<<key, kind, value>>}

LEMMA PutSound ==
    ASSUME NEW T \in [Slots -> Entry], NEW gen, NEW known,
           Sound(T, gen, known),
           NEW key \in Nat, NEW kind \in Nat, NEW value \in Nat, NEW slots,
           \A s \in Slots : Holding(T, gen, s, key, kind) => s \in slots,
           slots = {} \/ \E p \in 0..(Probes - 1) :
               slots = {Slot(key, kind, p)} /\ Passed(T, gen, key, kind, p)
    PROVE  Sound(Written(T, slots, key, kind, value, gen), gen,
                 Learnt(known, key, kind, value))
<1> DEFINE W == Written(T, slots, key, kind, value, gen)
           K == Learnt(known, key, kind, value)
<1>0. Probes \in Nat \ {0}
  BY RuntimeAssumption
<1>1. \A s \in Slots : s \notin slots => W[s] = T[s]
  BY DEF Written
<1>2. \A s \in Slots : s \in slots =>
          /\ W[s].key = key /\ W[s].kind = kind /\ W[s].value = value
          /\ W[s].generation = gen
  BY DEF Written
<1>3. \A s \in Slots : T[s].key \in Nat /\ T[s].kind \in Nat
  BY DEF Entry
<1> HIDE DEF W
<1>4. ASSUME NEW s \in Slots, W[s].generation = gen
      PROVE  /\ <<W[s].key, W[s].kind, W[s].value>> \in K
             /\ \E p \in 0..(Probes - 1) :
                   /\ s = Slot(W[s].key, W[s].kind, p)
                   /\ Passed(W, gen, W[s].key, W[s].kind, p)
  <2>1. CASE s \in slots
    <3>1. PICK p \in 0..(Probes - 1) :
              slots = {Slot(key, kind, p)} /\ Passed(T, gen, key, kind, p)
      BY <2>1
    <3> DEFINE R == {q \in 0..(Probes - 1) : s = Slot(key, kind, q)}
    <3>2. R \subseteq Nat /\ p \in R
      BY <2>1, <3>1, <1>0
    <3>3. Min(R) \in R /\ \A q \in R : Min(R) <= q
      BY <3>2, LeastNat
    <3>4. Passed(W, gen, key, kind, Min(R))
      <4> SUFFICES ASSUME NEW q \in 0..(Min(R) - 1)
                   PROVE  LET t == Slot(key, kind, q) IN
                          /\ W[t].generation = gen
                          /\ W[t].key # key \/ W[t].kind # kind
        BY DEF Passed
      <4>0. Min(R) \in Nat /\ Min(R) <= p
        BY <3>2, <3>3
      <4>1. q \in Nat /\ q \in 0..(p - 1) /\ q \notin R /\ q \in 0..(Probes - 1)
        <5> HIDE DEF R
        <5>1. q \in Nat /\ q < Min(R)
          BY <4>0
        <5>2. q \notin R
          BY <3>3, <5>1, <4>0
        <5>3. q \in 0..(p - 1) /\ q \in 0..(Probes - 1)
          BY <4>0, <5>1, <1>0
        <5> QED
          BY <5>1, <5>2, <5>3
      <4>2. Slot(key, kind, q) # s /\ Slot(key, kind, q) \in Slots
        BY <4>1, SlotRange
      <4>3. W[Slot(key, kind, q)] = T[Slot(key, kind, q)]
        BY <4>2, <3>1, <2>1, <1>1
      <4> QED
        BY <4>1, <4>3, <3>1 DEF Passed
    <3>5. <<key, kind, value>> \in K
      BY DEF Learnt
    <3> QED
      BY <3>3, <3>4, <3>5, <2>1, <1>2
  <2>2. CASE s \notin slots
    <3> DEFINE k2 == T[s].key
               d2 == T[s].kind
    <3>1. W[s] = T[s] /\ T[s].generation = gen
      BY <2>2, <1>1, <1>4
    <3>2. k2 # key \/ d2 # kind
      BY <3>1, <2>2 DEF Holding
    <3>3. <<k2, d2, T[s].value>> \in known
      BY <3>1 DEF Sound
    <3>4. <<k2, d2, T[s].value>> \in K
      <4>1. <<k2, d2, T[s].value>>[1] = k2 /\ <<k2, d2, T[s].value>>[2] = d2
        OBVIOUS
      <4> QED
        BY <4>1, <3>2, <3>3 DEF Learnt
    <3>5. PICK p \in 0..(Probes - 1) :
              s = Slot(k2, d2, p) /\ Passed(T, gen, k2, d2, p)
      BY <3>1 DEF Sound, Passed
    <3>6. k2 \in Nat /\ d2 \in Nat
      BY <1>3
    <3> HIDE DEF k2, d2
    <3>7. Passed(W, gen, k2, d2, p)
      <4> SUFFICES ASSUME NEW q \in 0..(p - 1)
                   PROVE  LET t == Slot(k2, d2, q) IN
                          /\ W[t].generation = gen
                          /\ W[t].key # k2 \/ W[t].kind # d2
        BY DEF Passed
      <4>1. Slot(k2, d2, q) \in Slots
        <5>1. q \in Nat
          BY <1>0
        <5> QED
          BY <5>1, <3>6, SlotRange
      <4>2. CASE Slot(k2, d2, q) \in slots
        BY <4>1, <4>2, <1>2, <3>2
      <4>3. CASE Slot(k2, d2, q) \notin slots
        BY <4>1, <4>3, <1>1, <3>5 DEF Passed
      <4> QED
        BY <4>2, <4>3
    <3>8. W[s].key = k2 /\ W[s].kind = d2 /\ W[s].value = T[s].value
      BY <3>1 DEF k2, d2
    <3> QED
      BY <3>4, <3>5, <3>7, <3>8
  <2> QED
    BY <2>1, <2>2
<1> QED
  BY <1>4 DEF Sound, Passed, W

(* Where a probe ends, and the slot it chooses. *)
LEMMA EntryChoice ==
    ASSUME NEW key \in Nat, NEW kind \in Nat,
           Sound(table[op.index], op.generation, op.known)
    PROVE  /\ \/ /\ EntrySlots(key, kind) = {}
                 /\ Passed(table[op.index], op.generation, key, kind, Probes)
              \/ \E p \in 0..(Probes - 1) :
                    /\ EntrySlots(key, kind) = {Slot(key, kind, p)}
                    /\ Passed(table[op.index], op.generation, key, kind, p)
           /\ \A s \in Slots :
                 Holding(table[op.index], op.generation, s, key, kind)
                     => s \in EntrySlots(key, kind)
<1> DEFINE T == table[op.index]
           gen == op.generation
           slot(p) == Slot(key, kind, p)
           ends == {p \in 0..(Probes - 1) :
                       Free(slot(p)) \/ Holds(slot(p), key, kind)}
           end == IF ends = {} THEN Probes ELSE Min(ends)
           reusable == {p \in 0..(end - 1) : Expired(table[op.index][slot(p)])}
<1>0. Probes \in Nat \ {0}
  BY RuntimeAssumption
<1>1. \A p \in 0..(Probes - 1) :
          p \notin ends <=> /\ T[slot(p)].generation = gen
                            /\ T[slot(p)].key # key \/ T[slot(p)].kind # kind
  BY DEF Free, Holds
<1>2. \A s : Holds(s, key, kind) <=> Holding(T, gen, s, key, kind)
  BY DEF Holds, Free, Holding
<1>3. EntrySlots(key, kind) =
          IF end < Probes /\ Holds(slot(end), key, kind) THEN {slot(end)}
          ELSE IF reusable # {} THEN {slot(Min(reusable))}
          ELSE IF end < Probes THEN {slot(end)} ELSE {}
  BY DEF EntrySlots
<1>4. ends \subseteq 0..(Probes - 1) /\ ends \subseteq Nat
  BY <1>0
<1> HIDE DEF ends
<1>5. /\ end \in 0..Probes
      /\ end < Probes => end \in ends
      /\ \A p \in 0..(end - 1) : p \notin ends /\ p \in 0..(Probes - 1)
  <2>1. CASE ends = {}
    BY <2>1, <1>0
  <2>2. CASE ends # {}
    <3>1. Min(ends) \in ends /\ \A x \in ends : Min(ends) <= x
      BY <2>2, <1>4, LeastNat
    <3>2. Min(ends) \in 0..(Probes - 1) /\ end = Min(ends)
      BY <3>1, <2>2, <1>4
    <3>3. \A p \in 0..(end - 1) : ~(end <= p)
      BY <3>2, <1>0
    <3> QED
      BY <3>1, <3>2, <3>3, <1>0
  <2> QED
    BY <2>1, <2>2
<1>6. reusable \subseteq 0..(end - 1)
  OBVIOUS
<1> HIDE DEF end, reusable
<1>7. \A p \in 0..end : Passed(T, gen, key, kind, p)
  <2> TAKE p \in 0..end
  <2>1. \A q \in 0..(p - 1) : q \notin ends /\ q \in 0..(Probes - 1)
    BY <1>5, <1>0
  <2> QED
    BY <2>1, <1>1 DEF Passed
<1>8. reusable # {} => Min(reusable) \in 0..(end - 1)
  <2> SUFFICES ASSUME reusable # {} PROVE Min(reusable) \in 0..(end - 1)
    OBVIOUS
  <2>1. reusable \subseteq Nat
    BY <1>5, <1>6
  <2> QED
    BY <2>1, <1>6, LeastNat
<1>9. ASSUME NEW s \in Slots, Holding(T, gen, s, key, kind)
      PROVE  s \in EntrySlots(key, kind)
  <2>1. PICK r \in 0..(Probes - 1) : s = slot(r) /\ Passed(T, gen, key, kind, r)
    BY <1>9 DEF Sound, Holding, Passed
  <2>2. r \in ends
    BY <2>1, <1>1, <1>9 DEF Holding
  <2>3. \A q \in 0..(r - 1) : q \notin ends
    <3> TAKE q \in 0..(r - 1)
    <3>1. q \in 0..(Probes - 1)
      BY <1>0
    <3> QED
      BY <3>1, <2>1, <1>1 DEF Passed
  <2>4. end = r
    <3>1. ~(r < end)
      <4> SUFFICES ASSUME r < end PROVE FALSE
        OBVIOUS
      <4>1. r \in 0..(end - 1)
        BY <1>5, <1>0
      <4> QED
        BY <4>1, <2>2, <1>5
    <3>2. ~(end < r)
      <4> SUFFICES ASSUME end < r PROVE FALSE
        OBVIOUS
      <4>1. end \in 0..(r - 1) /\ end < Probes
        BY <1>5, <1>0
      <4> QED
        BY <4>1, <2>3, <1>5
    <3> QED
      BY <3>1, <3>2, <1>5, <1>0
  <2> QED
    BY <2>1, <2>4, <1>2, <1>3, <1>9, <1>0
<1>10. \/ EntrySlots(key, kind) = {} /\ Passed(T, gen, key, kind, Probes)
       \/ \E p \in 0..(Probes - 1) :
             EntrySlots(key, kind) = {slot(p)} /\ Passed(T, gen, key, kind, p)
  <2>1. CASE end < Probes /\ (Holds(slot(end), key, kind) \/ reusable = {})
    <3>1. EntrySlots(key, kind) = {slot(end)}
      BY <2>1, <1>3
    <3>2. end \in 0..(Probes - 1) /\ end \in 0..end
      BY <2>1, <1>5, <1>0
    <3> QED
      BY <3>1, <3>2, <1>7
  <2>2. CASE ~(end < Probes /\ Holds(slot(end), key, kind)) /\ reusable # {}
    <3>1. EntrySlots(key, kind) = {slot(Min(reusable))}
      BY <2>2, <1>3
    <3>2. Min(reusable) \in 0..(Probes - 1) /\ Min(reusable) \in 0..end
      BY <2>2, <1>8, <1>5, <1>0
    <3> QED
      BY <3>1, <3>2, <1>7
  <2>3. CASE ~(end < Probes) /\ reusable = {}
    <3>1. EntrySlots(key, kind) = {} /\ end = Probes /\ Probes \in 0..end
      BY <2>3, <1>3, <1>5, <1>0
    <3> QED
      BY <3>1, <1>7
  <2> QED
    BY <2>1, <2>2, <2>3
<1> QED
  BY <1>9, <1>10

(* What is evicted when the window is full lies in the window. *)
LEMMA SmallestInWindow ==
    ASSUME NEW key \in Nat, NEW kind \in Nat,
           table[op.index] \in [Slots -> Entry],
           \A s \in Slots : table[op.index][s].key <= table[op.index][s].value
    PROVE  \E p \in 0..(Probes - 1) : Smallest(key, kind) = Slot(key, kind, p)
<1> DEFINE slot(p) == Slot(key, kind, p)
           W == {Span(slot(p)) : p \in 0..(Probes - 1)}
           S == {p \in 0..(Probes - 1) : Span(slot(p)) = Min(W)}
<1>0. Probes \in Nat \ {0}
  BY RuntimeAssumption
<1>1. W \subseteq Nat
  <2> SUFFICES ASSUME NEW p \in 0..(Probes - 1) PROVE Span(slot(p)) \in Nat
    OBVIOUS
  <2>1. slot(p) \in Slots
    BY <1>0, SlotRange
  <2>2. table[op.index][slot(p)] \in Entry
    BY <2>1
  <2>3. table[op.index][slot(p)].key <= table[op.index][slot(p)].value
    BY <2>1
  <2> QED
    BY <2>2, <2>3 DEF Span, Entry
<1>2. 0 \in 0..(Probes - 1) /\ Span(slot(0)) \in W
  BY <1>0
<1>3. Min(W) \in W
  BY <1>1, <1>2, LeastNat
<1>4. S \subseteq Nat /\ S # {} /\ S \subseteq 0..(Probes - 1)
  <2>1. PICK p \in 0..(Probes - 1) : Span(slot(p)) = Min(W)
    BY <1>3
  <2>2. p \in S
    BY <2>1
  <2>3. S \subseteq 0..(Probes - 1)
    OBVIOUS
  <2>4. S \subseteq Nat
    BY <2>3, <1>0
  <2> HIDE DEF S
  <2> QED
    BY <2>2, <2>3, <2>4
<1>5. Min(S) \in 0..(Probes - 1)
  BY <1>4, LeastNat
<1>6. Smallest(key, kind) = slot(Min(S))
  BY DEF Smallest
<1> QED
  BY <1>5, <1>6

-------------------------------------------------------------------------------
(* The shapes of a step, for the whole invariant. *)
LEMMA OwnerFacts ==
    ASSUME OwnerInv
    PROVE  /\ op.depth \in Nat /\ Listed(calls) /\ IsOp(op)
           /\ ~Active => op = Idle
           /\ caller \in {"index", "arena"} /\ lease \in BOOLEAN
           /\ 0 \in Places(calls) /\ At(calls, op, 0) = op
           /\ Owner(op) /\ Tables(table)
<1>1. Listed(calls) => Len(calls) \in Nat
  BY DEF Listed
<1>2. op.depth \in Nat /\ Listed(calls) /\ IsOp(op)
  BY <1>1, OpenedFinite DEF OwnerInv, Nesting
<1>3. ~Active => op = Idle
  BY <1>2 DEF OwnerInv, Nesting, Active
<1>4. caller \in {"index", "arena"} /\ lease \in BOOLEAN
  BY DEF OwnerInv, Nesting, Ownership
<1>5. 0 \in Places(calls) /\ At(calls, op, 0) = op
  BY DEF Places, At
<1>6. Owner(op) /\ Tables(table)
  BY <1>5 DEF OwnerInv, Ownership, Freshness
<1> QED
  BY <1>2, <1>3, <1>4, <1>5, <1>6

(* Without callbacks the bottom call keeps an operation open. *)
LEMMA ArenaBottom ==
    ASSUME NEW s, NEW o, Nesting(s, o, "arena"), NEW n \in Nat, n <= Len(s),
           Cardinality(Opened(s, n)) = 0
    PROVE  n = 0
<1>1. Listed(s)
  BY DEF Nesting
<1>2. Len(s) \in Nat /\ DOMAIN s = 1..Len(s)
  BY <1>1 DEF Listed
<1>3. Opened(s, n) = {}
  BY OpenedFinite
<1> SUFFICES ASSUME n # 0 PROVE FALSE
  OBVIOUS
<1>4. s # <<>> /\ 1 \in 1..n /\ \A j \in 1..n : j \in DOMAIN s
  BY <1>2
<1>5. Opens(s[1].kind) /\ \A j \in 1..n : s[j].kind # "callback"
  BY <1>4 DEF Nesting, Frame
<1>6. 1 \in Opened(s, n)
  BY <1>4, <1>5 DEF Opened
<1> QED
  BY <1>3, <1>6

Same == UNCHANGED <<table, lease, generation>>

LEMMA WithinCall ==
    ASSUME OwnerInv, calls # <<>>, Last(calls).kind \in {"scope", "workspace"}
    PROVE  op.depth # 0
<1>1. Listed(calls) /\ Nesting(calls, op, caller)
  BY OwnerFacts DEF OwnerInv
<1>2. /\ Len(calls) \in Nat \ {0} /\ Last(calls) = calls[Len(calls)]
      /\ DOMAIN calls = 1..Len(calls)
  BY <1>1, PopList
<1>3. Frame(calls, Len(calls), op, caller)
  BY <1>1, <1>2 DEF Nesting
<1>4. Cardinality(Opened(calls, Len(calls)))
          = Cardinality(Opened(calls, Len(calls) - 1))
  BY <1>2, OpenedLast DEF Opens
<1> QED
  BY <1>1, <1>2, <1>3, <1>4 DEF Nesting, Frame

(* Push, pop and stay within an operation. *)
LEMMA PushStep ==
    ASSUME OwnerInv, NEW f, calls' = Append(calls, f),
           f.kind \in {"operation", "scope", "workspace"},
           f.kind = "scope" => caller = "index",
           f.kind = "workspace" =>
               caller = "arena" /\ IsOp(f.saved.op) /\ SameOwner(f.saved.op, op'),
           Active, IsOp(op'), SameOwner(op, op'),
           op'.depth = IF f.kind = "operation" THEN op.depth + 1 ELSE op.depth,
           Same, caller' = caller
    PROVE  OwnerInv'
<1>1. op.depth \in Nat \ {0} /\ Listed(calls)
  BY OwnerFacts DEF Active
<1>2. Nesting(calls', op', caller')
  <2> DEFINE p == op'
  <2> HIDE DEF p
  <2>1. Nesting(calls, op, caller) /\ IsOp(p) /\ p.depth # 0
    BY <1>1 DEF OwnerInv, p
  <2>2. caller = "arena" =>
            IF calls = <<>> THEN Opens(f.kind) ELSE SameOwner(op, p)
    <3>1. CASE calls = <<>> /\ caller = "arena"
      <4>1. Opened(calls, Len(calls)) = {}
        BY <3>1 DEF Opened
      <4> QED
        BY <4>1, <1>1, FS_EmptySet DEF OwnerInv, Nesting
    <3>2. CASE calls # <<>>
      BY <3>2 DEF p
    <3> QED
      BY <3>1, <3>2
  <2>3. Nesting(Append(calls, f), p, caller)
    <3>1. /\ f.kind \in FrameKinds /\ f.kind # "callback" /\ f.kind # "iterator"
          /\ p.depth = IF Opens(f.kind) THEN op.depth + 1 ELSE op.depth
          /\ op.depth > 0
          /\ f.kind \in {"workspace", "iterator"} =>
                 caller = "arena" /\ IsOp(f.saved.op) /\ SameOwner(f.saved.op, p)
      BY <1>1 DEF FrameKinds, Opens, p
    <3> QED
      BY <3>1, <2>1, <2>2, NestingPush
  <2> QED
    BY <2>3 DEF p
<1>3. SamePlaces(calls, calls')
  BY <1>1, SamePlacesPush
<1>4. /\ Ownership(calls', op', lease)
      /\ Freshness(calls', op', table, generation)
  BY <1>3, OwnersKept DEF OwnerInv
<1> QED
  BY <1>2, <1>4 DEF OwnerInv, Same

LEMMA PopStep ==
    ASSUME OwnerInv, calls # <<>>, calls' = Front(calls),
           Last(calls).kind \in FrameKinds \ {"callback"},
           IsOp(op'), SameOwner(op, op'),
           op'.depth = IF Opens(Last(calls).kind) THEN op.depth - 1 ELSE op.depth,
           op'.depth = 0 => op' = Idle,
           Same, caller' = caller
    PROVE  OwnerInv'
<1>1. Listed(calls)
  BY OwnerFacts
<1>2. Nesting(calls', op', caller')
  <2> DEFINE p == op'
  <2> HIDE DEF p
  <2>1. Nesting(calls, op, caller) /\ IsOp(p) /\ Last(calls).kind # "callback"
    BY DEF OwnerInv, p
  <2>2. /\ p.depth = IF Opens(Last(calls).kind) THEN op.depth - 1 ELSE op.depth
        /\ SameOwner(op, p) /\ (p.depth = 0 => p = Idle)
    BY DEF p
  <2>3. Nesting(Front(calls), p, caller)
    BY <2>1, <2>2, NestingPop
  <2> QED
    BY <2>3 DEF p
<1>3. SamePlaces(calls, calls')
  BY <1>1, SamePlacesPop
<1>4. /\ Ownership(calls', op', lease)
      /\ Freshness(calls', op', table, generation)
  BY <1>3, OwnersKept DEF OwnerInv
<1> QED
  BY <1>2, <1>4 DEF OwnerInv, Same

LEMMA StayStep ==
    ASSUME OwnerInv, calls' = calls, Active, IsOp(op'), SameOwner(op, op'),
           op'.depth = op.depth, Same, caller' = caller
    PROVE  OwnerInv'
<1>1. op.depth # 0
  BY OwnerFacts DEF Active
<1>2. Nesting(calls', op', caller')
  BY <1>1, NestingStay DEF OwnerInv
<1>3. SamePlaces(calls, calls')
  BY DEF SamePlaces
<1>4. /\ Ownership(calls', op', lease)
      /\ Freshness(calls', op', table, generation)
  BY <1>3, OwnersKept DEF OwnerInv
<1> QED
  BY <1>2, <1>4 DEF OwnerInv, Same

(* Without callbacks the calls of a caller all belong to one operation.    *)
LEMMA NothingOpen ==
    ASSUME OwnerInv, caller = "arena", ~Active
    PROVE  calls = <<>>
<1>1. op = Idle /\ Listed(calls) /\ op.depth = 0
  BY OwnerFacts, IdleFacts
<1>2. Len(calls) \in Nat /\ Cardinality(Opened(calls, Len(calls))) = 0
  BY <1>1 DEF OwnerInv, Nesting, Listed
<1>3. Nesting(calls, op, "arena")
  BY DEF OwnerInv
<1>4. Len(calls) = 0
  BY <1>2, <1>3, ArenaBottom
<1> QED
  BY <1>4, <1>1 DEF Listed

LEMMA LastOpen ==
    ASSUME OwnerInv, caller = "arena", calls # <<>>, op.depth = 1,
           Last(calls).kind \in {"operation", "iterator"}
    PROVE  Len(calls) = 1
<1>1. Listed(calls) /\ Nesting(calls, op, caller)
  BY OwnerFacts DEF OwnerInv
<1>2. Len(calls) \in Nat \ {0} /\ Last(calls) = calls[Len(calls)]
  BY <1>1, PopList
<1>3. Opens(calls[Len(calls)].kind)
  BY <1>2 DEF Opens
<1>4. Cardinality(Opened(calls, Len(calls)))
          = Cardinality(Opened(calls, Len(calls) - 1)) + 1
  BY <1>3, <1>2, OpenedLast
<1>5. Len(calls) - 1 \in Nat /\ Len(calls) - 1 <= Len(calls)
  BY <1>2
<1>6. Cardinality(Opened(calls, Len(calls) - 1)) = 0
  <2>1. Cardinality(Opened(calls, Len(calls) - 1)) \in Nat
    BY <1>5, OpenedFinite
  <2> QED
    BY <2>1, <1>4, <1>1 DEF Nesting
<1>7. Len(calls) - 1 = 0
  BY <1>5, <1>6, <1>1, ArenaBottom
<1> QED
  BY <1>7, <1>2

LEMMA OpenDepth ==
    ASSUME OwnerInv, calls # <<>>, Opens(Last(calls).kind)
    PROVE  op.depth \in Nat \ {0}
<1>1. Listed(calls) /\ op.depth = Cardinality(Opened(calls, Len(calls)))
  BY DEF OwnerInv, Nesting
<1>2. Len(calls) \in Nat \ {0} /\ Last(calls) = calls[Len(calls)]
  BY <1>1, PopList
<1>3. Cardinality(Opened(calls, Len(calls) - 1)) \in Nat
  BY <1>2, OpenedFinite
<1> QED
  BY <1>1, <1>2, <1>3, OpenedLast

(* An operation begins, and ends. *)
LEMMA LeaseIsLeased ==
    ASSUME Lease
    PROVE  Leased(lease, generation, lease', generation', table, table')
BY DEF Lease, Leased, Wraps, NextGeneration

LEMMA BeginStep ==
    ASSUME OwnerInv, NEW f, NEW view \in Roots, calls' = Append(calls, f),
           f.kind \in {"operation", "iterator"}, ~Active, Lease,
           f.kind = "iterator" =>
               caller = "arena" /\ IsOp(f.saved.op) /\ SameOwner(f.saved.op, op'),
           IsOp(op'), op'.depth = 1, SameOwner(Begun(view), op'),
           caller' = caller
    PROVE  OwnerInv'
<1>1. op = Idle /\ Listed(calls) /\ op.depth = 0
  BY OwnerFacts, IdleFacts
<1>2. caller = "arena" => calls = <<>>
  BY NothingOpen
<1>3. Nesting(calls', op', caller')
  <2> DEFINE p == op'
  <2> HIDE DEF p
  <2>1. Nesting(calls, op, caller) /\ IsOp(p) /\ p.depth # 0
    BY DEF OwnerInv, p
  <2>2. /\ f.kind \in FrameKinds /\ f.kind # "callback" /\ Opens(f.kind)
        /\ f.kind \notin {"scope", "workspace"}
        /\ p.depth = op.depth + 1
        /\ f.kind = "iterator" =>
               caller = "arena" /\ IsOp(f.saved.op) /\ SameOwner(f.saved.op, p)
    BY <1>1 DEF FrameKinds, Opens, p
  <2>3. Nesting(Append(calls, f), p, caller)
    BY <2>1, <2>2, <1>2, NestingPush
  <2> QED
    BY <2>3 DEF p
<1>4. SamePlaces(calls, calls')
  BY <1>1, SamePlacesPush
<1>5. /\ op'.view \in Roots /\ op'.owns = ~lease
      /\ op'.index = IF lease THEN NoIndex ELSE DefaultIndex
      /\ ~lease => op'.generation = generation'
  BY DEF SameOwner, Begun, Idle, Lease, NextGeneration, Wraps
<1>6. /\ Ownership(calls', op', lease')
      /\ Freshness(calls', op', table', generation')
  <2>1. Ownership(calls, Idle, lease) /\ Freshness(calls, Idle, table, generation)
    BY <1>1 DEF OwnerInv
  <2> QED
    BY <2>1, <1>4, <1>5, LeaseIsLeased, Beginning
<1> QED
  BY <1>3, <1>6 DEF OwnerInv

LEMMA EndStep ==
    ASSUME OwnerInv, calls # <<>>, calls' = Front(calls),
           Last(calls).kind \in {"operation", "iterator"},
           op.depth = 1, op' = Idle, lease' = (lease /\ ~op.owns),
           UNCHANGED <<table, generation, caller>>
    PROVE  OwnerInv'
<1>1. Listed(calls) /\ Nesting(calls, op, caller)
  BY OwnerFacts DEF OwnerInv
<1>2. Len(calls) \in Nat \ {0} /\ Last(calls) = calls[Len(calls)]
  BY <1>1, PopList
<1>3. caller = "arena" => Len(calls) = 1
  BY LastOpen
<1>4. Nesting(calls', op', caller')
  <2>1. /\ IsOp(Idle) /\ Last(calls).kind # "callback" /\ Opens(Last(calls).kind)
        /\ Idle.depth = op.depth - 1
    BY IdleFacts DEF Opens
  <2>2. Nesting(Front(calls), Idle, caller)
    BY <2>1, <1>1, <1>3, NestingPop
  <2> QED
    BY <2>2
<1>5. SamePlaces(calls, calls')
  BY <1>1, SamePlacesPop
<1>6. /\ Ownership(calls', op', lease')
      /\ Freshness(calls', op', table, generation)
  BY <1>5, Ending DEF OwnerInv
<1> QED
  BY <1>4, <1>6 DEF OwnerInv

-------------------------------------------------------------------------------
(* What an action does to the fields the invariant is about. *)
LEMMA BegunFields ==
    ASSUME NEW view
    PROVE  LET b == Begun(view) IN
           /\ IsOp(b) /\ b.depth = 1 /\ b.view = view /\ b.window = view
           /\ b.buffer = NoBuffer /\ b.size = 0 /\ b.used = 0
           /\ b.front = <<>> /\ b.tails = <<>> /\ b.arrays = NoArrays
           /\ b.exhausted = FALSE
<1>1. DOMAIN Idle = OpFields
  BY DEF Idle, OpFields
<1>2. /\ Idle.buffer = NoBuffer /\ Idle.size = 0 /\ Idle.used = 0
      /\ Idle.front = <<>> /\ Idle.tails = <<>> /\ Idle.arrays = NoArrays
      /\ Idle.exhausted = FALSE
  BY DEF Idle
<1>3. PICK idle : idle = Idle
  OBVIOUS
<1>4. PICK owns, index, taken : Begun(view) =
          [idle EXCEPT !.depth = 1, !.view = view, !.scope = Entire(view),
                       !.window = view, !.owns = owns, !.index = index,
                       !.generation = taken]
  BY <1>3 DEF Begun
<1>5. IsOp(Begun(view))
  BY <1>1, <1>3, <1>4 DEF IsOp, OpFields
<1>6. /\ Begun(view).depth = 1 /\ Begun(view).view = view
      /\ Begun(view).window = view
  BY <1>1, <1>3, <1>4 DEF OpFields
<1>7. /\ Begun(view).buffer = idle.buffer /\ Begun(view).size = idle.size
      /\ Begun(view).used = idle.used /\ Begun(view).front = idle.front
      /\ Begun(view).tails = idle.tails /\ Begun(view).arrays = idle.arrays
      /\ Begun(view).exhausted = idle.exhausted
  BY <1>1, <1>3, <1>4 DEF OpFields
<1> QED
  BY <1>2, <1>3, <1>5, <1>6, <1>7

LEMMA BegunFacts ==
    ASSUME NEW view
    PROVE  IsOp(Begun(view)) /\ Begun(view).depth = 1 /\ Begun(view).window = view
BY BegunFields

LEMMA EnteredFacts ==
    ASSUME NEW o, IsOp(o), NEW view, NEW buffer, NEW retained
    PROVE  /\ IsOp(Entered(o, view, buffer, retained))
           /\ Entered(o, view, buffer, retained).depth = o.depth
           /\ SameOwner(o, Entered(o, view, buffer, retained))
<1>1. /\ IsOp(Fresh(o, view)) /\ Fresh(o, view).depth = o.depth
      /\ SameOwner(o, Fresh(o, view))
  <2>1. CASE Inherits(o, view)
    BY <2>1 DEF Fresh, SameOwner
  <2>2. CASE ~Inherits(o, view)
    BY <2>2 DEF Fresh, SameOwner, IsOp, OpFields
  <2> QED
    BY <2>1, <2>2
<1>2. CASE Replaces(o, view, buffer, retained)
  BY <1>1, <1>2 DEF Entered, SameOwner, IsOp, OpFields
<1>3. CASE ~Replaces(o, view, buffer, retained)
  BY <1>1, <1>3 DEF Entered
<1> QED
  BY <1>2, <1>3

LEMMA LeftFacts ==
    ASSUME NEW o, NEW previous, IsOp(previous.op)
    PROVE  /\ IsOp(Left(o, previous)) /\ Left(o, previous).depth = o.depth
           /\ SameOwner(previous.op, Left(o, previous))
<1> DEFINE q == previous.op
           p == Left(o, previous)
<1>1. DOMAIN q = OpFields
  BY DEF IsOp
<1>2. IsOp(p)
  <2>1. PICK size, arrays, inline, tails, exhausted :
            p = [q EXCEPT !.depth = o.depth, !.size = size, !.arrays = arrays,
                          !.inline = inline, !.tails = tails,
                          !.exhausted = exhausted]
    BY DEF Left
  <2> HIDE DEF p, q
  <2>2. p = [f \in OpFields |-> p[f]]
    BY <1>1, <2>1
  <2> QED BY <2>2 DEF IsOp
<1>3. p.depth = o.depth
  BY <1>1 DEF Left, OpFields
<1>4. /\ p.index = q.index /\ p.generation = q.generation
      /\ p.owns = q.owns /\ p.known = q.known /\ p.view = q.view
  BY <1>1 DEF Left, OpFields
<1> QED
  BY <1>2, <1>3, <1>4 DEF SameOwner

LEMMA OperationBeginStep ==
    ASSUME OwnerInv, NEW view \in Roots, OperationBegin(view)
    PROVE  OwnerInv'
<1> DEFINE f == [kind |-> "operation", saved |-> NoView, before |-> Len(op.front)]
<1>1. calls' = Append(calls, f) /\ caller' = caller /\ f.kind = "operation"
  BY DEF OperationBegin, Call
<1> HIDE DEF f
<1>2. CASE Active
  <2>1. op' = [op EXCEPT !.depth = @ + 1] /\ Same
    BY <1>2 DEF OperationBegin, Nested, Same
  <2>2. IsOp(op') /\ SameOwner(op, op') /\ op'.depth = op.depth + 1
    BY <2>1, OwnerFacts DEF IsOp, OpFields, SameOwner
  <2> QED
    BY <1>1, <1>2, <2>1, <2>2, PushStep
<1>3. CASE ~Active
  <2>1. op' = Begun(view) /\ Lease
    BY <1>3 DEF OperationBegin
  <2>2. IsOp(op') /\ op'.depth = 1 /\ SameOwner(Begun(view), op')
    BY <2>1, BegunFacts DEF SameOwner
  <2> QED
    BY <1>1, <1>3, <2>1, <2>2, BeginStep
<1> QED
  BY <1>2, <1>3

LEMMA OperationBeginOwnedStep ==
    ASSUME OwnerInv, NEW view \in Roots, OperationBeginOwned(view)
    PROVE  OwnerInv'
<1> DEFINE f == [kind |-> "operation", saved |-> NoView, before |-> Len(op.front)]
<1>1. calls' = Append(calls, f) /\ caller' = caller /\ f.kind = "operation"
  BY DEF OperationBeginOwned, Call
<1> HIDE DEF f
<1>2. CASE Active
  <2>1. op' = [op EXCEPT !.depth = @ + 1] /\ Same
    BY <1>2 DEF OperationBeginOwned, Nested, Same
  <2>2. IsOp(op') /\ SameOwner(op, op') /\ op'.depth = op.depth + 1
    BY <2>1, OwnerFacts DEF IsOp, OpFields, SameOwner
  <2> QED
    BY <1>1, <1>2, <2>1, <2>2, PushStep
<1>3. CASE ~Active
  <2>1. Lease
    BY <1>3 DEF OperationBeginOwned
  <2>2. IsOp(op') /\ op'.depth = 1 /\ SameOwner(Begun(view), op')
    <3> DEFINE b == Begun(view)
    <3>1. IsOp(b) /\ b.depth = 1
      BY BegunFacts
    <3>2. op' = [b EXCEPT !.arrays.count = Brackets[view],
                          !.buffer = IF Spills(view) THEN Heap ELSE NoBuffer,
                          !.size   = IF Spills(view) THEN OwnedSize(view) ELSE 0]
      BY <1>3 DEF OperationBeginOwned
    <3> HIDE DEF b
    <3>3. IsOp(op') /\ op'.depth = 1 /\ SameOwner(b, op')
      BY <3>1, <3>2 DEF IsOp, OpFields, SameOwner
    <3> QED
      BY <3>3 DEF b
  <2> QED
    BY <1>1, <1>3, <2>1, <2>2, BeginStep
<1> QED
  BY <1>2, <1>3

LEMMA OperationRefusedStep ==
    ASSUME OwnerInv, NEW view \in Roots, OperationRefused(view)
    PROVE  OwnerInv'
<1> DEFINE l2 == TRUE
<1>1. /\ ~lease /\ op' = op /\ calls' = calls /\ lease' = lease /\ caller' = caller
      /\ Leased(lease, generation, l2, generation', table, table')
  BY DEF OperationRefused, Leased, Wraps, NextGeneration
<1> HIDE DEF l2
<1>2. Freshness(calls, op, table', generation')
  BY <1>1, Refused DEF OwnerInv
<1> QED
  BY <1>1, <1>2 DEF OwnerInv

LEMMA OperationEndStep ==
    ASSUME OwnerInv, OperationEnd
    PROVE  OwnerInv'
<1>1. /\ calls # <<>> /\ calls' = Front(calls) /\ Last(calls).kind = "operation"
      /\ UNCHANGED <<table, generation, caller>>
  BY DEF OperationEnd, Returning, Return
<1>2. op.depth \in Nat \ {0}
  BY <1>1, OpenDepth DEF Opens
<1>3. CASE op.depth > 1
  <2>1. op' = [op EXCEPT !.depth = @ - 1] /\ lease' = lease
    BY <1>3 DEF OperationEnd, Ended
  <2>2. IsOp(op') /\ SameOwner(op, op') /\ op'.depth = op.depth - 1
    BY <2>1, OwnerFacts DEF IsOp, OpFields, SameOwner
  <2>3. Same /\ caller' = caller /\ op'.depth # 0
    BY <1>1, <1>2, <1>3, <2>1, <2>2 DEF Same
  <2> QED
    BY <1>1, <2>2, <2>3, PopStep DEF FrameKinds, Opens
<1>4. CASE op.depth = 1
  BY <1>1, <1>4, EndStep DEF OperationEnd, Ended
<1> QED
  BY <1>2, <1>3, <1>4

LEMMA SuspendStep ==
    ASSUME OwnerInv, Suspend
    PROVE  OwnerInv'
<1> DEFINE f == [kind |-> "callback", saved |-> op, before |-> Len(op.front)]
<1>1. /\ caller = "index" /\ Active /\ op' = Idle /\ calls' = Append(calls, f)
      /\ f.kind = "callback" /\ f.saved = op /\ Same /\ caller' = caller
  BY DEF Suspend, Call, Same
<1> HIDE DEF f
<1>2. op.depth > 0 /\ Listed(calls)
  BY <1>1, OwnerFacts DEF Active
<1>3. Nesting(calls', op', caller')
  <2>1. /\ f.kind \in FrameKinds /\ IsOp(Idle) /\ Nesting(calls, op, caller)
        /\ f.kind \notin {"scope", "workspace", "iterator"} /\ caller # "arena"
    BY <1>1, IdleFacts DEF FrameKinds, OwnerInv
  <2>2. Nesting(Append(calls, f), Idle, caller)
    BY <2>1, <1>1, <1>2, NestingPush
  <2> QED
    BY <2>2, <1>1
<1>4. /\ Ownership(Append(calls, f), Idle, lease)
      /\ Freshness(Append(calls, f), Idle, table, generation)
  BY <1>1, <1>2, Suspending DEF OwnerInv
<1> QED
  BY <1>1, <1>3, <1>4 DEF OwnerInv, Same

(* When a callback returns, its own calls have.                            *)
LEMMA RestoreStep ==
    ASSUME OwnerInv, Restore
    PROVE  OwnerInv'
<1>1. /\ calls # <<>> /\ Last(calls).kind = "callback" /\ calls' = Front(calls)
      /\ op' = Last(calls).saved /\ Same /\ caller' = caller
  BY DEF Restore, Returning, Return, Same
<1>2. Listed(calls) /\ Nesting(calls, op, caller)
  BY OwnerFacts DEF OwnerInv
<1>3. /\ Len(calls) \in Nat \ {0} /\ Last(calls) = calls[Len(calls)]
      /\ DOMAIN calls = 1..Len(calls)
  BY <1>1, <1>2, PopList
<1>4. Frame(calls, Len(calls), op, caller)
  BY <1>2, <1>3 DEF Nesting
<1>5. op = Idle
  <2>1. Cardinality(Opened(calls, Len(calls))) = 0
    BY <1>1, <1>3, OpenedLast
  <2> QED
    BY <2>1, <1>2 DEF Nesting
<1>6. Nesting(calls', op', caller')
  <2> DEFINE p == Last(calls).saved
  <2>1. IsOp(p) /\ p.depth > 0 /\ caller # "arena"
    BY <1>1, <1>3, <1>4 DEF Frame
  <2>2. Nesting(Front(calls), p, caller)
    BY <2>1, <1>1, <1>2, NestingPop
  <2> QED
    BY <2>2, <1>1
<1>7. /\ Ownership(Front(calls), Last(calls).saved, lease)
      /\ Freshness(Front(calls), Last(calls).saved, table, generation)
  <2>1. Ownership(calls, Idle, lease) /\ Freshness(calls, Idle, table, generation)
    BY <1>5 DEF OwnerInv
  <2> QED
    BY <2>1, <1>1, <1>2, Restoring
<1> QED
  BY <1>1, <1>6, <1>7 DEF OwnerInv, Same

LEMMA OperationIndexStep ==
    ASSUME OwnerInv, NEW index \in OwnIndexes, OperationIndex(index)
    PROVE  OwnerInv'
<1>1. /\ caller = "index" /\ op.depth = 1 /\ calls' = calls /\ caller' = caller
      /\ generation' = generation /\ lease' = (lease /\ ~op.owns)
      /\ table' = [table EXCEPT ![index] = Clear]
      /\ op' = [op EXCEPT !.owns = FALSE, !.index = index, !.generation = 1]
  BY DEF OperationIndex
<1>2. /\ IsOp(op') /\ op'.depth = op.depth /\ op'.view = op.view
      /\ op'.owns = FALSE /\ op'.index = index /\ op'.generation = 1
  BY <1>1, OwnerFacts DEF IsOp, OpFields
<1>3. Nesting(calls, op', caller)
  <2>1. Nesting(calls, op, caller) /\ caller # "arena" /\ op.depth # 0
    BY <1>1 DEF OwnerInv
  <2> QED
    BY <2>1, <1>2, NestingStay
<1>4. \A x \in Places(calls) : At(calls, op, x).index # index
  <2>1. \A o \in Suspended \cup {op} : o.index # index
    BY DEF OperationIndex
  <2>2. \A x \in Places(calls) : At(calls, op, x) \in Suspended \cup {op}
    BY DEF Places, At, Suspended
  <2> QED
    BY <2>1, <2>2
<1>5. /\ Ownership(calls, op', lease')
      /\ Freshness(calls, op', table', generation)
  <2> DEFINE p == op'
             l2 == lease'
             tab2 == table'
  <2>1. Bound(calls, op, p, lease, l2, table, tab2, index)
    BY <1>1, <1>2, <1>4 DEF Bound
  <2>2. Ownership(calls, op, lease) /\ Freshness(calls, op, table, generation)
    BY DEF OwnerInv
  <2> HIDE DEF p, l2, tab2
  <2>3. Ownership(calls, p, l2) /\ Freshness(calls, p, tab2, generation)
    BY <2>1, <2>2, Binding
  <2> QED
    BY <2>3 DEF p, l2, tab2
<1> QED
  BY <1>1, <1>3, <1>5 DEF OwnerInv

(* A put writes only the index of the operation that is running.           *)
LEMMA IndexPutStep ==
    ASSUME OwnerInv, NEW key \in Addresses(op.view), NEW kind \in Kinds,
           NEW value \in key..op.view[2], IndexPut(key, kind, value)
    PROVE  OwnerInv'
<1> DEFINE T == table[op.index]
           gen == op.generation
           slots == IF EntrySlots(key, kind) # {} THEN EntrySlots(key, kind)
                    ELSE {s \in {Smallest(key, kind)} : value - key >= Span(s)}
           W == Written(T, slots, key, kind, value, gen)
           K == Learnt(op.known, key, kind, value)
<1>1. /\ caller = "index" /\ Active /\ op.index # NoIndex
      /\ calls' = calls /\ lease' = lease /\ generation' = generation
      /\ caller' = caller
  BY DEF IndexPut
<1>2. /\ IsOp(op) /\ op.depth # 0 /\ Owner(op) /\ Tables(table)
      /\ 0 \in Places(calls) /\ At(calls, op, 0) = op
  BY <1>1, OwnerFacts DEF Active
<1>3. /\ op.index \in OwnIndexes \cup {DefaultIndex} /\ T \in [Slots -> Entry]
      /\ \A s \in Slots : T[s].key <= T[s].value
  BY <1>1, <1>2 DEF Owner, Tables
<1>4. /\ key \in Nat /\ kind \in Nat /\ value \in Nat /\ key <= value
  <2>1. op.view[1] \in Nat /\ op.view[2] \in Nat
    BY <1>2, RuntimeAssumption DEF Owner, NoView
  <2>2. key \in Nat
    BY <2>1 DEF Addresses
  <2> QED
    BY <2>1, <2>2, RuntimeAssumption
<1>5. /\ gen \in Nat \ {0} /\ Sound(T, gen, op.known)
      /\ op.index = DefaultIndex => gen = generation
  BY <1>1, <1>2 DEF OwnerInv, Freshness
<1>6. /\ op'.known = K /\ IsOp(op') /\ op'.depth = op.depth /\ op'.view = op.view
      /\ op'.index = op.index /\ op'.generation = gen /\ op'.owns = op.owns
  <2>1. op' = [op EXCEPT !.known = K]
    BY <1>2 DEF IndexPut, Learnt, IsOp, OpFields
  <2> HIDE DEF K
  <2> QED
    BY <2>1, <1>2 DEF IsOp, OpFields
<1>7. table' = [table EXCEPT ![op.index] = W]
  <2>1. table' = [table EXCEPT ![op.index] =
                     [s \in DOMAIN @ |->
                         IF s \notin slots THEN @[s]
                         ELSE [key |-> key, kind |-> kind, value |-> value,
                               generation |-> op.generation]]]
    BY DEF IndexPut
  <2> HIDE DEF slots
  <2>2. op.index \in DOMAIN table /\ DOMAIN T = Slots
    BY <1>2, <1>3 DEF Tables
  <2> QED
    BY <2>1, <2>2 DEF Written
<1>8. /\ \A s \in Slots : Holding(T, gen, s, key, kind) => s \in slots
      /\ slots = {} \/ \E p \in 0..(Probes - 1) :
             slots = {Slot(key, kind, p)} /\ Passed(T, gen, key, kind, p)
  <2> DEFINE E == EntrySlots(key, kind)
  <2>1. /\ \/ E = {} /\ Passed(T, gen, key, kind, Probes)
           \/ \E p \in 0..(Probes - 1) :
                 E = {Slot(key, kind, p)} /\ Passed(T, gen, key, kind, p)
        /\ \A s \in Slots : Holding(T, gen, s, key, kind) => s \in E
    BY <1>4, <1>5, EntryChoice
  <2> HIDE DEF E
  <2>2. CASE E # {}
    <3>1. slots = E
      BY <2>2 DEF E
    <3> QED
      BY <2>1, <2>2, <3>1
  <2>3. CASE E = {}
    <3>1. \A s \in Slots : ~Holding(T, gen, s, key, kind)
      BY <2>1, <2>3
    <3>2. Passed(T, gen, key, kind, Probes)
      BY <2>1, <2>3
    <3>3. PICK p \in 0..(Probes - 1) : Smallest(key, kind) = Slot(key, kind, p)
      BY <1>3, <1>4, SmallestInWindow
    <3>4. Probes \in Nat
      BY RuntimeAssumption
    <3>5. Passed(T, gen, key, kind, p)
      <4>1. \A q \in 0..(p - 1) : q \in 0..(Probes - 1)
        BY <3>4
      <4> QED
        BY <4>1, <3>2 DEF Passed
    <3>6. slots = {} \/ slots = {Slot(key, kind, p)}
      <4>1. slots = {s \in {Smallest(key, kind)} : value - key >= Span(s)}
        BY <2>3 DEF E
      <4> HIDE DEF slots
      <4> QED
        BY <4>1, <3>3
    <3> QED
      BY <3>1, <3>5, <3>6
  <2> QED
    BY <2>2, <2>3
<1> HIDE DEF slots
<1>9. Sound(W, gen, K)
  BY <1>3, <1>4, <1>5, <1>8, PutSound
<1>10. /\ W \in [Slots -> Entry]
       /\ \A s \in Slots : W[s].key <= W[s].value
       /\ \A s \in Slots : W[s].generation \in {T[s].generation, gen}
  <2>1. [key |-> key, kind |-> kind, value |-> value, generation |-> gen] \in Entry
    BY <1>4, <1>5 DEF Entry
  <2> QED
    BY <2>1, <1>3, <1>4 DEF Written
<1> HIDE DEF W, K
<1>11. /\ Tables(table') /\ table'[op.index] = W
       /\ \A i \in OwnIndexes \cup {DefaultIndex} : i # op.index => table'[i] = table[i]
  BY <1>2, <1>3, <1>7, <1>10 DEF Tables
<1>12. Nesting(calls, op', caller)
  <2>1. Nesting(calls, op, caller) /\ caller # "arena"
    BY <1>1 DEF OwnerInv
  <2> QED
    BY <2>1, <1>2, <1>6, NestingStay
<1>13. /\ At(calls, op', 0) = op'
       /\ \A x \in Places(calls) : x # 0 => At(calls, op', x) = At(calls, op, x)
  BY DEF At
<1>14. Ownership(calls, op', lease)
  <2>1. \A x \in Places(calls) :
            /\ At(calls, op', x).index = At(calls, op, x).index
            /\ At(calls, op', x).owns = At(calls, op, x).owns
            /\ At(calls, op', x).view = At(calls, op, x).view
    BY <1>2, <1>6, <1>13
  <2> QED
    BY <2>1 DEF OwnerInv, Ownership, Owner
<1>15. Freshness(calls, op', table', generation)
  <2>1. ASSUME NEW x \in Places(calls), At(calls, op', x).index # NoIndex
        PROVE  /\ At(calls, op', x).generation \in Nat \ {0}
               /\ At(calls, op', x).index = DefaultIndex =>
                      At(calls, op', x).generation = generation
               /\ Sound(table'[At(calls, op', x).index],
                        At(calls, op', x).generation, At(calls, op', x).known)
    <3>1. CASE x = 0
      BY <3>1, <1>5, <1>6, <1>9, <1>11, <1>13
    <3>2. CASE x # 0
      <4>1. At(calls, op', x) = At(calls, op, x)
        BY <3>2, <1>13
      <4>2. At(calls, op, x).index # op.index
        BY <4>1, <2>1, <3>2, <1>2 DEF OwnerInv, Ownership
      <4>3. At(calls, op, x).index \in OwnIndexes \cup {DefaultIndex}
        BY <4>1, <2>1 DEF OwnerInv, Ownership, Owner
      <4>4. table'[At(calls, op, x).index] = table[At(calls, op, x).index]
        BY <4>2, <4>3, <1>11
      <4> QED
        BY <4>1, <4>4, <2>1 DEF OwnerInv, Freshness
    <3> QED
      BY <3>1, <3>2
  <2>2. \A n \in Slots : table'[DefaultIndex][n].generation <= generation
    <3>1. generation \in Nat
          /\ \A n \in Slots : table[DefaultIndex][n].generation <= generation
      BY DEF OwnerInv, Freshness
    <3>2. CASE op.index = DefaultIndex
      BY <3>1, <3>2, <1>5, <1>10, <1>11
    <3>3. CASE op.index # DefaultIndex
      BY <3>1, <3>3, <1>11
    <3> QED
      BY <3>2, <3>3
  <2>3. generation \in Nat
    BY DEF OwnerInv, Freshness
  <2> QED
    BY <2>1, <2>2, <2>3, <1>11 DEF Freshness
<1> QED
  BY <1>1, <1>12, <1>14, <1>15 DEF OwnerInv

LEMMA ScopeStep ==
    ASSUME OwnerInv,
           \/ \E view \in Parts : ScopeBegin(view)
           \/ ScopeEnd
           \/ \E position \in Addresses(op.view) : ScopeFrontier(position)
    PROVE  OwnerInv'
<1>0. IsOp(op)
  BY OwnerFacts
<1>1. ASSUME NEW view \in Parts, ScopeBegin(view) PROVE OwnerInv'
  <2> DEFINE f == [kind |-> "scope", saved |-> op.scope, before |-> Len(op.front)]
  <2>1. /\ calls' = Append(calls, f) /\ f.kind = "scope" /\ caller = "index"
        /\ Active /\ Same /\ caller' = caller
        /\ op' = [op EXCEPT !.scope = Entire(view)]
    BY <1>1 DEF ScopeBegin, Call, Same
  <2> HIDE DEF f
  <2>2. IsOp(op') /\ SameOwner(op, op') /\ op'.depth = op.depth
    BY <2>1, <1>0 DEF IsOp, OpFields, SameOwner
  <2> QED
    BY <2>1, <2>2, PushStep
<1>2. CASE ScopeEnd
  <2>1. /\ calls # <<>> /\ calls' = Front(calls) /\ Last(calls).kind = "scope"
        /\ Same /\ caller' = caller /\ op' = [op EXCEPT !.scope = Last(calls).saved]
    BY <1>2 DEF ScopeEnd, Returning, Return, Same
  <2>2. IsOp(op') /\ SameOwner(op, op') /\ op'.depth = op.depth
    BY <2>1, <1>0 DEF IsOp, OpFields, SameOwner
  <2>3. op.depth # 0
    BY <2>1, WithinCall
  <2> QED
    BY <2>1, <2>2, <2>3, PopStep DEF FrameKinds, Opens
<1>3. ASSUME NEW position \in Addresses(op.view), ScopeFrontier(position)
      PROVE  OwnerInv'
  <2>1. /\ calls' = calls /\ Active /\ Same /\ caller' = caller
        /\ op' = [op EXCEPT !.scope.frontier = position]
    BY <1>3 DEF ScopeFrontier, Same
  <2>2. IsOp(op') /\ SameOwner(op, op') /\ op'.depth = op.depth
    BY <2>1, <1>0 DEF IsOp, OpFields, SameOwner
  <2> QED
    BY <2>1, <2>2, StayStep
<1> QED
  BY <1>1, <1>2, <1>3

LEMMA WorkspaceStep ==
    ASSUME OwnerInv,
           \/ \E view \in Roots \cup Parts, retained \in BOOLEAN :
                 \E buffer \in Buffers \cup {NoBuffer} :
                     WorkspaceBegin(view, buffer, retained)
           \/ WorkspaceEnd
    PROVE  OwnerInv'
<1>0. IsOp(op) /\ Listed(calls) /\ Nesting(calls, op, caller)
  BY OwnerFacts DEF OwnerInv
<1>1. ASSUME NEW view, NEW buffer, NEW retained,
             WorkspaceBegin(view, buffer, retained)
      PROVE  OwnerInv'
  <2> DEFINE f == [kind |-> "workspace",
                   saved |-> Previous(op, view, buffer, retained),
                   before |-> Len(op.front)]
  <2>1. /\ calls' = Append(calls, f) /\ f.kind = "workspace" /\ caller = "arena"
        /\ f.saved.op = op /\ Active /\ Same /\ caller' = caller
        /\ op' = Entered(op, view, buffer, retained)
    BY <1>1 DEF WorkspaceBegin, Call, Same, Previous
  <2> HIDE DEF f
  <2>2. IsOp(op') /\ SameOwner(op, op') /\ op'.depth = op.depth
    BY <2>1, <1>0, EnteredFacts
  <2> QED
    BY <2>1, <2>2, <1>0, PushStep
<1>2. CASE WorkspaceEnd
  <2>1. /\ calls # <<>> /\ calls' = Front(calls) /\ Last(calls).kind = "workspace"
        /\ Same /\ caller' = caller /\ op' = Left(op, Last(calls).saved)
    BY <1>2 DEF WorkspaceEnd, Returning, Return, Same
  <2>2. /\ Last(calls) = calls[Len(calls)] /\ Len(calls) \in DOMAIN calls
    BY <1>0, <2>1, PopList
  <2>3. IsOp(Last(calls).saved.op) /\ SameOwner(Last(calls).saved.op, op)
    BY <1>0, <2>1, <2>2 DEF Nesting, Frame
  <2>4. IsOp(op') /\ SameOwner(op, op') /\ op'.depth = op.depth
    BY <2>1, <2>3, LeftFacts DEF SameOwner
  <2>5. op.depth # 0
    BY <2>1, WithinCall
  <2> QED
    BY <2>1, <2>4, <2>5, PopStep DEF FrameKinds, Opens
<1> QED
  BY <1>1, <1>2

LEMMA ArenaStep ==
    ASSUME OwnerInv,
           \/ \E size \in Takes : Take(size)
           \/ \E mark \in Taken : Release(mark)
           \/ ArrayFacts
    PROVE  OwnerInv'
<1>0. IsOp(op)
  BY OwnerFacts
<1>1. calls' = calls /\ Active /\ Same /\ caller' = caller
  BY DEF Take, Release, ArrayFacts, Same
<1>2. IsOp(op') /\ SameOwner(op, op') /\ op'.depth = op.depth
  <2>1. ASSUME NEW size, Take(size)
        PROVE  IsOp(op') /\ SameOwner(op, op') /\ op'.depth = op.depth
    <3>1. CASE size > ArenaSize(op) - op.used
      BY <2>1, <3>1, <1>0 DEF Take, IsOp, OpFields, SameOwner
    <3>2. CASE ~(size > ArenaSize(op) - op.used)
      <4>1. op' = [op EXCEPT !.used = @ + size,
                             !.front = Append(@, Extent(Arena(op), op.used, size))]
        BY <2>1, <3>2 DEF Take
      <4> QED
        BY <4>1, <1>0 DEF IsOp, OpFields, SameOwner
    <3> QED
      BY <3>1, <3>2
  <2>2. ASSUME NEW mark, Release(mark)
        PROVE  IsOp(op') /\ SameOwner(op, op') /\ op'.depth = op.depth
    BY <2>2, <1>0 DEF Release, IsOp, OpFields, SameOwner
  <2>3. CASE ArrayFacts
    <3> DEFINE count == IF op.arrays.count # 0 THEN op.arrays.count
                        ELSE Brackets[op.window]
               at(b) == [prepared |-> TRUE, count |-> count, at |-> b]
               need == count * FactSize
    <3>1. \/ op' = [op EXCEPT !.arrays = at(NoBuffer), !.inline = op.window]
          \/ op' = [op EXCEPT !.arrays = at(NoBuffer), !.exhausted = TRUE]
          \/ op' = [op EXCEPT !.arrays = at(op.buffer), !.size = @ - need,
                              !.tails = Append(@, Extent(op.buffer,
                                                         op.size - need, need))]
      BY <2>3 DEF ArrayFacts
    <3> HIDE DEF at, need
    <3>2. CASE op' = [op EXCEPT !.arrays = at(NoBuffer), !.inline = op.window]
      BY <3>2, <1>0 DEF IsOp, OpFields, SameOwner
    <3>3. CASE op' = [op EXCEPT !.arrays = at(NoBuffer), !.exhausted = TRUE]
      BY <3>3, <1>0 DEF IsOp, OpFields, SameOwner
    <3>4. CASE op' = [op EXCEPT !.arrays = at(op.buffer), !.size = @ - need,
                                !.tails = Append(@, Extent(op.buffer,
                                                           op.size - need, need))]
      BY <3>4, <1>0 DEF IsOp, OpFields, SameOwner
    <3> QED
      BY <3>1, <3>2, <3>3, <3>4
  <2> QED
    BY <2>1, <2>2, <2>3
<1> QED
  BY <1>1, <1>2, StayStep

LEMMA IteratorInitStep ==
    ASSUME OwnerInv, NEW view \in Roots, NEW buffer, IteratorInit(view, buffer)
    PROVE  OwnerInv'
<1> DEFINE b == Begun(view)
           e == Entered(b, view, buffer, FALSE)
           f == [kind |-> "iterator", saved |-> Previous(b, view, buffer, FALSE),
                 before |-> Len(op.front)]
<1>1. /\ calls' = Append(calls, f) /\ f.kind = "iterator" /\ caller = "arena"
      /\ f.saved.op = b /\ ~Active /\ Lease /\ caller' = caller
      /\ \E record : op' = [e EXCEPT !.size = @ - RecordSize, !.tails = <<record>>]
  BY DEF IteratorInit, Call, Previous
<1>2. IsOp(b) /\ b.depth = 1
  BY BegunFacts
<1> HIDE DEF f, b
<1>3. IsOp(e) /\ SameOwner(b, e) /\ e.depth = 1
  BY <1>2, EnteredFacts
<1> HIDE DEF e
<1>4. IsOp(op') /\ SameOwner(b, op') /\ op'.depth = 1
  BY <1>1, <1>3 DEF IsOp, OpFields, SameOwner
<1> QED
  BY <1>1, <1>2, <1>4, BeginStep DEF b

LEMMA IteratorNextStep ==
    ASSUME OwnerInv, IteratorKept, IteratorNext
    PROVE  OwnerInv'
<1> DEFINE v == iterator.view
           b == Begun(v)
           e == Entered(b, v, iterator.buffer, FALSE)
           f == [kind |-> "iterator",
                 saved |-> Previous(b, v, iterator.buffer, FALSE),
                 before |-> Len(op.front)]
<1>1. /\ calls' = Append(calls, f) /\ f.kind = "iterator" /\ caller = "arena"
      /\ f.saved.op = b /\ ~Active /\ Lease /\ caller' = caller
      /\ op' = [e EXCEPT !.size = iterator.size, !.arrays = iterator.arrays,
                         !.tails = iterator.tails]
  BY DEF IteratorNext, Call, Previous
<1>2. IsOp(b) /\ b.depth = 1 /\ v \in Roots
  BY BegunFacts DEF IteratorNext, IteratorKept
<1> HIDE DEF f, b
<1>3. IsOp(e) /\ SameOwner(b, e) /\ e.depth = 1
  <2>1. PICK window, buffer : window = v /\ buffer = iterator.buffer
    OBVIOUS
  <2>2. e = Entered(b, window, buffer, FALSE)
    BY <2>1
  <2> HIDE DEF e, v
  <2> QED
    BY <1>2, <2>2, EnteredFacts
<1> HIDE DEF e, v
<1>4. IsOp(op') /\ SameOwner(b, op') /\ op'.depth = 1
  BY <1>1, <1>3 DEF IsOp, OpFields, SameOwner
<1> QED
  BY <1>1, <1>2, <1>4, BeginStep DEF b

LEMMA IteratorEnds ==
    ASSUME OwnerInv, IteratorEnd
    PROVE  /\ calls # <<>> /\ calls' = Front(calls) /\ Len(calls) = 1
           /\ Last(calls).kind = "iterator" /\ op.depth = 1
           /\ op' = Idle /\ lease' = (lease /\ ~op.owns)
           /\ UNCHANGED <<table, generation, caller>>
<1> DEFINE o == Left(op, Last(calls).saved)
<1>1. /\ calls # <<>> /\ calls' = Front(calls) /\ Last(calls).kind = "iterator"
      /\ UNCHANGED <<table, generation, caller>> /\ Ended(o)
  BY DEF IteratorEnd, Returning, Return
<1>2. Listed(calls) /\ Nesting(calls, op, caller)
  BY OwnerFacts DEF OwnerInv
<1>3. /\ Last(calls) = calls[Len(calls)] /\ Len(calls) \in DOMAIN calls
      /\ Len(calls) \in Nat \ {0}
  BY <1>1, <1>2, PopList
<1>4. /\ IsOp(Last(calls).saved.op) /\ SameOwner(Last(calls).saved.op, op)
      /\ Len(calls) = 1
  BY <1>1, <1>2, <1>3 DEF Nesting, Frame
<1>5. o.depth = op.depth /\ o.owns = op.owns
  BY <1>4, LeftFacts DEF SameOwner
<1>6. op.depth = 1
  <2>1. Opened(calls, 0) = {}
    BY DEF Opened
  <2>2. Opens(calls[1].kind)
    BY <1>1, <1>3, <1>4 DEF Opens
  <2>3. Cardinality(Opened(calls, 1)) = Cardinality(Opened(calls, 1 - 1)) + 1
    BY <2>2, OpenedLast
  <2>4. Cardinality(Opened(calls, 1)) = 1
    BY <2>1, <2>3, FS_EmptySet
  <2> QED
    BY <2>4, <1>2, <1>4 DEF Nesting
<1> HIDE DEF o
<1>7. op' = Idle /\ lease' = (lease /\ ~op.owns)
  BY <1>1, <1>5, <1>6 DEF Ended
<1> QED
  BY <1>1, <1>4, <1>6, <1>7

LEMMA IteratorEndStep ==
    ASSUME OwnerInv, IteratorEnd
    PROVE  OwnerInv'
BY IteratorEnds, EndStep

(* The iterator itself. *)
LEMMA IteratorUntouched ==
    ASSUME OwnerInv, IteratorKept, iterator' = iterator,
           \/ calls' = calls
           \/ calls # <<>> /\ calls' = Front(calls)
           \/ \E f : f.kind # "iterator" /\ calls' = Append(calls, f)
    PROVE  IteratorKept'
<1>1. Listed(calls)
  BY OwnerFacts
<1>2. Advancing' => Advancing
  <2> SUFFICES ASSUME NEW i \in DOMAIN calls', calls'[i].kind = "iterator"
               PROVE  \E j \in DOMAIN calls : calls[j].kind = "iterator"
    BY DEF Advancing
  <2> DEFINE t == calls'
  <2>0. i \in DOMAIN t /\ t[i].kind = "iterator"
    OBVIOUS
  <2>1. CASE calls' = calls
    BY <2>1
  <2>2. CASE calls # <<>> /\ calls' = Front(calls)
    <3>1. /\ DOMAIN calls = 1..Len(calls) /\ Len(calls) \in Nat \ {0}
          /\ DOMAIN t = 1..(Len(calls) - 1)
          /\ \A n \in 1..(Len(calls) - 1) : t[n] = calls[n]
      BY <1>1, <2>2, PopList
    <3> HIDE DEF t
    <3> QED
      BY <3>1, <2>0
  <2>3. CASE \E f : f.kind # "iterator" /\ calls' = Append(calls, f)
    <3>1. PICK f : f.kind # "iterator" /\ calls' = Append(calls, f)
      BY <2>3
    <3>2. /\ DOMAIN calls = 1..Len(calls) /\ Len(calls) \in Nat
          /\ DOMAIN t = 1..(Len(calls) + 1)
          /\ \A n \in 1..Len(calls) : t[n] = calls[n]
          /\ t[Len(calls) + 1] = f
      BY <1>1, <3>1, PushList
    <3> HIDE DEF t
    <3>3. i = Len(calls) + 1 \/ i \in 1..Len(calls)
      BY <3>2, <2>0
    <3> QED
      BY <3>1, <3>2, <3>3, <2>0
  <2> QED
    BY <2>1, <2>2, <2>3
<1> QED
  BY <1>2 DEF IteratorKept

LEMMA IteratorKeptStep ==
    ASSUME OwnerInv, IteratorKept, Next
    PROVE  IteratorKept'
<1>0. Listed(calls)
  BY OwnerFacts
<1>1. ASSUME NEW kind, NEW saved, kind # "iterator", Call(kind, saved),
             iterator' = iterator
      PROVE  IteratorKept'
  <2> DEFINE f == [kind |-> kind, saved |-> saved, before |-> Len(op.front)]
  <2>1. f.kind # "iterator" /\ calls' = Append(calls, f)
    BY <1>1 DEF Call
  <2> HIDE DEF f
  <2> QED
    BY <2>1, <1>1, IteratorUntouched
<1>2. ASSUME NEW kind, Returning(kind), Return, iterator' = iterator
      PROVE  IteratorKept'
  BY <1>2, IteratorUntouched DEF Returning, Return
<1>3. ASSUME calls' = calls, iterator' = iterator PROVE IteratorKept'
  BY <1>3, IteratorUntouched
<1>4. CASE \E view \in Roots : OperationBegin(view) \/ OperationBeginOwned(view)
                                 \/ OperationRefused(view)
  BY <1>4, <1>1, <1>3 DEF OperationBegin, OperationBeginOwned, OperationRefused
<1>5. CASE OperationEnd \/ Restore \/ ScopeEnd \/ WorkspaceEnd
  BY <1>5, <1>2 DEF OperationEnd, Restore, ScopeEnd, WorkspaceEnd
<1>6. CASE Suspend \/ (\E view \in Parts : ScopeBegin(view))
  BY <1>6, <1>1 DEF Suspend, ScopeBegin
<1>7. CASE \E view \in Roots \cup Parts, retained \in BOOLEAN :
              \E buffer \in Buffers \cup {NoBuffer} :
                  WorkspaceBegin(view, buffer, retained)
  <2>1. ASSUME NEW view, NEW buffer, NEW retained,
               WorkspaceBegin(view, buffer, retained)
        PROVE  IteratorKept'
    BY <2>1, <1>1 DEF WorkspaceBegin
  <2> QED
    BY <1>7, <2>1
<1>8. CASE \/ \E index \in OwnIndexes : OperationIndex(index)
           \/ \E key \in Addresses(op.view), kind \in Kinds :
                 \E value \in key..op.view[2] : IndexPut(key, kind, value)
           \/ \E position \in Addresses(op.view) : ScopeFrontier(position)
           \/ \E size \in Takes : Take(size)
           \/ \E mark \in Taken : Release(mark)
           \/ ArrayFacts
  BY <1>8, <1>3
     DEF OperationIndex, IndexPut, ScopeFrontier, Take, Release, ArrayFacts
<1>9. CASE \E view \in Roots, buffer \in Buffers : IteratorInit(view, buffer)
  <2>1. PICK view \in Roots, buffer \in Buffers : IteratorInit(view, buffer)
    BY <1>9
  <2>2. iterator' = [open |-> TRUE, view |-> view, buffer |-> buffer]
    BY <2>1 DEF IteratorInit
  <2> QED
    BY <2>2 DEF IteratorKept
<1>10. CASE IteratorNext
  BY <1>10 DEF IteratorNext, IteratorKept
<1>11. CASE IteratorEnd
  <2>1. Advancing
    BY <1>11, <1>0, PopList DEF IteratorEnd, Returning, Advancing
  <2>2. iterator'.view = iterator.view
    BY <1>11 DEF IteratorEnd
  <2> QED
    BY <2>1, <2>2 DEF IteratorKept
<1>12. CASE IteratorDrop
  <2>1. ~Advancing' /\ ~iterator'.open
    BY <1>12 DEF IteratorDrop, Advancing
  <2> QED
    BY <2>1 DEF IteratorKept
<1> QED
  BY <1>4, <1>5, <1>6, <1>7, <1>8, <1>9, <1>10, <1>11, <1>12 DEF Next

-------------------------------------------------------------------------------
(* Invariance. *)
LEMMA Initially == Init => IInv
<1> SUFFICES ASSUME Init PROVE IInv
  OBVIOUS
<1>1. calls = <<>> /\ op = Idle /\ lease = FALSE /\ generation = 0
  BY DEF Init
<1>2. Len(calls) = 0 /\ DOMAIN calls = {}
  BY <1>1
<1>3. Listed(calls)
  <2>1. <<>> \in Seq(ToSet(<<>>))
    OBVIOUS
  <2> QED
    BY <2>1, <1>1 DEF Listed
<1>4. Nesting(calls, op, caller)
  <2>1. Opened(calls, Len(calls)) = {}
    BY <1>2 DEF Opened
  <2>2. Cardinality(Opened(calls, Len(calls))) = 0
    BY <2>1, FS_EmptySet
  <2>3. caller \in {"index", "arena"}
    BY DEF Init
  <2> QED
    BY <2>2, <2>3, <1>1, <1>2, <1>3, IdleFacts DEF Nesting
<1>5. Places(calls) = {0} /\ At(calls, op, 0) = Idle
  BY <1>1, <1>2 DEF Places, At
<1>6. Ownership(calls, op, lease)
  BY <1>1, <1>5, IdleFacts DEF Ownership
<1>7. Freshness(calls, op, table, generation)
  <2>1. table = [i \in OwnIndexes \cup {DefaultIndex} |-> Clear]
    BY DEF Init
  <2>2. Tables(table) /\ table[DefaultIndex] = Clear
    BY <2>1, ClearFacts DEF Tables
  <2> QED
    BY <2>2, <1>1, <1>5, ClearFacts, IdleFacts DEF Freshness
<1>8. IteratorKept
  BY <1>2 DEF Init, IteratorKept, Advancing
<1> QED
  BY <1>4, <1>6, <1>7, <1>8 DEF IInv, OwnerInv

LEMMA Step == IInv /\ [Next]_vars => IInv'
<1> SUFFICES ASSUME OwnerInv, IteratorKept, [Next]_vars PROVE IInv'
  BY DEF IInv
<1>1. CASE Next
  <2>1. IteratorKept'
    BY <1>1, IteratorKeptStep
  <2>2. CASE \E view \in Roots : OperationBegin(view) \/ OperationBeginOwned(view)
                                    \/ OperationRefused(view)
    BY <2>2, <2>1, OperationBeginStep, OperationBeginOwnedStep,
       OperationRefusedStep DEF IInv
  <2>3. CASE OperationEnd \/ Suspend \/ Restore
    BY <2>3, <2>1, OperationEndStep, SuspendStep, RestoreStep DEF IInv
  <2>4. CASE \E index \in OwnIndexes : OperationIndex(index)
    BY <2>4, <2>1, OperationIndexStep DEF IInv
  <2>5. CASE \E key \in Addresses(op.view), kind \in Kinds :
                 \E value \in key..op.view[2] : IndexPut(key, kind, value)
    BY <2>5, <2>1, IndexPutStep DEF IInv
  <2>6. CASE \/ \E view \in Parts : ScopeBegin(view)
             \/ ScopeEnd
             \/ \E position \in Addresses(op.view) : ScopeFrontier(position)
    BY <2>6, <2>1, ScopeStep DEF IInv
  <2>7. CASE \/ \E view \in Roots \cup Parts, retained \in BOOLEAN :
                   \E buffer \in Buffers \cup {NoBuffer} :
                       WorkspaceBegin(view, buffer, retained)
             \/ WorkspaceEnd
    BY <2>7, <2>1, WorkspaceStep DEF IInv
  <2>8. CASE \/ \E size \in Takes : Take(size)
             \/ \E mark \in Taken : Release(mark)
             \/ ArrayFacts
    BY <2>8, <2>1, ArenaStep DEF IInv
  <2>9. CASE \E view \in Roots, buffer \in Buffers : IteratorInit(view, buffer)
    BY <2>9, <2>1, IteratorInitStep DEF IInv
  <2>10. CASE IteratorNext \/ IteratorEnd
    BY <2>10, <2>1, IteratorNextStep, IteratorEndStep DEF IInv
  <2>11. CASE IteratorDrop
    BY <2>11, <2>1 DEF IteratorDrop, IInv, OwnerInv
  <2> QED
    BY <1>1, <2>2, <2>3, <2>4, <2>5, <2>6, <2>7, <2>8, <2>9, <2>10, <2>11 DEF Next
<1>2. CASE UNCHANGED vars
  BY <1>2 DEF vars, IInv, OwnerInv, IteratorKept, Advancing
<1> QED
  BY <1>1, <1>2

(* In every state the calls in progress nest, each operation owns its index *)
(* alone, and every entry of its generation is a fact it put last.         *)
THEOREM Invariance == Spec => []IInv
<1> QED
  BY Initially, Step, PTL DEF Spec

(* LeaseExact (shell_source_operation_begin, _end, _suspend, _restore and  *)
(* _index): the index of the thread has one user at a time, and is free    *)
(* when the last call has returned.                                        *)
THEOREM LeaseExclusive == Spec => []LeaseExact
<1>1. IInv => LeaseExact
  <2> SUFFICES ASSUME IInv PROVE LeaseExact
    OBVIOUS
  <2> DEFINE callbacks == {i \in DOMAIN calls : calls[i].kind = "callback"}
             users == {i \in callbacks : calls[i].saved.index = DefaultIndex}
                      \cup (IF op.index = DefaultIndex THEN {0} ELSE {})
  <2>1. OwnerInv /\ Listed(calls) /\ Nesting(calls, op, caller)
    BY OwnerFacts DEF IInv, OwnerInv
  <2>2. 0 \notin DOMAIN calls /\ lease \in BOOLEAN
    BY <2>1, OwnerFacts DEF Listed
  <2>3. users = {x \in Places(calls) : At(calls, op, x).index = DefaultIndex}
    BY <2>2 DEF Places, At
  <2> HIDE DEF users
  <2>4. DefaultIndex # NoIndex
    BY RuntimeAssumption
  <2>5. Cardinality(users) = IF lease THEN 1 ELSE 0
    <3>1. CASE lease
      <4>1. PICK x \in Places(calls) : At(calls, op, x).index = DefaultIndex
        BY <3>1, <2>1 DEF OwnerInv, Ownership
      <4>2. users = {x}
        BY <4>1, <2>1, <2>3, <2>4 DEF OwnerInv, Ownership
      <4> QED
        BY <4>2, <3>1, FS_Singleton
    <3>2. CASE ~lease
      <4>1. users = {}
        BY <3>2, <2>1, <2>3 DEF OwnerInv, Ownership
      <4> QED
        BY <4>1, <3>2, FS_EmptySet
    <3> QED
      BY <3>1, <3>2
  <2>6. calls = <<>> => ~Active /\ ~lease
    <3> SUFFICES ASSUME calls = <<>> PROVE ~Active /\ ~lease
      OBVIOUS
    <3>1. Opened(calls, Len(calls)) = {} /\ DOMAIN calls = {}
      BY DEF Opened
    <3>2. op.depth = 0 /\ op = Idle
      BY <3>1, <2>1, FS_EmptySet DEF Nesting
    <3>3. Places(calls) = {0} /\ At(calls, op, 0) = Idle
      BY <3>1, <3>2 DEF Places, At
    <3> QED
      BY <3>2, <3>3, <2>1, IdleFacts DEF Active, OwnerInv, Ownership
  <2> QED
    BY <2>5, <2>6 DEF LeaseExact, users
<1> QED
  BY <1>1, Invariance, PTL

(* IndexFresh (shell_source_index_get after any shell_source_index_put): an *)
(* answer is what the operation has put last for that place and kind.      *)
THEOREM IndexAnswersFresh == Spec => []IndexFresh
<1>1. IInv => IndexFresh
  <2> SUFFICES ASSUME IInv, Active, op.index # NoIndex,
                      NEW key \in Addresses(op.view), NEW kind \in Kinds,
                      NEW value \in Known(key, kind)
               PROVE  <<key, kind, value>> \in op.known
    BY DEF IndexFresh
  <2>1. OwnerInv /\ 0 \in Places(calls) /\ At(calls, op, 0) = op /\ Owner(op)
    BY OwnerFacts DEF IInv
  <2>2. Sound(table[op.index], op.generation, op.known)
    BY <2>1 DEF OwnerInv, Freshness
  <2>3. key \in Nat /\ kind \in Nat
    BY <2>1, RuntimeAssumption DEF Owner, NoView, Addresses
  <2>4. PICK s \in EntrySlots(key, kind) :
            Holds(s, key, kind) /\ value = table[op.index][s].value
    BY DEF Known
  <2>5. s \in Slots
    <3>1. PICK p \in 0..(Probes - 1) : EntrySlots(key, kind) = {Slot(key, kind, p)}
      BY <2>2, <2>3, <2>4, EntryChoice
    <3>2. p \in Nat
      BY RuntimeAssumption
    <3> QED
      BY <3>1, <3>2, <2>3, <2>4, SlotRange
  <2> QED
    BY <2>2, <2>4, <2>5 DEF Sound, Holds, Free
<1> QED
  BY <1>1, Invariance, PTL

-------------------------------------------------------------------------------
(* An arena gives blocks from its front, up to used, and keeps facts at its *)
(* tail, from size on.                                                      *)
Extents == [buffer : Buffers \cup {Scratch, Heap}, from : Nat, to : Nat]

Limit(view, buffer) ==
    CASE buffer = Scratch -> ScratchSize
      [] buffer = Heap    -> OwnedSize(view)
      [] OTHER            -> Size[buffer]

Follows(e, d) == d.buffer # e.buffer \/ d.to <= e.from

Packed(o) ==
    /\ o.buffer \in Buffers \cup {Heap, NoBuffer}
    /\ o.used \in Nat /\ o.size \in Nat /\ o.used <= ArenaSize(o)
    /\ o.buffer # NoBuffer =>
           Limit(o.view, o.buffer) \in Nat /\ o.size <= Limit(o.view, o.buffer)
    /\ o.front \in Seq(Extents) /\ o.tails \in Seq(Extents)
    /\ \A i \in DOMAIN o.front :
           /\ o.front[i].from <= o.front[i].to
           /\ o.front[i].to <= Limit(o.view, o.front[i].buffer)
           /\ o.front[i].buffer = Arena(o) => o.front[i].to <= o.used
    /\ \A i, j \in DOMAIN o.front : i < j => Follows(o.front[j], o.front[i])
    /\ \A i \in DOMAIN o.tails :
           /\ o.tails[i].to <= Limit(o.view, o.tails[i].buffer)
           /\ o.tails[i].buffer # Scratch
           /\ o.tails[i].buffer = o.buffer => o.size <= o.tails[i].from
    /\ \A i, j \in DOMAIN o.tails : i # j => Apart(o.tails[i], o.tails[j])
    /\ \A i \in DOMAIN o.front, j \in DOMAIN o.tails : Apart(o.front[i], o.tails[j])

(* The array facts at hand are inline, or the last thing at the tail.      *)
Facts(o) ==
    /\ o.arrays \in [prepared : BOOLEAN, count : Nat,
                     at : Buffers \cup {Heap, NoBuffer}]
    /\ o.exhausted \in BOOLEAN
    /\ o.arrays.prepared =>
          IF o.arrays.at = NoBuffer THEN o.exhausted \/ o.inline = o.window
          ELSE /\ o.arrays.at = o.buffer
               /\ \E i \in DOMAIN o.tails :
                     o.tails[i].buffer = o.buffer /\ o.tails[i].from = o.size

Valid(o) == Packed(o) /\ Facts(o)

(* The levels of an arena: the operation as each workspace call found it,  *)
(* and as it is.                                                           *)
Stacks(kind) == kind \in {"workspace", "iterator"}
Levels(s)    == {i \in DOMAIN s : Stacks(s[i].kind)}
Level(s, o, j) == IF j = Len(s) + 1 THEN o ELSE s[j].saved.op
Adjacent(s, i, j) == i < j /\ \A k \in (i + 1)..(j - 1) : k \notin Levels(s)

(* A level that shares its arena with the one before goes on where that    *)
(* one stands.                                                             *)
Continues(o, previous) ==
    /\ o.buffer = previous.buffer /\ o.window = previous.window
    /\ previous.used <= o.used
    /\ Len(previous.front) <= Len(o.front)
    /\ \A i \in DOMAIN o.front :
           IF i <= Len(previous.front) THEN o.front[i] = previous.front[i]
           ELSE previous.used <= o.front[i].from

(* The buffers of the levels below, and where the extents of a level lie.  *)
Below(s, j) == {Scratch} \cup {s[i].saved.op.buffer :
                                   i \in {k \in Levels(s) : k < j}}

Buffered(s, o, j) ==
    /\ \A i \in DOMAIN o.front : o.front[i].buffer \in Below(s, j) \cup {o.buffer}
    /\ \A i \in DOMAIN o.tails : o.tails[i].buffer \in Below(s, j) \cup {o.buffer}

(* The mark of a call, and what a call found at its level.                 *)
Marked(s, o) ==
    \A i \in DOMAIN s :
        /\ s[i].before \in Nat /\ s[i].before <= Len(o.front)
        /\ \A j \in DOMAIN s : i < j => s[i].before <= s[j].before

Found(f) ==
    /\ Valid(f.saved.op) /\ f.saved.op.window \in Roots \cup Parts
    /\ f.before = Len(f.saved.op.front)
    /\ f.saved.share \in BOOLEAN /\ f.saved.inherit \in BOOLEAN
    /\ f.saved.share => f.saved.inherit
    /\ f.saved.share => f.kind = "workspace"

Linked(s, o) ==
    \A i \in Levels(s), j \in Levels(s) \cup {Len(s) + 1} :
        Adjacent(s, i, j) /\ s[i].saved.share =>
            Continues(Level(s, o, j), s[i].saved.op)

Stacked(s, o) ==
    /\ o.depth # 0 => o.window \in Roots \cup Parts
    /\ Marked(s, o)
    /\ Linked(s, o)
    /\ Buffered(s, o, Len(s) + 1)
    /\ \A i \in Levels(s) : Found(s[i]) /\ Buffered(s, s[i].saved.op, i)

(* What an iterator keeps in its workspace between two calls, and the      *)
(* level that works on it.                                                 *)
Own(tails, buffer) == \A i \in DOMAIN tails : tails[i].buffer = buffer

Kept(it) ==
    /\ Valid([Idle EXCEPT !.buffer = it.buffer, !.size = it.size,
                          !.arrays = it.arrays, !.tails = it.tails])
    /\ it.arrays.prepared => it.arrays.at # NoBuffer
    /\ Own(it.tails, it.buffer)

Iterates(s, o, it) ==
    /\ it.open \in BOOLEAN
    /\ it.open => /\ it.buffer \in Buffers
                  /\ Size[it.buffer] > ScratchSize + RecordSize
    /\ \A i \in Levels(s) : s[i].kind = "iterator" =>
           /\ it.open /\ s[i].saved.op.buffer = NoBuffer
           /\ \A j \in Levels(s) \cup {Len(s) + 1} :
                  Adjacent(s, i, j) => Level(s, o, j).buffer = it.buffer
    /\ it.open /\ (\A i \in Levels(s) : s[i].kind # "iterator") => Kept(it)

ArenaInv ==
    /\ \A x \in Places(calls) : Valid(At(calls, op, x))
    /\ caller = "arena" => Stacked(calls, op)
    /\ Iterates(calls, op, iterator)
-------------------------------------------------------------------------------
(* What a step does to one level. *)
LEMMA ArenaConstants ==
    /\ ScratchSize \in Nat /\ FactSize \in Nat /\ RecordSize \in Nat
    /\ InlineArrays \in Nat
    /\ Scratch # Heap /\ Scratch # NoBuffer /\ Heap # NoBuffer
    /\ Scratch \notin Buffers /\ Heap \notin Buffers /\ NoBuffer \notin Buffers
    /\ \A b \in Buffers : Size[b] \in Nat
    /\ \A v \in Roots \cup Parts : Brackets[v] \in Nat
BY RuntimeAssumption

LEMMA NatProduct ==
    ASSUME NEW a \in Nat, NEW b \in Nat
    PROVE  a * b \in Nat
OBVIOUS

LEMMA ArenaFacts ==
    ASSUME NEW o, Packed(o)
    PROVE  /\ Arena(o) \in Buffers \cup {Scratch, Heap} /\ ArenaSize(o) \in Nat
           /\ Limit(o.view, Arena(o)) \in Nat
           /\ ArenaSize(o) <= Limit(o.view, Arena(o))
           /\ \A i \in DOMAIN o.front : o.front[i] \in Extents
           /\ \A i \in DOMAIN o.tails : o.tails[i] \in Extents
           /\ DOMAIN o.front = 1..Len(o.front) /\ Len(o.front) \in Nat
           /\ DOMAIN o.tails = 1..Len(o.tails) /\ Len(o.tails) \in Nat
           /\ \A i \in DOMAIN o.tails :
                 o.tails[i].buffer = Arena(o) => ArenaSize(o) <= o.tails[i].from
<1>1. CASE o.buffer = NoBuffer
  BY <1>1, ArenaConstants DEF Packed, Arena, ArenaSize, Limit
<1>2. CASE o.buffer # NoBuffer
  BY <1>2, ArenaConstants DEF Packed, Arena, ArenaSize
<1> QED
  BY <1>1, <1>2

LEMMA PushExtent ==
    ASSUME NEW s \in Seq(Extents), NEW e \in Extents
    PROVE  /\ Append(s, e) \in Seq(Extents) /\ Len(s) \in Nat
           /\ Len(Append(s, e)) = Len(s) + 1
           /\ DOMAIN s = 1..Len(s) /\ DOMAIN Append(s, e) = 1..(Len(s) + 1)
           /\ \A i \in 1..Len(s) : Append(s, e)[i] = s[i]
           /\ Append(s, e)[Len(s) + 1] = e
OBVIOUS

(* A take from the front. *)
LEMMA PackedTake ==
    ASSUME NEW o, Packed(o), NEW size \in Nat, size <= ArenaSize(o) - o.used,
           NEW p, p.buffer = o.buffer, p.view = o.view, p.size = o.size,
           p.tails = o.tails, p.used = o.used + size,
           p.front = Append(o.front, Extent(Arena(o), o.used, size))
    PROVE  Packed(p)
<1> DEFINE e == Extent(Arena(o), o.used, size)
           n == Len(o.front)
<1>1. /\ Arena(o) \in Buffers \cup {Scratch, Heap} /\ ArenaSize(o) \in Nat
      /\ Limit(o.view, Arena(o)) \in Nat
      /\ ArenaSize(o) <= Limit(o.view, Arena(o))
      /\ \A i \in DOMAIN o.front : o.front[i] \in Extents
      /\ \A i \in DOMAIN o.tails : o.tails[i] \in Extents
      /\ DOMAIN o.front = 1..n /\ n \in Nat
      /\ \A i \in DOMAIN o.tails :
             o.tails[i].buffer = Arena(o) => ArenaSize(o) <= o.tails[i].from
  BY ArenaFacts
<1>2. /\ o.used \in Nat /\ o.used + size \in Nat /\ o.used + size <= ArenaSize(o)
      /\ o.front \in Seq(Extents)
  BY <1>1 DEF Packed
<1>3. /\ e \in Extents /\ e.buffer = Arena(o) /\ e.from = o.used
      /\ e.to = o.used + size
  BY <1>1, <1>2 DEF Extent, Extents
<1> HIDE DEF e
<1>4. /\ p.front \in Seq(Extents) /\ DOMAIN p.front = 1..(n + 1)
      /\ \A i \in 1..n : p.front[i] = o.front[i]
      /\ p.front[n + 1] = e
  <2>1. p.front = Append(o.front, e)
    BY DEF e
  <2> QED
    BY <2>1, <1>2, <1>3, PushExtent
<1>5. Arena(p) = Arena(o) /\ ArenaSize(p) = ArenaSize(o)
  BY DEF Arena, ArenaSize
<1> HIDE DEF n
<1>6. \A i \in DOMAIN p.front : i = n + 1 \/ i \in 1..n
  BY <1>4, <1>1
<1>7. ASSUME NEW i \in DOMAIN p.front
      PROVE  /\ p.front[i].from <= p.front[i].to
             /\ p.front[i].to <= Limit(p.view, p.front[i].buffer)
             /\ p.front[i].buffer = Arena(p) => p.front[i].to <= p.used
  <2>1. CASE i \in 1..n
    <3>1. o.front[i].to \in Nat
      BY <2>1, <1>1 DEF Extents
    <3>2. p.front[i] = o.front[i] /\ i \in DOMAIN o.front
      BY <2>1, <1>1, <1>4
    <3>3. /\ o.front[i].from <= o.front[i].to
          /\ o.front[i].to <= Limit(o.view, o.front[i].buffer)
          /\ o.front[i].buffer = Arena(o) => o.front[i].to <= o.used
      BY <3>2 DEF Packed
    <3>4. p.view = o.view /\ p.used = o.used + size /\ o.used <= p.used
      BY <1>2
    <3>5. p.front[i].buffer = Arena(p) => p.front[i].to <= p.used
      BY <3>1, <3>2, <3>3, <3>4, <1>2, <1>5
    <3> QED
      BY <3>2, <3>3, <3>4, <3>5
  <2>2. CASE i = n + 1
    BY <2>2, <1>1, <1>2, <1>3, <1>4, <1>5
  <2> QED
    BY <2>1, <2>2, <1>6
<1>8. ASSUME NEW i \in DOMAIN p.front, NEW j \in DOMAIN p.front, i < j
      PROVE  Follows(p.front[j], p.front[i])
  <2>1. i \in 1..n
    BY <1>8, <1>4, <1>1
  <2>2. CASE j \in 1..n
    BY <1>8, <2>1, <2>2, <1>1, <1>4 DEF Packed
  <2>3. CASE j = n + 1
    BY <2>1, <2>3, <1>1, <1>3, <1>4 DEF Packed, Follows
  <2> QED
    BY <2>2, <2>3, <1>6
<1>9. ASSUME NEW i \in DOMAIN p.front, NEW j \in DOMAIN p.tails
      PROVE  Apart(p.front[i], p.tails[j])
  <2>1. CASE i \in 1..n
    BY <2>1, <1>1, <1>4 DEF Packed
  <2>2. CASE i = n + 1
    <3>1. o.tails[j].from \in Nat
      BY <1>1 DEF Extents
    <3> QED
      BY <2>2, <3>1, <1>1, <1>2, <1>3, <1>4 DEF Apart
  <2> QED
    BY <2>1, <2>2, <1>6
<1> QED
  BY <1>2, <1>4, <1>5, <1>7, <1>8, <1>9 DEF Packed

(* A release to a mark. *)
LEMMA CutFront ==
    ASSUME NEW s \in Seq(Extents), NEW m \in 1..Len(s)
    PROVE  /\ SubSeq(s, 1, m - 1) \in Seq(Extents)
           /\ Len(SubSeq(s, 1, m - 1)) = m - 1
           /\ DOMAIN SubSeq(s, 1, m - 1) = 1..(m - 1)
           /\ \A i \in 1..(m - 1) : SubSeq(s, 1, m - 1)[i] = s[i]
OBVIOUS

LEMMA PackedRelease ==
    ASSUME NEW o, Packed(o), NEW m \in DOMAIN o.front,
           o.front[m].buffer = Arena(o),
           NEW p, p.buffer = o.buffer, p.view = o.view, p.size = o.size,
           p.tails = o.tails, p.used = o.front[m].from,
           p.front = SubSeq(o.front, 1, m - 1)
    PROVE  Packed(p)
<1>1. /\ \A i \in DOMAIN o.front : o.front[i] \in Extents
      /\ DOMAIN o.front = 1..Len(o.front) /\ Len(o.front) \in Nat
      /\ ArenaSize(o) \in Nat
  BY ArenaFacts
<1>2. /\ p.front \in Seq(Extents) /\ DOMAIN p.front = 1..(m - 1)
      /\ \A i \in 1..(m - 1) : p.front[i] = o.front[i]
  BY <1>1, CutFront DEF Packed
<1>3. Arena(p) = Arena(o) /\ ArenaSize(p) = ArenaSize(o)
  BY DEF Arena, ArenaSize
<1>4. \A i \in DOMAIN p.front : i \in DOMAIN o.front /\ i < m
  BY <1>1, <1>2
<1>5. p.used \in Nat /\ p.used <= ArenaSize(p)
  <2>1. o.front[m].from \in Nat /\ o.front[m].to \in Nat
    BY <1>1 DEF Extents
  <2> QED
    BY <2>1, <1>1, <1>3 DEF Packed
<1>6. ASSUME NEW i \in DOMAIN p.front
      PROVE  /\ p.front[i].from <= p.front[i].to
             /\ p.front[i].to <= Limit(p.view, p.front[i].buffer)
             /\ p.front[i].buffer = Arena(p) => p.front[i].to <= p.used
  BY <1>2, <1>3, <1>4 DEF Packed, Follows
<1>7. \A i, j \in DOMAIN p.front : i < j => Follows(p.front[j], p.front[i])
  BY <1>2, <1>4 DEF Packed
<1>8. \A i \in DOMAIN p.front, j \in DOMAIN p.tails : Apart(p.front[i], p.tails[j])
  BY <1>2, <1>4 DEF Packed
<1> QED
  BY <1>2, <1>5, <1>6, <1>7, <1>8 DEF Packed

(* Facts reserved at the tail. *)
LEMMA PackedReserve ==
    ASSUME NEW o, Packed(o), o.buffer # NoBuffer,
           NEW need \in Nat, need <= o.size - o.used,
           NEW p, p.buffer = o.buffer, p.view = o.view, p.used = o.used,
           p.front = o.front, p.size = o.size - need,
           p.tails = Append(o.tails, Extent(o.buffer, o.size - need, need))
    PROVE  /\ Packed(p)
           /\ \E i \in DOMAIN p.tails :
                 p.tails[i].buffer = p.buffer /\ p.tails[i].from = p.size
<1> DEFINE e == Extent(o.buffer, o.size - need, need)
           n == Len(o.tails)
<1>1. /\ Arena(o) = o.buffer /\ ArenaSize(o) = o.size
      /\ \A i \in DOMAIN o.front : o.front[i] \in Extents
      /\ \A i \in DOMAIN o.tails : o.tails[i] \in Extents
      /\ DOMAIN o.tails = 1..n /\ n \in Nat
      /\ Arena(p) = o.buffer /\ ArenaSize(p) = o.size - need
  BY ArenaFacts DEF Arena, ArenaSize
<1>2. /\ o.used \in Nat /\ o.size \in Nat /\ o.size - need \in Nat
      /\ o.used <= o.size - need /\ o.tails \in Seq(Extents)
      /\ Limit(o.view, o.buffer) \in Nat /\ o.size <= Limit(o.view, o.buffer)
      /\ o.buffer \in Buffers \cup {Heap}
  BY DEF Packed
<1>3. /\ e \in Extents /\ e.buffer = o.buffer /\ e.from = o.size - need
      /\ e.to = o.size
  BY <1>1, <1>2 DEF Extent, Extents
<1> HIDE DEF e
<1>4. /\ p.tails \in Seq(Extents) /\ DOMAIN p.tails = 1..(n + 1)
      /\ \A i \in 1..n : p.tails[i] = o.tails[i]
      /\ p.tails[n + 1] = e
  <2>1. p.tails = Append(o.tails, e)
    BY DEF e
  <2> QED
    BY <2>1, <1>2, <1>3, PushExtent
<1> HIDE DEF n
<1>5. \A i \in DOMAIN p.tails : i = n + 1 \/ i \in 1..n
  BY <1>4, <1>1
<1>6. ASSUME NEW i \in DOMAIN p.tails
      PROVE  /\ p.tails[i].to <= Limit(p.view, p.tails[i].buffer)
             /\ p.tails[i].buffer # Scratch
             /\ p.tails[i].buffer = p.buffer => p.size <= p.tails[i].from
  <2>1. CASE i \in 1..n
    <3>1. o.tails[i].from \in Nat
      BY <2>1, <1>1 DEF Extents
    <3> QED
      BY <2>1, <3>1, <1>1, <1>2, <1>4 DEF Packed
  <2>2. CASE i = n + 1
    BY <2>2, <1>2, <1>3, <1>4, ArenaConstants
  <2> QED
    BY <2>1, <2>2, <1>5
<1>7. ASSUME NEW i \in 1..n
      PROVE  Apart(o.tails[i], e) /\ Apart(e, o.tails[i])
  BY <1>1, <1>2, <1>3 DEF Apart, Packed
<1>8. ASSUME NEW i \in DOMAIN p.tails, NEW j \in DOMAIN p.tails, i # j
      PROVE  Apart(p.tails[i], p.tails[j])
  <2>1. CASE i \in 1..n /\ j \in 1..n
    BY <1>8, <2>1, <1>1, <1>4 DEF Packed
  <2>2. CASE i \in 1..n /\ j = n + 1
    BY <2>2, <1>4, <1>7
  <2>3. CASE i = n + 1 /\ j \in 1..n
    BY <2>3, <1>4, <1>7
  <2> QED
    BY <1>8, <2>1, <2>2, <2>3, <1>5
<1>9. ASSUME NEW i \in DOMAIN p.front, NEW j \in DOMAIN p.tails
      PROVE  Apart(p.front[i], p.tails[j])
  <2>1. CASE j \in 1..n
    BY <2>1, <1>1, <1>4 DEF Packed
  <2>2. CASE j = n + 1
    <3>1. o.front[i].to \in Nat /\ (o.front[i].buffer = o.buffer => o.front[i].to <= o.used)
      BY <1>1 DEF Packed, Extents
    <3> QED
      BY <2>2, <3>1, <1>2, <1>3, <1>4 DEF Apart
  <2> QED
    BY <2>1, <2>2, <1>5
<1>10. n + 1 \in DOMAIN p.tails
  BY <1>1, <1>4
<1>11. Packed(p)
  <2>1. /\ p.buffer \in Buffers \cup {Heap, NoBuffer} /\ p.used \in Nat
        /\ p.size \in Nat /\ p.used <= ArenaSize(p)
        /\ Limit(p.view, p.buffer) \in Nat /\ p.size <= Limit(p.view, p.buffer)
    BY <1>1, <1>2
  <2>2. /\ p.front \in Seq(Extents)
        /\ \A i \in DOMAIN p.front :
              /\ p.front[i].from <= p.front[i].to
              /\ p.front[i].to <= Limit(p.view, p.front[i].buffer)
              /\ p.front[i].buffer = Arena(p) => p.front[i].to <= p.used
        /\ \A i, j \in DOMAIN p.front : i < j => Follows(p.front[j], p.front[i])
    BY <1>1 DEF Packed
  <2> QED
    BY <2>1, <2>2, <1>4, <1>6, <1>8, <1>9 DEF Packed
<1> QED
  BY <1>3, <1>4, <1>10, <1>11

(* What the arena and the facts of a level depend on. *)
SameArena(o, p) ==
    /\ p.buffer = o.buffer /\ p.view = o.view /\ p.used = o.used /\ p.size = o.size
    /\ p.front = o.front /\ p.tails = o.tails

SameFacts(o, p) ==
    /\ p.arrays = o.arrays /\ p.exhausted = o.exhausted
    /\ p.inline = o.inline /\ p.window = o.window

LEMMA PackedAs ==
    ASSUME NEW o, NEW p, Packed(o), SameArena(o, p)
    PROVE  Packed(p)
<1>1. Arena(p) = Arena(o) /\ ArenaSize(p) = ArenaSize(o)
  BY DEF SameArena, Arena, ArenaSize
<1> QED
  BY <1>1 DEF SameArena, Packed

LEMMA ValidAs ==
    ASSUME NEW o, NEW p, Valid(o), SameArena(o, p), SameFacts(o, p)
    PROVE  Valid(p)
<1>1. Packed(p)
  BY PackedAs DEF Valid
<1>2. Facts(p)
  BY DEF Valid, Facts, SameArena, SameFacts
<1> QED
  BY <1>1, <1>2 DEF Valid

(* An arena that nothing lies in yet. *)
LEMMA PackedFresh ==
    ASSUME NEW o, Packed(o), NEW p, p.view = o.view, p.used = 0,
           p.front = o.front, p.tails = o.tails,
           p.buffer \in Buffers \cup {NoBuffer},
           p.size = IF p.buffer = NoBuffer THEN 0 ELSE Size[p.buffer],
           \A i \in DOMAIN o.front : o.front[i].buffer # Arena(p),
           \A i \in DOMAIN o.tails : o.tails[i].buffer # p.buffer
    PROVE  Packed(p)
<1>1. /\ p.size \in Nat /\ ArenaSize(p) \in Nat
      /\ p.buffer # NoBuffer =>
             Limit(p.view, p.buffer) \in Nat /\ p.size <= Limit(p.view, p.buffer)
  BY ArenaConstants DEF ArenaSize, Limit
<1> QED
  BY <1>1 DEF Packed

LEMMA EnteredValid ==
    ASSUME NEW o, Valid(o), IsOp(o), NEW view, NEW retained,
           NEW buffer \in Buffers \cup {NoBuffer},
           ~Inherits(o, view) =>
               /\ buffer = NoBuffer
               /\ \A i \in DOMAIN o.front : o.front[i].buffer # Scratch,
           Replaces(o, view, buffer, retained) =>
               /\ \A i \in DOMAIN o.front : o.front[i].buffer # buffer
               /\ \A i \in DOMAIN o.tails : o.tails[i].buffer # buffer
    PROVE  /\ Valid(Entered(o, view, buffer, retained))
           /\ Entered(o, view, buffer, retained).front = o.front
           /\ Entered(o, view, buffer, retained).tails = o.tails
           /\ Inherits(o, view) =>
                  Entered(o, view, buffer, retained).window = o.window
           /\ ~Inherits(o, view) =>
                  Entered(o, view, buffer, retained).window = view
           /\ Inherits(o, view) /\ ~Replaces(o, view, buffer, retained) =>
                  Entered(o, view, buffer, retained) = o
<1> DEFINE p == Entered(o, view, buffer, retained)
<1>0. Packed(o) /\ Facts(o)
  BY DEF Valid
<1>1. CASE ~Inherits(o, view)
  <2>1. ~Replaces(o, view, buffer, retained)
    BY <1>1 DEF Replaces
  <2>2. p = [o EXCEPT !.exhausted = FALSE, !.buffer = NoBuffer, !.size = 0,
                      !.used = 0, !.window = view, !.arrays = NoArrays]
    BY <1>1, <2>1 DEF Entered, Fresh
  <2> HIDE DEF p
  <2>3. /\ p.buffer = NoBuffer /\ p.size = 0 /\ p.used = 0 /\ p.view = o.view
        /\ p.front = o.front /\ p.tails = o.tails /\ p.window = view
        /\ p.arrays = NoArrays /\ p.exhausted \in BOOLEAN
    BY <2>2 DEF IsOp, OpFields
  <2>4. /\ \A i \in DOMAIN o.front : o.front[i].buffer # Arena(p)
        /\ \A i \in DOMAIN o.tails : o.tails[i].buffer # p.buffer
    <3>1. Arena(p) = Scratch
      BY <2>3 DEF Arena
    <3>2. \A i \in DOMAIN o.tails : o.tails[i].buffer \in Buffers \cup {Scratch, Heap}
      BY <1>0, ArenaFacts DEF Extents
    <3> QED
      BY <3>1, <3>2, <1>1, <2>3, ArenaConstants
  <2>5. Packed(p)
    BY <1>0, <2>3, <2>4, PackedFresh
  <2>6. Facts(p)
    BY <2>3 DEF Facts, NoArrays
  <2> QED
    BY <2>1, <2>3, <2>5, <2>6, <1>1 DEF Valid, p
<1>2. CASE Inherits(o, view) /\ ~Replaces(o, view, buffer, retained)
  <2>1. p = o
    BY <1>2 DEF Entered, Fresh
  <2> QED
    BY <2>1, <1>2
<1>3. CASE Inherits(o, view) /\ Replaces(o, view, buffer, retained)
  <2>1. p = [o EXCEPT !.buffer = buffer, !.size = Size[buffer],
                      !.used = 0, !.arrays = NoArrays]
    BY <1>3 DEF Entered, Fresh
  <2> HIDE DEF p
  <2>2. /\ p.buffer = buffer /\ p.size = Size[buffer] /\ p.used = 0
        /\ p.view = o.view /\ p.front = o.front /\ p.tails = o.tails
        /\ p.window = o.window /\ p.arrays = NoArrays
        /\ p.exhausted = o.exhausted
    BY <2>1 DEF IsOp, OpFields
  <2>3. buffer # NoBuffer /\ buffer \in Buffers /\ Arena(p) = buffer
    BY <1>3, <2>2 DEF Replaces, Arena
  <2>4. Packed(p)
    BY <1>0, <1>3, <2>2, <2>3, PackedFresh
  <2>5. Facts(p)
    BY <1>0, <2>2 DEF Facts, NoArrays
  <2> QED
    BY <2>2, <2>4, <2>5, <1>3 DEF Valid, p
<1> QED
  BY <1>1, <1>2, <1>3

(* What a consumer leaves behind. *)
LEMMA LeftFields ==
    ASSUME NEW o, NEW previous, IsOp(previous.op), IsOp(o)
    PROVE  LET p == Left(o, previous)
               q == previous.op IN
           /\ p.depth = o.depth /\ p.view = q.view /\ p.buffer = q.buffer
           /\ p.window = q.window /\ p.used = q.used /\ p.front = q.front
           /\ p.exhausted = (q.exhausted \/ (previous.inherit /\ o.exhausted))
           /\ p.size = (IF previous.share THEN o.size ELSE q.size)
           /\ p.arrays = (IF previous.share THEN o.arrays ELSE q.arrays)
           /\ p.tails = (IF previous.share THEN o.tails ELSE q.tails)
           /\ previous.share => p.inline = o.inline
           /\ ~previous.share /\ q.arrays.prepared /\ q.arrays.at = NoBuffer =>
                  p.inline = q.inline
BY DEF Left, IsOp, OpFields

LEMMA LeftValid ==
    ASSUME NEW o, NEW previous, IsOp(previous.op), IsOp(o), Valid(o),
           Valid(previous.op), previous.op.view = o.view,
           previous.share \in BOOLEAN, previous.inherit \in BOOLEAN,
           previous.share => previous.inherit /\ Continues(o, previous.op)
    PROVE  Valid(Left(o, previous))
<1> DEFINE p == Left(o, previous)
           q == previous.op
<1>1. /\ p.view = q.view /\ p.buffer = q.buffer
      /\ p.window = q.window /\ p.used = q.used /\ p.front = q.front
      /\ p.exhausted = (q.exhausted \/ (previous.inherit /\ o.exhausted))
      /\ p.size = (IF previous.share THEN o.size ELSE q.size)
      /\ p.arrays = (IF previous.share THEN o.arrays ELSE q.arrays)
      /\ p.tails = (IF previous.share THEN o.tails ELSE q.tails)
      /\ previous.share => p.inline = o.inline
      /\ ~previous.share /\ q.arrays.prepared /\ q.arrays.at = NoBuffer =>
             p.inline = q.inline
  BY LeftFields
<1> HIDE DEF p
<1>2. Packed(o) /\ Packed(q) /\ Facts(o) /\ Facts(q)
  BY DEF Valid
<1>3. p.exhausted \in BOOLEAN
  BY <1>1, <1>2 DEF Facts
<1>4. CASE ~previous.share
  <2>1. Packed(p)
    BY <1>1, <1>2, <1>4, PackedAs DEF SameArena
  <2>2. q.exhausted => p.exhausted
    BY <1>1
  <2>3. Facts(p)
    BY <1>1, <1>2, <1>3, <1>4, <2>2 DEF Facts
  <2> QED
    BY <2>1, <2>3 DEF Valid, p
<1>5. CASE previous.share
  <2>1. /\ o.buffer = q.buffer /\ o.window = q.window /\ q.used <= o.used
        /\ \A i \in DOMAIN q.front : i \in DOMAIN o.front /\ o.front[i] = q.front[i]
    <3>1. /\ DOMAIN o.front = 1..Len(o.front) /\ DOMAIN q.front = 1..Len(q.front)
          /\ Len(o.front) \in Nat /\ Len(q.front) \in Nat
      BY <1>2, ArenaFacts
    <3>2. Len(q.front) <= Len(o.front)
      BY <1>5 DEF Continues
    <3>3. ASSUME NEW i \in DOMAIN q.front
          PROVE  i \in DOMAIN o.front /\ o.front[i] = q.front[i]
      BY <1>5, <3>1, <3>2 DEF Continues
    <3> QED
      BY <3>3, <1>5 DEF Continues
  <2>2. Arena(p) = Arena(o) /\ ArenaSize(p) = ArenaSize(o) /\ Arena(q) = Arena(o)
    BY <1>1, <1>5, <2>1 DEF Arena, ArenaSize
  <2>3. ArenaSize(o) \in Nat
    BY <1>2, ArenaFacts
  <2>4. Packed(p)
    <3>1. p.used \in Nat /\ p.size \in Nat /\ p.used <= ArenaSize(p)
      BY <1>1, <1>2, <1>5, <2>1, <2>2, <2>3 DEF Packed
    <3>2. /\ p.buffer \in Buffers \cup {Heap, NoBuffer}
          /\ p.buffer # NoBuffer =>
                 Limit(p.view, p.buffer) \in Nat /\ p.size <= Limit(p.view, p.buffer)
      BY <1>1, <1>2, <1>5, <2>1 DEF Packed
    <3>3. /\ p.front \in Seq(Extents)
          /\ \A i \in DOMAIN p.front :
                /\ p.front[i].from <= p.front[i].to
                /\ p.front[i].to <= Limit(p.view, p.front[i].buffer)
                /\ p.front[i].buffer = Arena(p) => p.front[i].to <= p.used
          /\ \A i, j \in DOMAIN p.front : i < j => Follows(p.front[j], p.front[i])
      BY <1>1, <1>2, <2>2 DEF Packed
    <3>4. /\ p.tails \in Seq(Extents)
          /\ \A i \in DOMAIN p.tails :
                /\ p.tails[i].to <= Limit(p.view, p.tails[i].buffer)
                /\ p.tails[i].buffer # Scratch
                /\ p.tails[i].buffer = p.buffer => p.size <= p.tails[i].from
          /\ \A i, j \in DOMAIN p.tails : i # j => Apart(p.tails[i], p.tails[j])
      BY <1>1, <1>2, <1>5, <2>1 DEF Packed
    <3>5. \A i \in DOMAIN p.front, j \in DOMAIN p.tails : Apart(p.front[i], p.tails[j])
      BY <1>1, <1>2, <1>5, <2>1 DEF Packed
    <3> QED
      BY <3>1, <3>2, <3>3, <3>4, <3>5 DEF Packed
  <2>5. o.exhausted => p.exhausted
    BY <1>1, <1>5
  <2>6. Facts(p)
    BY <1>1, <1>2, <1>3, <1>5, <2>1, <2>5 DEF Facts
  <2> QED
    BY <2>4, <2>6 DEF Valid, p
<1> QED
  BY <1>4, <1>5

-------------------------------------------------------------------------------
(* The levels of a longer and of a shorter stack of calls. *)
LEMMA LevelsPush ==
    ASSUME NEW s, Listed(s), NEW f
    PROVE  LET t == Append(s, f)
               n == Len(s) IN
           /\ n \in Nat /\ DOMAIN s = 1..n /\ DOMAIN t = 1..(n + 1)
           /\ Len(t) = n + 1 /\ Levels(s) \subseteq 1..n
           /\ \A i \in 1..n : t[i] = s[i]
           /\ t[n + 1] = f
           /\ Levels(t) = Levels(s) \cup (IF Stacks(f.kind) THEN {n + 1} ELSE {})
           /\ \A i \in 1..n, j \in 1..(n + 1) : Adjacent(t, i, j) <=> Adjacent(s, i, j)
           /\ \A i \in 1..n :
                 Adjacent(t, i, n + 2) <=> ~Stacks(f.kind) /\ Adjacent(s, i, n + 1)
           /\ \A j \in 1..(n + 1) : Below(t, j) = Below(s, j)
           /\ Below(t, n + 2) = Below(s, n + 1) \cup
                  (IF Stacks(f.kind) THEN {f.saved.op.buffer} ELSE {})
<1> DEFINE t == Append(s, f)
           n == Len(s)
<1>1. /\ n \in Nat /\ DOMAIN s = 1..n /\ DOMAIN t = 1..(n + 1)
      /\ Len(t) = n + 1 /\ \A i \in 1..n : t[i] = s[i]
      /\ t[n + 1] = f
  BY PushList
<1> HIDE DEF t, n
<1>2. Levels(s) \subseteq 1..n
  BY <1>1 DEF Levels
<1>3. Levels(t) = Levels(s) \cup (IF Stacks(f.kind) THEN {n + 1} ELSE {})
  <2>1. \A i \in 1..n : i \in Levels(t) <=> i \in Levels(s)
    BY <1>1 DEF Levels
  <2>2. n + 1 \in Levels(t) <=> Stacks(f.kind)
    BY <1>1 DEF Levels
  <2>3. Levels(t) \subseteq 1..(n + 1)
    BY <1>1 DEF Levels
  <2> QED
    BY <2>1, <2>2, <2>3, <1>1, <1>2
<1>4. \A k \in 1..n : k \in Levels(t) <=> k \in Levels(s)
  BY <1>1, <1>3
<1>5. ASSUME NEW i \in 1..n, NEW j \in 1..(n + 1)
      PROVE  Adjacent(t, i, j) <=> Adjacent(s, i, j)
  <2>1. \A k \in (i + 1)..(j - 1) : k \in 1..n
    BY <1>1
  <2> QED
    BY <2>1, <1>4 DEF Adjacent
<1>6. ASSUME NEW i \in 1..n
      PROVE  Adjacent(t, i, n + 2) <=> ~Stacks(f.kind) /\ Adjacent(s, i, n + 1)
  <2>1. \A k : k \in (i + 1)..(n + 2 - 1) <=> k \in (i + 1)..(n + 1 - 1) \/ k = n + 1
    BY <1>1
  <2>2. \A k \in (i + 1)..(n + 1 - 1) : k \in 1..n
    BY <1>1
  <2>3. n + 1 \in Levels(t) <=> Stacks(f.kind)
    BY <1>2, <1>3, <1>1
  <2>4. i < n + 2 /\ i < n + 1 /\ n + 1 \in (i + 1)..(n + 2 - 1)
    BY <1>1
  <2>5. CASE Stacks(f.kind)
    BY <2>3, <2>4, <2>5, <1>1 DEF Adjacent
  <2>6. CASE ~Stacks(f.kind)
    <3>1. \A k \in (i + 1)..(n + 2 - 1) :
              k \notin Levels(t) <=> k = n + 1 \/ k \notin Levels(s)
      BY <2>1, <2>2, <2>3, <2>6, <1>4
    <3>2. Adjacent(t, i, n + 2) => Adjacent(s, i, n + 1)
      BY <2>1, <2>2, <2>4, <1>1, <1>4 DEF Adjacent
    <3>3. Adjacent(s, i, n + 1) => Adjacent(t, i, n + 2)
      BY <2>1, <2>4, <3>1, <1>1 DEF Adjacent
    <3> QED
      BY <2>6, <3>2, <3>3
  <2> QED
    BY <2>5, <2>6
<1>7. ASSUME NEW j \in 1..(n + 1)
      PROVE  Below(t, j) = Below(s, j)
  <2>1. {k \in Levels(t) : k < j} = {k \in Levels(s) : k < j}
    BY <1>1, <1>2, <1>3
  <2>2. \A k \in {m \in Levels(s) : m < j} : t[k] = s[k]
    BY <1>1, <1>2
  <2> QED
    BY <2>1, <2>2 DEF Below
<1>8. Below(t, n + 2) = Below(s, n + 1) \cup
          (IF Stacks(f.kind) THEN {f.saved.op.buffer} ELSE {})
  <2>1. {k \in Levels(t) : k < n + 2} =
            {k \in Levels(s) : k < n + 1} \cup (IF Stacks(f.kind) THEN {n + 1} ELSE {})
    BY <1>1, <1>2, <1>3
  <2>2. \A k \in {m \in Levels(s) : m < n + 1} : t[k] = s[k]
    BY <1>1, <1>2
  <2>3. t[n + 1] = f
    BY <1>1
  <2> QED
    BY <2>1, <2>2, <2>3 DEF Below
<1> QED
  BY <1>1, <1>2, <1>3, <1>5, <1>6, <1>7, <1>8 DEF t, n

(* A call that enters no workspace adds no level.                          *)
LEMMA LevelsCall ==
    ASSUME NEW s, Listed(s), NEW f, ~Stacks(f.kind)
    PROVE  LET t == Append(s, f)
               n == Len(s) IN
           /\ n \in Nat /\ DOMAIN s = 1..n /\ DOMAIN t = 1..(n + 1)
           /\ Len(t) = n + 1 /\ Levels(s) \subseteq 1..n
           /\ \A i \in 1..n : t[i] = s[i]
           /\ t[n + 1] = f
           /\ Levels(t) = Levels(s)
           /\ \A i \in 1..n, j \in 1..(n + 1) : Adjacent(t, i, j) <=> Adjacent(s, i, j)
           /\ \A i \in 1..n : Adjacent(t, i, n + 2) <=> Adjacent(s, i, n + 1)
           /\ \A j \in 1..(n + 1) : Below(t, j) = Below(s, j)
           /\ Below(t, n + 2) = Below(s, n + 1)
<1> DEFINE t == Append(s, f)
           n == Len(s)
<1>1. /\ n \in Nat /\ DOMAIN s = 1..n /\ DOMAIN t = 1..(n + 1)
      /\ Len(t) = n + 1 /\ Levels(s) \subseteq 1..n
      /\ \A i \in 1..n : t[i] = s[i]
      /\ t[n + 1] = f
  BY LevelsPush
<1>2. Levels(t) = Levels(s) \cup (IF Stacks(f.kind) THEN {n + 1} ELSE {})
  BY LevelsPush
<1>3. \A i \in 1..n, j \in 1..(n + 1) : Adjacent(t, i, j) <=> Adjacent(s, i, j)
  BY LevelsPush
<1>4. \A i \in 1..n :
          Adjacent(t, i, n + 2) <=> ~Stacks(f.kind) /\ Adjacent(s, i, n + 1)
  BY LevelsPush
<1>5. \A j \in 1..(n + 1) : Below(t, j) = Below(s, j)
  BY LevelsPush
<1>6. Below(t, n + 2) = Below(s, n + 1) \cup
          (IF Stacks(f.kind) THEN {f.saved.op.buffer} ELSE {})
  BY LevelsPush
<1> HIDE DEF t, n
<1>7. Levels(t) = Levels(s)
  BY <1>2
<1>8. Below(t, n + 2) = Below(s, n + 1)
  BY <1>6
<1> QED
  BY <1>1, <1>3, <1>4, <1>5, <1>7, <1>8 DEF t, n

LEMMA Rejoin ==
    ASSUME NEW s, Listed(s), s # <<>>
    PROVE  /\ s = Append(Front(s), Last(s)) /\ Listed(Front(s))
           /\ Len(Front(s)) = Len(s) - 1 /\ Len(s) \in Nat \ {0}
<1>1. Listed(Front(s)) /\ Len(Front(s)) = Len(s) - 1 /\ Len(s) \in Nat \ {0}
  BY PopList
<1>2. s \in Seq(ToSet(s))
  BY DEF Listed
<1>3. s = Append(Front(s), Last(s))
  BY <1>2 DEF Front, Last
<1> QED
  BY <1>1, <1>3

(* What the stack asks of the level at hand. *)
SameLevel(o, p) ==
    /\ p.buffer = o.buffer /\ p.window = o.window /\ p.used = o.used
    /\ p.front = o.front /\ p.tails = o.tails

Reads(o) == o.depth # 0 => o.window \in Roots \cup Parts

LEMMA BufferedAs ==
    ASSUME NEW s, NEW t, NEW o, NEW p, NEW j, NEW k, Buffered(s, o, j),
           Below(s, j) \cup {o.buffer} \subseteq Below(t, k) \cup {p.buffer},
           p.front = o.front, p.tails = o.tails
    PROVE  Buffered(t, p, k)
BY DEF Buffered

LEMMA ContinuesAs ==
    ASSUME NEW o, NEW p, NEW previous, Continues(o, previous),
           p.buffer = o.buffer, p.window = o.window, p.used = o.used,
           p.front = o.front
    PROVE  Continues(p, previous)
BY DEF Continues

LEMMA StackedCall ==
    ASSUME NEW s, Listed(s), NEW o, Stacked(s, o), NEW f, ~Stacks(f.kind),
           f.before = Len(o.front), Len(o.front) \in Nat,
           NEW p, SameLevel(o, p), Reads(p)
    PROVE  Stacked(Append(s, f), p)
<1> DEFINE t == Append(s, f)
           n == Len(s)
<1>1. /\ n \in Nat /\ DOMAIN s = 1..n /\ DOMAIN t = 1..(n + 1)
      /\ Len(t) = n + 1 /\ Levels(s) \subseteq 1..n
      /\ \A i \in 1..n : t[i] = s[i]
      /\ t[n + 1] = f
      /\ Levels(t) = Levels(s)
      /\ \A i \in 1..n, j \in 1..(n + 1) : Adjacent(t, i, j) <=> Adjacent(s, i, j)
      /\ \A i \in 1..n : Adjacent(t, i, n + 2) <=> Adjacent(s, i, n + 1)
      /\ \A j \in 1..(n + 1) : Below(t, j) = Below(s, j)
      /\ Below(t, n + 2) = Below(s, n + 1)
  BY LevelsCall
<1> HIDE DEF t, n
<1>2. Marked(t, p)
  <2>1. \A i \in 1..n : s[i].before \in Nat /\ s[i].before <= Len(o.front)
    BY <1>1 DEF Stacked, Marked
  <2>2. \A i, j \in 1..n : i < j => s[i].before <= s[j].before
    BY <1>1 DEF Stacked, Marked
  <2> QED
    BY <2>1, <2>2, <1>1 DEF Marked, SameLevel
<1>3. Linked(t, p)
  <2> SUFFICES ASSUME NEW i \in Levels(t), NEW j \in Levels(t) \cup {Len(t) + 1},
                      Adjacent(t, i, j), t[i].saved.share
               PROVE  Continues(Level(t, p, j), t[i].saved.op)
    BY DEF Linked
  <2>1. i \in Levels(s) /\ i \in 1..n /\ t[i] = s[i]
    BY <1>1
  <2>2. CASE j \in Levels(s)
    <3>1. /\ Adjacent(s, i, j) /\ Level(t, p, j) = s[j].saved.op
          /\ Level(s, o, j) = s[j].saved.op
      BY <2>1, <2>2, <1>1 DEF Level
    <3> QED
      BY <2>1, <2>2, <3>1, <1>1 DEF Stacked, Linked
  <2>3. CASE j = n + 2
    <3>1. Adjacent(s, i, n + 1) /\ Level(t, p, j) = p /\ Level(s, o, n + 1) = o
      BY <2>1, <2>3, <1>1 DEF Level
    <3>2. n + 1 \in Levels(s) \cup {Len(s) + 1}
      BY DEF n
    <3>3. Continues(o, s[i].saved.op)
      BY <2>1, <3>1, <3>2 DEF Stacked, Linked
    <3> QED
      BY <2>1, <3>1, <3>3, ContinuesAs DEF SameLevel
  <2> QED
    BY <2>2, <2>3, <1>1
<1>4. Buffered(t, p, Len(t) + 1)
  <2>1. Buffered(s, o, n + 1) /\ Len(t) + 1 = n + 2
    BY <1>1 DEF Stacked, n
  <2> QED
    BY <2>1, <1>1, BufferedAs DEF SameLevel
<1>5. ASSUME NEW i \in Levels(t)
      PROVE  Found(t[i]) /\ Buffered(t, t[i].saved.op, i)
  <2>1. i \in Levels(s) /\ i \in 1..n /\ t[i] = s[i] /\ Below(t, i) = Below(s, i)
    BY <1>1
  <2> QED
    BY <2>1, BufferedAs DEF Stacked
<1> QED
  BY <1>2, <1>3, <1>4, <1>5 DEF Stacked, Reads, t

LEMMA StackedEnter ==
    ASSUME NEW s, Listed(s), NEW q, Stacked(s, q), NEW f, Stacks(f.kind),
           f.saved.op = q, Found(f), Len(q.front) \in Nat,
           NEW p, Reads(p), p.front = q.front,
           \A i \in DOMAIN p.tails :
               \/ p.tails[i].buffer = p.buffer
               \/ \E k \in DOMAIN q.tails : p.tails[i].buffer = q.tails[k].buffer,
           f.saved.share => Continues(p, q)
    PROVE  Stacked(Append(s, f), p)
<1> DEFINE t == Append(s, f)
           n == Len(s)
<1>1. /\ n \in Nat /\ DOMAIN s = 1..n /\ DOMAIN t = 1..(n + 1)
      /\ Len(t) = n + 1 /\ Levels(s) \subseteq 1..n
      /\ \A i \in 1..n : t[i] = s[i]
      /\ t[n + 1] = f
      /\ Levels(t) = Levels(s) \cup {n + 1}
      /\ \A i \in 1..n, j \in 1..(n + 1) : Adjacent(t, i, j) <=> Adjacent(s, i, j)
      /\ \A i \in 1..n : ~Adjacent(t, i, n + 2)
      /\ \A j \in 1..(n + 1) : Below(t, j) = Below(s, j)
      /\ Below(t, n + 2) = Below(s, n + 1) \cup {q.buffer}
  BY LevelsPush
<1> HIDE DEF t, n
<1>2. Marked(t, p)
  <2>1. \A i \in 1..n : s[i].before \in Nat /\ s[i].before <= Len(q.front)
    BY <1>1 DEF Stacked, Marked
  <2>2. \A i, j \in 1..n : i < j => s[i].before <= s[j].before
    BY <1>1 DEF Stacked, Marked
  <2>3. f.before = Len(q.front)
    BY DEF Found
  <2> QED
    BY <2>1, <2>2, <2>3, <1>1 DEF Marked
<1>3. Linked(t, p)
  <2> SUFFICES ASSUME NEW i \in Levels(t), NEW j \in Levels(t) \cup {Len(t) + 1},
                      Adjacent(t, i, j), t[i].saved.share
               PROVE  Continues(Level(t, p, j), t[i].saved.op)
    BY DEF Linked
  <2>0. i < j /\ Len(t) + 1 = n + 2
    BY <1>1 DEF Adjacent
  <2>1. CASE i \in Levels(s)
    <3>1. i \in 1..n /\ t[i] = s[i] /\ j # n + 2
      BY <2>0, <2>1, <1>1
    <3>2. j \in Levels(s) \cup {n + 1} /\ j \in 1..(n + 1)
      BY <3>1, <2>0, <1>1
    <3>3. Adjacent(s, i, j)
      BY <3>1, <3>2, <1>1
    <3>4. Level(t, p, j) = Level(s, q, j)
      BY <3>2, <1>1 DEF Level
    <3>5. Continues(Level(s, q, j), s[i].saved.op)
      BY <2>1, <3>1, <3>2, <3>3 DEF Stacked, Linked, n
    <3> QED
      BY <3>1, <3>4, <3>5
  <2>2. CASE i = n + 1
    <3>1. j = n + 2 /\ t[i] = f
      BY <2>0, <2>2, <1>1
    <3>2. Level(t, p, j) = p
      BY <3>1, <1>1 DEF Level
    <3> QED
      BY <3>1, <3>2
  <2> QED
    BY <2>1, <2>2, <1>1
<1>4. Buffered(t, p, Len(t) + 1)
  <2>1. Buffered(s, q, n + 1) /\ Len(t) + 1 = n + 2
    BY <1>1 DEF Stacked, n
  <2> QED
    BY <2>1, <1>1 DEF Buffered
<1>5. ASSUME NEW i \in Levels(t)
      PROVE  Found(t[i]) /\ Buffered(t, t[i].saved.op, i)
  <2>1. CASE i \in Levels(s)
    <3>1. i \in 1..n /\ t[i] = s[i] /\ Below(t, i) = Below(s, i)
      BY <2>1, <1>1
    <3> QED
      BY <2>1, <3>1, BufferedAs DEF Stacked
  <2>2. CASE i = n + 1
    <3>1. Buffered(s, q, n + 1) /\ t[i] = f /\ Below(t, i) = Below(s, n + 1)
      BY <2>2, <1>1 DEF Stacked, n
    <3> QED
      BY <2>2, <3>1, BufferedAs
  <2> QED
    BY <2>1, <2>2, <1>1
<1> QED
  BY <1>2, <1>3, <1>4, <1>5 DEF Stacked, Reads, t

LEMMA StackedReturn ==
    ASSUME NEW s, Listed(s), NEW f, ~Stacks(f.kind), NEW o,
           Stacked(Append(s, f), o), NEW p, SameLevel(o, p), Reads(p)
    PROVE  Stacked(s, p)
<1> DEFINE t == Append(s, f)
           n == Len(s)
<1>1. /\ n \in Nat /\ DOMAIN s = 1..n /\ DOMAIN t = 1..(n + 1)
      /\ Len(t) = n + 1 /\ Levels(s) \subseteq 1..n
      /\ \A i \in 1..n : t[i] = s[i]
      /\ Levels(t) = Levels(s)
      /\ \A i \in 1..n, j \in 1..(n + 1) : Adjacent(t, i, j) <=> Adjacent(s, i, j)
      /\ \A i \in 1..n : Adjacent(t, i, n + 2) <=> Adjacent(s, i, n + 1)
      /\ \A j \in 1..(n + 1) : Below(t, j) = Below(s, j)
      /\ Below(t, n + 2) = Below(s, n + 1)
  BY LevelsCall
<1>0. Stacked(t, o)
  OBVIOUS
<1> HIDE DEF t
<1>2. Marked(s, p)
  <2>1. \A i \in 1..n : s[i].before \in Nat /\ s[i].before <= Len(o.front)
    BY <1>0, <1>1 DEF Stacked, Marked
  <2>2. \A i, j \in 1..n : i < j => s[i].before <= s[j].before
    BY <1>0, <1>1 DEF Stacked, Marked
  <2> QED
    BY <2>1, <2>2, <1>1 DEF Marked, SameLevel
<1>3. Linked(s, p)
  <2> SUFFICES ASSUME NEW i \in Levels(s), NEW j \in Levels(s) \cup {n + 1},
                      Adjacent(s, i, j), s[i].saved.share
               PROVE  Continues(Level(s, p, j), s[i].saved.op)
    BY DEF Linked
  <2>1. i \in Levels(t) /\ i \in 1..n /\ t[i] = s[i]
    BY <1>1
  <2>2. CASE j \in Levels(s)
    <3>1. /\ j \in Levels(t) /\ j \in 1..(n + 1) /\ Adjacent(t, i, j)
          /\ Level(s, p, j) = s[j].saved.op /\ Level(t, o, j) = s[j].saved.op
      BY <2>1, <2>2, <1>1 DEF Level
    <3> QED
      BY <2>1, <3>1, <1>0 DEF Stacked, Linked
  <2>3. CASE j = n + 1
    <3>1. /\ Adjacent(t, i, n + 2) /\ Level(s, p, j) = p /\ Level(t, o, n + 2) = o
          /\ n + 2 \in Levels(t) \cup {Len(t) + 1}
      BY <2>1, <2>3, <1>1 DEF Level
    <3>2. Continues(o, s[i].saved.op)
      BY <2>1, <3>1, <1>0 DEF Stacked, Linked
    <3> QED
      BY <3>1, <3>2, ContinuesAs DEF SameLevel
  <2> QED
    BY <2>2, <2>3
<1>4. Buffered(s, p, n + 1)
  <2>1. Buffered(t, o, n + 2)
    <3>1. Len(t) + 1 = n + 2
      BY <1>1
    <3> QED
      BY <3>1, <1>0 DEF Stacked
  <2> QED
    BY <2>1, <1>1, BufferedAs DEF SameLevel
<1>5. ASSUME NEW i \in Levels(s)
      PROVE  Found(s[i]) /\ Buffered(s, s[i].saved.op, i)
  <2>1. i \in Levels(t) /\ i \in 1..n /\ t[i] = s[i] /\ Below(t, i) = Below(s, i)
    BY <1>1
  <2> QED
    BY <2>1, <1>0, BufferedAs DEF Stacked
<1> QED
  BY <1>2, <1>3, <1>4, <1>5 DEF Stacked, Reads

LEMMA TopFound ==
    ASSUME NEW s, Listed(s), NEW f, Stacks(f.kind), NEW o,
           Stacked(Append(s, f), o)
    PROVE  /\ Found(f) /\ Buffered(Append(s, f), f.saved.op, Len(s) + 1)
           /\ f.saved.share => Continues(o, f.saved.op)
<1> DEFINE t == Append(s, f)
           n == Len(s)
<1>1. /\ n \in Nat /\ Len(t) = n + 1 /\ t[n + 1] = f
      /\ Levels(t) = Levels(s) \cup {n + 1}
  BY LevelsPush
<1>2. Stacked(t, o)
  OBVIOUS
<1> HIDE DEF t
<1>3. n + 1 \in Levels(t)
  BY <1>1
<1>4. Adjacent(t, n + 1, n + 2)
  <2>1. n + 1 < n + 2 /\ (n + 1 + 1)..(n + 2 - 1) = {}
    BY <1>1
  <2> QED
    BY <2>1 DEF Adjacent
<1>5. n + 2 \in Levels(t) \cup {Len(t) + 1} /\ Level(t, o, n + 2) = o
  BY <1>1 DEF Level
<1>6. f.saved.share => Continues(o, f.saved.op)
  BY <1>1, <1>2, <1>3, <1>4, <1>5 DEF Stacked, Linked
<1>7. Found(f) /\ Buffered(t, f.saved.op, n + 1)
  BY <1>1, <1>2, <1>3 DEF Stacked
<1> QED
  BY <1>6, <1>7 DEF t

LEMMA StackedLeave ==
    ASSUME NEW s, Listed(s), NEW f, Stacks(f.kind), NEW o,
           Stacked(Append(s, f), o), NEW p, Reads(p),
           p.buffer = f.saved.op.buffer, p.window = f.saved.op.window,
           p.used = f.saved.op.used, p.front = f.saved.op.front,
           p.tails = IF f.saved.share THEN o.tails ELSE f.saved.op.tails
    PROVE  Stacked(s, p)
<1> DEFINE t == Append(s, f)
           n == Len(s)
           q == f.saved.op
<1>1. /\ n \in Nat /\ DOMAIN s = 1..n /\ DOMAIN t = 1..(n + 1)
      /\ Len(t) = n + 1 /\ Levels(s) \subseteq 1..n
      /\ \A i \in 1..n : t[i] = s[i]
      /\ t[n + 1] = f
      /\ Levels(t) = Levels(s) \cup {n + 1}
      /\ \A i \in 1..n, j \in 1..(n + 1) : Adjacent(t, i, j) <=> Adjacent(s, i, j)
      /\ \A j \in 1..(n + 1) : Below(t, j) = Below(s, j)
      /\ Below(t, n + 2) = Below(s, n + 1) \cup {q.buffer}
  BY LevelsPush
<1>0. Stacked(t, o)
  OBVIOUS
<1>2. /\ Found(f) /\ Buffered(t, q, n + 1)
      /\ f.saved.share => Continues(o, q)
  BY TopFound
<1> HIDE DEF t
<1>3. Marked(s, p)
  <2>1. ASSUME NEW i \in 1..n
        PROVE  s[i].before \in Nat /\ s[i].before <= f.before
    <3>1. i \in DOMAIN t /\ n + 1 \in DOMAIN t /\ i < n + 1 /\ t[i] = s[i]
      BY <1>1
    <3> QED
      BY <3>1, <1>0, <1>1 DEF Stacked, Marked
  <2>2. \A i, j \in 1..n : i < j => s[i].before <= s[j].before
    BY <1>0, <1>1 DEF Stacked, Marked
  <2> QED
    BY <2>1, <2>2, <1>1, <1>2 DEF Marked, Found
<1>4. Linked(s, p)
  <2> SUFFICES ASSUME NEW i \in Levels(s), NEW j \in Levels(s) \cup {n + 1},
                      Adjacent(s, i, j), s[i].saved.share
               PROVE  Continues(Level(s, p, j), s[i].saved.op)
    BY DEF Linked
  <2>1. /\ i \in Levels(t) /\ i \in 1..n /\ t[i] = s[i]
        /\ j \in Levels(t) /\ j \in 1..(n + 1) /\ Adjacent(t, i, j)
    BY <1>1
  <2>2. Continues(Level(t, o, j), s[i].saved.op)
    BY <2>1, <1>0 DEF Stacked, Linked
  <2>3. CASE j \in Levels(s)
    <3>1. Level(s, p, j) = s[j].saved.op /\ Level(t, o, j) = s[j].saved.op
      BY <2>1, <2>3, <1>1 DEF Level
    <3> QED
      BY <2>2, <3>1
  <2>4. CASE j = n + 1
    <3>1. Level(s, p, j) = p /\ Level(t, o, j) = q
      BY <2>4, <1>1 DEF Level
    <3> QED
      BY <2>2, <3>1, ContinuesAs
  <2> QED
    BY <2>3, <2>4
<1>5. Buffered(s, p, n + 1)
  <2>1. Buffered(t, o, n + 2)
    <3>1. Len(t) + 1 = n + 2
      BY <1>1
    <3> QED
      BY <3>1, <1>0 DEF Stacked
  <2>2. f.saved.share => o.buffer = q.buffer
    BY <1>2 DEF Continues
  <2>3. Below(t, n + 1) = Below(s, n + 1)
    BY <1>1
  <2>4. \A i \in DOMAIN p.front : p.front[i].buffer \in Below(s, n + 1) \cup {p.buffer}
    BY <1>2, <2>3 DEF Buffered
  <2>5. \A i \in DOMAIN p.tails : p.tails[i].buffer \in Below(s, n + 1) \cup {p.buffer}
    <3>1. CASE f.saved.share
      BY <3>1, <2>1, <2>2, <1>1 DEF Buffered
    <3>2. CASE ~f.saved.share
      BY <3>2, <1>2, <2>3 DEF Buffered
    <3> QED
      BY <3>1, <3>2
  <2> QED
    BY <2>4, <2>5 DEF Buffered
<1>6. ASSUME NEW i \in Levels(s)
      PROVE  Found(s[i]) /\ Buffered(s, s[i].saved.op, i)
  <2>1. i \in Levels(t) /\ i \in 1..n /\ t[i] = s[i] /\ Below(t, i) = Below(s, i)
    BY <1>1
  <2> QED
    BY <2>1, <1>0, BufferedAs DEF Stacked
<1> QED
  BY <1>3, <1>4, <1>5, <1>6 DEF Stacked, Reads

(* The call at hand takes blocks, and releases none that it found.         *)
Works(o, p, b) ==
    /\ p.buffer = o.buffer /\ p.window = o.window
    /\ b <= Len(p.front) /\ p.used \in Nat
    /\ \A i \in DOMAIN p.front :
           \/ i \in DOMAIN o.front /\ p.front[i] = o.front[i]
           \/ /\ i = Len(o.front) + 1 /\ p.front[i].buffer = Arena(o)
              /\ p.front[i].from = o.used
    /\ \A i \in DOMAIN p.tails :
           \/ p.tails[i].buffer = o.buffer
           \/ \E k \in DOMAIN o.tails : p.tails[i].buffer = o.tails[k].buffer
    /\ \/ o.used <= p.used
       \/ \E m \in DOMAIN o.front : b < m /\ p.used = o.front[m].from

LEMMA ContinuesWork ==
    ASSUME NEW o, NEW previous, Continues(o, previous), Packed(o),
           Packed(previous), NEW b \in Nat, Len(previous.front) <= b,
           NEW p, Works(o, p, b), Packed(p)
    PROVE  Continues(p, previous)
<1>1. /\ DOMAIN o.front = 1..Len(o.front) /\ Len(o.front) \in Nat
      /\ DOMAIN p.front = 1..Len(p.front) /\ Len(p.front) \in Nat
      /\ Len(previous.front) \in Nat
      /\ \A i \in DOMAIN o.front : o.front[i] \in Extents
  BY ArenaFacts
<1>2. /\ o.used \in Nat /\ p.used \in Nat /\ previous.used \in Nat
      /\ previous.used <= o.used
  BY DEF Packed, Continues
<1>3. \A m \in DOMAIN o.front : b < m => previous.used <= o.front[m].from
  BY <1>1 DEF Continues
<1>4. previous.used <= p.used
  <2>1. CASE o.used <= p.used
    BY <2>1, <1>2
  <2>2. CASE \E m \in DOMAIN o.front : b < m /\ p.used = o.front[m].from
    BY <2>2, <1>3
  <2> QED
    BY <2>1, <2>2 DEF Works
<1>5. Len(previous.front) <= Len(p.front)
  BY <1>1 DEF Works
<1>6. ASSUME NEW i \in DOMAIN p.front
      PROVE  IF i <= Len(previous.front) THEN p.front[i] = previous.front[i]
             ELSE previous.used <= p.front[i].from
  <2>1. CASE i \in DOMAIN o.front /\ p.front[i] = o.front[i]
    BY <2>1 DEF Continues
  <2>2. CASE i = Len(o.front) + 1 /\ p.front[i].from = o.used
    <3>1. ~(i <= Len(previous.front))
      BY <2>2, <1>1 DEF Continues
    <3> QED
      BY <2>2, <3>1, <1>2
  <2> QED
    BY <2>1, <2>2 DEF Works
<1> QED
  BY <1>4, <1>5, <1>6 DEF Continues, Works

LEMMA StackedStay ==
    ASSUME NEW s, Listed(s), s # <<>>, NEW o, Stacked(s, o), Packed(o),
           NEW p, Works(o, p, Last(s).before), Packed(p), Reads(p)
    PROVE  Stacked(s, p)
<1> DEFINE n == Len(s)
           b == Last(s).before
<1>1. /\ n \in Nat \ {0} /\ DOMAIN s = 1..n /\ Last(s) = s[n]
      /\ Levels(s) \subseteq 1..n
  BY PopList DEF Levels
<1>2. /\ \A i \in DOMAIN s : s[i].before \in Nat
      /\ \A i \in DOMAIN s, j \in DOMAIN s : i < j => s[i].before <= s[j].before
  BY DEF Stacked, Marked
<1>3. b \in Nat /\ \A i \in DOMAIN s : s[i].before <= b
  <2>1. n \in DOMAIN s
    BY <1>1
  <2>2. ASSUME NEW i \in DOMAIN s PROVE s[i].before <= s[n].before
    <3>1. CASE i = n
      BY <3>1, <1>2
    <3>2. CASE i < n
      BY <3>2, <2>1, <1>2
    <3> QED
      BY <3>1, <3>2, <1>1
  <2> QED
    BY <2>1, <2>2, <1>1, <1>2
<1>4. Marked(s, p)
  <2>1. Len(p.front) \in Nat /\ b <= Len(p.front)
    BY ArenaFacts DEF Works
  <2> QED
    BY <2>1, <1>2, <1>3 DEF Marked
<1>5. Linked(s, p)
  <2> SUFFICES ASSUME NEW i \in Levels(s), NEW j \in Levels(s) \cup {n + 1},
                      Adjacent(s, i, j), s[i].saved.share
               PROVE  Continues(Level(s, p, j), s[i].saved.op)
    BY DEF Linked
  <2>1. Continues(Level(s, o, j), s[i].saved.op)
    BY DEF Stacked, Linked
  <2>2. CASE j \in Levels(s)
    BY <2>1, <2>2, <1>1 DEF Level
  <2>3. CASE j = n + 1
    <3>1. Level(s, o, j) = o /\ Level(s, p, j) = p
      BY <2>3 DEF Level
    <3>2. /\ Packed(s[i].saved.op) /\ Len(s[i].saved.op.front) = s[i].before
          /\ s[i].before <= b
      BY <1>1, <1>3 DEF Stacked, Found, Valid
    <3> QED
      BY <2>1, <3>1, <3>2, <1>3, ContinuesWork
  <2> QED
    BY <2>2, <2>3
<1>6. Buffered(s, p, n + 1)
  <2>1. Buffered(s, o, n + 1) /\ p.buffer = o.buffer
    BY DEF Stacked, Works
  <2>2. Arena(o) \in Below(s, n + 1) \cup {p.buffer}
    BY <2>1 DEF Arena, Below
  <2>3. \A i \in DOMAIN p.front : p.front[i].buffer \in Below(s, n + 1) \cup {p.buffer}
    BY <2>1, <2>2 DEF Buffered, Works
  <2>4. \A i \in DOMAIN p.tails : p.tails[i].buffer \in Below(s, n + 1) \cup {p.buffer}
    BY <2>1 DEF Buffered, Works
  <2> QED
    BY <2>3, <2>4 DEF Buffered
<1> QED
  BY <1>4, <1>5, <1>6 DEF Stacked, Reads

(* The bottom of the stack. *)
LEMMA StackedFirst ==
    ASSUME NEW o, Reads(o), o.front = <<>>, o.tails = <<>>
    PROVE  Stacked(<<>>, o)
<1>1. DOMAIN (<<>>) = {} /\ Levels(<<>>) = {}
  BY DEF Levels
<1> QED
  BY <1>1 DEF Stacked, Marked, Linked, Buffered, Reads

-------------------------------------------------------------------------------
(* The same for the iterator. *)
LEMMA IteratesPush ==
    ASSUME NEW s, Listed(s), NEW o, NEW it, Iterates(s, o, it), NEW f,
           f.kind # "iterator", NEW p,
           IF Stacks(f.kind) THEN f.saved.op = o ELSE p.buffer = o.buffer
    PROVE  Iterates(Append(s, f), p, it)
<1> DEFINE t == Append(s, f)
           n == Len(s)
<1>1. /\ n \in Nat /\ DOMAIN s = 1..n
      /\ Len(t) = n + 1 /\ Levels(s) \subseteq 1..n
      /\ \A i \in 1..n : t[i] = s[i]
      /\ t[n + 1] = f
      /\ Levels(t) = Levels(s) \cup (IF Stacks(f.kind) THEN {n + 1} ELSE {})
      /\ \A i \in 1..n, j \in 1..(n + 1) : Adjacent(t, i, j) <=> Adjacent(s, i, j)
      /\ \A i \in 1..n :
             Adjacent(t, i, n + 2) <=> ~Stacks(f.kind) /\ Adjacent(s, i, n + 1)
  BY LevelsPush
<1> HIDE DEF t, n
<1>2. ASSUME NEW i \in Levels(t), t[i].kind = "iterator"
      PROVE  i \in Levels(s) /\ i \in 1..n /\ t[i] = s[i]
  BY <1>1, <1>2
<1>3. ASSUME NEW i \in Levels(t), t[i].kind = "iterator",
             NEW j \in Levels(t) \cup {Len(t) + 1}, Adjacent(t, i, j)
      PROVE  Level(t, p, j).buffer = it.buffer
  <2>1. i \in Levels(s) /\ i \in 1..n /\ s[i].kind = "iterator"
    BY <1>2, <1>3
  <2>2. \A k \in Levels(s) \cup {n + 1} :
            Adjacent(s, i, k) => Level(s, o, k).buffer = it.buffer
    BY <2>1 DEF Iterates, n
  <2>3. CASE j \in Levels(s)
    <3>1. /\ Adjacent(s, i, j) /\ Level(t, p, j) = s[j].saved.op
          /\ Level(s, o, j) = s[j].saved.op
      BY <1>3, <2>1, <2>3, <1>1 DEF Level
    <3> QED
      BY <2>2, <2>3, <3>1
  <2>4. CASE j = n + 1 /\ Stacks(f.kind)
    <3>1. /\ Adjacent(s, i, n + 1) /\ Level(t, p, j) = f.saved.op
          /\ Level(s, o, n + 1) = o
      BY <1>3, <2>1, <2>4, <1>1 DEF Level
    <3> QED
      BY <2>2, <2>4, <3>1
  <2>5. CASE j = n + 2
    <3>1. /\ ~Stacks(f.kind) /\ Adjacent(s, i, n + 1) /\ Level(t, p, j) = p
          /\ Level(s, o, n + 1) = o
      BY <1>3, <2>1, <2>5, <1>1 DEF Level
    <3> QED
      BY <2>2, <3>1
  <2> QED
    BY <2>3, <2>4, <2>5, <1>1
<1>4. \A i \in Levels(s) : i \in Levels(t) /\ t[i] = s[i]
  BY <1>1
<1> QED
  BY <1>2, <1>3, <1>4 DEF Iterates, t

LEMMA IteratesPop ==
    ASSUME NEW s, Listed(s), NEW f, f.kind # "iterator", NEW o, NEW it,
           Iterates(Append(s, f), o, it), NEW p,
           p.buffer = IF Stacks(f.kind) THEN f.saved.op.buffer ELSE o.buffer
    PROVE  Iterates(s, p, it)
<1> DEFINE t == Append(s, f)
           n == Len(s)
<1>1. /\ n \in Nat /\ DOMAIN s = 1..n
      /\ Len(t) = n + 1 /\ Levels(s) \subseteq 1..n
      /\ \A i \in 1..n : t[i] = s[i]
      /\ t[n + 1] = f
      /\ Levels(t) = Levels(s) \cup (IF Stacks(f.kind) THEN {n + 1} ELSE {})
      /\ \A i \in 1..n, j \in 1..(n + 1) : Adjacent(t, i, j) <=> Adjacent(s, i, j)
      /\ \A i \in 1..n :
             Adjacent(t, i, n + 2) <=> ~Stacks(f.kind) /\ Adjacent(s, i, n + 1)
  BY LevelsPush
<1>0. Iterates(t, o, it)
  OBVIOUS
<1> HIDE DEF t
<1>2. \A i \in Levels(s) : i \in Levels(t) /\ i \in 1..n /\ t[i] = s[i]
  BY <1>1
<1>3. ASSUME NEW i \in Levels(s), s[i].kind = "iterator",
             NEW j \in Levels(s) \cup {n + 1}, Adjacent(s, i, j)
      PROVE  Level(s, p, j).buffer = it.buffer
  <2>1. i \in Levels(t) /\ i \in 1..n /\ t[i].kind = "iterator"
    BY <1>2, <1>3
  <2>2. \A k \in Levels(t) \cup {Len(t) + 1} :
            Adjacent(t, i, k) => Level(t, o, k).buffer = it.buffer
    BY <2>1, <1>0 DEF Iterates
  <2>3. CASE j \in Levels(s)
    <3>1. /\ j \in Levels(t) /\ Adjacent(t, i, j)
          /\ Level(t, o, j) = s[j].saved.op /\ Level(s, p, j) = s[j].saved.op
      BY <1>3, <2>1, <2>3, <1>1 DEF Level
    <3> QED
      BY <2>2, <3>1
  <2>4. CASE j = n + 1 /\ Stacks(f.kind)
    <3>1. /\ j \in Levels(t) /\ Adjacent(t, i, j) /\ Level(s, p, j) = p
          /\ Level(t, o, j) = f.saved.op
      BY <1>3, <2>1, <2>4, <1>1 DEF Level
    <3> QED
      BY <2>2, <2>4, <3>1
  <2>5. CASE j = n + 1 /\ ~Stacks(f.kind)
    <3>1. /\ n + 2 = Len(t) + 1 /\ Adjacent(t, i, n + 2) /\ Level(s, p, j) = p
          /\ Level(t, o, n + 2) = o
      BY <1>3, <2>1, <2>5, <1>1 DEF Level
    <3> QED
      BY <2>2, <2>5, <3>1
  <2> QED
    BY <2>3, <2>4, <2>5
<1>4. (\A i \in Levels(s) : s[i].kind # "iterator") =>
          \A i \in Levels(t) : t[i].kind # "iterator"
  BY <1>1
<1>5. /\ it.open \in BOOLEAN
      /\ it.open => /\ it.buffer \in Buffers
                    /\ Size[it.buffer] > ScratchSize + RecordSize
      /\ \A i \in Levels(s) : s[i].kind = "iterator" =>
             it.open /\ s[i].saved.op.buffer = NoBuffer
  BY <1>0, <1>2 DEF Iterates
<1>6. it.open /\ (\A i \in Levels(s) : s[i].kind # "iterator") => Kept(it)
  BY <1>0, <1>4 DEF Iterates
<1> QED
  BY <1>3, <1>5, <1>6 DEF Iterates

LEMMA IteratesStay ==
    ASSUME NEW s, NEW o, NEW it, Iterates(s, o, it), NEW p, p.buffer = o.buffer
    PROVE  Iterates(s, p, it)
<1>1. \A j : Level(s, p, j).buffer = Level(s, o, j).buffer
  BY DEF Level
<1> QED
  BY <1>1 DEF Iterates

LEMMA IteratesFree ==
    ASSUME NEW s, NEW t, NEW o, NEW it, Iterates(s, o, it), NEW p,
           Levels(s) = {}, Levels(t) = {}
    PROVE  Iterates(t, p, it)
BY DEF Iterates

(* An iterator call is the first of the stack. *)
LEMMA IteratesFirst ==
    ASSUME NEW f, f.kind = "iterator", f.saved.op.buffer = NoBuffer,
           NEW it, it.open = TRUE, it.buffer \in Buffers,
           Size[it.buffer] > ScratchSize + RecordSize,
           NEW p, p.buffer = it.buffer
    PROVE  Iterates(Append(<<>>, f), p, it)
<1> DEFINE t == Append(<<>>, f)
<1>1. t = <<f>>
  OBVIOUS
<1> HIDE DEF t
<1>2. Len(t) = 1 /\ t[1] = f /\ DOMAIN t = {1}
  BY <1>1
<1>3. Levels(t) = {1}
  BY <1>2 DEF Levels, Stacks
<1>4. \A j \in Levels(t) \cup {Len(t) + 1} : Adjacent(t, 1, j) => Level(t, p, j) = p
  <2>1. \A j \in Levels(t) \cup {Len(t) + 1} : Adjacent(t, 1, j) => j = 2
    BY <1>2, <1>3 DEF Adjacent
  <2> QED
    BY <2>1, <1>2 DEF Level
<1> QED
  BY <1>2, <1>3, <1>4 DEF Iterates, t

LEMMA IteratesLast ==
    ASSUME NEW f, f.kind = "iterator", NEW o, NEW it,
           Iterates(Append(<<>>, f), o, it)
    PROVE  /\ it.open /\ it.buffer \in Buffers
           /\ Size[it.buffer] > ScratchSize + RecordSize
           /\ o.buffer = it.buffer /\ f.saved.op.buffer = NoBuffer
<1> DEFINE t == Append(<<>>, f)
<1>1. t = <<f>>
  OBVIOUS
<1>0. Iterates(t, o, it)
  OBVIOUS
<1> HIDE DEF t
<1>2. Len(t) = 1 /\ t[1] = f /\ DOMAIN t = {1}
  BY <1>1
<1>3. Levels(t) = {1}
  BY <1>2 DEF Levels, Stacks
<1>4. Adjacent(t, 1, 2)
  BY DEF Adjacent
<1>5. Level(t, o, 2) = o /\ 2 \in Levels(t) \cup {Len(t) + 1}
  BY <1>2 DEF Level
<1> QED
  BY <1>0, <1>2, <1>3, <1>4, <1>5 DEF Iterates

-------------------------------------------------------------------------------
(* The shapes an operation takes. *)
LEMMA EmptyExtents ==
    <<>> \in Seq(Extents) /\ DOMAIN (<<>>) = {} /\ Len(<<>>) = 0
<1>1. <<>> \in Seq(Extents)
  OBVIOUS
<1> QED
  BY <1>1

LEMMA NoFacts ==
    ASSUME NEW o, o.arrays = NoArrays, o.exhausted = FALSE
    PROVE  Facts(o)
<1>1. /\ NoArrays \in [prepared : BOOLEAN, count : Nat,
                         at : Buffers \cup {Heap, NoBuffer}]
      /\ ~NoArrays.prepared
  BY DEF NoArrays
<1>2. o.exhausted \in BOOLEAN
  OBVIOUS
<1> QED
  BY <1>1, <1>2 DEF Facts

LEMMA IdleValid ==
    /\ Valid(Idle) /\ Idle.buffer = NoBuffer /\ Idle.front = <<>>
    /\ Idle.tails = <<>> /\ Idle.depth = 0
<1>1. /\ Idle.buffer = NoBuffer /\ Idle.front = <<>> /\ Idle.tails = <<>>
      /\ Idle.depth = 0 /\ Idle.used = 0 /\ Idle.size = 0
      /\ Idle.arrays = NoArrays /\ Idle.exhausted = FALSE
  BY DEF Idle
<1>2. Packed(Idle)
  BY <1>1, EmptyExtents, ArenaConstants DEF Packed, ArenaSize
<1>3. Facts(Idle)
  BY <1>1, NoFacts
<1> QED
  BY <1>1, <1>2, <1>3 DEF Valid

LEMMA BegunValid ==
    ASSUME NEW view
    PROVE  Valid(Begun(view))
<1> DEFINE b == Begun(view)
<1>1. /\ b.buffer = NoBuffer /\ b.size = 0 /\ b.used = 0
      /\ b.front = <<>> /\ b.tails = <<>> /\ b.arrays = NoArrays
      /\ b.exhausted = FALSE
  BY BegunFields
<1> HIDE DEF b
<1>2. Packed(b)
  BY <1>1, EmptyExtents, ArenaConstants DEF Packed, ArenaSize
<1>3. Facts(b)
  BY <1>1, NoFacts
<1>4. Valid(b)
  BY <1>2, <1>3 DEF Valid
<1> QED
  BY <1>4 DEF b

LEMMA OwnedSizeNat ==
    ASSUME NEW view \in Roots
    PROVE  OwnedSize(view) \in Nat /\ Brackets[view] \in Nat
<1>1. /\ Brackets[view] \in Nat /\ FactSize \in Nat /\ ScratchSize \in Nat
      /\ Length(view) \in Nat
  BY RuntimeAssumption DEF Length
<1>2. Brackets[view] * FactSize \in Nat
  BY <1>1, NatProduct
<1>3. (IF view \in Documents THEN 2 * Length(view) ELSE 0) \in Nat
  BY <1>1
<1>4. WorkspaceSize[view] \in Nat
  BY RuntimeAssumption
<1> QED
  BY <1>1, <1>2, <1>3, <1>4 DEF OwnedSize

LEMMA ValidPlaces ==
    ASSUME NEW s, NEW t, NEW o, NEW p, SamePlaces(s, t), Valid(p),
           \A x \in Places(s) : Valid(At(s, o, x))
    PROVE  \A x \in Places(t) : Valid(At(t, p, x))
BY DEF SamePlaces, At, Places

(* The caller that uses the index never enters a workspace. *)
LEMMA IndexLevels ==
    ASSUME NEW s, NEW o, Nesting(s, o, "index")
    PROVE  Levels(s) = {}
BY DEF Nesting, Frame, Levels, Stacks

LEMMA OnIndex ==
    ASSUME OwnerInv, OwnerInv', ArenaInv, caller = "index", caller' = caller,
           iterator' = iterator,
           \A x \in Places(calls') : Valid(At(calls', op', x))
    PROVE  ArenaInv'
<1> DEFINE t == calls'
           p == op'
<1>1. Nesting(calls, op, "index") /\ Nesting(t, p, "index")
  BY DEF OwnerInv
<1>2. Levels(calls) = {} /\ Levels(t) = {}
  BY <1>1, IndexLevels
<1>3. Iterates(calls, op, iterator)
  BY DEF ArenaInv
<1>4. Iterates(t, p, iterator)
  BY <1>2, <1>3, IteratesFree
<1> QED
  BY <1>4 DEF ArenaInv

(* What the invariant says of the operation at hand. *)
LEMMA AtHand ==
    ASSUME OwnerInv, ArenaInv
    PROVE  /\ Valid(op) /\ Packed(op) /\ Facts(op) /\ IsOp(op) /\ Listed(calls)
           /\ Len(op.front) \in Nat
           /\ Iterates(calls, op, iterator)
           /\ caller = "arena" => Stacked(calls, op)
<1>1. 0 \in Places(calls) /\ At(calls, op, 0) = op /\ IsOp(op) /\ Listed(calls)
  BY OwnerFacts
<1>2. Valid(op)
  BY <1>1 DEF ArenaInv
<1>3. Packed(op) /\ Facts(op)
  BY <1>2 DEF Valid
<1> QED
  BY <1>1, <1>2, <1>3, ArenaFacts DEF ArenaInv

LEMMA OnArena ==
    ASSUME ArenaInv, SamePlaces(calls, calls'), Valid(op'), caller' = caller,
           caller = "arena" => Stacked(calls', op'),
           Iterates(calls', op', iterator')
    PROVE  ArenaInv'
<1> DEFINE t == calls'
           p == op'
<1>1. \A x \in Places(t) : Valid(At(t, p, x))
  <2>1. \A x \in Places(calls) : Valid(At(calls, op, x))
    BY DEF ArenaInv
  <2>2. SamePlaces(calls, t) /\ Valid(p)
    OBVIOUS
  <2> HIDE DEF t, p
  <2> QED
    BY <2>1, <2>2, ValidPlaces
<1> QED
  BY <1>1 DEF ArenaInv

-------------------------------------------------------------------------------
(* Operations begin and end. *)
LEMMA SameStep ==
    ASSUME OwnerInv, ArenaInv, SameArena(op, op'), SameFacts(op, op'),
           op'.depth # 0 => op.depth # 0, caller' = caller, iterator' = iterator,
           \/ calls' = calls /\ (caller = "arena" => op' = op)
           \/ \E f : /\ f.kind \in {"operation", "scope"}
                     /\ f.before = Len(op.front) /\ calls' = Append(calls, f)
           \/ /\ calls # <<>> /\ calls' = Front(calls)
              /\ Last(calls).kind \in {"operation", "scope"}
    PROVE  ArenaInv'
<1> DEFINE t == calls'
           p == op'
<1>1. /\ Valid(op) /\ Listed(calls) /\ Len(op.front) \in Nat
      /\ Iterates(calls, op, iterator)
      /\ caller = "arena" => Stacked(calls, op)
  BY AtHand
<1>2. Valid(p)
  BY <1>1, ValidAs
<1>3. SameLevel(op, p) /\ p.buffer = op.buffer
  BY DEF SameArena, SameFacts, SameLevel
<1>4. caller = "arena" => Reads(p)
  BY <1>1, <1>3 DEF Stacked, Reads, SameLevel
<1>5. CASE calls' = calls /\ (caller = "arena" => op' = op)
  <2>1. SamePlaces(calls, t)
    BY <1>5 DEF SamePlaces
  <2>2. caller = "arena" => Stacked(t, p)
    BY <1>1, <1>5
  <2>3. Iterates(t, p, iterator)
    <3>1. Iterates(calls, p, iterator)
      BY <1>1, <1>3, IteratesStay
    <3> QED
      BY <3>1, <1>5
  <2> QED
    BY <2>1, <2>2, <2>3, <1>2, OnArena
<1>6. CASE \E f : /\ f.kind \in {"operation", "scope"}
                  /\ f.before = Len(op.front) /\ calls' = Append(calls, f)
  <2>1. PICK f : /\ f.kind \in {"operation", "scope"}
                 /\ f.before = Len(op.front) /\ t = Append(calls, f)
    BY <1>6
  <2>2. f.kind # "callback" /\ f.kind # "iterator" /\ ~Stacks(f.kind)
    BY <2>1 DEF Stacks
  <2> HIDE DEF t, p
  <2>3. SamePlaces(calls, t)
    BY <2>1, <2>2, <1>1, SamePlacesPush
  <2>4. caller = "arena" => Stacked(t, p)
    BY <2>1, <2>2, <1>1, <1>3, <1>4, StackedCall
  <2>5. Iterates(t, p, iterator)
    BY <2>1, <2>2, <1>1, <1>3, IteratesPush
  <2> QED
    BY <2>3, <2>4, <2>5, <1>2, OnArena DEF t, p
<1>7. CASE /\ calls # <<>> /\ calls' = Front(calls)
           /\ Last(calls).kind \in {"operation", "scope"}
  <2> DEFINE f == Last(calls)
  <2>1. f.kind # "callback" /\ f.kind # "iterator" /\ ~Stacks(f.kind)
    BY <1>7 DEF Stacks
  <2>2. t = Front(calls) /\ calls # <<>>
    BY <1>7
  <2> HIDE DEF t, p
  <2>3. calls = Append(t, f) /\ Listed(t)
    BY <2>2, <1>1, Rejoin
  <2>4. SamePlaces(calls, t)
    BY <2>1, <2>2, <1>1, SamePlacesPop
  <2> HIDE DEF f
  <2>5. caller = "arena" => Stacked(t, p)
    <3> SUFFICES ASSUME caller = "arena" PROVE Stacked(t, p)
      OBVIOUS
    <3>1. Stacked(Append(t, f), op)
      BY <2>3, <1>1
    <3> QED
      BY <3>1, <2>1, <2>3, <1>3, <1>4, StackedReturn
  <2>6. Iterates(t, p, iterator)
    <3>1. Iterates(Append(t, f), op, iterator)
      BY <2>3, <1>1
    <3> QED
      BY <3>1, <2>1, <2>3, <1>3, IteratesPop
  <2> QED
    BY <2>4, <2>5, <2>6, <1>2, OnArena DEF t, p
<1> QED
  BY <1>5, <1>6, <1>7

LEMMA FirstCall ==
    ASSUME OwnerInv, OwnerInv', ArenaInv, ~Active, caller' = caller,
           iterator' = iterator,
           NEW f, f.kind = "operation", f.before = Len(op.front),
           calls' = Append(calls, f),
           Valid(op'), op'.window \in Roots \cup Parts,
           op'.front = <<>>, op'.tails = <<>>
    PROVE  ArenaInv'
<1> DEFINE t == calls'
           p == op'
<1>1. Listed(calls) /\ Iterates(calls, op, iterator) /\ op = Idle
      /\ caller \in {"index", "arena"}
  BY AtHand, OwnerFacts
<1>2. /\ f.kind # "callback" /\ f.kind # "iterator" /\ ~Stacks(f.kind)
      /\ t = Append(calls, f) /\ f.before = 0
  BY <1>1, IdleValid, EmptyExtents DEF Stacks
<1>3. SamePlaces(calls, t)
  BY <1>1, <1>2, SamePlacesPush
<1>4. CASE caller = "index"
  <2>1. \A x \in Places(calls) : Valid(At(calls, op, x))
    BY DEF ArenaInv
  <2>2. Valid(p)
    OBVIOUS
  <2>3. \A x \in Places(t) : Valid(At(t, p, x))
    <3> HIDE DEF t, p
    <3> QED
      BY <2>1, <2>2, <1>3, ValidPlaces
  <2> QED
    BY <2>3, <1>4, OnIndex
<1>5. CASE caller = "arena"
  <2>1. calls = <<>>
    BY <1>5, NothingOpen
  <2>2. /\ p.front = <<>> /\ p.tails = <<>> /\ p.window \in Roots \cup Parts
        /\ Valid(p)
    OBVIOUS
  <2> HIDE DEF t, p
  <2>3. Reads(p) /\ SameLevel(p, p)
    BY <2>2 DEF Reads, SameLevel
  <2>4. Stacked(calls, p)
    BY <2>1, <2>2, <2>3, StackedFirst
  <2>5. f.before = Len(p.front) /\ Len(p.front) \in Nat
    BY <2>2, <1>2, EmptyExtents
  <2>6. Stacked(t, p)
    BY <2>3, <2>4, <2>5, <1>1, <1>2, StackedCall
  <2>7. Levels(calls) = {} /\ Levels(t) = {}
    <3>1. Levels(calls) = {}
      BY <2>1, EmptyExtents DEF Levels
    <3>2. Levels(Append(calls, f)) = Levels(calls)
      BY <1>1, <1>2, LevelsCall
    <3> QED
      BY <3>1, <3>2, <1>2
  <2>8. Iterates(t, p, iterator)
    BY <2>7, <1>1, IteratesFree
  <2> QED
    BY <2>2, <2>6, <2>8, <1>3, OnArena DEF t, p
<1> QED
  BY <1>1, <1>4, <1>5

LEMMA NestedSame ==
    ASSUME IsOp(op), op' = [op EXCEPT !.depth = @ + 1] \/ op' = [op EXCEPT !.depth = @ - 1]
    PROVE  SameArena(op, op') /\ SameFacts(op, op')
BY DEF IsOp, OpFields, SameArena, SameFacts

(* The operation as an owned one begins.                                  *)
BegunOwned(view) ==
    [Begun(view) EXCEPT
        !.arrays.count = Brackets[view],
        !.buffer = IF Spills(view) THEN Heap ELSE NoBuffer,
        !.size   = IF Spills(view) THEN OwnedSize(view) ELSE 0]

LEMMA OwnedValid ==
    ASSUME NEW view \in Roots, NEW p, p = BegunOwned(view)
    PROVE  /\ Valid(p) /\ p.window = view /\ p.front = <<>> /\ p.tails = <<>>
<1> DEFINE b == Begun(view)
           n == Brackets[view]
           z == OwnedSize(view)
           out == Spills(view)
<1>1. /\ IsOp(b) /\ b.view = view /\ b.window = view /\ b.used = 0
      /\ b.front = <<>> /\ b.tails = <<>> /\ b.arrays = NoArrays
      /\ b.exhausted = FALSE
  BY BegunFields
<1>2. n \in Nat /\ z \in Nat
  BY OwnedSizeNat
<1>3. p = [b EXCEPT !.arrays.count = n,
                    !.buffer = IF out THEN Heap ELSE NoBuffer,
                    !.size   = IF out THEN z ELSE 0]
  BY DEF BegunOwned
<1>4. Limit(view, Heap) = z
  BY ArenaConstants DEF Limit
<1> HIDE DEF b, n, z, out
<1>5. /\ p.view = view /\ p.window = view /\ p.used = 0
      /\ p.front = <<>> /\ p.tails = <<>> /\ p.exhausted = FALSE
      /\ p.arrays = [NoArrays EXCEPT !.count = n]
      /\ p.buffer = IF out THEN Heap ELSE NoBuffer
      /\ p.size = IF out THEN z ELSE 0
  BY <1>1, <1>3 DEF IsOp, OpFields
<1>6. /\ p.size \in Nat /\ p.buffer \in {Heap, NoBuffer}
      /\ ArenaSize(p) \in Nat
      /\ p.buffer # NoBuffer =>
             Limit(view, p.buffer) \in Nat /\ p.size <= Limit(view, p.buffer)
  BY <1>2, <1>4, <1>5, ArenaConstants DEF ArenaSize
<1>7. Packed(p)
  <2>1. /\ p.front \in Seq(Extents) /\ DOMAIN p.front = {}
        /\ p.tails \in Seq(Extents) /\ DOMAIN p.tails = {}
    BY <1>5, EmptyExtents
  <2>2. p.used \in Nat /\ p.used <= ArenaSize(p)
    BY <1>5, <1>6
  <2> QED
    BY <2>1, <2>2, <1>5, <1>6 DEF Packed
<1>8. Facts(p)
  <2>1. [NoArrays EXCEPT !.count = n]
            \in [prepared : BOOLEAN, count : Nat, at : Buffers \cup {Heap, NoBuffer}]
    BY <1>2 DEF NoArrays
  <2>2. [NoArrays EXCEPT !.count = n].prepared = FALSE
    BY DEF NoArrays
  <2>3. /\ p.arrays \in [prepared : BOOLEAN, count : Nat,
                         at : Buffers \cup {Heap, NoBuffer}]
        /\ p.arrays.prepared = FALSE
    BY <2>1, <2>2, <1>5
  <2>4. p.exhausted \in BOOLEAN
    BY <1>5
  <2> QED
    BY <2>3, <2>4 DEF Facts
<1> QED
  BY <1>5, <1>7, <1>8 DEF Valid

LEMMA BeginArena ==
    ASSUME OwnerInv, OwnerInv', ArenaInv, NEW view \in Roots,
           OperationBegin(view) \/ OperationBeginOwned(view)
    PROVE  ArenaInv'
<1> DEFINE f == [kind |-> "operation", saved |-> NoView, before |-> Len(op.front)]
<1>1. /\ calls' = Append(calls, f) /\ caller' = caller /\ iterator' = iterator
      /\ f.kind = "operation" /\ f.before = Len(op.front)
  BY DEF OperationBegin, OperationBeginOwned, Call
<1> HIDE DEF f
<1>2. CASE Active
  <2>1. op' = [op EXCEPT !.depth = @ + 1]
    BY <1>2 DEF OperationBegin, OperationBeginOwned, Nested
  <2>2. SameArena(op, op') /\ SameFacts(op, op')
    BY <2>1, AtHand, NestedSame
  <2>3. op.depth # 0
    BY <1>2, OwnerFacts DEF Active
  <2> QED
    BY <2>2, <2>3, <1>1, SameStep
<1>3. CASE ~Active /\ OperationBegin(view)
  <2>1. op' = Begun(view)
    BY <1>3 DEF OperationBegin
  <2>2. Valid(op') /\ op'.window = view /\ op'.front = <<>> /\ op'.tails = <<>>
    BY <2>1, BegunValid, BegunFields
  <2> QED
    BY <2>2, <1>1, <1>3, FirstCall
<1>4. CASE ~Active /\ OperationBeginOwned(view)
  <2>1. op' = [Begun(view) EXCEPT
                  !.arrays.count = Brackets[view],
                  !.buffer = IF Spills(view) THEN Heap ELSE NoBuffer,
                  !.size   = IF Spills(view) THEN OwnedSize(view) ELSE 0]
    BY <1>4 DEF OperationBeginOwned
  <2>2. Valid(op') /\ op'.window = view /\ op'.front = <<>> /\ op'.tails = <<>>
    <3> DEFINE p == op'
    <3> HIDE DEF p
    <3>1. Valid(p) /\ p.window = view /\ p.front = <<>> /\ p.tails = <<>>
      <4>1. p = BegunOwned(view)
        BY <2>1 DEF p, BegunOwned
      <4> QED
        BY <4>1, OwnedValid
    <3> QED
      BY <3>1 DEF p
  <2> QED
    BY <2>2, <1>1, <1>4, FirstCall
<1> QED
  BY <1>2, <1>3, <1>4

LEMMA EndArena ==
    ASSUME OwnerInv, OwnerInv', ArenaInv, OperationEnd
    PROVE  ArenaInv'
<1>1. /\ calls # <<>> /\ calls' = Front(calls) /\ Last(calls).kind = "operation"
      /\ caller' = caller /\ iterator' = iterator /\ Ended(op)
  BY DEF OperationEnd, Returning, Return
<1>2. op.depth \in Nat \ {0}
  BY <1>1, OpenDepth DEF Opens
<1>3. /\ IsOp(op) /\ Listed(calls) /\ caller \in {"index", "arena"}
      /\ Iterates(calls, op, iterator)
  BY AtHand, OwnerFacts
<1>4. CASE op.depth > 1
  <2>1. op' = [op EXCEPT !.depth = @ - 1]
    BY <1>4 , <1>1 DEF Ended
  <2>2. SameArena(op, op') /\ SameFacts(op, op')
    BY <2>1, <1>3, NestedSame
  <2> QED
    BY <2>2, <1>1, <1>2, SameStep
<1>5. CASE op.depth = 1
  <2>1. op' = Idle /\ Valid(op')
    BY <1>1, <1>5, IdleValid DEF Ended
  <2>2. SamePlaces(calls, calls')
    BY <1>1, <1>3, SamePlacesPop
  <2>3. CASE caller = "index"
    <3> DEFINE t == calls'
               p == op'
    <3>1. \A x \in Places(calls) : Valid(At(calls, op, x))
      BY DEF ArenaInv
    <3>2. Valid(p) /\ SamePlaces(calls, t)
      BY <2>1, <2>2
    <3>3. \A x \in Places(t) : Valid(At(t, p, x))
      <4> HIDE DEF t, p
      <4> QED
        BY <3>1, <3>2, ValidPlaces
    <3> QED
      BY <3>3, <2>3, <1>1, OnIndex
  <2>4. CASE caller = "arena"
    <3>1. Len(calls) = 1
      BY <2>4, <1>1, <1>5, LastOpen
    <3>2. calls' = <<>>
      BY <3>1, <1>1, <1>3 DEF Listed, Front
    <3>3. Stacked(calls', op')
      <4>1. Stacked(<<>>, Idle)
        BY IdleValid, StackedFirst DEF Reads
      <4> QED
        BY <4>1, <3>2, <2>1
    <3>4. Levels(calls) = {} /\ Levels(<<>>) = {}
      <4>1. DOMAIN calls = {1} /\ Last(calls) = calls[1]
        BY <3>1, <1>1, <1>3, PopList
      <4> QED
        BY <4>1, <1>1, EmptyExtents DEF Levels, Stacks
    <3>5. Iterates(calls', op', iterator)
      <4>1. Iterates(<<>>, Idle, iterator)
        BY <3>4, <1>3, IteratesFree
      <4> QED
        BY <4>1, <3>2, <2>1
    <3> QED
      BY <2>1, <2>2, <3>3, <3>5, <1>1, OnArena
  <2> QED
    BY <2>3, <2>4, <1>3
<1> QED
  BY <1>2, <1>4, <1>5

LEMMA CallbackArena ==
    ASSUME OwnerInv, OwnerInv', ArenaInv, Suspend \/ Restore
    PROVE  ArenaInv'
<1> DEFINE t == calls'
           p == op'
           f == [kind |-> "callback", saved |-> op, before |-> Len(op.front)]
<1>1. Listed(calls) /\ \A x \in Places(calls) : Valid(At(calls, op, x))
  BY AtHand DEF ArenaInv
<1>2. CASE Suspend
  <2>1. /\ caller = "index" /\ caller' = caller /\ iterator' = iterator
        /\ t = Append(calls, f) /\ p = Idle /\ f.kind = "callback" /\ f.saved = op
    BY <1>2 DEF Suspend, Call
  <2>2. Valid(p) /\ Valid(op)
    BY <2>1, IdleValid, AtHand
  <2>3. \A x \in Places(t) : Valid(At(t, p, x))
    <3> HIDE DEF t, p, f
    <3>1. \A x \in Places(calls) \ {0} : At(t, p, x) = At(calls, op, x)
      <4>1. KeptPlaces(calls, f, op, p)
        BY <1>1, PushKeepsPlaces
      <4> QED
        BY <2>1, <4>1 DEF KeptPlaces
    <3>2. Places(t) = Places(calls) \cup {Len(calls) + 1}
      BY <2>1, <1>1, PlacesPush
    <3>3. At(t, p, Len(calls) + 1) = op
      BY <2>1, <1>1, PlacesPush
    <3>4. At(t, p, 0) = p
      BY DEF At
    <3> QED
      BY <3>1, <3>2, <3>3, <3>4, <2>2, <1>1
  <2> QED
    BY <2>1, <2>3, OnIndex
<1>3. CASE Restore
  <2>1. /\ calls # <<>> /\ Last(calls).kind = "callback" /\ t = Front(calls)
        /\ p = Last(calls).saved /\ caller' = caller /\ iterator' = iterator
    BY <1>3 DEF Restore, Returning, Return
  <2>2. caller = "index"
    <3>1. /\ Last(calls) = calls[Len(calls)] /\ Len(calls) \in DOMAIN calls
      BY <1>1, <2>1, PopList
    <3> QED
      BY <3>1, <2>1 DEF OwnerInv, Nesting, Frame
  <2>3. \A x \in Places(t) : Valid(At(t, p, x))
    <3> HIDE DEF t, p
    <3>1. \A x \in Places(t) \ {0} : At(t, p, x) = At(calls, op, x)
      BY <2>1, <1>1, PlacesPop
    <3>2. Places(calls) = Places(t) \cup {Len(calls)}
      BY <2>1, <1>1, PlacesPop
    <3>3. At(calls, op, Len(calls)) = p
      BY <2>1, <1>1, PlacesPop
    <3>4. At(t, p, 0) = p
      BY DEF At
    <3> QED
      BY <3>1, <3>2, <3>3, <3>4, <1>1
  <2> QED
    BY <2>1, <2>2, <2>3, OnIndex
<1> QED
  BY <1>2, <1>3

-------------------------------------------------------------------------------
(* The index, and the workspaces of nested consumers. *)
LEMMA IndexArena ==
    ASSUME OwnerInv, ArenaInv,
           \/ \E view \in Roots : OperationRefused(view)
           \/ \E index \in OwnIndexes : OperationIndex(index)
           \/ \E key \in Addresses(op.view), kind \in Kinds :
                 \E value \in key..op.view[2] : IndexPut(key, kind, value)
           \/ \E view \in Parts : ScopeBegin(view)
           \/ ScopeEnd
           \/ \E position \in Addresses(op.view) : ScopeFrontier(position)
    PROVE  ArenaInv'
<1>0. IsOp(op)
  BY AtHand
<1>1. ASSUME NEW view, OperationRefused(view) PROVE ArenaInv'
  <2>1. op' = op /\ calls' = calls /\ caller' = caller /\ iterator' = iterator
    BY <1>1 DEF OperationRefused
  <2>2. SameArena(op, op') /\ SameFacts(op, op')
    BY <2>1 DEF SameArena, SameFacts
  <2> QED
    BY <2>1, <2>2, SameStep
<1>2. ASSUME caller = "index", calls' = calls, caller' = caller,
             iterator' = iterator,
             \/ \E i, g : op' = [op EXCEPT !.owns = FALSE, !.index = i, !.generation = g]
             \/ \E k : op' = [op EXCEPT !.known = k]
             \/ \E n : op' = [op EXCEPT !.scope.frontier = n]
      PROVE  ArenaInv'
  <2>1. SameArena(op, op') /\ SameFacts(op, op') /\ op'.depth = op.depth
    <3>1. CASE \E i, g : op' = [op EXCEPT !.owns = FALSE, !.index = i, !.generation = g]
      BY <3>1, <1>0 DEF IsOp, OpFields, SameArena, SameFacts
    <3>2. CASE \E k : op' = [op EXCEPT !.known = k]
      BY <3>2, <1>0 DEF IsOp, OpFields, SameArena, SameFacts
    <3>3. CASE \E n : op' = [op EXCEPT !.scope.frontier = n]
      BY <3>3, <1>0 DEF IsOp, OpFields, SameArena, SameFacts
    <3> QED
      BY <3>1, <3>2, <3>3, <1>2
  <2> QED
    BY <1>2, <2>1, SameStep
<1>3. ASSUME NEW index, OperationIndex(index) PROVE ArenaInv'
  BY <1>3, <1>2 DEF OperationIndex
<1>4. ASSUME NEW key, NEW kind, NEW value, IndexPut(key, kind, value)
      PROVE  ArenaInv'
  <2>1. \E k : op' = [op EXCEPT !.known = k]
    BY <1>4 DEF IndexPut
  <2> QED
    BY <1>4, <1>2, <2>1 DEF IndexPut
<1>5. ASSUME NEW view, ScopeBegin(view) PROVE ArenaInv'
  <2> DEFINE f == [kind |-> "scope", saved |-> op.scope, before |-> Len(op.front)]
  <2>1. /\ calls' = Append(calls, f) /\ f.kind = "scope" /\ f.before = Len(op.front)
        /\ caller' = caller /\ iterator' = iterator
        /\ op' = [op EXCEPT !.scope = Entire(view)]
    BY <1>5 DEF ScopeBegin, Call
  <2> HIDE DEF f
  <2>2. SameArena(op, op') /\ SameFacts(op, op') /\ op'.depth = op.depth
    BY <2>1, <1>0 DEF IsOp, OpFields, SameArena, SameFacts
  <2> QED
    BY <2>1, <2>2, SameStep
<1>6. ASSUME ScopeEnd PROVE ArenaInv'
  <2>1. /\ calls # <<>> /\ calls' = Front(calls) /\ Last(calls).kind = "scope"
        /\ caller' = caller /\ iterator' = iterator
        /\ op' = [op EXCEPT !.scope = Last(calls).saved]
    BY <1>6 DEF ScopeEnd, Returning, Return
  <2>2. SameArena(op, op') /\ SameFacts(op, op') /\ op'.depth = op.depth
    BY <2>1, <1>0 DEF IsOp, OpFields, SameArena, SameFacts
  <2> QED
    BY <2>1, <2>2, SameStep
<1>7. ASSUME NEW position, ScopeFrontier(position) PROVE ArenaInv'
  BY <1>7, <1>2 DEF ScopeFrontier
<1> QED
  BY <1>1, <1>3, <1>4, <1>5, <1>6, <1>7

LEMMA ContinuesSelf ==
    ASSUME NEW o, Packed(o)
    PROVE  Continues(o, o)
<1>1. /\ o.used \in Nat /\ Len(o.front) \in Nat /\ DOMAIN o.front = 1..Len(o.front)
  BY ArenaFacts DEF Packed
<1> QED
  BY <1>1 DEF Continues

(* A buffer that a consumer brings holds no block and no facts yet.        *)
LEMMA BroughtUnused ==
    ASSUME OwnerInv, ArenaInv, caller = "arena", NEW view, NEW retained,
           NEW buffer \in Buffers \cup {NoBuffer}, MayBring(view, buffer)
    PROVE  /\ ~Inherits(op, view) =>
                  /\ buffer = NoBuffer
                  /\ \A i \in DOMAIN op.front : op.front[i].buffer # Scratch
           /\ Replaces(op, view, buffer, retained) =>
                  /\ \A i \in DOMAIN op.front : op.front[i].buffer # buffer
                  /\ \A i \in DOMAIN op.tails : op.tails[i].buffer # buffer
<1>1. CASE ~Inherits(op, view)
  <2>1. buffer = NoBuffer /\ \A block \in ToSet(op.front) : block.buffer # Scratch
    BY <1>1 DEF MayBring
  <2>2. \A i \in DOMAIN op.front : op.front[i] \in ToSet(op.front)
    BY DEF ToSet
  <2> QED
    BY <2>1, <2>2 DEF Replaces
<1>2. CASE Inherits(op, view)
  <2> SUFFICES ASSUME Replaces(op, view, buffer, retained)
               PROVE  /\ \A i \in DOMAIN op.front : op.front[i].buffer # buffer
                      /\ \A i \in DOMAIN op.tails : op.tails[i].buffer # buffer
    BY <1>2
  <2>1. buffer # NoBuffer /\ buffer # op.buffer
    BY <1>2 DEF Replaces, Fresh
  <2>2. buffer \notin InUse /\ buffer # Scratch
    BY <1>2, <2>1, ArenaConstants DEF MayBring
  <2>3. Below(calls, Len(calls) + 1) \subseteq {Scratch} \cup InUse
    BY DEF Below, Levels, Stacks, InUse
  <2>4. Buffered(calls, op, Len(calls) + 1)
    BY AtHand DEF Stacked
  <2> QED
    BY <2>1, <2>2, <2>3, <2>4 DEF Buffered
<1> QED
  BY <1>1, <1>2

LEMMA WorkspaceBeginArena ==
    ASSUME OwnerInv, ArenaInv, NEW view \in Roots \cup Parts,
           NEW retained \in BOOLEAN, NEW buffer \in Buffers \cup {NoBuffer},
           WorkspaceBegin(view, buffer, retained)
    PROVE  ArenaInv'
<1> DEFINE f == [kind |-> "workspace",
                 saved |-> Previous(op, view, buffer, retained),
                 before |-> Len(op.front)]
           t == calls'
           p == op'
<1>1. /\ caller = "arena" /\ Active /\ MayBring(view, buffer)
      /\ t = Append(calls, f) /\ p = Entered(op, view, buffer, retained)
      /\ caller' = caller /\ iterator' = iterator
  BY DEF WorkspaceBegin, Call
<1>2. /\ f.kind = "workspace" /\ f.saved.op = op /\ f.before = Len(op.front)
      /\ f.saved.inherit = Inherits(op, view)
      /\ f.saved.share = (Inherits(op, view) /\ ~Replaces(op, view, buffer, retained))
  BY DEF Previous
<1> HIDE DEF f, t, p
<1>3. /\ Valid(op) /\ Packed(op) /\ IsOp(op) /\ Listed(calls) /\ Len(op.front) \in Nat
      /\ Iterates(calls, op, iterator) /\ Stacked(calls, op)
  BY <1>1, AtHand
<1>4. f.kind # "callback" /\ f.kind # "iterator" /\ Stacks(f.kind)
  BY <1>2 DEF Stacks
<1>5. op.window \in Roots \cup Parts
  <2>1. op.depth # 0
    BY <1>1, OwnerFacts DEF Active
  <2> QED
    BY <2>1, <1>3 DEF Stacked
<1>6. /\ Valid(p) /\ p.front = op.front /\ p.tails = op.tails
      /\ p.window \in {op.window, view}
      /\ f.saved.share => p = op
  <2>1. /\ ~Inherits(op, view) =>
               /\ buffer = NoBuffer
               /\ \A i \in DOMAIN op.front : op.front[i].buffer # Scratch
        /\ Replaces(op, view, buffer, retained) =>
               /\ \A i \in DOMAIN op.front : op.front[i].buffer # buffer
               /\ \A i \in DOMAIN op.tails : op.tails[i].buffer # buffer
    BY <1>1, BroughtUnused
  <2> DEFINE e == Entered(op, view, buffer, retained)
  <2>2. Valid(e) /\ e.front = op.front /\ e.tails = op.tails
    BY <2>1, <1>3, EnteredValid
  <2>3. e.window \in {op.window, view}
    BY <2>1, <1>3, EnteredValid
  <2>4. Inherits(op, view) /\ ~Replaces(op, view, buffer, retained) => e = op
    BY <2>1, <1>3, EnteredValid
  <2> HIDE DEF e
  <2> QED
    BY <2>2, <2>3, <2>4, <1>1, <1>2 DEF e
<1>7. Found(f)
  <2>1. f.saved.share \in BOOLEAN /\ f.saved.inherit \in BOOLEAN
    BY <1>2 DEF Inherits, Within
  <2> QED
    BY <2>1, <1>2, <1>3, <1>5 DEF Found
<1>8. Reads(p)
  BY <1>5, <1>6 DEF Reads
<1>9. f.saved.share => Continues(p, op)
  BY <1>6, <1>3, ContinuesSelf
<1>10. Stacked(t, p)
  <2>1. \A i \in DOMAIN p.tails :
            \/ p.tails[i].buffer = p.buffer
            \/ \E k \in DOMAIN op.tails : p.tails[i].buffer = op.tails[k].buffer
    BY <1>6
  <2> QED
    BY <2>1, <1>1, <1>2, <1>3, <1>4, <1>6, <1>7, <1>8, <1>9, StackedEnter
<1>11. Iterates(t, p, iterator)
  BY <1>1, <1>2, <1>3, <1>4, IteratesPush
<1>12. SamePlaces(calls, t)
  BY <1>1, <1>3, <1>4, SamePlacesPush
<1> QED
  BY <1>1, <1>6, <1>10, <1>11, <1>12, OnArena DEF t, p

LEMMA WorkspaceEndArena ==
    ASSUME OwnerInv, ArenaInv, WorkspaceEnd
    PROVE  ArenaInv'
<1> DEFINE f == Last(calls)
           t == calls'
           p == op'
<1>1. /\ calls # <<>> /\ t = Front(calls) /\ f.kind = "workspace"
      /\ p = Left(op, f.saved) /\ caller' = caller /\ iterator' = iterator
  BY DEF WorkspaceEnd, Returning, Return
<1> HIDE DEF t, p
<1>2. /\ Valid(op) /\ IsOp(op) /\ Listed(calls) /\ Iterates(calls, op, iterator)
      /\ caller = "arena" => Stacked(calls, op)
  BY AtHand
<1>3. /\ caller = "arena" /\ IsOp(f.saved.op) /\ SameOwner(f.saved.op, op)
  <2>1. f = calls[Len(calls)] /\ Len(calls) \in DOMAIN calls
    BY <1>1, <1>2, PopList
  <2> QED
    BY <2>1, <1>1 DEF OwnerInv, Nesting, Frame
<1>4. calls = Append(t, f) /\ Listed(t)
  BY <1>1, <1>2, Rejoin
<1>12. SamePlaces(calls, t)
  BY <1>1, <1>2, SamePlacesPop
<1> HIDE DEF f
<1>5. f.kind # "callback" /\ f.kind # "iterator" /\ Stacks(f.kind)
  BY <1>1 DEF Stacks
<1>6. Stacked(Append(t, f), op) /\ Iterates(Append(t, f), op, iterator)
  BY <1>2, <1>3, <1>4
<1>7. Found(f) /\ (f.saved.share => Continues(op, f.saved.op))
  BY <1>4, <1>5, <1>6, TopFound
<1>8. Valid(p)
  BY <1>1, <1>2, <1>3, <1>7, LeftValid DEF Found, SameOwner
<1>9. /\ p.buffer = f.saved.op.buffer /\ p.window = f.saved.op.window
      /\ p.used = f.saved.op.used /\ p.front = f.saved.op.front
      /\ p.tails = IF f.saved.share THEN op.tails ELSE f.saved.op.tails
  BY <1>1, <1>2, <1>3, LeftFields
<1>10. Stacked(t, p)
  <2>1. Reads(p)
    BY <1>7, <1>9 DEF Reads, Found
  <2> QED
    BY <2>1, <1>4, <1>5, <1>6, <1>9, StackedLeave
<1>11. Iterates(t, p, iterator)
  BY <1>4, <1>5, <1>6, <1>9, IteratesPop
<1> QED
  BY <1>1, <1>3, <1>8, <1>10, <1>11, <1>12, OnArena DEF t, p

-------------------------------------------------------------------------------
(* The call at hand takes blocks, releases them and reserves array facts. *)
LEMMA CallAtHand ==
    ASSUME OwnerInv, ArenaInv, caller = "arena", Active
    PROVE  /\ calls # <<>> /\ op.depth # 0 /\ op.window \in Roots \cup Parts
           /\ Last(calls).before \in Nat /\ Last(calls).before <= Len(op.front)
<1>1. Listed(calls) /\ Stacked(calls, op) /\ Nesting(calls, op, caller)
  BY AtHand DEF OwnerInv
<1>2. op.depth # 0
  BY OwnerFacts DEF Active
<1>3. calls # <<>>
  <2> SUFFICES ASSUME calls = <<>> PROVE FALSE
    OBVIOUS
  <2>1. Opened(calls, Len(calls)) = {}
    BY EmptyExtents DEF Opened
  <2> QED
    BY <2>1, <1>1, <1>2, FS_EmptySet DEF Nesting
<1>4. Last(calls) = calls[Len(calls)] /\ Len(calls) \in DOMAIN calls
  BY <1>1, <1>3, PopList
<1> QED
  BY <1>1, <1>2, <1>3, <1>4 DEF Stacked, Marked

LEMMA WorkStep ==
    ASSUME OwnerInv, ArenaInv, caller = "arena", Active,
           Works(op, op', Last(calls).before), Valid(op'),
           calls' = calls, caller' = caller, iterator' = iterator
    PROVE  ArenaInv'
<1> DEFINE p == op'
<1>1. /\ Works(op, p, Last(calls).before) /\ Valid(p)
  OBVIOUS
<1> HIDE DEF p
<1>2. /\ Listed(calls) /\ Stacked(calls, op) /\ Packed(op)
      /\ Iterates(calls, op, iterator)
  BY AtHand
<1>3. /\ calls # <<>> /\ op.window \in Roots \cup Parts
  BY CallAtHand
<1>4. Reads(p) /\ Packed(p) /\ p.buffer = op.buffer
  BY <1>1, <1>3 DEF Reads, Works, Valid
<1>5. Stacked(calls, p)
  BY <1>1, <1>2, <1>3, <1>4, StackedStay
<1>6. Iterates(calls, p, iterator)
  BY <1>2, <1>4, IteratesStay
<1>7. SamePlaces(calls, calls')
  BY DEF SamePlaces
<1> QED
  BY <1>1, <1>5, <1>6, <1>7, OnArena DEF p

LEMMA WorksSame ==
    ASSUME NEW o, Packed(o), NEW p, SameArena(o, p), p.window = o.window,
           NEW b, b <= Len(o.front)
    PROVE  Works(o, p, b)
BY DEF Works, SameArena, Packed

(* The facts at hand after a step that leaves them alone.                  *)
LEMMA FactsAs ==
    ASSUME NEW o, NEW p, Facts(o), p.arrays = o.arrays, p.inline = o.inline,
           p.window = o.window, p.buffer = o.buffer, p.size = o.size,
           p.tails = o.tails, p.exhausted \in BOOLEAN, o.exhausted => p.exhausted
    PROVE  Facts(p)
BY DEF Facts

LEMMA TakeArena ==
    ASSUME OwnerInv, ArenaInv, NEW size \in Takes, Take(size)
    PROVE  ArenaInv'
<1> DEFINE p == op'
           b == Last(calls).before
           e == Extent(Arena(op), op.used, size)
<1>1. /\ caller = "arena" /\ Active
      /\ calls' = calls /\ caller' = caller /\ iterator' = iterator
  BY DEF Take
<1>2. Valid(op) /\ Packed(op) /\ Facts(op) /\ IsOp(op)
  BY AtHand
<1>3. b \in Nat /\ b <= Len(op.front)
  BY <1>1, CallAtHand
<1>4. size \in Nat
  BY RuntimeAssumption
<1> HIDE DEF b
<1>5. CASE size > ArenaSize(op) - op.used
  <2>1. p = [op EXCEPT !.exhausted = TRUE]
    BY <1>5 DEF Take
  <2> HIDE DEF p
  <2>2. /\ SameArena(op, p) /\ p.window = op.window /\ p.exhausted = TRUE
        /\ p.arrays = op.arrays /\ p.inline = op.inline
    BY <2>1, <1>2 DEF IsOp, OpFields, SameArena
  <2>3. Packed(p) /\ Works(op, p, b)
    BY <2>2, <1>2, <1>3, PackedAs, WorksSame
  <2>4. Facts(p)
    BY <2>2, <1>2, FactsAs DEF SameArena
  <2> QED
    BY <2>3, <2>4, <1>1, WorkStep DEF Valid, b, p
<1>6. CASE ~(size > ArenaSize(op) - op.used)
  <2>1. p = [op EXCEPT !.used = @ + size, !.front = Append(@, e)]
    BY <1>6 DEF Take
  <2> HIDE DEF p
  <2>2. /\ p.buffer = op.buffer /\ p.view = op.view /\ p.size = op.size
        /\ p.tails = op.tails /\ p.used = op.used + size
        /\ p.front = Append(op.front, e) /\ p.window = op.window
        /\ p.exhausted = op.exhausted /\ p.arrays = op.arrays
        /\ p.inline = op.inline
    BY <2>1, <1>2 DEF IsOp, OpFields
  <2>3. size <= ArenaSize(op) - op.used
    BY <1>2, <1>4, <1>6, ArenaFacts DEF Packed
  <2>4. Packed(p)
    BY <2>2, <2>3, <1>2, <1>4, PackedTake
  <2>5. Facts(p)
    BY <2>2, <1>2, FactsAs DEF Facts
  <2>6. Works(op, p, b)
    <3>1. op.used \in Nat /\ Arena(op) \in Buffers \cup {Scratch, Heap}
      BY <1>2, ArenaFacts DEF Packed
    <3>2. e \in Extents /\ e.buffer = Arena(op) /\ e.from = op.used
      BY <3>1, <1>4 DEF Extent, Extents
    <3> HIDE DEF e
    <3>3. op.front \in Seq(Extents)
      BY <1>2 DEF Packed
    <3>4. /\ Len(op.front) \in Nat /\ Len(p.front) = Len(op.front) + 1
          /\ DOMAIN op.front = 1..Len(op.front)
          /\ DOMAIN p.front = 1..(Len(op.front) + 1)
          /\ \A i \in 1..Len(op.front) : p.front[i] = op.front[i]
          /\ p.front[Len(op.front) + 1] = e
      BY <2>2, <3>2, <3>3, PushExtent
    <3>5. \A i \in DOMAIN p.front :
              \/ i \in DOMAIN op.front /\ p.front[i] = op.front[i]
              \/ /\ i = Len(op.front) + 1 /\ p.front[i].buffer = Arena(op)
                 /\ p.front[i].from = op.used
      BY <3>2, <3>4
    <3>6. b <= Len(p.front) /\ p.used \in Nat /\ op.used <= p.used
      BY <2>2, <3>1, <3>4, <1>3, <1>4
    <3> QED
      BY <2>2, <3>5, <3>6 DEF Works
  <2> QED
    BY <2>4, <2>5, <2>6, <1>1, WorkStep DEF Valid, b, p
<1> QED
  BY <1>5, <1>6

LEMMA ReleaseArena ==
    ASSUME OwnerInv, ArenaInv, NEW mark \in Taken, Release(mark)
    PROVE  ArenaInv'
<1> DEFINE p == op'
           b == Last(calls).before
<1>1. /\ caller = "arena" /\ Active
      /\ calls' = calls /\ caller' = caller /\ iterator' = iterator
      /\ p = [op EXCEPT !.used = op.front[mark].from,
                        !.front = SubSeq(@, 1, mark - 1)]
  BY DEF Release
<1>2. Valid(op) /\ Packed(op) /\ Facts(op) /\ IsOp(op)
  BY AtHand
<1>3. b \in Nat /\ b <= Len(op.front)
  BY <1>1, CallAtHand
<1>4. mark \in DOMAIN op.front /\ mark > b /\ op.front[mark].buffer = Arena(op)
  BY DEF Taken
<1> HIDE DEF b, p
<1>5. /\ p.buffer = op.buffer /\ p.view = op.view /\ p.size = op.size
      /\ p.tails = op.tails /\ p.used = op.front[mark].from
      /\ p.front = SubSeq(op.front, 1, mark - 1) /\ p.window = op.window
      /\ p.exhausted = op.exhausted /\ p.arrays = op.arrays
      /\ p.inline = op.inline
  BY <1>1, <1>2 DEF IsOp, OpFields
<1>6. Packed(p)
  BY <1>2, <1>4, <1>5, PackedRelease
<1>7. Facts(p)
  BY <1>5, <1>2, FactsAs DEF Facts
<1>8. Works(op, p, b)
  <2>1. /\ op.front \in Seq(Extents) /\ Len(op.front) \in Nat
        /\ DOMAIN op.front = 1..Len(op.front)
        /\ op.front[mark] \in Extents
    BY <1>2, <1>4, ArenaFacts DEF Packed
  <2>2. /\ Len(p.front) = mark - 1 /\ DOMAIN p.front = 1..(mark - 1)
        /\ \A i \in 1..(mark - 1) : p.front[i] = op.front[i]
    <3>1. op.front \in Seq(Extents) /\ mark \in 1..Len(op.front)
      BY ONLY <2>1, <1>4
    <3>2. /\ Len(SubSeq(op.front, 1, mark - 1)) = mark - 1
          /\ DOMAIN SubSeq(op.front, 1, mark - 1) = 1..(mark - 1)
          /\ \A i \in 1..(mark - 1) :
                 SubSeq(op.front, 1, mark - 1)[i] = op.front[i]
      BY ONLY <3>1, CutFront
    <3>3. p.front = SubSeq(op.front, 1, mark - 1)
      BY ONLY <1>5
    <3> QED BY ONLY <3>2, <3>3, Zenon
  <2>3. b <= Len(p.front) /\ p.used \in Nat
    BY <2>1, <2>2, <1>3, <1>4, <1>5 DEF Extents
  <2>4. \A i \in DOMAIN p.front : i \in DOMAIN op.front /\ p.front[i] = op.front[i]
    BY <2>1, <2>2, <1>4
  <2>5. \E m \in DOMAIN op.front : b < m /\ p.used = op.front[m].from
    BY <1>3, <1>4, <1>5, <2>1
  <2> QED
    BY <2>3, <2>4, <2>5, <1>5 DEF Works
<1> QED
  BY <1>6, <1>7, <1>8, <1>1, WorkStep DEF Valid, b, p

LEMMA ArrayFactsArena ==
    ASSUME OwnerInv, ArenaInv, ArrayFacts
    PROVE  ArenaInv'
<1> DEFINE p     == op'
           b     == Last(calls).before
           count == IF op.arrays.count # 0 THEN op.arrays.count ELSE Brackets[op.window]
           need  == count * FactSize
           out   == count > InlineArrays \/ op.buffer # NoBuffer
           fits  == op.buffer # NoBuffer /\ need <= op.size - op.used
           at(x) == [prepared |-> TRUE, count |-> count, at |-> x]
           e     == Extent(op.buffer, op.size - need, need)
<1>1. /\ caller = "arena" /\ Active
      /\ calls' = calls /\ caller' = caller /\ iterator' = iterator
  BY DEF ArrayFacts
<1>2. Valid(op) /\ Packed(op) /\ Facts(op) /\ IsOp(op)
  BY AtHand
<1>3. b \in Nat /\ b <= Len(op.front) /\ op.window \in Roots \cup Parts
  BY <1>1, CallAtHand
<1>4. count \in Nat /\ need \in Nat
  <2>1. op.arrays.count \in Nat /\ Brackets[op.window] \in Nat
    BY <1>2, <1>3, ArenaConstants DEF Facts
  <2>2. count \in Nat
    BY <2>1
  <2> HIDE DEF count
  <2> QED
    BY <2>2, ArenaConstants, NatProduct
<1>5. \/ ~out /\ p = [op EXCEPT !.arrays = at(NoBuffer), !.inline = op.window]
      \/ out /\ ~fits /\ p = [op EXCEPT !.arrays = at(NoBuffer), !.exhausted = TRUE]
      \/ /\ out /\ fits
         /\ p = [op EXCEPT !.arrays = at(op.buffer), !.size = @ - need,
                           !.tails = Append(@, e)]
  BY DEF ArrayFacts
<1>6. /\ \A x \in Buffers \cup {Heap, NoBuffer} :
             /\ at(x) \in [prepared : BOOLEAN, count : Nat,
                           at : Buffers \cup {Heap, NoBuffer}]
             /\ at(x).at = x
      /\ op.buffer \in Buffers \cup {Heap, NoBuffer}
  <2>1. op.buffer \in Buffers \cup {Heap, NoBuffer}
    BY <1>2 DEF Packed
  <2> HIDE DEF count
  <2> QED
    BY <2>1, <1>4
<1>7. out /\ fits => op.buffer # NoBuffer /\ need <= op.size - op.used
  OBVIOUS
<1> HIDE DEF b, p, count, need, out, fits, at
<1>8. CASE ~out /\ p = [op EXCEPT !.arrays = at(NoBuffer), !.inline = op.window]
  <2>1. /\ SameArena(op, p) /\ p.window = op.window /\ p.inline = op.window
        /\ p.exhausted = op.exhausted /\ p.arrays = at(NoBuffer)
    BY <1>8, <1>2 DEF IsOp, OpFields, SameArena
  <2>2. Packed(p) /\ Works(op, p, b)
    BY <2>1, <1>2, <1>3, PackedAs, WorksSame
  <2>3. Facts(p)
    BY <2>1, <1>2, <1>6 DEF Facts
  <2> QED
    BY <2>2, <2>3, <1>1, WorkStep DEF Valid, b, p
<1>9. CASE out /\ ~fits /\ p = [op EXCEPT !.arrays = at(NoBuffer), !.exhausted = TRUE]
  <2>1. /\ SameArena(op, p) /\ p.window = op.window
        /\ p.exhausted = TRUE /\ p.arrays = at(NoBuffer)
    BY <1>9, <1>2 DEF IsOp, OpFields, SameArena
  <2>2. Packed(p) /\ Works(op, p, b)
    BY <2>1, <1>2, <1>3, PackedAs, WorksSame
  <2>3. Facts(p)
    <3>1. /\ p.arrays \in [prepared : BOOLEAN, count : Nat,
                            at : Buffers \cup {Heap, NoBuffer}]
          /\ p.arrays.at = NoBuffer
      BY <2>1, <1>6
    <3> QED
      BY <2>1, <3>1 DEF Facts
  <2> QED
    BY <2>2, <2>3, <1>1, WorkStep DEF Valid, b, p
<1>10. CASE /\ out /\ fits
            /\ p = [op EXCEPT !.arrays = at(op.buffer), !.size = @ - need,
                              !.tails = Append(@, e)]
  <2>1. /\ p.buffer = op.buffer /\ p.view = op.view /\ p.used = op.used
        /\ p.front = op.front /\ p.size = op.size - need
        /\ p.tails = Append(op.tails, e) /\ p.window = op.window
        /\ p.exhausted = op.exhausted /\ p.arrays = at(op.buffer)
    BY <1>10, <1>2 DEF IsOp, OpFields
  <2>2. /\ Packed(p)
        /\ \E i \in DOMAIN p.tails :
              p.tails[i].buffer = p.buffer /\ p.tails[i].from = p.size
    <3>1. /\ op.buffer # NoBuffer /\ need \in Nat /\ need <= op.size - op.used
          /\ p.tails = Append(op.tails, Extent(op.buffer, op.size - need, need))
      BY <2>1, <1>4, <1>7, <1>10
    <3>2. Packed(p)
      BY <2>1, <3>1, <1>2, PackedReserve
    <3>3. \E i \in DOMAIN p.tails :
              p.tails[i].buffer = p.buffer /\ p.tails[i].from = p.size
      BY <2>1, <3>1, <1>2, PackedReserve
    <3> QED
      BY <3>2, <3>3
  <2>3. Facts(p)
    <3>1. /\ p.arrays \in [prepared : BOOLEAN, count : Nat,
                            at : Buffers \cup {Heap, NoBuffer}]
          /\ p.arrays.at = p.buffer /\ p.buffer # NoBuffer
      BY <2>1, <1>6, <1>7, <1>10
    <3>2. p.exhausted \in BOOLEAN
      BY <2>1, <1>2 DEF Facts
    <3> QED
      BY <2>2, <3>1, <3>2 DEF Facts
  <2>4. Works(op, p, b)
    <3>1. op.tails \in Seq(Extents) /\ op.used \in Nat
      BY <1>2 DEF Packed
    <3>2. e.buffer = op.buffer
      BY DEF Extent
    <3> HIDE DEF e
    <3>3. /\ DOMAIN op.tails = 1..Len(op.tails) /\ Len(op.tails) \in Nat
          /\ DOMAIN p.tails = 1..(Len(op.tails) + 1)
          /\ \A i \in 1..Len(op.tails) : p.tails[i] = op.tails[i]
          /\ p.tails[Len(op.tails) + 1] = e
      BY <2>1, <3>1
    <3>4. \A i \in DOMAIN p.tails :
              \/ p.tails[i].buffer = op.buffer
              \/ \E k \in DOMAIN op.tails : p.tails[i].buffer = op.tails[k].buffer
      BY <3>2, <3>3
    <3> QED
      BY <2>1, <3>1, <3>4, <1>3 DEF Works
  <2> QED
    BY <2>2, <2>3, <2>4, <1>1, WorkStep DEF Valid, b, p
<1> QED
  BY <1>5, <1>8, <1>9, <1>10

-------------------------------------------------------------------------------
(* The calls of an iterator: each works on the buffer the iterator keeps. *)
LEMMA IteratorLevel ==
    ASSUME NEW view \in Roots, NEW buffer \in Buffers,
           Size[buffer] > ScratchSize + RecordSize
    PROVE  LET e == Entered(Begun(view), view, buffer, FALSE)
               q == Previous(Begun(view), view, buffer, FALSE) IN
           /\ Valid(e) /\ IsOp(e) /\ e.view = view /\ e.window = view
           /\ e.buffer = buffer /\ e.size = Size[buffer] /\ e.used = 0
           /\ e.front = <<>> /\ e.tails = <<>> /\ e.exhausted = FALSE
           /\ e.arrays = NoArrays
           /\ q.op = Begun(view) /\ q.share = FALSE /\ q.inherit = TRUE
<1> DEFINE b == Begun(view)
           e == Entered(b, view, buffer, FALSE)
           q == Previous(b, view, buffer, FALSE)
<1>1. /\ IsOp(b) /\ b.view = view /\ b.window = view /\ b.used = 0 /\ b.size = 0
      /\ b.front = <<>> /\ b.tails = <<>> /\ b.arrays = NoArrays
      /\ b.exhausted = FALSE /\ b.buffer = NoBuffer /\ Valid(b)
  BY BegunFields, BegunValid
<1> HIDE DEF b
<1>2. Inherits(b, view)
  <2>1. view[1] \in Nat /\ view[2] \in Nat
    BY RuntimeAssumption
  <2> QED
    BY <2>1, <1>1 DEF Inherits, Within
<1>3. Replaces(b, view, buffer, FALSE)
  <2>1. Size[buffer] \in Nat /\ buffer # NoBuffer
    BY ArenaConstants
  <2> QED
    BY <2>1, <1>1, <1>2, ArenaConstants DEF Replaces, Fresh
<1>4. e = [b EXCEPT !.buffer = buffer, !.size = Size[buffer], !.used = 0,
                    !.arrays = NoArrays]
  BY <1>2, <1>3 DEF Entered, Fresh
<1>5. Valid(e)
  BY <1>1, <1>2, EmptyExtents, EnteredValid
<1>6. q.op = b /\ q.share = FALSE /\ q.inherit = TRUE
  BY <1>2, <1>3 DEF Previous
<1> HIDE DEF e, q
<1>7. /\ IsOp(e) /\ e.view = view /\ e.window = view
      /\ e.buffer = buffer /\ e.size = Size[buffer] /\ e.used = 0
      /\ e.front = <<>> /\ e.tails = <<>> /\ e.exhausted = FALSE
      /\ e.arrays = NoArrays
  BY <1>1, <1>4 DEF IsOp, OpFields
<1> QED
  BY <1>5, <1>6, <1>7 DEF e, q, b

(* The facts and the record at the tail of a buffer, of which nothing else *)
(* is in use.                                                              *)
LEMMA KeptValid ==
    ASSUME NEW k, Valid(k), k.buffer \in Buffers, NEW p, p.buffer = k.buffer,
           p.size = k.size, p.tails = k.tails, Own(p.tails, p.buffer),
           p.used = 0, p.front = <<>>, p.exhausted = FALSE,
           \/ p.arrays = NoArrays
           \/ p.arrays = k.arrays /\ (k.arrays.prepared => k.arrays.at # NoBuffer)
    PROVE  Valid(p)
<1>1. \A v : Limit(v, k.buffer) = Size[k.buffer]
  BY ArenaConstants DEF Limit
<1>2. Packed(k) /\ Facts(k)
  BY DEF Valid
<1>3. k.buffer # NoBuffer /\ Size[k.buffer] \in Nat /\ k.buffer # Scratch
  BY ArenaConstants
<1>4. Packed(p)
  <2>1. /\ p.size \in Nat /\ p.used \in Nat /\ p.used <= ArenaSize(p)
        /\ p.size <= Limit(p.view, p.buffer) /\ Limit(p.view, p.buffer) \in Nat
    BY <1>1, <1>2, <1>3 DEF Packed, ArenaSize
  <2>2. p.front \in Seq(Extents) /\ DOMAIN p.front = {}
    BY EmptyExtents
  <2>3. /\ p.tails \in Seq(Extents)
        /\ \A i, j \in DOMAIN p.tails : i # j => Apart(p.tails[i], p.tails[j])
    BY <1>2 DEF Packed
  <2>4. ASSUME NEW i \in DOMAIN p.tails
        PROVE  /\ p.tails[i].to <= Limit(p.view, p.tails[i].buffer)
               /\ p.tails[i].buffer # Scratch
               /\ p.tails[i].buffer = p.buffer => p.size <= p.tails[i].from
    <3>1. p.tails[i].buffer = k.buffer
      BY DEF Own
    <3> QED
      BY <3>1, <1>1, <1>2, <1>3 DEF Packed
  <2> QED
    BY <2>1, <2>2, <2>3, <2>4, <1>2 DEF Packed
<1>5. Facts(p)
  <2>1. CASE p.arrays = NoArrays
    BY <2>1, NoFacts
  <2>2. CASE p.arrays = k.arrays /\ (k.arrays.prepared => k.arrays.at # NoBuffer)
    BY <2>2, <1>2 DEF Facts
  <2> QED
    BY <2>1, <2>2
<1> QED
  BY <1>4, <1>5 DEF Valid

LEMMA FirstLevel ==
    ASSUME NEW q, Valid(q), q.front = <<>>, q.tails = <<>>, q.window \in Roots,
           NEW f, f.kind = "iterator", f.before = 0, f.saved.op = q,
           f.saved.share = FALSE, f.saved.inherit = TRUE,
           NEW p, p.front = <<>>, p.window \in Roots, Own(p.tails, p.buffer)
    PROVE  Stacked(Append(<<>>, f), p)
<1> DEFINE s == <<>>
<1>1. Listed(s)
  <2>1. <<>> \in Seq(ToSet(<<>>))
    OBVIOUS
  <2> QED
    BY <2>1 DEF Listed
<1>2. Stacked(s, q) /\ Reads(p)
  BY StackedFirst DEF Reads
<1> HIDE DEF s
<1>3. Found(f) /\ Stacks(f.kind) /\ p.front = q.front /\ Len(q.front) \in Nat
  BY EmptyExtents DEF Found, Stacks
<1>4. \A i \in DOMAIN p.tails :
          \/ p.tails[i].buffer = p.buffer
          \/ \E k \in DOMAIN q.tails : p.tails[i].buffer = q.tails[k].buffer
  BY DEF Own
<1>5. Stacked(Append(s, f), p)
  BY <1>1, <1>2, <1>3, <1>4, StackedEnter
<1> QED
  BY <1>5 DEF s

LEMMA IteratorBegins ==
    ASSUME OwnerInv, ArenaInv, caller = "arena", ~Active, caller' = caller,
           NEW view \in Roots, NEW buffer \in Buffers,
           Size[buffer] > ScratchSize + RecordSize,
           NEW f, f.kind = "iterator", f.before = Len(op.front),
           f.saved = Previous(Begun(view), view, buffer, FALSE),
           calls' = Append(calls, f), Valid(op'), op'.window = view,
           op'.front = <<>>, op'.buffer = buffer, Own(op'.tails, buffer),
           iterator'.open = TRUE, iterator'.buffer = buffer
    PROVE  ArenaInv'
<1> DEFINE t == calls'
           p == op'
           q == Begun(view)
           it == iterator'
<1>0. Listed(calls)
  BY AtHand
<1>1. calls = <<>> /\ op = Idle
  BY NothingOpen, OwnerFacts
<1>2. /\ q.window = view /\ q.buffer = NoBuffer /\ q.front = <<>> /\ q.tails = <<>>
      /\ Valid(q)
  BY BegunFields, BegunValid
<1>3. f.saved.op = q /\ f.saved.share = FALSE /\ f.saved.inherit = TRUE
  <2> DEFINE previous == Previous(q, view, buffer, FALSE)
  <2>1. previous.op = q /\ previous.share = FALSE /\ previous.inherit = TRUE
    BY IteratorLevel
  <2>2. f.saved = previous
    OBVIOUS
  <2> HIDE DEF previous
  <2> QED
    BY <2>1, <2>2
<1>4. /\ t = Append(calls, f) /\ Valid(p) /\ p.window = view /\ p.front = <<>>
      /\ p.buffer = buffer /\ Own(p.tails, buffer)
      /\ it.open = TRUE /\ it.buffer = buffer
  OBVIOUS
<1> HIDE DEF t, p, q, it
<1>5. f.kind # "callback" /\ Stacks(f.kind) /\ f.before = 0
  BY <1>1, IdleValid, EmptyExtents DEF Stacks
<1>8. Stacked(t, p)
  <2>1. Stacked(Append(<<>>, f), p)
    BY <1>2, <1>3, <1>4, <1>5, FirstLevel
  <2> QED
    BY <2>1, <1>1, <1>4
<1>9. Iterates(t, p, it)
  <2>1. Iterates(Append(<<>>, f), p, it)
    BY <1>2, <1>3, <1>4, IteratesFirst
  <2> QED
    BY <2>1, <1>1, <1>4
<1>10. SamePlaces(calls, t)
  BY <1>0, <1>4, <1>5, SamePlacesPush
<1> QED
  BY <1>4, <1>8, <1>9, <1>10, OnArena DEF t, p, it

LEMMA IteratorInitArena ==
    ASSUME OwnerInv, ArenaInv, NEW view \in Roots, NEW buffer \in Buffers,
           IteratorInit(view, buffer)
    PROVE  ArenaInv'
<1> DEFINE b == Begun(view)
           e == Entered(b, view, buffer, FALSE)
           f == [kind |-> "iterator", saved |-> Previous(b, view, buffer, FALSE),
                 before |-> Len(op.front)]
           record == Extent(buffer, Size[buffer] - RecordSize, RecordSize)
           p == op'
<1>1. /\ caller = "arena" /\ ~Active /\ caller' = caller
      /\ Size[buffer] > ScratchSize + RecordSize
      /\ calls' = Append(calls, f)
      /\ p = [e EXCEPT !.size = @ - RecordSize, !.tails = <<record>>]
      /\ iterator' = [open |-> TRUE, view |-> view, buffer |-> buffer]
  BY DEF IteratorInit, Call
<1>2. /\ f.kind = "iterator" /\ f.before = Len(op.front)
      /\ f.saved = Previous(Begun(view), view, buffer, FALSE)
  OBVIOUS
<1> HIDE DEF p, f
<1>3. /\ Valid(e) /\ IsOp(e) /\ e.view = view /\ e.window = view
      /\ e.buffer = buffer /\ e.size = Size[buffer] /\ e.used = 0
      /\ e.front = <<>> /\ e.tails = <<>> /\ e.exhausted = FALSE
      /\ e.arrays = NoArrays
  <2>1. Size[buffer] > ScratchSize + RecordSize
    BY <1>1
  <2>2. e = Entered(Begun(view), view, buffer, FALSE)
    OBVIOUS
  <2> HIDE DEF e
  <2> QED
    BY <2>1, <2>2, IteratorLevel
<1> HIDE DEF e, b
<1>4. /\ p.view = view /\ p.window = view /\ p.buffer = buffer /\ p.used = 0
      /\ p.size = Size[buffer] - RecordSize /\ p.front = <<>>
      /\ p.tails = <<record>> /\ p.exhausted = FALSE /\ p.arrays = NoArrays
  BY <1>1, <1>3 DEF IsOp, OpFields
<1>5. Packed(p)
  <2>1. Packed(e) /\ e.buffer # NoBuffer
    BY <1>3, ArenaConstants DEF Valid
  <2>2. RecordSize \in Nat /\ RecordSize <= e.size - e.used
    BY <1>1, <1>3, ArenaConstants
  <2>3. p.size = e.size - RecordSize /\ p.front = e.front /\ p.used = e.used
    BY <1>3, <1>4
  <2>4. p.tails = Append(e.tails, Extent(e.buffer, e.size - RecordSize, RecordSize))
    <3>1. Append(<<>>, record) = <<record>>
      OBVIOUS
    <3> QED
      BY <3>1, <1>3, <1>4
  <2> QED
    BY <2>1, <2>2, <2>3, <2>4, <1>3, <1>4, PackedReserve
<1>6. Valid(p)
  BY <1>4, <1>5, NoFacts DEF Valid
<1>7. Own(p.tails, buffer)
  <2>1. record.buffer = buffer
    BY DEF Extent
  <2> HIDE DEF record
  <2> QED
    BY <2>1, <1>4 DEF Own
<1>8. iterator'.open = TRUE /\ iterator'.buffer = buffer
  BY <1>1
<1> QED
  BY <1>1, <1>2, <1>4, <1>6, <1>7, <1>8, IteratorBegins DEF p

LEMMA IteratorNextArena ==
    ASSUME OwnerInv, IteratorKept, ArenaInv, IteratorNext
    PROVE  ArenaInv'
<1> DEFINE view == iterator.view
           buffer == iterator.buffer
           b == Begun(view)
           e == Entered(b, view, buffer, FALSE)
           f == [kind |-> "iterator", saved |-> Previous(b, view, buffer, FALSE),
                 before |-> Len(op.front)]
           k == [Idle EXCEPT !.buffer = buffer, !.size = iterator.size,
                             !.arrays = iterator.arrays, !.tails = iterator.tails]
           p == op'
<1>1. /\ caller = "arena" /\ ~Active /\ caller' = caller /\ iterator' = iterator
      /\ iterator.open /\ calls' = Append(calls, f)
      /\ p = [e EXCEPT !.size = iterator.size, !.arrays = iterator.arrays,
                       !.tails = iterator.tails]
  BY DEF IteratorNext, Call
<1>2. /\ f.kind = "iterator" /\ f.before = Len(op.front)
      /\ f.saved = Previous(Begun(view), view, buffer, FALSE)
  OBVIOUS
<1> HIDE DEF p, f
<1>3. calls = <<>> /\ Iterates(calls, op, iterator)
  BY <1>1, NothingOpen, AtHand
<1>4. /\ iterator.open = TRUE /\ buffer \in Buffers
      /\ Size[buffer] > ScratchSize + RecordSize /\ Kept(iterator)
  <2>1. Levels(calls) = {}
    BY <1>3, EmptyExtents DEF Levels
  <2> QED
    BY <2>1, <1>1, <1>3 DEF Iterates
<1>5. view \in Roots
  BY <1>1 DEF IteratorKept
<1>6. /\ IsOp(e) /\ e.view = view /\ e.window = view /\ e.buffer = buffer
      /\ e.used = 0 /\ e.front = <<>> /\ e.exhausted = FALSE
  <2>1. PICK u, a : u = view /\ a = buffer
    OBVIOUS
  <2>2. e = Entered(Begun(u), u, a, FALSE)
    BY <2>1
  <2>3. u \in Roots /\ a \in Buffers /\ Size[a] > ScratchSize + RecordSize
    BY <2>1, <1>4, <1>5
  <2> HIDE DEF e, view, buffer
  <2> QED
    BY <2>1, <2>2, <2>3, IteratorLevel
<1>7. /\ Valid(k) /\ Own(iterator.tails, buffer)
      /\ iterator.arrays.prepared => iterator.arrays.at # NoBuffer
  BY <1>4 DEF Kept
<1>8. /\ k.buffer = buffer /\ k.size = iterator.size
      /\ k.arrays = iterator.arrays /\ k.tails = iterator.tails
  BY DEF Idle
<1> HIDE DEF e, b, k, view, buffer
<1>9. /\ p.view = view /\ p.window = view /\ p.buffer = buffer /\ p.used = 0
      /\ p.size = iterator.size /\ p.front = <<>>
      /\ p.tails = iterator.tails /\ p.exhausted = FALSE
      /\ p.arrays = iterator.arrays
  BY <1>1, <1>6 DEF IsOp, OpFields
<1>10. Valid(p)
  BY <1>4, <1>7, <1>8, <1>9, KeptValid
<1>11. iterator'.open = TRUE /\ iterator'.buffer = buffer
  BY <1>1, <1>4 DEF buffer
<1> QED
  BY <1>1, <1>2, <1>4, <1>5, <1>7, <1>9, <1>10, <1>11, IteratorBegins DEF p

LEMMA IteratorEndArena ==
    ASSUME OwnerInv, ArenaInv, IteratorEnd
    PROVE  ArenaInv'
<1> DEFINE f == Last(calls)
           it == iterator'
<1>1. /\ calls # <<>> /\ calls' = Front(calls) /\ Len(calls) = 1
      /\ f.kind = "iterator" /\ op' = Idle /\ caller' = caller
  BY IteratorEnds
<1>2. it = [open |-> TRUE, view |-> iterator.view, buffer |-> iterator.buffer,
            size |-> op.size, tails |-> op.tails,
            arrays |-> IF op.arrays.at = NoBuffer THEN NoArrays ELSE op.arrays]
  BY DEF IteratorEnd
<1>3. /\ Valid(op) /\ Listed(calls) /\ Iterates(calls, op, iterator)
      /\ caller = "arena" => Stacked(calls, op)
  BY AtHand
<1>4. calls' = <<>> /\ calls = Append(<<>>, f)
  <2>1. calls = Append(Front(calls), f) /\ Listed(Front(calls)) /\ Len(Front(calls)) = 0
    BY <1>1, <1>3, Rejoin
  <2>2. Front(calls) = <<>>
    BY <2>1 DEF Listed
  <2> QED
    BY <2>1, <2>2, <1>1
<1>5. DOMAIN calls = {1} /\ f = calls[1]
  BY <1>1, <1>3, PopList
<1>6. caller = "arena"
  BY <1>1, <1>5 DEF OwnerInv, Nesting, Frame
<1>7. SamePlaces(calls, calls')
  BY <1>1, <1>3, SamePlacesPop
<1> HIDE DEF f, it
<1>8. /\ iterator.buffer \in Buffers /\ Size[iterator.buffer] > ScratchSize + RecordSize
      /\ op.buffer = iterator.buffer /\ f.saved.op.buffer = NoBuffer
  <2>1. Iterates(Append(<<>>, f), op, iterator)
    BY <1>3, <1>4
  <2> QED
    BY <2>1, <1>1, IteratesLast
<1>9. Own(op.tails, op.buffer)
  <2> SUFFICES ASSUME NEW i \in DOMAIN op.tails
               PROVE  op.tails[i].buffer = op.buffer
    BY DEF Own
  <2>1. Below(calls, 2) \subseteq {Scratch, NoBuffer}
    BY <1>5, <1>8 DEF Below, Levels
  <2>2. op.tails[i].buffer \in Below(calls, 2) \cup {op.buffer}
    BY <1>1, <1>3, <1>6 DEF Stacked, Buffered
  <2>3. op.tails[i].buffer # Scratch /\ op.tails[i] \in Extents
    BY <1>3, ArenaFacts DEF Valid, Packed
  <2>4. op.tails[i].buffer # NoBuffer
    BY <2>3, ArenaConstants DEF Extents
  <2> QED
    BY <2>1, <2>2, <2>3, <2>4
<1>10. Kept(it)
  <2> DEFINE k == [Idle EXCEPT !.buffer = it.buffer, !.size = it.size,
                               !.arrays = it.arrays, !.tails = it.tails]
  <2>1. /\ it.buffer = op.buffer /\ it.size = op.size /\ it.tails = op.tails
        /\ it.arrays = IF op.arrays.at = NoBuffer THEN NoArrays ELSE op.arrays
    BY <1>2, <1>8
  <2>2. /\ k.buffer = it.buffer /\ k.size = it.size /\ k.tails = it.tails
        /\ k.arrays = it.arrays /\ k.used = 0 /\ k.front = <<>>
        /\ k.exhausted = FALSE
    BY DEF Idle
  <2> HIDE DEF k
  <2>3. Valid(k)
    BY <2>1, <2>2, <1>3, <1>8, <1>9, KeptValid
  <2>4. it.arrays.prepared => it.arrays.at # NoBuffer
    BY <2>1 DEF NoArrays
  <2> QED
    BY <2>1, <2>3, <2>4, <1>9 DEF Kept, k
<1>11. Iterates(<<>>, Idle, it)
  <2>1. Levels(<<>>) = {}
    BY EmptyExtents DEF Levels
  <2>2. it.open = TRUE /\ it.buffer = iterator.buffer
    BY <1>2
  <2> QED
    BY <2>1, <2>2, <1>8, <1>10 DEF Iterates
<1>12. Stacked(<<>>, Idle)
  BY IdleValid, StackedFirst DEF Reads
<1>13. Valid(op') /\ Stacked(calls', op') /\ Iterates(calls', op', iterator')
  BY <1>1, <1>4, <1>11, <1>12, IdleValid DEF it
<1> QED
  BY <1>1, <1>7, <1>13, OnArena

LEMMA IteratorDropArena ==
    ASSUME ArenaInv, IteratorDrop
    PROVE  ArenaInv'
<1>1. /\ op' = op /\ calls' = calls /\ caller' = caller
      /\ iterator' = [open |-> FALSE] /\ ~Advancing
  BY DEF IteratorDrop
<1>2. Iterates(calls, op, iterator')
  <2>1. iterator'.open = FALSE
    BY <1>1
  <2>2. \A i \in Levels(calls) : calls[i].kind # "iterator"
    BY <1>1 DEF Levels, Advancing
  <2> QED
    BY <2>1, <2>2 DEF Iterates
<1> QED
  BY <1>1, <1>2 DEF ArenaInv

-------------------------------------------------------------------------------
(* Invariance. *)
LEMMA ArenaInitially == Init => ArenaInv
<1> SUFFICES ASSUME Init PROVE ArenaInv
  OBVIOUS
<1>1. calls = <<>> /\ op = Idle /\ iterator = [open |-> FALSE]
  BY DEF Init
<1>2. Places(calls) = {0} /\ At(calls, op, 0) = Idle /\ Levels(calls) = {}
  BY <1>1, EmptyExtents DEF Places, At, Levels
<1>3. \A x \in Places(calls) : Valid(At(calls, op, x))
  BY <1>2, IdleValid
<1>4. Stacked(calls, op)
  <2>1. Stacked(<<>>, Idle)
    BY IdleValid, StackedFirst DEF Reads
  <2> QED
    BY <2>1, <1>1
<1>5. Iterates(calls, op, iterator)
  <2>1. iterator.open = FALSE
    BY <1>1
  <2> QED
    BY <2>1, <1>2 DEF Iterates
<1> QED
  BY <1>3, <1>4, <1>5 DEF ArenaInv

LEMMA ArenaNext == IInv /\ IInv' /\ ArenaInv /\ [Next]_vars => ArenaInv'
<1> SUFFICES ASSUME OwnerInv, OwnerInv', IteratorKept, ArenaInv, [Next]_vars
             PROVE  ArenaInv'
  BY DEF IInv
<1>1. CASE \E view \in Roots : OperationBegin(view) \/ OperationBeginOwned(view)
  BY <1>1, BeginArena
<1>2. CASE OperationEnd \/ Suspend \/ Restore
  BY <1>2, EndArena, CallbackArena
<1>3. CASE \/ \E view \in Roots : OperationRefused(view)
           \/ \E index \in OwnIndexes : OperationIndex(index)
           \/ \E key \in Addresses(op.view), kind \in Kinds :
                 \E value \in key..op.view[2] : IndexPut(key, kind, value)
           \/ \E view \in Parts : ScopeBegin(view)
           \/ ScopeEnd
           \/ \E position \in Addresses(op.view) : ScopeFrontier(position)
  BY <1>3, IndexArena
<1>4. CASE \E view \in Roots \cup Parts, retained \in BOOLEAN :
              \E buffer \in Buffers \cup {NoBuffer} :
                  WorkspaceBegin(view, buffer, retained)
  BY <1>4, WorkspaceBeginArena
<1>5. CASE WorkspaceEnd
  BY <1>5, WorkspaceEndArena
<1>6. CASE \E size \in Takes : Take(size)
  BY <1>6, TakeArena
<1>7. CASE \E mark \in Taken : Release(mark)
  BY <1>7, ReleaseArena
<1>8. CASE ArrayFacts
  BY <1>8, ArrayFactsArena
<1>9. CASE \E view \in Roots, buffer \in Buffers : IteratorInit(view, buffer)
  BY <1>9, IteratorInitArena
<1>10. CASE IteratorNext
  BY <1>10, IteratorNextArena
<1>11. CASE IteratorEnd
  BY <1>11, IteratorEndArena
<1>12. CASE IteratorDrop
  BY <1>12, IteratorDropArena
<1>13. CASE UNCHANGED vars
  BY <1>13 DEF vars, ArenaInv
<1> QED
  BY <1>1, <1>2, <1>3, <1>4, <1>5, <1>6, <1>7, <1>8, <1>9, <1>10, <1>11,
     <1>12, <1>13 DEF Next

(* In every state each arena is packed, at its level and at those that the *)
(* calls in progress return to: shell_source_workspace_begin and _end,     *)
(* shell_source_scratch_take and _release, source_array_index_prepare and  *)
(* the calls of an iterator never give out what is in use.                 *)
THEOREM ArenaInvariance == Spec => [](IInv /\ ArenaInv)
<1>1. Init => IInv /\ ArenaInv
  BY Initially, ArenaInitially
<1>2. (IInv /\ ArenaInv) /\ [Next]_vars => (IInv /\ ArenaInv)'
  BY Step, ArenaNext
<1> QED
  BY <1>1, <1>2, PTL DEF Spec

LEMMA Joined ==
    ASSUME NEW s \in Seq(Extents), NEW t \in Seq(Extents),
           NEW i \in DOMAIN (s \o t)
    PROVE  \/ i \in DOMAIN s /\ (s \o t)[i] = s[i]
           \/ i > Len(s) /\ i - Len(s) \in DOMAIN t /\ (s \o t)[i] = t[i - Len(s)]
OBVIOUS

(* ArenaIntact (shell_source_scratch_take, _release, _workspace_begin and  *)
(* _end, source_array_index_prepare): the blocks and facts that the arena  *)
(* has given out lie in their buffers and apart from one another, and the  *)
(* array facts at hand are those of the view being read.                   *)
THEOREM ArenaKept == Spec => []ArenaIntact
<1>1. IInv /\ ArenaInv => ArenaIntact
  <2> SUFFICES ASSUME OwnerInv, ArenaInv PROVE ArenaIntact
    BY DEF IInv
  <2> DEFINE front == op.front
             tails == op.tails
             live == front \o tails
  <2>1. Packed(op) /\ Facts(op)
    BY AtHand
  <2>2. /\ front \in Seq(Extents) /\ tails \in Seq(Extents)
        /\ Len(front) \in Nat /\ DOMAIN front = 1..Len(front)
    BY <2>1, ArenaFacts DEF Packed
  <2>3. \A i \in DOMAIN front : front[i] \in Extents
    BY <2>1, ArenaFacts
  <2>4. \A i \in DOMAIN tails : tails[i] \in Extents
    BY <2>1, ArenaFacts
  <2>5. \A b : Capacities(b) = Limit(op.view, b)
    BY DEF Capacities, Limit
  <2>6. /\ \A i \in DOMAIN front : front[i].to <= Capacities(front[i].buffer)
        /\ \A i \in DOMAIN tails : tails[i].to <= Capacities(tails[i].buffer)
    BY <2>1, <2>5 DEF Packed
  <2>7. \A i, j \in DOMAIN front : i # j => Apart(front[i], front[j])
    <3> SUFFICES ASSUME NEW i \in DOMAIN front, NEW j \in DOMAIN front, i # j
                 PROVE  Apart(front[i], front[j])
      OBVIOUS
    <3>1. i < j \/ j < i
      BY <2>2
    <3> QED
      BY <3>1, <2>1 DEF Packed, Follows, Apart
  <2>8. /\ \A i, j \in DOMAIN tails : i # j => Apart(tails[i], tails[j])
        /\ \A i \in DOMAIN front, j \in DOMAIN tails :
               Apart(front[i], tails[j]) /\ Apart(tails[j], front[i])
    BY <2>1 DEF Packed, Apart
  <2> HIDE DEF front, tails
  <2>9. \A i \in DOMAIN live :
            \/ i \in DOMAIN front /\ live[i] = front[i]
            \/ /\ i > Len(front) /\ i - Len(front) \in DOMAIN tails
               /\ live[i] = tails[i - Len(front)]
    BY <2>2, Joined
  <2>10. DOMAIN live \subseteq Int
    BY <2>2
  <2> HIDE DEF live
  <2>11. \A i \in DOMAIN live : live[i].to <= Capacities(live[i].buffer)
    BY <2>6, <2>9
  <2>12. \A i, j \in DOMAIN live : i # j => Apart(live[i], live[j])
    <3> SUFFICES ASSUME NEW i \in DOMAIN live, NEW j \in DOMAIN live, i # j
                 PROVE  Apart(live[i], live[j])
      OBVIOUS
    <3>1. i - Len(front) # j - Len(front)
      BY <2>2, <2>10
    <3> QED
      BY <3>1, <2>7, <2>8, <2>9
  <2>13. op.arrays.prepared /\ ~op.exhausted =>
            IF op.arrays.at = NoBuffer THEN op.inline = op.window
            ELSE \E i \in DOMAIN op.tails :
                    /\ op.tails[i].buffer = op.buffer /\ op.arrays.at = op.buffer
                    /\ op.tails[i].from = op.size
    BY <2>1 DEF Facts
  <2> QED
    BY <2>11, <2>12, <2>13 DEF ArenaIntact, live, front, tails
<1> QED
  BY <1>1, ArenaInvariance, PTL
===============================================================================
