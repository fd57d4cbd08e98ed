----------------------------- MODULE LearnerProofs -----------------------------
(***************************************************************************)
(* An insertion that fails leaves no trace, the counters of the trie are   *)
(* bounded by the total, and the trie says exactly what was learned; the   *)
(* support of a proposal is then the number of commands it accepts, every  *)
(* suggestion is a usable rule, and the types offered for a token are the  *)
(* ones seen: for every vocabulary and every limit.                        *)
(*                                                                         *)
(* During an insertion the trie is the one before it, but for the nodes on *)
(* the path taken so far: those that were there are one higher and their   *)
(* former contents are in saved, the others begin where created says.      *)
(***************************************************************************)
EXTENDS LearnerSuggest, SequenceTheorems, FiniteSetTheorems, WellFoundedInduction,
        TLAPS

Labels == {Label(c, i) : c \in Commands, i \in Nat}

NodeSet == [count : Nat, observed : SUBSET Types, observations : Nat,
            common : Params \cup {NoParam}, mixed : BOOLEAN]

(* A trie: nodes at the prefixes of sequences of labels.                   *)
IsTrie(t) ==
    /\ t \in [DOMAIN t -> NodeSet]
    /\ <<>> \in DOMAIN t
    /\ \A p \in DOMAIN t :
          p \in Seq(Labels) /\ \A k \in 0..Len(p) : SubSeq(p, 1, k) \in DOMAIN t

Bounded(t, limit) ==
    \A p \in DOMAIN t : t[p].observations <= t[p].count /\ t[p].count <= limit

(* What an insertion in progress has done so far.                          *)
Inserting ==
    /\ cmd \in Commands /\ done \in 0..Len(cmd)
    /\ total < MaxCount
    /\ trie \in [DOMAIN trie -> NodeSet]
    /\ DOMAIN trie = DOMAIN before \cup {Path(cmd, n) : n \in 1..done}
    /\ \A p \in DOMAIN before : ~OnPath(p) => trie[p] = before[p]
    /\ saved \in Seq(NodeSet) /\ Len(saved) = done
    /\ \A n \in 1..done :
          /\ saved[n] = Node(before, Path(cmd, n))
          /\ trie[Path(cmd, n)].count = saved[n].count + 1
          /\ trie[Path(cmd, n)].observations <= saved[n].observations + 1
    /\ trie[<<>>] = [before[<<>>] EXCEPT !.count = @ + 1]
    /\ \A n \in 0..Len(cmd) : Node(before, Path(cmd, n)).count < MaxCount

Created ==
    IF created = 0
    THEN \A n \in 1..done : Path(cmd, n) \in DOMAIN before
    ELSE /\ created \in 1..done
         /\ Path(cmd, created) \notin DOMAIN before
         /\ \A n \in 1..(created - 1) : Path(cmd, n) \in DOMAIN before

IInv ==
    /\ IsTrie(before) /\ Bounded(before, total)
    /\ total \in 0..MaxCount
    /\ IF Idle THEN trie = before /\ done = 0 /\ created = 0 /\ saved = <<>>
               ELSE Inserting /\ Created

-------------------------------------------------------------------------------
(* Paths.                                                                  *)

LEMMA CommandShape ==
    ASSUME NEW c \in Commands
    PROVE  c # <<>> /\ c \in Seq(Words) /\ Len(c) \in Nat \ {0}
  BY LearnerAssumption, EmptySeq, LenProperties

LEMMA PathShape ==
    ASSUME NEW c \in Commands, NEW n \in Nat
    PROVE  /\ Path(c, n) \in Seq(Labels)
           /\ Len(Path(c, n)) = n
           /\ \A k \in 0..n : SubSeq(Path(c, n), 1, k) = Path(c, k)
<1>1. \A m \in Nat : Path(c, m) \in Seq(Labels) /\ Len(Path(c, m)) = m
  <2> SUFFICES ASSUME NEW m \in Nat
               PROVE  Path(c, m) \in Seq(Labels) /\ Len(Path(c, m)) = m
    OBVIOUS
  <2>1. Path(c, m) \in [1..m -> Labels]
    BY DEF Path, Labels
  <2>2. Path(c, m) \in Seq(Labels)
    BY <2>1, SeqDef
  <2>3. DOMAIN Path(c, m) = 1..m
    BY DEF Path
  <2> QED BY <2>2, <2>3, LenProperties
<1>2. ASSUME NEW k \in 0..n PROVE SubSeq(Path(c, n), 1, k) = Path(c, k)
  <2>1. k \in Nat /\ k <= n
    OBVIOUS
  <2>2. SubSeq(Path(c, n), 1, k) = [i \in 1..k |-> Path(c, n)[i]]
    BY <1>1, <2>1
  <2>3. \A i \in 1..k : Path(c, n)[i] = Label(c, i)
    BY <2>1 DEF Path
  <2> QED BY <2>2, <2>3 DEF Path
<1> QED BY <1>1, <1>2

LEMMA EmptyPath == ASSUME NEW c PROVE Path(c, 0) = <<>>
  BY DEF Path

(* Two paths of one command are equal only when they are as long.          *)
LEMMA PathsDiffer ==
    ASSUME NEW c \in Commands, NEW m \in Nat, NEW n \in Nat,
           Path(c, m) = Path(c, n)
    PROVE  m = n
<1>1. Len(Path(c, m)) = m /\ Len(Path(c, n)) = n
  BY PathShape
<1> QED BY <1>1

-------------------------------------------------------------------------------
(* Nodes.                                                                  *)

LEMMA NewNodeShape == NewNode \in NodeSet /\ NewNode.count = 0 /\ NewNode.observations = 0
  BY DEF NewNode, NodeSet

LEMMA SameNode ==
    ASSUME NEW a \in NodeSet, NEW b \in NodeSet,
           a.count = b.count, a.observed = b.observed,
           a.observations = b.observations, a.common = b.common, a.mixed = b.mixed
    PROVE  a = b
  BY DEF NodeSet

(* Taking one off the count and putting the metadata back.                 *)
LEMMA Uncounted ==
    ASSUME NEW node \in NodeSet, NEW old \in NodeSet, node.count = old.count + 1
    PROVE  [[node EXCEPT !.count = @ - 1] EXCEPT
               !.observed = old.observed, !.observations = old.observations,
               !.common = old.common, !.mixed = old.mixed] = old
<1> DEFINE n == [node EXCEPT !.count = @ - 1]
           r == [n EXCEPT !.observed = old.observed, !.observations = old.observations,
                          !.common = old.common, !.mixed = old.mixed]
<1>1. old.count \in Nat /\ node.count - 1 = old.count
  BY DEF NodeSet
<1>2. n \in NodeSet /\ n.count = old.count
  BY <1>1 DEF NodeSet
<1> HIDE DEF n
<1>3. /\ r.count = old.count /\ r.observed = old.observed
      /\ r.observations = old.observations
      /\ r.common = old.common /\ r.mixed = old.mixed
  BY <1>2 DEF NodeSet
<1>4. r \in NodeSet
  BY <1>2 DEF NodeSet
<1> HIDE DEF r
<1>5. r = old
  BY <1>3, <1>4, SameNode
<1> QED BY <1>5 DEF r, n

LEMMA NodeShape ==
    ASSUME NEW t, IsTrie(t), NEW path
    PROVE  Node(t, path) \in NodeSet
  BY NewNodeShape DEF Node, IsTrie

LEMMA TypeShape ==
    ASSUME NEW c \in Commands, NEW i \in 1..Len(c)
    PROVE  /\ CommandType(c, i) \in Types
           /\ Meta[<<CommandType(c, i), c[i]>>] \in Params \cup {NoParam}
<1>1. c \in Seq(Words) /\ Len(c) \in Nat
  BY CommandShape
<1>2. c[i] \in Words
  BY <1>1, ElementOfSeq
<1>3. i # 1 => c[i - 1] \in Words
  <2>1. i # 1 => i - 1 \in 1..Len(c)
    BY <1>1
  <2> QED BY <1>1, <2>1, ElementOfSeq
<1>4. (IF i = 1 THEN NoContext ELSE After[c[i - 1]]) \in Contexts
  BY <1>3, TableAssumption
<1>5. CommandType(c, i) \in Types
  BY <1>2, <1>4, TableAssumption DEF CommandType
<1> QED BY <1>2, <1>5, LearnerAssumption

(* Counting a word adds one to the node and at most one observation.       *)
LEMMA CountedShape ==
    ASSUME NEW node \in NodeSet, NEW c \in Commands, NEW i \in 1..Len(c)
    PROVE  /\ Counted(node, c, i) \in NodeSet
           /\ Counted(node, c, i).count = node.count + 1
           /\ Counted(node, c, i).observations <= node.observations + 1
<1> DEFINE type == CommandType(c, i)
           meta == Meta[<<type, c[i]>>]
           n    == [node EXCEPT !.count = @ + 1]
<1>1. type \in Types /\ meta \in Params \cup {NoParam}
  BY TypeShape
<1>2. n \in NodeSet /\ n.count = node.count + 1 /\ n.observations = node.observations
  BY DEF NodeSet
<1>3. /\ Observe(n, type, meta) \in NodeSet
      /\ Observe(n, type, meta).count = n.count
      /\ Observe(n, type, meta).observations = n.observations + 1
  <2> HIDE DEF type, meta, n
  <2>0. /\ n.observed \in SUBSET Types /\ n.observations \in Nat /\ n.count \in Nat
        /\ n.common \in Params \cup {NoParam} /\ n.mixed \in BOOLEAN
    BY <1>2 DEF NodeSet
  <2>1. /\ (n.observed \cup {type}) \in SUBSET Types
        /\ (IF n.observations = 0 /\ meta # NoParam THEN meta ELSE n.common)
              \in Params \cup {NoParam}
        /\ n.observations + 1 \in Nat
    BY <1>1, <2>0
  <2>2. (n.mixed \/ (~(n.observations = 0 /\ meta # NoParam)
                      /\ (meta = NoParam \/ n.common # meta))) \in BOOLEAN
    BY <2>0
  <2> QED BY <1>2, <2>0, <2>1, <2>2 DEF Observe, NodeSet
<1>4. n.observations \in Nat /\ node.observations \in Nat
  BY <1>2 DEF NodeSet
<1>5. Counted(node, c, i) = IF type = LiteralType THEN n ELSE Observe(n, type, meta)
  BY DEF Counted
<1> HIDE DEF type, meta, n
<1> QED BY <1>2, <1>3, <1>4, <1>5

-------------------------------------------------------------------------------
(* The invariant is inductive.                                             *)

LEMMA InitIInv == Init => IInv
<1> SUFFICES ASSUME Init PROVE IInv
  OBVIOUS
<1>1. DOMAIN trie = {<<>>} /\ trie[<<>>] = NewNode /\ before = trie
  BY DEF Init
<1>2. <<>> \in Seq(Labels) /\ Len(<<>>) = 0 /\ SubSeq(<<>>, 1, 0) = <<>>
  BY EmptySeq
<1>3. IsTrie(before)
  <2>1. before \in [DOMAIN before -> NodeSet]
    BY <1>1, NewNodeShape DEF Init
  <2>2. ASSUME NEW p \in DOMAIN before
        PROVE  p \in Seq(Labels) /\ \A k \in 0..Len(p) : SubSeq(p, 1, k) \in DOMAIN before
    <3>1. p = <<>>
      BY <1>1
    <3>2. \A k \in 0..Len(p) : k = 0
      BY <1>2, <3>1
    <3> QED BY <1>1, <1>2, <3>1, <3>2
  <2> QED BY <1>1, <2>1, <2>2 DEF IsTrie
<1>4. Bounded(before, total) /\ total \in 0..MaxCount
  BY <1>1, NewNodeShape, LearnerAssumption DEF Init, Bounded
<1> QED BY <1>3, <1>4 DEF Init, IInv, Idle

LEMMA FeedIInv ==
    ASSUME IInv, NEW c \in Commands, Feed(c)
    PROVE  IInv'
<1>1. /\ Idle /\ total < MaxCount /\ trie = before
      /\ cmd' = c /\ done' = 0 /\ created' = 0 /\ saved' = <<>>
      /\ before' = before /\ total' = total
      /\ trie' = [before EXCEPT ![<<>>].count = @ + 1]
  BY DEF IInv, Feed
<1>2. IsTrie(before) /\ Bounded(before, total) /\ total \in 0..MaxCount
  BY DEF IInv
<1>3. ~Idle' /\ Len(c) \in Nat
  BY <1>1, CommandShape DEF Idle
<1>5. <<>> \in DOMAIN before /\ DOMAIN trie' = DOMAIN before
  BY <1>1, <1>2 DEF IsTrie
<1>6. Inserting'
  <2>0. 0 \in 0..done'
    BY <1>1
  <2>1. ASSUME NEW p \in DOMAIN before', ~OnPath(p)'
        PROVE  trie'[p] = before'[p]
    <3>1. Path(cmd, 0)' = <<>>
      BY EmptyPath DEF Path
    <3>2. p # <<>>
      BY <2>0, <2>1, <3>1 DEF OnPath
    <3> QED BY <1>1, <3>2
  <2>2. trie'[<<>>] = [before[<<>>] EXCEPT !.count = @ + 1]
    BY <1>1, <1>5
  <2>3. saved' \in Seq(NodeSet) /\ Len(saved') = 0
    BY <1>1, EmptySeq
  <2>5. \A n \in 0..Len(c) : Node(before, Path(c, n)).count < MaxCount
    BY <1>1 DEF Feed
  <2>6. cmd' \in Commands /\ done' \in 0..Len(cmd') /\ total' < MaxCount
    BY <1>1, <1>3
  <2>7. \A n \in 1..done' : FALSE
    BY <1>1
  <2>8. DOMAIN trie' = DOMAIN before' \cup {Path(cmd', n) : n \in 1..done'}
    BY <1>1, <1>5, <2>7
  <2>9. trie' \in [DOMAIN trie' -> NodeSet]
    <3>0. before[<<>>] \in NodeSet
      BY <1>2, <1>5 DEF IsTrie
    <3>1. [before[<<>>] EXCEPT !.count = @ + 1] \in NodeSet
      BY <3>0 DEF NodeSet
    <3> QED BY <1>1, <1>2, <1>5, <3>1 DEF IsTrie
  <2> QED BY <1>1, <2>1, <2>2, <2>3, <2>5, <2>6, <2>7, <2>8, <2>9 DEF Inserting, Node, Path
<1>7. Created'
  BY <1>1 DEF Created
<1> QED BY <1>1, <1>2, <1>3, <1>6, <1>7 DEF IInv

(* What holds of the next word while it is not in yet.                     *)
LEMMA NextWord ==
    ASSUME IInv, ~Idle, done < Len(cmd)
    PROVE  /\ Node(trie, NextPath) = Node(before, NextPath)
           /\ NextPath \in DOMAIN trie <=> NextPath \in DOMAIN before
           /\ NextPath \notin {Path(cmd, n) : n \in 0..done}
           /\ ~Saturated
<1>1. Inserting /\ IsTrie(before) /\ Bounded(before, total)
  BY DEF IInv
<1>2. cmd \in Commands /\ done \in Nat /\ Len(cmd) \in Nat /\ done + 1 \in 0..Len(cmd)
  BY <1>1, CommandShape DEF Inserting
<1>3. \A n \in 0..done : NextPath # Path(cmd, n)
  <2> SUFFICES ASSUME NEW n \in 0..done, NextPath = Path(cmd, n) PROVE FALSE
    OBVIOUS
  <2>1. n \in Nat /\ done + 1 \in Nat
    BY <1>2
  <2>2. done + 1 = n
    BY <1>2, <2>1, PathsDiffer DEF NextPath
  <2> QED BY <1>2, <2>2
<1>4. NextPath \in DOMAIN trie <=> NextPath \in DOMAIN before
  BY <1>1, <1>2, <1>3 DEF Inserting
<1>5. NextPath \in DOMAIN before => trie[NextPath] = before[NextPath]
  BY <1>1, <1>3 DEF Inserting, OnPath
<1>6. Node(trie, NextPath) = Node(before, NextPath)
  BY <1>4, <1>5 DEF Node
<1>7. Node(before, NextPath).count < MaxCount
  BY <1>1, <1>2 DEF Inserting, NextPath
<1>8. Node(before, NextPath).observations <= Node(before, NextPath).count
  BY <1>1, NewNodeShape DEF Node, Bounded
<1>9. Node(before, NextPath) \in NodeSet
  BY <1>1, NodeShape
<1>10. Node(before, NextPath).observations \in Nat /\ Node(before, NextPath).count \in Nat
  BY <1>9 DEF NodeSet
<1>11. ~Saturated
  BY <1>6, <1>7, <1>8, <1>10, LearnerAssumption DEF Saturated
<1> QED BY <1>3, <1>4, <1>6, <1>11

LEMMA InsertWordIInv ==
    ASSUME IInv, InsertWord
    PROVE  IInv'
<1> DEFINE node == Node(trie, NextPath)
           new  == Counted(node, cmd, done + 1)
<1>1. /\ done < Len(cmd) /\ trie' = Put(trie, NextPath, new)
      /\ saved' = Append(saved, node) /\ done' = done + 1
      /\ created' = IF created = 0 /\ NextPath \notin DOMAIN trie
                    THEN done + 1 ELSE created
      /\ cmd' = cmd /\ before' = before /\ total' = total
  BY DEF InsertWord
<1>2. ~Idle
  <2>1. Len(<<>>) = 0
    OBVIOUS
  <2> QED BY <1>1, <2>1 DEF IInv, Idle
<1>3. /\ Inserting /\ Created /\ IsTrie(before)
      /\ Bounded(before, total) /\ total \in 0..MaxCount
  BY <1>2 DEF IInv
<1>4. /\ node = Node(before, NextPath)
      /\ NextPath \in DOMAIN trie <=> NextPath \in DOMAIN before
      /\ NextPath \notin {Path(cmd, n) : n \in 0..done}
  BY <1>1, <1>2, NextWord
<1>5. /\ cmd \in Commands /\ Len(cmd) \in Nat /\ done \in Nat
      /\ done + 1 \in 1..Len(cmd) /\ NextPath = Path(cmd, done + 1)
  BY <1>1, <1>3, CommandShape DEF Inserting, NextPath
<1>6. /\ node \in NodeSet /\ new \in NodeSet
      /\ new.count = node.count + 1
      /\ new.observations <= node.observations + 1
  <2>1. node \in NodeSet
    BY <1>3, <1>4, NodeShape
  <2> QED BY <1>5, <2>1, CountedShape
<1> HIDE DEF node, new
<1>7. /\ DOMAIN trie' = DOMAIN trie \cup {NextPath}
      /\ trie' \in [DOMAIN trie' -> NodeSet]
      /\ trie'[NextPath] = new
      /\ \A q \in DOMAIN trie : q # NextPath => trie'[q] = trie[q]
  BY <1>1, <1>3, <1>6 DEF Put, Inserting
<1>8. Inserting'
  <2>1. cmd' \in Commands /\ done' \in 0..Len(cmd') /\ total' < MaxCount
    BY <1>1, <1>3, <1>5 DEF Inserting
  <2>2. DOMAIN trie' = DOMAIN before \cup {Path(cmd, n) : n \in 1..(done + 1)}
    BY <1>3, <1>5, <1>7 DEF Inserting
  <2>3. ASSUME NEW p \in DOMAIN before, \A n \in 0..(done + 1) : p # Path(cmd, n)
        PROVE  trie'[p] = before[p]
    <3>1. p # NextPath /\ ~OnPath(p)
      BY <1>5, <2>3 DEF OnPath
    <3> QED BY <1>3, <1>7, <3>1 DEF Inserting
  <2>4. saved' \in Seq(NodeSet) /\ Len(saved') = done + 1
        /\ saved'[done + 1] = node /\ \A n \in 1..done : saved'[n] = saved[n]
    BY <1>1, <1>3, <1>6 DEF Inserting
  <2>5. ASSUME NEW n \in 1..(done + 1)
        PROVE  /\ saved'[n] = Node(before, Path(cmd, n))
               /\ trie'[Path(cmd, n)].count = saved'[n].count + 1
               /\ trie'[Path(cmd, n)].observations <= saved'[n].observations + 1
    <3>1. CASE n = done + 1
      BY <1>4, <1>5, <1>6, <1>7, <2>4, <3>1
    <3>2. CASE n \in 1..done
      <4>1. Path(cmd, n) \in DOMAIN trie /\ Path(cmd, n) # NextPath
        BY <1>3, <1>4, <3>2 DEF Inserting
      <4>2. trie'[Path(cmd, n)] = trie[Path(cmd, n)] /\ saved'[n] = saved[n]
        BY <1>7, <2>4, <3>2, <4>1
      <4> QED BY <1>3, <3>2, <4>2 DEF Inserting
    <3> QED BY <1>5, <3>1, <3>2
  <2>6. trie'[<<>>] = [before[<<>>] EXCEPT !.count = @ + 1]
    <3>1. <<>> \in DOMAIN trie /\ <<>> # NextPath
      BY <1>3, <1>4, <1>5, EmptyPath DEF Inserting, IsTrie
    <3> QED BY <1>3, <1>7, <3>1 DEF Inserting
  <2>7. \A n \in 0..Len(cmd) : Node(before, Path(cmd, n)).count < MaxCount
    BY <1>3 DEF Inserting
  <2>8. ASSUME NEW p \in DOMAIN before', ~OnPath(p)'
        PROVE  trie'[p] = before'[p]
    <3>1. \A n \in 0..(done + 1) : p # Path(cmd, n)
      BY <1>1, <2>8 DEF OnPath, Path
    <3> QED BY <1>1, <2>3, <3>1
  <2>9. /\ DOMAIN trie' = DOMAIN before' \cup {Path(cmd', n) : n \in 1..done'}
        /\ saved' \in Seq(NodeSet) /\ Len(saved') = done'
        /\ trie'[<<>>] = [before'[<<>>] EXCEPT !.count = @ + 1]
    BY <1>1, <2>2, <2>4, <2>6
  <2>10. \A n \in 1..done' :
           /\ saved'[n] = Node(before', Path(cmd', n))
           /\ trie'[Path(cmd', n)].count = saved'[n].count + 1
           /\ trie'[Path(cmd', n)].observations <= saved'[n].observations + 1
    BY <1>1, <2>5
  <2>11. \A n \in 0..Len(cmd') : Node(before', Path(cmd', n)).count < MaxCount
    BY <1>1, <2>7
  <2> QED BY <1>7, <2>1, <2>8, <2>9, <2>10, <2>11 DEF Inserting, Node, Path
<1>9. Created'
  <2>1. IF created' = 0
        THEN \A n \in 1..(done + 1) : Path(cmd, n) \in DOMAIN before
        ELSE /\ created' \in 1..(done + 1)
             /\ Path(cmd, created') \notin DOMAIN before
             /\ \A n \in 1..(created' - 1) : Path(cmd, n) \in DOMAIN before
    <3>1. CASE created = 0 /\ NextPath \notin DOMAIN before
      BY <1>1, <1>3, <1>4, <1>5, <3>1 DEF Created
    <3>2. CASE created = 0 /\ NextPath \in DOMAIN before
      BY <1>1, <1>3, <1>4, <1>5, <3>2 DEF Created
    <3>3. CASE created # 0
      BY <1>1, <1>3, <1>5, <3>3 DEF Created
    <3> QED BY <3>1, <3>2, <3>3
  <2> QED BY <1>1, <2>1 DEF Created, Path
<1>10. ~Idle'
  BY <1>1, <1>2 DEF Idle
<1> QED BY <1>1, <1>3, <1>8, <1>9, <1>10 DEF IInv

(* During an insertion the trie is well formed and one above the limits.    *)
LEMMA InsertingTrie ==
    ASSUME IInv, ~Idle
    PROVE  IsTrie(trie) /\ Bounded(trie, total + 1)
<1>1. /\ Inserting /\ IsTrie(before) /\ Bounded(before, total)
      /\ total \in 0..MaxCount
  BY DEF IInv
<1>2. cmd \in Commands /\ done \in Nat /\ Len(cmd) \in Nat
  BY <1>1, CommandShape DEF Inserting
<1>3. trie \in [DOMAIN trie -> NodeSet] /\ before \in [DOMAIN before -> NodeSet]
  BY <1>1 DEF Inserting, IsTrie
<1>4. DOMAIN trie = DOMAIN before \cup {Path(cmd, n) : n \in 1..done}
  BY <1>1 DEF Inserting
<1>5. <<>> \in DOMAIN before
  BY <1>1 DEF IsTrie
<1>6. ASSUME NEW p \in DOMAIN trie
      PROVE  p \in Seq(Labels) /\ \A k \in 0..Len(p) : SubSeq(p, 1, k) \in DOMAIN trie
  <2>1. CASE p \in DOMAIN before
    BY <1>1, <1>4, <2>1 DEF IsTrie
  <2>2. ASSUME NEW n \in 1..done, p = Path(cmd, n)
        PROVE  p \in Seq(Labels) /\ \A k \in 0..Len(p) : SubSeq(p, 1, k) \in DOMAIN trie
    <3>1. n \in Nat
      BY <1>2
    <3>2. p \in Seq(Labels) /\ Len(p) = n
          /\ \A k \in 0..n : SubSeq(p, 1, k) = Path(cmd, k)
      BY <1>2, <2>2, <3>1, PathShape
    <3>3. ASSUME NEW k \in 0..n PROVE Path(cmd, k) \in DOMAIN trie
      <4>1. k = 0 \/ k \in 1..done
        BY <1>2
      <4> QED BY <1>4, <1>5, <4>1, EmptyPath
    <3> QED BY <3>2, <3>3
  <2> QED BY <1>4, <2>1, <2>2
<1>7. ASSUME NEW p \in DOMAIN trie
      PROVE  trie[p].observations <= trie[p].count /\ trie[p].count <= total + 1
  <2>0. /\ trie[p] \in NodeSet
        /\ trie[p].count \in Nat /\ trie[p].observations \in Nat
    BY <1>3 DEF NodeSet
  <2>1. CASE p = <<>>
    <3>1. trie[p] = [before[<<>>] EXCEPT !.count = @ + 1] /\ before[<<>>] \in NodeSet
      BY <1>1, <1>3, <1>5, <2>1 DEF Inserting
    <3>2. /\ trie[p].count = before[<<>>].count + 1
          /\ trie[p].observations = before[<<>>].observations
          /\ before[<<>>].count \in Nat /\ before[<<>>].observations \in Nat
      BY <3>1 DEF NodeSet
    <3>3. before[<<>>].observations <= before[<<>>].count /\ before[<<>>].count <= total
      BY <1>1, <1>5 DEF Bounded
    <3> QED BY <1>1, <3>2, <3>3
  <2>2. ASSUME NEW n \in 1..done, p = Path(cmd, n)
        PROVE  trie[p].observations <= trie[p].count /\ trie[p].count <= total + 1
    <3>1. /\ trie[p].count = saved[n].count + 1
          /\ trie[p].observations <= saved[n].observations + 1
          /\ saved[n] = Node(before, p)
      BY <1>1, <2>2 DEF Inserting
    <3>2. saved[n] \in NodeSet
      BY <1>1, <3>1, NodeShape
    <3>3. saved[n].observations \in Nat /\ saved[n].count \in Nat
      BY <3>2 DEF NodeSet
    <3>4. saved[n].observations <= saved[n].count /\ saved[n].count <= total
      BY <1>1, <3>1, NewNodeShape DEF Node, Bounded
    <3> QED BY <1>1, <2>0, <3>1, <3>3, <3>4
  <2>3. CASE p \in DOMAIN before /\ \A n \in 0..done : p # Path(cmd, n)
    <3>1. trie[p] = before[p]
      BY <1>1, <2>3 DEF Inserting, OnPath
    <3>2. trie[p].observations <= trie[p].count /\ trie[p].count <= total
      BY <1>1, <2>3, <3>1 DEF Bounded
    <3> QED BY <1>1, <2>0, <3>2
  <2>4. \A n \in 0..done : n = 0 \/ n \in 1..done
    BY <1>2
  <2> QED BY <1>4, <2>1, <2>2, <2>3, <2>4, EmptyPath
<1> QED BY <1>3, <1>4, <1>5, <1>6, <1>7 DEF IsTrie, Bounded

LEMMA InsertDoneIInv ==
    ASSUME IInv, InsertDone
    PROVE  IInv'
<1>1. /\ ~Idle /\ total' = total + 1 /\ before' = trie /\ trie' = trie
      /\ cmd' = <<>> /\ done' = 0 /\ created' = 0 /\ saved' = <<>>
  BY DEF InsertDone
<1>2. IsTrie(trie) /\ Bounded(trie, total + 1)
  BY <1>1, InsertingTrie
<1>3. total + 1 \in 0..MaxCount
  BY <1>1, LearnerAssumption DEF IInv, Inserting
<1>4. IsTrie(before)' /\ Bounded(before, total)'
  BY <1>1, <1>2 DEF IsTrie, Bounded
<1> QED BY <1>1, <1>3, <1>4 DEF IInv, Idle

(* Undoing an insertion gives back the trie before it.                     *)
LEMMA RollbackRestores ==
    ASSUME IInv, Rollback
    PROVE  trie' = before
<1>1. ~Idle
  <2>1. Len(<<>>) = 0
    OBVIOUS
  <2> QED BY <2>1 DEF IInv, Idle, Rollback
<1>2. /\ Inserting /\ Created /\ IsTrie(before)
  BY <1>1 DEF IInv
<1>3. cmd \in Commands /\ done \in Nat
  BY <1>2, CommandShape DEF Inserting
<1>4. DOMAIN trie = DOMAIN before \cup {Path(cmd, n) : n \in 1..done}
  BY <1>2 DEF Inserting
<1>5. before \in [DOMAIN before -> NodeSet] /\ <<>> \in DOMAIN before
  BY <1>2 DEF IsTrie
<1>6. ASSUME NEW p \in DOMAIN before PROVE ~Unlinked(p)
  <2> SUFFICES ASSUME created # 0, Len(p) >= created,
                      SubSeq(p, 1, created) = Path(cmd, created)
               PROVE  FALSE
    BY DEF Unlinked
  <2>1. created \in 1..done /\ Path(cmd, created) \notin DOMAIN before
    BY <1>2 DEF Created
  <2>2. p \in Seq(Labels) /\ \A k \in 0..Len(p) : SubSeq(p, 1, k) \in DOMAIN before
    BY <1>2 DEF IsTrie
  <2>3. Len(p) \in Nat
    BY <2>2, LenProperties
  <2>4. created \in 0..Len(p)
    BY <1>3, <2>1, <2>3
  <2> QED BY <2>1, <2>2, <2>4
<1>7. ASSUME NEW p \in DOMAIN trie, p \notin DOMAIN before PROVE Unlinked(p)
  <2>1. PICK n \in 1..done : p = Path(cmd, n)
    BY <1>4, <1>7
  <2>2. created # 0
    BY <1>2, <1>7, <2>1 DEF Created
  <2>3. created \in 1..done /\ \A m \in 1..(created - 1) : Path(cmd, m) \in DOMAIN before
    BY <1>2, <2>2 DEF Created
  <2>4. n \in Nat /\ created \in 0..n
    BY <1>3, <1>7, <2>1, <2>3
  <2>5. Len(p) = n /\ SubSeq(p, 1, created) = Path(cmd, created)
    BY <1>3, <2>1, <2>4, PathShape
  <2> QED BY <2>2, <2>4, <2>5 DEF Unlinked
<1>8. {q \in DOMAIN trie : ~Unlinked(q)} = DOMAIN before
  BY <1>4, <1>6, <1>7
<1>9. ASSUME NEW p \in DOMAIN before, OnPath(p) PROVE Restored(p) = before[p]
  <2>1. PICK n \in 0..done : p = Path(cmd, n)
    BY <1>9 DEF OnPath
  <2>2. before[p] \in NodeSet /\ trie[p] \in NodeSet
    BY <1>2, <1>4, <1>5 DEF Inserting
  <2>3. CASE n = 0
    <3>1. p = <<>> /\ trie[p] = [before[p] EXCEPT !.count = @ + 1]
      BY <1>2, <2>1, <2>3, EmptyPath DEF Inserting
    <3>2. trie[p].count = before[p].count + 1
          /\ trie[p].observed = before[p].observed
          /\ trie[p].observations = before[p].observations
          /\ trie[p].common = before[p].common /\ trie[p].mixed = before[p].mixed
      BY <2>2, <3>1 DEF NodeSet
    <3>3. [trie[p] EXCEPT !.count = @ - 1] \in NodeSet
          /\ [trie[p] EXCEPT !.count = @ - 1].count = before[p].count
      BY <2>2, <3>2 DEF NodeSet
    <3>4. [trie[p] EXCEPT !.count = @ - 1] = before[p]
      BY <2>2, <3>2, <3>3, SameNode DEF NodeSet
    <3> QED BY <3>1, <3>4 DEF Restored
  <2>4. CASE n # 0
    <3>1. n \in 1..done /\ n \in Nat
      BY <1>3, <2>4
    <3>2. Len(p) = n /\ p # <<>>
      BY <1>3, <2>1, <2>4, <3>1, PathShape
    <3>3. saved[n] = before[p] /\ trie[p].count = before[p].count + 1
      BY <1>2, <2>1, <3>1 DEF Inserting, Node
    <3>4. Restored(p) = [[trie[p] EXCEPT !.count = @ - 1] EXCEPT
                           !.observed = before[p].observed,
                           !.observations = before[p].observations,
                           !.common = before[p].common, !.mixed = before[p].mixed]
      BY <3>2, <3>3 DEF Restored
    <3> QED BY <2>2, <3>3, <3>4, Uncounted
  <2> QED BY <2>3, <2>4
<1>10. ASSUME NEW p \in DOMAIN before, ~OnPath(p) PROVE trie[p] = before[p]
  BY <1>2, <1>10 DEF Inserting
<1>11. trie' = [p \in DOMAIN before |-> IF OnPath(p) THEN Restored(p) ELSE trie[p]]
  BY <1>8 DEF Rollback
<1> QED BY <1>5, <1>9, <1>10, <1>11

LEMMA RollbackIInv ==
    ASSUME IInv, Rollback
    PROVE  IInv'
<1>1. /\ trie' = before /\ before' = before /\ total' = total
      /\ cmd' = <<>> /\ done' = 0 /\ created' = 0 /\ saved' = <<>>
  BY RollbackRestores DEF Rollback
<1>2. IsTrie(before)' /\ Bounded(before, total)'
  BY <1>1 DEF IInv, IsTrie, Bounded
<1> QED BY <1>1, <1>2 DEF IInv, Idle

LEMMA QuietIInv ==
    ASSUME IInv, UNCHANGED <<trie, total, cmd, done, created, saved, before>>
    PROVE  IInv'
<1>1. IsTrie(before)' /\ Bounded(before, total)' /\ (total \in 0..MaxCount)'
  BY DEF IInv, IsTrie, Bounded
<1>2. Inserting => Inserting'
  BY DEF Inserting, OnPath, Node, Path
<1>3. Created => Created'
  BY DEF Created, Path
<1> QED BY <1>1, <1>2, <1>3 DEF IInv, Idle

LEMMA LearnerIInv == LearnerSpec => []IInv
<1>1. ASSUME IInv, [LearnerNext]_learnerVars PROVE IInv'
  <2>1. ASSUME NEW c \in Commands, Feed(c) PROVE IInv'
    BY <1>1, <2>1, FeedIInv
  <2>2. CASE InsertWord
    BY <1>1, <2>2, InsertWordIInv
  <2>3. CASE InsertDone
    BY <1>1, <2>3, InsertDoneIInv
  <2>4. CASE Rollback
    BY <1>1, <2>4, RollbackIInv
  <2>5. ASSUME NEW r \in BlacklistRules, Blacklist(r) PROVE IInv'
    BY <1>1, <2>5, QuietIInv DEF Blacklist
  <2>6. ASSUME NEW c \in Configs, SetConfig(c) PROVE IInv'
    BY <1>1, <2>6, QuietIInv DEF SetConfig
  <2>7. CASE UNCHANGED learnerVars
    BY <1>1, <2>7, QuietIInv DEF learnerVars
  <2> QED BY <1>1, <2>1, <2>2, <2>3, <2>4, <2>5, <2>6, <2>7 DEF LearnerNext
<1> QED BY <1>1, InitIInv, PTL DEF LearnerSpec

-------------------------------------------------------------------------------
(* Between calls the trie is the one the last successful feed left: the     *)
(* rollback of learner_insert_atomic gives back exactly the trie before the *)
(* feed, wherever in the command it stopped.                                *)
THEOREM LearnerFeedAtomic == LearnerSpec => []FeedAtomic
<1>1. IInv => FeedAtomic
  BY DEF IInv, FeedAtomic
<1> QED BY <1>1, LearnerIInv, PTL

(* The counters of the nodes stay within the total, so learner_insert_atomic *)
(* never meets the limit it checks after it has touched the trie.            *)
THEOREM LearnerLimitsExact == LearnerSpec => []LimitsExact
<1>1. ASSUME IInv PROVE LimitsExact
  <2>1. MaxCount \in Nat /\ total \in 0..MaxCount
    BY <1>1, LearnerAssumption DEF IInv
  <2>2. IsTrie(trie) /\ Bounded(trie, IF Idle THEN total ELSE total + 1)
    BY <1>1, InsertingTrie DEF IInv
  <2>3. \A p \in DOMAIN trie : trie[p].count \in Nat /\ trie[p].observations \in Nat
    BY <2>2 DEF IsTrie, NodeSet
  <2>4. ~Idle => total < MaxCount
    BY <1>1 DEF IInv, Inserting
  <2>5. (IF Idle THEN total ELSE total + 1) <= MaxCount
    BY <2>1, <2>4
  <2>6. ~Idle /\ done < Len(cmd) => ~Saturated
    BY <1>1, NextWord
  <2>7. \A p \in DOMAIN trie : trie[p].count <= MaxCount /\ trie[p].observations <= MaxCount
    BY <2>1, <2>2, <2>3, <2>5 DEF Bounded
  <2>8. Idle => \A p \in DOMAIN trie : trie[p].count <= total
    BY <2>2 DEF Bounded
  <2> QED BY <2>1, <2>3, <2>6, <2>7, <2>8 DEF LimitsExact
<1> QED BY <1>1, LearnerIInv, PTL

-------------------------------------------------------------------------------
(* Sums over a finite set.  Induction is on the size of the subsets: of    *)
(* the counterexamples, one is smallest.                                   *)

(* The recursive function behind a sum, over all subsets *)
Sums(f, S) ==
    CHOOSE sums : sums = [s \in SUBSET S |->
        IF s = {} THEN 0
        ELSE LET x == CHOOSE x \in s : TRUE IN f[x] + sums[s \ {x}]]

(* A set of natural numbers that is not empty has a least one. *)
LEMMA Least ==
    ASSUME NEW T \in SUBSET Nat, T # {}
    PROVE  \E x \in T : \A y \in T : x <= y
<1> DEFINE R == OpToRel(<, Nat)
<1>1. IsWellFoundedOn(R, Nat)
  BY NatLessThanWellFounded
<1>2. \A x, y \in Nat : <<y, x>> \in R <=> y < x
  BY DEF OpToRel
<1> HIDE DEF R
<1>3. PICK x \in T : \A y \in T : ~ (<<y, x>> \in R)
  BY <1>1, WFMin
<1>4. ASSUME NEW y \in T PROVE x <= y
  <2>1. ~(y < x) /\ x \in Nat /\ y \in Nat
    BY <1>2, <1>3, Zenon
  <2> QED
    BY <2>1, SMT
<1> QED
  BY <1>4

(* The equation a sum satisfies on a family of sets *)
SumStep(f, g, s) ==
    IF s = {} THEN 0 ELSE LET x == CHOOSE x \in s : TRUE IN f[x] + g[s \ {x}]

Upto(S, n) == {s \in SUBSET S : Cardinality(s) <= n}

(* Functions that satisfy it on the sets up to a size exist. *)
LEMMA SumsUpto ==
    ASSUME NEW S, IsFiniteSet(S), NEW f
    PROVE  \A n \in Nat : \E g : g = [s \in Upto(S, n) |-> SumStep(f, g, s)]
<1> DEFINE Bad == {n \in Nat : ~ \E g : g = [s \in Upto(S, n) |-> SumStep(f, g, s)]}
<1> SUFFICES ASSUME Bad # {} PROVE FALSE
  OBVIOUS
<1>1. PICK n \in Bad : \A m \in Bad : n <= m
  BY Least
<1>2. CASE n = 0
  <2> DEFINE g == [s \in Upto(S, 0) |-> 0]
  <2>1. \A s \in Upto(S, 0) : s = {}
    <3> SUFFICES ASSUME NEW s \in Upto(S, 0) PROVE s = {}
      OBVIOUS
    <3>1. IsFiniteSet(s) /\ Cardinality(s) \in Nat /\ Cardinality(s) <= 0
      BY FS_Subset, FS_CardinalityType DEF Upto
    <3> QED BY <3>1, FS_EmptySet
  <2>2. g = [s \in Upto(S, 0) |-> SumStep(f, g, s)]
    BY <2>1 DEF SumStep
  <2> QED BY <1>2, <2>2
<1>3. CASE n # 0
  <2>1. n - 1 \in Nat /\ n - 1 \notin Bad
    BY <1>1, <1>3
  <2>2. PICK g : g = [s \in Upto(S, n - 1) |-> SumStep(f, g, s)]
    BY <2>1
  <2> DEFINE h == [s \in Upto(S, n) |-> SumStep(f, g, s)]
  <2>3. ASSUME NEW s \in Upto(S, n) PROVE SumStep(f, g, s) = SumStep(f, h, s)
    <3>1. CASE s = {}
      BY <3>1 DEF SumStep
    <3>2. CASE s # {}
      <4> DEFINE x == CHOOSE x \in s : TRUE
      <4>1. x \in s
        BY <3>2
      <4> HIDE DEF x
      <4>2. s \ {x} \in Upto(S, n - 1) /\ s \ {x} \in Upto(S, n)
        <5>1. IsFiniteSet(s) /\ Cardinality(s) \in Nat /\ Cardinality(s) <= n
          BY FS_Subset, FS_CardinalityType DEF Upto
        <5>2. Cardinality(s \ {x}) = Cardinality(s) - 1
          BY <4>1, <5>1, FS_RemoveElement
        <5>3. s \ {x} \in SUBSET S
          BY DEF Upto
        <5> QED BY <5>1, <5>2, <5>3, <2>1 DEF Upto
      <4>3. g[s \ {x}] = h[s \ {x}]
        BY <2>2, <4>2
      <4> QED BY <3>2, <4>3 DEF SumStep, x
    <3> QED BY <3>1, <3>2
  <2>4. h = [s \in Upto(S, n) |-> SumStep(f, h, s)]
    BY <2>3
  <2> HIDE DEF h
  <2> QED BY <2>4
<1> QED BY <1>2, <1>3

(* The sums of a finite set satisfy the equation. *)
LEMMA SumsFunction ==
    ASSUME NEW S, IsFiniteSet(S), NEW f
    PROVE  Sums(f, S) = [s \in SUBSET S |-> SumStep(f, Sums(f, S), s)]
<1> DEFINE n == Cardinality(S)
<1>1. n \in Nat
  BY FS_CardinalityType
<1>2. Upto(S, n) = SUBSET S
  BY FS_Subset DEF Upto
<1> HIDE DEF n
<1>3. \E g : g = [s \in Upto(S, n) |-> SumStep(f, g, s)]
  <2>1. \A m \in Nat : \E g : g = [s \in Upto(S, m) |-> SumStep(f, g, s)]
    BY SumsUpto
  <2> QED
    BY <1>1, <2>1
<1>4. \E g : g = [s \in SUBSET S |-> SumStep(f, g, s)]
  BY <1>2, <1>3, Zenon
<1> QED BY <1>4 DEF Sums, SumStep

LEMMA SumsDef ==
    ASSUME NEW S, IsFiniteSet(S), NEW f
    PROVE  \A s \in SUBSET S : Sums(f, S)[s] = SumStep(f, Sums(f, S), s)
<1> DEFINE g == Sums(f, S)
<1>1. g = [s \in SUBSET S |-> SumStep(f, g, s)]
  BY SumsFunction, Zenon
<1> HIDE DEF g
<1>2. \A s \in SUBSET S : g[s] = SumStep(f, g, s)
  BY <1>1, Zenon
<1> QED BY <1>2 DEF g

(* Of the sets in a family, one has no smaller one in it. *)
LEMMA SmallestSet ==
    ASSUME NEW S, IsFiniteSet(S), NEW Bad \in SUBSET (SUBSET S), Bad # {}
    PROVE  \E s \in Bad : s \in SUBSET S /\ \A x \in s : s \ {x} \notin Bad
<1> DEFINE Sizes == {Cardinality(s) : s \in Bad}
<1>1. \A s \in SUBSET S : IsFiniteSet(s) /\ Cardinality(s) \in Nat
  BY FS_Subset, FS_CardinalityType
<1>2. Sizes \in SUBSET Nat /\ Sizes # {}
  BY <1>1
<1>3. PICK n \in Sizes : \A m \in Sizes : n <= m
  BY <1>2, Least
<1>4. PICK s \in Bad : Cardinality(s) = n
  BY <1>3
<1>5. ASSUME NEW x \in s, s \ {x} \in Bad PROVE FALSE
  <2>1. Cardinality(s \ {x}) = Cardinality(s) - 1
    BY <1>1, <1>5, FS_RemoveElement
  <2>2. n <= Cardinality(s \ {x}) /\ n \in Nat
    BY <1>2, <1>3, <1>5
  <2> QED BY <1>4, <2>1, <2>2
<1> QED BY <1>5

(* Sums of natural numbers, by the elements of the set *)
LEMMA SumsShape ==
    ASSUME NEW S, IsFiniteSet(S), NEW f, \A x \in S : f[x] \in Nat
    PROVE  \A s \in SUBSET S :
              /\ Sums(f, S)[s] \in Nat
              /\ Sums(f, S)[s] = 0 <=> \A x \in s : f[x] = 0
<1> DEFINE Good(s) == /\ Sums(f, S)[s] \in Nat
                      /\ Sums(f, S)[s] = 0 <=> \A x \in s : f[x] = 0
           Bad == {s \in SUBSET S : ~Good(s)}
<1> SUFFICES ASSUME Bad # {} PROVE FALSE
  OBVIOUS
<1>1. PICK s \in Bad : s \in SUBSET S /\ \A x \in s : s \ {x} \notin Bad
  BY SmallestSet
<1>2. Sums(f, S)[s] = SumStep(f, Sums(f, S), s)
  BY <1>1, SumsDef
<1>3. CASE s = {}
  BY <1>1, <1>2, <1>3 DEF SumStep
<1>4. CASE s # {}
  <2> DEFINE x == CHOOSE x \in s : TRUE
  <2>1. x \in s
    BY <1>4
  <2>2. Sums(f, S)[s] = f[x] + Sums(f, S)[s \ {x}]
    BY <1>2, <1>4 DEF SumStep
  <2> HIDE DEF x
  <2>3. s \ {x} \in SUBSET S /\ Good(s \ {x})
    BY <1>1, <2>1
  <2>4. f[x] \in Nat
    BY <1>1, <2>1
  <2>5. Good(s)
    BY <2>1, <2>2, <2>3, <2>4
  <2> QED BY <1>1, <2>5
<1> QED BY <1>3, <1>4

(* One more at one element adds one to the sums it is in. *)
OneMore(f, g, c, S) ==
    \A x \in S : f[x] \in Nat /\ g[x] = IF x = c THEN f[x] + 1 ELSE f[x]

OneMoreIn(f, g, c, S) ==
    \A s \in SUBSET S : Sums(g, S)[s] = Sums(f, S)[s] + (IF c \in s THEN 1 ELSE 0)

LEMMA SumsRaised ==
    ASSUME NEW S, IsFiniteSet(S), NEW f, NEW g, NEW c, OneMore(f, g, c, S)
    PROVE  OneMoreIn(f, g, c, S)
<1> DEFINE Good(s) == Sums(g, S)[s] = Sums(f, S)[s] + (IF c \in s THEN 1 ELSE 0)
           Bad == {s \in SUBSET S : ~Good(s)}
<1> SUFFICES ASSUME Bad # {} PROVE FALSE
  BY DEF OneMoreIn
<1>1. PICK s \in Bad : s \in SUBSET S /\ \A x \in s : s \ {x} \notin Bad
  BY SmallestSet
<1>2. /\ Sums(f, S)[s] = SumStep(f, Sums(f, S), s)
      /\ Sums(g, S)[s] = SumStep(g, Sums(g, S), s)
  BY <1>1, SumsDef
<1>3. CASE s = {}
  BY <1>1, <1>2, <1>3 DEF SumStep
<1>4. CASE s # {}
  <2> DEFINE x == CHOOSE x \in s : TRUE
  <2>1. x \in s
    BY <1>4
  <2>2. /\ Sums(f, S)[s] = f[x] + Sums(f, S)[s \ {x}]
        /\ Sums(g, S)[s] = g[x] + Sums(g, S)[s \ {x}]
    BY <1>2, <1>4 DEF SumStep
  <2> HIDE DEF x
  <2>3. s \ {x} \in SUBSET S /\ Good(s \ {x})
    BY <1>1, <2>1
  <2>4. f[x] \in Nat /\ g[x] = IF x = c THEN f[x] + 1 ELSE f[x]
    BY <1>1, <2>1 DEF OneMore
  <2>5. Sums(f, S)[s \ {x}] \in Nat
    <3>1. \A y \in S : f[y] \in Nat
      BY DEF OneMore
    <3> QED BY <2>3, <3>1, SumsShape
  <2>6. Good(s)
    BY <2>1, <2>2, <2>3, <2>4, <2>5
  <2> QED BY <1>1, <2>6
<1> QED BY <1>3, <1>4

-------------------------------------------------------------------------------
(* What was learned below a path, and how one more command changes it.     *)

LEMMA LearnedSum ==
    \A p : LearnedBelow(p) = Sums(fed, Below(p))[Below(p)]
  BY Zenon DEF LearnedBelow, MapThenSumSet, MapThenFoldSet, Sums

LEMMA BelowFinite ==
    ASSUME NEW p
    PROVE  IsFiniteSet(Below(p)) /\ Below(p) \in SUBSET Commands
           /\ Below(p) \in SUBSET Below(p)
<1>1. Below(p) \in SUBSET Commands
  BY DEF Below
<1> QED
  BY <1>1, LearnerAssumption, FS_Subset

LEMMA LearnedShape ==
    ASSUME fed \in [Commands -> Nat], NEW p
    PROVE  /\ LearnedBelow(p) \in Nat
           /\ LearnedBelow(p) = 0 <=> \A c \in Below(p) : fed[c] = 0
<1>1. \A x \in Below(p) : fed[x] \in Nat
  BY BelowFinite
<1>2. /\ Sums(fed, Below(p))[Below(p)] \in Nat
      /\ Sums(fed, Below(p))[Below(p)] = 0 <=> \A c \in Below(p) : fed[c] = 0
  BY <1>1, BelowFinite, SumsShape
<1>3. LearnedBelow(p) = Sums(fed, Below(p))[Below(p)]
  BY LearnedSum
<1> QED
  BY <1>2, <1>3

LEMMA LearnedRaised ==
    ASSUME fed \in [Commands -> Nat], NEW c \in Commands,
           fed' = [fed EXCEPT ![c] = @ + 1], NEW p
    PROVE  LearnedBelow(p)' = LearnedBelow(p) + (IF c \in Below(p) THEN 1 ELSE 0)
<1> DEFINE new == fed'
<1>1. LearnedBelow(p)' = Sums(new, Below(p))[Below(p)]
  BY Zenon DEF LearnedBelow, MapThenSumSet, MapThenFoldSet, Sums
<1>2. \A x \in Below(p) : /\ fed[x] \in Nat
                          /\ new[x] = IF x = c THEN fed[x] + 1 ELSE fed[x]
  BY BelowFinite
<1> HIDE DEF new
<1>3. Sums(new, Below(p))[Below(p)]
         = Sums(fed, Below(p))[Below(p)] + (IF c \in Below(p) THEN 1 ELSE 0)
  <2> DEFINE S == Below(p)
             old == fed
  <2>1. IsFiniteSet(S) /\ S \in SUBSET S
    BY BelowFinite
  <2>2. OneMore(old, new, c, S)
    BY <1>2 DEF OneMore
  <2> HIDE DEF S, old
  <2>3. OneMoreIn(old, new, c, S)
    BY <2>1, <2>2, SumsRaised
  <2>4. Sums(new, S)[S] = Sums(old, S)[S] + (IF c \in S THEN 1 ELSE 0)
    BY <2>1, <2>3 DEF OneMoreIn
  <2> QED
    BY <2>4 DEF S, old
<1>4. LearnedBelow(p) = Sums(fed, Below(p))[Below(p)]
  BY LearnedSum
<1> QED
  BY <1>1, <1>3, <1>4

LEMMA MetadataRaised ==
    ASSUME fed \in [Commands -> Nat], NEW c \in Commands,
           fed' = [fed EXCEPT ![c] = @ + 1], NEW p
    PROVE  MetadataBelow(p)' =
              MetadataBelow(p) \cup
                 (IF c \in Below(p) THEN {Meta[<<p[Len(p)].type, c[Len(p)]>>]} ELSE {})
<1>1. ASSUME NEW b \in Commands
      PROVE  fed'[b] > 0 <=> fed[b] > 0 \/ b = c
  <2>1. fed[b] \in Nat /\ fed'[b] = IF b = c THEN fed[b] + 1 ELSE fed[b]
    OBVIOUS
  <2> QED
    BY <2>1
<1>2. Below(p) \in SUBSET Commands
  BY BelowFinite
<1>3. {b \in Below(p) : fed'[b] > 0}
         = {b \in Below(p) : fed[b] > 0} \cup (IF c \in Below(p) THEN {c} ELSE {})
  BY <1>1, <1>2
<1>4. MetadataBelow(p)' = {Meta[<<p[Len(p)].type, b[Len(p)]>>] :
                              b \in {b \in Below(p) : fed'[b] > 0}}
  BY DEF MetadataBelow
<1>5. MetadataBelow(p) = {Meta[<<p[Len(p)].type, b[Len(p)]>>] :
                              b \in {b \in Below(p) : fed[b] > 0}}
  BY DEF MetadataBelow
<1> QED
  BY <1>3, <1>4, <1>5

(* The commands below a node of a path are those that take it. *)
LEMMA BelowPath ==
    ASSUME NEW c \in Commands, NEW n \in 0..Len(c)
    PROVE  c \in Below(Path(c, n))
<1>1. n \in Nat /\ Len(c) \in Nat /\ Len(Path(c, n)) = n
  BY CommandShape, PathShape
<1> QED
  BY <1>1 DEF Below

-------------------------------------------------------------------------------
(* A bucket says exactly which metadata its values had.                    *)

ExactBucket(node, type, values) ==
    /\ node.observed = {type}
    /\ node.observations = node.count
    /\ ~node.mixed <=> \E m \in Params : values = {m}
    /\ ~node.mixed => values = {node.common}

LEMMA ObserveFields ==
    ASSUME NEW n \in NodeSet, NEW type, NEW meta
    PROVE  LET r     == Observe(n, type, meta)
               first == n.observations = 0 /\ meta # NoParam
           IN  /\ r.count = n.count
               /\ r.observed = n.observed \cup {type}
               /\ r.observations = n.observations + 1
               /\ r.common = IF first THEN meta ELSE n.common
               /\ r.mixed <=> n.mixed \/ (~first /\ (meta = NoParam \/ n.common # meta))
<1> DEFINE r     == Observe(n, type, meta)
           first == n.observations = 0 /\ meta # NoParam
           mixed == n.mixed \/ (~first /\ (meta = NoParam \/ n.common # meta))
<1>1. r.count = n.count /\ r.observed = n.observed \cup {type}
      /\ r.observations = n.observations + 1
  BY DEF Observe, NodeSet
<1>2. r.common = IF first THEN meta ELSE n.common
  BY DEF Observe, NodeSet
<1>3. r.mixed = mixed
  BY Zenon DEF Observe, NodeSet
<1> QED
  BY <1>1, <1>2, <1>3

(* The first value of a bucket decides what is common. *)
LEMMA ObserveFirst ==
    ASSUME NEW node \in NodeSet, NEW type, NEW meta \in Params \cup {NoParam},
           node.count = 1, node.observed = {}, node.observations = 0,
           node.mixed = FALSE
    PROVE  ExactBucket(Observe(node, type, meta), type, {meta})
<1> DEFINE r == Observe(node, type, meta)
<1>1. /\ r.count = 1 /\ r.observed = {type} /\ r.observations = 1
      /\ meta # NoParam => r.common = meta
      /\ r.mixed <=> meta = NoParam
  BY ObserveFields
<1> HIDE DEF r
<1>2. (\E m \in Params : {meta} = {m}) <=> meta # NoParam
  BY TableAssumption
<1>3. r.observed = {type} /\ r.observations = r.count
  BY <1>1
<1>4. ~r.mixed <=> \E m \in Params : {meta} = {m}
  BY <1>1, <1>2, Zenon
<1>5. ~r.mixed => {meta} = {r.common}
  BY <1>1, Zenon
<1>6. ExactBucket(r, type, {meta})
  BY <1>3, <1>4, <1>5, Zenon DEF ExactBucket
<1> QED
  BY <1>6 DEF r

(* Every other value leaves it if it agrees, and ends it for good if not. *)
LEMMA ObserveNext ==
    ASSUME NEW node \in NodeSet, NEW old \in NodeSet, NEW type, NEW values,
           NEW meta \in Params \cup {NoParam}, ExactBucket(old, type, values),
           old.count > 0, values # {}, node.count = old.count + 1,
           node.observed = old.observed, node.observations = old.observations,
           node.common = old.common, node.mixed = old.mixed
    PROVE  ExactBucket(Observe(node, type, meta), type, values \cup {meta})
<1> DEFINE r == Observe(node, type, meta)
<1>1. /\ old.observed = {type} /\ old.observations = old.count
      /\ ~old.mixed <=> \E m \in Params : values = {m}
      /\ ~old.mixed => values = {old.common}
  BY Zenon DEF ExactBucket
<1>2. old.count \in Nat /\ node.observations # 0
  BY <1>1 DEF NodeSet
<1>3. /\ r.count = node.count /\ r.observed = node.observed \cup {type}
      /\ r.observations = node.observations + 1 /\ r.common = node.common
      /\ r.mixed <=> node.mixed \/ meta = NoParam \/ node.common # meta
  BY <1>2, ObserveFields
<1> HIDE DEF r
<1>4. r.observed = {type} /\ r.observations = r.count
  BY <1>1, <1>2, <1>3
<1>5. r.common = old.common
      /\ (r.mixed <=> old.mixed \/ meta = NoParam \/ old.common # meta)
  BY <1>3, Zenon
<1>6. CASE old.mixed
  <2>1. r.mixed
    BY <1>5, <1>6, Zenon
  <2>2. ~ \E m \in Params : values \cup {meta} = {m}
    <3>1. ~ \E m \in Params : values = {m}
      BY <1>1, <1>6, Zenon
    <3>2. ASSUME NEW m, values \cup {meta} = {m} PROVE values = {m}
      BY <3>2
    <3> QED
      BY <3>1, <3>2
  <2> QED
    BY <1>4, <2>1, <2>2, Zenon DEF ExactBucket, r
<1>7. CASE ~old.mixed
  <2>1. values = {old.common} /\ old.common \in Params
    <3>1. values = {old.common}
      BY <1>1, <1>7, Zenon
    <3>2. PICK m \in Params : values = {m}
      BY <1>1, <1>7, Zenon
    <3> QED
      BY <3>1, <3>2
  <2>2. ~r.mixed <=> meta = old.common
    <3>1. old.common # NoParam
      BY <2>1, TableAssumption
    <3> QED
      BY <1>5, <1>7, <3>1, Zenon
  <2>3. (\E m \in Params : values \cup {meta} = {m}) <=> meta = old.common
    BY <2>1
  <2>4. meta = old.common => values \cup {meta} = {r.common}
    BY <1>5, <2>1
  <2>5. ~r.mixed <=> \E m \in Params : values \cup {meta} = {m}
    BY <2>2, <2>3, Zenon
  <2>6. ~r.mixed => values \cup {meta} = {r.common}
    BY <2>2, <2>4, Zenon
  <2> QED
    BY <1>4, <2>5, <2>6, Zenon DEF ExactBucket, r
<1> QED
  BY <1>6, <1>7, Zenon

-------------------------------------------------------------------------------
(* The trie says exactly what was learned.  Between calls this is TrieExact; *)
(* during an insertion it holds of the trie before it, and the nodes passed  *)
(* are those of that trie with one word counted.                             *)

ExactNode(node, path) ==
    /\ node.count = LearnedBelow(path)
    /\ path # <<>> /\ Last(path).kind = "wild" =>
          ExactBucket(node, Last(path).type, MetadataBelow(path))

LearnedPaths == {<<>>} \cup UNION {{Path(c, n) : n \in 1..Len(c)} :
                                  c \in {b \in Commands : fed[b] > 0}}

Exact(t) == DOMAIN t = LearnedPaths /\ \A p \in DOMAIN t : ExactNode(t[p], p)

Walked ==
    \A n \in 1..done :
        trie[Path(cmd, n)] = Counted(Node(before, Path(cmd, n)), cmd, n)

TInv ==
    /\ IInv
    /\ fed \in [Commands -> Nat]
    /\ total = LearnedBelow(<<>>)
    /\ Exact(before)
    /\ ~Idle => Walked

(* A path outside the trie was not learned, one inside was. *)
LEMMA LearnedPath ==
    ASSUME TInv, NEW c \in Commands, NEW n \in 1..Len(c)
    PROVE  Path(c, n) \in DOMAIN before <=> \E b \in Below(Path(c, n)) : fed[b] > 0
<1> DEFINE p == Path(c, n)
<1>1. n \in Nat /\ n # 0 /\ Len(p) = n /\ p # <<>>
  BY CommandShape, PathShape
<1>2. DOMAIN before = LearnedPaths
  BY DEF TInv, Exact
<1>3. ASSUME p \in DOMAIN before PROVE \E b \in Below(p) : fed[b] > 0
  <2>0. PICK b \in Commands : fed[b] > 0 /\ \E m \in 1..Len(b) : p = Path(b, m)
    BY <1>1, <1>2, <1>3 DEF LearnedPaths
  <2>1. PICK m \in 1..Len(b) : p = Path(b, m)
    BY <2>0
  <2>2. Len(b) \in Nat /\ m \in 0..Len(b)
    BY CommandShape
  <2>3. b \in Below(p)
    BY <2>1, <2>2, BelowPath
  <2> QED
    BY <2>0, <2>3
<1>4. ASSUME NEW b \in Below(p), fed[b] > 0 PROVE p \in DOMAIN before
  <2>1. b \in Commands /\ Len(b) >= n /\ Path(b, n) = p
    BY <1>1 DEF Below
  <2>2. n \in 1..Len(b)
    BY <1>1, <2>1, CommandShape
  <2> QED
    BY <1>2, <1>4, <2>1, <2>2 DEF LearnedPaths
<1> QED
  BY <1>3, <1>4

(* One more word makes a node exact for the commands with the new one. *)
LEMMA CountedExact ==
    ASSUME TInv, NEW c \in Commands, NEW n \in 1..Len(c),
           fed' = [fed EXCEPT ![c] = @ + 1]
    PROVE  LET p   == Path(c, n)
               new == Counted(Node(before, p), c, n)
           IN  /\ new.count = LearnedBelow(p)'
               /\ Last(p).kind = "wild" =>
                     ExactBucket(new, Last(p).type, MetadataBelow(p)')
<1> DEFINE p    == Path(c, n)
           old  == Node(before, p)
           new  == Counted(old, c, n)
           type == CommandType(c, n)
           meta == Meta[<<type, c[n]>>]
           up   == [old EXCEPT !.count = @ + 1]
<1>1. n \in Nat /\ n # 0 /\ n \in 0..Len(c) /\ Len(p) = n /\ p # <<>>
  <2>1. n \in Nat /\ n # 0 /\ n \in 0..Len(c)
    BY CommandShape
  <2>2. Len(p) = n /\ p \in Seq(Labels)
    BY <2>1, PathShape
  <2> QED BY <2>1, <2>2
<1>2. fed \in [Commands -> Nat] /\ IsTrie(before) /\ Exact(before)
  BY DEF TInv, IInv
<1>3. c \in Below(p)
  BY <1>1, BelowPath
<1>4. old \in NodeSet
  BY <1>2, NodeShape
<1>5. type \in Types /\ meta \in Params \cup {NoParam}
  BY TypeShape
<1>6. LearnedBelow(p)' = LearnedBelow(p) + 1
  BY <1>2, <1>3, LearnedRaised
<1>7. old.count = LearnedBelow(p)
  <2>1. CASE p \in DOMAIN before
    BY <1>2, <2>1 DEF Node, Exact, ExactNode
  <2>2. CASE p \notin DOMAIN before
    <3>1. \A b \in Below(p) : ~(fed[b] > 0) /\ fed[b] \in Nat
      BY <1>2, <2>2, LearnedPath, BelowFinite
    <3>2. LearnedBelow(p) = 0
      BY <1>2, <3>1, LearnedShape
    <3> QED
      BY <2>2, <3>2, NewNodeShape DEF Node
  <2> QED
    BY <2>1, <2>2
<1>8. new.count = LearnedBelow(p)'
  BY <1>4, <1>6, <1>7, CountedShape
<1>9. Last(p) = Label(c, n)
  BY <1>1 DEF Last, Path
<1>10. ASSUME Last(p).kind = "wild"
       PROVE  ExactBucket(new, Last(p).type, MetadataBelow(p)')
  <2>1. type # LiteralType /\ Last(p).type = type
    BY <1>9, <1>10 DEF Label
  <2>2. new = Observe(up, type, meta)
    BY <2>1 DEF Counted
  <2>3. MetadataBelow(p)' = MetadataBelow(p) \cup {meta}
    <3>1. MetadataBelow(p)' =
             MetadataBelow(p) \cup {Meta[<<p[Len(p)].type, c[Len(p)]>>]}
      BY <1>2, <1>3, MetadataRaised
    <3>2. p[Len(p)].type = type
      BY <2>1 DEF Last
    <3> QED
      BY <1>1, <3>1, <3>2
  <2>4. up \in NodeSet /\ up.count = old.count + 1 /\ up.observed = old.observed
        /\ up.observations = old.observations /\ up.common = old.common
        /\ up.mixed = old.mixed
    BY <1>4 DEF NodeSet
  <2> HIDE DEF up
  <2>5. CASE p \in DOMAIN before
    <3>1. ExactBucket(old, type, MetadataBelow(p))
      BY <1>1, <1>2, <1>10, <2>1, <2>5 DEF Node, Exact, ExactNode
    <3>2. PICK b \in Below(p) : fed[b] > 0
      BY <2>5, LearnedPath
    <3>3. MetadataBelow(p) # {}
      BY <3>2 DEF MetadataBelow
    <3>4. old.count > 0
      <4>1. LearnedBelow(p) \in Nat /\ LearnedBelow(p) # 0
        BY <1>2, <3>2, LearnedShape
      <4> QED
        BY <1>7, <4>1
    <3>5. ExactBucket(Observe(up, type, meta), type, MetadataBelow(p) \cup {meta})
      BY <1>4, <1>5, <2>4, <3>1, <3>3, <3>4, ObserveNext
    <3> QED
      BY <2>1, <2>2, <2>3, <3>5
  <2>6. CASE p \notin DOMAIN before
    <3>1. /\ up.count = 1 /\ up.observed = {} /\ up.observations = 0
          /\ up.mixed = FALSE
      BY <2>4, <2>6 DEF Node, NewNode
    <3>2. MetadataBelow(p) = {}
      BY <2>6, LearnedPath DEF MetadataBelow
    <3>3. ExactBucket(Observe(up, type, meta), type, {meta})
      BY <1>5, <2>4, <3>1, ObserveFirst
    <3> QED
      BY <2>1, <2>2, <2>3, <3>2, <3>3
  <2> QED
    BY <2>5, <2>6
<1> QED
  BY <1>8, <1>10

LEMMA InitTInv == Init => TInv
<1> SUFFICES ASSUME Init PROVE TInv
  OBVIOUS
<1>1. /\ DOMAIN before = {<<>>} /\ before[<<>>] = NewNode /\ total = 0
      /\ fed \in [Commands -> Nat] /\ \A c \in Commands : fed[c] = 0
  BY DEF Init
<1>2. LearnedBelow(<<>>) = 0
  BY <1>1, LearnedShape, BelowFinite
<1>3. LearnedPaths = {<<>>}
  BY <1>1 DEF LearnedPaths
<1>4. Exact(before)
  BY <1>1, <1>2, <1>3, NewNodeShape DEF Exact, ExactNode
<1>5. IInv /\ Idle
  BY InitIInv DEF Init, Idle
<1> QED
  BY <1>1, <1>2, <1>4, <1>5 DEF TInv

(* Steps that learn nothing keep what was learned. *)
LEMMA SameLearned ==
    ASSUME TInv, IInv', UNCHANGED <<total, before, fed>>, ~Idle' => Walked'
    PROVE  TInv'
<1>1. \A p : LearnedBelow(p)' = LearnedBelow(p)
  BY Zenon DEF LearnedBelow, MapThenSumSet, MapThenFoldSet
<1>2. \A p : MetadataBelow(p)' = MetadataBelow(p)
  BY Zenon DEF MetadataBelow
<1>3. LearnedPaths' = LearnedPaths
  BY Zenon DEF LearnedPaths
<1>4. Exact(before)'
  <2>1. DOMAIN before' = LearnedPaths'
    BY <1>3 DEF TInv, Exact
  <2>2. ASSUME NEW p \in DOMAIN before' PROVE ExactNode(before[p], p)'
    <3>1. ExactNode(before[p], p)
      BY <2>2 DEF TInv, Exact
    <3> QED
      BY <1>1, <1>2, <3>1, Zenon DEF ExactNode
  <2> QED
    BY <2>1, <2>2 DEF Exact
<1>5. (total = LearnedBelow(<<>>))'
  BY <1>1, Zenon DEF TInv
<1> QED
  BY <1>4, <1>5 DEF TInv

LEMMA InsertWordWalked ==
    ASSUME TInv, InsertWord
    PROVE  Walked'
<1>1. ~Idle /\ done < Len(cmd)
  <2>1. Len(<<>>) = 0
    OBVIOUS
  <2> QED
    BY <2>1 DEF TInv, IInv, Idle, InsertWord
<1>2. Inserting /\ Walked /\ IInv
  BY <1>1 DEF TInv, IInv
<1>3. cmd \in Commands /\ done \in Nat
  BY <1>2, CommandShape DEF Inserting
<1>4. /\ trie' = Put(trie, NextPath, Counted(Node(trie, NextPath), cmd, done + 1))
      /\ done' = done + 1 /\ cmd' = cmd /\ before' = before
  BY DEF InsertWord
<1>5. Node(trie, NextPath) = Node(before, NextPath)
      /\ NextPath \notin {Path(cmd, n) : n \in 0..done}
  BY <1>1, <1>2, NextWord
<1>6. ASSUME NEW n \in 1..(done + 1)
      PROVE  trie'[Path(cmd, n)] = Counted(Node(before, Path(cmd, n)), cmd, n)
  <2>1. CASE n = done + 1
    BY <1>4, <1>5, <2>1 DEF Put, NextPath
  <2>2. CASE n \in 1..done
    <3>1. Path(cmd, n) # NextPath /\ Path(cmd, n) \in DOMAIN trie
      BY <1>2, <1>3, <1>5, <2>2 DEF Inserting
    <3>2. trie'[Path(cmd, n)] = trie[Path(cmd, n)]
      BY <1>4, <3>1 DEF Put
    <3> QED
      BY <1>2, <2>2, <3>2 DEF Walked
  <2> QED
    BY <1>3, <2>1, <2>2
<1>7. ASSUME NEW n \in 1..done' PROVE (trie[Path(cmd, n)] =
          Counted(Node(before, Path(cmd, n)), cmd, n))'
  BY <1>4, <1>6, <1>7 DEF Path, Node
<1> QED
  BY <1>7 DEF Walked

LEMMA InsertDoneTInv ==
    ASSUME TInv, InsertDone
    PROVE  TInv'
<1>1. /\ ~Idle /\ done = Len(cmd) /\ total' = total + 1 /\ before' = trie
      /\ fed' = [fed EXCEPT ![cmd] = @ + 1] /\ cmd' = <<>>
  BY DEF InsertDone
<1>2. IInv /\ Inserting /\ Walked /\ Exact(before) /\ fed \in [Commands -> Nat]
      /\ total = LearnedBelow(<<>>) /\ IsTrie(before)
  BY <1>1 DEF TInv, IInv
<1>3. cmd \in Commands /\ Len(cmd) \in Nat /\ cmd \in Below(<<>>)
  <2>1. cmd \in Commands /\ Len(cmd) \in Nat
    BY <1>2, CommandShape DEF Inserting
  <2>2. 0 \in 0..Len(cmd)
    BY <2>1
  <2> QED
    BY <2>1, <2>2, BelowPath, EmptyPath
<1>4. \A p : LearnedBelow(p)' = LearnedBelow(p) + (IF cmd \in Below(p) THEN 1 ELSE 0)
  BY <1>1, <1>2, <1>3, LearnedRaised
<1>5. DOMAIN trie = DOMAIN before \cup {Path(cmd, n) : n \in 1..Len(cmd)}
  BY <1>1, <1>2 DEF Inserting
<1>6. LearnedPaths' = LearnedPaths \cup {Path(cmd, n) : n \in 1..Len(cmd)}
  <2>1. ASSUME NEW b \in Commands PROVE fed'[b] > 0 <=> fed[b] > 0 \/ b = cmd
    <3>1. fed[b] \in Nat /\ fed'[b] = IF b = cmd THEN fed[b] + 1 ELSE fed[b]
      BY <1>1, <1>2, <1>3
    <3> QED
      BY <3>1
  <2>2. {b \in Commands : fed'[b] > 0} = {b \in Commands : fed[b] > 0} \cup {cmd}
    BY <1>3, <2>1
  <2>3. LearnedPaths' = {<<>>} \cup UNION {{Path(c, n) : n \in 1..Len(c)} :
                                   c \in {b \in Commands : fed'[b] > 0}}
    BY DEF LearnedPaths
  <2> QED
    BY <2>2, <2>3 DEF LearnedPaths
<1>7. ASSUME NEW p \in DOMAIN trie
      PROVE  /\ trie[p].count = LearnedBelow(p)'
             /\ p # <<>> /\ Last(p).kind = "wild" =>
                   ExactBucket(trie[p], Last(p).type, MetadataBelow(p)')
  <2>1. PICK c \in Commands : c = cmd
    BY <1>3
  <2>2. fed' = [fed EXCEPT ![c] = @ + 1]
    BY <1>1, <2>1
  <2>3. CASE \E n \in 1..Len(c) : p = Path(c, n)
    <3>1. PICK n \in 1..Len(c) : p = Path(c, n)
      BY <2>3
    <3>2. trie[p] = Counted(Node(before, p), c, n)
      BY <1>1, <1>2, <2>1, <3>1 DEF Walked
    <3>3. /\ Counted(Node(before, Path(c, n)), c, n).count = LearnedBelow(Path(c, n))'
          /\ Last(Path(c, n)).kind = "wild" =>
                ExactBucket(Counted(Node(before, Path(c, n)), c, n),
                            Last(Path(c, n)).type, MetadataBelow(Path(c, n))')
      BY <2>2, CountedExact
    <3> QED
      BY <3>1, <3>2, <3>3
  <2>4. CASE p = <<>>
    <3>1. trie[p].count = before[p].count + 1
      BY <1>2, <2>4 DEF Inserting, IsTrie, NodeSet
    <3>2. before[p].count = LearnedBelow(p)
      BY <1>2, <2>4 DEF Exact, ExactNode, IsTrie
    <3>3. LearnedBelow(p)' = LearnedBelow(p) + 1
      BY <1>3, <1>4, <2>4
    <3> QED
      BY <2>4, <3>1, <3>2, <3>3
  <2>5. CASE p # <<>> /\ ~ \E n \in 1..Len(c) : p = Path(c, n)
    <3>1. p \in DOMAIN before /\ p \in Seq(Labels) /\ Len(p) \in Nat \ {0}
      <4>1. p \in DOMAIN before
        BY <1>5, <2>1, <2>5
      <4>2. p \in Seq(Labels)
        BY <1>2, <4>1 DEF IsTrie
      <4> QED
        BY <2>5, <4>1, <4>2, EmptySeq, LenProperties
    <3>2. c \notin Below(p)
      <4> SUFFICES ASSUME c \in Below(p) PROVE FALSE
        OBVIOUS
      <4>1. Len(c) >= Len(p) /\ Path(c, Len(p)) = p /\ Len(c) \in Nat
        BY CommandShape DEF Below
      <4>2. Len(p) \in 1..Len(c)
        BY <3>1, <4>1
      <4> QED
        BY <2>5, <4>1, <4>2
    <3>3. trie[p] = before[p]
      <4>1. ~OnPath(p)
        <5> SUFFICES ASSUME NEW n \in 0..done, p = Path(cmd, n) PROVE FALSE
          BY DEF OnPath
        <5>1. n = 0 \/ n \in 1..Len(c)
          BY <1>1, <1>3, <2>1
        <5> QED
          BY <2>1, <2>5, <5>1, EmptyPath
      <4> QED
        BY <1>2, <3>1, <4>1 DEF Inserting
    <3>4. LearnedBelow(p)' = LearnedBelow(p)
      <4>1. LearnedBelow(p) \in Nat
        BY <1>2, LearnedShape
      <4> QED
        BY <1>4, <2>1, <3>2, <4>1
    <3>5. MetadataBelow(p)' = MetadataBelow(p)
      BY <1>2, <2>2, <3>2, MetadataRaised
    <3>6. ExactNode(before[p], p)
      BY <1>2, <3>1 DEF Exact
    <3> QED
      BY <3>3, <3>4, <3>5, <3>6, Zenon DEF ExactNode
  <2> QED
    BY <2>3, <2>4, <2>5
<1>8. Exact(before)'
  <2>1. DOMAIN before' = LearnedPaths'
    BY <1>1, <1>2, <1>5, <1>6 DEF Exact
  <2>2. ASSUME NEW p \in DOMAIN before' PROVE ExactNode(before[p], p)'
    <3>1. p \in DOMAIN trie /\ before'[p] = trie[p]
      BY <1>1
    <3> QED
      BY <1>7, <3>1, Zenon DEF ExactNode
  <2> QED
    BY <2>1, <2>2 DEF Exact
<1>9. (total = LearnedBelow(<<>>))'
  BY <1>1, <1>2, <1>3, <1>4
<1>10. fed' \in [Commands -> Nat]
  BY <1>1, <1>2, <1>3
<1>11. IInv' /\ Idle'
  BY <1>1, <1>2, InsertDoneIInv DEF Idle
<1> QED
  BY <1>8, <1>9, <1>10, <1>11 DEF TInv

LEMMA LearnerTInv == LearnerSpec => []TInv
<1>1. ASSUME TInv, [LearnerNext]_learnerVars PROVE TInv'
  <2>0. IInv
    BY <1>1 DEF TInv
  <2>1. ASSUME NEW c \in Commands, Feed(c) PROVE TInv'
    <3>1. IInv' /\ UNCHANGED <<total, before, fed>>
      BY <2>0, <2>1, FeedIInv DEF Feed
    <3>2. Walked'
      <4>1. \A n \in 1..done' : FALSE
        BY <2>1 DEF Feed
      <4> QED
        BY <4>1 DEF Walked
    <3> QED
      BY <1>1, <3>1, <3>2, SameLearned
  <2>2. CASE InsertWord
    <3>1. IInv' /\ UNCHANGED <<total, before, fed>>
      BY <2>0, <2>2, InsertWordIInv DEF InsertWord
    <3> QED
      BY <1>1, <2>2, <3>1, InsertWordWalked, SameLearned
  <2>3. CASE InsertDone
    BY <1>1, <2>3, InsertDoneTInv
  <2>4. CASE Rollback
    <3>1. IInv' /\ UNCHANGED <<total, before, fed>> /\ Idle'
      BY <2>0, <2>4, RollbackIInv DEF Rollback, Idle
    <3> QED
      BY <1>1, <3>1, SameLearned
  <2>5. CASE UNCHANGED <<trie, total, cmd, done, created, saved, before, fed>>
    <3>1. IInv'
      BY <2>0, <2>5, QuietIInv
    <3>2. ~Idle' => Walked'
      BY <1>1, <2>5 DEF TInv, Idle, Walked, Path, Node
    <3> QED
      BY <1>1, <2>5, <3>1, <3>2, SameLearned
  <2>6. ASSUME NEW r \in BlacklistRules, Blacklist(r) PROVE TInv'
    BY <2>5, <2>6 DEF Blacklist
  <2>7. ASSUME NEW c \in Configs, SetConfig(c) PROVE TInv'
    BY <2>5, <2>7 DEF SetConfig
  <2>8. CASE UNCHANGED learnerVars
    BY <2>5, <2>8 DEF learnerVars
  <2> QED
    BY <1>1, <2>1, <2>2, <2>3, <2>4, <2>6, <2>7, <2>8 DEF LearnerNext
<1> QED
  BY <1>1, InitTInv, PTL DEF LearnerSpec

(* However many commands were fed and however many feeds failed, the trie   *)
(* names exactly the prefixes of the commands learned, with how often each  *)
(* was learned, and a bucket names the metadata its values shared exactly   *)
(* when they did (learner_insert_atomic, node_observe_metadata).            *)
THEOREM LearnerTrieExact == LearnerSpec => []TrieExact
<1>1. ASSUME TInv PROVE TrieExact
  <2> SUFFICES ASSUME Idle PROVE /\ total = LearnedBelow(<<>>) /\ Exact(trie)
    BY Zenon DEF TrieExact, Exact, ExactNode, ExactBucket, LearnedPaths
  <2> QED
    BY <1>1 DEF TInv, IInv
<1> QED
  BY <1>1, LearnerTInv, PTL

-------------------------------------------------------------------------------
(* More about sums: what determines one, and how sums over disjoint sets   *)
(* come together.                                                          *)

Adds(f, h, S) == \A s \in SUBSET S : h[s] = SumStep(f, h, s)

LEMMA SumsAdd ==
    ASSUME NEW S, IsFiniteSet(S), NEW f
    PROVE  Adds(f, Sums(f, S), S)
BY SumsDef DEF Adds

SameSums(h, k, S) == \A s \in SUBSET S : h[s] = k[s]

LEMMA SumsUnique ==
    ASSUME NEW S, IsFiniteSet(S), NEW f, NEW g, NEW h, NEW k,
           \A x \in S : f[x] = g[x], Adds(f, h, S), Adds(g, k, S)
    PROVE  SameSums(h, k, S)
<1> DEFINE Bad == {s \in SUBSET S : h[s] # k[s]}
<1> SUFFICES ASSUME Bad # {} PROVE FALSE
  BY DEF SameSums
<1>1. PICK s \in Bad : s \in SUBSET S /\ \A x \in s : s \ {x} \notin Bad
  BY SmallestSet
<1>2. h[s] = SumStep(f, h, s) /\ k[s] = SumStep(g, k, s)
  BY <1>1 DEF Adds
<1>3. CASE s = {}
  BY <1>1, <1>2, <1>3 DEF SumStep
<1>4. CASE s # {}
  <2> DEFINE x == CHOOSE x \in s : TRUE
  <2>1. x \in s
    BY <1>4
  <2>2. h[s] = f[x] + h[s \ {x}] /\ k[s] = g[x] + k[s \ {x}]
    BY <1>2, <1>4 DEF SumStep
  <2> HIDE DEF x
  <2>3. f[x] = g[x] /\ h[s \ {x}] = k[s \ {x}]
    BY <1>1, <2>1
  <2> QED BY <1>1, <2>2, <2>3
<1> QED BY <1>3, <1>4

(* A sum over a subset is the same, whatever set it is a subset of.        *)
LEMMA SumsWithin ==
    ASSUME NEW S, IsFiniteSet(S), NEW T \in SUBSET S, NEW f
    PROVE  Sums(f, T)[T] = Sums(f, S)[T]
<1>1. IsFiniteSet(T) /\ T \in SUBSET T
  BY FS_Subset
<1>2. Adds(f, Sums(f, T), T)
  BY <1>1, SumsAdd
<1>3. Adds(f, Sums(f, S), T)
  BY SumsAdd DEF Adds
<1>4. SameSums(Sums(f, T), Sums(f, S), T)
  BY <1>1, <1>2, <1>3, SumsUnique
<1> QED BY <1>1, <1>4 DEF SameSums

(* The element a sum begins with does not matter.                          *)
SumsFrom(f, S, s) == \A c \in s : Sums(f, S)[s] = f[c] + Sums(f, S)[s \ {c}]

LEMMA SumsRemove ==
    ASSUME NEW S, IsFiniteSet(S), NEW f, \A x \in S : f[x] \in Nat
    PROVE  \A s \in SUBSET S : SumsFrom(f, S, s)
<1> DEFINE Good(s) == SumsFrom(f, S, s)
           Bad == {s \in SUBSET S : ~Good(s)}
<1> SUFFICES ASSUME Bad # {} PROVE FALSE
  OBVIOUS
<1>1. PICK s \in Bad : s \in SUBSET S /\ \A x \in s : s \ {x} \notin Bad
  BY SmallestSet
<1>2. PICK c \in s : Sums(f, S)[s] # f[c] + Sums(f, S)[s \ {c}]
  BY <1>1 DEF SumsFrom
<1> DEFINE x == CHOOSE x \in s : TRUE
<1>3. x \in s
  BY <1>2
<1>4. Sums(f, S)[s] = f[x] + Sums(f, S)[s \ {x}]
  <2>1. Sums(f, S)[s] = SumStep(f, Sums(f, S), s)
    BY <1>1, SumsDef
  <2> QED BY <1>2, <2>1 DEF SumStep
<1> HIDE DEF x
<1>5. x # c
  BY <1>2, <1>4
<1>6. /\ Good(s \ {x}) /\ Good(s \ {c})
      /\ c \in s \ {x} /\ x \in s \ {c}
      /\ s \ {x} \in SUBSET S /\ s \ {c} \in SUBSET S
      /\ (s \ {x}) \ {c} \in SUBSET S
      /\ (s \ {x}) \ {c} = (s \ {c}) \ {x}
  BY <1>1, <1>2, <1>3, <1>5
<1> DEFINE rest == Sums(f, S)[(s \ {x}) \ {c}]
<1>7. rest \in Nat /\ f[x] \in Nat /\ f[c] \in Nat
  BY <1>1, <1>2, <1>3, <1>6, SumsShape
<1>8. Sums(f, S)[s \ {x}] = f[c] + rest /\ Sums(f, S)[s \ {c}] = f[x] + rest
  BY <1>6 DEF SumsFrom
<1> HIDE DEF rest
<1> QED BY <1>2, <1>4, <1>7, <1>8

(* Disjoint sets. *)
SumsJoined(f, S, B) ==
    \A A \in SUBSET S :
        A \cap B = {} => Sums(f, S)[A \cup B] = Sums(f, S)[A] + Sums(f, S)[B]

LEMMA SumsJoin ==
    ASSUME NEW S, IsFiniteSet(S), NEW f, \A x \in S : f[x] \in Nat
    PROVE  \A B \in SUBSET S : SumsJoined(f, S, B)
<1> DEFINE Bad == {B \in SUBSET S : ~SumsJoined(f, S, B)}
           sum(s) == Sums(f, S)[s]
<1>1. \A s \in SUBSET S : SumsFrom(f, S, s)
  BY SumsRemove
<1>2. \A s \in SUBSET S : sum(s) \in Nat
  BY SumsShape
<1> SUFFICES ASSUME Bad # {} PROVE FALSE
  OBVIOUS
<1>3. PICK B \in Bad : B \in SUBSET S /\ \A x \in B : B \ {x} \notin Bad
  BY SmallestSet
<1>4. PICK A \in SUBSET S : A \cap B = {} /\ sum(A \cup B) # sum(A) + sum(B)
  BY <1>3 DEF SumsJoined
<1>5. CASE B = {}
  <2>1. sum(B) = 0
    BY <1>3, <1>5, SumsDef DEF SumStep
  <2>2. A \cup B = A
    BY <1>5
  <2>3. sum(A \cup B) = sum(A) /\ sum(A) \in Nat
    BY <1>2, <2>2, Zenon
  <2> HIDE DEF sum
  <2> QED BY <1>4, <2>1, <2>3
<1>6. CASE B # {}
  <2>1. PICK x \in B : TRUE
    BY <1>6
  <2>2. /\ B \ {x} \in SUBSET S /\ A \cap (B \ {x}) = {} /\ A \cup B \in SUBSET S
        /\ (A \cup B) \ {x} = A \cup (B \ {x}) /\ x \in A \cup B
        /\ A \cup (B \ {x}) \in SUBSET S
    BY <1>3, <1>4, <2>1
  <2>3. SumsJoined(f, S, B \ {x})
    BY <1>3, <2>1, <2>2
  <2>4. sum(A \cup (B \ {x})) = sum(A) + sum(B \ {x})
    BY <2>2, <2>3 DEF SumsJoined
  <2>5. sum(B) = f[x] + sum(B \ {x})
    BY <1>1, <1>3, <2>1 DEF SumsFrom
  <2>6. sum(A \cup B) = f[x] + sum((A \cup B) \ {x})
    BY <1>1, <2>2 DEF SumsFrom
  <2>7. f[x] \in Nat /\ sum(A) \in Nat /\ sum(B \ {x}) \in Nat
    BY <1>2, <1>3, <2>1, <2>2
  <2>8. sum((A \cup B) \ {x}) = sum(A) + sum(B \ {x})
    BY <2>2, <2>4, Zenon
  <2> HIDE DEF sum
  <2> QED BY <1>4, <2>5, <2>6, <2>7, <2>8
<1> QED BY <1>5, <1>6

(* Elements that count for nothing. *)
LEMMA SumsZero ==
    ASSUME NEW S, IsFiniteSet(S), NEW f, \A x \in S : f[x] \in Nat,
           NEW T \in SUBSET S, NEW U \in SUBSET T, \A x \in T \ U : f[x] = 0
    PROVE  Sums(f, S)[T] = Sums(f, S)[U]
<1>1. T \ U \in SUBSET S /\ U \in SUBSET S /\ U \cap (T \ U) = {} /\ U \cup (T \ U) = T
  OBVIOUS
<1>2. SumsJoined(f, S, T \ U)
  BY <1>1, SumsJoin
<1>3. Sums(f, S)[U \cup (T \ U)] = Sums(f, S)[U] + Sums(f, S)[T \ U]
  BY <1>1, <1>2 DEF SumsJoined
<1>4. Sums(f, S)[T \ U] = 0 /\ Sums(f, S)[U] \in Nat
  BY <1>1, SumsShape
<1> QED BY <1>1, <1>3, <1>4

(* A family of disjoint sets. *)
Members(b, r) == UNION {b[p] : p \in r}

Parted(b, R, S) ==
    /\ \A p \in R : b[p] \in SUBSET S
    /\ \A p, q \in R : p # q => b[p] \cap b[q] = {}

LEMMA SumsParted ==
    ASSUME NEW S, IsFiniteSet(S), NEW f, \A x \in S : f[x] \in Nat,
           NEW R, IsFiniteSet(R), NEW b, Parted(b, R, S),
           NEW w, \A p \in R : w[p] = Sums(f, S)[b[p]]
    PROVE  Sums(w, R)[R] = Sums(f, S)[Members(b, R)]
<1> DEFINE Bad == {r \in SUBSET R : Sums(w, R)[r] # Sums(f, S)[Members(b, r)]}
<1> SUFFICES ASSUME Bad # {} PROVE FALSE
  OBVIOUS
<1>1. PICK r \in Bad : r \in SUBSET R /\ \A x \in r : r \ {x} \notin Bad
  BY SmallestSet
<1>2. Sums(w, R)[r] = SumStep(w, Sums(w, R), r)
  BY <1>1, SumsDef
<1>3. CASE r = {}
  <2>1. Members(b, r) = {} /\ Members(b, r) \in SUBSET S
    BY <1>3 DEF Members
  <2>2. Sums(f, S)[Members(b, r)] = SumStep(f, Sums(f, S), Members(b, r))
    BY <2>1, SumsDef, Zenon
  <2>3. Sums(f, S)[Members(b, r)] = 0
    BY <2>1, <2>2, Zenon DEF SumStep
  <2> QED BY <1>1, <1>2, <1>3, <2>3 DEF SumStep
<1>4. CASE r # {}
  <2> DEFINE x == CHOOSE x \in r : TRUE
  <2>1. x \in r
    BY <1>4
  <2>2. Sums(w, R)[r] = w[x] + Sums(w, R)[r \ {x}]
    BY <1>2, <1>4 DEF SumStep
  <2> HIDE DEF x
  <2>3. /\ Sums(w, R)[r \ {x}] = Sums(f, S)[Members(b, r \ {x})]
        /\ w[x] = Sums(f, S)[b[x]]
    BY <1>1, <2>1
  <2>4. /\ b[x] \in SUBSET S /\ Members(b, r \ {x}) \in SUBSET S
        /\ b[x] \cap Members(b, r \ {x}) = {}
        /\ b[x] \cup Members(b, r \ {x}) = Members(b, r)
    BY <1>1, <2>1 DEF Members, Parted
  <2>5. SumsJoined(f, S, Members(b, r \ {x}))
    BY <2>4, SumsJoin
  <2>6. Sums(f, S)[b[x] \cup Members(b, r \ {x})]
           = Sums(f, S)[b[x]] + Sums(f, S)[Members(b, r \ {x})]
    BY <2>4, <2>5 DEF SumsJoined
  <2> QED BY <1>1, <2>2, <2>3, <2>4, <2>6
<1> QED BY <1>3, <1>4

-------------------------------------------------------------------------------
(* The sums of the proposals. *)

LEMMA TerminalSum ==
    ASSUME NEW S, IsFiniteSet(S)
    PROVE  MapThenSumSet(Terminal, S) = Sums([p \in S |-> Terminal(p)], S)[S]
<1> DEFINE w == [p \in S |-> Terminal(p)]
           Eq(g) == g = [s \in SUBSET S |->
                           IF s = {} THEN 0
                           ELSE LET x == CHOOSE x \in s : TRUE
                                IN Terminal(x) + g[s \ {x}]]
           iter == CHOOSE g : Eq(g)
<1>1. MapThenSumSet(Terminal, S) = iter[S]
  BY Zenon DEF MapThenSumSet, MapThenFoldSet
<1>2. Eq(Sums(w, S))
  <2>1. ASSUME NEW s \in SUBSET S
        PROVE  SumStep(w, Sums(w, S), s)
                  = IF s = {} THEN 0
                    ELSE LET x == CHOOSE x \in s : TRUE
                         IN Terminal(x) + Sums(w, S)[s \ {x}]
    BY DEF SumStep
  <2>2. Sums(w, S) = [s \in SUBSET S |-> SumStep(w, Sums(w, S), s)]
    BY SumsFunction
  <2> HIDE DEF w
  <2> QED BY <2>1, <2>2, Zenon
<1>3. Eq(iter)
  BY <1>2, Zenon
<1> HIDE DEF iter
<1>4. Adds(w, iter, S)
  <2>1. ASSUME NEW s \in SUBSET S
        PROVE  iter[s] = SumStep(w, iter, s)
    <3>1. iter[s] = IF s = {} THEN 0
                    ELSE LET x == CHOOSE x \in s : TRUE
                         IN Terminal(x) + iter[s \ {x}]
      BY <1>3, Zenon
    <3> QED BY <3>1 DEF SumStep
  <2> QED BY <2>1 DEF Adds
<1> HIDE DEF w
<1>5. Adds(w, Sums(w, S), S)
  BY SumsAdd
<1>6. SameSums(iter, Sums(w, S), S)
  BY <1>4, <1>5, SumsUnique
<1>7. iter[S] = Sums(w, S)[S]
  BY <1>6 DEF SameSums
<1> QED BY <1>1, <1>7 DEF w

LEMMA CountSum ==
    ASSUME NEW S, IsFiniteSet(S)
    PROVE  MapThenSumSet(CountOf, S) = Sums([p \in S |-> CountOf(p)], S)[S]
<1> DEFINE w == [p \in S |-> CountOf(p)]
           Eq(g) == g = [s \in SUBSET S |->
                           IF s = {} THEN 0
                           ELSE LET x == CHOOSE x \in s : TRUE
                                IN CountOf(x) + g[s \ {x}]]
           iter == CHOOSE g : Eq(g)
<1>1. MapThenSumSet(CountOf, S) = iter[S]
  BY Zenon DEF MapThenSumSet, MapThenFoldSet
<1>2. Eq(Sums(w, S))
  <2>1. ASSUME NEW s \in SUBSET S
        PROVE  SumStep(w, Sums(w, S), s)
                  = IF s = {} THEN 0
                    ELSE LET x == CHOOSE x \in s : TRUE
                         IN CountOf(x) + Sums(w, S)[s \ {x}]
    BY DEF SumStep
  <2>2. Sums(w, S) = [s \in SUBSET S |-> SumStep(w, Sums(w, S), s)]
    BY SumsFunction
  <2> HIDE DEF w
  <2> QED BY <2>1, <2>2, Zenon
<1>3. Eq(iter)
  BY <1>2, Zenon
<1> HIDE DEF iter
<1>4. Adds(w, iter, S)
  <2>1. ASSUME NEW s \in SUBSET S
        PROVE  iter[s] = SumStep(w, iter, s)
    <3>1. iter[s] = IF s = {} THEN 0
                    ELSE LET x == CHOOSE x \in s : TRUE
                         IN CountOf(x) + iter[s \ {x}]
      BY <1>3, Zenon
    <3> QED BY <3>1 DEF SumStep
  <2> QED BY <2>1 DEF Adds
<1> HIDE DEF w
<1>5. Adds(w, Sums(w, S), S)
  BY SumsAdd
<1>6. SameSums(iter, Sums(w, S), S)
  BY <1>4, <1>5, SumsUnique
<1>7. iter[S] = Sums(w, S)[S]
  BY <1>6 DEF SameSums
<1> QED BY <1>1, <1>7 DEF w

LEMMA SupportSum ==
    ASSUME NEW S, IsFiniteSet(S)
    PROVE  Support(S) = Sums([b \in S |-> b.count], S)[S]
<1> DEFINE w == [b \in S |-> b.count]
           Eq(g) == g = [s \in SUBSET S |->
                           IF s = {} THEN 0
                           ELSE LET x == CHOOSE x \in s : TRUE
                                IN x.count + g[s \ {x}]]
           iter == CHOOSE g : Eq(g)
<1>1. Support(S) = iter[S]
  BY Zenon DEF Support, MapThenSumSet, MapThenFoldSet
<1>2. Eq(Sums(w, S))
  <2>1. ASSUME NEW s \in SUBSET S
        PROVE  SumStep(w, Sums(w, S), s)
                  = IF s = {} THEN 0
                    ELSE LET x == CHOOSE x \in s : TRUE
                         IN x.count + Sums(w, S)[s \ {x}]
    BY DEF SumStep
  <2>2. Sums(w, S) = [s \in SUBSET S |-> SumStep(w, Sums(w, S), s)]
    BY SumsFunction
  <2> HIDE DEF w
  <2> QED BY <2>1, <2>2, Zenon
<1>3. Eq(iter)
  BY <1>2, Zenon
<1> HIDE DEF iter
<1>4. Adds(w, iter, S)
  <2>1. ASSUME NEW s \in SUBSET S
        PROVE  iter[s] = SumStep(w, iter, s)
    <3>1. iter[s] = IF s = {} THEN 0
                    ELSE LET x == CHOOSE x \in s : TRUE
                         IN x.count + iter[s \ {x}]
      BY <1>3, Zenon
    <3> QED BY <3>1 DEF SumStep
  <2> QED BY <2>1 DEF Adds
<1> HIDE DEF w
<1>5. Adds(w, Sums(w, S), S)
  BY SumsAdd
<1>6. SameSums(iter, Sums(w, S), S)
  BY <1>4, <1>5, SumsUnique
<1>7. iter[S] = Sums(w, S)[S]
  BY <1>6 DEF SameSums
<1> QED BY <1>1, <1>7 DEF w

-------------------------------------------------------------------------------
(* How often the commands of a set were learned.                            *)

Fed(X) == Sums(fed, Commands)[X]

LEMMA FedShape ==
    ASSUME fed \in [Commands -> Nat], NEW X \in SUBSET Commands
    PROVE  Fed(X) \in Nat /\ (Fed(X) = 0 <=> \A c \in X : fed[c] = 0)
<1> DEFINE f == fed
           S == Commands
<1>1. IsFiniteSet(S) /\ \A x \in S : f[x] \in Nat
  BY LearnerAssumption
<1>2. X \in SUBSET S
  OBVIOUS
<1> HIDE DEF f, S
<1>3. Sums(f, S)[X] \in Nat /\ (Sums(f, S)[X] = 0 <=> \A c \in X : f[c] = 0)
  BY <1>1, <1>2, SumsShape
<1> QED BY <1>3 DEF Fed, f, S

LEMMA FedBelow == \A p : LearnedBelow(p) = Fed(Below(p))
<1> SUFFICES ASSUME NEW p PROVE LearnedBelow(p) = Fed(Below(p))
  OBVIOUS
<1> DEFINE f == fed
           S == Commands
           T == Below(p)
<1>1. IsFiniteSet(S) /\ T \in SUBSET S
  BY BelowFinite, LearnerAssumption
<1> HIDE DEF f, S, T
<1>2. Sums(f, T)[T] = Sums(f, S)[T]
  BY <1>1, SumsWithin
<1> QED BY <1>2, LearnedSum DEF Fed, f, S, T

LEMMA FedDisjoint ==
    ASSUME fed \in [Commands -> Nat], NEW X \in SUBSET Commands,
           NEW Y \in SUBSET Commands, X \cap Y = {}
    PROVE  Fed(X \cup Y) = Fed(X) + Fed(Y)
<1> DEFINE f == fed
           S == Commands
<1>1. IsFiniteSet(S) /\ \A x \in S : f[x] \in Nat
  BY LearnerAssumption
<1>2. X \in SUBSET S /\ Y \in SUBSET S
  OBVIOUS
<1> HIDE DEF f, S
<1>3. SumsJoined(f, S, Y)
  BY <1>1, <1>2, SumsJoin
<1>4. Sums(f, S)[X \cup Y] = Sums(f, S)[X] + Sums(f, S)[Y]
  BY <1>2, <1>3 DEF SumsJoined
<1> QED BY <1>4 DEF Fed, f, S

(* Only the commands that were learned count. *)
FedAlike(X, Y) == \A c \in Commands : fed[c] > 0 => (c \in X <=> c \in Y)

LEMMA FedSame ==
    ASSUME fed \in [Commands -> Nat], NEW X \in SUBSET Commands,
           NEW Y \in SUBSET Commands, FedAlike(X, Y)
    PROVE  Fed(X) = Fed(Y)
<1> DEFINE f == fed
           S == Commands
           U == X \cap Y
<1>1. IsFiniteSet(S) /\ \A x \in S : f[x] \in Nat
  BY LearnerAssumption
<1>2. X \in SUBSET S /\ Y \in SUBSET S /\ U \in SUBSET X /\ U \in SUBSET Y
  OBVIOUS
<1>3. (\A x \in X \ U : f[x] = 0) /\ (\A x \in Y \ U : f[x] = 0)
  <2> SUFFICES ASSUME NEW x \in Commands, ~(x \in X <=> x \in Y) PROVE fed[x] = 0
    BY <1>2
  <2>1. ~(fed[x] > 0) /\ fed[x] \in Nat
    BY DEF FedAlike
  <2> QED BY <2>1
<1> HIDE DEF f, S, U
<1>4. Sums(f, S)[X] = Sums(f, S)[U] /\ Sums(f, S)[Y] = Sums(f, S)[U]
  BY <1>1, <1>2, <1>3, SumsZero
<1> QED BY <1>4 DEF Fed, f, S

(* Sums over nodes, each of which counts a set of commands of its own.      *)
LEMMA FedParted ==
    ASSUME fed \in [Commands -> Nat], NEW R, IsFiniteSet(R),
           NEW b, Parted(b, R, Commands), NEW w, \A p \in R : w[p] = Fed(b[p])
    PROVE  Sums(w, R)[R] = Fed(Members(b, R)) /\ Members(b, R) \in SUBSET Commands
<1> DEFINE f == fed
           S == Commands
<1>1. IsFiniteSet(S) /\ \A x \in S : f[x] \in Nat
  BY LearnerAssumption
<1>2. Parted(b, R, S) /\ \A p \in R : w[p] = Sums(f, S)[b[p]]
  BY DEF Fed
<1> HIDE DEF f, S
<1>3. Sums(w, R)[R] = Sums(f, S)[Members(b, R)]
  BY <1>1, <1>2, SumsParted
<1>4. Members(b, R) \in SUBSET S
  BY <1>2 DEF Members, Parted
<1> QED BY <1>3, <1>4 DEF Fed, f, S

LEMMA FedWhere ==
    ASSUME NEW X \in SUBSET Commands
    PROVE  MapThenSumSet(LAMBDA c : fed[c], X) = Fed(X)
<1>1. MapThenSumSet(LAMBDA c : fed[c], X) = Sums(fed, X)[X]
  BY Zenon DEF MapThenSumSet, MapThenFoldSet, Sums
<1> DEFINE f == fed
           S == Commands
<1>2. IsFiniteSet(S) /\ X \in SUBSET S
  BY LearnerAssumption
<1> HIDE DEF f, S
<1>3. Sums(f, X)[X] = Sums(f, S)[X]
  BY <1>2, SumsWithin
<1> QED BY <1>1, <1>3 DEF Fed, f, S

-------------------------------------------------------------------------------
(* The trie between two calls.                                              *)

Settled == TInv /\ Idle

LEMMA SettledTrie ==
    ASSUME Settled
    PROVE  /\ fed \in [Commands -> Nat]
           /\ IsTrie(trie) /\ Exact(trie) /\ DOMAIN trie = LearnedPaths
  BY DEF Settled, TInv, IInv, Exact

LEMMA ImageFinite ==
    ASSUME NEW S, IsFiniteSet(S), NEW f
    PROVE  IsFiniteSet({f[x] : x \in S})
<1> DEFINE T == {f[x] : x \in S}
           g == [x \in S |-> f[x]]
<1>1. g \in Surjection(S, T)
  BY DEF Surjection
<1> HIDE DEF T, g
<1>2. IsFiniteSet(T)
  BY <1>1, FS_Surjection
<1> QED BY <1>2 DEF T

LEMMA TrieFinite ==
    ASSUME Settled
    PROVE  IsFiniteSet(DOMAIN trie)
<1> DEFINE S == {b \in Commands : fed[b] > 0}
           f == [c \in S |-> {Path(c, n) : n \in 1..Len(c)}]
<1>1. IsFiniteSet(S)
  BY LearnerAssumption, FS_Subset
<1>2. ASSUME NEW c \in S PROVE IsFiniteSet(f[c])
  <2> DEFINE I == 1..Len(c)
             g == [n \in I |-> Path(c, n)]
  <2>1. IsFiniteSet(I)
    BY CommandShape, FS_Interval
  <2> HIDE DEF I
  <2>2. IsFiniteSet({g[n] : n \in I})
    BY <2>1, ImageFinite
  <2>3. f[c] = {g[n] : n \in I}
    BY DEF I
  <2> QED BY <2>2, <2>3
<1>3. LearnedPaths = {<<>>} \cup UNION {f[c] : c \in S}
  <2>1. {f[c] : c \in S} = {{Path(c, n) : n \in 1..Len(c)} : c \in S}
    OBVIOUS
  <2> QED BY <2>1, Zenon DEF LearnedPaths
<1> HIDE DEF f, S
<1>4. IsFiniteSet({f[c] : c \in S})
  BY <1>1, ImageFinite
<1>5. IsFiniteSet(UNION {f[c] : c \in S})
  BY <1>2, <1>4, FS_UNION
<1>6. IsFiniteSet({<<>>} \cup UNION {f[c] : c \in S})
  BY <1>5, FS_Singleton, FS_Union
<1> QED BY <1>3, <1>6, SettledTrie

(* The nodes are the prefixes of the commands that were learned.            *)
LEMMA TriePath ==
    ASSUME Settled, NEW c \in Commands, fed[c] > 0, NEW n \in 0..Len(c)
    PROVE  Path(c, n) \in DOMAIN trie
<1>1. CASE n = 0
  BY <1>1, EmptyPath, SettledTrie DEF LearnedPaths
<1>2. CASE n \in 1..Len(c)
  BY <1>2, SettledTrie DEF LearnedPaths
<1> QED BY <1>1, <1>2, CommandShape

LEMMA TrieNode ==
    ASSUME Settled, NEW p \in DOMAIN trie
    PROVE  /\ p \in Seq(Labels) /\ Len(p) \in Nat
           /\ trie[p] \in NodeSet
           /\ CountOf(p) = Fed(Below(p)) /\ CountOf(p) \in Nat
           /\ Below(p) \in SUBSET Commands
<1>1. p \in Seq(Labels) /\ trie[p] \in NodeSet /\ ExactNode(trie[p], p)
  BY SettledTrie DEF IsTrie, Exact
<1>2. Len(p) \in Nat
  BY <1>1, LenProperties
<1>3. CountOf(p) = LearnedBelow(p) /\ CountOf(p) \in Nat
  BY <1>1 DEF CountOf, ExactNode, NodeSet
<1> QED BY <1>1, <1>2, <1>3, FedBelow, BelowFinite

(* A command below a node: the node is a prefix of its path.                *)
LEMMA BelowNode ==
    ASSUME Settled, NEW p \in DOMAIN trie, NEW c \in Below(p)
    PROVE  /\ c \in Commands /\ Len(c) \in Nat /\ Len(p) \in 0..Len(c)
           /\ p = Path(c, Len(p))
           /\ \A i \in 1..Len(p) : p[i] = Label(c, i) /\ SubSeq(p, 1, i) = Path(c, i)
<1>1. c \in Commands /\ Len(c) >= Len(p) /\ Path(c, Len(p)) = p
  BY DEF Below
<1>2. Len(c) \in Nat /\ Len(p) \in Nat
  BY <1>1, CommandShape, TrieNode
<1>3. ASSUME NEW i \in 1..Len(p)
      PROVE  p[i] = Label(c, i) /\ SubSeq(p, 1, i) = Path(c, i)
  <2>1. Path(c, Len(p))[i] = Label(c, i)
    BY DEF Path
  <2>2. SubSeq(Path(c, Len(p)), 1, i) = Path(c, i)
    <3>1. \A k \in 0..Len(p) : SubSeq(Path(c, Len(p)), 1, k) = Path(c, k)
      BY <1>1, <1>2, PathShape
    <3> QED BY <1>2, <3>1
  <2> QED BY <1>1, <2>1, <2>2
<1> QED BY <1>1, <1>2, <1>3

(* What is counted at a node and at none of its children ends there.        *)
Ends(p) == {c \in Below(p) : Len(c) = Len(p)}

LEMMA ChildBelow ==
    ASSUME Settled, NEW p \in DOMAIN trie, NEW c \in Commands, fed[c] > 0
    PROVE  (\E q \in Children(p) : c \in Below(q)) <=> c \in Below(p) \ Ends(p)
<1>0. Len(c) \in Nat /\ Len(p) \in Nat
  BY CommandShape, TrieNode
<1>1. ASSUME NEW q \in Children(p), c \in Below(q)
      PROVE  c \in Below(p) \ Ends(p)
  <2>1. /\ q \in DOMAIN trie /\ Len(q) = Len(p) + 1
        /\ Front(q) = p
    BY DEF Children
  <2>2. Len(q) <= Len(c) /\ q = Path(c, Len(q))
    BY <1>1, <2>1, BelowNode
  <2>3. SubSeq(q, 1, Len(p)) = Path(c, Len(p))
    BY <1>0, <2>1, <2>2, PathShape
  <2>4. Front(q) = SubSeq(q, 1, Len(p))
    BY <1>0, <2>1 DEF Front
  <2> QED BY <1>0, <2>1, <2>2, <2>3, <2>4 DEF Below, Ends
<1>2. ASSUME c \in Below(p) \ Ends(p)
      PROVE  \E q \in Children(p) : c \in Below(q)
  <2> DEFINE n == Len(p) + 1
             q == Path(c, n)
  <2>1. Len(p) < Len(c) /\ Path(c, Len(p)) = p
    BY <1>0, <1>2 DEF Below, Ends
  <2>2. n \in 0..Len(c) /\ n \in Nat
    BY <1>0, <2>1
  <2>3. q \in DOMAIN trie /\ c \in Below(q)
    BY <2>2, TriePath, BelowPath
  <2>4. Len(q) = n /\ SubSeq(q, 1, Len(p)) = Path(c, Len(p))
    BY <1>0, <2>2, PathShape
  <2>5. Front(q) = p
    BY <1>0, <2>1, <2>4 DEF Front
  <2> QED BY <2>3, <2>4, <2>5 DEF Children
<1> QED BY <1>1, <1>2

LEMMA BelowApart ==
    ASSUME NEW p, NEW q, Len(p) = Len(q), p # q
    PROVE  Below(p) \cap Below(q) = {}
  BY DEF Below

LEMMA TerminalExact ==
    ASSUME Settled, NEW p \in DOMAIN trie
    PROVE  /\ Terminal(p) = Fed(Ends(p)) /\ Terminal(p) \in Nat
           /\ Ends(p) \in SUBSET Commands
<1> DEFINE R == Children(p)
           b == [q \in R |-> Below(q)]
           w == [q \in R |-> CountOf(q)]
           rest == Below(p) \ Ends(p)
<1>1. /\ fed \in [Commands -> Nat] /\ Below(p) \in SUBSET Commands
      /\ Ends(p) \in SUBSET Commands /\ rest \in SUBSET Commands
      /\ Ends(p) \cap rest = {} /\ Ends(p) \cup rest = Below(p)
  BY SettledTrie, TrieNode DEF Ends
<1>2. R \in SUBSET DOMAIN trie /\ IsFiniteSet(R)
      /\ \A q \in R : Len(q) = Len(p) + 1
  BY TrieFinite, FS_Subset DEF Children
<1>3. Parted(b, R, Commands)
  BY <1>2, TrieNode, BelowApart DEF Parted
<1>4. \A q \in R : w[q] = Fed(b[q])
  BY <1>2, TrieNode
<1>5. MapThenSumSet(CountOf, R) = Sums(w, R)[R]
  BY <1>2, CountSum
<1>6. FedAlike(Members(b, R), rest)
  <2> SUFFICES ASSUME NEW c \in Commands, fed[c] > 0
               PROVE  c \in Members(b, R) <=> c \in rest
    BY DEF FedAlike
  <2>1. (\E q \in R : c \in Below(q)) <=> c \in rest
    BY ChildBelow
  <2> QED BY <2>1 DEF Members
<1> HIDE DEF R, b, w, rest
<1>7. Sums(w, R)[R] = Fed(Members(b, R)) /\ Members(b, R) \in SUBSET Commands
  BY <1>1, <1>2, <1>3, <1>4, FedParted
<1>8. Fed(Members(b, R)) = Fed(rest)
  BY <1>1, <1>6, <1>7, FedSame
<1>9. Fed(Ends(p) \cup rest) = Fed(Ends(p)) + Fed(rest)
  BY <1>1, FedDisjoint
<1>10. Fed(Ends(p)) \in Nat /\ Fed(rest) \in Nat
  BY <1>1, FedShape
<1>11. Terminal(p) = CountOf(p) - MapThenSumSet(CountOf, R)
  BY DEF Terminal, R
<1>12. CountOf(p) = Fed(Ends(p) \cup rest)
  BY <1>1, TrieNode
<1> QED BY <1>1, <1>5, <1>7, <1>8, <1>9, <1>10, <1>11, <1>12

-------------------------------------------------------------------------------
(* What a node tells of a token of a rule, and what the token does with the *)
(* words the node stands for.                                               *)

LitToken(t)  == \E w : t = [kind |-> "lit", word |-> w]
WildToken(t) == \E type, p : /\ t = WildcardOf(type, p)
                             /\ p # NoParam => p \in Params /\ ParamType[p] = type
CompToken(t) == \E a, type, p : t = [kind |-> "comp", affix |-> a, type |-> type,
                                     param |-> p]
RuleToken(t) == LitToken(t) \/ WildToken(t) \/ CompToken(t)

GoodRule(rule) == rule \in Seq(Token)

LEMMA TokenShape ==
    ASSUME NEW t \in Token
    PROVE  RuleToken(t)
<1>1. CASE t \in LiteralToken
  <2>1. t = [kind |-> "lit", word |-> t.word]
    BY <1>1 DEF LiteralToken
  <2> QED BY <2>1, Zenon DEF RuleToken, LitToken
<1>2. CASE t \in WildcardToken
  <2>1. t = WildcardOf(t.type, t.param)
    BY <1>2 DEF WildcardToken, WildcardOf
  <2>2. t.param # NoParam => t.param \in Params /\ ParamType[t.param] = t.type
    BY <1>2 DEF WildcardToken
  <2> QED BY <2>1, <2>2, Zenon DEF RuleToken, WildToken
<1>3. CASE t \in CompoundToken
  <2>1. t = [kind |-> "comp", affix |-> t.affix, type |-> t.type, param |-> t.param]
    BY <1>3 DEF CompoundToken
  <2> QED BY <2>1, Zenon DEF RuleToken, CompToken
<1> QED BY <1>1, <1>2, <1>3 DEF Token

LEMMA GoodRuleShape ==
    ASSUME NEW rule, GoodRule(rule)
    PROVE  Len(rule) \in Nat /\ \A i \in 1..Len(rule) : rule[i] \in Token /\ RuleToken(rule[i])
<1>1. Len(rule) \in Nat /\ \A i \in 1..Len(rule) : rule[i] \in Token
  BY ElementOfSeq, LenProperties DEF GoodRule
<1> QED BY <1>1, TokenShape

Accepted(rule, c, i) == TokenAccepts(rule[i], c[i], CommandType(c, i))

(* Evidence is right: "yes" says that every word of the node is accepted,   *)
(* "no", after a token that accepts its word, that none is.                 *)
Right(evidence, accepted) ==
    /\ evidence \in {"yes", "no", "unknown"}
    /\ evidence = "yes" => accepted
    /\ evidence = "no" => ~accepted

LEMMA WordShape ==
    ASSUME NEW c \in Commands, NEW i \in 1..Len(c)
    PROVE  /\ c[i] \in Words /\ CommandType(c, i) \in Types
           /\ i # 1 => After[c[i - 1]] \in Contexts
<1>1. c \in Seq(Words) /\ Len(c) \in Nat
  BY CommandShape
<1>2. c[i] \in Words
  BY <1>1, ElementOfSeq
<1>3. i # 1 => After[c[i - 1]] \in Contexts
  <2>1. i # 1 => i - 1 \in 1..Len(c)
    BY <1>1
  <2>2. i # 1 => c[i - 1] \in Words
    BY <1>1, <2>1, ElementOfSeq
  <2> QED BY <2>2, TableAssumption
<1> QED BY <1>2, <1>3, TypeShape

LEMMA LiteralEvidence ==
    ASSUME NEW c \in Commands, NEW i \in 1..Len(c), NEW rule, NEW node,
           LitToken(rule[i]), i # 1 => RuleToken(rule[i - 1]) /\ Accepted(rule, c, i - 1)
    PROVE  Right(Evidence(rule, i, Label(c, i), node), Accepted(rule, c, i))
<1>1. PICK w : rule[i] = [kind |-> "lit", word |-> w]
  BY DEF LitToken
<1>2. rule[i].kind = "lit" /\ rule[i].word = w
  BY <1>1
<1>3. Accepted(rule, c, i) <=> w = c[i]
  BY <1>2 DEF Accepted, TokenAccepts
<1>4. CASE CommandType(c, i) = LiteralType
  <2>1. Label(c, i) = [kind |-> "lit", word |-> c[i]]
    BY <1>4 DEF Label
  <2>2. Evidence(rule, i, Label(c, i), node) = IF Label(c, i) = rule[i] THEN "yes" ELSE "no"
    BY <1>2, <2>1 DEF Evidence
  <2>3. Label(c, i) = rule[i] <=> w = c[i]
    <3>1. Label(c, i).word = c[i]
      BY <2>1
    <3> QED BY <1>1, <1>2, <2>1, <3>1
  <2> QED BY <1>3, <2>2, <2>3 DEF Right
<1>5. CASE CommandType(c, i) # LiteralType
  <2>1. Label(c, i).kind = "wild" /\ Label(c, i).type = CommandType(c, i)
    BY <1>5 DEF Label
  <2>2. Evidence(rule, i, Label(c, i), node)
           = IF CommandType(c, i) \in LiteralTypes(rule, i) THEN "unknown" ELSE "no"
    BY <1>2, <2>1 DEF Evidence
  <2>3. w = c[i] => CommandType(c, i) \in LiteralTypes(rule, i)
    <3> SUFFICES ASSUME w = c[i] PROVE CommandType(c, i) \in LiteralTypes(rule, i)
      OBVIOUS
    <3>1. CASE i = 1
      BY <1>2, <3>1 DEF CommandType, LiteralTypes
    <3>2. CASE i # 1
      <4>1. CommandType(c, i) = Classify[<<c[i], After[c[i - 1]]>>]
        BY <3>2 DEF CommandType
      <4>2. CASE rule[i - 1].kind = "lit"
        <5>1. LiteralTypes(rule, i) = {Classify[<<c[i], After[rule[i - 1].word]>>]}
          BY <1>2, <3>2, <4>2 DEF LiteralTypes
        <5>2. rule[i - 1].word = c[i - 1]
          BY <3>2, <4>2 DEF Accepted, TokenAccepts
        <5> QED BY <4>1, <5>1, <5>2
      <4>3. CASE rule[i - 1].kind # "lit"
        <5>1. LiteralTypes(rule, i) = {Classify[<<c[i], ctx>>] : ctx \in Contexts}
          BY <1>2, <3>2, <4>3 DEF LiteralTypes
        <5> QED BY <3>2, <4>1, <5>1, WordShape
      <4> QED BY <4>2, <4>3
    <3> QED BY <3>1, <3>2
  <2> QED BY <1>3, <2>2, <2>3 DEF Right
<1> QED BY <1>4, <1>5

LEMMA CompoundEvidence ==
    ASSUME NEW c \in Commands, NEW i \in 1..Len(c), NEW rule, NEW node,
           CompToken(rule[i])
    PROVE  Right(Evidence(rule, i, Label(c, i), node), Accepted(rule, c, i))
<1>1. rule[i].kind = "comp"
  BY DEF CompToken
<1>2. Accepted(rule, c, i) <=> CompoundAccepts(rule[i], c[i])
  BY <1>1 DEF Accepted, TokenAccepts
<1>3. CASE CommandType(c, i) = LiteralType
  <2>1. Label(c, i).kind = "lit" /\ Label(c, i).word = c[i]
    BY <1>3 DEF Label
  <2>2. Evidence(rule, i, Label(c, i), node)
           = IF CompoundAccepts(rule[i], c[i]) THEN "yes" ELSE "no"
    BY <1>1, <2>1 DEF Evidence
  <2> QED BY <1>2, <2>2 DEF Right
<1>4. CASE CommandType(c, i) # LiteralType
  <2>1. Label(c, i).kind = "wild"
    BY <1>4 DEF Label
  <2>2. Evidence(rule, i, Label(c, i), node) = "unknown"
    BY <1>1, <2>1 DEF Evidence
  <2> QED BY <2>2 DEF Right
<1> QED BY <1>3, <1>4

(* A word is one of the values its bucket stands for.                       *)
LEMMA BucketMetadata ==
    ASSUME Settled, NEW c \in Commands, fed[c] > 0, NEW i \in 1..Len(c),
           CommandType(c, i) # LiteralType, ~trie[Path(c, i)].mixed
    PROVE  Meta[<<CommandType(c, i), c[i]>>] = trie[Path(c, i)].common
<1> DEFINE p == Path(c, i)
<1>1. i \in Nat /\ i \in 0..Len(c) /\ Len(p) = i
  BY CommandShape, PathShape
<1>2. p \in DOMAIN trie /\ c \in Below(p)
  BY <1>1, TriePath, BelowPath
<1>3. p[i] = [kind |-> "wild", type |-> CommandType(c, i), param |-> NoParam]
  BY <1>1 DEF Path, Label
<1>4. p # <<>> /\ Last(p) = p[i]
  BY <1>1 DEF Last
<1>5. ExactNode(trie[p], p)
  BY <1>2, SettledTrie DEF Exact
<1> HIDE DEF p
<1>6. MetadataBelow(p) = {trie[p].common}
  <2>1. Last(p).kind = "wild"
    BY <1>3, <1>4
  <2>2. ExactBucket(trie[p], Last(p).type, MetadataBelow(p))
    BY <1>4, <1>5, <2>1 DEF ExactNode
  <2>3. ~trie[p].mixed
    BY DEF p
  <2> QED BY <2>2, <2>3, Zenon DEF ExactBucket
<1>7. Meta[<<p[Len(p)].type, c[Len(p)]>>] \in MetadataBelow(p)
  BY <1>2 DEF MetadataBelow
<1> QED BY <1>1, <1>3, <1>6, <1>7 DEF p

LEMMA WildcardEvidence ==
    ASSUME Settled, NEW c \in Commands, fed[c] > 0, NEW i \in 1..Len(c),
           NEW rule, WildToken(rule[i])
    PROVE  Right(Evidence(rule, i, Label(c, i), trie[Path(c, i)]), Accepted(rule, c, i))
<1> DEFINE node == trie[Path(c, i)]
           type == CommandType(c, i)
           e    == Evidence(rule, i, Label(c, i), node)
<1>1. PICK t, p : /\ rule[i] = WildcardOf(t, p)
                  /\ p # NoParam => p \in Params /\ ParamType[p] = t
  BY DEF WildToken
<1>2. rule[i].kind = "wild" /\ rule[i].type = t /\ rule[i].param = p
  BY <1>1 DEF WildcardOf
<1>3. (IF Label(c, i).kind = "lit" THEN LiteralType ELSE Label(c, i).type) = type
  BY DEF Label
<1>4. Accepted(rule, c, i)
         <=> t \in Mask[type] /\ (p # NoParam => type = t /\ c[i] \in ParamWords[p])
  BY <1>2 DEF Accepted, TokenAccepts, WildcardAccepts, ParamMatches
<1>5. c[i] \in Words /\ type \in Types
  BY WordShape
<1>6. e = IF t \notin Mask[type] \/ (p # NoParam /\ type # t)
          THEN "no" ELSE ParamEvidence(rule[i], node)
  BY <1>2, <1>3 DEF Evidence
<1> HIDE DEF e, type
<1>7. CASE t \notin Mask[type] \/ (p # NoParam /\ type # t)
  <2>1. e = "no" /\ ~Accepted(rule, c, i)
    BY <1>4, <1>6, <1>7
  <2> QED BY <2>1 DEF Right, e
<1>8. CASE t \in Mask[type] /\ (p # NoParam => type = t)
  <2>0. e = ParamEvidence(rule[i], node)
    BY <1>6, <1>8
  <2>1. CASE p \notin ValueParams
    <3>1. e = "yes"
      BY <1>2, <2>0, <2>1 DEF ParamEvidence
    <3>2. p # NoParam => c[i] \in ParamWords[p]
      <4> SUFFICES ASSUME p # NoParam PROVE c[i] \in ParamWords[p]
        OBVIOUS
      <4>1. p \in Params \ ValueParams
        BY <1>1, <2>1
      <4>2. ParamWords[p] = Words
        BY <4>1, SuggestAssumption
      <4> QED BY <1>5, <4>2
    <3>3. Accepted(rule, c, i)
      BY <1>4, <1>8, <3>2
    <3> QED BY <3>1, <3>3 DEF Right, e
  <2>2. CASE p \in ValueParams
    <3>1. p \in Params /\ p # NoParam /\ ParamType[p] = t /\ type = t
      BY <1>1, <1>8, <2>2, SuggestAssumption, TableAssumption
    <3>2. type # LiteralType
      BY <3>1, TableAssumption
    <3>3. CASE node.mixed
      <4>1. e = "unknown"
        BY <1>2, <2>0, <2>2, <3>3, Zenon DEF ParamEvidence
      <4> QED BY <4>1 DEF Right, e
    <3>4. CASE ~node.mixed
      <4>1. Meta[<<type, c[i]>>] = node.common
        BY <3>2, <3>4, BucketMetadata DEF type
      <4>2. e = IF node.common = p THEN "yes" ELSE "no"
        BY <1>2, <2>0, <2>2, <3>4, Zenon DEF ParamEvidence
      <4>3. node.common = p => c[i] \in ParamWords[p]
        BY <1>5, <3>1, <4>1, LearnerAssumption
      <4>4. c[i] \in ParamWords[p] => node.common = p
        BY <2>2, <3>1, <4>1, SuggestAssumption
      <4>5. Accepted(rule, c, i) <=> node.common = p
        BY <1>4, <1>8, <3>1, <4>3, <4>4
      <4> QED BY <4>2, <4>5 DEF Right, e
    <3> QED BY <3>3, <3>4
  <2> QED BY <2>1, <2>2
<1> QED BY <1>7, <1>8

LEMMA EvidenceRight ==
    ASSUME Settled, NEW c \in Commands, fed[c] > 0, NEW i \in 1..Len(c),
           NEW rule, RuleToken(rule[i]),
           i # 1 => RuleToken(rule[i - 1]) /\ Accepted(rule, c, i - 1)
    PROVE  Right(Evidence(rule, i, Label(c, i), trie[Path(c, i)]), Accepted(rule, c, i))
<1>1. CASE LitToken(rule[i])
  BY <1>1, LiteralEvidence
<1>2. CASE WildToken(rule[i])
  BY <1>2, WildcardEvidence
<1>3. CASE CompToken(rule[i])
  BY <1>3, CompoundEvidence
<1> QED BY <1>1, <1>2, <1>3 DEF RuleToken

-------------------------------------------------------------------------------
(* The walk of a rule reaches exactly the commands its tokens accept, but   *)
(* for the nodes left undecided.                                            *)

LEMMA WalkFinds ==
    ASSUME Settled, NEW rule, GoodRule(rule), NEW depth \in 0..Len(rule),
           NEW c \in Commands, fed[c] > 0, PrefixMatches(rule, depth, c),
           NEW p \in DOMAIN trie, Len(p) = depth, c \in Below(p)
    PROVE  p \in Reached(rule, depth)
<1>1. /\ Len(c) \in Nat /\ depth \in Nat /\ depth <= Len(c)
      /\ Len(rule) \in Nat /\ \A i \in 1..Len(rule) : RuleToken(rule[i])
  BY CommandShape, GoodRuleShape DEF PrefixMatches
<1>2. \A i \in 1..depth : p[i] = Label(c, i) /\ SubSeq(p, 1, i) = Path(c, i)
  BY BelowNode
<1>3. \A i \in 1..depth : Accepted(rule, c, i)
  BY DEF PrefixMatches, Accepted
<1>4. ASSUME NEW i \in 1..depth PROVE EvidenceAt(rule, p, i) # "no"
  <2>1. i \in 1..Len(c) /\ i \in 1..Len(rule) /\ (i # 1 => i - 1 \in 1..depth)
    BY <1>1
  <2>2. RuleToken(rule[i]) /\ (i # 1 => RuleToken(rule[i - 1]) /\ Accepted(rule, c, i - 1))
    BY <1>1, <1>3, <2>1
  <2>3. Right(Evidence(rule, i, Label(c, i), trie[Path(c, i)]), Accepted(rule, c, i))
    BY <2>1, <2>2, EvidenceRight
  <2>4. EvidenceAt(rule, p, i) = Evidence(rule, i, Label(c, i), trie[Path(c, i)])
    BY <1>2 DEF EvidenceAt
  <2> QED BY <1>3, <2>3, <2>4 DEF Right
<1> QED BY <1>4 DEF Reached

LEMMA WalkSound ==
    ASSUME Settled, NEW rule, GoodRule(rule), NEW depth \in 0..Len(rule),
           NEW p \in Reached(rule, depth), p \notin Undecided(rule, depth),
           NEW c \in Below(p), fed[c] > 0
    PROVE  PrefixMatches(rule, depth, c)
<1>0. /\ p \in DOMAIN trie /\ Len(p) = depth
      /\ \A i \in 1..depth : EvidenceAt(rule, p, i) \notin {"no", "unknown"}
  BY DEF Reached, Undecided
<1>1. /\ c \in Commands /\ Len(c) \in Nat /\ depth \in Nat /\ depth <= Len(c)
      /\ Len(rule) \in Nat /\ \A i \in 1..Len(rule) : RuleToken(rule[i])
  BY <1>0, BelowNode, GoodRuleShape
<1>2. \A i \in 1..depth : p[i] = Label(c, i) /\ SubSeq(p, 1, i) = Path(c, i)
  BY <1>0, BelowNode
<1> DEFINE Bad == {i \in Nat : i \in 1..depth /\ ~Accepted(rule, c, i)}
<1>3. Bad = {}
  <2> SUFFICES ASSUME Bad # {} PROVE FALSE
    OBVIOUS
  <2>0. PICK i \in Bad : \A m \in Bad : i <= m
    BY Least
  <2>1. i \in 1..depth /\ ~Accepted(rule, c, i) /\ i \in 1..Len(c) /\ i \in 1..Len(rule)
    BY <1>1, <2>0
  <2>2. i # 1 => i - 1 \in 1..Len(rule) /\ i - 1 \in 1..depth /\ i - 1 \notin Bad
    BY <1>1, <2>0, <2>1
  <2>3. i # 1 => RuleToken(rule[i - 1]) /\ Accepted(rule, c, i - 1)
    BY <1>1, <2>2
  <2>4. RuleToken(rule[i])
    BY <1>1, <2>1
  <2>5. Right(Evidence(rule, i, Label(c, i), trie[Path(c, i)]), Accepted(rule, c, i))
    BY <1>1, <2>1, <2>3, <2>4, EvidenceRight
  <2>6. EvidenceAt(rule, p, i) = Evidence(rule, i, Label(c, i), trie[Path(c, i)])
    BY <1>2, <2>1 DEF EvidenceAt
  <2> QED BY <1>0, <2>1, <2>5, <2>6 DEF Right
<1>4. \A i \in 1..depth : Accepted(rule, c, i)
  BY <1>1, <1>3
<1> QED BY <1>1, <1>4 DEF PrefixMatches, Accepted

LEMMA ReachedShape ==
    ASSUME Settled, NEW rule, NEW depth
    PROVE  /\ Reached(rule, depth) \in SUBSET DOMAIN trie
           /\ IsFiniteSet(Reached(rule, depth))
           /\ \A p \in Reached(rule, depth) : Len(p) = depth
<1>1. Reached(rule, depth) \in SUBSET DOMAIN trie
  BY DEF Reached
<1>2. IsFiniteSet(Reached(rule, depth))
  BY <1>1, TrieFinite, FS_Subset
<1> QED BY <1>1, <1>2 DEF Reached

Starting(rule, depth) == {c \in Commands : PrefixMatches(rule, depth, c)}

LEMMA ScopeExact ==
    ASSUME Settled, NEW rule, GoodRule(rule), NEW depth \in 0..Len(rule),
           ~Unknown(rule, depth)
    PROVE  ScopeOf(rule, depth) = Fed(Starting(rule, depth))
<1> DEFINE R == Reached(rule, depth)
           b == [p \in R |-> Below(p)]
           w == [p \in R |-> CountOf(p)]
           Y == Starting(rule, depth)
<1>1. R \in SUBSET DOMAIN trie /\ IsFiniteSet(R) /\ \A p \in R : Len(p) = depth
  BY ReachedShape
<1>2. Parted(b, R, Commands)
  BY <1>1, TrieNode, BelowApart DEF Parted
<1>3. \A p \in R : w[p] = Fed(b[p])
  BY <1>1, TrieNode
<1>4. ScopeOf(rule, depth) = Sums(w, R)[R]
  BY <1>1, CountSum DEF ScopeOf
<1>5. fed \in [Commands -> Nat] /\ Y \in SUBSET Commands
  BY SettledTrie DEF Starting
<1>6. FedAlike(Members(b, R), Y)
  <2> SUFFICES ASSUME NEW c \in Commands, fed[c] > 0
               PROVE  c \in Members(b, R) <=> c \in Y
    BY DEF FedAlike
  <2>1. ASSUME c \in Y PROVE c \in Members(b, R)
    <3>1. PrefixMatches(rule, depth, c)
      BY <2>1 DEF Starting
    <3>2. depth \in 0..Len(c) /\ depth \in Nat
      BY <3>1, CommandShape DEF PrefixMatches
    <3>3. /\ Path(c, depth) \in DOMAIN trie /\ c \in Below(Path(c, depth))
          /\ Len(Path(c, depth)) = depth
      BY <3>2, TriePath, BelowPath, PathShape
    <3>4. Path(c, depth) \in R
      BY <3>1, <3>3, WalkFinds
    <3> QED BY <3>3, <3>4 DEF Members
  <2>2. ASSUME c \in Members(b, R) PROVE c \in Y
    <3>1. PICK p \in R : c \in Below(p)
      BY <2>2 DEF Members
    <3>2. CountOf(p) # 0
      <4>1. CountOf(p) = Fed(Below(p)) /\ Below(p) \in SUBSET Commands
        BY <1>1, TrieNode
      <4>2. Fed(Below(p)) = 0 <=> \A x \in Below(p) : fed[x] = 0
        BY <1>5, <4>1, FedShape
      <4> QED BY <3>1, <4>1, <4>2
    <3>3. p \notin Undecided(rule, depth)
      BY <3>2 DEF Unknown
    <3>4. PrefixMatches(rule, depth, c)
      BY <3>1, <3>3, WalkSound
    <3> QED BY <3>4 DEF Starting
  <2> QED BY <2>1, <2>2
<1> HIDE DEF R, b, w, Y
<1>7. Sums(w, R)[R] = Fed(Members(b, R)) /\ Members(b, R) \in SUBSET Commands
  BY <1>1, <1>2, <1>3, <1>5, FedParted
<1>8. Fed(Members(b, R)) = Fed(Y)
  BY <1>5, <1>6, <1>7, FedSame
<1> QED BY <1>4, <1>7, <1>8 DEF Y

Matching(rule) == {c \in Commands : Matches(rule, c)}

LEMMA MatchesWhole ==
    ASSUME NEW rule, NEW c \in Commands, Len(rule) \in Nat
    PROVE  Matches(rule, c) <=> Len(c) = Len(rule) /\ PrefixMatches(rule, Len(rule), c)
<1>1. Len(c) \in Nat
  BY CommandShape
<1> QED BY <1>1 DEF Matches, PrefixMatches

LEMMA SupportOfExact ==
    ASSUME Settled, NEW rule, GoodRule(rule), NEW depth, ~Unknown(rule, depth)
    PROVE  SupportOf(rule) = Fed(Matching(rule))
<1> DEFINE n == Len(rule)
           R == Reached(rule, n)
           b == [p \in R |-> Ends(p)]
           w == [p \in R |-> Terminal(p)]
           Y == Matching(rule)
<1>0. n \in Nat /\ n \in 0..Len(rule)
  BY GoodRuleShape
<1>1. R \in SUBSET DOMAIN trie /\ IsFiniteSet(R) /\ \A p \in R : Len(p) = n
  BY ReachedShape
<1>2. Parted(b, R, Commands)
  <2>1. \A p \in R : b[p] \in SUBSET Commands
    BY <1>1, TerminalExact
  <2>2. \A p, q \in R : p # q => b[p] \cap b[q] = {}
    BY <1>1, BelowApart DEF Ends
  <2> QED BY <2>1, <2>2 DEF Parted
<1>3. \A p \in R : w[p] = Fed(b[p])
  BY <1>1, TerminalExact
<1>4. SupportOf(rule) = Sums(w, R)[R]
  BY <1>1, TerminalSum DEF SupportOf
<1>5. fed \in [Commands -> Nat] /\ Y \in SUBSET Commands
  BY SettledTrie DEF Matching
<1>6. FedAlike(Members(b, R), Y)
  <2> SUFFICES ASSUME NEW c \in Commands, fed[c] > 0
               PROVE  c \in Members(b, R) <=> c \in Y
    BY DEF FedAlike
  <2>1. ASSUME c \in Y PROVE c \in Members(b, R)
    <3>1. Len(c) = n /\ PrefixMatches(rule, n, c)
      BY <1>0, <2>1, MatchesWhole DEF Matching
    <3>3. /\ Path(c, n) \in DOMAIN trie /\ c \in Below(Path(c, n))
          /\ Len(Path(c, n)) = n
      BY <1>0, <3>1, TriePath, BelowPath, PathShape
    <3>4. Path(c, n) \in R
      BY <1>0, <3>1, <3>3, WalkFinds
    <3> QED BY <3>1, <3>3, <3>4 DEF Members, Ends
  <2>2. ASSUME c \in Members(b, R) PROVE c \in Y
    <3>1. PICK p \in R : c \in Ends(p)
      BY <2>2 DEF Members
    <3>2. Terminal(p) # 0
      <4>1. Terminal(p) = Fed(Ends(p)) /\ Ends(p) \in SUBSET Commands
        BY <1>1, TerminalExact
      <4>2. Fed(Ends(p)) = 0 <=> \A x \in Ends(p) : fed[x] = 0
        BY <1>5, <4>1, FedShape
      <4> QED BY <3>1, <4>1, <4>2
    <3>3. p \notin Undecided(rule, n)
      BY <3>2 DEF Unknown
    <3>4. c \in Below(p) /\ Len(c) = n
      BY <1>1, <3>1 DEF Ends
    <3>5. PrefixMatches(rule, n, c)
      BY <1>0, <3>3, <3>4, WalkSound
    <3> QED BY <1>0, <3>4, <3>5, MatchesWhole DEF Matching
  <2> QED BY <2>1, <2>2
<1> HIDE DEF R, b, w, Y
<1>7. Sums(w, R)[R] = Fed(Members(b, R)) /\ Members(b, R) \in SUBSET Commands
  BY <1>1, <1>2, <1>3, <1>5, FedParted
<1>8. Fed(Members(b, R)) = Fed(Y)
  BY <1>5, <1>6, <1>7, FedSame
<1> QED BY <1>4, <1>7, <1>8 DEF Y

-------------------------------------------------------------------------------
(* The join of a set of types covers them all.                              *)

JoinStep(g, s) ==
    IF s = {} THEN LiteralType
    ELSE LET x == CHOOSE x \in s : TRUE
         IN  IF g[s \ {x}] = LiteralType THEN x ELSE Join[<<g[s \ {x}], x>>]

LEMMA JoinsUpto ==
    ASSUME NEW S, IsFiniteSet(S)
    PROVE  \A n \in Nat : \E g : g = [s \in Upto(S, n) |-> JoinStep(g, s)]
<1> DEFINE Bad == {n \in Nat : ~ \E g : g = [s \in Upto(S, n) |-> JoinStep(g, s)]}
<1> SUFFICES ASSUME Bad # {} PROVE FALSE
  OBVIOUS
<1>1. PICK n \in Bad : \A m \in Bad : n <= m
  BY Least
<1>2. PICK g : n # 0 => g = [s \in Upto(S, n - 1) |-> JoinStep(g, s)]
  <2>1. CASE n = 0
    BY <2>1
  <2>2. CASE n # 0
    <3>1. n - 1 \in Nat /\ n - 1 \notin Bad
      BY <1>1, <2>2
    <3> QED BY <3>1
  <2> QED BY <2>1, <2>2
<1> DEFINE h == [s \in Upto(S, n) |-> JoinStep(g, s)]
<1>3. ASSUME NEW s \in Upto(S, n) PROVE JoinStep(g, s) = JoinStep(h, s)
  <2>1. CASE s = {}
    BY <2>1 DEF JoinStep
  <2>2. CASE s # {}
    <3> DEFINE x == CHOOSE x \in s : TRUE
    <3>1. x \in s
      BY <2>2
    <3> HIDE DEF x
    <3>2. n # 0 /\ s \ {x} \in Upto(S, n - 1) /\ s \ {x} \in Upto(S, n)
      <4>1. IsFiniteSet(s) /\ Cardinality(s) \in Nat /\ Cardinality(s) <= n
        BY FS_Subset, FS_CardinalityType DEF Upto
      <4>2. Cardinality(s \ {x}) = Cardinality(s) - 1 /\ Cardinality(s) # 0
        BY <3>1, <4>1, FS_RemoveElement, FS_EmptySet
      <4>3. s \ {x} \in SUBSET S
        BY DEF Upto
      <4> QED BY <4>1, <4>2, <4>3 DEF Upto
    <3>3. g[s \ {x}] = h[s \ {x}]
      BY <1>2, <3>2
    <3> HIDE DEF h
    <3> QED BY <2>2, <3>3 DEF JoinStep, x
  <2> QED BY <2>1, <2>2
<1>4. h = [s \in Upto(S, n) |-> JoinStep(h, s)]
  BY <1>3
<1> HIDE DEF h
<1> QED BY <1>4

Joined(s, t) ==
    IF s = {} THEN t = LiteralType
    ELSE t \in Types \ {LiteralType} /\ \A x \in s : <<x, t>> \in Compatible

LEMMA JoinCovers ==
    ASSUME NEW a \in Types \ {LiteralType}, NEW b \in Types \ {LiteralType}
    PROVE  Join[<<a, b>>] \in Types \ {LiteralType}
           /\ <<b, Join[<<a, b>>]>> \in Compatible
           /\ \A x \in Types : <<x, a>> \in Compatible => <<x, Join[<<a, b>>]>> \in Compatible
<1> DEFINE j == Join[<<a, b>>]
<1>1. j \in Types
  BY SuggestAssumption
<1>2. j # LiteralType /\ <<a, j>> \in Compatible /\ <<b, j>> \in Compatible
  BY JoinAssumption
<1> HIDE DEF j
<1>3. \A x \in Types : <<x, a>> \in Compatible => <<x, j>> \in Compatible
  BY <1>1, <1>2, CompatibleAssumption
<1> QED BY <1>1, <1>2, <1>3 DEF j

LEMMA JoinAllCovers ==
    ASSUME NEW S, IsFiniteSet(S), S \in SUBSET (Types \ {LiteralType})
    PROVE  Joined(S, JoinAll(S))
<1> DEFINE Eq(g) == g = [s \in SUBSET S |-> JoinStep(g, s)]
           g == CHOOSE g : Eq(g)
           n == Cardinality(S)
<1>1. n \in Nat /\ Upto(S, n) = SUBSET S
  BY FS_CardinalityType, FS_Subset DEF Upto
<1> HIDE DEF n
<1>2. \E h : h = [s \in Upto(S, n) |-> JoinStep(h, s)]
  <2>1. \A m \in Nat : \E h : h = [s \in Upto(S, m) |-> JoinStep(h, s)]
    BY JoinsUpto
  <2> QED BY <1>1, <2>1
<1>3. \E h : Eq(h)
  BY <1>1, <1>2, Zenon
<1>4. Eq(g)
  BY <1>3, Zenon
<1>5. JoinAll(S) = g[S]
  BY Zenon DEF JoinAll, FoldSet, MapThenFoldSet, JoinStep
<1> HIDE DEF g
<1>6. \A s \in SUBSET S : g[s] = JoinStep(g, s)
  BY <1>4, Zenon
<1> DEFINE Bad == {s \in SUBSET S : ~Joined(s, g[s])}
<1>7. Bad = {}
  <2> SUFFICES ASSUME Bad # {} PROVE FALSE
    OBVIOUS
  <2>0. Bad \in SUBSET (SUBSET S)
    OBVIOUS
  <2>1. PICK s \in Bad : s \in SUBSET S /\ \A x \in s : s \ {x} \notin Bad
    <3> HIDE DEF Bad
    <3> QED BY <2>0, SmallestSet
  <2>2. g[s] = JoinStep(g, s)
    BY <1>6, <2>1
  <2>3. CASE s = {}
    BY <2>1, <2>2, <2>3 DEF Joined, JoinStep
  <2>4. CASE s # {}
    <3> DEFINE x == CHOOSE x \in s : TRUE
    <3>1. x \in s
      BY <2>4
    <3>2. g[s] = IF g[s \ {x}] = LiteralType THEN x ELSE Join[<<g[s \ {x}], x>>]
      BY <2>2, <2>4 DEF JoinStep
    <3> HIDE DEF x
    <3>3. PICK j : j = g[s \ {x}]
      OBVIOUS
    <3>4. Joined(s \ {x}, j) /\ x \in Types \ {LiteralType}
      BY <2>1, <3>1, <3>3
    <3>5. CASE s \ {x} = {}
      <4>1. g[s] = x /\ \A y \in s : y = x
        BY <3>2, <3>3, <3>4, <3>5 DEF Joined
      <4>2. <<x, x>> \in Compatible
        BY <3>4, CompatibleAssumption
      <4>3. Joined(s, g[s])
        BY <2>4, <3>4, <4>1, <4>2 DEF Joined
      <4> QED BY <2>1, <4>3
    <3>6. CASE s \ {x} # {}
      <4>1. /\ j \in Types \ {LiteralType}
            /\ \A y \in s \ {x} : <<y, j>> \in Compatible
        BY <3>4, <3>6 DEF Joined
      <4>2. g[s] = Join[<<j, x>>]
        BY <3>2, <3>3, <4>1
      <4>3. /\ g[s] \in Types \ {LiteralType} /\ <<x, g[s]>> \in Compatible
            /\ \A y \in Types : <<y, j>> \in Compatible => <<y, g[s]>> \in Compatible
        BY <3>4, <4>1, <4>2, JoinCovers
      <4>4. \A y \in s : <<y, g[s]>> \in Compatible
        <5>1. \A y \in s \ {x} : y \in Types
          BY <2>1
        <5> QED BY <4>1, <4>3, <5>1
      <4>5. Joined(s, g[s])
        BY <2>4, <4>3, <4>4 DEF Joined
      <4> QED BY <2>1, <4>5
    <3> QED BY <3>5, <3>6
  <2> QED BY <2>3, <2>4
<1> QED BY <1>5, <1>7

-------------------------------------------------------------------------------
(* The proposals are defined from the leaves of the trie up.                *)

Branches(f, path) ==
    UNION {{[child |-> q, rule |-> c.rule, count |-> c.count, depth |-> c.depth]
              : c \in f[q]} : q \in Children(path)}

Ended(path) ==
    IF Terminal(path) = 0 THEN {}
    ELSE {[rule |-> <<>>, count |-> Terminal(path), depth |-> 0]}

Grouped(branches, path) ==
    UNION {GroupProposals({b \in branches : b.rule = s}, path = <<>>)
             : s \in {b.rule : b \in branches}}

Continued(f, path) == Ended(path) \cup Grouped(Branches(f, path), path)

(* The nodes further down than a node: fewer for its children.              *)
Deeper(p) == {q \in DOMAIN trie : Len(q) > Len(p)}
Height(p) == Cardinality(Deeper(p))

LEMMA HeightShape ==
    ASSUME Settled, NEW p \in DOMAIN trie
    PROVE  Height(p) \in Nat /\ Height(p) <= Cardinality(DOMAIN trie)
<1>1. IsFiniteSet(DOMAIN trie) /\ Deeper(p) \in SUBSET DOMAIN trie
  BY TrieFinite DEF Deeper
<1>2. IsFiniteSet(Deeper(p)) /\ Cardinality(Deeper(p)) <= Cardinality(DOMAIN trie)
  BY <1>1, FS_Subset
<1> QED BY <1>2, FS_CardinalityType DEF Height

LEMMA ChildLower ==
    ASSUME Settled, NEW p \in DOMAIN trie, NEW q \in Children(p)
    PROVE  q \in DOMAIN trie /\ Height(q) < Height(p)
<1>1. q \in DOMAIN trie /\ Len(q) = Len(p) + 1 /\ Len(p) \in Nat
  BY TrieNode DEF Children
<1>2. /\ Deeper(q) \in SUBSET Deeper(p) /\ q \in Deeper(p) /\ q \notin Deeper(q)
  <2>1. \A r \in DOMAIN trie : Len(r) \in Nat
    BY TrieNode
  <2> QED BY <1>1, <2>1 DEF Deeper
<1>3. IsFiniteSet(Deeper(p))
  <2>1. Deeper(p) \in SUBSET DOMAIN trie
    BY DEF Deeper
  <2> QED BY <2>1, TrieFinite, FS_Subset
<1>4. Height(q) <= Height(p) /\ Height(q) # Height(p)
  <2>1. /\ Cardinality(Deeper(q)) <= Cardinality(Deeper(p))
        /\ Cardinality(Deeper(p)) = Cardinality(Deeper(q)) => Deeper(p) = Deeper(q)
    BY <1>2, <1>3, FS_Subset
  <2> QED BY <1>2, <2>1 DEF Height
<1> QED BY <1>1, <1>4, HeightShape

LowNodes(n) == {p \in DOMAIN trie : Height(p) <= n}

(* What a function says of the children is all that counts. *)
LEMMA BranchesSame ==
    ASSUME NEW f, NEW g, NEW p, \A q \in Children(p) : f[q] = g[q]
    PROVE  Branches(f, p) = Branches(g, p)
<1>1. ASSUME NEW q \in Children(p)
      PROVE  {[child |-> q, rule |-> c.rule, count |-> c.count, depth |-> c.depth]
                : c \in f[q]}
             = {[child |-> q, rule |-> c.rule, count |-> c.count, depth |-> c.depth]
                : c \in g[q]}
  BY Zenon
<1> DEFINE F == [q \in Children(p) |->
                   {[child |-> q, rule |-> c.rule, count |-> c.count, depth |-> c.depth]
                      : c \in f[q]}]
           G == [q \in Children(p) |->
                   {[child |-> q, rule |-> c.rule, count |-> c.count, depth |-> c.depth]
                      : c \in g[q]}]
<1>2. F = G
  BY <1>1
<1>3. Branches(f, p) = UNION {F[q] : q \in Children(p)}
  BY DEF Branches
<1>4. Branches(g, p) = UNION {G[q] : q \in Children(p)}
  BY DEF Branches
<1> HIDE DEF F, G
<1> QED BY <1>2, <1>3, <1>4

LEMMA ContinuationsUpto ==
    ASSUME Settled
    PROVE  \A n \in Nat : \E g : g = [p \in LowNodes(n) |-> Continued(g, p)]
<1> DEFINE Bad == {n \in Nat : ~ \E g : g = [p \in LowNodes(n) |-> Continued(g, p)]}
<1> SUFFICES ASSUME Bad # {} PROVE FALSE
  OBVIOUS
<1>1. PICK n \in Bad : \A m \in Bad : n <= m
  BY Least
<1>2. PICK g : n # 0 => g = [p \in LowNodes(n - 1) |-> Continued(g, p)]
  <2>1. CASE n = 0
    BY <2>1
  <2>2. CASE n # 0
    <3>1. n - 1 \in Nat /\ n - 1 \notin Bad
      BY <1>1, <2>2
    <3> QED BY <3>1
  <2> QED BY <2>1, <2>2
<1> DEFINE h == [p \in LowNodes(n) |-> Continued(g, p)]
<1>3. ASSUME NEW p \in LowNodes(n) PROVE Continued(g, p) = Continued(h, p)
  <2>1. ASSUME NEW q \in Children(p) PROVE g[q] = h[q]
    <3>1. /\ p \in DOMAIN trie /\ Height(p) \in Nat /\ Height(p) <= n
          /\ q \in DOMAIN trie /\ Height(q) \in Nat /\ Height(q) < Height(p)
      BY ChildLower, HeightShape DEF LowNodes
    <3>2. n # 0 /\ q \in LowNodes(n - 1) /\ q \in LowNodes(n)
      BY <3>1 DEF LowNodes
    <3>3. g[q] = Continued(g, q)
      BY <1>2, <3>2, Zenon
    <3>4. h[q] = Continued(g, q)
      BY <3>2
    <3> QED BY <3>3, <3>4
  <2> HIDE DEF h
  <2>2. Branches(g, p) = Branches(h, p)
    BY <2>1, BranchesSame
  <2> QED BY <2>2 DEF Continued
<1>4. h = [p \in LowNodes(n) |-> Continued(h, p)]
  BY <1>3
<1> HIDE DEF h
<1> QED BY <1>4

LEMMA ContinuationsDef ==
    ASSUME Settled
    PROVE  \A p \in DOMAIN trie : Continuations[p] = Continued(Continuations, p)
<1> DEFINE n == Cardinality(DOMAIN trie)
<1>1. n \in Nat /\ LowNodes(n) = DOMAIN trie
  BY TrieFinite, FS_CardinalityType, HeightShape DEF LowNodes
<1> HIDE DEF n
<1>2. \E g : g = [p \in LowNodes(n) |-> Continued(g, p)]
  <2>1. \A m \in Nat : \E g : g = [p \in LowNodes(m) |-> Continued(g, p)]
    BY ContinuationsUpto
  <2> QED BY <1>1, <2>1
<1>3. \E g : g = [p \in DOMAIN trie |-> Continued(g, p)]
  BY <1>1, <1>2, Zenon
<1>4. Continuations = CHOOSE g : g = [p \in DOMAIN trie |-> Continued(g, p)]
  BY Zenon DEF Continuations, Continued, Ended, Grouped, Branches
<1>5. Continuations = [p \in DOMAIN trie |-> Continued(Continuations, p)]
  BY <1>3, <1>4, Zenon
<1> QED BY <1>5, Zenon

-------------------------------------------------------------------------------
(* What is proposed at a node: a rule of well-formed tokens, a count that   *)
(* is a number and a depth within the rule.  One of the commands learned    *)
(* continues after the node as the rule says, and no rule begins with a     *)
(* compound.                                                                *)

Continues(d, p, rule) ==
    /\ d \in Below(p) /\ fed[d] > 0 /\ Len(d) = Len(p) + Len(rule)
    /\ \A i \in 1..Len(rule) :
          TokenAccepts(rule[i], d[Len(p) + i], CommandType(d, Len(p) + i))

HeadPlain(rule) == rule # <<>> => rule[1].kind # "comp"

GoodProposal(c, p) ==
    /\ GoodRule(c.rule) /\ c.count \in Nat /\ c.depth \in 0..Len(c.rule)
    /\ \E d \in Commands : Continues(d, p, c.rule)
    /\ p = <<>> => HeadPlain(c.rule)
GoodProposals(C, p) == IsFiniteSet(C) /\ \A c \in C : GoodProposal(c, p)

GoodBranch(b, p) == b.child \in Children(p) /\ GoodProposal(b, b.child)
GoodBranches(B, p) == IsFiniteSet(B) /\ \A b \in B : GoodBranch(b, p)

(* A token for a node accepts every word the node stands for.               *)
Takes(token, q) ==
    /\ token \in Token
    /\ \A d \in Below(q) :
          fed[d] > 0 => TokenAccepts(token, d[Len(q)], CommandType(d, Len(q)))

LEMMA ChildShape ==
    ASSUME Settled, NEW p \in DOMAIN trie, NEW q \in Children(p)
    PROVE  q \in DOMAIN trie \ {<<>>} /\ Len(q) = Len(p) + 1 /\ Len(p) \in Nat
<1>1. q \in DOMAIN trie /\ Len(q) = Len(p) + 1 /\ Len(p) \in Nat
  BY TrieNode DEF Children
<1>2. Len(<<>>) = 0
  OBVIOUS
<1> QED BY <1>1, <1>2

LEMMA LongerRule ==
    ASSUME NEW token \in Token, NEW rule, GoodRule(rule)
    PROVE  /\ GoodRule(<<token>> \o rule)
           /\ Len(<<token>> \o rule) = Len(rule) + 1 /\ Len(rule) \in Nat
           /\ (<<token>> \o rule)[1] = token
           /\ \A i \in 2..(Len(rule) + 1) : (<<token>> \o rule)[i] = rule[i - 1]
<1>1. <<token>> \in Seq(Token) /\ Len(<<token>>) = 1 /\ <<token>>[1] = token
  OBVIOUS
<1>2. rule \in Seq(Token) /\ Len(rule) \in Nat
  BY LenProperties DEF GoodRule
<1> QED BY <1>1, <1>2 DEF GoodRule

LEMMA ProposalGood ==
    ASSUME Settled, NEW p \in DOMAIN trie, NEW token, NEW b, GoodBranch(b, p),
           Takes(token, b.child), p = <<>> => token.kind # "comp",
           NEW count \in Nat, NEW local \in BOOLEAN
    PROVE  GoodProposal(Proposal(token, b, count, local), p)
<1> DEFINE c == Proposal(token, b, count, local)
           q == b.child
<1>1. /\ c.rule = <<token>> \o b.rule /\ c.count = count
      /\ c.depth = IF local THEN 0 ELSE b.depth + 1
  BY DEF Proposal
<1>2. /\ q \in Children(p) /\ GoodRule(b.rule) /\ b.depth \in 0..Len(b.rule)
      /\ \E d \in Commands : Continues(d, q, b.rule)
  BY DEF GoodBranch, GoodProposal
<1>3. PICK d \in Commands : Continues(d, q, b.rule)
  BY <1>2
<1>4. token \in Token /\ Len(q) = Len(p) + 1 /\ Len(p) \in Nat
  BY <1>2, ChildShape DEF Takes
<1>5. /\ d \in Below(q) /\ fed[d] > 0 /\ Len(d) = Len(q) + Len(b.rule)
      /\ \A i \in 1..Len(b.rule) :
            TokenAccepts(b.rule[i], d[Len(q) + i], CommandType(d, Len(q) + i))
  BY <1>3 DEF Continues
<1>6. TokenAccepts(token, d[Len(q)], CommandType(d, Len(q)))
  BY <1>5 DEF Takes
<1> HIDE DEF c, q
<1>7. /\ GoodRule(c.rule) /\ Len(c.rule) = Len(b.rule) + 1 /\ Len(b.rule) \in Nat
      /\ c.rule[1] = token
      /\ \A i \in 2..(Len(b.rule) + 1) : c.rule[i] = b.rule[i - 1]
  BY <1>1, <1>2, <1>4, LongerRule
<1>8. c.depth \in 0..Len(c.rule)
  BY <1>1, <1>2, <1>7
<1>9. Continues(d, p, c.rule)
  <2>1. d \in Below(p)
    BY <1>2, <1>3, <1>5, ChildBelow
  <2>2. Len(d) = Len(p) + Len(c.rule)
    <3>1. PICK n \in Nat : n = Len(b.rule)
      BY <1>7
    <3>2. PICK m \in Nat : m = Len(p)
      BY <1>4
    <3>3. Len(q) = m + 1
      BY <1>4, <3>2
    <3>4. Len(c.rule) = n + 1
      BY <1>7, <3>1
    <3>5. Len(d) = Len(q) + Len(b.rule)
      BY <1>5
    <3>6. Len(d) = (m + 1) + n
      BY ONLY <3>1, <3>3, <3>5
    <3>7. Len(p) + Len(c.rule) = m + (n + 1)
      BY ONLY <3>2, <3>4
    <3> QED BY ONLY <3>6, <3>7, m \in Nat, n \in Nat
  <2>3. ASSUME NEW i \in 1..Len(c.rule)
        PROVE  TokenAccepts(c.rule[i], d[Len(p) + i], CommandType(d, Len(p) + i))
    <3>1. CASE i = 1
      BY <1>4, <1>6, <1>7, <3>1
    <3>2. CASE i # 1
      <4>1. PICK j \in 1..Len(b.rule) : j = i - 1 /\ i \in 2..(Len(b.rule) + 1)
        BY <1>7, <3>2
      <4>2. c.rule[i] = b.rule[j] /\ Len(p) + i = Len(q) + j
        BY <1>4, <1>7, <4>1
      <4>3. TokenAccepts(b.rule[j], d[Len(q) + j], CommandType(d, Len(q) + j))
        BY <1>5, <4>1
      <4> QED BY <4>2, <4>3
    <3> QED BY <3>1, <3>2
  <2> QED BY <1>5, <2>1, <2>2, <2>3 DEF Continues
<1>10. p = <<>> => HeadPlain(c.rule)
  BY <1>7 DEF HeadPlain
<1> QED BY <1>1, <1>7, <1>8, <1>9, <1>10 DEF GoodProposal, c

LEMMA AloneGood ==
    ASSUME Settled, NEW p \in DOMAIN trie, NEW token, NEW b, GoodBranch(b, p),
           Takes(token, b.child), p = <<>> => token.kind # "comp"
    PROVE  GoodProposal(Alone(token, b), p)
<1>1. b.count \in Nat /\ (b.rule = <<>>) \in BOOLEAN
  BY DEF GoodBranch, GoodProposal
<1> QED BY <1>1, ProposalGood DEF Alone

-------------------------------------------------------------------------------
(* The tokens made from the labels of the trie.                             *)

LEMMA LastLabel ==
    ASSUME Settled, NEW q \in DOMAIN trie \ {<<>>}, NEW d \in Below(q)
    PROVE  /\ d \in Commands /\ Len(q) \in 1..Len(d)
           /\ q[Len(q)] = Label(d, Len(q)) /\ Last(q) = Label(d, Len(q))
<1>1. /\ d \in Commands /\ Len(q) \in 0..Len(d) /\ Len(d) \in Nat
      /\ \A i \in 1..Len(q) : q[i] = Label(d, i)
  BY BelowNode
<1>2. Len(q) # 0
  BY TrieNode, EmptySeq
<1>3. Len(q) \in 1..Len(d) /\ q[Len(q)] = Label(d, Len(q))
  BY <1>1, <1>2
<1> QED BY <1>1, <1>3 DEF Last

LEMMA SomeCommand ==
    ASSUME Settled, NEW q \in DOMAIN trie \ {<<>>}
    PROVE  \E d \in Below(q) : fed[d] > 0
<1>1. PICK c \in Commands : fed[c] > 0 /\ \E n \in 1..Len(c) : q = Path(c, n)
  BY SettledTrie DEF LearnedPaths
<1>2. PICK n \in 1..Len(c) : q = Path(c, n)
  BY <1>1
<1>3. n \in 0..Len(c)
  BY CommandShape
<1> QED BY <1>1, <1>2, <1>3, BelowPath

LEMMA LiteralTakes ==
    ASSUME Settled, NEW q \in DOMAIN trie \ {<<>>}, Last(q).kind = "lit"
    PROVE  Takes(Last(q), q) /\ Last(q).word \in Words
<1>1. ASSUME NEW d \in Below(q)
      PROVE  Last(q) = [kind |-> "lit", word |-> d[Len(q)]]
             /\ d[Len(q)] \in Words
  <2>1. d \in Commands /\ Len(q) \in 1..Len(d) /\ Last(q) = Label(d, Len(q))
    BY LastLabel
  <2> QED BY <2>1, WordShape DEF Label
<1>2. PICK d \in Below(q) : TRUE
  BY SomeCommand
<1>3. Last(q) \in Token /\ Last(q).word \in Words
  BY <1>1, <1>2 DEF Token, LiteralToken
<1>4. ASSUME NEW c \in Below(q)
      PROVE  TokenAccepts(Last(q), c[Len(q)], CommandType(c, Len(q)))
  <2>1. Last(q) = [kind |-> "lit", word |-> c[Len(q)]]
    BY <1>1
  <2>2. Last(q).kind = "lit" /\ Last(q).word = c[Len(q)]
    BY <2>1
  <2> QED BY <2>2 DEF TokenAccepts
<1> QED BY <1>3, <1>4 DEF Takes

LEMMA AnyTakes ==
    ASSUME Settled, NEW q \in DOMAIN trie \ {<<>>}
    PROVE  Takes(WildcardOf(AnyType, NoParam), q)
<1> DEFINE t == WildcardOf(AnyType, NoParam)
<1>1. t.kind = "wild" /\ t.type = AnyType /\ t.param = NoParam
  BY DEF WildcardOf
<1>2. t \in Token
  BY TableAssumption DEF Token, WildcardToken, WildcardOf
<1> HIDE DEF t
<1>3. ASSUME NEW d \in Below(q)
      PROVE  TokenAccepts(t, d[Len(q)], CommandType(d, Len(q)))
  <2>1. CommandType(d, Len(q)) \in Types
    BY LastLabel, WordShape
  <2>2. AnyType \in Mask[CommandType(d, Len(q))]
    BY <2>1, AnyAssumption
  <2> QED BY <1>1, <2>2 DEF TokenAccepts, WildcardAccepts, ParamMatches
<1> QED BY <1>2, <1>3 DEF Takes, t

(* A bucket: its type, and the type of each of its words.                   *)
LEMMA BucketType ==
    ASSUME Settled, NEW q \in DOMAIN trie \ {<<>>}, Last(q).kind = "wild"
    PROVE  /\ Last(q).type \in Types \ {LiteralType}
           /\ \A d \in Below(q) : CommandType(d, Len(q)) = Last(q).type
<1>1. ASSUME NEW d \in Below(q)
      PROVE  /\ CommandType(d, Len(q)) = Last(q).type
             /\ CommandType(d, Len(q)) \in Types \ {LiteralType}
  <2>1. d \in Commands /\ Len(q) \in 1..Len(d) /\ Last(q) = Label(d, Len(q))
    BY LastLabel
  <2> QED BY <2>1, WordShape DEF Label
<1>2. PICK d \in Below(q) : TRUE
  BY SomeCommand
<1> QED BY <1>1, <1>2

LEMMA TypeTakes ==
    ASSUME Settled, NEW q \in DOMAIN trie \ {<<>>}, Last(q).kind = "wild",
           NEW t \in Types \ {LiteralType}, <<Last(q).type, t>> \in Compatible
    PROVE  Takes(WildcardOf(t, NoParam), q)
<1> DEFINE k == WildcardOf(t, NoParam)
<1>1. k.kind = "wild" /\ k.type = t /\ k.param = NoParam
  BY DEF WildcardOf
<1>2. k \in Token
  BY DEF Token, WildcardToken, WildcardOf
<1> HIDE DEF k
<1>3. PICK u : u = Last(q).type
  OBVIOUS
<1>4. u \in Types \ {LiteralType} /\ \A d \in Below(q) : CommandType(d, Len(q)) = u
  BY <1>3, BucketType
<1>5. t \in Mask[u]
  BY <1>3, <1>4, JoinAssumption, UpwardAssumption
<1>6. ASSUME NEW d \in Below(q)
      PROVE  TokenAccepts(k, d[Len(q)], CommandType(d, Len(q)))
  BY <1>1, <1>4, <1>5 DEF TokenAccepts, WildcardAccepts, ParamMatches
<1> QED BY <1>2, <1>6 DEF Takes, k

LEMMA CommonTakes ==
    ASSUME Settled, NEW q \in DOMAIN trie \ {<<>>}, Last(q).kind = "wild"
    PROVE  Takes(WildcardOf(Last(q).type, CommonParam(q)), q)
<1> DEFINE m == CommonParam(q)
           k == WildcardOf(Last(q).type, m)
<1>0. PICK u : u = Last(q).type
  OBVIOUS
<1>1. u \in Types \ {LiteralType} /\ \A d \in Below(q) : CommandType(d, Len(q)) = u
  BY <1>0, BucketType
<1>2. CASE m = NoParam
  <2>1. <<u, u>> \in Compatible
    BY <1>1, CompatibleAssumption
  <2> QED BY <1>0, <1>1, <1>2, <2>1, TypeTakes
<1>3. CASE m # NoParam
  <2>1. ~trie[q].mixed /\ m = trie[q].common
    BY <1>3 DEF CommonParam
  <2>2. m \in Params
    <3>1. ExactNode(trie[q], q)
      BY SettledTrie DEF Exact
    <3>2. ExactBucket(trie[q], Last(q).type, MetadataBelow(q))
      BY <3>1 DEF ExactNode
    <3>3. MetadataBelow(q) = {m} /\ \E x \in Params : MetadataBelow(q) = {x}
      BY <2>1, <3>2, Zenon DEF ExactBucket
    <3> QED BY <3>3
  <2>3. ASSUME NEW d \in Below(q), fed[d] > 0
        PROVE  ParamType[m] = u /\ d[Len(q)] \in ParamWords[m]
    <3>1. d \in Commands /\ Len(q) \in 1..Len(d) /\ q = Path(d, Len(q))
      BY LastLabel, BelowNode
    <3>2. Meta[<<CommandType(d, Len(q)), d[Len(q)]>>] = trie[Path(d, Len(q))].common
      BY <1>1, <2>1, <2>3, <3>1, BucketMetadata
    <3>3. PICK w : w = d[Len(q)] /\ w \in Words
      BY <3>1, WordShape
    <3>4. Meta[<<u, w>>] = m
      BY <1>1, <2>1, <3>1, <3>2, <3>3
    <3> HIDE DEF m
    <3> QED BY <1>1, <1>3, <3>3, <3>4, LearnerAssumption
  <2>4. k.kind = "wild" /\ k.type = u /\ k.param = m
    BY <1>0 DEF WildcardOf
  <2>5. k \in Token
    <3>1. ParamType[m] = u
      BY <2>3, SomeCommand
    <3>2. k = [kind |-> "wild", type |-> u, param |-> m]
      BY <1>0 DEF WildcardOf
    <3> HIDE DEF m, k
    <3> QED BY <1>1, <2>2, <3>1, <3>2 DEF Token, WildcardToken
  <2>6. u \in Mask[u]
    BY <1>1, JoinAssumption
  <2> HIDE DEF k, m
  <2>7. ASSUME NEW d \in Below(q), fed[d] > 0
        PROVE  TokenAccepts(k, d[Len(q)], CommandType(d, Len(q)))
    BY <1>1, <2>3, <2>4, <2>6, <2>7 DEF TokenAccepts, WildcardAccepts, ParamMatches
  <2> QED BY <2>5, <2>7 DEF Takes, k, m
<1> QED BY <1>2, <1>3

(* Values of one option, as prefix and type. *)
CompoundOf(word, t) ==
    [kind |-> "comp", affix |-> OptionAffix[word], type |-> t, param |-> NoParam]

LEMMA CompoundTakes ==
    ASSUME Settled, NEW q \in DOMAIN trie \ {<<>>}, Last(q).kind = "lit", IsOption(q),
           NEW t \in Types \ {LiteralType}, <<CaptureType(q), t>> \in Compatible
    PROVE  Takes(CompoundOf(Last(q).word, t), q)
<1>1. PICK w : w = Last(q).word
  OBVIOUS
<1>2. w \in Words
  BY <1>1, LiteralTakes
<1> DEFINE a == OptionAffix[w]
           inner == Capture[<<a, w>>]
           k == CompoundOf(w, t)
<1>3. a # NoAffix /\ CaptureType(q) # LiteralType
  BY <1>1 DEF IsOption
<1>4. a \in Affixes /\ inner # NoCapture
  BY <1>2, <1>3, SuggestAssumption
<1>5. inner \in Words
  BY <1>2, <1>4, TableAssumption
<1>6. CaptureType(q) = Classify[<<inner, SpanContext>>]
  BY <1>1 DEF CaptureType
<1>7. PICK u : u = Classify[<<inner, SpanContext>>] /\ u \in Types
  BY <1>5, TableAssumption
<1>8. t \in Mask[u]
  BY <1>3, <1>6, <1>7, JoinAssumption, UpwardAssumption
<1>9. k.kind = "comp" /\ k.affix = a /\ k.type = t /\ k.param = NoParam
  BY DEF CompoundOf
<1>10. k \in Token
  BY <1>4 DEF Token, CompoundToken, CompoundOf
<1>11. CompoundAccepts(k, w)
  <2> HIDE DEF k
  <2> QED BY <1>4, <1>7, <1>8, <1>9 DEF CompoundAccepts, WildcardAccepts, ParamMatches
<1> HIDE DEF k, a, inner
<1>12. ASSUME NEW d \in Below(q)
       PROVE  TokenAccepts(k, d[Len(q)], CommandType(d, Len(q)))
  <2>1. Last(q) = Label(d, Len(q))
    BY LastLabel
  <2>2. w = d[Len(q)]
    BY <1>1, <2>1 DEF Label
  <2> QED BY <1>9, <1>11, <2>2 DEF TokenAccepts
<1> QED BY <1>1, <1>10, <1>12 DEF Takes, k

-------------------------------------------------------------------------------
LEMMA SupportShape ==
    ASSUME NEW p, NEW B, GoodBranches(B, p)
    PROVE  Support(B) \in Nat
<1> DEFINE w == [b \in B |-> b.count]
<1>1. IsFiniteSet(B) /\ \A b \in B : w[b] \in Nat
  BY DEF GoodBranches, GoodBranch, GoodProposal
<1>2. Support(B) = Sums(w, B)[B]
  BY <1>1, SupportSum
<1> HIDE DEF w
<1> QED BY <1>1, <1>2, SumsShape

Foremost(s, b) == b \in s /\ \A o \in s : b.count >= o.count

LEMMA DominantExists ==
    ASSUME NEW p, NEW B, GoodBranches(B, p), B # {}
    PROVE  Dominant(B) \in B
<1> DEFINE Bad == {s \in SUBSET B : s # {} /\ ~ \E b \in s : Foremost(s, b)}
<1>1. IsFiniteSet(B) /\ \A b \in B : b.count \in Nat
  BY DEF GoodBranches, GoodBranch, GoodProposal
<1>2. Bad = {}
  <2> SUFFICES ASSUME Bad # {} PROVE FALSE
    OBVIOUS
  <2>1. PICK s \in Bad : s \in SUBSET B /\ \A x \in s : s \ {x} \notin Bad
    BY <1>1, SmallestSet
  <2>2. PICK x \in s : TRUE
    BY <2>1
  <2>3. CASE s \ {x} = {}
    <3>1. \A o \in s : o = x
      BY <2>3
    <3>2. Foremost(s, x)
      BY <1>1, <2>1, <3>1 DEF Foremost
    <3> QED BY <2>1, <3>2
  <2>4. CASE s \ {x} # {}
    <3>1. PICK m \in s \ {x} : Foremost(s \ {x}, m)
      BY <2>1, <2>4
    <3>2. m.count \in Nat /\ x.count \in Nat
          /\ \A o \in s : o.count \in Nat /\ (o # x => m.count >= o.count)
      BY <1>1, <2>1, <3>1 DEF Foremost
    <3>3. CASE m.count >= x.count
      <4>1. Foremost(s, m)
        BY <3>1, <3>2, <3>3 DEF Foremost
      <4> QED BY <2>1, <4>1
    <3>4. CASE x.count >= m.count
      <4>1. Foremost(s, x)
        BY <3>2, <3>4 DEF Foremost
      <4> QED BY <2>1, <4>1
    <3> QED BY <3>2, <3>3, <3>4
  <2> QED BY <2>3, <2>4
<1>3. \E b \in B : \A o \in B : b.count >= o.count
  <2>1. PICK b \in B : Foremost(B, b)
    BY <1>2
  <2> QED BY <2>1 DEF Foremost
<1> QED BY <1>3, Zenon DEF Dominant

LEMMA SomeBranches ==
    ASSUME NEW p, NEW B, GoodBranches(B, p), NEW S \in SUBSET B
    PROVE  GoodBranches(S, p) /\ Cardinality(S) \in Nat
           /\ (Cardinality(S) # 0 => S # {})
<1>1. IsFiniteSet(S)
  BY FS_Subset DEF GoodBranches
<1> QED BY <1>1, FS_CardinalityType, FS_EmptySet DEF GoodBranches

-------------------------------------------------------------------------------
(* What is proposed for branches that continue alike.                       *)

LEMMA LiteralsGood ==
    ASSUME Settled, NEW p \in DOMAIN trie, NEW B, GoodBranches(B, p),
           NEW head \in BOOLEAN, p = <<>> => head
    PROVE  GoodProposals(LiteralProposals(B, head), p)
<1> DEFINE L == Literals(B)
           one == CHOOSE b \in L : TRUE
           joined == JoinAll({CaptureType(b.child) : b \in L})
           comp == CompoundOf(Last(one.child).word, joined)
           token == IF Typeds(B) = {} /\ SameOption(L)
                    THEN comp ELSE WildcardOf(AnyType, NoParam)
           each == [b \in L |-> Alone(Last(b.child), b)]
           merged == Proposal(token, one, Support(B), TRUE)
<1>1. L \in SUBSET B /\ \A b \in L : GoodBranch(b, p) /\ Last(b.child).kind = "lit"
  BY DEF Literals, GoodBranches
<1>2. IsFiniteSet(L) /\ Cardinality(L) \in Nat /\ (Cardinality(L) # 0 => L # {})
  BY <1>1, SomeBranches DEF GoodBranches
<1>3. LiteralProposals(B, head)
         = IF Cardinality(L) < 2 \/ head THEN {each[b] : b \in L} ELSE {merged}
  <2>1. {each[b] : b \in L} = {Alone(Last(b.child), b) : b \in L}
    OBVIOUS
  <2>2. LiteralProposals(B, head)
           = IF Cardinality(L) < 2 \/ head
             THEN {Alone(Last(b.child), b) : b \in L} ELSE {merged}
    BY Zenon DEF LiteralProposals, CompoundOf
  <2> QED BY <2>1, <2>2, Zenon
<1>4. \A b \in L : b.child \in DOMAIN trie \ {<<>>}
  BY <1>1, ChildShape DEF GoodBranch
<1>5. ASSUME NEW b \in L PROVE GoodProposal(each[b], p)
  <2>1. Takes(Last(b.child), b.child) /\ GoodBranch(b, p) /\ Last(b.child).kind # "comp"
    BY <1>1, <1>4, LiteralTakes
  <2> QED BY <2>1, AloneGood
<1>6. Support(B) \in Nat
  BY SupportShape
<1>7. CASE Cardinality(L) < 2 \/ head
  <2> HIDE DEF each
  <2>1. IsFiniteSet({each[b] : b \in L})
    BY <1>2, ImageFinite
  <2>2. LiteralProposals(B, head) = {each[b] : b \in L}
    BY <1>3, <1>7
  <2> HIDE DEF L
  <2> QED BY <1>5, <2>1, <2>2 DEF GoodProposals
<1>8. CASE ~(Cardinality(L) < 2 \/ head)
  <2>1. one \in L
    BY <1>2, <1>8
  <2>2. /\ GoodBranch(one, p) /\ Last(one.child).kind = "lit"
        /\ one.child \in DOMAIN trie \ {<<>>}
    BY <1>1, <1>4, <2>1
  <2>3. ASSUME SameOption(L) PROVE Takes(comp, one.child)
    <3> DEFINE f == [b \in L |-> CaptureType(b.child)]
               S == {f[b] : b \in L}
    <3>1. IsFiniteSet(S)
      BY <1>2, ImageFinite
    <3>2. ASSUME NEW b \in L
          PROVE  f[b] \in Types \ {LiteralType} /\ IsOption(b.child)
      <4>1. IsOption(b.child)
        BY <2>3 DEF SameOption
      <4>2. PICK w : w = Last(b.child).word /\ w \in Words
        BY <1>1, <1>4, LiteralTakes
      <4>3. OptionAffix[w] # NoAffix /\ f[b] # LiteralType
        BY <4>1, <4>2 DEF IsOption
      <4>4. OptionAffix[w] \in Affixes /\ Capture[<<OptionAffix[w], w>>] # NoCapture
        BY <4>2, <4>3, SuggestAssumption
      <4>5. Capture[<<OptionAffix[w], w>>] \in Words
        BY <4>2, <4>4, TableAssumption
      <4>6. f[b] = Classify[<<Capture[<<OptionAffix[w], w>>], SpanContext>>]
        BY <4>2 DEF CaptureType
      <4>7. f[b] \in Types
        BY <4>5, <4>6, TableAssumption
      <4> QED BY <4>1, <4>3, <4>7
    <3>3. S \in SUBSET (Types \ {LiteralType})
      BY <3>2
    <3>4. f[one] \in S /\ f[one] = CaptureType(one.child)
      BY <2>1
    <3>5. S = {CaptureType(b.child) : b \in L}
      OBVIOUS
    <3>6. joined = JoinAll(S)
      BY <3>5, Zenon
    <3> HIDE DEF S, joined, one
    <3>7. Joined(S, joined)
      BY <3>1, <3>3, <3>6, JoinAllCovers
    <3>8. joined \in Types \ {LiteralType} /\ <<CaptureType(one.child), joined>> \in Compatible
      BY <3>4, <3>7 DEF Joined
    <3> QED BY <2>1, <2>2, <3>2, <3>8, CompoundTakes
  <2>4. Takes(token, one.child)
    <3>1. CASE Typeds(B) = {} /\ SameOption(L)
      BY <2>3, <3>1, Zenon
    <3>2. CASE ~(Typeds(B) = {} /\ SameOption(L))
      <4>1. token = WildcardOf(AnyType, NoParam)
        BY <3>2, Zenon
      <4> QED BY <2>2, <4>1, AnyTakes
    <3> QED BY <3>1, <3>2
  <2> HIDE DEF one, token
  <2>5. GoodProposal(merged, p)
    BY <1>6, <1>8, <2>2, <2>4, ProposalGood
  <2>6. LiteralProposals(B, head) = {merged}
    BY <1>3, <1>8
  <2> HIDE DEF merged
  <2> QED BY <2>5, <2>6, FS_Singleton DEF GoodProposals
<1> QED BY <1>7, <1>8

LEMMA TypedsGood ==
    ASSUME Settled, NEW p \in DOMAIN trie, NEW B, GoodBranches(B, p)
    PROVE  GoodProposals(TypedProposals(B), p)
<1> DEFINE T == Typeds(B)
           top == Dominant(T)
           known == WildcardOf(TypeOf(top), CommonParam(top.child))
           cover == JoinAll({TypeOf(b) : b \in T})
           joined == WildcardOf(cover, NoParam)
<1>1. T \in SUBSET B /\ \A b \in T : GoodBranch(b, p) /\ Last(b.child).kind = "wild"
  BY DEF Typeds, GoodBranches
<1>2. GoodBranches(T, p) /\ Cardinality(T) \in Nat /\ (Cardinality(T) # 0 => T # {})
  BY <1>1, SomeBranches
<1>3. CASE T = {}
  <2>1. TypedProposals(B) = {}
    <3>1. Cardinality(T) # 1
      BY <1>3, FS_EmptySet
    <3> QED BY <1>3, <3>1, Zenon DEF TypedProposals
  <2> QED BY <2>1, FS_EmptySet DEF GoodProposals
<1>4. CASE T # {}
  <2>1. top \in T
    BY <1>2, <1>4, DominantExists
  <2>2. /\ GoodBranch(top, p) /\ Last(top.child).kind = "wild" /\ top.count \in Nat
        /\ top.child \in DOMAIN trie \ {<<>>}
    BY <1>1, <2>1, ChildShape DEF GoodBranch, GoodProposal
  <2>3. Takes(known, top.child)
    <3> HIDE DEF top
    <3> QED BY <2>2, CommonTakes DEF TypeOf
  <2>4. Takes(joined, top.child)
    <3> DEFINE f == [b \in T |-> TypeOf(b)]
               S == {f[b] : b \in T}
    <3>1. IsFiniteSet(S)
      BY <1>2, ImageFinite DEF GoodBranches
    <3>2. \A b \in T : f[b] \in Types \ {LiteralType}
      <4>1. \A b \in T : b.child \in DOMAIN trie \ {<<>>}
        BY <1>1, ChildShape DEF GoodBranch
      <4> QED BY <1>1, <4>1, BucketType DEF TypeOf
    <3>3. S \in SUBSET (Types \ {LiteralType})
      BY <3>2
    <3>4. f[top] \in S /\ f[top] = Last(top.child).type
      BY <2>1 DEF TypeOf
    <3>5. S = {TypeOf(b) : b \in T}
      OBVIOUS
    <3>6. cover = JoinAll(S)
      BY <3>5, Zenon
    <3> HIDE DEF S, cover, top
    <3>7. Joined(S, cover)
      BY <3>1, <3>3, <3>6, JoinAllCovers
    <3>8. cover \in Types \ {LiteralType} /\ <<Last(top.child).type, cover>> \in Compatible
      BY <3>4, <3>7 DEF Joined
    <3> QED BY <2>2, <3>8, TypeTakes
  <2>5. Support(T) \in Nat
    BY <1>2, SupportShape
  <2>6. TypedProposals(B)
           \in {{Alone(known, top)}, {Proposal(known, top, top.count, TRUE)},
                {Proposal(joined, top, Support(T), TRUE)}}
    <3>1. CASE Cardinality(T) = 1
      <4>1. TypedProposals(B) = {Alone(known, top)}
        BY <1>4, <3>1, Zenon DEF TypedProposals
      <4> QED BY <4>1, Zenon
    <3>2. CASE Cardinality(T) # 1
      <4>1. TypedProposals(B)
               = IF top.count * 10 >= Support(T) * 7
                 THEN {Proposal(known, top, top.count, TRUE)}
                 ELSE {Proposal(joined, top, Support(T), TRUE)}
        BY <1>4, <3>2, Zenon DEF TypedProposals
      <4> QED BY <4>1, Zenon
    <3> QED BY <3>1, <3>2
  <2>7. known.kind # "comp" /\ joined.kind # "comp"
    BY DEF WildcardOf
  <2> HIDE DEF known, joined, top, T
  <2>8. GoodProposal(Alone(known, top), p)
    BY <2>2, <2>3, <2>7, AloneGood
  <2>9. GoodProposal(Proposal(known, top, top.count, TRUE), p)
    BY <2>2, <2>3, <2>7, ProposalGood
  <2>10. GoodProposal(Proposal(joined, top, Support(T), TRUE), p)
    BY <2>2, <2>4, <2>5, <2>7, ProposalGood
  <2>11. PICK x : TypedProposals(B) = {x} /\ GoodProposal(x, p)
    BY <2>6, <2>8, <2>9, <2>10, Zenon
  <2> QED BY <2>11, FS_Singleton DEF GoodProposals
<1> QED BY <1>3, <1>4

LEMMA GroupGood ==
    ASSUME Settled, NEW p \in DOMAIN trie, NEW B, GoodBranches(B, p),
           NEW head \in BOOLEAN, p = <<>> => head
    PROVE  GoodProposals(GroupProposals(B, head), p)
<1> DEFINE l == LiteralProposals(B, head)
           t == IF Cardinality(Literals(B)) >= 2 /\ ~head THEN {} ELSE TypedProposals(B)
<1>1. GoodProposals(l, p)
  BY LiteralsGood
<1>2. GoodProposals(t, p)
  BY TypedsGood, FS_EmptySet DEF GoodProposals
<1>3. GroupProposals(B, head) = l \cup t
  BY DEF GroupProposals
<1> HIDE DEF l, t
<1> QED BY <1>1, <1>2, <1>3, FS_Union DEF GoodProposals

(* The proposals of a node, from those of its children. *)
LEMMA BranchesGood ==
    ASSUME Settled, NEW p \in DOMAIN trie, NEW f, \A q \in Children(p) : GoodProposals(f[q], q)
    PROVE  GoodBranches(Branches(f, p), p)
<1> DEFINE R == Children(p)
           of(q) == {[child |-> q, rule |-> c.rule, count |-> c.count,
                      depth |-> c.depth] : c \in f[q]}
           F == [q \in R |-> of(q)]
<1>1. IsFiniteSet(R)
  <2>1. R \in SUBSET DOMAIN trie
    BY DEF Children
  <2> QED BY <2>1, TrieFinite, FS_Subset
<1>2. ASSUME NEW q \in R PROVE GoodBranches(F[q], p)
  <2> DEFINE C == f[q]
             g == [c \in C |-> [child |-> q, rule |-> c.rule, count |-> c.count,
                                depth |-> c.depth]]
  <2>1. IsFiniteSet(C) /\ \A c \in C : GoodProposal(c, q)
    BY DEF GoodProposals
  <2>2. F[q] = {g[c] : c \in C}
    OBVIOUS
  <2>3. \A c \in C : GoodBranch(g[c], p)
    <3> SUFFICES ASSUME NEW c \in C PROVE GoodBranch(g[c], p)
      OBVIOUS
    <3>1. GoodProposal(c, q)
      BY <2>1
    <3>2. g[c].child = q /\ g[c].rule = c.rule /\ g[c].count = c.count
          /\ g[c].depth = c.depth
      OBVIOUS
    <3> QED BY <3>1, <3>2 DEF GoodBranch, GoodProposal
  <2> HIDE DEF C, g, F
  <2>4. IsFiniteSet({g[c] : c \in C})
    BY <2>1, ImageFinite
  <2> QED BY <2>2, <2>3, <2>4 DEF GoodBranches
<1>3. Branches(f, p) = UNION {F[q] : q \in R}
  BY DEF Branches
<1> HIDE DEF R, F, of
<1>4. IsFiniteSet({F[q] : q \in R})
  BY <1>1, ImageFinite
<1>5. IsFiniteSet(UNION {F[q] : q \in R})
  BY <1>2, <1>4, FS_UNION DEF GoodBranches
<1> QED BY <1>2, <1>3, <1>5 DEF GoodBranches

LEMMA GroupedGood ==
    ASSUME Settled, NEW p \in DOMAIN trie, NEW B, GoodBranches(B, p)
    PROVE  GoodProposals(Grouped(B, p), p)
<1> DEFINE r == [b \in B |-> b.rule]
           S == {r[b] : b \in B}
           F == [s \in S |-> GroupProposals({b \in B : b.rule = s}, p = <<>>)]
<1>1. IsFiniteSet(S)
  BY ImageFinite DEF GoodBranches
<1>2. \A s \in S : GoodProposals(F[s], p)
  <2> SUFFICES ASSUME NEW s \in S PROVE GoodProposals(F[s], p)
    OBVIOUS
  <2>1. {b \in B : b.rule = s} \in SUBSET B /\ (p = <<>>) \in BOOLEAN
    OBVIOUS
  <2>2. GoodBranches({b \in B : b.rule = s}, p)
    BY <2>1, SomeBranches
  <2>3. GoodProposals(GroupProposals({b \in B : b.rule = s}, p = <<>>), p)
    BY <2>1, <2>2, GroupGood
  <2> QED BY <2>3
<1>3. Grouped(B, p) = UNION {F[s] : s \in S}
  <2>1. S = {b.rule : b \in B}
    OBVIOUS
  <2>2. {F[s] : s \in S} = {GroupProposals({b \in B : b.rule = s}, p = <<>>) : s \in S}
    OBVIOUS
  <2> QED BY <2>1, <2>2, Zenon DEF Grouped
<1> HIDE DEF r, S, F
<1>4. IsFiniteSet({F[s] : s \in S})
  BY <1>1, ImageFinite
<1>5. IsFiniteSet(UNION {F[s] : s \in S})
  BY <1>2, <1>4, FS_UNION DEF GoodProposals
<1> QED BY <1>2, <1>3, <1>5 DEF GoodProposals

LEMMA EndedGood ==
    ASSUME Settled, NEW p \in DOMAIN trie
    PROVE  GoodProposals(Ended(p), p)
<1> DEFINE c == [rule |-> <<>>, count |-> Terminal(p), depth |-> 0]
<1>1. CASE Terminal(p) = 0
  <2>1. Ended(p) = {}
    BY <1>1 DEF Ended
  <2> QED BY <2>1, FS_EmptySet DEF GoodProposals
<1>2. CASE Terminal(p) # 0
  <2>1. /\ Terminal(p) = Fed(Ends(p)) /\ Terminal(p) \in Nat
        /\ Ends(p) \in SUBSET Commands /\ fed \in [Commands -> Nat]
    BY TerminalExact, SettledTrie
  <2>2. Fed(Ends(p)) = 0 <=> \A x \in Ends(p) : fed[x] = 0
    BY <2>1, FedShape
  <2>3. PICK d \in Ends(p) : fed[d] # 0
    BY <1>2, <2>1, <2>2
  <2>4. d \in Commands /\ fed[d] \in Nat /\ fed[d] > 0
    BY <2>1, <2>3
  <2>5. Len(<<>>) = 0 /\ <<>> \in Seq(Token) /\ Len(p) \in Nat
    BY TrieNode
  <2>6. d \in Below(p) /\ Len(d) = Len(p) + Len(<<>>)
    BY <2>3, <2>5 DEF Ends
  <2>7. Continues(d, p, <<>>)
    BY <2>4, <2>5, <2>6 DEF Continues
  <2>8. c.rule = <<>> /\ c.count = Terminal(p) /\ c.depth = 0
    OBVIOUS
  <2> HIDE DEF c
  <2>9. GoodProposal(c, p)
    BY <2>1, <2>4, <2>5, <2>7, <2>8 DEF GoodProposal, GoodRule, HeadPlain
  <2>10. Ended(p) = {c}
    BY <1>2 DEF Ended, c
  <2> QED BY <2>9, <2>10, FS_Singleton DEF GoodProposals
<1> QED BY <1>1, <1>2

LEMMA ContinuationsGood ==
    ASSUME Settled
    PROVE  \A p \in DOMAIN trie : GoodProposals(Continuations[p], p)
<1> DEFINE Wrong == {p \in DOMAIN trie : ~GoodProposals(Continuations[p], p)}
           Bad == {Height(p) : p \in Wrong}
<1> SUFFICES ASSUME Wrong # {} PROVE FALSE
  OBVIOUS
<1>1. Bad \in SUBSET Nat /\ Bad # {}
  BY HeightShape
<1>2. PICK n \in Bad : \A m \in Bad : n <= m
  BY <1>1, Least
<1>3. PICK p \in Wrong : Height(p) = n
  BY <1>2
<1>4. \A q \in Children(p) : GoodProposals(Continuations[q], q)
  <2> SUFFICES ASSUME NEW q \in Children(p), ~GoodProposals(Continuations[q], q)
               PROVE  FALSE
    OBVIOUS
  <2>1. q \in DOMAIN trie /\ Height(q) < Height(p) /\ Height(q) \in Nat
        /\ Height(p) \in Nat
    BY ChildLower, HeightShape
  <2>2. Height(q) \in Bad
    BY <2>1
  <2> QED BY <1>2, <1>3, <2>1, <2>2
<1>5. GoodProposals(Grouped(Branches(Continuations, p), p), p)
  BY <1>4, BranchesGood, GroupedGood
<1>6. Continuations[p] = Ended(p) \cup Grouped(Branches(Continuations, p), p)
  BY ContinuationsDef DEF Continued
<1>7. GoodProposals(Ended(p), p)
  BY EndedGood
<1>8. GoodProposals(Continuations[p], p)
  BY <1>5, <1>6, <1>7, FS_Union DEF GoodProposals
<1> QED BY <1>8

-------------------------------------------------------------------------------
(* The counts of what is published.                                         *)

(* A token without a parameter that tells values apart.                     *)
Loosened(t) == IF t.kind # "lit" /\ t.param \in ValueParams
               THEN [t EXCEPT !.param = NoParam] ELSE t

LEMMA LoosenedToken ==
    ASSUME NEW t \in Token
    PROVE  /\ Loosened(t) \in Token /\ Loosened(t).kind = t.kind
           /\ t.kind = "wild" => Loosened(t).type = t.type
           /\ \A word, type : TokenAccepts(t, word, type)
                                => TokenAccepts(Loosened(t), word, type)
<1> DEFINE u == [t EXCEPT !.param = NoParam]
<1>1. CASE ~(t.kind # "lit" /\ t.param \in ValueParams)
  <2>1. Loosened(t) = t
    BY <1>1 DEF Loosened
  <2> QED BY <2>1
<1>2. CASE t.kind # "lit" /\ t.param \in ValueParams
  <2>1. Loosened(t) = u
    BY <1>2 DEF Loosened
  <2>2. CASE t \in WildcardToken
    <3>1. u = [kind |-> "wild", type |-> t.type, param |-> NoParam]
          /\ t.kind = "wild" /\ t.type \in Types \ {LiteralType}
      BY <2>2 DEF WildcardToken
    <3>2. u \in WildcardToken /\ u.kind = "wild" /\ u.type = t.type /\ u.param = NoParam
      BY <3>1 DEF WildcardToken
    <3> HIDE DEF u
    <3>3. ASSUME NEW word, NEW type, TokenAccepts(t, word, type)
          PROVE  TokenAccepts(u, word, type)
      <4>1. WildcardAccepts(t, word, type)
        BY <3>1, <3>3 DEF TokenAccepts
      <4>2. WildcardAccepts(u, word, type)
        BY <3>2, <4>1 DEF WildcardAccepts, ParamMatches
      <4> QED BY <3>2, <4>2 DEF TokenAccepts
    <3> QED BY <2>1, <3>1, <3>2, <3>3 DEF Token
  <2>3. CASE t \in CompoundToken
    <3>1. u = [kind |-> "comp", affix |-> t.affix, type |-> t.type, param |-> NoParam]
          /\ t.kind = "comp" /\ t.affix \in Affixes /\ t.type \in Types \ {LiteralType}
      BY <2>3 DEF CompoundToken
    <3>2. /\ u \in CompoundToken /\ u.kind = "comp" /\ u.affix = t.affix
          /\ u.type = t.type /\ u.param = NoParam
      BY <3>1 DEF CompoundToken
    <3> HIDE DEF u
    <3>3. ASSUME NEW word, NEW type, TokenAccepts(t, word, type)
          PROVE  TokenAccepts(u, word, type)
      <4>1. CompoundAccepts(t, word)
        BY <3>1, <3>3 DEF TokenAccepts
      <4>2. CompoundAccepts(u, word)
        BY <3>2, <4>1 DEF CompoundAccepts, WildcardAccepts, ParamMatches
      <4> QED BY <3>2, <4>2 DEF TokenAccepts
    <3> QED BY <2>1, <3>1, <3>2, <3>3 DEF Token
  <2>4. t \notin LiteralToken
    BY <1>2 DEF LiteralToken
  <2> QED BY <2>2, <2>3, <2>4 DEF Token
<1> QED BY <1>1, <1>2

LEMMA FallbackGood ==
    ASSUME NEW rule, GoodRule(rule)
    PROVE  /\ GoodRule(Fallback(rule)) /\ Len(Fallback(rule)) = Len(rule)
           /\ \A i \in 1..Len(rule) : Fallback(rule)[i] = Loosened(rule[i])
<1> DEFINE n == Len(rule)
           f == Fallback(rule)
<1>1. n \in Nat /\ \A i \in 1..n : rule[i] \in Token
  BY GoodRuleShape
<1>2. f = [i \in 1..n |-> Loosened(rule[i])]
  BY DEF Fallback, Loosened
<1>3. \A i \in 1..n : Loosened(rule[i]) \in Token
  BY <1>1, LoosenedToken
<1> HIDE DEF f, n
<1>4. f \in [1..n -> Token] /\ \A i \in 1..n : f[i] = Loosened(rule[i])
  BY <1>2, <1>3
<1>5. f \in Seq(Token) /\ Len(f) = n
  BY <1>1, <1>4, SeqDef, LenProperties
<1> QED BY <1>4, <1>5 DEF GoodRule, f, n

(* What is published for a proposal accepts one of the commands learned.    *)
Witnessed(rule) == \E d \in Commands : fed[d] > 0 /\ Matches(rule, d)

Publishable(rule) == GoodRule(rule) /\ HeadPlain(rule) /\ Witnessed(rule)

LEMMA ProposalPublishable ==
    ASSUME Settled, NEW c, GoodProposal(c, <<>>)
    PROVE  Publishable(c.rule)
<1>1. PICK d \in Commands : Continues(d, <<>>, c.rule)
  BY DEF GoodProposal
<1>2. GoodRule(c.rule) /\ HeadPlain(c.rule) /\ Len(c.rule) \in Nat
  BY GoodRuleShape DEF GoodProposal
<1>3. Len(<<>>) = 0
  OBVIOUS
<1>4. /\ fed[d] > 0 /\ Len(d) = Len(c.rule)
      /\ \A i \in 1..Len(c.rule) : TokenAccepts(c.rule[i], d[i], CommandType(d, i))
  BY <1>1, <1>2, <1>3 DEF Continues
<1>5. Matches(c.rule, d)
  BY <1>4 DEF Matches
<1> QED BY <1>2, <1>4, <1>5 DEF Publishable, Witnessed

LEMMA FallbackPublishable ==
    ASSUME NEW rule, Publishable(rule)
    PROVE  /\ Publishable(Fallback(rule)) /\ Len(Fallback(rule)) = Len(rule)
           /\ rule # <<>> /\ HeadAllowed(rule) => HeadAllowed(Fallback(rule))
<1> DEFINE f == Fallback(rule)
<1>1. GoodRule(rule) /\ Len(rule) \in Nat /\ \A i \in 1..Len(rule) : rule[i] \in Token
  BY GoodRuleShape DEF Publishable
<1>2. /\ GoodRule(f) /\ Len(f) = Len(rule)
      /\ \A i \in 1..Len(rule) : f[i] = Loosened(rule[i])
  BY <1>1, FallbackGood
<1> HIDE DEF f
<1>3. PICK d \in Commands : fed[d] > 0 /\ Matches(rule, d)
  BY DEF Publishable, Witnessed
<1>4. Matches(f, d)
  BY <1>1, <1>2, <1>3, LoosenedToken DEF Matches
<1>5. rule # <<>> => 1 \in 1..Len(rule)
  BY <1>1, EmptySeq DEF GoodRule
<1>6. rule # <<>> => f[1] = Loosened(rule[1]) /\ rule[1] \in Token
  BY <1>1, <1>2, <1>5
<1>7. f # <<>> => rule # <<>>
  BY <1>1, <1>2, EmptySeq DEF GoodRule
<1>8. HeadPlain(f)
  BY <1>6, <1>7, LoosenedToken DEF HeadPlain, Publishable
<1>9. rule # <<>> /\ HeadAllowed(rule) => HeadAllowed(f)
  BY <1>6, LoosenedToken DEF HeadAllowed
<1> QED BY <1>2, <1>3, <1>4, <1>8, <1>9 DEF Publishable, Witnessed, f

(* An entry of Accounted: its rule and its numbers. *)
GoodEntry(s) ==
    /\ Publishable(s.rule) /\ HeadAllowed(s.rule)
    /\ s.support = Fed(Matching(s.rule))
    /\ s.scope = Fed(Starting(s.rule, s.depth))

LEMMA PublishedGood ==
    ASSUME Settled, NEW c, GoodProposal(c, <<>>), c.rule # <<>>, HeadAllowed(c.rule),
           NEW s \in Published(c)
    PROVE  GoodEntry(s)
<1> DEFINE rule == IF Unknown(c.rule, c.depth) THEN Fallback(c.rule) ELSE c.rule
<1>1. Publishable(c.rule) /\ c.depth \in 0..Len(c.rule)
  BY ProposalPublishable DEF GoodProposal
<1>2. Publishable(rule) /\ c.depth \in 0..Len(rule) /\ HeadAllowed(rule)
  BY <1>1, FallbackPublishable
<1>3. Published(c) = IF Unknown(rule, c.depth) \/ ScopeOf(rule, c.depth) = 0 THEN {}
                     ELSE {Counts(rule, c.depth)}
  BY Zenon DEF Published
<1> HIDE DEF rule
<1>4. ~Unknown(rule, c.depth) /\ s = Counts(rule, c.depth)
  BY <1>3
<1>5. GoodRule(rule)
  BY <1>2 DEF Publishable
<1>6. SupportOf(rule) = Fed(Matching(rule)) /\ ScopeOf(rule, c.depth) = Fed(Starting(rule, c.depth))
  BY <1>2, <1>4, <1>5, SupportOfExact, ScopeExact
<1>7. /\ s.rule = rule /\ s.depth = c.depth
      /\ s.support = SupportOf(rule) /\ s.scope = ScopeOf(rule, c.depth)
  BY <1>4 DEF Counts
<1> QED BY <1>2, <1>6, <1>7 DEF GoodEntry

LEMMA AccountedGood ==
    ASSUME Settled
    PROVE  \A s \in Accounted : GoodEntry(s)
<1> SUFFICES ASSUME NEW s \in Accounted PROVE GoodEntry(s)
  OBVIOUS
<1>1. <<>> \in DOMAIN trie
  BY SettledTrie DEF IsTrie
<1>2. PICK c \in Proposals : s \in Published(c)
  BY DEF Accounted
<1>3. /\ c \in Continuations[<<>>] /\ c.rule # <<>>
      /\ ~(c.rule[1].kind = "wild" /\ c.rule[1].type = AnyType)
  BY <1>2 DEF Proposals
<1>4. GoodProposal(c, <<>>)
  BY <1>1, <1>3, ContinuationsGood DEF GoodProposals
<1>5. HeadPlain(c.rule)
  BY <1>4 DEF GoodProposal
<1>6. HeadAllowed(c.rule)
  BY <1>3, <1>5 DEF HeadAllowed, HeadPlain
<1> QED BY <1>2, <1>3, <1>4, <1>6, PublishedGood

LEMMA LearnedMatching ==
    ASSUME NEW rule
    PROVE  LearnedWhere(LAMBDA x : Matches(rule, x)) = Fed(Matching(rule))
<1>1. Matching(rule) \in SUBSET Commands
  BY DEF Matching
<1>2. LearnedWhere(LAMBDA x : Matches(rule, x))
         = MapThenSumSet(LAMBDA x : fed[x], Matching(rule))
  BY Zenon DEF LearnedWhere, Matching
<1> QED BY <1>1, <1>2, FedWhere, Zenon

LEMMA LearnedStarting ==
    ASSUME NEW rule, NEW depth
    PROVE  LearnedWhere(LAMBDA x : PrefixMatches(rule, depth, x))
              = Fed(Starting(rule, depth))
<1>1. Starting(rule, depth) \in SUBSET Commands
  BY DEF Starting
<1>2. LearnedWhere(LAMBDA x : PrefixMatches(rule, depth, x))
         = MapThenSumSet(LAMBDA x : fed[x], Starting(rule, depth))
  BY Zenon DEF LearnedWhere, Starting
<1> QED BY <1>1, <1>2, FedWhere, Zenon

(* In every state, the numbers shown for a proposal are those of the        *)
(* commands that were fed, although the trie forgot their texts             *)
(* (account_candidate_support).                                             *)
THEOREM LearnerSupportExact == LearnerSpec => []SupportExact
<1>1. TInv => SupportExact
  <2> SUFFICES ASSUME TInv, Idle, NEW s \in Accounted
               PROVE  /\ s.support = LearnedWhere(LAMBDA c : Matches(s.rule, c))
                      /\ s.scope = LearnedWhere(LAMBDA c : PrefixMatches(s.rule, s.depth, c))
    BY DEF SupportExact
  <2>1. GoodEntry(s)
    BY AccountedGood DEF Settled
  <2>2. s.support = Fed(Matching(s.rule)) /\ s.scope = Fed(Starting(s.rule, s.depth))
    BY <2>1 DEF GoodEntry
  <2>3. LearnedWhere(LAMBDA x : Matches(s.rule, x)) = Fed(Matching(s.rule))
    BY LearnedMatching, Zenon
  <2>4. LearnedWhere(LAMBDA x : PrefixMatches(s.rule, s.depth, x))
           = Fed(Starting(s.rule, s.depth))
    BY LearnedStarting, Zenon
  <2> QED BY <2>2, <2>3, <2>4, Zenon
<1> QED BY <1>1, LearnerTInv, PTL

-------------------------------------------------------------------------------
(* What a user is shown.                                                    *)

LEMMA EqualScopes ==
    ASSUME NEW n \in Nat, n > 0, NEW x \in Nat, NEW y \in Nat,
           ~(n * x > n * y), ~(n * y > n * x)
    PROVE  x = y
<1>1. n * (x - y) = 0
  OBVIOUS
<1> QED BY <1>1

LEMMA WitnessedSupport ==
    ASSUME Settled, NEW rule, Witnessed(rule)
    PROVE  Fed(Matching(rule)) \in Nat /\ Fed(Matching(rule)) > 0
<1>1. Matching(rule) \in SUBSET Commands /\ fed \in [Commands -> Nat]
  BY SettledTrie DEF Matching
<1>2. PICK d \in Matching(rule) : fed[d] > 0
  BY DEF Witnessed, Matching
<1>3. Fed(Matching(rule)) # 0
  BY <1>1, <1>2, FedShape
<1>4. Fed(Matching(rule)) \in Nat
  BY <1>1, FedShape
<1> QED BY <1>3, <1>4

(* The entry a suggestion is made from.                                     *)
Shown(s, c) ==
    /\ c \in Accounted /\ c.support >= config.min_support /\ c.rule \notin blacklist
    /\ s.rule = c.rule /\ s.support = c.support /\ s.scope = c.scope
    /\ s = [rule |-> c.rule, support |-> c.support, scope |-> c.scope]

LEMMA SuggestionShown ==
    /\ \A s \in Suggestions : \E c : Shown(s, c)
    /\ \A s, o \in Suggestions : o.rule = s.rule =>
          \E c, e : Shown(s, c) /\ Shown(o, e) /\ ~Better(c, e) /\ ~Better(e, c)
<1> DEFINE eligible ==
               {c \in Accounted :
                   /\ c.support >= config.min_support
                   /\ c.support * config.min_confidence[2]
                         >= c.scope * config.min_confidence[1]
                   /\ c.rule \notin blacklist}
           best == {c \in eligible :
                       \A o \in eligible : o.rule = c.rule => ~Better(o, c)}
           most == {b \in best : Cardinality({o \in best : Better(o, b)})
                                   < config.max_suggestions}
           Entry(c) == [rule |-> c.rule, support |-> c.support, scope |-> c.scope]
<1>1. Suggestions = {Entry(c) : c \in most}
  BY Zenon DEF Suggestions
<1>2. \A c \in most : c \in best
  OBVIOUS
<1> HIDE DEF most
<1>3. \A c \in best : c \in eligible /\ \A o \in eligible : o.rule = c.rule => ~Better(o, c)
  OBVIOUS
<1> HIDE DEF best
<1>4. \A c \in eligible : c \in Accounted /\ c.support >= config.min_support
                          /\ c.rule \notin blacklist
  OBVIOUS
<1> HIDE DEF eligible
<1>5. ASSUME NEW s \in Suggestions
      PROVE  \E c \in best : Shown(s, c)
  <2>1. PICK c \in most : s = Entry(c)
    BY <1>1
  <2>2. c \in best /\ c \in eligible
    BY <1>2, <1>3
  <2>3. s.rule = c.rule /\ s.support = c.support /\ s.scope = c.scope
    BY <2>1
  <2> QED BY <1>4, <2>1, <2>2, <2>3 DEF Shown
<1>6. ASSUME NEW s \in Suggestions, NEW o \in Suggestions, o.rule = s.rule
      PROVE  \E c, e : Shown(s, c) /\ Shown(o, e) /\ ~Better(c, e) /\ ~Better(e, c)
  <2>1. PICK c \in best : Shown(s, c)
    BY <1>5
  <2>2. PICK e \in best : Shown(o, e)
    BY <1>5
  <2>3. e.rule = c.rule
    BY <1>6, <2>1, <2>2 DEF Shown
  <2>4. ~Better(c, e) /\ ~Better(e, c)
    BY <1>3, <2>3
  <2> QED BY <2>1, <2>2, <2>4
<1> QED BY <1>5, <1>6

(* In every state, a suggestion can be added to a policy as it stands, is   *)
(* shown once, was not blacklisted and accepts at least min_support of the  *)
(* commands that were fed (st_learner_suggest).                             *)
THEOREM LearnerSuggestionsUsable == LearnerSpec => []SuggestionsUsable
<1>1. TInv => SuggestionsUsable
  <2> SUFFICES ASSUME TInv, Idle, NEW s \in Suggestions
               PROVE  /\ s.rule \in Seq(Token) \ blacklist /\ HeadAllowed(s.rule)
                      /\ LearnedWhere(LAMBDA c : Matches(s.rule, c)) >= config.min_support
                      /\ \A o \in Suggestions : o.rule = s.rule => o = s
    BY DEF SuggestionsUsable
  <2>1. Settled /\ \A c \in Accounted : GoodEntry(c)
    BY AccountedGood DEF Settled
  <2>2. PICK c : Shown(s, c)
    BY SuggestionShown
  <2>3. GoodEntry(c) /\ c.rule = s.rule
    BY <2>1, <2>2 DEF Shown
  <2>4. s.rule \in Seq(Token) \ blacklist /\ HeadAllowed(s.rule)
    BY <2>2, <2>3 DEF GoodEntry, Publishable, GoodRule, Shown
  <2>5. LearnedWhere(LAMBDA x : Matches(s.rule, x)) >= config.min_support
    <3>1. c.support >= config.min_support
      BY <2>2 DEF Shown
    <3>2. c.support = Fed(Matching(s.rule))
      BY <2>3 DEF GoodEntry
    <3>3. LearnedWhere(LAMBDA x : Matches(s.rule, x)) = Fed(Matching(s.rule))
      BY LearnedMatching, Zenon
    <3> QED BY <3>1, <3>2, <3>3, Zenon
  <2>6. ASSUME NEW o \in Suggestions, o.rule = s.rule
        PROVE  o = s
    <3>1. PICK a, e : Shown(s, a) /\ Shown(o, e) /\ ~Better(a, e) /\ ~Better(e, a)
      BY <2>6, SuggestionShown
    <3>2. GoodEntry(a) /\ GoodEntry(e) /\ a.rule = e.rule
      BY <2>1, <2>6, <3>1 DEF Shown
    <3>3. a.support = Fed(Matching(a.rule)) /\ e.support = a.support /\ Witnessed(a.rule)
      BY <3>2 DEF GoodEntry, Publishable
    <3>4. PICK n \in Nat : n = a.support /\ n = e.support /\ n > 0
      BY <2>1, <3>3, WitnessedSupport
    <3>5. PICK x \in Nat, y \in Nat : x = a.scope /\ y = e.scope
      <4>1. a.scope \in Nat /\ e.scope \in Nat
        BY <2>1, <3>2, SettledTrie, FedShape DEF GoodEntry, Starting
      <4> QED BY <4>1
    <3>6. ~(n * y > n * x) /\ ~(n * x > n * y)
      BY <3>1, <3>4, <3>5 DEF Better
    <3>7. x = y
      BY <3>4, <3>6, EqualScopes
    <3> QED BY <3>1, <3>2, <3>4, <3>5, <3>7, Zenon DEF Shown
  <2> QED BY <2>4, <2>5, <2>6, Zenon
<1> QED BY <1>1, LearnerTInv, PTL

-------------------------------------------------------------------------------
(* The order in which types are offered.                                    *)

Concrete == Types \ {LiteralType, AnyType}

LEMMA ConcreteFinite == IsFiniteSet(Concrete) /\ Concrete \in SUBSET Types
<1>1. Concrete \in SUBSET Types
  BY DEF Concrete
<1> QED BY <1>1, VariantsAssumption, FS_Subset

Lowest(t, S) == t \in S /\ \A u \in S \ {t} : <<u, t>> \notin Compatible

(* Of some types, one has no other below it. *)
LEMMA LowestExists ==
    ASSUME NEW S \in SUBSET Concrete, S # {}
    PROVE  \E t \in S : Lowest(t, S)
<1> DEFINE Bad == {s \in SUBSET S : s # {} /\ ~ \E t \in s : Lowest(t, s)}
<1>1. IsFiniteSet(S) /\ S \in SUBSET Types
  BY ConcreteFinite, FS_Subset
<1> SUFFICES ASSUME Bad # {} PROVE FALSE
  OBVIOUS
<1>2. PICK s \in Bad : s \in SUBSET S /\ \A x \in s : s \ {x} \notin Bad
  <2>1. Bad \in SUBSET (SUBSET S)
    OBVIOUS
  <2> HIDE DEF Bad
  <2> QED BY <1>1, <2>1, SmallestSet
<1>3. PICK x \in s : TRUE
  OBVIOUS
<1>4. s \ {x} # {}
  <2> SUFFICES ASSUME s \ {x} = {} PROVE FALSE
    OBVIOUS
  <2>1. Lowest(x, s)
    BY DEF Lowest
  <2> QED BY <2>1
<1>5. PICK m \in s \ {x} : Lowest(m, s \ {x})
  BY <1>2, <1>4
<1>6. ~Lowest(m, s) /\ ~Lowest(x, s)
  OBVIOUS
<1>7. <<x, m>> \in Compatible
  BY <1>5, <1>6 DEF Lowest
<1>8. PICK u \in s \ {x} : <<u, x>> \in Compatible
  BY <1>6 DEF Lowest
<1>9. x \in Types /\ m \in Types /\ u \in Types /\ x # m
  BY <1>1, <1>2, <1>5
<1>10. <<u, m>> \in Compatible
  BY <1>7, <1>8, <1>9, CompatibleAssumption
<1>11. u = m
  BY <1>5, <1>8, <1>10 DEF Lowest
<1> QED BY <1>7, <1>8, <1>9, <1>11, CompatibleAssumption

LEMMA MostSpecificLowest ==
    ASSUME NEW S \in SUBSET Concrete, S # {}
    PROVE  MostSpecific(S) \in S /\ Lowest(MostSpecific(S), S)
<1>1. \E t \in S : \A u \in S \ {t} : <<u, t>> \notin Compatible
  BY LowestExists DEF Lowest
<1> QED BY <1>1, Zenon DEF MostSpecific, Lowest

(* The equation of Ordered on a family of sets *)
OrderStep(g, s) ==
    IF s = {} THEN <<>> ELSE <<MostSpecific(s)>> \o g[s \ {MostSpecific(s)}]

LEMMA OrderUpto ==
    \A n \in Nat : \E g : g = [s \in Upto(Concrete, n) |-> OrderStep(g, s)]
<1> DEFINE S == Concrete
           Bad == {n \in Nat : ~ \E g : g = [s \in Upto(S, n) |-> OrderStep(g, s)]}
<1>0. IsFiniteSet(S)
  BY ConcreteFinite
<1> HIDE DEF S
<1> SUFFICES ASSUME Bad # {} PROVE FALSE
  BY DEF S
<1>1. PICK n \in Bad : \A m \in Bad : n <= m
  BY Least
<1>2. CASE n = 0
  <2> DEFINE g == [s \in Upto(S, 0) |-> <<>>]
  <2>1. \A s \in Upto(S, 0) : s = {}
    <3> SUFFICES ASSUME NEW s \in Upto(S, 0) PROVE s = {}
      OBVIOUS
    <3>1. IsFiniteSet(s) /\ Cardinality(s) \in Nat /\ Cardinality(s) <= 0
      BY <1>0, FS_Subset, FS_CardinalityType DEF Upto
    <3> QED BY <3>1, FS_EmptySet
  <2>2. g = [s \in Upto(S, 0) |-> OrderStep(g, s)]
    BY <2>1 DEF OrderStep
  <2> QED BY <1>2, <2>2
<1>3. CASE n # 0
  <2>1. n - 1 \in Nat /\ n - 1 \notin Bad
    BY <1>1, <1>3
  <2>2. PICK g : g = [s \in Upto(S, n - 1) |-> OrderStep(g, s)]
    BY <2>1
  <2> DEFINE h == [s \in Upto(S, n) |-> OrderStep(g, s)]
  <2>3. ASSUME NEW s \in Upto(S, n) PROVE OrderStep(g, s) = OrderStep(h, s)
    <3>1. CASE s = {}
      BY <3>1 DEF OrderStep
    <3>2. CASE s # {}
      <4> DEFINE x == MostSpecific(s)
      <4>1. x \in s
        BY <3>2, MostSpecificLowest DEF Upto, S
      <4> HIDE DEF x
      <4>2. s \ {x} \in Upto(S, n - 1) /\ s \ {x} \in Upto(S, n)
        <5>1. IsFiniteSet(s) /\ Cardinality(s) \in Nat /\ Cardinality(s) <= n
          BY <1>0, FS_Subset, FS_CardinalityType DEF Upto
        <5>2. Cardinality(s \ {x}) = Cardinality(s) - 1
          BY <4>1, <5>1, FS_RemoveElement
        <5>3. s \ {x} \in SUBSET S
          BY DEF Upto
        <5> QED BY <5>1, <5>2, <5>3, <2>1 DEF Upto
      <4>3. g[s \ {x}] = h[s \ {x}]
        BY <2>2, <4>2
      <4> QED BY <3>2, <4>3 DEF OrderStep, x
    <3> QED BY <3>1, <3>2
  <2>4. h = [s \in Upto(S, n) |-> OrderStep(h, s)]
    BY <2>3
  <2> HIDE DEF h
  <2> QED BY <2>4
<1> QED BY <1>2, <1>3

LEMMA OrderedFunction == Ordered = [s \in SUBSET Concrete |-> OrderStep(Ordered, s)]
<1> DEFINE S == Concrete
           n == Cardinality(S)
<1>0. IsFiniteSet(S)
  BY ConcreteFinite
<1>1. n \in Nat
  BY <1>0, FS_CardinalityType
<1>2. Upto(S, n) = SUBSET S
  BY <1>0, FS_Subset DEF Upto
<1>3. \E g : g = [s \in Upto(S, n) |-> OrderStep(g, s)]
  BY <1>1, OrderUpto
<1> HIDE DEF n
<1>4. \E g : g = [s \in SUBSET S |-> OrderStep(g, s)]
  BY <1>2, <1>3, Zenon
<1> QED BY <1>4 DEF Ordered, OrderStep, Concrete

LEMMA OrderedDef == \A s \in SUBSET Concrete : Ordered[s] = OrderStep(Ordered, s)
<1> DEFINE g == Ordered
<1>1. g = [s \in SUBSET Concrete |-> OrderStep(g, s)]
  BY OrderedFunction, Zenon
<1> HIDE DEF g
<1>2. \A s \in SUBSET Concrete : g[s] = OrderStep(g, s)
  BY <1>1, Zenon
<1> QED BY <1>2 DEF g

(* A list of some types, each once and none after one it generalises. *)
Sorted(list, S) ==
    /\ list \in Seq(S) /\ Len(list) = Cardinality(S)
    /\ \A t \in S : \E i \in 1..Len(list) : list[i] = t
    /\ \A i, j \in 1..Len(list) : i < j => <<list[j], list[i]>> \notin Compatible

LEMMA SortedStep ==
    ASSUME NEW S \in SUBSET Concrete, NEW t \in S, Lowest(t, S),
           NEW list, Sorted(list, S \ {t})
    PROVE  Sorted(<<t>> \o list, S)
<1> DEFINE long == <<t>> \o list
           n == Len(list)
<1>1. IsFiniteSet(S) /\ Cardinality(S) \in Nat
      /\ Cardinality(S \ {t}) = Cardinality(S) - 1
  BY ConcreteFinite, FS_Subset, FS_RemoveElement, FS_CardinalityType
<1>2. list \in Seq(S) /\ n \in Nat /\ n = Cardinality(S) - 1
  <2>1. list \in Seq(S \ {t}) /\ n \in Nat
    BY LenProperties DEF Sorted
  <2>2. \A i \in 1..n : list[i] \in S
    BY <2>1, ElementOfSeq
  <2> QED BY <1>1, <2>1, <2>2 DEF Sorted
<1>3. <<t>> \in Seq(S) /\ Len(<<t>>) = 1 /\ <<t>>[1] = t
  OBVIOUS
<1>4. /\ long \in Seq(S) /\ Len(long) = n + 1 /\ long[1] = t
      /\ \A i \in 2..(n + 1) : long[i] = list[i - 1]
  BY <1>2, <1>3
<1> HIDE DEF long, n
<1>5. Len(long) = Cardinality(S)
  BY <1>1, <1>2, <1>4
<1>6. \A i \in 1..n : list[i] \in S \ {t}
  BY ElementOfSeq DEF Sorted, n
<1>7. ASSUME NEW u \in S PROVE \E i \in 1..Len(long) : long[i] = u
  <2>1. CASE u = t
    BY <1>2, <1>4, <2>1
  <2>2. CASE u # t
    <3>1. PICK i \in 1..n : list[i] = u
      BY <2>2 DEF Sorted, n
    <3>2. i + 1 \in 2..(n + 1) /\ i + 1 \in 1..Len(long) /\ (i + 1) - 1 = i
      BY <1>2, <1>4
    <3>3. long[i + 1] = u
      BY <1>4, <3>1, <3>2
    <3> QED BY <3>2, <3>3
  <2> QED BY <2>1, <2>2
<1>8. ASSUME NEW i \in 1..Len(long), NEW j \in 1..Len(long), i < j
      PROVE  <<long[j], long[i]>> \notin Compatible
  <2>1. PICK k \in 1..n : k = j - 1 /\ j \in 2..(n + 1)
    BY <1>2, <1>4, <1>8
  <2>2. long[j] = list[k] /\ list[k] \in S \ {t}
    BY <1>4, <1>6, <2>1
  <2>3. CASE i = 1
    BY <1>4, <2>2, <2>3 DEF Lowest
  <2>4. CASE i # 1
    <3>1. PICK m \in 1..n : m = i - 1 /\ i \in 2..(n + 1) /\ m < k
      BY <1>2, <1>4, <1>8, <2>1, <2>4
    <3>2. long[i] = list[m]
      BY <1>4, <3>1
    <3> QED BY <2>2, <3>1, <3>2 DEF Sorted, n
  <2> QED BY <2>3, <2>4
<1> QED BY <1>4, <1>5, <1>7, <1>8 DEF Sorted, long

LEMMA OrderedSorted == \A S \in SUBSET Concrete : Sorted(Ordered[S], S)
<1> DEFINE Bad == {s \in SUBSET Concrete : ~Sorted(Ordered[s], s)}
<1> SUFFICES ASSUME Bad # {} PROVE FALSE
  OBVIOUS
<1>1. PICK s \in Bad : s \in SUBSET Concrete /\ \A x \in s : s \ {x} \notin Bad
  <2>1. Bad \in SUBSET (SUBSET Concrete)
    OBVIOUS
  <2> HIDE DEF Bad
  <2> QED BY <2>1, ConcreteFinite, SmallestSet
<1>2. Ordered[s] = OrderStep(Ordered, s)
  BY <1>1, OrderedDef
<1>3. CASE s = {}
  <2>1. Ordered[s] = <<>>
    BY <1>2, <1>3 DEF OrderStep
  <2>2. <<>> \in Seq(s) /\ Len(<<>>) = 0
    OBVIOUS
  <2>3. Cardinality(s) = 0
    BY <1>3, FS_EmptySet
  <2>4. Sorted(Ordered[s], s)
    BY <1>3, <2>1, <2>2, <2>3 DEF Sorted
  <2> QED BY <1>1, <2>4
<1>4. CASE s # {}
  <2> DEFINE t == MostSpecific(s)
  <2>1. t \in s /\ Lowest(t, s)
    BY <1>1, <1>4, MostSpecificLowest
  <2>2. Ordered[s] = <<t>> \o Ordered[s \ {t}]
    BY <1>2, <1>4 DEF OrderStep
  <2> HIDE DEF t
  <2>3. Sorted(Ordered[s \ {t}], s \ {t})
    BY <1>1, <2>1
  <2>4. Sorted(Ordered[s], s)
    BY <1>1, <2>1, <2>2, <2>3, SortedStep
  <2> QED BY <1>1, <2>4
<1> QED BY <1>3, <1>4

-------------------------------------------------------------------------------
(* The list of types offered for a token.                                   *)

(* From its second entry on, no type comes after one it is a kind of.       *)
Descends(list) ==
    \A i, j \in 2..Len(list) : i < j => <<list[j], list[i]>> \notin Compatible

Distinct(list) == \A i, j \in 1..Len(list) : i < j => list[i] # list[j]

First(current, O) == IF current # AnyType /\ current \in O THEN <<current>> ELSE <<>>
Others(current, O) == O \ {current, LiteralType, AnyType}
Whole(current, O) == First(current, O) \o Ordered[Others(current, O)]
Listed(current, O) == Truncated(Whole(current, O), MaxVariants - 1)

LEMMA SortedDistinct ==
    ASSUME NEW S \in SUBSET Concrete, NEW list, Sorted(list, S)
    PROVE  Distinct(list) /\ Descends(list) /\ Len(list) \in Nat
<1>1. list \in Seq(S) /\ Len(list) \in Nat
  BY LenProperties DEF Sorted
<1>2. \A i \in 1..Len(list) : list[i] \in Types
  BY <1>1, ElementOfSeq DEF Concrete
<1>3. \A i, j \in 1..Len(list) : i < j => <<list[j], list[i]>> \notin Compatible
  BY DEF Sorted
<1>4. Descends(list)
  BY <1>1, <1>3 DEF Descends
<1> QED BY <1>1, <1>2, <1>3, <1>4, CompatibleAssumption DEF Distinct

LEMMA WholeGood ==
    ASSUME NEW O \in SUBSET Types, NEW current \in Types
    PROVE  /\ Whole(current, O) \in Seq(Types \ {AnyType})
           /\ Distinct(Whole(current, O)) /\ Descends(Whole(current, O))
           /\ \A t \in O \ {LiteralType, AnyType} :
                 \E i \in 1..Len(Whole(current, O)) : Whole(current, O)[i] = t
<1> DEFINE R == Others(current, O)
           f == First(current, O)
           o == Ordered[R]
           n == Len(o)
           a == Whole(current, O)
<1>1. R \in SUBSET Concrete /\ current \notin R
  BY DEF Others, Concrete
<1>2. Sorted(o, R)
  BY <1>1, OrderedSorted
<1>3. /\ o \in Seq(Types \ {AnyType}) /\ n \in Nat
      /\ \A i \in 1..n : o[i] \in R
  <2>1. o \in Seq(R) /\ n \in Nat
    BY <1>2, LenProperties DEF Sorted
  <2>2. \A i \in 1..n : o[i] \in R
    BY <2>1, ElementOfSeq
  <2>3. R \in SUBSET (Types \ {AnyType})
    BY <1>1 DEF Concrete
  <2> HIDE DEF o, R
  <2>4. o \in Seq(Types \ {AnyType})
    BY <2>1, <2>3
  <2> QED BY <2>1, <2>2, <2>4
<1>4. Distinct(o) /\ Descends(o)
  BY <1>1, <1>2, SortedDistinct
<1>5. \A t \in R : \E i \in 1..n : o[i] = t
  BY <1>2 DEF Sorted
<1>6. a = f \o o
  BY DEF Whole
<1>7. \A t \in O \ {LiteralType, AnyType} : t \in R \/ t = current
  BY DEF Others
<1>8. CASE f = <<>>
  <2>1. a = o
    BY <1>3, <1>6, <1>8
  <2>2. \A t \in O \ {LiteralType, AnyType} : t # current
    BY <1>8 DEF First
  <2> QED BY <1>3, <1>4, <1>5, <1>7, <2>1, <2>2
<1>9. CASE current # AnyType /\ f = <<current>>
  <2> HIDE DEF a, o, n, R
  <2>1. <<current>> \in Seq(Types \ {AnyType}) /\ Len(<<current>>) = 1
        /\ <<current>>[1] = current
    BY <1>9
  <2>2. /\ a \in Seq(Types \ {AnyType}) /\ Len(a) = n + 1 /\ a[1] = current
        /\ \A i \in 2..(n + 1) : a[i] = o[i - 1]
    BY <1>3, <1>6, <1>9, <2>1 DEF n
  <2>3. ASSUME NEW i \in 1..Len(a), NEW j \in 1..Len(a), i < j
        PROVE  /\ a[i] # a[j]
               /\ i # 1 => <<a[j], a[i]>> \notin Compatible
    <3>1. PICK k \in 1..n : k = j - 1 /\ j \in 2..(n + 1)
      BY <1>3, <2>2, <2>3
    <3>2. a[j] = o[k] /\ o[k] \in R
      BY <1>3, <2>2, <3>1
    <3>3. CASE i = 1
      BY <1>1, <2>2, <3>2, <3>3
    <3>4. CASE i # 1
      <4>1. PICK m \in 1..n : m = i - 1 /\ i \in 2..(n + 1) /\ m < k
        BY <1>3, <2>2, <2>3, <3>1, <3>4
      <4>2. a[i] = o[m]
        BY <2>2, <4>1
      <4>3. o[m] # o[k]
        BY <1>4, <4>1 DEF Distinct, n
      <4>4. <<o[k], o[m]>> \notin Compatible
        BY <1>2, <4>1 DEF Sorted, n
      <4> QED BY <3>2, <4>2, <4>3, <4>4
    <3> QED BY <3>3, <3>4
  <2>4. ASSUME NEW t \in O \ {LiteralType, AnyType}
        PROVE  \E i \in 1..Len(a) : a[i] = t
    <3>1. CASE t = current
      BY <1>3, <2>2, <3>1
    <3>2. CASE t \in R
      <4>1. PICK i \in 1..n : o[i] = t
        BY <1>5, <3>2
      <4>2. i + 1 \in 2..(n + 1) /\ i + 1 \in 1..Len(a) /\ (i + 1) - 1 = i
        BY <1>3, <2>2
      <4>3. a[i + 1] = t
        BY <2>2, <4>1, <4>2
      <4> QED BY <4>2, <4>3
    <3> QED BY <1>7, <3>1, <3>2
  <2>5. Descends(a)
    BY <1>3, <2>2, <2>3 DEF Descends
  <2>6. Distinct(a)
    BY <2>3 DEF Distinct
  <2> QED BY <2>2, <2>4, <2>5, <2>6 DEF a
<1>10. f = <<>> \/ (current # AnyType /\ f = <<current>>)
  BY DEF First
<1> QED BY <1>8, <1>9, <1>10

LEMMA ListedGood ==
    ASSUME NEW O \in SUBSET Types, NEW current \in Types
    PROVE  /\ Listed(current, O) \in Seq(Types \ {AnyType})
           /\ Len(Listed(current, O)) \in 0..(MaxVariants - 1)
           /\ Distinct(Listed(current, O)) /\ Descends(Listed(current, O))
           /\ Len(Listed(current, O)) < MaxVariants - 1 =>
                 \A t \in O \ {LiteralType, AnyType} :
                    \E i \in 1..Len(Listed(current, O)) : Listed(current, O)[i] = t
<1> DEFINE a == Whole(current, O)
           l == Listed(current, O)
           n == MaxVariants - 1
<1>1. /\ a \in Seq(Types \ {AnyType}) /\ Distinct(a) /\ Descends(a)
      /\ \A t \in O \ {LiteralType, AnyType} : \E i \in 1..Len(a) : a[i] = t
  BY WholeGood
<1>2. n \in Nat /\ n >= 1
  BY SuggestAssumption
<1>3. Len(a) \in Nat
  BY <1>1, LenProperties
<1>4. l = IF Len(a) <= n THEN a ELSE SubSeq(a, 1, n)
  BY DEF Listed, Truncated
<1> HIDE DEF a, n, l
<1>5. CASE Len(a) <= n
  BY <1>1, <1>2, <1>3, <1>4, <1>5 DEF l, n
<1>6. CASE ~(Len(a) <= n)
  <2>1. l = SubSeq(a, 1, n) /\ n <= Len(a)
    BY <1>2, <1>3, <1>4, <1>6
  <2>2. /\ l \in Seq(Types \ {AnyType}) /\ Len(l) = n
        /\ \A i \in 1..n : l[i] = a[i]
    BY <1>1, <1>2, <1>3, <2>1, SubSeqProperties
  <2>3. Distinct(l)
    BY <1>1, <1>2, <1>3, <2>1, <2>2 DEF Distinct
  <2>4. Descends(l)
    BY <1>1, <1>2, <1>3, <2>1, <2>2 DEF Descends
  <2> QED BY <1>2, <2>2, <2>3, <2>4 DEF l, n
<1> QED BY <1>5, <1>6

(* A list that is not empty of room holds as many types as it is long. *)
LEMMA DistinctSize ==
    ASSUME NEW list, NEW n \in Nat, Len(list) = n, Distinct(list)
    PROVE  IsFiniteSet({list[i] : i \in 1..n}) /\ Cardinality({list[i] : i \in 1..n}) = n
<1> DEFINE S == {list[i] : i \in 1..n}
           f == [i \in 1..n |-> list[i]]
<1>1. IsFiniteSet(1..n) /\ Cardinality(1..n) = n
  BY FS_Interval
<1>2. f \in [1..n -> S] /\ \A t \in S : \E i \in 1..n : f[i] = t
  OBVIOUS
<1>3. ASSUME NEW i \in 1..n, NEW j \in 1..n, f[i] = f[j]
      PROVE  i = j
  <2>1. list[i] = list[j]
    BY <1>3
  <2>2. ~(i < j) /\ ~(j < i)
    BY <2>1 DEF Distinct
  <2> QED BY <2>2
<1> HIDE DEF f, S
<1>4. f \in Surjection(1..n, S)
  BY <1>2, Zenon DEF Surjection
<1>5. f \in Injection(1..n, S)
  BY <1>2, <1>3 DEF Injection, IsInjective
<1>6. IsFiniteSet(S) /\ Cardinality(S) = n
  BY <1>1, <1>4, <1>5, FS_Surjection
<1> QED BY <1>6 DEF S

Category(current, list) ==
    IF Len(list) < MaxVariants - 1 /\ current \in DOMAIN General
       /\ ~Contains(list, General[current])
    THEN <<General[current]>> ELSE <<>>

Top(pos) == IF pos # 1 THEN <<AnyType>> ELSE <<>>

Offered(current, O, pos) ==
    Listed(current, O) \o Category(current, Listed(current, O)) \o Top(pos)

(* A list, or the list with one more type at its end. *)
Longer(long, list, x) ==
    /\ Len(long) = Len(list) + 1 /\ long[Len(list) + 1] = x
    /\ \A i \in 1..Len(list) : long[i] = list[i]

LEMMA OneLonger ==
    ASSUME NEW S, NEW list \in Seq(S), NEW x \in S, NEW tail,
           tail = <<x>> \/ tail = <<>>
    PROVE  /\ list \o tail \in Seq(S)
           /\ \/ tail = <<x>> /\ Longer(list \o tail, list, x)
              \/ tail = <<>> /\ list \o tail = list
<1>1. CASE tail = <<x>>
  <2>1. <<x>> \in Seq(S)
    OBVIOUS
  <2>2. Len(<<x>>) = 1 /\ <<x>>[1] = x
    OBVIOUS
  <2>3. Len(list) \in Nat
    BY LenProperties
  <2>4. list \o <<x>> \in Seq(S) /\ Len(list \o <<x>>) = Len(list) + 1
    BY <2>1, <2>2, ConcatProperties
  <2>5. \A i \in 1..Len(list) : (list \o <<x>>)[i] = list[i]
    BY <2>1, <2>2, <2>3, ConcatProperties
  <2>6. (list \o <<x>>)[Len(list) + 1] = x
    BY <2>1, <2>2, <2>3, ConcatProperties
  <2> QED BY <1>1, <2>4, <2>5, <2>6 DEF Longer
<1>2. CASE tail = <<>>
  <2>1. list \o <<>> = list
    OBVIOUS
  <2> QED BY <1>2, <2>1
<1> QED BY <1>1, <1>2

LEMMA LongerDescends ==
    ASSUME NEW S, NEW list \in Seq(S), Descends(list), NEW x \in S, NEW tail,
           tail = <<x>> \/ tail = <<>>,
           \A i \in 1..Len(list) : <<x, list[i]>> \notin Compatible
    PROVE  Descends(list \o tail)
<1> DEFINE long == list \o tail
           n == Len(list)
<1>0. n \in Nat
  BY LenProperties
<1>1. Longer(long, list, x) \/ long = list
  BY OneLonger, Zenon
<1> HIDE DEF long
<1>2. CASE long = list
  BY <1>2 DEF long
<1>3. CASE Longer(long, list, x)
  <2> SUFFICES ASSUME NEW i \in 2..(n + 1), NEW j \in 2..(n + 1), i < j
               PROVE  <<long[j], long[i]>> \notin Compatible
    BY <1>3 DEF Descends, Longer, long
  <2>1. i \in 2..n /\ i \in 1..n /\ long[i] = list[i]
    BY <1>0, <1>3 DEF Longer
  <2>2. CASE j = n + 1
    <3>1. long[j] = x
      BY <1>3, <2>2 DEF Longer
    <3>2. <<x, list[i]>> \notin Compatible
      BY <2>1
    <3> QED BY <2>1, <3>1, <3>2
  <2>3. CASE j # n + 1
    <3>1. j \in 2..n /\ j \in 1..n /\ long[j] = list[j]
      BY <1>0, <1>3, <2>3 DEF Longer
    <3> QED BY <2>1, <3>1 DEF Descends
  <2> QED BY <2>2, <2>3
<1> QED BY <1>1, <1>2, <1>3

LEMMA OfferedGood ==
    ASSUME NEW O \in SUBSET Types, NEW current \in Types, NEW pos
    PROVE  LET list == Offered(current, O, pos) IN
           /\ Len(list) <= MaxVariants /\ Descends(list)
           /\ Cardinality(ToSet(list) \ {AnyType}) < MaxVariants - 1 =>
                 O \ {LiteralType, AnyType} \subseteq ToSet(list)
           /\ pos # 1 => AnyType \in ToSet(list)
<1> DEFINE l == Listed(current, O)
           g == Category(current, l)
           t == Top(pos)
           m == l \o g
           a == m \o t
           P == Types \ {AnyType}
           x == General[current]
<1>1. /\ l \in Seq(P) /\ Len(l) \in 0..(MaxVariants - 1) /\ Distinct(l) /\ Descends(l)
      /\ Len(l) < MaxVariants - 1 =>
            \A u \in O \ {LiteralType, AnyType} : \E i \in 1..Len(l) : l[i] = u
  BY ListedGood
<1>2. MaxVariants \in Nat /\ AnyType \in Types
  BY SuggestAssumption, TableAssumption
<1>3. Offered(current, O, pos) = a
  BY DEF Offered
<1> HIDE DEF l
<1>4. /\ m \in Seq(P) /\ Descends(m) /\ Len(m) \in 0..(MaxVariants - 1)
      /\ \A i \in 1..Len(l) : i \in 1..Len(m) /\ m[i] = l[i]
  <2>1. CASE g = <<>>
    <3>1. m = l
      BY <1>1, <2>1
    <3> QED BY <1>1, <3>1
  <2>2. CASE g # <<>>
    <3>1. /\ Len(l) < MaxVariants - 1 /\ current \in DOMAIN General
          /\ ~Contains(l, x) /\ g = <<x>>
      BY <2>2 DEF Category
    <3>2. x \in P /\ \A u \in P \ {x} : <<x, u>> \notin Compatible
      BY <3>1, VariantsAssumption
    <3> HIDE DEF x, g
    <3>3. l \o g \in Seq(P) /\ Longer(l \o g, l, x)
      <4>1. g # <<>>
        BY <3>1
      <4>2. g = <<x>> \/ g = <<>>
        BY <3>1
      <4>3. l \in Seq(P) /\ x \in P
        BY <1>1, <3>2
      <4>4. /\ l \o g \in Seq(P)
            /\ Longer(l \o g, l, x) \/ g = <<>>
        BY <4>2, <4>3, OneLonger
      <4> QED BY <4>1, <4>4
    <3>4. \A i \in 1..Len(l) : l[i] # x
      BY <3>1, Zenon DEF Contains
    <3>5. \A i \in 1..Len(l) : <<x, l[i]>> \notin Compatible
      BY <1>1, <3>2, <3>4, ElementOfSeq
    <3>6. Descends(l \o g)
      BY <1>1, <3>1, <3>2, <3>5, LongerDescends
    <3>7. /\ Len(m) = Len(l) + 1
          /\ \A i \in 1..Len(l) : m[i] = l[i]
      BY <3>3 DEF Longer
    <3> QED BY <1>1, <1>2, <3>1, <3>3, <3>6, <3>7
  <2> QED BY <2>1, <2>2
<1> HIDE DEF m, g
<1>5. t = <<AnyType>> \/ t = <<>>
  BY DEF Top
<1>6. m \in Seq(Types)
  BY <1>4
<1>7. \A i \in 1..Len(m) : <<AnyType, m[i]>> \notin Compatible
  <2> SUFFICES ASSUME NEW i \in 1..Len(m) PROVE <<AnyType, m[i]>> \notin Compatible
    OBVIOUS
  <2>1. m[i] \in P
    BY <1>4, ElementOfSeq
  <2> QED BY <1>2, <2>1, AnyAssumption, CompatibleAssumption
<1> HIDE DEF t, P
<1>8. Descends(a)
  BY <1>2, <1>4, <1>5, <1>6, <1>7, LongerDescends
<1>9. /\ a \in Seq(Types)
      /\ \/ t = <<AnyType>> /\ Longer(a, m, AnyType)
         \/ t = <<>> /\ a = m
  BY <1>2, <1>5, <1>6, OneLonger, Zenon
<1> HIDE DEF a
<1>10. Len(a) \in Nat /\ Len(a) <= MaxVariants /\ Len(m) <= Len(a)
  BY <1>2, <1>4, <1>9 DEF Longer
<1>11. DOMAIN a = 1..Len(a)
  BY <1>9
<1>12. \A i \in 1..Len(l) : a[i] = l[i] /\ i \in DOMAIN a
  <2> SUFFICES ASSUME NEW i \in 1..Len(l) PROVE a[i] = l[i] /\ i \in DOMAIN a
    OBVIOUS
  <2>1. i \in 1..Len(m) /\ m[i] = l[i]
    BY <1>4
  <2>2. a[i] = m[i]
    BY <1>9, <2>1 DEF Longer
  <2>3. i \in 1..Len(a)
    BY <1>4, <1>10, <2>1
  <2> QED BY <1>11, <2>1, <2>2, <2>3
<1>13. ToSet(a) = {a[i] : i \in DOMAIN a}
  BY DEF ToSet
<1>14. {l[i] : i \in 1..Len(l)} \subseteq ToSet(a) \ {AnyType}
  <2>1. \A i \in 1..Len(l) : l[i] \in P
    BY <1>1, ElementOfSeq
  <2> QED BY <1>12, <1>13, <2>1 DEF P
<1>15. IsFiniteSet(ToSet(a) \ {AnyType})
  <2>1. ToSet(a) \ {AnyType} \in SUBSET Types
    <3>1. \A i \in 1..Len(a) : a[i] \in Types
      BY <1>9, ElementOfSeq
    <3> QED BY <1>11, <1>13, <3>1
  <2> QED BY <2>1, VariantsAssumption, FS_Subset
<1>16. ASSUME Cardinality(ToSet(a) \ {AnyType}) < MaxVariants - 1
       PROVE  O \ {LiteralType, AnyType} \subseteq ToSet(a)
  <2> DEFINE S == {l[i] : i \in 1..Len(l)}
             C == ToSet(a) \ {AnyType}
  <2>1. Len(l) \in Nat
    BY <1>1, <1>2
  <2>2. Cardinality(S) = Len(l)
    BY <1>1, <2>1, DistinctSize
  <2>3. S \subseteq C /\ IsFiniteSet(C)
    BY <1>14, <1>15
  <2> HIDE DEF S, C
  <2>4. Cardinality(S) <= Cardinality(C)
    BY <2>3, FS_Subset
  <2>5. Cardinality(C) \in Nat /\ Cardinality(C) < MaxVariants - 1
    BY <1>16, <2>3, FS_CardinalityType DEF C
  <2>6. Len(l) < MaxVariants - 1
    BY <1>2, <2>1, <2>2, <2>4, <2>5
  <2> QED BY <1>1, <1>12, <1>13, <2>6
<1>17. ASSUME pos # 1 PROVE AnyType \in ToSet(a)
  <2>1. t = <<AnyType>> /\ <<AnyType>> # <<>>
    BY <1>17 DEF Top, t
  <2>2. Longer(a, m, AnyType)
    BY <1>9, <2>1
  <2>3. Len(m) + 1 \in DOMAIN a /\ a[Len(m) + 1] = AnyType
    BY <1>2, <1>4, <1>10, <1>11, <2>2 DEF Longer
  <2> QED BY <1>13, <2>3
<1> QED BY <1>3, <1>8, <1>10, <1>16, <1>17

-------------------------------------------------------------------------------
(* The types seen in the place of a token.                                  *)

PlainBefore(rule, pos) ==
    \A i \in 1..(pos - 1) :
        /\ rule[i].kind # "comp"
        /\ rule[i].kind = "wild" => rule[i].param \notin ValueParams

(* Where the evidence does not speak against a plain token, the walk goes on. *)
LEMMA PlainFollows ==
    ASSUME NEW rule, NEW i, NEW label, NEW node,
           label.kind \in {"lit", "wild"},
           rule[i].kind \in {"lit", "wild"},
           rule[i].kind = "wild" => rule[i].param \notin ValueParams,
           Evidence(rule, i, label, node) # "no"
    PROVE  Follows(rule, i, label, node)
<1>1. CASE rule[i].kind = "lit"
  <2>1. Evidence(rule, i, label, node)
           = IF label.kind = "wild"
             THEN IF label.type \in LiteralTypes(rule, i) THEN "unknown" ELSE "no"
             ELSE IF label = rule[i] THEN "yes" ELSE "no"
    BY <1>1, Zenon DEF Evidence
  <2>2. Follows(rule, i, label, node)
           <=> IF label.kind = "wild" THEN label.type \in LiteralTypes(rule, i)
               ELSE label = rule[i]
    BY <1>1, Zenon DEF Follows
  <2> QED BY <2>1, <2>2
<1>2. CASE rule[i].kind = "wild"
  <2> DEFINE type == IF label.kind = "lit" THEN LiteralType ELSE label.type
  <2>1. rule[i].kind # "lit" /\ rule[i].kind # "comp"
    BY <1>2
  <2>2. Evidence(rule, i, label, node)
           = IF rule[i].type \notin Mask[type]
                \/ (rule[i].param # NoParam /\ type # rule[i].type)
             THEN "no" ELSE ParamEvidence(rule[i], node)
    BY <1>2, <2>1, Zenon DEF Evidence
  <2>3. Follows(rule, i, label, node)
           <=> /\ rule[i].type \in Mask[type]
               /\ rule[i].param \in ValueParams =>
                     ~node.mixed /\ node.common = rule[i].param
    BY <1>2, <2>1, Zenon DEF Follows
  <2> QED BY <1>2, <2>2, <2>3
<1> QED BY <1>1, <1>2

LEMMA NeverAny ==
    ASSUME NEW c \in Commands, NEW i \in 1..Len(c)
    PROVE  CommandType(c, i) # AnyType
<1>1. c[i] \in Words /\ (i # 1 => After[c[i - 1]] \in Contexts)
  BY WordShape
<1>2. (IF i = 1 THEN NoContext ELSE After[c[i - 1]]) \in Contexts
  BY <1>1, TableAssumption
<1> QED BY <1>1, <1>2, VariantsAssumption DEF CommandType

LEMMA ObservedSeen ==
    ASSUME Settled, NEW rule, GoodRule(rule), NEW pos \in 1..Len(rule),
           PlainBefore(rule, pos), rule[pos].kind # "comp",
           NEW c \in Commands, fed[c] > 0, Len(c) >= pos,
           PrefixMatches(rule, pos - 1, c),
           CommandType(c, pos) # LiteralType
    PROVE  CommandType(c, pos) \in ObservedTypes(rule, pos)
<1> DEFINE p == Path(c, pos)
           At == {q \in DOMAIN trie : Len(q) = pos
                    /\ \A i \in 1..(pos - 1) :
                          Follows(rule, i, q[i], trie[SubSeq(q, 1, i)])}
<1>1. Len(rule) \in Nat /\ \A i \in 1..Len(rule) : rule[i] \in Token /\ RuleToken(rule[i])
  BY GoodRuleShape
<1>2. Len(c) \in Nat /\ pos \in Nat /\ pos \in 1..Len(c) /\ pos \in 0..Len(c)
  BY <1>1, CommandShape
<1>3. p \in DOMAIN trie
  BY <1>2, TriePath
<1>4. Len(p) = pos /\ \A i \in 1..pos : p[i] = Label(c, i) /\ SubSeq(p, 1, i) = Path(c, i)
  <2>1. Len(p) = pos /\ \A k \in 0..pos : SubSeq(p, 1, k) = Path(c, k)
    BY <1>2, PathShape
  <2>2. \A i \in 1..pos : p[i] = Label(c, i)
    BY DEF Path
  <2> QED BY <1>2, <2>1, <2>2
<1>5. ASSUME NEW i \in 1..(pos - 1)
      PROVE  Follows(rule, i, p[i], trie[SubSeq(p, 1, i)])
  <2>1. /\ i \in 1..Len(rule) /\ i \in 1..Len(c) /\ i \in 1..pos
        /\ i # 1 => i - 1 \in 1..Len(rule) /\ i - 1 \in 1..(pos - 1)
    BY <1>1, <1>2
  <2>2. Accepted(rule, c, i) /\ (i # 1 => Accepted(rule, c, i - 1))
    BY <2>1 DEF PrefixMatches, Accepted
  <2>3. RuleToken(rule[i]) /\ (i # 1 => RuleToken(rule[i - 1]))
    BY <1>1, <2>1
  <2>4. Evidence(rule, i, Label(c, i), trie[Path(c, i)]) # "no"
    BY <2>1, <2>2, <2>3, EvidenceRight DEF Right
  <2>5. rule[i].kind \in {"lit", "wild"} /\ (rule[i].kind = "wild" => rule[i].param \notin ValueParams)
    <3>1. rule[i] \in Token
      BY <1>1, <2>1
    <3>2. rule[i].kind \in {"lit", "wild", "comp"}
      BY <3>1 DEF Token, LiteralToken, WildcardToken, CompoundToken
    <3> QED BY <3>2 DEF PlainBefore
  <2>6. Label(c, i).kind \in {"lit", "wild"}
    BY DEF Label
  <2>7. p[i] = Label(c, i) /\ SubSeq(p, 1, i) = Path(c, i)
    BY <1>4, <2>1
  <2> HIDE DEF p
  <2>8. Follows(rule, i, Label(c, i), trie[Path(c, i)])
    BY <2>4, <2>5, <2>6, PlainFollows
  <2> QED BY <2>7, <2>8, Zenon
<1>6. p \in At
  BY <1>3, <1>4, <1>5
<1>7. CommandType(c, pos) \in trie[p].observed
  <2>1. p # <<>> /\ Last(p) = Label(c, pos)
    <3>1. Len(p) # 0
      BY <1>2, <1>4
    <3>2. p # <<>>
      BY <3>1, EmptySeq
    <3>3. Last(p) = p[pos]
      BY <1>4 DEF Last
    <3> QED BY <1>2, <1>4, <3>2, <3>3
  <2>2. Label(c, pos).kind = "wild" /\ Label(c, pos).type = CommandType(c, pos)
    BY DEF Label
  <2>3. trie[p].observed = {Last(p).type}
    BY <1>3, <2>1, <2>2, SettledTrie DEF Exact, ExactNode, ExactBucket
  <2> QED BY <2>1, <2>2, <2>3
<1>8. CommandType(c, pos) # AnyType
  BY <1>2, NeverAny
<1>9. ObservedTypes(rule, pos) = (UNION {trie[q].observed : q \in At}) \ {AnyType}
  BY Zenon DEF ObservedTypes
<1> HIDE DEF At, p
<1>10. PICK type : type = CommandType(c, pos)
  OBVIOUS
<1>11. type \in UNION {trie[q].observed : q \in At}
  <2>1. \E q \in At : type \in trie[q].observed
    BY <1>6, <1>7, <1>10, Zenon
  <2> DEFINE Family == {trie[q].observed : q \in At}
  <2>2. \E t \in Family : type \in t
    BY <2>1, Zenon
  <2> HIDE DEF Family
  <2>3. type \in UNION Family
    BY <2>2
  <2> QED BY <2>3 DEF Family
<1> QED BY <1>8, <1>9, <1>10, <1>11, Zenon

LEMMA ObservedShape ==
    ASSUME Settled, NEW rule, GoodRule(rule), NEW pos \in 1..Len(rule)
    PROVE  ObservedTypes(rule, pos) \in SUBSET Types
<1> DEFINE At == {q \in DOMAIN trie : Len(q) = pos
                    /\ \A i \in 1..(pos - 1) :
                          Follows(rule, i, q[i], trie[SubSeq(q, 1, i)])}
           Words_ == {Capture[<<rule[pos].affix, Last(q).word>>] :
                        q \in {r \in At : Last(r).kind = "lit"}} \ {NoCapture}
<1>1. Len(rule) \in Nat /\ pos \in Nat /\ pos # 0 /\ rule[pos] \in Token
  BY GoodRuleShape
<1>2. CASE rule[pos].kind = "comp"
  <2>1. ObservedTypes(rule, pos) = {Classify[<<w, SpanContext>>] : w \in Words_}
    BY <1>2, Zenon DEF ObservedTypes
  <2>2. rule[pos].affix \in Affixes
    BY <1>1, <1>2 DEF Token, LiteralToken, WildcardToken, CompoundToken
  <2>3. ASSUME NEW q \in At, Last(q).kind = "lit" PROVE Last(q).word \in Words
    <3>1. q \in DOMAIN trie /\ Len(q) = pos /\ DOMAIN trie = LearnedPaths
      BY SettledTrie
    <3>2. q # <<>>
      BY <1>1, <3>1, EmptySeq
    <3>3. PICK d \in Commands : \E n \in 1..Len(d) : q = Path(d, n)
      BY <3>1, <3>2 DEF LearnedPaths
    <3> PICK n \in 1..Len(d) : q = Path(d, n)
      BY <3>3
    <3>4. Len(d) \in Nat /\ Len(q) = n
      BY CommandShape, PathShape
    <3>5. n \in Nat /\ n # 0 /\ q = [i \in 1..n |-> Label(d, i)]
      BY <3>4 DEF Path
    <3>6. Last(q) = q[n]
      BY <3>4 DEF Last
    <3>7. Last(q) = Label(d, n)
      BY <3>5, <3>6
    <3>8. Last(q).word = d[n] /\ d[n] \in Words
      BY <2>3, <3>7, WordShape DEF Label
    <3> QED BY <3>8
  <2>4. \A w \in Words_ : w \in Words
    <3>1. SUFFICES ASSUME NEW w \in Words_ PROVE w \in Words
      OBVIOUS
    <3>2. PICK q \in At : /\ Last(q).kind = "lit"
                         /\ w = Capture[<<rule[pos].affix, Last(q).word>>]
      OBVIOUS
    <3>3. w \in Words \cup {NoCapture}
      BY <2>2, <2>3, <3>2, TableAssumption
    <3> QED BY <3>1, <3>3
  <2>5. \A w \in Words_ : Classify[<<w, SpanContext>>] \in Types
    BY <2>4, TableAssumption
  <2> HIDE DEF Words_
  <2> QED BY <2>1, <2>5
<1>3. CASE rule[pos].kind # "comp"
  <2>1. ObservedTypes(rule, pos) = (UNION {trie[q].observed : q \in At}) \ {AnyType}
    BY <1>3, Zenon DEF ObservedTypes
  <2>2. \A q \in At : trie[q].observed \in SUBSET Types
    BY TrieNode DEF NodeSet
  <2> HIDE DEF At
  <2> QED BY <2>1, <2>2
<1> QED BY <1>2, <1>3

-------------------------------------------------------------------------------
(* What an edit offers.                                                     *)

Observed(rule, pos) ==
    IF ObservedTypes(rule, pos) # {} THEN ObservedTypes(rule, pos)
    ELSE IF EditType(rule[pos]) = LiteralType THEN {ValueType}
    ELSE {EditType(rule[pos])} \ {AnyType}

LEMMA VariantsDef ==
    ASSUME NEW rule, HeadAllowed(rule), NEW pos
    PROVE  LearnerVariants(rule, pos)
              = Offered(EditType(rule[pos]), Observed(rule, pos), pos)
  BY Zenon DEF LearnerVariants, Offered, Observed, Listed, Whole, First, Others,
               Category, Top

(* In every state, an edit of a suggestion offers the types seen in that    *)
(* place as far as the list has room, in an order that never puts a type    *)
(* after one it is a kind of (st_learner_suggest_token_variants).           *)
THEOREM LearnerVariantsObserved == LearnerSpec => []VariantsObserved
<1>1. TInv => VariantsObserved
  <2> SUFFICES ASSUME TInv, Idle, NEW s \in Accounted, NEW pos \in 1..Len(s.rule)
               PROVE  LET offered == LearnerVariants(s.rule, pos)
                          seen == {CommandType(c, pos) :
                                     c \in {d \in Commands : fed[d] > 0 /\ Len(d) >= pos
                                              /\ PrefixMatches(s.rule, pos - 1, d)}}
                          plain == PlainBefore(s.rule, pos)
                      IN /\ Len(offered) <= MaxVariants
                         /\ plain /\ s.rule[pos].kind # "comp"
                            /\ Cardinality(ToSet(offered) \ {AnyType}) < MaxVariants - 1 =>
                               seen \ {LiteralType} \subseteq ToSet(offered)
                         /\ \A i \in 2..Len(offered), j \in 2..Len(offered) :
                               i < j => <<offered[j], offered[i]>> \notin Compatible
    BY Zenon DEF VariantsObserved, PlainBefore
  <2> DEFINE rule == s.rule
             offered == LearnerVariants(rule, pos)
             O == Observed(rule, pos)
             current == EditType(rule[pos])
  <2>1. Settled /\ GoodRule(rule) /\ HeadAllowed(rule)
    BY AccountedGood DEF Settled, GoodEntry, Publishable
  <2> HIDE DEF rule
  <2>2. rule[pos] \in Token /\ current \in Types
    <3>1. rule[pos] \in Token
      BY <2>1, GoodRuleShape DEF rule
    <3>2. current \in Types
      BY <3>1, TableAssumption DEF EditType, Token, LiteralToken, WildcardToken,
                                   CompoundToken
    <3> QED BY <3>1, <3>2
  <2>3. pos \in 1..Len(rule)
    BY DEF rule
  <2>4. O \in SUBSET Types
    BY <2>1, <2>2, <2>3, ObservedShape, VariantsAssumption DEF Observed
  <2>5. offered = Offered(current, O, pos)
    BY <2>1, VariantsDef
  <2> HIDE DEF O, current, offered
  <2>6. /\ Len(offered) <= MaxVariants /\ Descends(offered)
        /\ Cardinality(ToSet(offered) \ {AnyType}) < MaxVariants - 1 =>
              O \ {LiteralType, AnyType} \subseteq ToSet(offered)
    BY <2>2, <2>4, <2>5, OfferedGood
  <2>7. ASSUME PlainBefore(rule, pos), rule[pos].kind # "comp",
               NEW c \in Commands, fed[c] > 0, Len(c) >= pos,
               PrefixMatches(rule, pos - 1, c), CommandType(c, pos) # LiteralType
        PROVE  CommandType(c, pos) \in O \ {LiteralType, AnyType}
    <3>1. CommandType(c, pos) \in ObservedTypes(rule, pos)
      BY <2>1, <2>3, <2>7, ObservedSeen
    <3>2. O = ObservedTypes(rule, pos)
      BY <3>1 DEF Observed, O
    <3>3. CommandType(c, pos) # AnyType
      <4>1. Len(rule) \in Nat /\ Len(c) \in Nat
        BY <2>1, GoodRuleShape, CommandShape
      <4>2. pos \in 1..Len(c)
        BY <2>3, <2>7, <4>1
      <4> QED BY <4>2, NeverAny
    <3> QED BY <2>7, <3>1, <3>2, <3>3
  <2>8. \A i \in 2..Len(offered), j \in 2..Len(offered) :
            i < j => <<offered[j], offered[i]>> \notin Compatible
    BY <2>6 DEF Descends
  <2>9. ASSUME PlainBefore(rule, pos), rule[pos].kind # "comp",
               Cardinality(ToSet(offered) \ {AnyType}) < MaxVariants - 1
        PROVE  {CommandType(c, pos) :
                  c \in {d \in Commands : fed[d] > 0 /\ Len(d) >= pos
                           /\ PrefixMatches(rule, pos - 1, d)}} \ {LiteralType}
                  \subseteq ToSet(offered)
    BY <2>6, <2>7, <2>9
  <2> QED BY <2>6, <2>8, <2>9 DEF offered, rule
<1> QED BY <1>1, LearnerTInv, PTL
===============================================================================
