-------------------------------- MODULE Policy --------------------------------
(***************************************************************************)
(* One shelltype policy under its rwlock: mutators, the staged            *)
(* replacements of batch add, merge, load and compaction, and concurrent   *)
(* evaluations that rebuild the position filters lazily.                   *)
(*                                                                         *)
(* Everything done inside one critical section of the rwlock is one        *)
(* action.  A batch and a compaction build their staged policy while they  *)
(* hold the write lock, so evaluations wait; a load builds it before it    *)
(* takes the lock, so evaluations run meanwhile.  Mutators are serialised  *)
(* against one another, as shelltype.h requires of callers.  It asks them  *)
(* to keep evaluations out too; the code locks against evaluations all the *)
(* same, and the model interleaves them at every lock boundary.            *)
(* A thread that answers holds its read lock from one step to the next, so *)
(* that writers wait for it.                                               *)
(*                                                                         *)
(* Every allocation may fail; MaxEpoch bounds the epoch for TLC.           *)
(***************************************************************************)
EXTENDS PolicyCore

CONSTANTS
    Readers,    \* threads that evaluate commands
    Batches,    \* rule sequences given to batch add, merge and load
    MaxEpoch

ASSUME PolicyAssumption ==
    /\ Batches \subseteq Seq(Rules)
    /\ MaxEpoch \in Nat

VARIABLES
    live,   \* the policy clients see
    staged, \* the replacement under construction
    job,    \* the staged operation in progress
    reader  \* per thread: where it is in policy_eval

vars == <<live, staged, job, reader>>

JobKinds == {"none", "batch", "compact", "load"}
NoJob    == [kind |-> "none", clear |-> FALSE, old |-> {}, new |-> <<>>,
             next |-> 1]

(* clear: a load that replaces (clear_first); old: live ids still to be     *)
(* copied; new: the rules to add; next: the first of them not added yet.    *)
Job == [kind : JobKinds, clear : BOOLEAN, old : SUBSET Ids, new : Seq(Rules),
        next : Nat]

(* at: "waiting" for the write lock, having seen stale filters; "relocking" *)
(* after the rebuild; "answering" under its last read lock.  length: of the *)
(* command, while the rebuild has still to look at it.                      *)
Out    == [at |-> "out", length |-> 0]

Init ==
    /\ live = EmptyPolicy
    /\ staged = EmptyPolicy
    /\ job = NoJob
    /\ reader = [r \in Readers |-> Out]

(* Who holds the rwlock: a batch or a compaction the write lock, a thread   *)
(* that answers a read lock.                                                *)
WriteLocked == job.kind \in {"batch", "compact"}
ReadLocked  == \E r \in Readers : reader[r].at = "answering"

Mutable     == job = NoJob /\ live.epoch < MaxEpoch /\ ~ReadLocked

-------------------------------------------------------------------------------
(* st_policy_add_netpattern_view *)

Add(rule) ==
    /\ Mutable
    /\ HeadAllowed(rule)
    /\ ~Redundant(live, rule) /\ ~AtLimit(live, rule)
    /\ \E lost \in SUBSET Levels : live' = AddRule(live, rule, lost)
    /\ UNCHANGED <<staged, job, reader>>

(* An allocation fails after n tokens of the path were inserted: the rule  *)
(* is not published, the states stay behind, the epoch does not move.      *)
AddFails(rule) ==
    /\ Mutable
    /\ HeadAllowed(rule)
    /\ ~Redundant(live, rule) /\ ~AtLimit(live, rule)
    /\ \E n \in 0..Len(rule), lost \in SUBSET Levels :
           live' = Extend(live, rule, n, lost)
    /\ UNCHANGED <<staged, job, reader>>

RemoveCovered(rule) ==      \* faulty variant: takes the covered rules too
    /\ Mutable
    /\ live' = [RemoveIds(live, {i \in ActiveIds(live) :
                                   Subsumes(rule, live.reg[i])})
                   EXCEPT !.epoch = @ + 1]
    /\ UNCHANGED <<staged, job, reader>>

(* st_policy_remove_netpattern_view *)
Remove(rule) ==
    /\ Mutable
    /\ \E i \in ActiveIds(live) :
           /\ live.reg[i] = rule
           /\ live' = [RemoveIds(live, {i}) EXCEPT !.epoch = @ + 1]
    /\ UNCHANGED <<staged, job, reader>>

Clear ==
    /\ Mutable
    /\ live' = Cleared(live)
    /\ UNCHANGED <<staged, job, reader>>

-------------------------------------------------------------------------------
(* Staged operations.  batch add and merge re-add the live rules and then  *)
(* the new ones; a load does so unless it replaces; a compaction only      *)
(* re-adds the live rules.                                                 *)

Start(kind, clear, new) ==
    /\ job = NoJob /\ live.epoch < MaxEpoch
    /\ ReadLocked => kind = "load"
    /\ job' = [kind |-> kind, clear |-> clear,
               old |-> IF clear THEN {} ELSE ActiveIds(live),
               new |-> new, next |-> 1]
    /\ staged' = EmptyPolicy
    /\ UNCHANGED <<live, reader>>

BatchBegin(batch)       == Start("batch", FALSE, batch)
LoadBegin(batch, clear) == Start("load", clear, batch)
CompactBegin            == live.count > 0 /\ Start("compact", FALSE, <<>>)

StagingShort ==             \* faulty variant: forgets the last new rule
    job.kind # "none" /\ (job.old # {} \/ job.next < Len(job.new))

(* The next rule to stage: live rules in id order, then the new ones. *)
Staging == job.kind # "none" /\ (job.old # {} \/ job.next <= Len(job.new))

NextOld == CHOOSE i \in job.old : \A j \in job.old : i <= j

StagedRule == IF job.old # {} THEN live.reg[NextOld] ELSE job.new[job.next]

JobAdvanced ==
    IF job.old # {} THEN [job EXCEPT !.old = @ \ {NextOld}]
                    ELSE [job EXCEPT !.next = @ + 1]

StageAdd ==
    /\ Staging
    /\ UNCHANGED <<live, reader>>
    /\ job' = JobAdvanced
    /\ HeadAllowed(StagedRule)
    /\ \/ /\ Redundant(staged, StagedRule)
          /\ staged' = staged
       \/ /\ ~Redundant(staged, StagedRule) /\ ~AtLimit(staged, StagedRule)
          /\ staged' = AddRule(staged, StagedRule, {})

(* A rule is refused, or an allocation (or, for a compaction, the storage  *)
(* swap of the context) fails: the staged policy is dropped.               *)
Abandon ==
    /\ job.kind # "none"
    /\ job' = NoJob
    /\ staged' = EmptyPolicy
    /\ UNCHANGED <<live, reader>>

Publish ==
    /\ job.kind # "none" /\ ~Staging /\ ~ReadLocked
    /\ live' = IF job.kind = "compact" THEN Compacted(live, staged)
                                       ELSE Published(live, staged)
    /\ job' = NoJob
    /\ staged' = EmptyPolicy
    /\ UNCHANGED reader

-------------------------------------------------------------------------------
(* policy_eval.  The filters are looked at under a read lock.  Fresh ones   *)
(* lead to the answer under that lock.  Otherwise it is dropped and the     *)
(* write lock taken, to rebuild them unless another thread did; the answer  *)
(* is then read under a new read lock, in whatever state the policy is by   *)
(* then, without looking at the epoch again.                                *)

Moves(r, place) == reader' = [reader EXCEPT ![r] = place]

EvalFresh(r, command) ==
    /\ reader[r] = Out /\ ~WriteLocked
    /\ ~Stale(live, Len(command))
    /\ Moves(r, [at |-> "answering", length |-> 0])
    /\ UNCHANGED <<live, staged, job>>

EvalStale(r, command) ==
    /\ reader[r] = Out /\ ~WriteLocked
    /\ Stale(live, Len(command))
    /\ Moves(r, [at |-> "waiting", length |-> Len(command)])
    /\ UNCHANGED <<live, staged, job>>

EvalRebuildUpgrades(r) ==   \* faulty variant: the read lock is kept meanwhile
    /\ reader[r].at = "waiting" /\ ~WriteLocked
    /\ \A q \in Readers \ {r} : reader[q].at \notin {"waiting", "answering"}
    /\ \E complete \in BOOLEAN, lost \in SUBSET Levels :
           live' = IF Stale(live, reader[r].length)
                   THEN Rebuild(live, complete, lost) ELSE live
    /\ Moves(r, [at |-> "relocking", length |-> 0])
    /\ UNCHANGED <<staged, job>>

EvalRebuild(r) ==
    /\ reader[r].at = "waiting" /\ ~WriteLocked /\ ~ReadLocked
    /\ IF Stale(live, reader[r].length)
       THEN \E complete \in BOOLEAN, lost \in SUBSET Levels :
                live' = Rebuild(live, complete, lost)
       ELSE live' = live
    /\ Moves(r, [at |-> "relocking", length |-> 0])
    /\ UNCHANGED <<staged, job>>

EvalRelock(r) ==
    /\ reader[r].at = "relocking" /\ ~WriteLocked
    /\ Moves(r, [at |-> "answering", length |-> 0])
    /\ UNCHANGED <<live, staged, job>>

EvalReturn(r) ==
    /\ reader[r].at = "answering"
    /\ Moves(r, Out)
    /\ UNCHANGED <<live, staged, job>>

Next ==
    \/ \E rule \in Rules : Add(rule) \/ AddFails(rule) \/ Remove(rule)
    \/ Clear
    \/ \E batch \in Batches : BatchBegin(batch)
    \/ \E batch \in Batches, clear \in BOOLEAN : LoadBegin(batch, clear)
    \/ CompactBegin
    \/ StageAdd \/ Abandon \/ Publish
    \/ \E r \in Readers :
           \/ \E command \in Commands : EvalFresh(r, command)
           \/ \E command \in Commands : EvalStale(r, command)
           \/ EvalRebuild(r) \/ EvalRelock(r) \/ EvalReturn(r)

Spec == Init /\ [][Next]_vars

(* Each thread keeps running: the one that stages a replacement, and those  *)
(* inside policy_eval.  Weak fairness only: the rwlock has the default      *)
(* attributes (policy.c:1170) and promises a waiting writer nothing while   *)
(* other threads keep taking it.                                            *)
Fairness ==
    /\ WF_vars(Abandon \/ StageAdd \/ Publish)
    /\ \A r \in Readers :
           WF_vars(EvalRebuild(r) \/ EvalRelock(r) \/ EvalReturn(r))

FairSpec == Spec /\ Fairness

-------------------------------------------------------------------------------
(* Properties *)

Members(batch) == {batch[i] : i \in 1..Len(batch)}

(* Maximal rules of a set: what subsumption leaves of it. *)
Maximal(rules) ==
    {a \in rules : \A b \in rules : b # a => ~Subsumes(b, a)}

(* policy_eval answers exactly "some active rule matches" at every moment  *)
(* an evaluation may take its final read lock, however stale the filters.  *)
EvalExact ==
    \A c \in Commands :
        Verdict(live, c) = (\E rule \in ActiveRules(live) : Matches(rule, c))

(* The position filters never reject a command the trie accepts            *)
(* (policy.c:2522, "must remain conservative").                            *)
FilterSound ==
    \A c \in Commands : WalkAccepts(live, c) => FilterPasses(live, c)

(* Registry, trie, length buckets and rule count describe the same rules;  *)
(* save writes pattern_count in its header and then one record for each    *)
(* accepting state, and load refuses a file where they differ.             *)
StorageAgrees ==
    /\ \A i \in ActiveIds(live) :
           /\ live.pid[live.reg[i]] = i
           /\ Path(live.reg[i], Len(live.reg[i])) \subseteq live.nodes
    /\ \A rule \in Rules :
           live.pid[rule] # NoId => live.reg[live.pid[rule]] = rule
    /\ \A n \in Lengths : live.bucket[n] =
           {i \in ActiveIds(live) : Len(live.reg[i]) = n}
    /\ live.count = Cardinality({r \in Rules : live.pid[r] # NoId})

(* The shortcut of add is exact: skipping the scan for a concrete rule     *)
(* never misses an active rule that covers it, nor one it covers.          *)
ScanSkipExact ==
    \A rule \in Rules :
        /\ Redundant(live, rule) <=>
               \E a \in ActiveRules(live) : Subsumes(a, rule)
        /\ ~Redundant(live, rule) =>
               {live.reg[i] : i \in Subsumed(live, rule)} =
                   {a \in ActiveRules(live) : Subsumes(rule, a)}

(* A staged operation is atomic: it installs the maximal rules of the live *)
(* rules (none for a replacing load) and all the new ones, and a trie      *)
(* without the dead states of the old one.                                 *)
PublishExact ==
    [][Publish =>
           /\ ActiveRules(live') =
                  Maximal((IF job.clear THEN {} ELSE ActiveRules(live))
                              \cup Members(job.new))
           /\ job.kind = "compact" =>
                  live'.nodes = {<<>>} \cup
                      UNION {Path(r, Len(r)) : r \in ActiveRules(live)}]_vars

(* A client calls: it evaluates a command, starts a staged operation or     *)
(* changes the policy.                                                      *)
ClientCall ==
    \/ \E r \in Readers : reader[r] = Out /\ reader'[r] # Out
    \/ job = NoJob /\ (job' # NoJob \/ (live' # live /\ reader' = reader))

(* The threads of policy_eval never wait for one another in a circle        *)
(* (policy.c:2499-2516): once clients call no more, every evaluation        *)
(* answers, in whatever order staged operations and the threads that found  *)
(* stale filters get the lock.                                              *)
EvalTerminates ==
    <>[][~ClientCall]_vars =>
        \A r \in Readers : reader[r] # Out ~> reader[r] = Out

-------------------------------------------------------------------------------
Rule == INSTANCE RuleSet WITH rules <- ActiveRules(live)

(* The policy implements the plain set of rules of RuleSet.                *)
ImplementsRuleSet == Rule!Spec
===============================================================================
