----------------------------- MODULE AnomalyModel -----------------------------
(***************************************************************************)
(* The two n-gram models of a gate (shellgate/src/sg_anomaly.c) and the    *)
(* journal by which one sample enters both or neither.                     *)
(*                                                                         *)
(* A journal is prepared in full, then applied one table operation at a    *)
(* time, first to the raw and then to the type model; an allocation or a   *)
(* counter limit that stops it undoes what was applied, latest first.      *)
(* Decay, prune and reset build a replacement and install it at once.  A   *)
(* call that fails before it touched a table changes nothing and is not an *)
(* action.  The sticky out-of-memory diagnostic is left out.               *)
(*                                                                         *)
(* A stage is a member of Items; the n-gram tables are one function of the *)
(* live n-grams, the context tables one function of the live contexts.     *)
(***************************************************************************)
EXTENDS Integers, Sequences, FiniteSets, SequencesExt

CONSTANTS
    Items,      \* anomaly stages
    MaxOrder,   \* 4: unigrams to 4-grams
    Samples,    \* raw and type sequences of one command line
    Scales,     \* decay factors, <<numerator, denominator>>
    MinCounts,  \* thresholds of prune
    MaxCount,   \* INT64_MAX
    MaxTotal    \* SIZE_MAX

Which == {"raw", "type"}

(* A type sequence is as long as the raw one, or absent. *)
ASSUME ModelAssumption ==
    /\ Samples \subseteq [Which -> Seq(Items)]
    /\ \A s \in Samples : s["type"] = <<>> \/ Len(s["type"]) = Len(s["raw"])
    /\ \A s \in Scales : s \in Nat \X (Nat \ {0}) /\ s[1] < s[2]
    /\ MinCounts \subseteq Nat \ {0}
    /\ MaxOrder \in Nat \ {0} /\ MaxCount \in Nat \ {0} /\ MaxTotal \in Nat

VARIABLES
    models, \* raw and type model
    txns,   \* their journals
    phase,  \* of an update: applying, undoing, or none in progress
    base    \* history: the models as the last call left them

vars == <<models, txns, phase, base>>

Empty == [grams |-> <<>>, contexts |-> <<>>,
          totals |-> [k \in 1..MaxOrder |-> 0], vocab |-> 0, unk |-> 0]

NoTxn == [items |-> <<>>, applied |-> <<>>, unknown |-> 0]

Init ==
    /\ models = [w \in Which |-> Empty] /\ base = models
    /\ txns = [w \in Which |-> NoTxn] /\ phase = "idle"

-------------------------------------------------------------------------------
Put(f, k, v) == [x \in DOMAIN f \cup {k} |-> IF x = k THEN v ELSE f[x]]
Drop(f, k)   == [x \in DOMAIN f \ {k} |-> f[x]]

CountOf(m, gram)  == IF gram \in DOMAIN m.grams THEN m.grams[gram] ELSE 0
ContextOf(m, key) == IF key \in DOMAIN m.contexts THEN m.contexts[key]
                     ELSE [total |-> 0, continuations |-> 0]

(* The operations of one stage: its unigram, then each longer n-gram that  *)
(* ends there, followed at once by the context of that n-gram.             *)
ActionsAt(items, i) ==
    LET top     == IF i < MaxOrder THEN i ELSE MaxOrder
        gram(k) == SubSeq(items, i - k + 1, i)
    IN [j \in 1..(2 * top - 1) |->
          IF j > 1 /\ j % 2 = 1
          THEN [ctx |-> TRUE,  key |-> Front(gram(j \div 2 + 1))]
          ELSE [ctx |-> FALSE, key |-> gram(j \div 2 + 1)]]

Journal(items) ==
    FlattenSeq([i \in 1..Len(items) |-> ActionsAt(items, i)])

Finished(w) == Len(txns[w].applied) = Len(Journal(txns[w].items))

(* The model being updated: the type model waits for the raw one. *)
Active == IF Finished("raw") THEN "type" ELSE "raw"

Action == Journal(txns[Active].items)[Len(txns[Active].applied) + 1]

Previous(m, act) == IF act.ctx THEN ContextOf(m, act.key).total
                               ELSE CountOf(m, act.key)

AtLimit(m, act) ==
    \/ Previous(m, act) >= MaxCount
    \/ /\ ~act.ctx
       /\ \/ m.totals[Len(act.key)] = MaxTotal
          \/ Len(act.key) = 1 /\ Previous(m, act) = 0 /\ m.unk = MaxTotal

AppliedDistinct(m, act, fresh) ==   \* faulty variant: counts new contexts
    IF act.ctx
    THEN LET c == ContextOf(m, act.key) IN
         [m EXCEPT !.contexts = Put(@, act.key,
            [total |-> c.total + 1,
             continuations |-> c.continuations
                               + (IF c.total = 0 THEN 1 ELSE 0)])]
    ELSE [m EXCEPT !.grams = Put(@, act.key, CountOf(m, act.key) + 1),
                   !.totals[Len(act.key)] = @ + 1,
                   !.unk = IF Len(act.key) = 1 /\ CountOf(m, act.key) = 0
                           THEN @ + 1 ELSE @]

(* One operation; fresh says that the n-gram just counted was new. *)
Applied(m, act, fresh) ==
    IF act.ctx
    THEN LET c == ContextOf(m, act.key) IN
         [m EXCEPT !.contexts = Put(@, act.key,
            [total |-> c.total + 1,
             continuations |-> c.continuations + (IF fresh THEN 1 ELSE 0)])]
    ELSE [m EXCEPT !.grams = Put(@, act.key, CountOf(m, act.key) + 1),
                   !.totals[Len(act.key)] = @ + 1,
                   !.unk = IF Len(act.key) = 1 /\ CountOf(m, act.key) = 0
                           THEN @ + 1 ELSE @]

(* Its inverse; the count of unknown stages is restored at the end. *)
Undone(m, done) ==
    IF done.ctx
    THEN LET c == ContextOf(m, done.key) IN
         [m EXCEPT !.contexts =
            IF done.inserted THEN Drop(@, done.key)
            ELSE Put(@, done.key,
                   [total |-> c.total - 1,
                    continuations |-> c.continuations
                                      - (IF done.fresh THEN 1 ELSE 0)])]
    ELSE [m EXCEPT !.grams = IF done.inserted THEN Drop(@, done.key)
                             ELSE Put(@, done.key, CountOf(m, done.key) - 1),
                   !.totals[Len(done.key)] = @ - 1]

(* anomaly_update_txn_prepare, for both sequences *)
Begin(sample) ==
    /\ phase = "idle" /\ phase' = "apply"
    /\ txns' = [w \in Which |-> [NoTxn EXCEPT !.items = sample[w]]]
    /\ UNCHANGED <<models, base>>

(* One round of the loop of anomaly_update_txn_apply *)
Apply ==
    /\ phase = "apply" /\ ~Finished(Active) /\ ~AtLimit(models[Active], Action)
    /\ LET w     == Active
           act   == Action
           done  == txns[w].applied
           isNew == Previous(models[w], act) = 0
           fresh == act.ctx /\ Last(done).inserted
       IN /\ models' = [models EXCEPT ![w] = Applied(@, act, fresh)]
          /\ txns' = [txns EXCEPT
                ![w].applied = Append(@, [ctx |-> act.ctx, key |-> act.key,
                                          inserted |-> isNew,
                                          fresh |-> fresh]),
                ![w].unknown = IF ~act.ctx /\ Len(act.key) = 1 /\ isNew
                               THEN @ + 1 ELSE @]
    /\ UNCHANGED <<phase, base>>

(* A limit or an allocation stops it, at the latest before its end. *)
ApplyFails ==
    /\ phase = "apply" /\ ~Finished(Active)
    /\ phase' = "undo"
    /\ UNCHANGED <<models, txns, base>>

UndoEarliest ==             \* faulty variant: undoes the earliest first
    /\ phase = "undo"
    /\ LET w == IF txns["type"].applied # <<>> THEN "type" ELSE "raw" IN
       /\ txns[w].applied # <<>>
       /\ models' = [models EXCEPT ![w] = Undone(@, Head(txns[w].applied))]
       /\ txns' = [txns EXCEPT ![w].applied = Tail(@)]
    /\ UNCHANGED <<phase, base>>

(* One round of the loop of anomaly_update_txn_rollback, type before raw *)
Undo ==
    /\ phase = "undo"
    /\ LET w == IF txns["type"].applied # <<>> THEN "type" ELSE "raw" IN
       /\ txns[w].applied # <<>>
       /\ models' = [models EXCEPT ![w] = Undone(@, Last(txns[w].applied))]
       /\ txns' = [txns EXCEPT ![w].applied = Front(@)]
    /\ UNCHANGED <<phase, base>>

RolledBackOne ==            \* faulty variant: the raw model keeps the sample
    /\ phase = "undo" /\ txns["type"].applied = <<>>
    /\ models' = [w \in Which |->
                    [models[w] EXCEPT !.unk = @ - txns[w].unknown]]
    /\ txns' = [w \in Which |-> NoTxn]
    /\ phase' = "idle" /\ base' = models'

RolledBack ==
    /\ phase = "undo" /\ \A w \in Which : txns[w].applied = <<>>
    /\ models' = [w \in Which |->
                    [models[w] EXCEPT !.unk = @ - txns[w].unknown]]
    /\ txns' = [w \in Which |-> NoTxn]
    /\ phase' = "idle" /\ base' = models'

Unigrams(grams) == {gram \in DOMAIN grams : Len(gram) = 1}

(* anomaly_update_txn_commit; a model without a journal is not touched *)
Commit ==
    /\ phase = "apply" /\ \A w \in Which : Finished(w)
    /\ models' = [w \in Which |->
                    [models[w] EXCEPT !.vocab =
                        IF txns[w].items = <<>> THEN @
                        ELSE Cardinality(Unigrams(models[w].grams))]]
    /\ txns' = [w \in Which |-> NoTxn]
    /\ phase' = "idle" /\ base' = models'

-------------------------------------------------------------------------------
SumOver(grams, set) == FoldSet(LAMBDA g, sum : sum + grams[g], 0, set)

(* anomaly_rebuild_derived *)
Contexts(grams) ==
    [key \in {Front(g) : g \in {h \in DOMAIN grams : Len(h) > 1}} |->
        LET longer == {g \in DOMAIN grams : Len(g) > 1 /\ Front(g) = key} IN
        [total |-> SumOver(grams, longer),
         continuations |-> Cardinality(longer)]]

Totals(grams) ==
    [k \in 1..MaxOrder |->
        SumOver(grams, {g \in DOMAIN grams : Len(g) = k})]

Rebuilt(grams, unk) ==
    [grams |-> grams, contexts |-> Contexts(grams), totals |-> Totals(grams),
     vocab |-> Cardinality(Unigrams(grams)), unk |-> unk]

Install(w, model) ==
    /\ phase = "idle"
    /\ models' = [models EXCEPT ![w] = model]
    /\ base' = models'
    /\ UNCHANGED <<txns, phase>>

Scaled(n, scale) == (n * scale[1]) \div scale[2]

Decay(w, scale) ==
    LET m     == models[w]
        grams == [g \in {h \in DOMAIN m.grams :
                           Scaled(m.grams[h], scale) >= 1} |->
                    Scaled(m.grams[g], scale)]
    IN Install(w, Rebuilt(grams, Scaled(m.unk, scale)))

Prune(w, min) ==
    LET m     == models[w]
        grams == [g \in {h \in DOMAIN m.grams : m.grams[h] >= min} |->
                    m.grams[g]]
    IN Install(w, Rebuilt(grams, m.unk))

Reset(w) == Install(w, Empty)

Next ==
    \/ \E sample \in Samples : Begin(sample)
    \/ Apply \/ ApplyFails \/ Undo \/ RolledBack \/ Commit
    \/ \E w \in Which :
           \/ \E scale \in Scales : Decay(w, scale)
           \/ \E min \in MinCounts : Prune(w, min)
           \/ Reset(w)

Spec == Init /\ [][Next]_vars

-------------------------------------------------------------------------------

(* "Context tables and aggregate totals are derived from the four          *)
(* authoritative n-gram tables": between calls the increments of all       *)
(* updates, undone ones included, amount to a rebuild from the n-grams,    *)
(* and no counter ever passes its limit.                                   *)
DerivedExact ==
    \A w \in Which :
        /\ phase = "idle" => models[w] = Rebuilt(models[w].grams, models[w].unk)
        /\ \A g \in DOMAIN models[w].grams : models[w].grams[g] \in 1..MaxCount
        /\ \A k \in 1..MaxOrder : models[w].totals[k] <= MaxTotal
        /\ models[w].unk <= MaxTotal

(* "Applied actions have live entries" (sg_anomaly.c:782): what rollback   *)
(* removes has the one count it was inserted with, and what it decrements  *)
(* remains.                                                                *)
RollbackSafe ==
    phase = "undo" =>
        \A w \in Which : txns[w].applied # <<>> =>
            LET done == Last(txns[w].applied)
                n    == Previous(models[w], done)
            IN IF done.inserted THEN n = 1 ELSE n > 1

(* The models are the tables of NgramCounts: a sample enters both or       *)
(* neither, whichever operation fails, and nothing else changes a count.   *)
Promise == INSTANCE NgramCounts
               WITH counts <- [w \in Which |-> base[w].grams],
                    unseen <- [w \in Which |-> base[w].unk]

ImplementsCounts == Promise!Spec
===============================================================================
