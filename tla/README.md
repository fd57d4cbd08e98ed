# Shellclave in TLA+

Shellclave decides whether a shell command line may run. It is a set of C
libraries; this directory models the parts of it that keep state, prove
something about a set of rules, or combine several failures into one verdict,
checks them with TLC and proves the most important results with TLAPS. The
definitions are translated from the C source; `PROJECT.json` maps each of them
to the lines it stands for.

    tlc -config MCPolicyEval.cfg MCPolicy      # one run
    tlapm GateCalibrationProofs.tla            # one proof

Contents: [the system](#the-system), [modules](#the-modules-and-the-code),
[runs](#the-runs), [proofs](#the-proofs), [disagreements](#disagreements-with-the-documentation),
[limits](#what-is-not-modelled), [plan](#plan).

## The system

| library | part | state | operations |
|---|---|---|---|
| shelltype | policy (`policy.c`) | trie, pattern registry, length buckets, pattern count, epoch, eight levels of position filters, a rwlock | add, remove, clear, batch add, merge, load, compact, eval, match, suggest, diff, save |
| | matching and subsumption (`policy.c`, `normalize.c`) | none | `pattern_subsumes`, `matching_walk_locked` |
| | type variants (`trie_variants.c`) | none | `st_token_variants_at` |
| | policy context (`policy_ctx.c`) | reference count, interned strings, a mutex | new, retain, release, intern, reset, swap of the storage |
| | learner (`trie.c`, `trie_variants.c`) | counting trie of learned commands, blacklist, configuration | feed, suggest, variants of a token, blacklist, save, load |
| | netpattern codec (`netpattern.c`, `shell_netstring.c` in shellsplit) | none | encode, decode, read a record |
| | classification (`normalize.c`), arena, checksum | none, or private | |
| | atomic file replacement (`io.h`, `sg_io.h` in shellgate) | a temporary file | begin, commit, discard |
| shellgate | evaluation (`shellgate.c`) | the result under construction | `sg_gate_evaluate` |
| | calibration (`shellgate.c`) | score window, threshold, score histograms | enable, disable, setters, load, record |
| | anomaly model (`sg_anomaly.c`) | n-gram counters of two models | update of a pair, score, decay, prune, save, load |
| shellsplit | source runtime (`shell_source_runtime.c`) | per thread: the operation in progress, an index of lexical facts and its lease, a scratch arena | begin, end, suspend, restore, index, scope, workspace, scratch, iterator |
| | dependency graph (`shell_depgraph.c`) | while it is built: per scope a set of possible statuses and a directory for each | read the next command, enter and leave a group |
| | tokenizer, processor, expansion | none that outlives a call | parse one command line |

How they meet: a *gate* borrows or owns an allow and a deny policy, which share
one policy context. `sg_gate_evaluate` has shellsplit parse the line into simple
commands, asks both policies about each (`st_policy_eval_view`), folds the
answers into one verdict, and then lets two anomaly models learn the line and
the calibration record its score. Policies and models are saved through the
atomic file replacement.

What is hard about each, and what makes it correct:

* **policy**. Four indexes of one set of rules are maintained by hand, an
  allocation may fail between any two of them, and evaluation uses filters that
  it rebuilds lazily: it drops its read lock, takes the write lock, and answers
  under a third lock, in whatever state the policy is by then. Correct is: the
  verdict is always exactly "some active rule matches", the indexes agree, the
  rules are an antichain under subsumption, and a batch, merge or load is all or
  nothing.
* **subsumption**. A rule that is covered by another one is dropped for good, so
  an unsound answer silently narrows a policy. Words are classified depending on
  the option before them, which a rule may have generalised away.
* **policy context**. One reference count stands for callers, policies and
  policies under construction, and compaction and reset decide by its value whose
  pointers they may invalidate.
* **calibration**. A threshold is a cached function of a window of scores which
  all must have been measured with the same models and the same way of combining
  them; nine calls can invalidate that, in any order.
* **evaluation**. The verdict starts as ALLOW and two dozen returns leave the
  function; truncation, failures, five stop modes, redirect-only commands,
  unresolved arithmetic and substitutions compete for the result, and a caller
  whose buffer was too small calls again.
* **anomaly model**. A sample updates two models, or neither, through a journal
  that is rolled back when an allocation fails.
* **learner**. A feed counts, remembers metadata and creates nodes on its way down
  a trie and must take back all of it when an allocation fails half way. Typed
  nodes drop the text of their values, and still the support shown for a
  suggestion must be that of the commands fed, or be withheld.
* **netpattern codec**. Rules are compared by their bytes, so a decoder must
  accept exactly the text the encoder writes, also from an edited or damaged
  file; lengths may overflow or run past the input.
* **dependency graph**. One pass over the line decides for every command whether
  it surely, maybe or never runs, and in which directory. Two streams, one of
  statuses and one of directories, are kept apart and must agree; children,
  background lists, negation, aborted input units and `exit` each transfer other
  outcomes, and they nest. Saying less is allowed, saying what is not so is not.
* **source runtime**. Parsers nest, user callbacks parse again, and all of them
  share one thread-local operation: an index whose entries are told apart by a
  generation that wraps, and an arena allocated from both ends, whose size and
  marks are restored in the order of the nesting.
* **file replacement**. A crash between flush, sync, rename and parent sync must
  leave the old or the new file.

`PROJECT.json` lists these hazards one by one, each at the line where it bites.

## The modules and the code

| module | models | instantiated by |
|---|---|---|
| `TokenMatch` | tokens, classification tables, `Matches` (the trie walk), `Subsumes` (`pattern_subsumes`) | everything below about policies |
| `RuleUniverse` | the rules and commands of a client, any set of them | `Subsumption`, `PolicyCore` |
| `TypeLattice` | the real compatibility relation of `normalize.c` | `MCSubsumption`, `MCLearner` |
| `Subsumption` | the add-time comparison of every rule with every other | `RuleStore` |
| `RuleVariants` | `st_token_variants_at` and the rewriting of one token of a rule | `MCSubsumption` |
| `Netstring` | length-prefixed records, their writer and two readers | `NetPattern` |
| `NetPattern` | encoding and decoding of a rule | `RuleStore` |
| `RuleStore` | the record of a rule in a policy file, whole or damaged | `MCSubsumption` |
| `Learner` | the trie, feeds with rollback, limits | `LearnerSuggest` |
| `LearnerSuggest` | suggestions, their support, learned variants | `LearnerFile` |
| `LearnerFile` | save and load of the trie | `MCLearner` |
| `SourceRuntime` | the operation of one thread, its index and arena | `MCSourceRuntime` |
| `PolicyCore` | the storage of one policy as a value, each operation a function on it | `Policy` |
| `RuleSet` | abstract: a policy is a set of maximal rules | `Policy` (refinement) |
| `Policy` | one policy under its rwlock, staged replacements, evaluating threads | `MCPolicy` |
| `PolicyCtx` | one context shared by policies and callers | `MCPolicyCtx` |
| `ControlFlow` | the two streams of the dependency graph, read in source order | `ShellRun` |
| `ShellRun` | the shell that runs the same line, in step | `MCShellRun` |
| `GateEvaluate` | `sg_gate_evaluate` with retries | `MCGateEvaluate`, with `MCShellRun` for the construction of the graph |
| `ScoreWindow` | abstract: a sliding window of scores of one regime | `GateCalibration` (refinement) |
| `GateCalibration` | enable, disable, setters, load, record | `MCGateCalibration` |
| `NgramCounts` | abstract: two tables that learn a sample together | `AnomalyModel` (refinement) |
| `AnomalyModel` | the journalled update of two models, decay, prune, reset | `MCAnomalyModel` |
| `ReplacedFile` | abstract: a path that shows a complete version through crashes | `AtomicOutput` (refinement) |
| `AtomicOutput` | begin, write, commit, discard of a save, call by call | `AtomicOutput.cfg` |
| `*Proofs` | theorems about the module they extend | |

State and steps, and what they stand for:

* **Rules.** A rule is a sequence of tokens (`lit`, `wild`, `comp`); a command is
  a sequence of words. How a word is classified, alone or after an option, is a
  table, a constant. The proofs only assume what the code guarantees of the
  tables (`TableAssumption`, `AnyAssumption`); the runs use small ones, and for
  types the real relation.
* **Policy.** `live` is an `st_policy` as a record: trie states named by the path
  that leads to them, registry slots, length buckets, counters, epoch, filters.
  One critical section of the rwlock is one action. `Add` includes the removal
  of covered rules, `Extend` the filter updates made while states are inserted,
  and the set `lost` the filters that could not grow. `AddFails` is an
  allocation failure after any number of tokens. `job` and `staged` are a batch,
  load or compaction half way: a batch keeps the write lock, a load does not.
  A thread in `policy_eval` looks at the filters (`EvalFresh`, `EvalStale`), waits
  for the write lock and rebuilds (`EvalRebuild`), takes its last read lock
  (`EvalRelock`) and holds it, with writers waiting, until `EvalReturn`. The
  answer itself changes nothing and is `Verdict(live, command)`, compared with
  the truth in every state because the last read lock may be taken in any. The
  first look holds its lock within one step: it changes nothing and waits for
  nothing else.
* **Context.** `refcount` beside what it should count (`callers`, `live`,
  `staging`), and generations for string pools: `strings[p]` are the pools a
  policy points into, `freed` those that are gone. The exclusivity check of a
  compaction (`CompactCheck`) and the swap (`CompactSwap`) are two steps, since
  the lock of the policy does not protect the context.
* **Evaluation.** `pc` walks through parse, violations, score, the loop over the
  commands, aggregation, suggestion and learning; every early return is a
  `Return`. The command line is a record of what the parser and graph find in
  it; capacity and memory failures are choices. `room` is the result buffer in
  strings, and `calls` a caller that retries.
* **Dependency graph.** The line is the input, chosen as it is read: a stage is the
  operators around it, whether its list ends with `&`, whether its pipeline is
  negated, and whether it begins an input unit. `status` of a scope is
  `dep_control_stream_t`, a set of outcomes; `flow` is `dep_cwd_flow_t`, a function
  from the outcomes present (the mask) to directories. `ReadCommand` is one round of
  the main loop, `OpenGroup` and `CloseGroup` the rounds of the group cursors;
  `Entry` is what both streams find before a stage (`dep_control_stream_advance`,
  `dep_cwd_begin`), `After` what they leave behind it, with the return of the parent
  from a background list. `shells` holds, per scope, the one status and directory a
  shell really has there. It is written from the comments and tests of
  shellsplit, which describe Bash, and shares no operator with the analysis; a
  stage that is skipped is read all the same. Composed with `GateEvaluate`
  (`MCGateEvaluate`), the lines are read between `Parsed` and `GraphBuilt`.
* **Calibration.** One variable per field of the gate. A score carries the model
  generation and regime it was measured with, which is what the code cannot see
  and the invariants speak about. The threshold is the pair of factor and
  multiset of scores its formula is applied to.
* **Anomaly model.** The n-gram tables of one model are one function from
  n-grams to counts, the context tables another. The journal is derived from the
  sample, `txns[w].applied` is its applied part with `inserted` and
  `new_continuation`; `Apply` and `Undo` are one round of their loops. `base`
  remembers the models as the last call left them.
* **Saving.** `pc` is the next system call. Directory entries and files have,
  beside their value, the set of values a crash may restore (`dirMay`,
  `partsMay`, `modeMay`), each entry by itself; `fsync` reduces the set to the
  current value. That is weaker than what journalling file systems do, so what
  holds here holds there.

* **Codec.** A byte is a one-character string; rules are those of `TokenMatch`, and
  the spelling of a word, a type or a parameter is a table. `SizeMax` is small, so
  that a length overflows within the text of a rule. `RuleStore` keeps the record
  of the rule being compared; `Damage` alters, loses or adds one byte or cuts the
  tail, which is all a reader meets when a file was edited or only partly written.
  The checksum is left out: without it the reader has to do all the work.
* **Learner.** A node is named by its path of literal and wildcard tokens, so the
  trie is a function of paths. `Feed` checks the limits and counts the root,
  `InsertWord` is one round of the loop, and at any word that makes a node
  `Rollback` may undo it all. `fed` is history, the bag of commands behind the
  trie; the invariants compare with it what the code computes without the texts.
  Suggestions, support and variants are operators over the trie and checked in
  every state between calls. A file is the list of rows a save writes; the foreign
  files are legal rows with illegal sums, labels or metadata.
* **Source runtime.** `op` is `source_operation`; `calls` is what the calls in
  progress will restore, one frame per call. A view is an interval of
  addresses, an arena is measured in units, a block is an extent. The hash of the
  index is a sum modulo the capacity. `caller` chooses which of the two stores a
  behaviour uses: facts of the index, or blocks of the arena; the code keeps them
  in separate fields, so that mixing them would only multiply the states. What
  parsers may do with buffers is `MayBring`: a nested consumer of the same text
  brings no buffer, the current one or an unused one; one that reads another text
  brings none, and enters while no block lives in `operation.scratch`. That is how
  the parsers call it; a nested view outside the text occurs in the
  tests only (`source_test.c:4201-4214`).

Definitions marked "faulty variant" are what a plausible mistake would make of
the definition after them. No action uses them; they document which mistake each
property would catch.

## The runs

| run | shows | bounds |
|---|---|---|
| `policy_staged` | Indexes agree, the scan shortcut is exact, staged operations publish the maximal rules, and all that implements `RuleSet`: the rules stay an antichain and adding only widens. | Six rules of one and two tokens that cover each other in chains; three identifiers, so that the registry is exhausted while covered rules still free slots; two batches; epochs up to 4. |
| `policy_eval` | The verdict is exact and the filters conservative in every state an evaluation may see, and once clients call no more, every evaluation answers. | Two threads, which is what an upgrade of a read lock needs to deadlock; three rules, two filter levels, epochs up to 3: a rebuild can be overtaken twice. |
| `subsumption` | Soundness of `pattern_subsumes` over every pair of rules; the variants of a token widen the rule and are complete when there is room; a record reads back to the rule it was written from, and whatever reads is a canonical rule; both netstring readers find the records a writer could have put. | Two-token rules, the shortest with a context-dependent second word; every token kind; all types and capacities around the longest chain. The proofs cover other lengths and tables. Damage is one byte or a cut, at every offset of the records of a few rules with each token kind. |
| `learner` | The trie is what was fed; failed feeds leave no trace; limits are exact; supports are those of the commands; variants are complete and ordered; suggestions can be added as they stand. | Eleven commands of up to two words over the real type tables, with typed heads, options with equal prefixes, metadata that agrees and disagrees, and a word that is a signal only after `-s`; counters up to 4; five foreign files. |
| `source_runtime` | The index answers only with facts of the operation that asks; it has one user and is free at the end; extents of an arena never overlap, and array facts are those of the view. | One source with a document and two array candidates and a part of it without candidates, a short one with a conditional; a generation that wraps after two operations; three places for facts in two slots; one fact inline; a workspace larger and one no larger than the inline arena; three calls nested. 1.9 million states. |
| `policy_ctx` | Counting, no dangling strings, timely destruction. | Three policies (symmetric), two callers, three storage generations. Three policies give one that is staged, one past its check and one bystander. |
| `policy_ctx_released` | Violation, see below. | Two policies suffice. |
| `gate_calibration` | One regime per window, exact threshold, histograms current, no needless reset, and the ring is a `ScoreWindow`. | Windows of 1 and 3 around a histogram minimum of 2, so that each can be the deciding one; two weightings; two generations of models. Histogram totals count up to `MaxSamples`, the largest value they are compared with. |
| `gate_evaluate` | A permission covers the whole line, failures are undetermined, the verdict is that of the documented precedence, a line is learnt once. In the graph, the real status is among those said to be possible, "always" and "never" are so, and a known directory is the real one. | Lines of up to three commands with four kinds of answers each, a cap of two results (the code has 64), buffers of 0 to 4 strings, two calls; five stop modes. The graph reads lines of three commands (but the two kinds named below, which `InReach` leaves out), one group or two, nested twice, with four commands: `true`, `cd /a`, `exit`, and `cd` with a word that may fail to expand; two directories. Reading depends on neither gate nor answers, so it is followed for one of each. 2.4 million states. |
| `control_flow_exit` | Violation, see below. | Three commands and a group. |
| `anomaly_model` | Both models learn or neither, rollback meets what it expects, derived tables are exact. | Samples that repeat stages in different patterns in the two models, one of them absent; a count limit of 3 and an aggregate limit of 4, both reached in the middle of a journal. |
| `atomic_output` | Acknowledged saves survive, modes are kept, temporary files owned, and the path is a `ReplacedFile`: it shows complete contents through failures and crashes. | Two saves, contents of two parts, two temporary names that may already be taken, all kinds of destination. |

Deadlock is checked where the system never stops (`anomaly_model`,
`gate_calibration`, `atomic_output`, `subsumption`, `source_runtime`). In the others bounds end it (epochs,
generations of storage, calls), or it is a single computation.

**Fairness.** Only `EvalTerminates` of `policy_eval` needs it, and only weak fairness
of each thread: one that stages a replacement goes on, and so does one inside
`policy_eval` as long as the lock is free for it. Nothing is assumed of how the lock is
granted: `pthread_rwlock_init` gets no attributes (`policy.c:1170`), and the default
prefers readers. A thread that waits to rebuild may starve while others keep
reading, or while mutators keep taking the lock, and the model has such
behaviours; what it would mean to exclude them, the code does not say. The property is
therefore about clients that stop: if from some point on no evaluation, mutator or
staged operation begins (`<>[][~ClientCall]_vars`), every evaluation under way
answers. What it excludes is a circle of threads that wait for one another. While
calls go on nothing is promised of a single evaluation.

## The proofs

Assumptions of constants are the `ASSUME`s of the modules; TLC evaluates them in
the runs.

* **`PolicyProofs`, subsumption.** If `p` subsumes `q`, every command `q` matches is
  matched by `p`; subsumption is a partial order (`SubsumesSelf`, `Transitive`,
  `SubsumesAntisymmetric`), so a set of rules has exactly one set of maximal
  ones. For any tables that are a partial order and consistent with the masks,
  rules of any length. The argument is
  one lemma per pair of token kinds; its core (`LiteralTypesCover`) is that a
  word classified at run time, after an actual option, has a type among those
  that the rule side considers possible, even when the option was generalised.
* **`PolicyProofs`, the types offered for a token (`VariantsRight`).** Whatever type a user
  picks from the list of `st_token_variants_at`, the edited rule is legal and subsumes the one
  it was made from, so by `SubsumptionSound` no command is lost; and a list that is not full
  has every type above each classification the token may have. It rests on
  `LatticeAssumption` about the tables of `normalize.c`: LITERAL is the bottom, the join is the
  least upper bound, what generalises a wildcard type is a chain, and a word satisfies the
  type it is classified as. Along the chain the narrowest type not listed yet is the
  successor of the last one, so the loop misses none (`WidenedLists`, by induction on the room
  left). Two things of the model were wrong and came out here: the early return for a rule
  with an illegal head (trie_variants.c:33-35) was missing, and completeness was claimed for
  the largest capacity only, whereas it holds for any list that is not full.
* **`PolicyProofs`, the policy.** All safety properties of the policy, for any rules, type
  tables, limits, batches, threads and filter levels, under every interleaving
  and failure. Two invariants carry them.

  The filter check never rejects what the trie accepts (`FiltersSound`).
  `FilterSound` is not inductive: it speaks of accepting states, and removals and
  failed insertions leave others that a later add turns into accepting ones
  without visiting the filter. `IInv` covers every state of the trie: the last
  token of each is in the filter of its level, and a staged policy has no filter
  at all, which is what makes publication safe.

  The storage invariant `SInv` says of the live and of the staged policy that
  registry, trie, buckets and counters agree (`Stored`) and that no active rule
  covers another; the wildcard counts are only bounds, because clearing keeps
  them. It is proved operation by operation, first as lemmas about values
  (`ExtendStored`, `CommitStored`, `RemoveStored`, `AddStored`): a free id exists
  whenever an add gets that far, by counting; pruning stops at the states of other
  rules, also when an exhausted registry makes it run while the new rule is in
  the trie but not yet in the registry. `ScanExact` shows that the shortcut of add
  decides like the scan: a rule without wildcards compares only with itself. `JobInv`
  is the part about a batch, load or compaction half way: the staged rules
  are an antichain that covers everything taken over so far. As subsumption is a
  partial order, such an antichain is the set of maximal rules, whatever order the
  rules came in (`MaximalCovers`), which gives `PublicationExact`; `EvaluationExact`
  joins both invariants, and `Refinement` maps every step to one of `RuleSet` or to
  a stutter.
* **`PolicyCtxProofs`.** Exact counting, no dangling pointer, timely destruction
  and exclusive compaction for any finite set of policies, assuming that callers
  keep a reference while policies live (`~CallerMayRelease`). `IInv` adds that
  current strings are in the current generation, that only a destroyed or
  replaced generation is freed, and that a policy past its check cannot have
  staged. Without the assumption the properties are false; see the first
  disagreement.
* **`GateCalibrationProofs`.** The type invariant (the write position stays in the
  ring), the four other state invariants of the calibration and
  the action property `KeepsCalibration`, for any windows, weights, factors and
  number of reloads. `SingleRegime` becomes inductive with `RingShape`: until the
  ring is full the write position equals the count, so retained scores are a
  prefix; scores exist only in adaptive mode with a window and models.
  `HistShape` says that freed histograms hold no samples: a gate in Bayesian mode
  without histograms therefore does not use them.

  The ring is a sliding window (`RingIsWindow`): every step observes one score, starts
  `ScoreWindow` over or leaves it alone. Where the j-th oldest score lies is worked out
  once (`Placed`); a ring that fills up grows the window at its end, a full one
  moves every score one place down although only one slot is written.

* **`LearnerProofs`.** A feed that fails leaves the trie as it was (`FeedAtomic`),
  no counter inside the trie meets its limit before the total does
  (`LimitsExact`), and the trie says exactly what was learned (`TrieExact`), for any
  commands, type tables and limits. `FeedAtomic` is far
  from inductive: `IInv` describes the trie half way through a feed by the trie
  before it, the nodes the feed passed with one more command, and the nodes it
  created as exactly the tail of its path, none of which existed before. That the
  limit on observations cannot be met follows from typed nodes having as many
  observations as commands.

  For `TrieExact`, `TInv` adds that the trie before the feed is exact and that each node
  passed is its former self with one word counted. When the feed is done, its path is
  exact for the commands with the new one (`CountedExact`): a bucket that was empty takes
  the metadata of its first value, one in agreement stays so only if the new value
  agrees, and a mixed one stays mixed (`ObserveFirst`, `ObserveNext`). The counts
  are sums over the commands below a node; `SumsDef` shows that the recursive function
  behind such a sum exists, `SumsShape` and `SumsRaised` what it yields and how it
  changes with one more command. Their induction takes, of the sets for which the claim fails, a
  smallest one (`Least`, `SmallestSet`). There are finitely many commands, as words
  and their number are bounded (`LearnerAssumption`, `trie.c:238-245`). These theorems are
  about feeds, blacklists and configurations (`LearnerSpec`); that a load keeps
  them is checked by `learner`.

  The three functions that read the trie are proved from `TInv` alone, for any
  vocabulary and type tables.
  `SupportExact`: the nodes a walk reaches have disjoint sets of commands below them
  (`BelowApart`), and the evidence a node keeps, a count of observations or the one
  metadata all its values share, says of every command below it whether it fits
  (`EvidenceRight`); what it leaves open goes to the commands themselves (`Fallback`).
  That a proposal fits what it was made from (`ContinuationsGood`) is an induction on
  the `Height` of a node, by a smallest counterexample, with `JoinAssumption`: a join
  is no literal and above both types, and a type matches itself (the tables of
  `normalize.c` and `policy.c:477`).
  `SuggestionsUsable` needs it: a shown suggestion has support, so some command
  fits it, and two candidates with the same rule have the same support and scope and
  are the same candidate.
  `VariantsObserved`: `Ordered` is sorted and has each type once (a smallest set for
  which it is not would lose its first element and still be one), so the list is
  truncated only when full; a command let through by the tokens before the place is
  found by the walk. `VariantsAssumption` is about the tables: no word is
  classified `*`, and the general categories, `PATH` and `VALUE`, have only `*` above.
  The first attempt failed: a walk through an option with a typed value (`--n=#n`) takes
  only literal nodes, as a typed bucket cannot prove an affix (`trie_variants.c:131`),
  so a command whose word the classifier had typed as a whole is not found. The
  property now says so; it holds for places with no such option, and no type that
  asks for a text, before them. An instance with no such word had hidden it.

* **`GateEvaluateProofs`.** A permit covers the whole line (`AuthorizesWhole`), the
  verdict is the one the answers determine (`VerdictExact`), and a line is learned
  once (`LearnsOnce`), for any lines, gates, buffer capacities and number of
  retries. `IInv` follows a call through its steps: before the walk there are no
  results; while nothing failed the results are the answers of the retained
  commands in order, all of them unless the walk stopped; and `Settled`, the
  verdict that is learned from, is what will be returned. The argument assumes
  (`EvaluateAssumption`) that no command, redirect or arithmetic is found in a
  text that the parser refuses.

  What the graph of such a line says of its stages is what the shell does with
  them (`RunsAsSaid`, `CwdAsSaid`), for any commands, directories, nesting and
  length, on the lines within `InReach` (`Deviations = {}`). `RunIInv` says of every open
  scope that it `Agrees` with its shell: the real status is a possible one, and
  the flow `Names` the real directory or none. That alone is not inductive; needed are also
  what a pipeline (`PipeAgrees`) and a background list (`LaunchAgrees`) were entered
  with, since later stages and the parent return to it, and for every
  open group that its stage is `Matched` to its turn in the shell
  (`GroupAgrees`). The control stream hands a later stage the status
  of the stage before, so a group there may start with a status its shell does not
  have. The invariant survives this because both are statuses of commands that
  returned: a first stage runs with either, a background list resumes with success
  after either (`Covers`), and only a bare `exit` would tell them apart.
  `Entering`, `Passing` and `CommandLeaves` are the three facts about a stage: what is
  said at its entry, that scope and shell agree after it, and that the static status and flow of
  a command cover its effects. The last is the only one that needs the exclusions of
  `InReach`, one for each of the two kinds of lines of which the code says something else.

* **`RuleFileProofs`, the text of a rule.** Wherever a record is read in a line of the
  file, the iterator and the stream reader agree, and find one exactly where the writer
  could have put it (`FramingExact`); a saved rule loads to itself, and what loads from a
  damaged line begins with the line the writer makes of the loaded rule (`LoadExact`).
  Both hold for any vocabulary, words, limits, `SIZE_MAX` and kinds of damage. The
  inductive invariant is short (`StoreInv`: the text is a sequence of bytes shorter than
  `SIZE_MAX`); the weight is in the operators, none of which may be
  proved about by induction over sequences. A recursive function is first shown to exist,
  on ever longer intervals (`DecimalDef`, `FoldExists`, `RecordsDef`,
  `FlattenDef`), and its
  properties follow from the least number for which they would fail (`LeastNat`).
  On these rest, in turn: `SizeOf` and `Decimal` are inverse on canonical digits
  and no sum overflows unnoticed (`SizeOfCanonical`, `SizeStepFits`); both readers find a
  record just where its text is (`NextFound`, `StreamFound`, `WrittenSlice`); records laid
  end to end are read back in order (`ChainRecords`); every token of a rule is read back
  from its fields, a compound from its parts (`TokenReads`, `CompoundReads`), so the whole rule is
  (`RuleReads`, `SavedLoads`). That nothing else loads (`LoadsCanonical`) needs the last check of
  `st_netpattern_decode_view`, which encodes again what it read. Assumed are
  `BytesAssumption` and `TextAssumption` (texts are made of bytes, limits are numbers),
  `VocabularyAssumption` (a wildcard is a short C string, and no spelling of one
  parameter is another wildcard: `st_type_symbol`, `st_metadata_entries`) and
  `StoreAssumption`: a policy only has rules the encoder accepted, and a netpattern of the
  greatest length fits the cap of the reader, `ST_MAX_NETPATTERN_LEN + 32`
  (`policy.c:3434`), and leaves room below `SIZE_MAX`.

* **`RuleFileProofs`, the file.** An acknowledged save survives (`AckedSurvives`), the mode
  is kept (`ModeKept`), a save removes only its own file (`OwnsItsFile`), and the
  path implements `ReplacedFile`, for any names, parts, modes and number of saves,
  with every call failing and crashes anywhere. `IInv` says of each entry a crash
  may leave at the path that its file is `Settled`: complete, with the mode of the
  first, and with nothing else a crash could restore. The file being written is
  not among them until `rename`, and `Progress` shows that it is settled by then.
  In the mapping nothing torn is ever shown (`NothingTorn`), so a rename is an
  `Install`, the synchronisation of the directory a `Settle`, and a return with
  success an `Acknowledge`.

* **`SourceRuntimeProofs`.** The index of the thread has one user (`LeaseExact`) and no
  index answers with a fact that its operation did not put last (`IndexFresh`), for any
  capacity, number of probes, generations, callers and depth of nesting. `IInv` has three
  parts. `Nesting`: the depth of an operation is the number of calls opened since the last
  callback, so that a callback returns to an idle thread. `Ownership`: among the running
  and the suspended operations no two have the same index, and the lease is taken exactly
  if one has that of the thread. `Freshness`: an entry of an operation's generation is a
  fact it knows, lies where a probe from its home reaches it, and on the way there the probe
  meets neither a free slot nor the same fact. The last part is what `IndexFresh`
  needs: a put that reuses an expired entry, or evicts one, in front of the old
  entry of the same fact would leave two, and the older might answer later; it
  cannot, because a probe reuses only after it has looked for the fact (`HeldOnce`,
  `EntryChoice`). Generations of earlier operations are below the current one until
  it wraps, and then the table is cleared (`LeasedFresh`).

  The arena stays intact (`ArenaIntact`) for any buffers, sizes, depth of nesting and
  order of takes and releases. `ArenaInv` is needed because the end of a workspace
  puts back what its beginning found, so the property must hold of states that are no
  longer current. It says of the operation at hand and of the ones a callback suspends
  that they are `Valid`: `Packed` (blocks in order up to `used`, facts from `size` on,
  every extent in its buffer and apart from the others) with its array facts where
  `Facts` looks for them. Of the calls in progress it says, in `Stacked`, that
  what each workspace call found is valid too; that a level which shares its arena with
  the one below `Continues` it, since a mark lies above all the call found (`Marked`), so
  that restoring the old `used` cuts only blocks of the level that ends; and that the
  extents of a level lie in buffers of the levels below or its own (`Buffered`), so that a
  buffer not in use holds none. `Iterates` is the same for an iterator: between its
  calls what it keeps at the tail of its workspace is valid on its own (`Kept`). Each
  kind of step has a lemma on the record of one level (`PackedTake`,
  `PackedRelease`, `PackedReserve`, `EnteredValid`, `LeftValid`) and one on
  the stack (`StackedEnter`, `StackedLeave`, `StackedStay`). The proof assumes that
  the constants of `operation.scratch`, the owned workspace and "no buffer" differ and that
  sizes are natural numbers (`RuntimeAssumption`).

* **`AnomalyModelProofs`.** Rollback meets what it expects (`RollbackSafe`), a failed
  update leaves no trace in either model (`RollbackRestores`), and the tables
  maintained by increments are those of a rebuild (`DerivedExact`), for any samples,
  orders, factors and limits. None of these is inductive: what one round of rollback
  meets depends on all rounds of the apply loop before it. `IInv` therefore says of each model
  that there is a trail of models from the one the update began with to the one
  now, each one operation of the journal after the other (`IsTrail`); a round of apply
  lengthens it, a round of rollback drops its end (`StepUndone`). The number of unknown
  stages is not on the trail, as only the end of a rollback restores it. While operations
  are applied, contexts and totals are derived from the n-grams but for the
  context of the n-gram just counted (`DerivedBut`); that the journal always
  pairs the two is `JournalWellFormed`. A model derived in this sense is the
  result of `anomaly_rebuild_derived` (`DerivedRebuilt`), which needs the sums of counts:
  the sum of a set exceeds that of its part, and grows by one with a count
  (`SumLess`, `SumRaised`). `RebuiltModel` and `ShrunkModel` show that decay, prune and reset
  stay within the limits.

  The refinement of `NgramCounts` (`Refinement`) needs what a journal counts. `Hits` are
  the operations of a journal that count a given n-gram; stage by stage there is
  exactly one where the n-gram ends and none elsewhere (`StageHits`), so the journal has as
  many as the sample has occurrences (`JournalCounts`). `RInv` adds to `IInv` that while an
  update is applied each count is the former one plus the operations so far, and the
  unknown stages are those among the single stages that were not there before. A
  rollback then is a stutter, a commit the learning of the whole sample.

Every safety and action property of a passing run is the statement of a theorem.
Only model-checked are liveness (`EvalTerminates`) and that loading a saved learner
keeps what `LearnerProofs` proves of feeds. The preorder of a saved trie is recursive over
a sequence of lines and would need, like the codec of rules, a proof that each function
exists and one of what it yields.

## Disagreements with the documentation

1. **An exclusive context may have two policies** (`policy_ctx_released`).
   `st_policy_ctx_swap_storage` (`policy_ctx.c:298`) takes a count of two for "one
   policy and its caller". `shelltype.h` lets a caller release its reference
   once policies exist; two policies then count two as well, and the compaction
   of one frees the strings of the other, where `policy.c:1975-1977` promises
   `ST_ERR_INVALID`.
2. **An exit that finds the wrong status** (`control_flow_exit`). The first
   command of a compound inherits `incoming` of the compound
   (`shell_depgraph.c:10081`), which for a later stage of a pipeline is the status
   of the stage before it; the comment at 10121 says that a stage enters "not with
   the return status of the preceding stage". In

       true; false | { exit; } && cd /tmp; ls

   the graph takes the compound for failed and `ls` for a command in the directory
   the line started in, known; Bash runs it in `/tmp`. The directory flow, which
   enters the stage with its pipeline, has it right; the two streams disagree. The
   other runs leave these lines out (`Deviations`).

A second kind of line is left out in the same way: in a negated pipeline the
errors of expanding a word in a child are added to its outcomes after the negation
(`shell_depgraph.c:26918-26920`), although the child returns them like any other
failure and the comment before says that every phase has contributed by then.
In `! true | : ${u?} && cd /tmp; ls` the list goes on, and the graph says it cannot.
`Deviations = {"negated error"}` with a command `Does({"ok"}, {"exitFail"}, Stay)`
shows it.

A third disagreement has no run of its own: **a truncated violation list is no bar**.
`shellgate.h:780-784` names `violation_truncated` as one of three kinds of truncation and
says that any truncated result leaves the verdict UNDETERMINED "rather than
authorizing incomplete output", and learning unchanged. When the list is full and
its strings fit, the code only sets the flag (`shellgate.c:4328`): the call returns
`SG_OK` with the verdict of the policies, ALLOW included, and the models learn. The
tests expect that (`test_shellgate.c:10615-10617`). `VerdictExact` follows the code and
leaves this truncation out. `Done /\ violationsCapped => verdict \notin Permits`, which
is what the header says, is violated as an invariant of `gate_evaluate` within eight
steps: a call with one allowed command, everything in its buffer and the list full
ends with ALLOW.

Also met, and not counted as disagreements: `SG_STOP_FIRST_FAIL` stops at the
first command no rule matches, so an explicit denial does not stop it; a failing
`close` of the directory makes a save report an error although the new file is
installed and settled; when a command does not fit the buffer any more its result is already
counted, with the zero verdict of `memset`, which is `SG_VERDICT_ALLOW`
(`shellgate.c:4509`), where `shellgate.h:772-774` calls partial results valid. The
verdict of the whole evaluation is UNDETERMINED, as documented.

## What is not modelled

* Character-level code: tokenizers, word classification, the quoted text form of
  rules, source admission, JSON and text of results. The models take tokens,
  tables and outcomes as given.
* Floating point: anomaly scores, the arithmetic of the threshold, entropy.
  Scores are compared only by where they come from.
* Of the dependency graph everything but control and directory flow: redirects
  and their setup failures, command substitutions, variables and attributes,
  descriptors, pipes and documents, nodes and edges; of directory flow the
  scopes of redirect-only commands and the text of paths. Loops, conditionals and
  functions are not part of the grammar it reads. Its outcome for the gate, built
  or failed, is an input of `GateEvaluate`.
* Expansion and the processor of shellsplit: sequential, without retained state.
* In parts that are modelled: suggestions, dry runs and the diff of two policies,
  statistics, the text of files, the hash table of the string pool, false
  positives of vacuum filters (they only cost time), the type cache of the gate,
  the sticky out-of-memory flags, compaction of hash tables.
* Of the source runtime: alignment and overflow of sizes, the flag of
  admitted bytes, the height kept with a fact. The size `shell_source_workspace_size`
  finds for a text is a constant (`WorkspaceSize`).
* An iterator with a workspace that is advanced inside another operation
  (`shell_source_runtime.c:488-503` with `persistent` false): every iterator
  inside the library is initialised without limits and so has no workspace, and
  callbacks suspend the operation. Without a workspace an advance is
  `OperationBegin` and `WorkspaceBegin`.
* Of the learner: the limit on the length of a suggested rule, which only drops
  proposals (`trie.c:476-479`), iteration over its nodes, the text and checksum of its files,
  the growth of arrays. Of policy files: the header, count and checksum lines.
* Concurrent mutators of one policy and concurrent saves to one path, which the
  headers exclude.

## Plan

The order was: the policy (everything rests on it), then subsumption, which its
correctness rests on, then the shared context, the verdict, the calibration, the
anomaly models, saving; then the learner, the codec, the source runtime and the
control flow of the dependency graph. What
could come next, in this order:

1. `Suggest` and `Diff` in `Policy`: a suggestion accepted by the caller is added
   without losing a command; a diff applied to one policy gives the other.
2. `Bundle`: `sg_gate_save_anomaly_model` and `load` over `AtomicOutput` and
   `AnomalyModel`: two models in one file, a crash in between, a checksum that
   fails.
