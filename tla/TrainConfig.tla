------------------------------ MODULE TrainConfig ------------------------------
(***************************************************************************)
(* What a training run is configured with (src/training/train.py): the     *)
(* task's defaults, the values of the RL_TUNING dictionary in the source,  *)
(* and the command line, each checked against the rules, and the catalog   *)
(* that records which of them a value came from.  A caller may also pass a *)
(* finished configuration to launch_training().  A worker then trains with *)
(* a copy in which it sets a few leaves itself, after the catalog is made. *)
(*                                                                         *)
(* A path and a pattern are sequences of tokens; a value is a number, 0    *)
(* the default of its path, 1 a switch that is on.                         *)
(***************************************************************************)
EXTENDS Integers, Sequences, FiniteSets

CONSTANTS
    Paths,          \* the editable leaves of TrainConfig
    Resume, OptIn, Inspect,  \* agent.resume, allow_contract_changes, print_effective_config
    AgentSeed, EnvSeed,      \* agent.seed, env.seed
    NanGuard, Guarded,       \* enable_nan_guard, env.sim.nan_guard.enabled
    MotionFile, CommandMotion,  \* motion_file, that of the motion command (tracking tasks)
    Resolved,       \* the absolute path of a motion file
    Ranks,          \* the workers of a machine
    Legal,          \* the values a path may have over the value beneath
    Rules,          \* the patterns of RL_TUNING that carry no value, with categories
    ReadOnlyRules,  \* the patterns of RL_READ_ONLY
    ContractRules,  \* the patterns of _is_contract_sensitive()
    Values, Tried,  \* bound: the values that are tried, and those of a path
    MaxEntries,     \* bound: values put into the dictionary
    MaxSettings,    \* bound: those and the arguments of a command line together
    Keep

ASSUME TrainAssumption ==
    /\ {Resume, OptIn, Inspect} \subseteq Paths /\ Resume \notin {OptIn, Inspect}
    /\ {AgentSeed, NanGuard, MotionFile} \subseteq Paths
    /\ Paths \subseteq Seq(STRING) /\ \A p \in Paths : \A i \in DOMAIN p : p[i] # "*"
    /\ Values \subseteq Nat /\ {0, 1} \subseteq Values /\ Ranks \subseteq Nat
    /\ Legal \in [Paths -> [Values -> SUBSET Values]]
    /\ Tried \in [Paths -> SUBSET Values]
    /\ Resolved \in [Values -> Nat]
    /\ \A r \in Rules : r.pattern \in Seq(STRING) /\ r = [category |-> r.category,
                                                          pattern |-> r.pattern]
    /\ ReadOnlyRules \cup ContractRules \subseteq Seq(STRING)
    /\ Keep \notin Values

VARIABLES
    dictionary,   \* RL_TUNING: the entries with a value: category, pattern, value
    run,          \* what the process that was started last made of its layers
    worker        \* one of the workers it launched: what that one trains with

vars == <<dictionary, run, worker>>

-----------------------------------------------------------------------------
(* Rules *)

\* Mutant: a pattern is the path it names.
PatternEquals(pattern, path) == pattern = path

\* _path_pattern_matches()
PatternMatches(pattern, path) ==
    /\ Len(pattern) = Len(path)
    /\ \A i \in DOMAIN path : pattern[i] \in {"*", path[i]}

Specificity(pattern) == Cardinality({i \in DOMAIN pattern : pattern[i] # "*"})

\* The rules for a path: the most specific of those that match.
BestMatches(path, rules) ==
    LET all == {r \in rules : PatternMatches(r.pattern, path)}
    IN {r \in all : \A s \in all : Specificity(s.pattern) <= Specificity(r.pattern)}

ReadOnly(path) ==
    BestMatches(path, {[category |-> Keep, pattern |-> r] : r \in ReadOnlyRules}) # {}

Sensitive(path) == \E r \in ContractRules : PatternMatches(r, path)

\* The rules without the dictionary decide every path: the shipped ones let a
\* run begin (build_parameter_catalog() of the task's defaults).
ASSUME RulesAreSettled ==
    \A p \in Paths : ReadOnly(p) \/ \A r, s \in BestMatches(p, Rules) : r = s

\* Paths whose checks are about this command, not about the training.
Controls == {OptIn, Inspect}

\* build_parameter_catalog() refuses a path with two best rules; a read-only
\* path is not looked up.
Ambiguous(path) ==
    /\ ~ReadOnly(path)
    /\ Cardinality({[category |-> e.category, pattern |-> e.pattern] :
                       e \in BestMatches(path, dictionary \cup Rules)}) > 1

CatalogFails == \E p \in Paths : Ambiguous(p)

-----------------------------------------------------------------------------
(* Layers.  A layer is a function from some of the paths to values. *)

Over(layer, cfg) ==
    [p \in DOMAIN layer \cup DOMAIN cfg |-> IF p \in DOMAIN layer THEN layer[p] ELSE cfg[p]]

Baseline == [p \in Paths |-> 0]

\* active_rl_tuning_overrides() refuses a wildcard with a value and a path
\* that has two.
DictionaryFails ==
    \/ \E e \in dictionary : "*" \in {e.pattern[i] : i \in DOMAIN e.pattern}
    \/ \E e, f \in dictionary : e # f /\ e.pattern = f.pattern

DictionaryLayer ==
    [p \in {e.pattern : e \in dictionary} |-> (CHOOSE e \in dictionary : e.pattern = p).value]

\* apply_tuning_entries(): a layer is refused as a whole; a value is checked
\* against the one beneath, even when it repeats it.
Refuses(cfg, layer, optIn) ==
    \E p \in DOMAIN layer :
        \/ p \notin Paths \/ ReadOnly(p)
        \/ Sensitive(p) /\ (Over(layer, cfg)[Resume] = 1 \/ ~optIn)
        \/ layer[p] \notin Legal[p][cfg[p]]

\* diff_parameter_values()
Changes(before, after) ==
    [p \in {q \in Paths \ Controls : before[q] # after[q]} |-> after[p]]

\* build_effective_catalog(): what each layer changed, or Keep.
Record(below, above, p) == IF below[p] = above[p] THEN Keep ELSE above[p]

\* Mutant: the command line is compared with the task's defaults.
CatalogOfDefaults(base, tuned, final) ==
    [p \in Paths |-> [default |-> base[p], tuning |-> Record(base, tuned, p),
                      cli |-> Record(base, final, p), final |-> final[p]]]

Catalog(base, tuned, final) ==
    [p \in Paths |-> [default |-> base[p], tuning |-> Record(base, tuned, p),
                      cli |-> Record(tuned, final, p), final |-> final[p]]]

-----------------------------------------------------------------------------
(* Runs *)

Refused(by, asked) ==
    [by |-> by, asked |-> asked, verdict |-> "refused", cfg |-> Baseline,
     catalog |-> Catalog(Baseline, Baseline, Baseline)]

NoRun == [Refused("cli", << >>) EXCEPT !.verdict = "none"]

\* prepare_train_config() and main(): the inspection prints and returns.
Prepare(argv) ==
    LET optIn == Over(DictionaryLayer, Baseline)[OptIn] = 1
        tuned == Over(DictionaryLayer, Baseline)
        parsed == Over(argv, tuned)
        changes == Changes(tuned, parsed)
        validated == Over(changes, tuned)
        final == [p \in Paths |-> IF p \in Controls THEN parsed[p] ELSE validated[p]]
    IN IF \/ CatalogFails \/ DictionaryFails
          \/ Refuses(Baseline, DictionaryLayer, optIn)
          \/ Refuses(tuned, changes, parsed[OptIn] = 1)
          \/ DOMAIN Changes(final, parsed) # {}
       THEN Refused("cli", argv)
       ELSE [by |-> "cli", asked |-> argv,
             verdict |-> IF final[Inspect] = 1 THEN "printed" ELSE "trains",
             cfg |-> final, catalog |-> Catalog(Baseline, tuned, final)]

\* launch_training() without a manifest: _build_programmatic_manifest()
\* compares with the defaults and knows no dictionary.
Programmatic(args) ==
    LET changes == Changes(Baseline, args)
        validated == Over(changes, Baseline)
        final == [p \in Paths |-> IF p \in Controls THEN args[p] ELSE validated[p]]
    IN IF \/ CatalogFails
          \/ Refuses(Baseline, changes, args[OptIn] = 1)
          \/ DOMAIN Changes(final, args) # {}
       THEN Refused("caller", args)
       ELSE [by |-> "caller", asked |-> args, verdict |-> "trains", cfg |-> args,
             catalog |-> Catalog(Baseline, Baseline, final)]

\* The layers a user can write: some paths, with values of their types.
Layers ==
    LET domains == {T \in SUBSET Paths :
                       Cardinality(dictionary) + Cardinality(T) <= MaxSettings}
    IN {l \in UNION {[S -> Values] : S \in domains} : \A p \in DOMAIN l : l[p] \in Tried[p]}

Patterns == Paths \cup {r.pattern : r \in Rules}
Categories == {r.category : r \in Rules}

\* A value is written into the source, between two runs.
Edit ==
    /\ run = NoRun
    /\ Cardinality(dictionary) < MaxEntries
    /\ \E c \in Categories, p \in Patterns, v \in Values :
          /\ v \in IF p \in Paths THEN Tried[p] ELSE {1}
          /\ \A e \in dictionary : e.category = c => e.pattern # p
          /\ dictionary' = dictionary \cup {[category |-> c, pattern |-> p, value |-> v]}
    /\ UNCHANGED <<run, worker>>

TrainFromCli ==
    /\ run = NoRun
    /\ \E argv \in Layers : run' = Prepare(argv)
    /\ UNCHANGED <<dictionary, worker>>

TrainFromCaller ==
    /\ run = NoRun
    /\ \E changes \in Layers : run' = Programmatic(Over(changes, Baseline))
    /\ UNCHANGED <<dictionary, worker>>

\* What the worker of a rank trains with; the rank counts on GPUs only.
Trained(cfg, rank) ==
    [p \in Paths |->
        IF p \in {AgentSeed, EnvSeed} THEN cfg[AgentSeed] + rank
        ELSE IF p = CommandMotion THEN Resolved[cfg[MotionFile]]
        ELSE IF p = Guarded /\ cfg[NanGuard] = 1 THEN 1
        ELSE cfg[p]]

NoWorker == [at |-> "none", rank |-> 0, cfg |-> Baseline]

\* run_train(): a tracking task fails without its motion file, or when the
\* file is not there.
Work ==
    /\ run.verdict = "trains" /\ worker = NoWorker
    /\ \/ /\ CommandMotion \in Paths => run.cfg[MotionFile] # 0
          /\ \E rank \in Ranks :
               worker' = [at |-> "trains", rank |-> rank, cfg |-> Trained(run.cfg, rank)]
       \/ /\ CommandMotion \in Paths
          /\ worker' = [NoWorker EXCEPT !.at = "failed"]
    /\ UNCHANGED <<dictionary, run>>

Finish == run # NoRun /\ run' = NoRun /\ worker' = NoWorker /\ UNCHANGED dictionary

Init == dictionary = {} /\ run = NoRun /\ worker = NoWorker

Next == Edit \/ TrainFromCli \/ TrainFromCaller \/ Work \/ Finish

Spec == Init /\ [][Next]_vars

-----------------------------------------------------------------------------
(* Properties *)

\* The record of a run names every path, with a value it may have had, and so
\* does what a worker trains with.
TypeOK ==
    /\ run.by \in {"cli", "caller"}
    /\ run.verdict \in {"none", "refused", "printed", "trains"}
    /\ run.cfg \in [Paths -> Values]
    /\ \A p \in Paths : run.catalog[p] \in
          [default : {0}, tuning : Values \cup {Keep}, cli : Values \cup {Keep}, final : Values]
    /\ worker \in [at : {"none", "trains", "failed"}, rank : Nat, cfg : [Paths -> Nat]]

Accepted == run.verdict \in {"printed", "trains"}

\* What a set of patterns means: a path is covered when it is one of them with
\* some of its tokens left open.
Covered(path, patterns) ==
    \E open \in SUBSET DOMAIN path :
        [i \in DOMAIN path |-> IF i \in open THEN "*" ELSE path[i]] \in patterns

Contract == {p \in Paths \ Controls : Covered(p, ContractRules)}
Fixed == {p \in Paths \ Controls : Covered(p, ReadOnlyRules)}

\* What the catalog says the dictionary left of a leaf.
Beneath(p) ==
    IF run.catalog[p].tuning # Keep THEN run.catalog[p].tuning ELSE run.catalog[p].default

\* An accepted configuration has every read-only leaf as the task has it.
\* Every other value its catalog names is legal over the one it replaced, and
\* a layer that changed the contract was opted in to and did not resume.
AcceptedIsSafe ==
    Accepted =>
        /\ \A p \in Fixed : run.cfg[p] = 0
        /\ \A p \in Paths :
              LET r == run.catalog[p]
              IN /\ r.tuning # Keep => r.tuning \in Legal[p][r.default]
                 /\ r.cli # Keep /\ p \notin Controls => r.cli \in Legal[p][Beneath(p)]
        /\ \A p \in Contract :
              LET r == run.catalog[p]
              IN /\ r.tuning # Keep => Beneath(OptIn) = 1 /\ Beneath(Resume) # 1
                 /\ r.cli # Keep => run.cfg[OptIn] = 1 /\ run.cfg[Resume] # 1

\* A configuration with another contract resumes in one case only: the
\* dictionary changed the contract and the command line resumes.
FreshContract ==
    Accepted /\ run.cfg[Resume] = 1 /\ (\E p \in Contract : run.cfg[p] # 0) =>
        /\ \A p \in Contract : run.catalog[p].cli = Keep
        /\ run.catalog[Resume].cli = 1

\* The dictionary's values fit the rules: it says one thing of a pattern, and
\* under the category the rules have the pattern in, and of no wildcard.
DictionaryFits ==
    \A e \in dictionary :
        /\ \A f \in dictionary : e.pattern = f.pattern => e = f
        /\ \A r \in Rules : e.pattern = r.pattern => e.category = r.category
        /\ \A i \in DOMAIN e.pattern : e.pattern[i] # "*"

\* A layer that comes to cfg may set a path to a value over another.
MaySet(path, value, over, cfg) ==
    /\ path \in Paths
    /\ value \in Legal[path][over]
    /\ ~Covered(path, ReadOnlyRules)
    /\ Covered(path, ContractRules) => cfg[OptIn] = 1 /\ cfg[Resume] # 1

\* The dictionary under a run, and what all its layers say; a caller's
\* configuration has no dictionary under it.
TunedOf == IF run.by = "cli" THEN Over(DictionaryLayer, Baseline) ELSE Baseline
Said == Over(run.asked, TunedOf)

\* Layers that stay in the rules train: every value of the dictionary, and
\* every leaf that the command line or the caller has changed.  An exact value
\* beside the wildcards that cover its leaf is no conflict.
LegalTrains ==
    /\ DictionaryFits
    /\ run.by = "cli" => \A e \in dictionary : MaySet(e.pattern, e.value, 0, TunedOf)
    /\ \A p \in DOMAIN run.asked \ Controls :
          run.asked[p] # TunedOf[p] => MaySet(p, run.asked[p], TunedOf[p], Said)
    => run.verdict # "refused"

\* Each layer is judged by the rules over what is beneath it: nothing they
\* forbid is accepted, and nothing they allow is refused.
RulesDecide == TypeOK /\ AcceptedIsSafe /\ LegalTrains /\ FreshContract

\* The leaves a worker sets itself.
Synced == {AgentSeed, EnvSeed, CommandMotion, Guarded}

\* What the layers of a run say, the highest first: an argument beats the
\* dictionary and the dictionary the task, an argument that repeats the task's
\* default included.  It is what is accepted, and what a worker trains with in
\* every leaf but the ones it sets.
HighestLayerWins ==
    /\ Accepted => run.cfg = Said
    /\ worker.at = "trains" => \A p \in Paths \ Synced : worker.cfg[p] = Said[p]

\* The catalog that is saved with a run (params/tuning.yaml) explains what was
\* accepted: its layers replayed over the defaults give every value.
CatalogReplays ==
    Accepted =>
        \A p \in Paths :
            LET r == run.catalog[p]
                replayed == IF r.cli # Keep THEN r.cli ELSE Beneath(p)
            IN replayed = r.final /\ r.final = run.cfg[p]

\* The highest layer that names a leaf decides it, and the saved catalog can be
\* replayed to the configuration that was accepted.
LayersAreReplayable == HighestLayerWins /\ CatalogReplays

==============================================================================
