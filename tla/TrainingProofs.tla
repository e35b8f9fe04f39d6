---------------------------- MODULE TrainingProofs ---------------------------
(***************************************************************************)
(* What training promises of its settings, of the failures it counts while *)
(* it samples a motion, and of the swings it charges, for every catalog,   *)
(* every rule set and every length of an episode.                          *)
(***************************************************************************)
EXTENDS Training, FiniteSetTheorems, SequenceTheorems, WellFoundedInduction, TLAPS

(* The configuration of a run *)

\* Whatever is in the dictionary, a run that is recorded is what the layers it
\* was started with come to, and what its worker trains with is made of that.
Entries == [category : Categories, pattern : Patterns, value : Values]

RunIsMade ==
    /\ dictionary \subseteq Entries
    /\ \/ run = NoRun
       \/ \E argv \in Layers : run = Prepare(argv)
       \/ \E changes \in Layers : run = Programmatic(Over(changes, Baseline))
    /\ \/ worker = NoWorker
       \/ worker = [NoWorker EXCEPT !.at = "failed"]
       \/ /\ run.verdict = "trains"
          /\ \E rank \in Ranks :
                worker = [at |-> "trains", rank |-> rank, cfg |-> Trained(run.cfg, rank)]

Tuned == Over(DictionaryLayer, Baseline)

LEMMA OverFacts ==
    ASSUME NEW f, NEW g
    PROVE  /\ DOMAIN Over(f, g) = DOMAIN f \cup DOMAIN g
           /\ \A x \in DOMAIN f : Over(f, g)[x] = f[x]
           /\ \A x \in DOMAIN g \ DOMAIN f : Over(f, g)[x] = g[x]
           /\ Over(f, g) = [x \in DOMAIN f \cup DOMAIN g |-> Over(f, g)[x]]
  BY DEF Over

LEMMA OverAt ==
    ASSUME NEW f, NEW g, NEW x
    PROVE  /\ x \in DOMAIN f => Over(f, g)[x] = f[x]
           /\ x \in DOMAIN g /\ x \notin DOMAIN f => Over(f, g)[x] = g[x]
  BY DEF Over

\* A layer over a whole configuration is a whole configuration.
LEMMA OverIsWhole ==
    ASSUME NEW f, NEW g \in [Paths -> Values], DOMAIN f \subseteq Paths,
           \A p \in DOMAIN f : f[p] \in Values
    PROVE  Over(f, g) \in [Paths -> Values]
  BY DEF Over

LEMMA BaselineIsWhole ==
    /\ Baseline \in [Paths -> Values] /\ \A p \in Paths : Baseline[p] = 0
    /\ 0 \in Values
<1>1. \A p \in Paths : 0 \in Values
  BY TrainAssumption
<1>2. OptIn \in Paths
  BY TrainAssumption
<1>3. QED
  BY <1>1, <1>2 DEF Baseline

LEMMA LayerTypes ==
    ASSUME NEW l \in Layers
    PROVE  /\ DOMAIN l \subseteq Paths /\ l = [p \in DOMAIN l |-> l[p]]
           /\ \A p \in DOMAIN l : l[p] \in Values
<1>1. PICK S \in SUBSET Paths : l \in [S -> Values]
  BY DEF Layers
<1>2. QED
  BY <1>1 DEF Layers

\* What the dictionary says of a path is what one of its entries does.
LEMMA DictionaryLayerFacts ==
    ASSUME dictionary \subseteq Entries
    PROVE  /\ DOMAIN DictionaryLayer = {e.pattern : e \in dictionary}
           /\ \A p \in DOMAIN DictionaryLayer : \E e \in dictionary :
                 e.pattern = p /\ DictionaryLayer[p] = e.value
           /\ \A p \in DOMAIN DictionaryLayer : DictionaryLayer[p] \in Values
<1>1. DOMAIN DictionaryLayer = {e.pattern : e \in dictionary}
  BY DEF DictionaryLayer
<1>2. ASSUME NEW p \in DOMAIN DictionaryLayer
      PROVE  \E e \in dictionary : e.pattern = p /\ DictionaryLayer[p] = e.value
  <2> DEFINE e == CHOOSE x \in dictionary : x.pattern = p
  <2>1. e \in dictionary /\ e.pattern = p
    BY <1>1
  <2>2. DictionaryLayer[p] = e.value
    BY <1>1 DEF DictionaryLayer
  <2>3. QED
    BY <2>1, <2>2
<1>3. \A p \in DOMAIN DictionaryLayer : DictionaryLayer[p] \in Values
  BY <1>2 DEF Entries
<1>4. QED
  BY <1>1, <1>2, <1>3

\* The changes between two configurations, put over the first, are the second,
\* but for the controls.
LEMMA ChangesFacts ==
    ASSUME NEW f, NEW g
    PROVE  /\ DOMAIN Changes(f, g) = {q \in Paths \ Controls : f[q] # g[q]}
           /\ \A p \in DOMAIN Changes(f, g) : Changes(f, g)[p] = g[p]
  BY DEF Changes

LEMMA ChangesAt ==
    ASSUME NEW f, NEW g, NEW p
    PROVE  /\ p \in DOMAIN Changes(f, g) <=> p \in Paths \ Controls /\ f[p] # g[p]
           /\ p \in DOMAIN Changes(f, g) => Changes(f, g)[p] = g[p]
  BY DEF Changes

LEMMA ChangesRebuild ==
    ASSUME NEW f, DOMAIN f = Paths, NEW g, NEW p \in Paths \ Controls
    PROVE  Over(Changes(f, g), f)[p] = g[p]
<1>1. CASE p \in DOMAIN Changes(f, g)
  BY <1>1, ChangesAt, OverAt
<1>2. CASE p \notin DOMAIN Changes(f, g)
  <2>1. f[p] = g[p]
    BY <1>2, ChangesAt
  <2>2. Over(Changes(f, g), f)[p] = f[p]
    BY <1>2, OverAt
  <2>3. QED
    BY <2>1, <2>2
<1>3. QED
  BY <1>1, <1>2

LEMMA RefusalFacts ==
    ASSUME NEW cfg, NEW layer, NEW optIn, ~ Refuses(cfg, layer, optIn),
           NEW p \in DOMAIN layer
    PROVE  /\ p \in Paths /\ ~ ReadOnly(p) /\ layer[p] \in Legal[p][cfg[p]]
           /\ Sensitive(p) => Over(layer, cfg)[Resume] # 1 /\ optIn
  BY DEF Refuses

\* What a command line that was accepted came to.
LEMMA CliFacts ==
    ASSUME dictionary \subseteq Entries, NEW argv \in Layers, run = Prepare(argv),
           run.verdict # "refused"
    PROVE  LET parsed == Over(argv, Tuned)
           IN  /\ run.by = "cli" /\ run.asked = argv /\ run.verdict \in {"printed", "trains"}
               /\ Tuned \in [Paths -> Values] /\ parsed \in [Paths -> Values]
               /\ DOMAIN DictionaryLayer \subseteq Paths
               /\ run.cfg = parsed /\ run.catalog = Catalog(Baseline, Tuned, parsed)
               /\ ~ Refuses(Baseline, DictionaryLayer, Tuned[OptIn] = 1)
               /\ ~ Refuses(Tuned, Changes(Tuned, parsed), parsed[OptIn] = 1)
<1> DEFINE optIn == Tuned[OptIn] = 1
           parsed == Over(argv, Tuned)
           changes == Changes(Tuned, parsed)
           validated == Over(changes, Tuned)
           final == [p \in Paths |-> IF p \in Controls THEN parsed[p] ELSE validated[p]]
           fails == \/ CatalogFails \/ DictionaryFails
                    \/ Refuses(Baseline, DictionaryLayer, optIn)
                    \/ Refuses(Tuned, changes, parsed[OptIn] = 1)
                    \/ DOMAIN Changes(final, parsed) # {}
<1>1. Prepare(argv) =
        IF fails THEN Refused("cli", argv)
        ELSE [by |-> "cli", asked |-> argv,
              verdict |-> IF final[Inspect] = 1 THEN "printed" ELSE "trains",
              cfg |-> final, catalog |-> Catalog(Baseline, Tuned, final)]
  BY DEF Prepare, Tuned
<1>2. Refused("cli", argv).verdict = "refused"
  BY DEF Refused
<1> HIDE DEF fails, final
<1>3. ~ fails /\ run = [by |-> "cli", asked |-> argv,
                        verdict |-> IF final[Inspect] = 1 THEN "printed" ELSE "trains",
                        cfg |-> final, catalog |-> Catalog(Baseline, Tuned, final)]
  BY <1>1, <1>2
<1>4. /\ run.by = "cli" /\ run.asked = argv /\ run.verdict \in {"printed", "trains"}
      /\ run.cfg = final /\ run.catalog = Catalog(Baseline, Tuned, final)
  BY <1>3
<1>5. /\ ~ Refuses(Baseline, DictionaryLayer, optIn)
      /\ ~ Refuses(Tuned, changes, parsed[OptIn] = 1)
      /\ DOMAIN Changes(final, parsed) = {}
  BY <1>3 DEF fails
<1>6. DOMAIN DictionaryLayer \subseteq Paths
  BY <1>5, RefusalFacts
<1>7. Tuned \in [Paths -> Values]
  BY <1>6, BaselineIsWhole, DictionaryLayerFacts, OverIsWhole DEF Tuned
<1>8. parsed \in [Paths -> Values]
  BY <1>7, LayerTypes, OverIsWhole
<1>9. \A p \in Paths : final[p] = parsed[p]
  <2>1. \A p \in Paths \cap Controls : final[p] = parsed[p]
    BY DEF final
  <2>2. DOMAIN Changes(final, parsed) = {q \in Paths \ Controls : final[q] # parsed[q]}
    BY ZenonT(30), ChangesFacts
  <2>3. \A p \in Paths \ Controls : final[p] = parsed[p]
    BY <1>5, <2>2
  <2>4. QED
    BY <2>1, <2>3
<1>10. final = parsed
  BY <1>8, <1>9 DEF final
<1>11. QED
  BY <1>4, <1>5, <1>6, <1>7, <1>8, <1>10

\* ... and a caller's configuration.
LEMMA CallerFacts ==
    ASSUME NEW layer \in Layers, run = Programmatic(Over(layer, Baseline)),
           run.verdict # "refused"
    PROVE  LET args == Over(layer, Baseline)
           IN  /\ run.by = "caller" /\ run.asked = args /\ run.verdict = "trains"
               /\ args \in [Paths -> Values]
               /\ run.cfg = args /\ run.catalog = Catalog(Baseline, Baseline, args)
               /\ ~ Refuses(Baseline, Changes(Baseline, args), args[OptIn] = 1)
<1> DEFINE args == Over(layer, Baseline)
           changes == Changes(Baseline, args)
           validated == Over(changes, Baseline)
           final == [p \in Paths |-> IF p \in Controls THEN args[p] ELSE validated[p]]
           fails == \/ CatalogFails
                    \/ Refuses(Baseline, changes, args[OptIn] = 1)
                    \/ DOMAIN Changes(final, args) # {}
<1>1. Programmatic(args) =
        IF fails THEN Refused("caller", args)
        ELSE [by |-> "caller", asked |-> args, verdict |-> "trains", cfg |-> args,
              catalog |-> Catalog(Baseline, Baseline, final)]
  BY DEF Programmatic
<1>2. Refused("caller", args).verdict = "refused"
  BY DEF Refused
<1>3. args \in [Paths -> Values]
  BY BaselineIsWhole, LayerTypes, OverIsWhole
<1> HIDE DEF fails, final, args
<1>4. ~ fails /\ run = [by |-> "caller", asked |-> args, verdict |-> "trains", cfg |-> args,
                        catalog |-> Catalog(Baseline, Baseline, final)]
  BY <1>1, <1>2 DEF args
<1>5. /\ run.by = "caller" /\ run.asked = args /\ run.verdict = "trains"
      /\ run.cfg = args /\ run.catalog = Catalog(Baseline, Baseline, final)
  BY <1>4
<1>6. /\ ~ Refuses(Baseline, changes, args[OptIn] = 1)
      /\ DOMAIN Changes(final, args) = {}
  BY <1>4 DEF fails
<1>7. \A p \in Paths : final[p] = args[p]
  <2>1. \A p \in Paths \cap Controls : final[p] = args[p]
    BY DEF final
  <2>2. DOMAIN Changes(final, args) = {q \in Paths \ Controls : final[q] # args[q]}
    BY ChangesFacts
  <2>3. \A p \in Paths \ Controls : final[p] = args[p]
    BY <1>6, <2>2
  <2>4. QED
    BY <2>1, <2>3
<1>8. final = args
  BY <1>3, <1>7 DEF final
<1>9. QED
  BY <1>3, <1>5, <1>6, <1>8 DEF args

-----------------------------------------------------------------------------
(* Rules *)

Less == {pair \in Nat \X Nat : pair[1] < pair[2]}

LEMMA LessIsWellFounded == IsWellFoundedOn(Less, Nat)
  BY NatLessThanWellFounded DEF OpToRel, Less

LEMMA LessIsLess == ASSUME NEW m \in Nat, NEW n \in Nat, m < n PROVE <<m, n>> \in Less
  BY DEF Less

LEMMA LeastExists ==
    ASSUME NEW S, S \subseteq Nat, S # {}
    PROVE  \E n \in S : \A m \in S : n <= m
<1>1. PICK n \in S : \A m \in S : <<m, n>> \notin Less
  BY LessIsWellFounded, WFMin
<1>2. \A m \in S : ~ (m < n)
  BY <1>1, LessIsLess
<1>3. QED
  BY <1>2

LEMMA GreatestExists ==
    ASSUME NEW S, S \subseteq Nat, S # {}, NEW b \in Nat, \A n \in S : n <= b
    PROVE  \E n \in S : \A m \in S : m <= n
<1> DEFINE T == {b - n : n \in S}
<1>1. \A n \in S : b - n \in Nat
  OBVIOUS
<1>2. T \subseteq Nat /\ T # {}
  BY <1>1
<1>3. PICK t \in T : \A u \in T : t <= u
  BY <1>2, LeastExists
<1>4. PICK n \in S : t = b - n
  BY <1>3
<1>5. ASSUME NEW m \in S PROVE m <= n
  <2>1. b - m \in T
    OBVIOUS
  <2>2. t <= b - m
    BY <1>3, <2>1
  <2>3. QED
    BY <1>4, <2>2
<1>6. QED
  BY <1>5

LEMMA UpTo ==
    ASSUME NEW n \in Nat
    PROVE  IsFiniteSet(1 .. n) /\ Cardinality(1 .. n) = n
<1>1. 1 \in Int /\ n \in Int
  OBVIOUS
<1>2. /\ IsFiniteSet(1 .. n)
      /\ Cardinality(1 .. n) = IF 1 > n THEN 0 ELSE n - 1 + 1
  BY <1>1, FS_Interval
<1>3. (IF 1 > n THEN 0 ELSE n - 1 + 1) = n
  OBVIOUS
<1>4. QED
  BY <1>2, <1>3

LEMMA PathIsSequence ==
    ASSUME NEW p \in Paths
    PROVE  /\ p \in Seq(STRING) /\ Len(p) \in Nat /\ DOMAIN p = 1 .. Len(p)
           /\ \A i \in DOMAIN p : p[i] # "*"
  BY TrainAssumption

\* What a matching pattern says, and how many of its tokens are given.
LEMMA MatchFacts ==
    ASSUME NEW p \in Paths, NEW r \in Seq(STRING), PatternMatches(r, p)
    PROVE  /\ Len(r) = Len(p) /\ DOMAIN r = DOMAIN p
           /\ \A i \in DOMAIN p : r[i] \in {"*", p[i]}
           /\ Specificity(r) \in Nat /\ Specificity(r) <= Len(p)
           /\ Specificity(r) = Len(p) => r = p
<1> DEFINE given == {i \in DOMAIN r : r[i] # "*"}
<1>1. /\ Len(r) = Len(p) /\ DOMAIN r = DOMAIN p /\ Len(p) \in Nat
      /\ DOMAIN p = 1 .. Len(p)
      /\ \A i \in DOMAIN p : r[i] \in {"*", p[i]}
  BY PathIsSequence DEF PatternMatches
<1>2. IsFiniteSet(1 .. Len(p)) /\ Cardinality(1 .. Len(p)) = Len(p)
  BY <1>1, UpTo
<1>3. given \in SUBSET (1 .. Len(p))
  BY <1>1
<1>4. /\ IsFiniteSet(given) /\ Cardinality(given) <= Len(p)
      /\ Cardinality(given) = Len(p) => given = 1 .. Len(p)
  BY <1>2, <1>3, FS_Subset
<1>5. Cardinality(given) \in Nat
  BY <1>4, FS_CardinalityType
<1>6. Specificity(r) = Cardinality(given)
  BY DEF Specificity
<1>7. ASSUME given = 1 .. Len(p) PROVE r = p
  <2>1. \A i \in 1 .. Len(p) : r[i] = p[i]
    BY <1>1, <1>7
  <2>2. QED
    BY <1>1, <2>1, PathIsSequence, SeqEqual
<1>8. QED
  BY <1>1, <1>4, <1>5, <1>6, <1>7

LEMMA PathMatchesItself ==
    ASSUME NEW p \in Paths
    PROVE  PatternMatches(p, p) /\ Specificity(p) = Len(p)
<1>1. PatternMatches(p, p)
  BY DEF PatternMatches
<1>2. {i \in DOMAIN p : p[i] # "*"} = 1 .. Len(p)
  BY PathIsSequence
<1>3. Len(p) \in Nat
  BY PathIsSequence
<1>4. Cardinality(1 .. Len(p)) = Len(p)
  BY <1>3, UpTo
<1>5. QED
  BY <1>1, <1>2, <1>4 DEF Specificity

\* Of the rules for a path that some rule matches, one is the most specific.
LEMMA BestExists ==
    ASSUME NEW p \in Paths, NEW rules, \A r \in rules : r.pattern \in Seq(STRING)
    PROVE  BestMatches(p, rules) # {} <=> \E r \in rules : PatternMatches(r.pattern, p)
<1> DEFINE all == {r \in rules : PatternMatches(r.pattern, p)}
           S == {Specificity(r.pattern) : r \in all}
<1>1. BestMatches(p, rules) =
        {r \in all : \A s \in all : Specificity(s.pattern) <= Specificity(r.pattern)}
  BY DEF BestMatches
<1>2. ASSUME all # {} PROVE BestMatches(p, rules) # {}
  <2>1. S \subseteq Nat /\ S # {} /\ \A n \in S : n <= Len(p)
    BY <1>2, MatchFacts
  <2>2. PICK n \in S : \A m \in S : m <= n
    BY <2>1, PathIsSequence, GreatestExists
  <2>3. PICK r \in all : n = Specificity(r.pattern)
    BY <2>2
  <2>4. \A s \in all : Specificity(s.pattern) <= Specificity(r.pattern)
    BY <2>2, <2>3
  <2>5. QED
    BY <1>1, <2>3, <2>4
<1>3. QED
  BY <1>1, <1>2

\* A path some pattern matches is one that is covered.
LEMMA MatchMeansCovered ==
    ASSUME NEW p \in Paths, NEW patterns, patterns \subseteq Seq(STRING)
    PROVE  (\E r \in patterns : PatternMatches(r, p)) <=> Covered(p, patterns)
<1> DEFINE opened(open) == [i \in DOMAIN p |-> IF i \in open THEN "*" ELSE p[i]]
<1>1. ASSUME NEW r \in patterns, PatternMatches(r, p) PROVE Covered(p, patterns)
  <2> DEFINE open == {i \in DOMAIN p : r[i] = "*"}
  <2>1. r \in Seq(STRING)
    OBVIOUS
  <2>2. DOMAIN r = DOMAIN p /\ \A i \in DOMAIN p : r[i] \in {"*", p[i]}
    BY <1>1, <2>1, MatchFacts
  <2>3. r = [i \in DOMAIN r |-> r[i]]
    BY <2>1
  <2>4. r = opened(open)
    BY <2>2, <2>3
  <2>5. open \in SUBSET DOMAIN p
    OBVIOUS
  <2>6. QED
    BY <2>4, <2>5 DEF Covered
<1>2. ASSUME NEW open \in SUBSET DOMAIN p, opened(open) \in patterns
      PROVE  \E r \in patterns : PatternMatches(r, p)
  <2> DEFINE r == opened(open)
  <2>1. r \in Seq(STRING) /\ DOMAIN r = DOMAIN p
    BY <1>2
  <2>2. Len(r) \in Nat /\ DOMAIN r = 1 .. Len(r)
    BY <2>1, LenProperties
  <2>3. Len(r) = Len(p)
    <3>1. Len(p) \in Nat /\ 1 .. Len(p) = 1 .. Len(r)
      BY <2>1, <2>2, PathIsSequence
    <3> HIDE DEF r
    <3>2. QED
      BY <2>2, <3>1
  <2>4. \A i \in DOMAIN p : r[i] \in {"*", p[i]}
    OBVIOUS
  <2>5. PatternMatches(r, p)
    BY <2>3, <2>4 DEF PatternMatches
  <2>6. QED
    BY <1>2, <2>5
<1>3. QED
  BY <1>1, <1>2 DEF Covered

LEMMA ReadOnlyMeansCovered ==
    ASSUME NEW p \in Paths
    PROVE  ReadOnly(p) <=> Covered(p, ReadOnlyRules)
<1> DEFINE rules == {[category |-> Keep, pattern |-> r] : r \in ReadOnlyRules}
<1>1. ReadOnlyRules \subseteq Seq(STRING)
  BY TrainAssumption
<1>2. \A r \in rules : r.pattern \in Seq(STRING)
  BY <1>1
<1>3. (\E r \in rules : PatternMatches(r.pattern, p))
         <=> \E r \in ReadOnlyRules : PatternMatches(r, p)
  <2>1. ASSUME NEW r \in rules, PatternMatches(r.pattern, p)
        PROVE  \E s \in ReadOnlyRules : PatternMatches(s, p)
    BY <2>1
  <2>2. ASSUME NEW r \in ReadOnlyRules, PatternMatches(r, p)
        PROVE  \E s \in rules : PatternMatches(s.pattern, p)
    <3>1. [category |-> Keep, pattern |-> r] \in rules
      OBVIOUS
    <3>2. [category |-> Keep, pattern |-> r].pattern = r
      OBVIOUS
    <3>3. QED
      BY <2>2, <3>1, <3>2
  <2>3. QED
    BY <2>1, <2>2
<1>4. ReadOnly(p) <=> BestMatches(p, rules) # {}
  BY DEF ReadOnly
<1> HIDE DEF rules
<1>5. BestMatches(p, rules) # {} <=> \E r \in rules : PatternMatches(r.pattern, p)
  BY <1>2, BestExists
<1>6. (\E r \in ReadOnlyRules : PatternMatches(r, p)) <=> Covered(p, ReadOnlyRules)
  BY <1>1, MatchMeansCovered
<1>7. QED
  BY <1>3, <1>4, <1>5, <1>6

LEMMA SensitiveMeansCovered ==
    ASSUME NEW p \in Paths
    PROVE  Sensitive(p) <=> Covered(p, ContractRules)
<1>1. ContractRules \subseteq Seq(STRING)
  BY TrainAssumption
<1>2. QED
  BY <1>1, MatchMeansCovered DEF Sensitive

LEMMA CoveredByEither ==
    ASSUME NEW p, NEW f, NEW g
    PROVE  Covered(p, f \cup g) <=> Covered(p, f) \/ Covered(p, g)
  BY DEF Covered

\* When the dictionary fits the rules, no leaf has two of them: its own entry
\* decides it, or what decided it without the dictionary.
LEMMA FittingIsClear ==
    ASSUME dictionary \subseteq Entries, DictionaryFits
    PROVE  ~ CatalogFails
<1> SUFFICES ASSUME NEW p \in Paths, ~ ReadOnly(p)
             PROVE  ~ Ambiguous(p)
  BY DEF CatalogFails, Ambiguous
<1> DEFINE rules == dictionary \cup Rules
           best == BestMatches(p, rules)
           named == {[category |-> e.category, pattern |-> e.pattern] : e \in best}
<1>0. \A e \in dictionary : e.pattern \in Seq(STRING)
  BY TrainAssumption, PathIsSequence DEF Entries, Patterns
<1>1. \A r \in rules : r.pattern \in Seq(STRING)
  BY <1>0, TrainAssumption
<1>2. \A e \in best : /\ e \in rules /\ PatternMatches(e.pattern, p)
                      /\ \A s \in rules : PatternMatches(s.pattern, p) =>
                            Specificity(s.pattern) <= Specificity(e.pattern)
  BY DEF BestMatches
<1>3. ASSUME NEW e \in dictionary, PatternMatches(e.pattern, p) PROVE e.pattern = p
  <2>1. e.pattern \in Seq(STRING) /\ \A i \in DOMAIN e.pattern : e.pattern[i] # "*"
    BY <1>0 DEF DictionaryFits
  <2>2. DOMAIN e.pattern = DOMAIN p /\ \A i \in DOMAIN p : e.pattern[i] \in {"*", p[i]}
    BY <1>3, <2>1, MatchFacts
  <2>3. \A i \in DOMAIN p : e.pattern[i] = p[i]
    BY <2>1, <2>2, PathIsSequence
  <2>4. Len(e.pattern) = Len(p)
    BY <1>3, <2>1, MatchFacts
  <2>5. QED
    BY <2>1, <2>3, <2>4, PathIsSequence, SeqEqual
<1>4. ASSUME NEW e \in best, NEW f \in best
      PROVE  e.category = f.category /\ e.pattern = f.pattern
  <2>1. CASE \E d \in dictionary : d.pattern = p
    <3>1. PICK d \in dictionary : d.pattern = p
      BY <2>1
    <3>2. ASSUME NEW x \in best PROVE x.pattern = p /\ x.category = d.category
      <4>1. x \in rules /\ PatternMatches(x.pattern, p) /\ x.pattern \in Seq(STRING)
        BY <1>1, <1>2
      <4>2. PatternMatches(p, p) /\ Specificity(p) = Len(p)
        BY PathMatchesItself
      <4>3. Specificity(p) <= Specificity(x.pattern)
        BY <1>2, <3>1, <4>2
      <4>4. Specificity(x.pattern) \in Nat /\ Specificity(x.pattern) <= Len(p) /\ Len(p) \in Nat
        BY <4>1, MatchFacts, PathIsSequence
      <4>5. Specificity(x.pattern) = Len(p)
        BY <4>2, <4>3, <4>4
      <4>6. x.pattern = p
        BY <4>1, <4>5, MatchFacts
      <4>7. QED
        BY <3>1, <4>1, <4>6 DEF DictionaryFits
    <3>3. QED
      BY <3>2
  <2>2. CASE ~ \E d \in dictionary : d.pattern = p
    <3>1. ASSUME NEW x \in best PROVE x \in BestMatches(p, Rules)
      <4>1. x \in Rules /\ PatternMatches(x.pattern, p)
        BY <1>2, <1>3, <2>2
      <4>2. QED
        BY <1>2, <4>1 DEF BestMatches
    <3>2. \A r, s \in BestMatches(p, Rules) : r = s
      BY RulesAreSettled
    <3>3. QED
      BY <3>1, <3>2
  <2>3. QED
    BY <2>1, <2>2
<1>5. \A x, y \in named : x = y
  BY <1>4
<1>6. Ambiguous(p) => Cardinality(named) > 1
  BY DEF Ambiguous
<1>7. Cardinality(named) \in {0, 1}
  <2> HIDE DEF named
  <2>1. CASE named = {}
    BY <2>1, FS_EmptySet
  <2>2. CASE named # {}
    <3>1. PICK x \in named : TRUE
      BY <2>2
    <3>2. named = {x}
      BY <1>5, <3>1
    <3>3. Cardinality({x}) = 1
      BY FS_Singleton
    <3>4. QED
      BY <3>2, <3>3
  <2>3. QED
    BY <2>1, <2>2
<1>8. QED
  BY <1>6, <1>7

-----------------------------------------------------------------------------
(* What a run may be *)

\* A run that was refused says what was asked.
LEMMA RefusedFacts ==
    ASSUME NEW by, NEW asked
    PROVE  /\ Refused(by, asked).by = by /\ Refused(by, asked).asked = asked
           /\ Refused(by, asked).verdict = "refused"
           /\ Refused(by, asked).cfg = Baseline
           /\ Refused(by, asked).catalog = Catalog(Baseline, Baseline, Baseline)
  BY DEF Refused

LEMMA NoRunFacts ==
    /\ NoRun.by = "cli" /\ NoRun.verdict = "none" /\ NoRun.cfg = Baseline
    /\ NoRun.catalog = Catalog(Baseline, Baseline, Baseline)
  BY DEF Refused, NoRun

\* A command line over a dictionary that stay in the rules is not refused.
LEMMA FairCliTrains ==
    ASSUME dictionary \subseteq Entries, NEW argv \in Layers, DictionaryFits,
           \A e \in dictionary : MaySet(e.pattern, e.value, 0, Tuned),
           \A p \in DOMAIN argv \ Controls : argv[p] # Tuned[p] =>
               MaySet(p, argv[p], Tuned[p], Over(argv, Tuned))
    PROVE  Prepare(argv).verdict # "refused"
<1> DEFINE optIn == Tuned[OptIn] = 1
           parsed == Over(argv, Tuned)
           changes == Changes(Tuned, parsed)
           validated == Over(changes, Tuned)
           final == [p \in Paths |-> IF p \in Controls THEN parsed[p] ELSE validated[p]]
           fails == \/ CatalogFails \/ DictionaryFails
                    \/ Refuses(Baseline, DictionaryLayer, optIn)
                    \/ Refuses(Tuned, changes, parsed[OptIn] = 1)
                    \/ DOMAIN Changes(final, parsed) # {}
           made == [by |-> "cli", asked |-> argv,
                    verdict |-> IF final[Inspect] = 1 THEN "printed" ELSE "trains",
                    cfg |-> final, catalog |-> Catalog(Baseline, Tuned, final)]
<1>1. Prepare(argv) = IF fails THEN Refused("cli", argv) ELSE made
  BY DEF Prepare, Tuned
<1>2. made.verdict \in {"printed", "trains"}
  OBVIOUS
<1> HIDE DEF fails, made
<1>3. ~ CatalogFails
  BY FittingIsClear
<1>4. ~ DictionaryFails
  BY DEF DictionaryFails, DictionaryFits
<1>5. \A p \in DOMAIN DictionaryLayer : \E e \in dictionary :
          e.pattern = p /\ DictionaryLayer[p] = e.value
  BY DictionaryLayerFacts
<1>6. ~ Refuses(Baseline, DictionaryLayer, optIn)
  <2>1. ASSUME NEW p \in DOMAIN DictionaryLayer
        PROVE  /\ p \in Paths /\ ~ ReadOnly(p) /\ DictionaryLayer[p] \in Legal[p][Baseline[p]]
               /\ Sensitive(p) => Over(DictionaryLayer, Baseline)[Resume] # 1 /\ optIn
    <3>1. MaySet(p, DictionaryLayer[p], 0, Tuned)
      BY <1>5
    <3>2. /\ p \in Paths /\ DictionaryLayer[p] \in Legal[p][0]
          /\ ~ Covered(p, ReadOnlyRules)
          /\ Covered(p, ContractRules) => Tuned[OptIn] = 1 /\ Tuned[Resume] # 1
      BY <3>1 DEF MaySet
    <3>3. ~ ReadOnly(p) /\ (Sensitive(p) => Covered(p, ContractRules)) /\ Baseline[p] = 0
      BY <3>2, ReadOnlyMeansCovered, SensitiveMeansCovered, BaselineIsWhole
    <3>4. QED
      BY <3>2, <3>3 DEF Tuned
  <2>2. QED
    BY <2>1 DEF Refuses
<1>7. DOMAIN DictionaryLayer \subseteq Paths
  BY <1>5 DEF MaySet
<1>8. Tuned \in [Paths -> Values]
  BY <1>7, BaselineIsWhole, DictionaryLayerFacts, OverIsWhole DEF Tuned
<1>9. DOMAIN argv \subseteq Paths /\ DOMAIN Tuned = Paths
  BY <1>8, LayerTypes
<1>10. \A p \in DOMAIN argv : parsed[p] = argv[p]
  BY OverAt
<1>11. \A p \in Paths \ DOMAIN argv : parsed[p] = Tuned[p]
  BY <1>9, OverAt
<1>12. \A p \in DOMAIN argv \ Controls : argv[p] # Tuned[p] =>
          MaySet(p, argv[p], Tuned[p], parsed)
  OBVIOUS
<1> HIDE DEF parsed
<1>13. \A p \in DOMAIN changes : p \in Paths \ Controls /\ Tuned[p] # parsed[p] /\ changes[p] = parsed[p]
  BY ChangesAt
<1>14. \A p \in Paths \ Controls : validated[p] = parsed[p]
  BY <1>9, ChangesRebuild
<1>15. Over(changes, Tuned)[Resume] = parsed[Resume]
  BY <1>14, TrainAssumption DEF Controls
<1> HIDE DEF changes, validated
<1>16. DOMAIN Changes(final, parsed) = {}
  <2>1. \A p \in Paths \ Controls : final[p] = parsed[p]
    BY <1>14
  <2> HIDE DEF final
  <2>2. \A p : p \notin DOMAIN Changes(final, parsed)
    BY <2>1, ChangesAt
  <2>3. QED
    BY <2>2
<1>17. ~ Refuses(Tuned, changes, parsed[OptIn] = 1)
  <2>1. ASSUME NEW p \in DOMAIN changes
        PROVE  /\ p \in Paths /\ ~ ReadOnly(p) /\ changes[p] \in Legal[p][Tuned[p]]
               /\ Sensitive(p) => Over(changes, Tuned)[Resume] # 1 /\ parsed[OptIn] = 1
    <3>1. /\ p \in DOMAIN argv \ Controls /\ changes[p] = argv[p] /\ argv[p] # Tuned[p]
          /\ p \in Paths
      BY <1>10, <1>11, <1>13
    <3>2. MaySet(p, argv[p], Tuned[p], parsed)
      BY <1>12, <3>1
    <3>3. /\ argv[p] \in Legal[p][Tuned[p]] /\ ~ Covered(p, ReadOnlyRules)
          /\ Covered(p, ContractRules) => parsed[OptIn] = 1 /\ parsed[Resume] # 1
      BY <3>2 DEF MaySet
    <3>4. ~ ReadOnly(p) /\ (Sensitive(p) => Covered(p, ContractRules))
      BY <3>1, <3>3, ReadOnlyMeansCovered, SensitiveMeansCovered
    <3>5. QED
      BY <1>15, <3>1, <3>3, <3>4
  <2>2. QED
    BY <2>1 DEF Refuses
<1>18. ~ fails
  BY <1>3, <1>4, <1>6, <1>16, <1>17 DEF fails
<1>19. QED
  BY <1>1, <1>2, <1>18

\* ... nor is a caller's configuration that stays in them.
LEMMA FairCallerTrains ==
    ASSUME dictionary \subseteq Entries, DictionaryFits, NEW args \in [Paths -> Values],
           \A p \in Paths \ Controls : args[p] # Baseline[p] =>
               MaySet(p, args[p], Baseline[p], args)
    PROVE  Programmatic(args).verdict # "refused"
<1> DEFINE changes == Changes(Baseline, args)
           validated == Over(changes, Baseline)
           final == [p \in Paths |-> IF p \in Controls THEN args[p] ELSE validated[p]]
           fails == \/ CatalogFails
                    \/ Refuses(Baseline, changes, args[OptIn] = 1)
                    \/ DOMAIN Changes(final, args) # {}
           made == [by |-> "caller", asked |-> args, verdict |-> "trains", cfg |-> args,
                    catalog |-> Catalog(Baseline, Baseline, final)]
<1>1. Programmatic(args) = IF fails THEN Refused("caller", args) ELSE made
  BY DEF Programmatic
<1>2. made.verdict = "trains"
  OBVIOUS
<1> HIDE DEF fails, made
<1>3. ~ CatalogFails
  BY FittingIsClear
<1>4. \A p \in DOMAIN changes : p \in Paths \ Controls /\ Baseline[p] # args[p] /\ changes[p] = args[p]
  BY ChangesAt
<1>5. DOMAIN Baseline = Paths
  BY BaselineIsWhole
<1>6. \A p \in Paths \ Controls : validated[p] = args[p]
  BY <1>5, ChangesRebuild
<1>7. Over(changes, Baseline)[Resume] = args[Resume]
  BY <1>6, TrainAssumption DEF Controls
<1> HIDE DEF changes, validated
<1>8. DOMAIN Changes(final, args) = {}
  <2>1. \A p \in Paths \ Controls : final[p] = args[p]
    BY <1>6
  <2> HIDE DEF final
  <2>2. \A p : p \notin DOMAIN Changes(final, args)
    BY <2>1, ChangesAt
  <2>3. QED
    BY <2>2
<1>9. ~ Refuses(Baseline, changes, args[OptIn] = 1)
  <2>1. ASSUME NEW p \in DOMAIN changes
        PROVE  /\ p \in Paths /\ ~ ReadOnly(p) /\ changes[p] \in Legal[p][Baseline[p]]
               /\ Sensitive(p) => Over(changes, Baseline)[Resume] # 1 /\ args[OptIn] = 1
    <3>1. p \in Paths \ Controls /\ changes[p] = args[p] /\ args[p] # Baseline[p]
      BY <1>4
    <3>2. MaySet(p, args[p], Baseline[p], args)
      BY <3>1
    <3>3. /\ args[p] \in Legal[p][Baseline[p]] /\ ~ Covered(p, ReadOnlyRules)
          /\ Covered(p, ContractRules) => args[OptIn] = 1 /\ args[Resume] # 1
      BY <3>2 DEF MaySet
    <3>4. ~ ReadOnly(p) /\ (Sensitive(p) => Covered(p, ContractRules))
      BY <3>1, <3>3, ReadOnlyMeansCovered, SensitiveMeansCovered
    <3>5. QED
      BY <1>7, <3>1, <3>3, <3>4
  <2>2. QED
    BY <2>1 DEF Refuses
<1>10. ~ fails
  BY <1>3, <1>8, <1>9 DEF fails
<1>11. QED
  BY <1>1, <1>2, <1>10

\* What the catalog says of a path.
LEMMA CatalogFacts ==
    ASSUME NEW b, NEW t, NEW f, NEW p \in Paths
    PROVE  LET r == Catalog(b, t, f)[p]
           IN  /\ r = [default |-> b[p], tuning |-> r.tuning, cli |-> r.cli, final |-> f[p]]
               /\ r.default = b[p] /\ r.final = f[p]
               /\ r.tuning = (IF b[p] = t[p] THEN Keep ELSE t[p])
               /\ r.cli = (IF t[p] = f[p] THEN Keep ELSE f[p])
  BY DEF Catalog, Record

LEMMA CatalogCli ==
    ASSUME NEW b, NEW t, NEW f, NEW p \in Paths
    PROVE  Catalog(b, t, f)[p].cli = (IF t[p] = f[p] THEN Keep ELSE f[p])
  BY DEF Catalog, Record

LEMMA CatalogTypes ==
    ASSUME NEW t \in [Paths -> Values], NEW f \in [Paths -> Values], NEW p \in Paths
    PROVE  Catalog(Baseline, t, f)[p] \in
              [default : {0}, tuning : Values \cup {Keep}, cli : Values \cup {Keep},
               final : Values]
<1> DEFINE r == Catalog(Baseline, t, f)[p]
<1>1. /\ r = [default |-> Baseline[p], tuning |-> r.tuning, cli |-> r.cli, final |-> f[p]]
      /\ r.tuning = (IF Baseline[p] = t[p] THEN Keep ELSE t[p])
      /\ r.cli = (IF t[p] = f[p] THEN Keep ELSE f[p])
  BY CatalogFacts
<1>2. t[p] \in Values /\ f[p] \in Values /\ Baseline[p] = 0
  BY BaselineIsWhole
<1> HIDE DEF r
<1>3. r.tuning \in Values \cup {Keep} /\ r.cli \in Values \cup {Keep}
  BY <1>1, <1>2
<1>4. QED
  BY <1>1, <1>2, <1>3 DEF r

\* What a catalog says was left beneath, and what it replays to, is what it was
\* made of.
LEMMA CatalogReplay ==
    ASSUME NEW t \in [Paths -> Values], NEW f \in [Paths -> Values], NEW p \in Paths,
           run.catalog = Catalog(Baseline, t, f)
    PROVE  LET r == run.catalog[p]
           IN  /\ Beneath(p) = t[p] /\ r.default = 0 /\ r.final = f[p]
               /\ (IF r.cli # Keep THEN r.cli ELSE Beneath(p)) = f[p]
               /\ r.tuning # Keep => t[p] # 0 /\ r.tuning = t[p]
               /\ r.tuning = Keep => t[p] = 0
               /\ r.cli # Keep => t[p] # f[p] /\ r.cli = f[p]
               /\ r.cli = Keep => t[p] = f[p]
<1> DEFINE r == run.catalog[p]
<1>1. /\ r.default = Baseline[p] /\ r.final = f[p]
      /\ r.tuning = (IF Baseline[p] = t[p] THEN Keep ELSE t[p])
      /\ r.cli = (IF t[p] = f[p] THEN Keep ELSE f[p])
  BY DEF Catalog, Record
<1>2. t[p] \in Values /\ f[p] \in Values /\ Keep \notin Values /\ Baseline[p] = 0
  BY TrainAssumption, BaselineIsWhole
<1>3. Beneath(p) = IF r.tuning # Keep THEN r.tuning ELSE r.default
  BY DEF Beneath
<1> HIDE DEF r
<1>4. QED
  BY <1>1, <1>2, <1>3 DEF r

\* The dictionary's layer, when it was accepted.
LEMMA TunedFacts ==
    ASSUME dictionary \subseteq Entries, ~ Refuses(Baseline, DictionaryLayer, Tuned[OptIn] = 1),
           NEW p \in Paths, Tuned[p] # 0
    PROVE  /\ ~ ReadOnly(p) /\ Tuned[p] \in Legal[p][0]
           /\ Sensitive(p) => Tuned[OptIn] = 1 /\ Tuned[Resume] # 1
<1>1. p \in DOMAIN DictionaryLayer
  BY BaselineIsWhole, OverAt DEF Tuned
<1>2. Tuned[p] = DictionaryLayer[p] /\ Baseline[p] = 0
  BY <1>1, BaselineIsWhole, OverAt DEF Tuned
<1>3. Over(DictionaryLayer, Baseline)[Resume] = Tuned[Resume]
  BY DEF Tuned
<1>4. QED
  BY <1>1, <1>2, <1>3 DEF Refuses

\* The layer over it: each leaf is as it was below, or it may be changed to what
\* it is.
LEMMA CliChanges ==
    ASSUME NEW t \in [Paths -> Values], NEW f \in [Paths -> Values],
           ~ Refuses(t, Changes(t, f), f[OptIn] = 1),
           NEW p \in Paths \ Controls, t[p] # f[p]
    PROVE  /\ ~ ReadOnly(p) /\ f[p] \in Legal[p][t[p]]
           /\ Sensitive(p) => f[OptIn] = 1 /\ f[Resume] # 1
<1>1. p \in DOMAIN Changes(t, f) /\ Changes(t, f)[p] = f[p]
  BY ChangesAt
<1>2. Resume \in Paths \ Controls
  BY TrainAssumption DEF Controls
<1>3. Over(Changes(t, f), t)[Resume] = f[Resume]
  BY <1>2, ChangesRebuild
<1>4. QED
  BY <1>1, <1>3, RefusalFacts

RunTypes ==
    /\ run.by \in {"cli", "caller"}
    /\ run.verdict \in {"none", "refused", "printed", "trains"}
    /\ run.cfg \in [Paths -> Values]
    /\ \A p \in Paths : run.catalog[p] \in
          [default : {0}, tuning : Values \cup {Keep}, cli : Values \cup {Keep}, final : Values]

Judged ==
    AcceptedIsSafe /\ FreshContract /\ CatalogReplays /\ RunTypes /\ (Accepted => run.cfg = Said)

\* An accepted run of two layers, each judged over what is beneath it.
LEMMA TwoLayers ==
    ASSUME NEW t \in [Paths -> Values], NEW f \in [Paths -> Values],
           run.by \in {"cli", "caller"}, run.verdict \in {"printed", "trains"},
           run.cfg = f, run.catalog = Catalog(Baseline, t, f),
           \A p \in Paths : t[p] # 0 =>
               /\ ~ ReadOnly(p) /\ t[p] \in Legal[p][0]
               /\ (Sensitive(p) => t[OptIn] = 1 /\ t[Resume] # 1),
           ~ Refuses(t, Changes(t, f), f[OptIn] = 1)
    PROVE  AcceptedIsSafe /\ FreshContract /\ CatalogReplays /\ RunTypes
<1>0. {OptIn, Resume} \subseteq Paths
  BY TrainAssumption
<1>1. ASSUME NEW p \in Fixed PROVE f[p] = 0
  <2>1. p \in Paths \ Controls /\ ReadOnly(p)
    BY ReadOnlyMeansCovered DEF Fixed
  <2>2. QED
    BY <2>1, CliChanges
<1>2. ASSUME NEW p \in Paths
      PROVE  LET r == run.catalog[p]
             IN  /\ r.tuning # Keep => r.tuning \in Legal[p][r.default]
                 /\ r.cli # Keep /\ p \notin Controls => r.cli \in Legal[p][Beneath(p)]
  BY CatalogReplay, CliChanges
<1>3. Beneath(OptIn) = t[OptIn] /\ Beneath(Resume) = t[Resume]
  BY <1>0, CatalogReplay
<1>4. ASSUME NEW p \in Contract
      PROVE  LET r == run.catalog[p]
             IN  /\ r.tuning # Keep => Beneath(OptIn) = 1 /\ Beneath(Resume) # 1
                 /\ r.cli # Keep => f[OptIn] = 1 /\ f[Resume] # 1
  <2>1. p \in Paths \ Controls /\ Sensitive(p)
    BY SensitiveMeansCovered DEF Contract
  <2>2. run.catalog[p].tuning # Keep => t[p] # 0
    BY <2>1, CatalogReplay
  <2>3. run.catalog[p].cli # Keep => t[p] # f[p]
    BY <2>1, CatalogReplay
  <2>4. QED
    BY <1>3, <2>1, <2>2, <2>3, CliChanges
<1>5. AcceptedIsSafe
  BY <1>1, <1>2, <1>4 DEF AcceptedIsSafe
<1>6. FreshContract
  <2>1. SUFFICES ASSUME f[Resume] = 1, NEW p \in Contract, f[p] # 0
                 PROVE  /\ \A q \in Contract : run.catalog[q].cli = Keep
                        /\ run.catalog[Resume].cli = 1
    BY DEF FreshContract
  <2>2. \A q \in Contract : run.catalog[q].cli = Keep
    BY <1>4, <2>1
  <2>3. p \in Paths /\ t[p] = f[p]
    BY <2>2, CatalogReplay DEF Contract
  <2>4. run.catalog[p].tuning # Keep
    BY <2>1, <2>3, CatalogReplay
  <2>5. t[Resume] # 1
    BY <1>3, <1>4, <2>4
  <2>6. QED
    BY <1>0, <2>1, <2>2, <2>5, CatalogReplay
<1>7. CatalogReplays
  BY CatalogReplay DEF CatalogReplays
<1>8. RunTypes
  <2>1. \A p \in Paths : run.catalog[p] \in
          [default : {0}, tuning : Values \cup {Keep}, cli : Values \cup {Keep}, final : Values]
    BY CatalogTypes
  <2>2. QED
    BY <2>1 DEF RunTypes
<1>9. QED
  BY <1>5, <1>6, <1>7, <1>8

LEMMA AcceptedCli ==
    ASSUME dictionary \subseteq Entries, NEW argv \in Layers, run = Prepare(argv),
           run.verdict # "refused"
    PROVE  Judged
<1> DEFINE parsed == Over(argv, Tuned)
<1>1. /\ run.by = "cli" /\ run.asked = argv /\ run.verdict \in {"printed", "trains"}
      /\ Tuned \in [Paths -> Values] /\ parsed \in [Paths -> Values]
      /\ run.cfg = parsed /\ run.catalog = Catalog(Baseline, Tuned, parsed)
      /\ ~ Refuses(Baseline, DictionaryLayer, Tuned[OptIn] = 1)
      /\ ~ Refuses(Tuned, Changes(Tuned, parsed), parsed[OptIn] = 1)
  BY CliFacts
<1>2. run.cfg = Said
  BY <1>1 DEF Said, TunedOf, Tuned
<1> HIDE DEF parsed
<1>3. AcceptedIsSafe /\ FreshContract /\ CatalogReplays /\ RunTypes
  BY <1>1, TunedFacts, TwoLayers
<1>4. QED
  BY <1>2, <1>3 DEF Judged

\* A whole configuration over another is itself.
LEMMA WholeOverIsItself ==
    ASSUME NEW f \in [Paths -> Values] PROVE Over(f, Baseline) = f
<1>1. Over(f, Baseline) \in [Paths -> Values]
  BY BaselineIsWhole, OverIsWhole
<1>2. \A p \in Paths : Over(f, Baseline)[p] = f[p]
  BY OverAt
<1>3. QED
  BY <1>1, <1>2

LEMMA AcceptedCaller ==
    ASSUME NEW layer \in Layers, run = Programmatic(Over(layer, Baseline)),
           run.verdict # "refused"
    PROVE  Judged
<1> DEFINE args == Over(layer, Baseline)
<1>1. /\ run.by = "caller" /\ run.asked = args /\ run.verdict = "trains"
      /\ args \in [Paths -> Values]
      /\ run.cfg = args /\ run.catalog = Catalog(Baseline, Baseline, args)
      /\ ~ Refuses(Baseline, Changes(Baseline, args), args[OptIn] = 1)
  BY CallerFacts
<1> HIDE DEF args
<1>2. run.cfg = Said
  BY <1>1, WholeOverIsItself DEF Said, TunedOf
<1>3. AcceptedIsSafe /\ FreshContract /\ CatalogReplays /\ RunTypes
  BY <1>1, BaselineIsWhole, TwoLayers
<1>4. QED
  BY <1>2, <1>3 DEF Judged

\* A run that does not train keeps the task's defaults in its record.
LEMMA IdleRecord ==
    ASSUME run.by \in {"cli", "caller"}, run.verdict \in {"none", "refused"},
           run.cfg = Baseline, run.catalog = Catalog(Baseline, Baseline, Baseline)
    PROVE  Judged
<1>1. \A p \in Paths : run.catalog[p] \in
          [default : {0}, tuning : Values \cup {Keep}, cli : Values \cup {Keep}, final : Values]
  BY BaselineIsWhole, CatalogTypes
<1>2. RunTypes
  BY <1>1, BaselineIsWhole DEF RunTypes
<1>3. ~ Accepted
  BY DEF Accepted
<1>4. QED
  BY <1>2, <1>3 DEF Judged, AcceptedIsSafe, FreshContract, CatalogReplays

LEMMA RunRefusedOrAccepted == ASSUME RunIsMade PROVE Judged
<1>1. dictionary \subseteq Entries
  BY DEF RunIsMade
<1>2. CASE run = NoRun
  BY <1>2, NoRunFacts, IdleRecord
<1>3. ASSUME NEW argv \in Layers, run = Prepare(argv) PROVE Judged
  <2>1. CASE run.verdict = "refused"
    <3>1. run = Refused("cli", argv)
      BY <1>3, <2>1 DEF Prepare
    <3>2. QED
      BY <3>1, RefusedFacts, IdleRecord
  <2>2. QED
    BY <1>1, <1>3, <2>1, AcceptedCli
<1>4. ASSUME NEW layer \in Layers, run = Programmatic(Over(layer, Baseline)) PROVE Judged
  <2>1. CASE run.verdict = "refused"
    <3>1. run = Refused("caller", Over(layer, Baseline))
      BY <1>4, <2>1 DEF Programmatic
    <3>2. QED
      BY <3>1, RefusedFacts, IdleRecord
  <2>2. QED
    BY <1>4, <2>1, AcceptedCaller
<1>5. QED
  BY <1>2, <1>3, <1>4 DEF RunIsMade

\* What a worker trains with, leaf by leaf.
LEMMA TrainedFacts ==
    ASSUME NEW cfg \in [Paths -> Values], NEW rank \in Ranks
    PROVE  /\ Trained(cfg, rank) \in [Paths -> Nat]
           /\ \A p \in Paths \ Synced : Trained(cfg, rank)[p] = cfg[p]
<1>1. /\ AgentSeed \in Paths /\ MotionFile \in Paths
      /\ Values \subseteq Nat /\ Ranks \subseteq Nat /\ Resolved \in [Values -> Nat]
  BY TrainAssumption
<1>2. cfg[AgentSeed] + rank \in Nat /\ Resolved[cfg[MotionFile]] \in Nat
  <2>1. cfg[AgentSeed] \in Nat /\ rank \in Nat /\ cfg[MotionFile] \in Values
    BY <1>1
  <2>2. Resolved[cfg[MotionFile]] \in Nat
    BY <1>1, <2>1
  <2>3. \A m, n \in Nat : m + n \in Nat
    OBVIOUS
  <2>4. QED
    BY <2>1, <2>2, <2>3
<1>3. \A p \in Paths : cfg[p] \in Nat
  BY <1>1
<1>4. Trained(cfg, rank) \in [Paths -> Nat]
  BY <1>2, <1>3 DEF Trained
<1>5. \A p \in Paths \ Synced : Trained(cfg, rank)[p] = cfg[p]
  BY DEF Trained, Synced
<1>6. QED
  BY <1>4, <1>5

LEMMA WorkerFacts ==
    ASSUME RunIsMade
    PROVE  /\ worker \in [at : {"none", "trains", "failed"}, rank : Nat, cfg : [Paths -> Nat]]
           /\ worker.at = "trains" =>
                 Accepted /\ \A p \in Paths \ Synced : worker.cfg[p] = run.cfg[p]
<1>1. run.cfg \in [Paths -> Values]
  BY RunRefusedOrAccepted DEF Judged, RunTypes
<1>2. Baseline \in [Paths -> Nat]
  BY BaselineIsWhole, TrainAssumption
<1>3. CASE worker = NoWorker \/ worker = [NoWorker EXCEPT !.at = "failed"]
  BY <1>2, <1>3 DEF NoWorker
<1>4. ASSUME run.verdict = "trains", NEW rank \in Ranks,
             worker = [at |-> "trains", rank |-> rank, cfg |-> Trained(run.cfg, rank)]
      PROVE  /\ worker \in [at : {"none", "trains", "failed"}, rank : Nat, cfg : [Paths -> Nat]]
             /\ Accepted /\ \A p \in Paths \ Synced : worker.cfg[p] = run.cfg[p]
  <2>1. /\ Trained(run.cfg, rank) \in [Paths -> Nat] /\ rank \in Nat
        /\ \A p \in Paths \ Synced : Trained(run.cfg, rank)[p] = run.cfg[p]
    BY <1>1, TrainedFacts, TrainAssumption
  <2>2. QED
    BY <1>4, <2>1 DEF Accepted
<1>5. QED
  BY <1>3, <1>4 DEF RunIsMade

LEMMA LegalRunTrains == ASSUME RunIsMade PROVE LegalTrains
<1>1. SUFFICES ASSUME DictionaryFits,
                      run.by = "cli" => \A e \in dictionary : MaySet(e.pattern, e.value, 0, TunedOf),
                      \A p \in DOMAIN run.asked \ Controls : run.asked[p] # TunedOf[p] =>
                          MaySet(p, run.asked[p], TunedOf[p], Said),
                      run.verdict = "refused"
               PROVE  FALSE
  BY DEF LegalTrains
<1>2. dictionary \subseteq Entries
  BY DEF RunIsMade
<1>3. CASE run = NoRun
  BY <1>1, <1>3, NoRunFacts
<1>4. ASSUME NEW argv \in Layers, run = Prepare(argv) PROVE FALSE
  <2>1. run = Refused("cli", argv)
    BY <1>1, <1>4 DEF Prepare
  <2>2. run.by = "cli" /\ run.asked = argv
    BY <2>1, RefusedFacts
  <2>3. TunedOf = Tuned /\ Said = Over(argv, Tuned)
    BY <2>2 DEF Said, TunedOf, Tuned
  <2>4. QED
    BY <1>1, <1>2, <1>4, <2>2, <2>3, FairCliTrains
<1>5. ASSUME NEW layer \in Layers, run = Programmatic(Over(layer, Baseline)) PROVE FALSE
  <2> DEFINE args == Over(layer, Baseline)
  <2>1. run = Refused("caller", args)
    BY <1>1, <1>5 DEF Programmatic
  <2>2. run.by = "caller" /\ run.asked = args
    BY <2>1, RefusedFacts
  <2>3. args \in [Paths -> Values]
    BY BaselineIsWhole, LayerTypes, OverIsWhole
  <2>4. run = Programmatic(args)
    BY <1>5
  <2> HIDE DEF args
  <2>5. TunedOf = Baseline /\ Said = args /\ DOMAIN args = Paths
    BY <2>2, <2>3, WholeOverIsItself DEF Said, TunedOf
  <2>6. QED
    BY <1>1, <1>2, <2>2, <2>3, <2>4, <2>5, FairCallerTrains
<1>6. QED
  BY <1>3, <1>4, <1>5 DEF RunIsMade

LEMMA RunIsMadeInductive == TrainingSpec => []RunIsMade
<1>1. TrainingInit => RunIsMade
  BY DEF TrainingInit, Init, RunIsMade
<1>2. ASSUME RunIsMade, [TrainingNext]_<<moving, vars, swingVars, motionVars>>
      PROVE  RunIsMade'
  <2>1. CASE UNCHANGED vars
    <3>1. dictionary' = dictionary /\ run' = run /\ worker' = worker
      BY <2>1 DEF vars
    <3>2. Layers' = Layers
      BY <3>1 DEF Layers
    <3>3. \A argv : Prepare(argv)' = Prepare(argv)
      BY <3>1 DEF Prepare, DictionaryLayer, CatalogFails, Ambiguous, DictionaryFails
    <3>4. \A layer : Programmatic(Over(layer, Baseline))' = Programmatic(Over(layer, Baseline))
      BY <3>1 DEF Programmatic, CatalogFails, Ambiguous
    <3>5. QED
      BY <1>2, <3>1, <3>2, <3>3, <3>4 DEF RunIsMade
  <2>2. CASE Edit
    <3>1. run = NoRun /\ run' = NoRun /\ worker' = worker
      BY <2>2 DEF Edit
    <3>2. PICK c \in Categories, p \in Patterns, v \in Values :
            dictionary' = dictionary \cup {[category |-> c, pattern |-> p, value |-> v]}
      BY <2>2 DEF Edit
    <3>3. [category |-> c, pattern |-> p, value |-> v] \in Entries
      BY DEF Entries
    <3>4. QED
      BY <1>2, <3>1, <3>2, <3>3 DEF RunIsMade
  <2>3. ASSUME run = NoRun, worker' = worker PROVE worker' \in {NoWorker, [NoWorker EXCEPT !.at = "failed"]}
    BY <1>2, <2>3, NoRunFacts DEF RunIsMade
  <2>4. CASE TrainFromCli
    <3>1. dictionary' = dictionary /\ run = NoRun /\ worker' = worker
      BY <2>4 DEF TrainFromCli
    <3>2. PICK argv \in Layers : run' = Prepare(argv)
      BY <2>4 DEF TrainFromCli
    <3>3. Layers' = Layers
      BY <3>1 DEF Layers
    <3>4. Prepare(argv)' = Prepare(argv)
      BY <3>1 DEF Prepare, DictionaryLayer, CatalogFails, Ambiguous, DictionaryFails
    <3>5. QED
      BY <1>2, <2>3, <3>1, <3>2, <3>3, <3>4 DEF RunIsMade
  <2>5. CASE TrainFromCaller
    <3>1. dictionary' = dictionary /\ run = NoRun /\ worker' = worker
      BY <2>5 DEF TrainFromCaller
    <3>2. PICK layer \in Layers : run' = Programmatic(Over(layer, Baseline))
      BY <2>5 DEF TrainFromCaller
    <3>3. Layers' = Layers
      BY <3>1 DEF Layers
    <3>4. Programmatic(Over(layer, Baseline))' = Programmatic(Over(layer, Baseline))
      BY <3>1 DEF Programmatic, CatalogFails, Ambiguous
    <3>5. QED
      BY <1>2, <2>3, <3>1, <3>2, <3>3, <3>4 DEF RunIsMade
  <2>6. CASE Work
    <3>1. dictionary' = dictionary /\ run' = run /\ run.verdict = "trains"
      BY <2>6 DEF Work
    <3>2. \/ worker' = [NoWorker EXCEPT !.at = "failed"]
          \/ \E rank \in Ranks :
                worker' = [at |-> "trains", rank |-> rank, cfg |-> Trained(run.cfg, rank)]
      BY <2>6 DEF Work
    <3>3. Layers' = Layers
      BY <3>1 DEF Layers
    <3>4. \A argv : Prepare(argv)' = Prepare(argv)
      BY <3>1 DEF Prepare, DictionaryLayer, CatalogFails, Ambiguous, DictionaryFails
    <3>5. \A layer : Programmatic(Over(layer, Baseline))' = Programmatic(Over(layer, Baseline))
      BY <3>1 DEF Programmatic, CatalogFails, Ambiguous
    <3>6. QED
      BY <1>2, <3>1, <3>2, <3>3, <3>4, <3>5 DEF RunIsMade
  <2>7. CASE Finish
    BY <1>2, <2>7 DEF Finish, RunIsMade
  <2>8. QED
    BY <1>2, <2>1, <2>2, <2>4, <2>5, <2>6, <2>7 DEF TrainingNext, Next, vars
<1>3. QED
  BY <1>1, <1>2, PTL DEF TrainingSpec

\* Whatever the rules and the layers are, each layer is judged over what is
\* beneath it: nothing the rules forbid is accepted, and a run that asks for
\* nothing they forbid is not refused (prepare_train_config() and
\* launch_training()).
THEOREM Decides == TrainingSpec => []RulesDecide
<1>1. RunIsMade => RulesDecide
  BY RunRefusedOrAccepted, WorkerFacts, LegalRunTrains
  DEF RulesDecide, TypeOK, Judged, RunTypes
<1>2. QED
  BY <1>1, RunIsMadeInductive, PTL

\* The highest layer that names a leaf decides what is accepted, and what a
\* worker trains with in every leaf it does not set itself; the catalog that is
\* saved with the run replays to what was accepted (build_effective_catalog(),
\* run_train()).
THEOREM Replays == TrainingSpec => []LayersAreReplayable
<1>1. RunIsMade => LayersAreReplayable
  <2>1. SUFFICES ASSUME RunIsMade PROVE HighestLayerWins /\ CatalogReplays
    BY DEF LayersAreReplayable
  <2>2. CatalogReplays /\ (Accepted => run.cfg = Said)
    BY <2>1, RunRefusedOrAccepted DEF Judged
  <2>3. worker.at = "trains" =>
           Accepted /\ \A p \in Paths \ Synced : worker.cfg[p] = run.cfg[p]
    BY <2>1, WorkerFacts
  <2>4. QED
    BY <2>2, <2>3 DEF HighestLayerWins
<1>2. QED
  BY <1>1, RunIsMadeInductive, PTL

-----------------------------------------------------------------------------
(* The motion command *)

MotionInv == Motion!TypeOK /\ Motion!FailsWhereItFell

\* The sampling module has operators of its own on finite sets: the same ones.
LEMMA SameFinite == ASSUME NEW S PROVE Motion!IsFiniteSet(S) <=> IsFiniteSet(S)
  BY DEF Motion!IsFiniteSet, IsFiniteSet

LEMMA SameCardinality == ASSUME NEW S PROVE Motion!Cardinality(S) = Cardinality(S)
  BY DEF Motion!Cardinality, Cardinality

LEMMA MotionConstants ==
    /\ Frames \in Nat \ {0} /\ Bins \in 1 .. Frames
    /\ IsFiniteSet(Envs) /\ Cardinality(Envs) \in Nat
<1>1. Motion!MotionAssumption
  BY TrainingAssumption
<1>2. Motion!IsFiniteSet(Envs)
  BY <1>1 DEF Motion!MotionAssumption
<1>3. IsFiniteSet(Envs)
  BY <1>2, SameFinite
<1>4. Frames \in Nat \ {0} /\ Bins \in 1 .. Frames
  BY <1>1 DEF Motion!MotionAssumption
<1>5. QED
  BY <1>3, <1>4, FS_CardinalityType

LEMMA DivBelow ==
    ASSUME NEW a \in Nat, NEW n \in Nat \ {0}, NEW c \in Nat, a <= c * n
    PROVE  a \div n \in Nat /\ a \div n <= c
<1> DEFINE q == a \div n
<1>1. q \in Int /\ q * n <= a /\ a < q * n + n
  OBVIOUS
<1>2. q >= 0
  OBVIOUS
<1> HIDE DEF q
<1>3. ASSUME q >= c + 1 PROVE FALSE
  <2>1. q * n >= (c + 1) * n
    BY <1>1, <1>2, <1>3
  <2>2. (c + 1) * n = c * n + n
    OBVIOUS
  <2>3. QED
    BY <1>1, <2>1, <2>2
<1>4. q <= c
  BY <1>1, <1>3
<1>5. QED
  BY <1>1, <1>2, <1>4 DEF q

LEMMA DrawsAreFrames == Motion!Draws \subseteq 0 .. (Frames - 1)
<1>1. Frames \in Nat \ {0} /\ Bins \in 1 .. Frames
  BY MotionConstants
<1>2. ASSUME NEW b \in 0 .. (Bins - 1)
      PROVE  Motion!DrawnFrom(b) \subseteq 0 .. (Frames - 1)
  <2>1. b \in Nat /\ Bins \in Nat \ {0} /\ Frames - 1 \in Nat /\ b + 1 <= Bins
    BY <1>1
  <2>2. /\ b * (Frames - 1) \in Nat
        /\ (b + 1) * (Frames - 1) \in Nat
        /\ b * (Frames - 1) <= (Frames - 1) * Bins
        /\ (b + 1) * (Frames - 1) <= (Frames - 1) * Bins
    BY <2>1
  <2>3. (b * (Frames - 1)) \div Bins \in Nat
    BY <2>1, <2>2, DivBelow
  <2>4. /\ ((b + 1) * (Frames - 1)) \div Bins \in Nat
        /\ ((b + 1) * (Frames - 1)) \div Bins <= Frames - 1
    BY <2>1, <2>2, DivBelow
  <2>5. QED
    BY <2>1, <2>3, <2>4 DEF Motion!DrawnFrom
<1>3. QED
  BY <1>2 DEF Motion!Draws, Motion!AllBins

\* The failures of a step, told by environment or by bin.
LEMMA CountsFacts ==
    ASSUME NEW before, NEW failed \in SUBSET Envs
    PROVE  /\ Motion!Counts(before, failed) \in [Motion!AllBins -> 0 .. Motion!Cardinality(Envs)]
           /\ Motion!Counts(before, failed) =
                [b \in Motion!AllBins |->
                   Motion!Cardinality({f \in {<<n, Motion!BinOf(before[n])>> : n \in failed} : f[2] = b})]
<1>1. IsFiniteSet(Envs)
  BY MotionConstants
<1>2. ASSUME NEW b \in Motion!AllBins
      PROVE  LET S == {n \in failed : Motion!BinOf(before[n]) = b}
                 T == {f \in {<<n, Motion!BinOf(before[n])>> : n \in failed} : f[2] = b}
             IN  /\ Motion!Cardinality(S) \in 0 .. Motion!Cardinality(Envs)
                 /\ Motion!Cardinality(T) = Motion!Cardinality(S)
  <2> DEFINE S == {n \in failed : Motion!BinOf(before[n]) = b}
             T == {f \in {<<n, Motion!BinOf(before[n])>> : n \in failed} : f[2] = b}
             g == [n \in S |-> <<n, b>>]
  <2>1. S \in SUBSET Envs
    OBVIOUS
  <2>2. IsFiniteSet(S) /\ Cardinality(S) <= Cardinality(Envs)
    BY <1>1, <2>1, FS_Subset
  <2>3. Cardinality(S) \in Nat /\ Cardinality(Envs) \in Nat
    BY <1>1, <2>2, FS_CardinalityType
  <2>4. T = {<<n, b>> : n \in S}
    OBVIOUS
  <2>5. ExistsBijection(S, T)
    <3> HIDE DEF S, T
    <3>1. g \in [S -> T]
      BY <2>4
    <3>2. \A n, m \in S : g[n] = g[m] => n = m
      OBVIOUS
    <3>3. \A y \in T : \E n \in S : g[n] = y
      BY <2>4
    <3> HIDE DEF g
    <3>4. g \in Bijection(S, T)
      BY <3>1, <3>2, <3>3 DEF Bijection, Injection, Surjection, IsInjective
    <3>5. QED
      BY <3>4 DEF ExistsBijection
  <2>6. Cardinality(T) = Cardinality(S)
    BY <2>2, <2>5, FS_Bijection
  <2>7. /\ Motion!Cardinality(S) = Cardinality(S) /\ Motion!Cardinality(T) = Cardinality(T)
        /\ Motion!Cardinality(Envs) = Cardinality(Envs)
    BY SameCardinality
  <2> HIDE DEF S, T
  <2>8. /\ Motion!Cardinality(S) \in 0 .. Motion!Cardinality(Envs)
        /\ Motion!Cardinality(T) = Motion!Cardinality(S)
    BY <2>2, <2>3, <2>6, <2>7
  <2>9. QED
    BY <2>8, Zenon DEF S, T
<1> DEFINE count(b) == Motion!Cardinality({n \in failed : Motion!BinOf(before[n]) = b})
           told(b) == Motion!Cardinality({f \in {<<n, Motion!BinOf(before[n])>> : n \in failed} : f[2] = b})
<1>3. \A b \in Motion!AllBins : count(b) \in 0 .. Motion!Cardinality(Envs) /\ told(b) = count(b)
  BY <1>2
<1>4. Motion!Counts(before, failed) = [b \in Motion!AllBins |-> count(b)]
  BY DEF Motion!Counts
<1> HIDE DEF count, told
<1>5. [b \in Motion!AllBins |-> count(b)] = [b \in Motion!AllBins |-> told(b)]
  BY <1>3
<1>6. [b \in Motion!AllBins |-> count(b)] \in [Motion!AllBins -> 0 .. Motion!Cardinality(Envs)]
  BY <1>3
<1>7. QED
  BY <1>4, <1>5, <1>6 DEF told

LEMMA NoFailuresFacts ==
    /\ Motion!NoFailures \in [Motion!AllBins -> 0 .. Motion!Cardinality(Envs)]
    /\ Motion!NoFailures = [b \in Motion!AllBins |-> Motion!Cardinality({f \in {} : f[2] = b})]
<1>1. Motion!Cardinality(Envs) \in Nat
  BY MotionConstants, SameCardinality
<1>2. \A b : {f \in {} : f[2] = b} = {}
  OBVIOUS
<1>3. Motion!Cardinality({}) = 0
  BY FS_EmptySet, SameCardinality
<1>4. QED
  BY <1>1, <1>2, <1>3 DEF Motion!NoFailures

LEMMA CountedFacts ==
    ASSUME NEW counts \in [Motion!AllBins -> 0 .. Motion!Cardinality(Envs)], NEW before,
           NEW failed \in SUBSET Envs
    PROVE  Motion!Counted(counts, before, failed) \in [Motion!AllBins -> 0 .. Motion!Cardinality(Envs)]
  BY CountsFacts DEF Motion!Counted

LEMMA MotionInvInductive == TrainingSpec => []MotionInv
<1>1. Frames \in Nat \ {0} /\ Motion!Draws \subseteq 0 .. (Frames - 1)
  BY MotionConstants, DrawsAreFrames
<1>2. TrainingInit => MotionInv
  <2> SUFFICES ASSUME Motion!Init PROVE MotionInv
    BY DEF TrainingInit
  <2>1. time_steps = [n \in Envs |-> 0] /\ charged = Motion!NoFailures /\ step.failed = {}
    BY DEF Motion!Init
  <2>2. QED
    BY <1>1, <2>1, NoFailuresFacts DEF MotionInv, Motion!TypeOK, Motion!FailsWhereItFell
<1>3. ASSUME MotionInv, [TrainingNext]_<<moving, vars, swingVars, motionVars>>
      PROVE  MotionInv'
  <2>1. CASE UNCHANGED motionVars
    BY <1>3, <2>1 DEF MotionInv, motionVars, Motion!TypeOK, Motion!FailsWhereItFell
  <2>2. CASE Motion!Step
    <3> DEFINE Takes(terminated, timedOut, first, second) ==
          LET restarted == [n \in Envs |-> IF n \in terminated \cup timedOut THEN first[n]
                                           ELSE time_steps[n]]
              afterReset == Motion!Counted(Motion!NoFailures, time_steps, terminated)
              advanced == [n \in Envs |-> restarted[n] + 1]
              past == {n \in Envs : advanced[n] >= Frames}
              wrapped == [n \in Envs |-> IF n \in past THEN second[n] ELSE advanced[n]]
          IN  /\ \A n \in Envs \ (terminated \cup timedOut) : first[n] = 0
              /\ \A n \in Envs \ past : second[n] = 0
              /\ time_steps' = wrapped
              /\ charged' = IF past = {} THEN afterReset
                            ELSE Motion!Counted(afterReset, advanced, terminated \cap past)
              /\ step' = [failed |-> {<<n, Motion!BinOf(time_steps[n])>> : n \in terminated},
                          last |-> {n \in terminated : first[n] = Frames - 1}]
    <3>0. PICK terminated \in SUBSET Envs : \E timedOut \in SUBSET (Envs \ terminated) :
            \E first \in [Envs -> Motion!Draws], second \in [Envs -> Motion!Draws] :
               Takes(terminated, timedOut, first, second)
      BY <2>2, Zenon DEF Motion!Step
    <3>1. PICK timedOut \in SUBSET (Envs \ terminated),
               first \in [Envs -> Motion!Draws], second \in [Envs -> Motion!Draws] :
                  Takes(terminated, timedOut, first, second)
      BY <3>0, Zenon
    <3> DEFINE restarted == [n \in Envs |-> IF n \in terminated \cup timedOut THEN first[n]
                                            ELSE time_steps[n]]
               afterReset == Motion!Counted(Motion!NoFailures, time_steps, terminated)
               advanced == [n \in Envs |-> restarted[n] + 1]
               past == {n \in Envs : advanced[n] >= Frames}
               wrapped == [n \in Envs |-> IF n \in past THEN second[n] ELSE advanced[n]]
               failed == {<<n, Motion!BinOf(time_steps[n])>> : n \in terminated}
    <3>2. /\ time_steps' = wrapped
          /\ charged' = IF past = {} THEN afterReset
                        ELSE Motion!Counted(afterReset, advanced, terminated \cap past)
          /\ step'.failed = failed
          /\ step'.last = {n \in terminated : first[n] = Frames - 1}
      BY <3>1
    <3>3. \A n \in Envs : restarted[n] \in 0 .. (Frames - 1)
      BY <1>1, <1>3 DEF MotionInv, Motion!TypeOK
    <3>4. \A n \in Envs : wrapped[n] \in 0 .. (Frames - 1)
      <4>1. ASSUME NEW n \in Envs PROVE wrapped[n] \in 0 .. (Frames - 1)
        <5>1. CASE n \in past
          <6>1. second[n] \in Motion!Draws
            OBVIOUS
          <6>2. QED
            BY <1>1, <5>1, <6>1
        <5>2. CASE n \notin past
          <6>1. advanced[n] = restarted[n] + 1 /\ ~ (advanced[n] >= Frames)
            BY <5>2
          <6>2. wrapped[n] = advanced[n]
            BY <5>2
          <6> HIDE DEF restarted, advanced, wrapped
          <6>3. QED
            BY <1>1, <3>3, <6>1, <6>2
        <5>3. QED
          BY <5>1, <5>2
      <4>2. QED
        BY <4>1
    <3>5. afterReset \in [Motion!AllBins -> 0 .. Motion!Cardinality(Envs)]
      BY NoFailuresFacts, CountedFacts
    <3> HIDE DEF afterReset, advanced
    <3>6. charged' \in [Motion!AllBins -> 0 .. Motion!Cardinality(Envs)]
      <4>1. terminated \cap past \in SUBSET Envs
        OBVIOUS
      <4>2. Motion!Counted(afterReset, advanced, terminated \cap past)
              \in [Motion!AllBins -> 0 .. Motion!Cardinality(Envs)]
        BY <3>5, <4>1, CountedFacts
      <4>3. QED
        BY <3>2, <3>5, <4>2
    <3>7. Motion!TypeOK'
      BY <3>2, <3>4, <3>6 DEF Motion!TypeOK, Motion!AllBins
    <3>8. ASSUME step'.last = {}
          PROVE  charged' = [b \in Motion!AllBins |-> Motion!Cardinality({f \in failed : f[2] = b})]
      <4>1. ASSUME NEW n \in terminated PROVE n \notin past
        <5>1. first[n] \in 0 .. (Frames - 1) /\ first[n] # Frames - 1
          BY <1>1, <3>2, <3>8
        <5>2. advanced[n] = first[n] + 1
          BY DEF advanced
        <5>3. QED
          BY <1>1, <5>1, <5>2
      <4>2. terminated \cap past = {}
        BY <4>1
      <4>3. charged' = afterReset
        BY <3>2, <4>2 DEF Motion!Counted
      <4>4. CASE terminated = {}
        <5>1. afterReset = Motion!NoFailures /\ failed = {}
          BY <4>4 DEF afterReset, Motion!Counted
        <5>2. QED
          BY <4>3, <5>1, NoFailuresFacts
      <4>5. CASE terminated # {}
        <5>1. afterReset = Motion!Counts(time_steps, terminated)
          BY <4>5 DEF afterReset, Motion!Counted
        <5>2. QED
          BY <4>3, <5>1, CountsFacts
      <4>6. QED
        BY <4>4, <4>5
    <3>9. Motion!FailsWhereItFell'
      BY <3>2, <3>8 DEF Motion!FailsWhereItFell, Motion!AllBins
    <3>10. QED
      BY <3>7, <3>9 DEF MotionInv
  <2>3. QED
    BY <1>3, <2>1, <2>2 DEF TrainingNext, Motion!Next
<1>4. QED
  BY <1>2, <1>3, PTL DEF TrainingSpec

\* An environment that fell is held once against the part of the motion it fell
\* in, whoever else restarts or wraps in the step, and no frame is outside the
\* motion (MotionCommand._adaptive_sampling() and _update_command()).
THEOREM FailuresCount == TrainingSpec => []FailsWhereItFell
<1>1. MotionInv => FailsWhereItFell
  BY DEF MotionInv, FailsWhereItFell
<1>2. QED
  BY <1>1, MotionInvInductive, PTL

-----------------------------------------------------------------------------
(* A swing: the operators of LandingsAreCharged, over any sequence of          *)
(* observations q                                                              *)

Obs == [h : Heights, found : BOOLEAN, air : Nat, command : Swing!Commands,
        firstAir : BOOLEAN, firstContact : BOOLEAN]

Lifted(q) == {i \in DOMAIN q : q[i].firstAir /\ \E j \in 1..i : q[j].found}

Open(q, n) == {i \in Lifted(q) : i < n /\ \A j \in i..(n - 1) : ~q[j].firstContact}

Latest(q, n) == IF Open(q, n) = {} THEN 0 ELSE Swing!Max(Open(q, n))

Touched(q) == \E j \in 1 .. Len(q) : q[j].found

IsGreatest(m, S) == m \in S /\ \A x \in S : x <= m

LEMMA HeightsAreIntegers == \A h \in Heights \cup {0} : h \in Int
<1>1. Swing!SwingAssumption
  BY TrainingAssumption
<1>2. Heights \subseteq Int
  BY <1>1 DEF Swing!SwingAssumption
<1>3. QED
  BY <1>2

LEMMA MaxIs ==
    ASSUME NEW S, S \subseteq Int, NEW m, IsGreatest(m, S)
    PROVE  Swing!Max(S) = m
<1>1. \E y \in S : \A z \in S : y >= z
  BY DEF IsGreatest
<1>2. Swing!Max(S) \in S /\ \A z \in S : Swing!Max(S) >= z
  BY <1>1 DEF Swing!Max
<1>3. m \in S /\ Swing!Max(S) <= m
  BY <1>2 DEF IsGreatest
<1>4. m \in Int /\ Swing!Max(S) \in Int /\ Swing!Max(S) >= m
  BY <1>2, <1>3
<1>5. QED
  BY <1>3, <1>4

LEMMA MaxOfTwo ==
    ASSUME NEW a \in Int, NEW b \in Int
    PROVE  IsGreatest(Swing!Max({a, b}), {a, b})
<1>1. CASE a <= b
  <2>1. IsGreatest(b, {a, b})
    BY <1>1 DEF IsGreatest
  <2>2. Swing!Max({a, b}) = b
    BY <2>1, MaxIs
  <2>3. QED
    BY <2>1, <2>2
<1>2. CASE b <= a
  <2>1. IsGreatest(a, {a, b})
    BY <1>2 DEF IsGreatest
  <2>2. Swing!Max({a, b}) = a
    BY <2>1, MaxIs
  <2>3. QED
    BY <2>1, <2>2
<1>3. QED
  BY <1>1, <1>2

LEMMA MaxWithZero ==
    ASSUME NEW a \in Nat, NEW b \in Int
    PROVE  /\ Swing!Max({a, b, 0}) = Swing!Max({a, b})
           /\ Swing!Max({a, b}) \in Nat
           /\ Swing!Max({a, b}) \in {a, b} /\ a <= Swing!Max({a, b}) /\ b <= Swing!Max({a, b})
<1> DEFINE m == Swing!Max({a, b})
<1>1. m \in {a, b} /\ a <= m /\ b <= m
  BY MaxOfTwo DEF IsGreatest
<1> HIDE DEF m
<1>2. m \in Nat
  BY <1>1
<1>3. IsGreatest(m, {a, b, 0})
  BY <1>1, <1>2 DEF IsGreatest
<1>4. Swing!Max({a, b, 0}) = m
  BY <1>3, MaxIs
<1>5. QED
  BY <1>1, <1>2, <1>4 DEF m

LEMMA MinOfTwo ==
    ASSUME NEW a \in Nat, NEW b \in Nat
    PROVE  Swing!Min({a, b}) \in Nat
<1>1. \E y \in {a, b} : \A z \in {a, b} : y <= z
  <2>1. CASE a <= b
    BY <2>1
  <2>2. CASE b <= a
    BY <2>2
  <2>3. QED
    BY <2>1, <2>2
<1>2. Swing!Min({a, b}) \in {a, b}
  BY <1>1 DEF Swing!Min
<1>3. QED
  BY <1>2

\* One more observation at the end of a sequence.
LEMMA OneMore ==
    ASSUME NEW q \in Seq(Obs), NEW x \in Obs
    PROVE  /\ Len(q) \in Nat /\ DOMAIN q = 1 .. Len(q) /\ \A i \in 1 .. Len(q) : q[i] \in Obs
           /\ Append(q, x) \in Seq(Obs) /\ Len(Append(q, x)) = Len(q) + 1
           /\ DOMAIN Append(q, x) = 1 .. (Len(q) + 1)
           /\ \A i \in 1 .. Len(q) : Append(q, x)[i] = q[i]
           /\ Append(q, x)[Len(q) + 1] = x
  BY AppendProperties, LenProperties, ElementOfSeq

LEMMA TouchedMore ==
    ASSUME NEW q \in Seq(Obs), NEW x \in Obs
    PROVE  Touched(Append(q, x)) <=> Touched(q) \/ x.found
<1> DEFINE r == Append(q, x)
<1>1. /\ Len(q) \in Nat /\ Len(r) = Len(q) + 1
      /\ \A i \in 1 .. Len(q) : r[i] = q[i]
      /\ r[Len(q) + 1] = x
  BY OneMore
<1> HIDE DEF r
<1>2. \A j \in 1 .. Len(r) : j \in 1 .. Len(q) \/ j = Len(q) + 1
  BY <1>1
<1>3. \A j \in 1 .. Len(q) : j \in 1 .. Len(r)
  BY <1>1
<1>4. Len(q) + 1 \in 1 .. Len(r)
  BY <1>1
<1>5. QED
  BY <1>1, <1>2, <1>3, <1>4 DEF Touched, r

LEMMA LiftedMore ==
    ASSUME NEW q \in Seq(Obs), NEW x \in Obs, x.firstAir => ~ x.found
    PROVE  /\ \A i \in 1 .. Len(q) : i \in Lifted(Append(q, x)) <=> i \in Lifted(q)
           /\ Len(q) + 1 \in Lifted(Append(q, x)) <=> x.firstAir /\ Touched(q)
           /\ Lifted(q) \subseteq 1 .. Len(q)
           /\ Lifted(Append(q, x)) \subseteq 1 .. (Len(q) + 1)
<1> DEFINE r == Append(q, x)
<1>1. /\ Len(q) \in Nat /\ DOMAIN q = 1 .. Len(q) /\ DOMAIN r = 1 .. (Len(q) + 1)
      /\ \A i \in 1 .. Len(q) : r[i] = q[i]
      /\ r[Len(q) + 1] = x
  BY OneMore
<1> HIDE DEF r
<1>2. ASSUME NEW i \in 1 .. Len(q) PROVE i \in Lifted(r) <=> i \in Lifted(q)
  <2>1. \A j \in 1 .. i : j \in 1 .. Len(q)
    BY <1>1
  <2>2. i \in DOMAIN q /\ i \in DOMAIN r
    BY <1>1
  <2>3. QED
    BY <1>1, <2>1, <2>2 DEF Lifted
<1>3. Len(q) + 1 \in Lifted(r) <=> x.firstAir /\ Touched(q)
  <2>1. Len(q) + 1 \in DOMAIN r
    BY <1>1
  <2>2. \A j \in 1 .. (Len(q) + 1) : j \in 1 .. Len(q) \/ j = Len(q) + 1
    BY <1>1
  <2>3. \A j \in 1 .. Len(q) : j \in 1 .. (Len(q) + 1)
    BY <1>1
  <2>4. QED
    BY <1>1, <2>1, <2>2, <2>3 DEF Lifted, Touched
<1>4. QED
  BY <1>1, <1>2, <1>3 DEF Lifted, r

\* The swing that was open before the last observation is the same when it is
\* made, and what it does to it.
LEMMA OpenBefore ==
    ASSUME NEW q \in Seq(Obs), NEW x \in Obs, x.firstAir => ~ x.found
    PROVE  Latest(Append(q, x), Len(q) + 1) = Latest(q, Len(q) + 1)
<1> DEFINE r == Append(q, x)
           n == Len(q) + 1
<1>1. /\ Len(q) \in Nat
      /\ \A i \in 1 .. Len(q) : r[i] = q[i]
  BY OneMore
<1>2. /\ \A i \in 1 .. Len(q) : i \in Lifted(r) <=> i \in Lifted(q)
      /\ Lifted(q) \subseteq 1 .. Len(q) /\ Lifted(r) \subseteq 1 .. (Len(q) + 1)
  BY LiftedMore
<1> HIDE DEF r
<1>3. ASSUME NEW i PROVE i \in Open(r, n) <=> i \in Open(q, n)
  <2>1. i \in Open(r, n) \/ i \in Open(q, n) => i \in 1 .. Len(q)
    BY <1>1, <1>2 DEF Open
  <2>2. ASSUME i \in 1 .. Len(q) PROVE i \in Open(r, n) <=> i \in Open(q, n)
    <3>1. \A j \in i .. (n - 1) : j \in 1 .. Len(q)
      BY <1>1, <2>2
    <3>2. QED
      BY <1>1, <1>2, <2>2, <3>1 DEF Open
  <2>3. QED
    BY <2>1, <2>2
<1>4. Open(r, n) = Open(q, n)
  BY <1>3
<1>5. QED
  BY <1>4 DEF Latest, r

LEMMA OpenAfter ==
    ASSUME NEW q \in Seq(Obs), NEW x \in Obs, x.firstAir => ~ x.found,
           x.firstContact => x.found,
           NEW i
    PROVE  i \in Open(Append(q, x), Len(q) + 2) <=>
              /\ ~ x.firstContact
              /\ \/ i \in Open(q, Len(q) + 1)
                 \/ i = Len(q) + 1 /\ x.firstAir /\ Touched(q)
<1> DEFINE r == Append(q, x)
           n == Len(q)
<1>1. /\ n \in Nat
      /\ \A j \in 1 .. n : r[j] = q[j]
      /\ r[n + 1] = x
  BY OneMore
<1>2. /\ \A j \in 1 .. n : j \in Lifted(r) <=> j \in Lifted(q)
      /\ n + 1 \in Lifted(r) <=> x.firstAir /\ Touched(q)
      /\ Lifted(q) \subseteq 1 .. n /\ Lifted(r) \subseteq 1 .. (n + 1)
  BY LiftedMore
<1> HIDE DEF r, n
<1>3. i \in Open(r, n + 2) <=>
         i \in Lifted(r) /\ i < n + 2 /\ \A j \in i .. (n + 1) : ~ r[j].firstContact
  BY <1>1 DEF Open
<1>4. i \in Open(q, n + 1) <=>
         i \in Lifted(q) /\ i < n + 1 /\ \A j \in i .. n : ~ q[j].firstContact
  BY <1>1 DEF Open
<1>5. CASE i \in 1 .. n
  <2>1. \A j \in i .. (n + 1) : (j \in 1 .. n /\ j \in i .. n) \/ j = n + 1
    BY <1>1, <1>5
  <2>2. \A j \in i .. n : j \in 1 .. n /\ j \in i .. (n + 1)
    BY <1>1, <1>5
  <2>3. n + 1 \in i .. (n + 1)
    BY <1>1, <1>5
  <2>4. (\A j \in i .. (n + 1) : ~ r[j].firstContact)
           <=> ~ x.firstContact /\ \A j \in i .. n : ~ q[j].firstContact
    BY <1>1, <2>1, <2>2, <2>3
  <2>5. i < n + 1 /\ i < n + 2 /\ i # n + 1
    BY <1>1, <1>5
  <2>6. i \in Lifted(r) <=> i \in Lifted(q)
    BY <1>2, <1>5
  <2>7. QED
    BY <1>3, <1>4, <2>4, <2>5, <2>6 DEF r, n
<1>6. CASE i = n + 1
  <2>1. (\A j \in i .. (n + 1) : ~ r[j].firstContact) <=> ~ x.firstContact
    BY <1>1, <1>6
  <2>2. i \notin Lifted(q) /\ i < n + 2
    BY <1>1, <1>2, <1>6
  <2>3. i \in Lifted(r) <=> x.firstAir /\ Touched(q)
    BY <1>2, <1>6
  <2>4. QED
    BY <1>3, <1>4, <1>6, <2>1, <2>2, <2>3 DEF r, n
<1>7. CASE i \notin 1 .. (n + 1)
  <2>1. i \notin Lifted(q) /\ i \notin Lifted(r) /\ i # n + 1
    BY <1>1, <1>2, <1>7
  <2>2. QED
    BY <1>3, <1>4, <2>1 DEF r, n
<1>8. QED
  BY <1>1, <1>5, <1>6, <1>7

\* The swing o that is open after the observations q.
SwingHolds(q, o) ==
    /\ o \in 0 .. Len(q) /\ o = Latest(q, Len(q) + 1)
    /\ Open(q, Len(q) + 1) # {} => IsGreatest(o, Open(q, Len(q) + 1))
    /\ o # 0 => /\ Touched(q)
                /\ \A j \in o .. Len(q) : ~ q[j].found

\* The swing of q with one more observation, before a landing ends it.
Lifts(q, x) == x.firstAir /\ Touched(q)
Current(q, x, o) == IF Lifts(q, x) THEN Len(q) + 1 ELSE o
SwingAfter(q, x, o) == IF x.firstContact THEN 0 ELSE Current(q, x, o)

\* An observation that can follow q.
Follows(q, x) ==
    /\ x.firstAir => ~ x.found
    /\ x.firstContact => x.found
    /\ x.found /\ ~ x.firstContact => Len(q) > 0 /\ q[Len(q)].found

LEMMA SwingMore ==
    ASSUME NEW q \in Seq(Obs), NEW x \in Obs, NEW o, SwingHolds(q, o), Follows(q, x)
    PROVE  /\ SwingHolds(Append(q, x), SwingAfter(q, x, o))
           /\ x.found => ~ Lifts(q, x) /\ SwingAfter(q, x, o) = 0
           /\ x.found /\ ~ x.firstContact => o = 0
<1> DEFINE r == Append(q, x)
           n == Len(q)
           p == SwingAfter(q, x, o)
<1>1. /\ n \in Nat /\ Len(r) = n + 1 /\ r[n + 1] = x
      /\ \A j \in 1 .. n : r[j] = q[j] /\ q[j] \in Obs
  BY OneMore
<1>2. x.found \in BOOLEAN /\ x.firstAir \in BOOLEAN /\ x.firstContact \in BOOLEAN
  BY DEF Obs
<1>3. /\ o \in 0 .. n /\ o = Latest(q, n + 1)
      /\ Open(q, n + 1) # {} => IsGreatest(o, Open(q, n + 1))
      /\ o # 0 => Touched(q) /\ \A j \in o .. n : ~ q[j].found
  BY DEF SwingHolds
<1>4. /\ x.firstAir => ~ x.found
      /\ x.firstContact => x.found
      /\ x.found /\ ~ x.firstContact => n > 0 /\ q[n].found
  BY DEF Follows
<1>5. x.found /\ ~ x.firstContact => o = 0
  <2>1. n > 0 /\ o # 0 => n \in o .. n
    BY <1>1, <1>3
  <2>2. QED
    BY <1>3, <1>4, <2>1
<1>6. x.found => ~ Lifts(q, x) /\ p = 0
  BY <1>2, <1>4, <1>5 DEF SwingAfter, Current, Lifts
<1>7. \A i : i \in Open(r, n + 2) <=> /\ ~ x.firstContact
                                      /\ \/ i \in Open(q, n + 1)
                                         \/ i = n + 1 /\ Lifts(q, x)
  BY <1>4, OpenAfter DEF Lifts
<1>8. \A i \in Open(q, n + 1) : i \in Nat /\ i <= n
  <2>1. Lifted(q) \subseteq 1 .. n
    BY <1>4, LiftedMore
  <2>2. QED
    BY <1>1, <2>1 DEF Open
<1>9. Touched(r) <=> Touched(q) \/ x.found
  BY TouchedMore
<1> HIDE DEF r, n, p
<1>10. p \in 0 .. (n + 1)
  BY <1>1, <1>3 DEF p, n, SwingAfter, Current
<1>11. /\ p = Latest(r, n + 2)
       /\ Open(r, n + 2) # {} => IsGreatest(p, Open(r, n + 2))
  <2>1. CASE x.firstContact
    <3>1. Open(r, n + 2) = {} /\ p = 0
      BY <1>7, <2>1 DEF p, SwingAfter
    <3>2. QED
      BY <3>1 DEF Latest
  <2>2. CASE ~ x.firstContact /\ Lifts(q, x)
    <3>1. p = n + 1
      BY <2>2 DEF p, n, SwingAfter, Current
    <3>2. \A i : i \in Open(r, n + 2) <=> i \in Open(q, n + 1) \/ i = n + 1
      BY <1>7, <2>2
    <3>3. IsGreatest(n + 1, Open(r, n + 2)) /\ Open(r, n + 2) \subseteq Int
      BY <1>1, <1>8, <3>2 DEF IsGreatest
    <3>4. Swing!Max(Open(r, n + 2)) = n + 1 /\ Open(r, n + 2) # {}
      BY <3>2, <3>3, MaxIs
    <3>5. QED
      BY <3>1, <3>3, <3>4 DEF Latest
  <2>3. CASE ~ x.firstContact /\ ~ Lifts(q, x)
    <3>1. p = o
      BY <2>3 DEF p, SwingAfter, Current
    <3>2. Open(r, n + 2) = Open(q, n + 1)
      BY <1>7, <2>3
    <3>3. QED
      BY <1>3, <3>1, <3>2 DEF Latest
  <2>4. QED
    BY <2>1, <2>2, <2>3
<1>12. ASSUME p # 0
       PROVE  Touched(r) /\ \A j \in p .. (n + 1) : ~ r[j].found
  <2>1. ~ x.found
    BY <1>6, <1>12
  <2>2. CASE Lifts(q, x)
    <3>1. p = n + 1 /\ Touched(q)
      BY <1>12, <2>2 DEF p, n, SwingAfter, Current, Lifts
    <3>2. \A j \in p .. (n + 1) : j = n + 1
      BY <1>1, <3>1
    <3>3. QED
      BY <1>1, <1>9, <2>1, <3>1, <3>2
  <2>3. CASE ~ Lifts(q, x)
    <3>1. p = o
      BY <1>12, <2>3 DEF p, SwingAfter, Current
    <3>2. Touched(q) /\ \A j \in o .. n : ~ q[j].found
      BY <1>3, <1>12, <3>1
    <3>3. \A j \in o .. (n + 1) : j = n + 1 \/ (j \in o .. n /\ j \in 1 .. n)
      <4>1. o \in 1 .. n
        BY <1>1, <1>3, <1>12, <3>1
      <4>2. QED
        BY <1>1, <4>1
    <3>4. QED
      BY <1>1, <1>9, <2>1, <3>1, <3>2, <3>3
  <2>4. QED
    BY <2>2, <2>3
<1>13. n + 1 + 1 = n + 2
  BY <1>1
<1>14. SwingHolds(r, p)
  BY <1>1, <1>10, <1>11, <1>12, <1>13 DEF SwingHolds
<1>15. QED
  BY <1>5, <1>6, <1>14 DEF r, p

-----------------------------------------------------------------------------
(* The knee terms *)

KneeStates == [seen : BOOLEAN, initialized : BOOLEAN, liftoff : Heights \cup {0},
               peak : Nat, level : Levels \cup {Swing!NoLevel}, active : BOOLEAN]

KneePeaks(q, o, window) ==
    {0} \cup {q[k].h - q[o].h : k \in {k \in o .. Len(q) : q[k].air \in window}}

KneeHolds(k, q, o, window) ==
    /\ k \in KneeStates
    /\ k.seen <=> Touched(q)
    /\ k.initialized <=> o # 0
    /\ o # 0 => /\ k.liftoff = q[o].h /\ k.level = q[o].command.level
                /\ k.active <=> q[o].command.drive = "walk"
    /\ o # 0 /\ k.active => IsGreatest(k.peak, KneePeaks(q, o, window))

LEMMA LatchFacts ==
    ASSUME NEW k \in KneeStates, NEW s, s.found \in BOOLEAN, s.firstAir \in BOOLEAN,
           NEW h \in Heights, command \in Swing!Commands
    PROVE  LET l == Swing!Latch(k, s, h)
           IN  /\ l \in KneeStates
               /\ l.seen <=> k.seen \/ s.found
               /\ s.firstAir /\ k.seen =>
                     /\ l.initialized /\ l.liftoff = h /\ l.peak = 0
                     /\ l.level = command.level
                     /\ l.active <=> command.drive = "walk"
               /\ ~ (s.firstAir /\ k.seen) =>
                     /\ l.initialized = k.initialized /\ l.liftoff = k.liftoff
                     /\ l.peak = k.peak /\ l.level = k.level /\ l.active = k.active
<1> DEFINE l == Swing!Latch(k, s, h)
<1>1. /\ k = [seen |-> k.seen, initialized |-> k.initialized, liftoff |-> k.liftoff,
              peak |-> k.peak, level |-> k.level, active |-> k.active]
      /\ k.seen \in BOOLEAN /\ k.initialized \in BOOLEAN /\ k.liftoff \in Heights \cup {0}
      /\ k.peak \in Nat /\ k.level \in Levels \cup {Swing!NoLevel} /\ k.active \in BOOLEAN
  BY DEF KneeStates
<1>2. command.level \in Levels
  BY DEF Swing!Commands
<1>3. CASE s.firstAir /\ k.seen
  <2>1. l = [seen |-> k.seen \/ s.found, initialized |-> TRUE, liftoff |-> h, peak |-> 0,
             level |-> command.level, active |-> (command.drive = "walk")]
    BY <1>1, <1>3 DEF Swing!Latch
  <2> HIDE DEF l
  <2>2. l \in KneeStates
    BY <1>1, <1>2, <2>1 DEF KneeStates
  <2>3. l.seen <=> k.seen \/ s.found
    BY <2>1
  <2>4. /\ l.initialized /\ l.liftoff = h /\ l.peak = 0 /\ l.level = command.level
        /\ l.active <=> command.drive = "walk"
    BY <2>1
  <2>5. QED
    BY <1>3, <2>2, <2>3, <2>4 DEF l
<1>4. CASE ~ (s.firstAir /\ k.seen)
  <2>1. l = [seen |-> k.seen \/ s.found, initialized |-> k.initialized,
             liftoff |-> k.liftoff, peak |-> k.peak, level |-> k.level, active |-> k.active]
    BY <1>1, <1>4 DEF Swing!Latch
  <2> HIDE DEF l
  <2>2. l \in KneeStates
    BY <1>1, <2>1 DEF KneeStates
  <2>3. l.seen <=> k.seen \/ s.found
    BY <2>1
  <2>4. /\ l.initialized = k.initialized /\ l.liftoff = k.liftoff
        /\ l.peak = k.peak /\ l.level = k.level /\ l.active = k.active
    BY <2>1
  <2>5. QED
    BY <1>4, <2>2, <2>3, <2>4 DEF l
<1>5. QED
  BY <1>3, <1>4

LEMMA TrackFacts ==
    ASSUME NEW k \in KneeStates, NEW s, NEW h \in Int, k.liftoff \in Int, NEW window
    PROVE  LET l == Swing!Track(k, s, h, window)
           IN  /\ l \in KneeStates
               /\ l.seen = k.seen /\ l.initialized = k.initialized /\ l.liftoff = k.liftoff
               /\ l.level = k.level /\ l.active = k.active
<1> DEFINE l == Swing!Track(k, s, h, window)
           top == Swing!Max({k.peak, h - k.liftoff})
<1>1. k.peak \in Nat
  BY DEF KneeStates
<1>2. top \in Nat
  <2>1. h - k.liftoff \in Int
    OBVIOUS
  <2>2. QED
    BY <1>1, <2>1, MaxWithZero
<1>3. l = [k EXCEPT !.peak = top] \/ l = k
  BY DEF Swing!Track
<1> HIDE DEF l, top
<1>4. l \in KneeStates
  BY <1>2, <1>3 DEF KneeStates
<1>5. /\ l.seen = k.seen /\ l.initialized = k.initialized /\ l.liftoff = k.liftoff
      /\ l.level = k.level /\ l.active = k.active
  BY <1>3 DEF KneeStates
<1>6. QED
  BY <1>4, <1>5 DEF l

\* One observation more, up to the landing it may be.
LEMMA KneeMore ==
    ASSUME NEW q \in Seq(Obs), NEW x \in Obs, NEW o, SwingHolds(q, o), Follows(q, x),
           NEW window, NEW k, KneeHolds(k, q, o, window),
           NEW s, s.found = x.found, s.firstAir = x.firstAir, s.air = x.air,
           command = x.command
    PROVE  KneeHolds(Swing!Track(Swing!Latch(k, s, x.h), s, x.h, window),
                     Append(q, x), Current(q, x, o), window)
<1> DEFINE r == Append(q, x)
           n == Len(q)
           p == Current(q, x, o)
           l == Swing!Latch(k, s, x.h)
           t == Swing!Track(l, s, x.h, window)
<1>1. /\ n \in Nat /\ Len(r) = n + 1 /\ r[n + 1] = x
      /\ \A j \in 1 .. n : r[j] = q[j] /\ q[j] \in Obs
  BY OneMore
<1>2. /\ x.found \in BOOLEAN /\ x.firstAir \in BOOLEAN /\ x.h \in Heights /\ x.h \in Int
      /\ x.command \in Swing!Commands
  BY HeightsAreIntegers DEF Obs
<1>3. /\ k \in KneeStates
      /\ k.seen <=> Touched(q)
      /\ k.initialized <=> o # 0
      /\ o # 0 => /\ k.liftoff = q[o].h /\ k.level = q[o].command.level
                  /\ k.active <=> q[o].command.drive = "walk"
      /\ o # 0 /\ k.active => IsGreatest(k.peak, KneePeaks(q, o, window))
  BY DEF KneeHolds
<1>4. o \in 0 .. n
  BY DEF SwingHolds
<1>5. Touched(r) <=> Touched(q) \/ x.found
  BY TouchedMore
<1>6. /\ l \in KneeStates
      /\ l.seen <=> k.seen \/ x.found
      /\ x.firstAir /\ k.seen =>
            /\ l.initialized /\ l.liftoff = x.h /\ l.peak = 0
            /\ l.level = x.command.level
            /\ l.active <=> x.command.drive = "walk"
      /\ ~ (x.firstAir /\ k.seen) =>
            /\ l.initialized = k.initialized /\ l.liftoff = k.liftoff
            /\ l.peak = k.peak /\ l.level = k.level /\ l.active = k.active
  BY <1>2, <1>3, LatchFacts
<1> HIDE DEF l
<1>7. l.liftoff \in Int
  <2>1. l.liftoff \in Heights \cup {0}
    BY <1>6 DEF KneeStates
  <2>2. QED
    BY <2>1, HeightsAreIntegers
<1>8. /\ t \in KneeStates
      /\ t.seen = l.seen /\ t.initialized = l.initialized /\ t.liftoff = l.liftoff
      /\ t.level = l.level /\ t.active = l.active
      /\ l.initialized /\ l.active /\ x.air \in window
            => t.peak = Swing!Max({l.peak, x.h - l.liftoff})
      /\ ~ (l.initialized /\ l.active /\ x.air \in window) => t.peak = l.peak
  <2>1. x.air \in window <=> s.air \in window
    OBVIOUS
  <2>2. l \in KneeStates /\ x.h \in Int
    BY <1>2, <1>6
  <2> HIDE DEF t
  <2>3. /\ t \in KneeStates
        /\ t.seen = l.seen /\ t.initialized = l.initialized /\ t.liftoff = l.liftoff
        /\ t.level = l.level /\ t.active = l.active
    BY <1>7, <2>2, TrackFacts DEF t
  <2>4. l.initialized /\ l.active /\ s.air \in window
            => t.peak = Swing!Max({l.peak, x.h - l.liftoff})
    BY <2>2 DEF t, Swing!Track, KneeStates
  <2>5. ~ (l.initialized /\ l.active /\ s.air \in window) => t.peak = l.peak
    BY DEF t, Swing!Track
  <2>6. QED
    BY <2>1, <2>3, <2>4, <2>5
<1> HIDE DEF t, r, n, p
<1>9. t.seen <=> Touched(r)
  BY <1>3, <1>5, <1>6, <1>8
<1>10. CASE Lifts(q, x)
  <2>1. p = n + 1 /\ p # 0
    BY <1>1, <1>10 DEF p, n, Current
  <2>2. /\ l.initialized /\ l.liftoff = x.h /\ l.peak = 0 /\ l.level = x.command.level
        /\ l.active <=> x.command.drive = "walk"
    BY <1>3, <1>6, <1>10 DEF Lifts
  <2>3. t.peak = 0
    <3>1. CASE l.initialized /\ l.active /\ x.air \in window
      <4>1. x.h - l.liftoff = 0
        BY <1>2, <2>2
      <4>2. t.peak = Swing!Max({0, 0})
        BY <1>8, <2>2, <3>1, <4>1
      <4>3. IsGreatest(Swing!Max({0, 0}), {0, 0})
        BY MaxOfTwo
      <4>4. QED
        BY <4>2, <4>3 DEF IsGreatest
    <3>2. QED
      BY <1>8, <2>2, <3>1
  <2>4. \A y \in KneePeaks(r, p, window) : y = 0
    <3>1. \A j \in p .. Len(r) : j = n + 1
      BY <1>1, <2>1
    <3>2. r[n + 1].h - r[n + 1].h = 0
      BY <1>1, <1>2
    <3>3. QED
      BY <2>1, <3>1, <3>2 DEF KneePeaks
  <2>5. 0 \in KneePeaks(r, p, window)
    BY DEF KneePeaks
  <2>6. IsGreatest(t.peak, KneePeaks(r, p, window))
    BY <2>3, <2>4, <2>5 DEF IsGreatest
  <2>7. KneeHolds(t, r, p, window)
    BY <1>1, <1>8, <1>9, <2>1, <2>2, <2>6 DEF KneeHolds
  <2>8. QED
    BY <2>7 DEF t, l, r, p
<1>11. CASE ~ Lifts(q, x)
  <2>1. p = o
    BY <1>11 DEF p, Current
  <2>2. /\ l.initialized = k.initialized /\ l.liftoff = k.liftoff /\ l.peak = k.peak
        /\ l.level = k.level /\ l.active = k.active
    BY <1>3, <1>6, <1>11 DEF Lifts
  <2>3. t.initialized <=> p # 0
    BY <1>3, <1>8, <2>1, <2>2
  <2>4. ASSUME p # 0
        PROVE  /\ t.liftoff = r[p].h /\ t.level = r[p].command.level
               /\ t.active <=> r[p].command.drive = "walk"
    <3>1. o \in 1 .. n /\ r[p] = q[o]
      BY <1>1, <1>4, <2>1, <2>4
    <3>2. QED
      BY <1>3, <1>8, <2>1, <2>2, <2>4, <3>1
  <2>5. ASSUME p # 0, t.active
        PROVE  IsGreatest(t.peak, KneePeaks(r, p, window))
    <3>0. o \in 1 .. n
      BY <1>1, <1>4, <2>1, <2>5
    <3>1. r[o] = q[o] /\ q[o].h \in Heights /\ q[o].h \in Int /\ k.liftoff = q[o].h
      <4>1. r[o] = q[o] /\ q[o] \in Obs
        BY <1>1, <3>0
      <4>2. q[o].h \in Heights
        BY <4>1 DEF Obs
      <4>3. QED
        BY <1>3, <2>1, <2>5, <4>1, <4>2, HeightsAreIntegers
    <3>2. IsGreatest(k.peak, KneePeaks(q, o, window)) /\ l.active /\ l.initialized
      BY <1>3, <1>8, <2>1, <2>2, <2>5
    <3>3. k.peak \in Nat
      BY <1>3 DEF KneeStates
    <3>4. \A j \in o .. (n + 1) : (j \in o .. n /\ j \in 1 .. n) \/ j = n + 1
      BY <1>1, <3>0
    <3>5. \A j \in o .. n : j \in o .. (n + 1) /\ r[j] = q[j]
      BY <1>1, <3>0
    <3>6. n + 1 \in o .. (n + 1)
      BY <1>1, <3>0
    <3>7. \A y : y \in KneePeaks(r, p, window) <=>
                    \/ y \in KneePeaks(q, o, window)
                    \/ x.air \in window /\ y = x.h - q[o].h
      <4>1. ASSUME NEW y
            PROVE  y \in KneePeaks(r, p, window) <=>
                      y = 0 \/ \E j \in o .. (n + 1) : r[j].air \in window /\ y = r[j].h - q[o].h
        BY <1>1, <2>1, <3>1 DEF KneePeaks
      <4>2. ASSUME NEW y
            PROVE  y \in KneePeaks(q, o, window) <=>
                      y = 0 \/ \E j \in o .. n : q[j].air \in window /\ y = q[j].h - q[o].h
        BY DEF KneePeaks, n
      <4>3. QED
        BY <1>1, <3>4, <3>5, <3>6, <4>1, <4>2
    <3>8. CASE x.air \in window
      <4> DEFINE d == x.h - q[o].h
      <4>1. d \in Int /\ t.peak = Swing!Max({k.peak, d})
        BY <1>2, <1>8, <2>2, <3>1, <3>2, <3>8
      <4>2. /\ t.peak \in {k.peak, d} /\ k.peak <= t.peak /\ d <= t.peak /\ t.peak \in Nat
        BY <3>3, <4>1, MaxWithZero
      <4>3. \A y \in KneePeaks(q, o, window) : y \in Int
        <5>1. ASSUME NEW j \in o .. n PROVE q[j].h \in Int
          <6>1. q[j] \in Obs
            BY <1>1, <3>0
          <6>2. q[j].h \in Heights
            BY <6>1 DEF Obs
          <6>3. QED
            BY <6>2, HeightsAreIntegers
        <5>2. QED
          BY <3>1, <5>1 DEF KneePeaks, n
      <4> HIDE DEF d
      <4>4. \A y \in KneePeaks(r, p, window) : y \in KneePeaks(q, o, window) \/ y = d
        BY <3>7 DEF d
      <4>5. t.peak \in KneePeaks(r, p, window)
        BY <3>2, <3>7, <3>8, <4>2 DEF IsGreatest, d
      <4>6. \A y \in KneePeaks(r, p, window) : y <= t.peak
        BY <3>2, <3>3, <4>2, <4>3, <4>4 DEF IsGreatest
      <4>7. QED
        BY <4>5, <4>6 DEF IsGreatest
    <3>9. CASE x.air \notin window
      <4>1. t.peak = k.peak
        BY <1>8, <2>2, <3>9
      <4>2. KneePeaks(r, p, window) = KneePeaks(q, o, window)
        BY <3>7, <3>9
      <4>3. QED
        BY <3>2, <4>1, <4>2
    <3>10. QED
      BY <3>8, <3>9
  <2>6. KneeHolds(t, r, p, window)
    BY <1>8, <1>9, <2>3, <2>4, <2>5 DEF KneeHolds
  <2>7. QED
    BY <2>6 DEF t, l, r, p
<1>12. QED
  BY <1>10, <1>11

LEMMA KneePeaksAreIntegers ==
    ASSUME NEW q \in Seq(Obs), NEW o \in 1 .. Len(q), NEW window
    PROVE  KneePeaks(q, o, window) \subseteq Int
<1>1. ASSUME NEW j \in o .. Len(q) PROVE q[j].h \in Int /\ q[o].h \in Int
  <2>1. Len(q) \in Nat /\ j \in 1 .. Len(q)
    BY LenProperties
  <2>2. q[j] \in Obs /\ q[o] \in Obs
    BY <2>1, ElementOfSeq
  <2>3. q[j].h \in Heights /\ q[o].h \in Heights
    BY <2>2 DEF Obs
  <2>4. QED
    BY <2>3, HeightsAreIntegers
<1>2. \A j \in o .. Len(q) : q[j].h - q[o].h \in Int
  BY <1>1
<1>3. QED
  BY <1>2 DEF KneePeaks

\* What a knee term charges for a landing, and what it keeps.
LEMMA KneeLanding ==
    ASSUME NEW r \in Seq(Obs), NEW p \in 0 .. Len(r), NEW window, NEW t,
           KneeHolds(t, r, p, window), NEW s
    PROVE  /\ KneeHolds(Swing!Clear(t, s), r, IF s.firstContact THEN 0 ELSE p, window)
           /\ Swing!Charge(t, s) \in Swing!Costs
           /\ Swing!Charge(t, s) =
                IF s.firstContact /\ p # 0 /\ r[p].command.drive = "walk"
                THEN [peak |-> Swing!Max(KneePeaks(r, p, window)), level |-> r[p].command.level]
                ELSE NoCost
<1>1. /\ t \in KneeStates
      /\ t.seen <=> Touched(r)
      /\ t.initialized <=> p # 0
      /\ p # 0 => /\ t.liftoff = r[p].h /\ t.level = r[p].command.level
                  /\ t.active <=> r[p].command.drive = "walk"
      /\ p # 0 /\ t.active => IsGreatest(t.peak, KneePeaks(r, p, window))
  BY DEF KneeHolds
<1>2. t.seen \in BOOLEAN /\ t.peak \in Nat
  BY <1>1 DEF KneeStates
<1>3. KneeHolds(Swing!Clear(t, s), r, IF s.firstContact THEN 0 ELSE p, window)
  <2>1. CASE s.firstContact
    <3> DEFINE c == [seen |-> t.seen, initialized |-> FALSE, liftoff |-> 0, peak |-> 0,
                     level |-> Swing!NoLevel, active |-> FALSE]
    <3>1. Swing!Clear(t, s) = c
      BY <2>1 DEF Swing!Clear, Swing!ResetKnee
    <3>2. c \in KneeStates
      BY <1>2 DEF KneeStates
    <3>3. c.seen = t.seen /\ ~ c.initialized /\ ~ c.active
      OBVIOUS
    <3> HIDE DEF c
    <3>4. KneeHolds(c, r, 0, window)
      BY <1>1, <3>2, <3>3 DEF KneeHolds
    <3>5. QED
      BY <2>1, <3>1, <3>4
  <2>2. CASE ~ s.firstContact
    BY <2>2 DEF Swing!Clear
  <2>3. QED
    BY <2>1, <2>2
<1>4. CASE s.firstContact /\ p # 0 /\ r[p].command.drive = "walk"
  <2>1. t.initialized /\ t.active
    BY <1>1, <1>4
  <2>2. Swing!Charge(t, s) = [peak |-> t.peak, level |-> t.level]
    BY <1>4, <2>1 DEF Swing!Charge
  <2>3. Swing!Max(KneePeaks(r, p, window)) = t.peak
    <3>1. p \in 1 .. Len(r)
      BY <1>4, LenProperties
    <3>2. KneePeaks(r, p, window) \subseteq Int
      BY <3>1, KneePeaksAreIntegers
    <3>3. IsGreatest(t.peak, KneePeaks(r, p, window))
      BY <1>1, <1>4, <2>1
    <3>4. QED
      BY <3>2, <3>3, MaxIs
  <2>4. t.level = r[p].command.level /\ t.level \in Levels
    <3>1. p \in 1 .. Len(r)
      BY <1>4, LenProperties
    <3>2. r[p] \in Obs
      BY <3>1, ElementOfSeq
    <3>3. QED
      BY <1>1, <1>4, <3>2 DEF Obs, Swing!Commands
  <2>5. Swing!Charge(t, s) \in Swing!Costs
    BY <1>2, <2>2, <2>4 DEF Swing!Costs
  <2>6. QED
    BY <1>3, <1>4, <2>2, <2>3, <2>4, <2>5
<1>5. CASE ~ (s.firstContact /\ p # 0 /\ r[p].command.drive = "walk")
  <2>1. ~ (s.firstContact /\ t.initialized /\ t.active)
    BY <1>1, <1>5
  <2>2. Swing!Charge(t, s) = NoCost
    BY <2>1 DEF Swing!Charge
  <2>3. QED
    BY <1>3, <1>5, <2>2 DEF Swing!Costs
<1>6. QED
  BY <1>4, <1>5

-----------------------------------------------------------------------------
(* The clearance term *)

FootStates == [initialized : BOOLEAN, ground : Heights \cup {0}, valid : BOOLEAN,
               peak : Nat, level : Levels \cup {0}, active : BOOLEAN]

LastTouched(j, q) == IsGreatest(j, {i \in 1 .. Len(q) : q[i].found})

FootPeaks(q, o, ground) == {0} \cup {q[k].h - ground : k \in o .. Len(q)}

FootHolds(f, q, o) ==
    /\ f \in FootStates
    /\ f.initialized <=> Touched(q)
    /\ f.valid <=> o # 0
    /\ f.initialized => \E j \in 1 .. Len(q) : LastTouched(j, q) /\ f.ground = q[j].h
    /\ o # 0 => /\ f.level = q[o].command.level
                /\ f.active <=> q[o].command.drive # "stand"
                /\ IsGreatest(f.peak, FootPeaks(q, o, f.ground))

LEMMA LastTouchedMore ==
    ASSUME NEW q \in Seq(Obs), NEW x \in Obs
    PROVE  /\ x.found => LastTouched(Len(q) + 1, Append(q, x))
           /\ ~ x.found => \A j \in 1 .. Len(q) :
                              LastTouched(j, q) => LastTouched(j, Append(q, x))
<1> DEFINE r == Append(q, x)
           n == Len(q)
<1>1. /\ n \in Nat /\ Len(r) = n + 1 /\ r[n + 1] = x
      /\ \A j \in 1 .. n : r[j] = q[j]
  BY OneMore
<1> HIDE DEF r, n
<1>2. \A i : i \in 1 .. (n + 1) <=> i \in 1 .. n \/ i = n + 1
  BY <1>1
<1>3. ASSUME x.found PROVE LastTouched(n + 1, r)
  <2>1. \A i \in 1 .. (n + 1) : i <= n + 1
    BY <1>1
  <2>2. QED
    BY <1>1, <1>2, <1>3, <2>1 DEF LastTouched, IsGreatest
<1>4. ASSUME ~ x.found, NEW j \in 1 .. n, LastTouched(j, q)
      PROVE  LastTouched(j, r)
  <2>1. {i \in 1 .. Len(r) : r[i].found} = {i \in 1 .. n : q[i].found}
    BY <1>1, <1>2, <1>4
  <2>2. QED
    BY <1>4, <2>1 DEF LastTouched, n
<1>5. QED
  BY <1>3, <1>4 DEF r, n

\* An observation on the ground: the swing ends, or there was none.
LEMMA FootDown ==
    ASSUME NEW q \in Seq(Obs), NEW x \in Obs, NEW o, SwingHolds(q, o), Follows(q, x), x.found,
           NEW f, FootHolds(f, q, o),
           NEW s, s.found = x.found, s.firstAir = x.firstAir, s.firstContact = x.firstContact
    PROVE  LET risen == Swing!Rise(Swing!Lift(Swing!Ground(f, s, x.h), s), s, x.h)
           IN  /\ FootHolds(Swing!Land(risen, s), Append(q, x), 0)
               /\ Swing!ChargeFoot(risen, s) =
                    IF x.firstContact /\ o # 0 /\ q[o].command.drive # "stand"
                    THEN [peak |-> f.peak, level |-> f.level] ELSE NoCost
<1> DEFINE r == Append(q, x)
           n == Len(q)
           g == [initialized |-> TRUE, ground |-> x.h, valid |-> f.valid,
                 peak |-> f.peak, level |-> f.level, active |-> f.active]
           landed == Swing!Land(g, s)
<1>1. x.found \in BOOLEAN /\ x.firstAir \in BOOLEAN /\ x.h \in Heights
  BY DEF Obs
<1>2. ~ x.firstAir
  BY <1>1 DEF Follows
<1>3. /\ f \in FootStates
      /\ f.valid <=> o # 0
      /\ o # 0 => f.active <=> q[o].command.drive # "stand"
  BY DEF FootHolds
<1>4. /\ f = [initialized |-> f.initialized, ground |-> f.ground, valid |-> f.valid,
              peak |-> f.peak, level |-> f.level, active |-> f.active]
      /\ f.initialized \in BOOLEAN /\ f.ground \in Heights \cup {0} /\ f.valid \in BOOLEAN
      /\ f.peak \in Nat /\ f.level \in Levels \cup {0} /\ f.active \in BOOLEAN
  BY <1>3 DEF FootStates
<1>5. Swing!Ground(f, s, x.h) = g
  <2>1. s.found /\ (f.initialized \/ s.found) = TRUE
    BY <1>1
  <2>2. Swing!Ground(f, s, x.h) = [f EXCEPT !.initialized = TRUE, !.ground = x.h]
    BY <2>1 DEF Swing!Ground
  <2>3. QED
    BY <1>3, <2>2 DEF FootStates
<1>6. Swing!Rise(Swing!Lift(Swing!Ground(f, s, x.h), s), s, x.h) = g
  <2> HIDE DEF g
  <2>1. Swing!Lift(g, s) = g
    BY <1>2 DEF Swing!Lift
  <2>2. Swing!Rise(g, s, x.h) = g
    BY DEF Swing!Rise
  <2>3. QED
    BY <1>5, <2>1, <2>2
<1>7. Swing!ChargeFoot(g, s) =
        IF x.firstContact /\ o # 0 /\ q[o].command.drive # "stand"
        THEN [peak |-> f.peak, level |-> f.level] ELSE NoCost
  BY <1>3 DEF Swing!ChargeFoot
<1>8. /\ landed \in FootStates /\ landed.initialized /\ ~ landed.valid /\ landed.ground = x.h
  <2>1. CASE s.firstContact /\ g.valid
    <3>1. landed = [initialized |-> TRUE, ground |-> x.h, valid |-> FALSE,
                    peak |-> 0, level |-> 0, active |-> FALSE]
      BY <2>1 DEF Swing!Land
    <3> HIDE DEF landed
    <3>2. QED
      BY <1>1, <3>1 DEF FootStates
  <2>2. CASE ~ (s.firstContact /\ g.valid)
    <3>1. landed = g
      BY <2>2 DEF Swing!Land
    <3>2. ~ g.valid
      <4>1. x.found /\ ~ x.firstContact => o = 0
        BY SwingMore
      <4>2. QED
        BY <1>3, <2>2, <4>1
    <3> HIDE DEF landed
    <3>3. g \in FootStates
      BY <1>1, <1>4 DEF FootStates
    <3>4. QED
      BY <3>1, <3>2, <3>3
  <2>3. QED
    BY <2>1, <2>2
<1> HIDE DEF landed
<1>9. /\ n \in Nat /\ Len(r) = n + 1 /\ r[n + 1] = x
  BY OneMore
<1>10. Touched(r) /\ LastTouched(n + 1, r)
  BY TouchedMore, LastTouchedMore
<1> HIDE DEF r, n
<1>11. n + 1 \in 1 .. Len(r)
  BY <1>9
<1>12. FootHolds(landed, r, 0)
  BY <1>8, <1>9, <1>10, <1>11 DEF FootHolds
<1>13. QED
  BY <1>6, <1>7, <1>12 DEF landed, r

\* An observation in the air: the swing that is current goes on.
LEMMA FootUp ==
    ASSUME NEW q \in Seq(Obs), NEW x \in Obs, NEW o, SwingHolds(q, o), Follows(q, x), ~ x.found,
           NEW f, FootHolds(f, q, o),
           NEW s, s.found = x.found, s.firstAir = x.firstAir, s.firstContact = x.firstContact,
           command = x.command
    PROVE  LET risen == Swing!Rise(Swing!Lift(Swing!Ground(f, s, x.h), s), s, x.h)
           IN  /\ FootHolds(Swing!Land(risen, s), Append(q, x), Current(q, x, o))
               /\ Swing!ChargeFoot(risen, s) = NoCost
<1> DEFINE r == Append(q, x)
           n == Len(q)
           p == Current(q, x, o)
           lifted == Swing!Lift(f, s)
           risen == Swing!Rise(lifted, s, x.h)
<1>1. /\ x.found \in BOOLEAN /\ x.firstAir \in BOOLEAN /\ x.h \in Heights /\ x.h \in Int
      /\ x.command \in Swing!Commands /\ x.command.level \in Levels
  BY HeightsAreIntegers DEF Obs, Swing!Commands
<1>2. ~ s.firstContact /\ ~ s.found
  BY DEF Follows, Obs
<1>3. /\ f \in FootStates
      /\ f.initialized <=> Touched(q)
      /\ f.valid <=> o # 0
      /\ f.initialized => \E j \in 1 .. n : LastTouched(j, q) /\ f.ground = q[j].h
      /\ o # 0 => /\ f.level = q[o].command.level
                  /\ f.active <=> q[o].command.drive # "stand"
                  /\ IsGreatest(f.peak, FootPeaks(q, o, f.ground))
  BY DEF FootHolds
<1>4. /\ f.initialized \in BOOLEAN /\ f.ground \in Heights \cup {0} /\ f.ground \in Int
      /\ f.valid \in BOOLEAN
      /\ f.peak \in Nat /\ f.level \in Levels \cup {0} /\ f.active \in BOOLEAN
  BY <1>3, HeightsAreIntegers DEF FootStates
<1>5. Swing!Ground(f, s, x.h) = f
  BY <1>2, <1>3 DEF Swing!Ground, FootStates
<1>6. /\ n \in Nat /\ Len(r) = n + 1 /\ r[n + 1] = x
      /\ \A j \in 1 .. n : r[j] = q[j] /\ q[j] \in Obs
  BY OneMore
<1>7. o \in 0 .. n
  BY DEF SwingHolds
<1>8. Touched(r) <=> Touched(q)
  BY TouchedMore
<1>9. \A j \in 1 .. n : LastTouched(j, q) => LastTouched(j, r)
  BY LastTouchedMore
<1>10. \A j \in 1 .. n : j \in 1 .. Len(r)
  BY <1>6
<1>11. s.firstAir /\ f.initialized <=> Lifts(q, x)
  BY <1>3 DEF Lifts
<1>12. f.initialized => \E j \in 1 .. Len(r) : LastTouched(j, r) /\ f.ground = r[j].h
  BY <1>3, <1>6, <1>9, <1>10
<1>13. \A y : y \in FootPeaks(r, p, f.ground) <=>
                 y = 0 \/ \E j \in p .. (n + 1) : y = r[j].h - f.ground
  BY <1>6 DEF FootPeaks
<1> HIDE DEF risen, r, n, p, lifted
<1>14. /\ risen \in FootStates /\ risen.initialized = f.initialized /\ risen.ground = f.ground
       /\ risen.valid <=> p # 0
       /\ p # 0 => /\ risen.level = r[p].command.level
                   /\ risen.active <=> r[p].command.drive # "stand"
                   /\ IsGreatest(risen.peak, FootPeaks(r, p, f.ground))
  <2> DEFINE d == x.h - f.ground
  <2>1. d \in Int
    BY <1>1, <1>4
  <2> HIDE DEF d
  <2>2. CASE Lifts(q, x)
    <3> DEFINE top == Swing!Max({0, d, 0})
    <3>1. p = n + 1 /\ p # 0
      BY <1>6, <2>2 DEF p, n, Current
    <3>2. /\ lifted \in FootStates /\ lifted.initialized = f.initialized
          /\ lifted.ground = f.ground /\ lifted.valid /\ lifted.peak = 0
          /\ lifted.level = x.command.level
          /\ lifted.active <=> x.command.drive # "stand"
      <4>1. lifted = [f EXCEPT !.valid = TRUE, !.level = x.command.level,
                               !.active = (x.command.drive # "stand"), !.peak = 0]
        BY <1>11, <2>2 DEF lifted, Swing!Lift
      <4>2. QED
        BY <1>1, <1>3, <4>1 DEF FootStates
    <3>3. top \in Nat /\ top \in {0, d} /\ d <= top
      BY <2>1, MaxWithZero
    <3>4. risen = [lifted EXCEPT !.peak = top]
      BY <1>2, <3>2 DEF risen, Swing!Rise, d
    <3> HIDE DEF top
    <3>5. /\ risen \in FootStates /\ risen.initialized = f.initialized
          /\ risen.ground = f.ground /\ risen.valid /\ risen.peak = top
          /\ risen.level = x.command.level
          /\ risen.active <=> x.command.drive # "stand"
      BY <3>2, <3>3, <3>4 DEF FootStates
    <3>6. \A y : y \in FootPeaks(r, p, f.ground) <=> y = 0 \/ y = d
      <4>1. \A j : j \in p .. (n + 1) <=> j = n + 1
        BY <1>6, <3>1
      <4>2. QED
        BY <1>6, <1>13, <4>1 DEF d
    <3>7. IsGreatest(top, FootPeaks(r, p, f.ground))
      BY <3>3, <3>6 DEF IsGreatest
    <3>8. QED
      BY <1>6, <3>1, <3>5, <3>7
  <2>3. CASE ~ Lifts(q, x) /\ o # 0
    <3> DEFINE top == Swing!Max({f.peak, d, 0})
    <3>1. p = o /\ p # 0 /\ o \in 1 .. n /\ r[p] = q[o]
      <4>1. p = o /\ o \in 1 .. n
        BY <1>6, <1>7, <2>3 DEF p, Current
      <4>2. QED
        BY <1>6, <2>3, <4>1
    <3>2. lifted = f /\ f.valid
      BY <1>3, <1>11, <2>3 DEF lifted, Swing!Lift
    <3>3. top \in Nat /\ top \in {f.peak, d} /\ f.peak <= top /\ d <= top
      BY <1>4, <2>1, MaxWithZero
    <3>4. risen = [f EXCEPT !.peak = top]
      BY <1>2, <3>2 DEF risen, Swing!Rise, d
    <3> HIDE DEF top
    <3>5. /\ risen \in FootStates /\ risen.initialized = f.initialized
          /\ risen.ground = f.ground /\ risen.valid = f.valid /\ risen.peak = top
          /\ risen.level = f.level /\ risen.active = f.active
      BY <1>3, <3>3, <3>4 DEF FootStates
    <3>6. ASSUME NEW y
          PROVE  y \in FootPeaks(r, p, f.ground) <=> y \in FootPeaks(q, o, f.ground) \/ y = d
      <4>1. y \in FootPeaks(q, o, f.ground) <=>
               y = 0 \/ \E j \in o .. n : y = q[j].h - f.ground
        BY DEF FootPeaks, n
      <4>2. \A j \in o .. (n + 1) : (j \in o .. n /\ j \in 1 .. n) \/ j = n + 1
        BY <1>6, <3>1
      <4>3. \A j \in o .. n : j \in o .. (n + 1) /\ r[j] = q[j]
        BY <1>6, <3>1
      <4>4. n + 1 \in o .. (n + 1)
        BY <1>6, <3>1
      <4>5. QED
        BY <1>6, <1>13, <3>1, <4>1, <4>2, <4>3, <4>4 DEF d
    <3>7. \A y \in FootPeaks(q, o, f.ground) : y \in Int
      <4>1. ASSUME NEW j \in o .. n PROVE q[j].h \in Int
        <5>1. q[j] \in Obs
          BY <1>6, <3>1
        <5>2. q[j].h \in Heights
          BY <5>1 DEF Obs
        <5>3. QED
          BY <5>2, HeightsAreIntegers
      <4>2. QED
        BY <1>4, <4>1 DEF FootPeaks, n
    <3>8. IsGreatest(f.peak, FootPeaks(q, o, f.ground))
      BY <1>3, <2>3
    <3>9. IsGreatest(top, FootPeaks(r, p, f.ground))
      <4>1. top \in FootPeaks(r, p, f.ground)
        BY <3>3, <3>6, <3>8 DEF IsGreatest
      <4>2. \A y \in FootPeaks(r, p, f.ground) : y <= top
        BY <1>4, <3>3, <3>6, <3>7, <3>8 DEF IsGreatest
      <4>3. QED
        BY <4>1, <4>2 DEF IsGreatest
    <3>10. QED
      BY <1>3, <2>3, <3>1, <3>2, <3>5, <3>9
  <2>4. CASE ~ Lifts(q, x) /\ o = 0
    <3>1. p = 0
      BY <2>4 DEF p, Current
    <3>2. lifted = f /\ ~ f.valid
      BY <1>3, <1>11, <2>4 DEF lifted, Swing!Lift
    <3>3. risen = f
      BY <3>2 DEF risen, Swing!Rise
    <3>4. QED
      BY <1>3, <3>1, <3>2, <3>3
  <2>5. QED
    BY <2>2, <2>3, <2>4
<1>15. FootHolds(risen, r, p)
  BY <1>3, <1>8, <1>12, <1>14 DEF FootHolds
<1>16. Swing!Land(risen, s) = risen /\ Swing!ChargeFoot(risen, s) = NoCost
  BY <1>2 DEF Swing!Land, Swing!ChargeFoot
<1>17. QED
  BY <1>5, <1>15, <1>16 DEF risen, lifted, r, p

-----------------------------------------------------------------------------
(* What is charged *)

KneeScored(c, q, window) ==
    LET i == Latest(q, Len(q))
    IN  c = IF Len(q) > 0 /\ q[Len(q)].firstContact /\ i # 0 /\ q[i].command.drive = "walk"
            THEN [peak |-> Swing!Max(KneePeaks(q, i, window)), level |-> q[i].command.level]
            ELSE NoCost

FootScored(c, q) ==
    LET i == Latest(q, Len(q))
        ground == q[Swing!Max({j \in 1..i : q[j].found})].h
    IN  c = IF Len(q) > 0 /\ q[Len(q)].firstContact /\ i # 0 /\ q[i].command.drive # "stand"
            THEN [peak |-> Swing!Max({0} \cup {q[k].h - ground : k \in i..(Len(q) - 1)}),
                  level |-> q[i].command.level]
            ELSE NoCost

LEMMA OpenSwingIsLatest == \A n : Swing!OpenSwing(n) = Latest(episode.seen, n)
  BY DEF Swing!OpenSwing, Swing!Liftoffs, Swing!Seen, Latest, Open, Lifted

LEMMA ScoresMean ==
    /\ Swing!KneeScoresItsSwing <=>
          \A t \in Knees : KneeScored(cost.knee[t], episode.seen, Window[t])
    /\ Swing!FootScoresItsSwing <=> FootScored(cost.foot, episode.seen)
<1>1. Swing!OpenSwing(Len(episode.seen)) = Latest(episode.seen, Len(episode.seen))
  BY OpenSwingIsLatest
<1>2. Swing!KneeScoresItsSwing <=>
          \A t \in Knees : KneeScored(cost.knee[t], episode.seen, Window[t])
  BY <1>1 DEF Swing!KneeScoresItsSwing, Swing!Landed, Swing!Seen, KneeScored, KneePeaks
<1>3. Swing!FootScoresItsSwing <=> FootScored(cost.foot, episode.seen)
  BY <1>1 DEF Swing!FootScoresItsSwing, Swing!Landed, Swing!Seen, FootScored
<1>4. QED
  BY <1>2, <1>3

LEMMA KneeScoreMore ==
    ASSUME NEW q \in Seq(Obs), NEW x \in Obs, NEW o, SwingHolds(q, o), Follows(q, x),
           NEW window, NEW t, KneeHolds(t, Append(q, x), Current(q, x, o), window),
           NEW s, s.firstContact = x.firstContact
    PROVE  /\ KneeHolds(Swing!Clear(t, s), Append(q, x), SwingAfter(q, x, o), window)
           /\ Swing!Charge(t, s) \in Swing!Costs
           /\ KneeScored(Swing!Charge(t, s), Append(q, x), window)
<1> DEFINE r == Append(q, x)
           n == Len(q)
           p == Current(q, x, o)
<1>1. /\ n \in Nat /\ Len(r) = n + 1 /\ r[n + 1] = x /\ r \in Seq(Obs)
  BY OneMore
<1>2. o \in 0 .. n /\ o = Latest(q, n + 1)
  BY DEF SwingHolds
<1>3. Latest(r, n + 1) = o
  BY <1>2, OpenBefore DEF Follows
<1>4. x.firstContact => p = o
  BY SwingMore DEF Follows, Current
<1>5. p \in 0 .. Len(r)
  BY <1>1, <1>2 DEF Current
<1>6. SwingAfter(q, x, o) = IF s.firstContact THEN 0 ELSE p
  BY DEF SwingAfter
<1> HIDE DEF r, n, p
<1>7. KneeHolds(t, r, p, window)
  BY DEF r, p
<1>8. KneeHolds(Swing!Clear(t, s), r, IF s.firstContact THEN 0 ELSE p, window)
  BY <1>1, <1>5, <1>7, KneeLanding
<1>9. Swing!Charge(t, s) \in Swing!Costs
  BY <1>1, <1>5, <1>7, KneeLanding
<1>10. Swing!Charge(t, s) =
         IF s.firstContact /\ p # 0 /\ r[p].command.drive = "walk"
         THEN [peak |-> Swing!Max(KneePeaks(r, p, window)), level |-> r[p].command.level]
         ELSE NoCost
  BY <1>1, <1>5, <1>7, KneeLanding
<1>11. KneeScored(Swing!Charge(t, s), r, window)
  <2>1. Len(r) > 0 /\ r[Len(r)] = x /\ Latest(r, Len(r)) = o
    BY <1>1, <1>3
  <2>2. CASE x.firstContact
    BY <1>4, <1>10, <2>1, <2>2 DEF KneeScored
  <2>3. CASE ~ x.firstContact
    BY <1>10, <2>1, <2>3 DEF KneeScored
  <2>4. QED
    BY <2>2, <2>3
<1>12. QED
  BY <1>6, <1>8, <1>9, <1>11 DEF r

\* The clearance term's own peak is the height over the ground last touched.
LEMMA FootPeakIs ==
    ASSUME NEW q \in Seq(Obs), NEW x \in Obs, NEW o, SwingHolds(q, o), o # 0,
           NEW f, FootHolds(f, q, o)
    PROVE  LET r == Append(q, x)
               ground == r[Swing!Max({j \in 1..o : r[j].found})].h
           IN  /\ Swing!Max({0} \cup {r[k].h - ground : k \in o..Len(q)}) = f.peak
               /\ f.level = r[o].command.level
               /\ f.peak \in Nat /\ f.level \in Levels
<1> DEFINE r == Append(q, x)
           n == Len(q)
           touched == {j \in 1..o : r[j].found}
           ground == r[Swing!Max(touched)].h
           peaks == {0} \cup {r[k].h - ground : k \in o..n}
<1>1. /\ n \in Nat /\ \A j \in 1 .. n : r[j] = q[j] /\ q[j] \in Obs
  BY OneMore
<1>2. /\ o \in 1 .. n /\ Touched(q)
      /\ \A j \in o .. n : ~ q[j].found
  <2>1. o \in 0 .. n
    BY DEF SwingHolds
  <2>2. QED
    BY <1>1, <2>1 DEF SwingHolds
<1>3. /\ f \in FootStates /\ f.initialized
      /\ f.level = q[o].command.level
      /\ IsGreatest(f.peak, FootPeaks(q, o, f.ground))
  BY <1>2 DEF FootHolds
<1>4. PICK j \in 1 .. n : LastTouched(j, q) /\ f.ground = q[j].h
  BY <1>3 DEF FootHolds
<1> HIDE DEF r, n
<1>5. Swing!Max(touched) = j
  <2>1. j \in {i \in 1 .. n : q[i].found} /\ \A i \in {i \in 1 .. n : q[i].found} : i <= j
    BY <1>4 DEF LastTouched, IsGreatest, n
  <2>2. q[j].found
    BY <2>1
  <2>3. j \notin o .. n
    BY <1>2, <2>2
  <2>4. j \in 1 .. o
    BY <1>1, <1>2, <1>4, <2>3
  <2>5. j \in touched
    BY <1>1, <1>4, <2>2, <2>4
  <2>6. \A i \in touched : i <= j
    <3>1. \A i \in 1 .. o : i \in 1 .. n
      BY <1>1, <1>2
    <3>2. QED
      BY <1>1, <2>1, <3>1
  <2>7. touched \subseteq Int
    OBVIOUS
  <2> HIDE DEF touched
  <2>8. QED
    BY <2>5, <2>6, <2>7, MaxIs DEF IsGreatest
<1> HIDE DEF touched
<1>6. ground = f.ground
  BY <1>1, <1>4, <1>5
<1>7. f.ground \in Int /\ f.peak \in Nat
  <2>1. f.ground \in Heights \cup {0} /\ f.peak \in Nat
    BY <1>3 DEF FootStates
  <2>2. QED
    BY <2>1, HeightsAreIntegers
<1> HIDE DEF ground
<1>8. \A k \in o .. n : r[k] = q[k] /\ q[k].h \in Int
  <2>1. ASSUME NEW k \in o .. n PROVE r[k] = q[k] /\ q[k].h \in Int
    <3>1. k \in 1 .. n
      BY <1>1, <1>2
    <3>2. r[k] = q[k] /\ q[k] \in Obs
      BY <1>1, <3>1
    <3>3. q[k].h \in Heights
      BY <3>2 DEF Obs
    <3>4. QED
      BY <3>2, <3>3, HeightsAreIntegers
  <2>2. QED
    BY <2>1
<1>9. \A y : y \in peaks <=> y \in FootPeaks(q, o, f.ground)
  BY <1>6, <1>8 DEF FootPeaks, n
<1>10. peaks \subseteq Int
  BY <1>6, <1>7, <1>8
<1> HIDE DEF peaks
<1>11. IsGreatest(f.peak, peaks)
  BY <1>3, <1>9 DEF IsGreatest
<1>12. Swing!Max(peaks) = f.peak
  BY <1>10, <1>11, MaxIs
<1>13. f.level = r[o].command.level /\ f.level \in Levels
  <2>1. r[o] = q[o] /\ q[o] \in Obs
    BY <1>1, <1>2
  <2>2. q[o].command.level \in Levels
    BY <2>1 DEF Obs, Swing!Commands
  <2>3. QED
    BY <1>3, <2>1, <2>2
<1>14. QED
  BY <1>7, <1>12, <1>13 DEF peaks, ground, touched, r, n

LEMMA FootScoreMore ==
    ASSUME NEW q \in Seq(Obs), NEW x \in Obs, NEW o, SwingHolds(q, o), Follows(q, x),
           NEW f, FootHolds(f, q, o),
           NEW s, s.found = x.found, s.firstAir = x.firstAir, s.firstContact = x.firstContact,
           command = x.command
    PROVE  LET risen == Swing!Rise(Swing!Lift(Swing!Ground(f, s, x.h), s), s, x.h)
           IN  /\ FootHolds(Swing!Land(risen, s), Append(q, x), SwingAfter(q, x, o))
               /\ Swing!ChargeFoot(risen, s) \in Swing!Costs
               /\ FootScored(Swing!ChargeFoot(risen, s), Append(q, x))
<1> DEFINE r == Append(q, x)
           n == Len(q)
           risen == Swing!Rise(Swing!Lift(Swing!Ground(f, s, x.h), s), s, x.h)
           charge == Swing!ChargeFoot(risen, s)
<1>1. /\ n \in Nat /\ Len(r) = n + 1 /\ r[n + 1] = x
      /\ \A j \in 1 .. n : r[j] = q[j]
  BY OneMore
<1>2. o \in 0 .. n /\ o = Latest(q, n + 1)
  BY DEF SwingHolds
<1>3. Latest(r, n + 1) = o
  BY <1>2, OpenBefore DEF Follows
<1>4. Len(r) > 0 /\ r[Len(r)] = x /\ Latest(r, Len(r)) = o /\ Len(r) - 1 = n
  BY <1>1, <1>3
<1>5. x.found \in BOOLEAN /\ x.firstContact \in BOOLEAN
  BY DEF Obs
<1>6. CASE x.found
  <2>1. /\ FootHolds(Swing!Land(risen, s), r, 0)
        /\ charge = IF x.firstContact /\ o # 0 /\ q[o].command.drive # "stand"
                    THEN [peak |-> f.peak, level |-> f.level] ELSE NoCost
    BY <1>6, FootDown
  <2>2. SwingAfter(q, x, o) = 0
    BY <1>6, SwingMore
  <2> HIDE DEF charge
  <2>3. charge \in Swing!Costs /\ FootScored(charge, r)
    <3>1. CASE x.firstContact /\ o # 0
      <4> DEFINE ground == r[Swing!Max({j \in 1..o : r[j].found})].h
                 top == Swing!Max({0} \cup {r[k].h - ground : k \in o..n})
      <4>1. top = f.peak /\ f.level = r[o].command.level /\ f.peak \in Nat /\ f.level \in Levels
        BY <3>1, FootPeakIs, ZenonT(60)
      <4>2. FootScored(charge, r) <=>
              charge = IF x.firstContact /\ o # 0 /\ r[o].command.drive # "stand"
                       THEN [peak |-> top, level |-> r[o].command.level] ELSE NoCost
        BY <1>4 DEF FootScored
      <4> HIDE DEF top, r
      <4>3. r[o] = q[o]
        BY <1>1, <1>2, <3>1
      <4>4. FootScored(charge, r)
        BY <2>1, <4>1, <4>2, <4>3
      <4>5. charge \in Swing!Costs
        BY <2>1, <4>1 DEF Swing!Costs
      <4>6. QED
        BY <4>4, <4>5
    <3>2. CASE ~ (x.firstContact /\ o # 0)
      <4>1. charge = NoCost
        BY <2>1, <3>2
      <4>2. FootScored(charge, r)
        BY <1>4, <3>2, <4>1 DEF FootScored
      <4>3. QED
        BY <4>1, <4>2 DEF Swing!Costs
    <3>3. QED
      BY <3>1, <3>2
  <2>4. QED
    BY <2>1, <2>2, <2>3 DEF charge
<1>7. CASE ~ x.found
  <2>1. /\ FootHolds(Swing!Land(risen, s), r, Current(q, x, o))
        /\ charge = NoCost
    BY <1>7, FootUp
  <2>2. ~ x.firstContact
    BY <1>7 DEF Follows
  <2>3. SwingAfter(q, x, o) = Current(q, x, o)
    BY <2>2 DEF SwingAfter
  <2> HIDE DEF charge
  <2>4. FootScored(charge, r)
    BY <1>4, <2>1, <2>2 DEF FootScored
  <2>5. QED
    BY <2>1, <2>3, <2>4 DEF charge, Swing!Costs
<1>8. QED
  BY <1>5, <1>6, <1>7

-----------------------------------------------------------------------------
(* The inductive invariant of the swings *)

OpenNow == Latest(episode.seen, Len(episode.seen) + 1)

SwingInv ==
    /\ command \in Swing!Commands
    /\ episode \in [seen : Seq(Obs), resampled : Nat]
    /\ sensor.air \in Nat
    /\ sensor.known <=> Len(episode.seen) > 0
    /\ Len(episode.seen) > 0 => sensor.found = episode.seen[Len(episode.seen)].found
    /\ SwingHolds(episode.seen, OpenNow)
    /\ \A t \in Knees : /\ KneeHolds(knee[t], episode.seen, OpenNow, Window[t])
                        /\ cost.knee[t] \in Swing!Costs
                        /\ KneeScored(cost.knee[t], episode.seen, Window[t])
    /\ FootHolds(foot, episode.seen, OpenNow)
    /\ cost.foot \in Swing!Costs
    /\ FootScored(cost.foot, episode.seen)

LEMMA NothingSeen ==
    ASSUME NEW o, o = Latest(<< >>, Len(<< >>) + 1)
    PROVE  /\ << >> \in Seq(Obs) /\ Len(<< >>) = 0
           /\ o = 0 /\ SwingHolds(<< >>, o) /\ ~ Touched(<< >>)
<1>1. << >> \in Seq(Obs) /\ Len(<< >>) = 0 /\ DOMAIN << >> = 1 .. 0
  OBVIOUS
<1>2. 1 .. 0 = {}
  OBVIOUS
<1>3. Lifted(<< >>) = {}
  BY <1>1, <1>2 DEF Lifted
<1>4. Open(<< >>, Len(<< >>) + 1) = {}
  BY <1>3 DEF Open
<1>5. o = 0
  BY <1>4 DEF Latest
<1>6. ~ Touched(<< >>)
  BY <1>1, <1>2 DEF Touched
<1>7. SwingHolds(<< >>, o)
  BY <1>1, <1>4, <1>5 DEF SwingHolds
<1>8. QED
  BY <1>1, <1>5, <1>6, <1>7

\* A new episode: nothing seen, nothing charged.
LEMMA NewEpisodeFacts ==
    /\ Swing!NewEpisode.seen = << >>
    /\ Swing!NewEpisode \in [seen : Seq(Obs), resampled : Nat]
    /\ Len(<< >>) = 0 /\ Latest(<< >>, Len(<< >>) + 1) = 0 /\ SwingHolds(<< >>, 0)
    /\ Swing!ResetSensor.air = 0 /\ Swing!ResetSensor.known = FALSE
    /\ \A t \in Knees : /\ KneeHolds(Swing!ResetKnee, << >>, 0, Window[t])
                        /\ Swing!NothingCharged.knee[t] \in Swing!Costs
                        /\ KneeScored(Swing!NothingCharged.knee[t], << >>, Window[t])
    /\ FootHolds(Swing!ResetFoot, << >>, 0)
    /\ Swing!NothingCharged.foot \in Swing!Costs
    /\ FootScored(Swing!NothingCharged.foot, << >>)
<1>1. /\ Swing!NewEpisode.seen = << >> /\ Swing!NewEpisode = [seen |-> << >>, resampled |-> 0]
      /\ Swing!ResetSensor.air = 0 /\ Swing!ResetSensor.known = FALSE
      /\ \A t \in Knees : Swing!NothingCharged.knee[t] = NoCost
      /\ Swing!NothingCharged.foot = NoCost
  BY DEF Swing!NewEpisode, Swing!ResetSensor, Swing!NothingCharged
<1>2. /\ << >> \in Seq(Obs) /\ Len(<< >>) = 0 /\ Latest(<< >>, Len(<< >>) + 1) = 0
      /\ SwingHolds(<< >>, 0) /\ ~ Touched(<< >>)
  BY NothingSeen
<1>3. \A w : KneeHolds(Swing!ResetKnee, << >>, 0, w)
  <2> DEFINE k == Swing!ResetKnee
  <2>1. k \in KneeStates /\ ~ k.seen /\ ~ k.initialized
    BY DEF KneeStates, Swing!ResetKnee
  <2> HIDE DEF k
  <2>2. \A w : KneeHolds(k, << >>, 0, w)
    BY <1>2, <2>1 DEF KneeHolds
  <2>3. QED
    BY <2>2 DEF k
<1>4. FootHolds(Swing!ResetFoot, << >>, 0)
  <2> DEFINE f == Swing!ResetFoot
  <2>1. f \in FootStates /\ ~ f.initialized /\ ~ f.valid
    BY DEF FootStates, Swing!ResetFoot
  <2> HIDE DEF f
  <2>2. FootHolds(f, << >>, 0)
    BY <1>2, <2>1 DEF FootHolds
  <2>3. QED
    BY <2>2 DEF f
<1>5. FootScored(NoCost, << >>) /\ \A w : KneeScored(NoCost, << >>, w)
  BY <1>2 DEF FootScored, KneeScored
<1>6. NoCost \in Swing!Costs
  BY DEF Swing!Costs
<1>7. Swing!NewEpisode \in [seen : Seq(Obs), resampled : Nat]
  BY <1>1, <1>2
<1>8. QED
  BY <1>1, <1>2, <1>3, <1>4, <1>5, <1>6, <1>7

LEMMA NewEpisodeHolds ==
    ASSUME command \in Swing!Commands, sensor = Swing!ResetSensor,
           knee = [t \in Knees |-> Swing!ResetKnee], foot = Swing!ResetFoot,
           cost = Swing!NothingCharged, episode = Swing!NewEpisode
    PROVE  SwingInv
<1>1. \A t \in Knees : knee[t] = Swing!ResetKnee
  OBVIOUS
<1>2. OpenNow = 0
  BY NewEpisodeFacts DEF OpenNow
<1>3. QED
  BY <1>1, <1>2, NewEpisodeFacts DEF SwingInv

LEMMA ObservationsAre ==
    Swing!Observations = {Swing!Observed(f, n) : f \in BOOLEAN, n \in BOOLEAN} \ 
       {o \in {Swing!Observed(f, FALSE) : f \in BOOLEAN} : ~sensor.known \/ o.found # sensor.found}
  BY DEF Swing!Observations

\* Nothing new was seen: the sensor had seen it before.
LEMMA NotFresh ==
    ASSUME NEW s \in Swing!Observations, NEW g \in BOOLEAN, s = Swing!Observed(g, FALSE)
    PROVE  sensor.known /\ s.found = sensor.found
<1> DEFINE all == {Swing!Observed(f, n) : f \in BOOLEAN, n \in BOOLEAN}
           shown == {Swing!Observed(f, FALSE) : f \in BOOLEAN}
           early == {o \in shown : ~sensor.known \/ o.found # sensor.found}
<1>1. Swing!Observations = all \ early
  BY ObservationsAre
<1>2. s \in shown
  OBVIOUS
<1> HIDE DEF all, shown
<1>3. s \notin early
  BY <1>1
<1>4. QED
  BY <1>2, <1>3

\* What a step can show is an observation that follows the others.
LEMMA ObservationFacts ==
    ASSUME SwingInv, NEW s \in Swing!Observations, NEW h \in Heights
    PROVE  LET x == [h |-> h, found |-> s.found, air |-> s.air, command |-> command,
                     firstAir |-> s.firstAir, firstContact |-> s.firstContact]
           IN  x \in Obs /\ Follows(episode.seen, x) /\ s.known /\ s.air \in Nat
<1> DEFINE x == [h |-> h, found |-> s.found, air |-> s.air, command |-> command,
                 firstAir |-> s.firstAir, firstContact |-> s.firstContact]
           n == Len(episode.seen)
<1>1. /\ command \in Swing!Commands /\ sensor.air \in Nat
      /\ sensor.known <=> n > 0
      /\ n > 0 => sensor.found = episode.seen[n].found
  BY DEF SwingInv
<1>2. PICK f \in BOOLEAN, fresh \in BOOLEAN : s = Swing!Observed(f, fresh)
  BY DEF Swing!Observations
<1>3. MaxAir \in Nat /\ sensor.air + 1 \in Nat
  <2>1. Swing!SwingAssumption
    BY TrainingAssumption
  <2>2. MaxAir \in Nat
    BY <2>1 DEF Swing!SwingAssumption
  <2>3. QED
    BY <1>1, <2>2
<1>4. Swing!Min({sensor.air + 1, MaxAir}) \in Nat
  BY <1>3, MinOfTwo
<1>5. /\ s.found = f /\ s.known = TRUE
      /\ s.firstAir = (~ f /\ fresh) /\ s.firstContact = (f /\ fresh)
  BY <1>2 DEF Swing!Observed
<1>6. s.air = IF f THEN 0 ELSE IF fresh THEN 1 ELSE Swing!Min({sensor.air + 1, MaxAir})
  BY <1>2 DEF Swing!Observed
<1>7. s.air \in Nat
  BY <1>4, <1>6
<1>8. /\ s.found \in BOOLEAN /\ s.firstAir \in BOOLEAN /\ s.firstContact \in BOOLEAN
      /\ s.firstAir => ~ s.found
      /\ s.firstContact => s.found
  BY <1>5
<1>9. ASSUME s.found, ~ s.firstContact
      PROVE  n > 0 /\ episode.seen[n].found
  <2>1. f = TRUE /\ fresh = FALSE
    BY <1>5, <1>9
  <2>2. s = Swing!Observed(f, FALSE)
    BY <1>2, <2>1
  <2>3. sensor.known /\ s.found = sensor.found
    BY <2>2, NotFresh
  <2>4. n > 0 /\ episode.seen[n].found = s.found
    BY <1>1, <2>3
  <2>5. QED
    BY <1>9, <2>4
<1>10. x \in Obs
  BY <1>1, <1>7, <1>8 DEF Obs
<1>11. x.found = s.found /\ x.firstAir = s.firstAir /\ x.firstContact = s.firstContact
  OBVIOUS
<1> HIDE DEF x
<1>12. Follows(episode.seen, x)
  BY <1>8, <1>9, <1>11 DEF Follows
<1>13. QED
  BY <1>5, <1>7, <1>10, <1>12 DEF x

LEMMA SwingStep == ASSUME SwingInv, Swing!Step PROVE SwingInv'
<1> DEFINE q == episode.seen
           o == OpenNow
<1>1. PICK s \in Swing!Observations, h \in Heights :
         /\ sensor' = s
         /\ episode' = [episode EXCEPT !.seen = Append(@,
                           [h |-> h, found |-> s.found, air |-> s.air, command |-> command,
                            firstAir |-> s.firstAir, firstContact |-> s.firstContact])]
         /\ cost' = [knee |-> [t \in Knees |->
                        Swing!Charge(Swing!Track(Swing!Latch(knee[t], s, h), s, h, Window[t]), s)],
                     foot |-> Swing!ChargeFoot(
                        Swing!Rise(Swing!Lift(Swing!Ground(foot, s, h), s), s, h), s)]
         /\ knee' = [t \in Knees |->
                        Swing!Clear(Swing!Track(Swing!Latch(knee[t], s, h), s, h, Window[t]), s)]
         /\ foot' = Swing!Land(Swing!Rise(Swing!Lift(Swing!Ground(foot, s, h), s), s, h), s)
  BY DEF Swing!Step
<1>2. command' = command
  BY DEF Swing!Step
<1> DEFINE x == [h |-> h, found |-> s.found, air |-> s.air, command |-> command,
                 firstAir |-> s.firstAir, firstContact |-> s.firstContact]
<1>3. x \in Obs /\ Follows(q, x) /\ s.known /\ s.air \in Nat
  BY ObservationFacts
<1>4. /\ x.found = s.found /\ x.firstAir = s.firstAir /\ x.firstContact = s.firstContact
      /\ x.air = s.air /\ x.command = command /\ x.h = h
  OBVIOUS
<1>5. /\ q \in Seq(Obs) /\ SwingHolds(q, o) /\ command \in Swing!Commands
      /\ \A t \in Knees : KneeHolds(knee[t], q, o, Window[t])
      /\ FootHolds(foot, q, o)
      /\ episode \in [seen : Seq(Obs), resampled : Nat]
  BY DEF SwingInv
<1>6. episode' = [episode EXCEPT !.seen = Append(@, x)]
  BY <1>1
<1> HIDE DEF x, q, o
<1>7. /\ Len(q) \in Nat /\ Append(q, x) \in Seq(Obs)
      /\ Len(Append(q, x)) = Len(q) + 1 /\ Append(q, x)[Len(q) + 1] = x
  BY <1>3, <1>5, OneMore
<1>8. episode'.seen = Append(q, x) /\ episode' \in [seen : Seq(Obs), resampled : Nat]
  BY <1>5, <1>6, <1>7 DEF q
<1>9. SwingHolds(Append(q, x), SwingAfter(q, x, o))
  BY <1>3, <1>5, SwingMore
<1>10. OpenNow' = SwingAfter(q, x, o)
  <2>1. SwingAfter(q, x, o) = Latest(Append(q, x), Len(Append(q, x)) + 1)
    BY <1>9 DEF SwingHolds
  <2>2. QED
    BY <1>8, <2>1 DEF OpenNow
<1>11. ASSUME NEW t \in Knees
       PROVE  /\ KneeHolds(knee'[t], Append(q, x), SwingAfter(q, x, o), Window[t])
              /\ cost'.knee[t] \in Swing!Costs
              /\ KneeScored(cost'.knee[t], Append(q, x), Window[t])
  <2> DEFINE l == Swing!Track(Swing!Latch(knee[t], s, h), s, h, Window[t])
  <2>1. knee'[t] = Swing!Clear(l, s) /\ cost'.knee[t] = Swing!Charge(l, s)
    BY <1>1
  <2>2. KneeHolds(knee[t], q, o, Window[t])
    BY <1>5
  <2>3. KneeHolds(l, Append(q, x), Current(q, x, o), Window[t])
    BY <1>3, <1>4, <1>5, <2>2, KneeMore
  <2> HIDE DEF l
  <2>4. /\ KneeHolds(Swing!Clear(l, s), Append(q, x), SwingAfter(q, x, o), Window[t])
        /\ Swing!Charge(l, s) \in Swing!Costs
        /\ KneeScored(Swing!Charge(l, s), Append(q, x), Window[t])
    BY <1>3, <1>4, <1>5, <2>3, KneeScoreMore
  <2>5. QED
    BY <2>1, <2>4
<1>12. /\ FootHolds(foot', Append(q, x), SwingAfter(q, x, o))
       /\ cost'.foot \in Swing!Costs
       /\ FootScored(cost'.foot, Append(q, x))
  <2> DEFINE risen == Swing!Rise(Swing!Lift(Swing!Ground(foot, s, x.h), s), s, x.h)
  <2>1. foot' = Swing!Land(risen, s) /\ cost'.foot = Swing!ChargeFoot(risen, s)
    BY <1>1, <1>4
  <2>2. /\ FootHolds(Swing!Land(risen, s), Append(q, x), SwingAfter(q, x, o))
        /\ Swing!ChargeFoot(risen, s) \in Swing!Costs
        /\ FootScored(Swing!ChargeFoot(risen, s), Append(q, x))
    BY <1>3, <1>4, <1>5, FootScoreMore
  <2>3. QED
    BY <2>1, <2>2
<1>13. /\ sensor'.air \in Nat /\ sensor'.known
       /\ Len(Append(q, x)) > 0
       /\ sensor'.found = Append(q, x)[Len(Append(q, x))].found
  BY <1>1, <1>3, <1>4, <1>7
<1>14. QED
  BY <1>2, <1>5, <1>8, <1>9, <1>10, <1>11, <1>12, <1>13 DEF SwingInv

LEMMA SwingInvInductive == TrainingSpec => []SwingInv
<1>1. TrainingInit => SwingInv
  BY NewEpisodeHolds DEF TrainingInit, Swing!Init
<1>2. ASSUME SwingInv, [TrainingNext]_<<moving, vars, swingVars, motionVars>>
      PROVE  SwingInv'
  <2>1. CASE UNCHANGED swingVars
    BY <1>2, <2>1 DEF SwingInv, swingVars, OpenNow
  <2>2. CASE Swing!Step
    BY <1>2, <2>2, SwingStep
  <2>3. CASE Swing!Resample
    <3>1. /\ sensor' = sensor /\ knee' = knee /\ foot' = foot /\ cost' = cost
          /\ command' \in Swing!Commands
          /\ episode' = [episode EXCEPT !.resampled = @ + 1]
      BY <2>3 DEF Swing!Resample
    <3>2. episode'.seen = episode.seen /\ episode' \in [seen : Seq(Obs), resampled : Nat]
      BY <1>2, <3>1 DEF SwingInv
    <3>3. OpenNow' = OpenNow
      BY <3>2 DEF OpenNow
    <3>4. QED
      BY <1>2, <3>1, <3>2, <3>3 DEF SwingInv
  <2>4. CASE Swing!Reset
    <3>1. /\ command' \in Swing!Commands /\ sensor' = Swing!ResetSensor
          /\ knee' = [t \in Knees |-> Swing!ResetKnee] /\ foot' = Swing!ResetFoot
          /\ cost' = Swing!NothingCharged /\ episode' = Swing!NewEpisode
      BY <2>4 DEF Swing!Reset
    <3>2. \A t \in Knees : knee'[t] = Swing!ResetKnee
      BY <3>1
    <3>3. OpenNow' = 0
      BY <3>1, NewEpisodeFacts DEF OpenNow
    <3>4. QED
      BY <3>1, <3>2, <3>3, NewEpisodeFacts DEF SwingInv
  <2>5. QED
    BY <1>2, <2>1, <2>2, <2>3, <2>4 DEF TrainingNext, Swing!Next
<1>3. QED
  BY <1>1, <1>2, PTL DEF TrainingSpec

LEMMA SwingInvMeans == ASSUME SwingInv PROVE LandingsAreCharged
<1> DEFINE q == episode.seen
           o == OpenNow
<1>1. /\ q \in Seq(Obs) /\ SwingHolds(q, o) /\ command \in Swing!Commands
      /\ \A t \in Knees : /\ KneeHolds(knee[t], q, o, Window[t])
                          /\ cost.knee[t] \in Swing!Costs
                          /\ KneeScored(cost.knee[t], q, Window[t])
      /\ FootHolds(foot, q, o) /\ cost.foot \in Swing!Costs /\ FootScored(cost.foot, q)
  BY DEF SwingInv
<1>2. Swing!KneeScoresItsSwing /\ Swing!FootScoresItsSwing
  BY <1>1, ScoresMean
<1> HIDE DEF q, o
<1>3. ASSUME o # 0 PROVE Touched(q) /\ q[o].command.level \in Levels
  <2>1. o \in 1 .. Len(q) /\ Touched(q)
    BY <1>1, <1>3, LenProperties DEF SwingHolds
  <2>2. q[o] \in Obs
    BY <1>1, <2>1, ElementOfSeq
  <2>3. QED
    BY <2>1, <2>2 DEF Obs, Swing!Commands
<1>4. ASSUME NEW t \in Knees
      PROVE  /\ knee[t].peak \in Nat
             /\ knee[t].level \in Levels \cup {Swing!NoLevel}
             /\ knee[t].initialized => knee[t].seen /\ knee[t].level \in Levels
             /\ knee[t].initialized \in BOOLEAN /\ knee[t].seen \in BOOLEAN
             /\ knee[t].initialized <=> o # 0
             /\ knee[t].seen <=> Touched(q)
             /\ o # 0 => knee[t].level = q[o].command.level
  <2>1. KneeHolds(knee[t], q, o, Window[t])
    BY <1>1
  <2>2. knee[t] \in KneeStates
    BY <2>1 DEF KneeHolds
  <2>3. /\ knee[t].initialized <=> o # 0
        /\ knee[t].seen <=> Touched(q)
        /\ o # 0 => knee[t].level = q[o].command.level
    BY <2>1 DEF KneeHolds
  <2>4. knee[t].initialized => knee[t].seen /\ knee[t].level \in Levels
    BY <1>3, <2>3
  <2>5. QED
    BY <2>2, <2>3, <2>4 DEF KneeStates
<1>5. /\ foot.peak \in Nat /\ foot.ground \in Heights \cup {0}
      /\ foot.initialized \in BOOLEAN /\ foot.valid \in BOOLEAN
  BY <1>1 DEF FootHolds, FootStates
<1>6. /\ foot.valid <=> o # 0
      /\ foot.initialized <=> Touched(q)
      /\ o # 0 => foot.level = q[o].command.level
  BY <1>1 DEF FootHolds
<1>7. foot.valid => foot.initialized /\ foot.level \in Levels
  BY <1>3, <1>6
<1>8. Swing!TypeOK
  BY <1>1, <1>4, <1>5, <1>7 DEF Swing!TypeOK
<1>9. Swing!TermsAgree
  <2>1. ASSUME NEW t \in Knees
        PROVE  /\ knee[t].initialized = foot.valid
               /\ knee[t].seen = foot.initialized
               /\ foot.valid => knee[t].level = foot.level
    BY <1>4, <1>5, <1>6
  <2>2. QED
    BY <2>1 DEF Swing!TermsAgree
<1>10. QED
  BY <1>2, <1>8, <1>9 DEF LandingsAreCharged, Swing!LandingsAreCharged

\* Whatever is drawn, bounced or reset meanwhile, a landing is charged for its
\* own swing, and the three terms mean the same swings (CommandedKneeForward,
\* CommandedKneeLift, CommandedFeetPeakClearance).
THEOREM ChargesItsSwing == TrainingSpec => []LandingsAreCharged
<1>1. SwingInv => LandingsAreCharged
  BY SwingInvMeans
<1>2. QED
  BY <1>1, SwingInvInductive, PTL

=============================================================================
