------------------------------ MODULE MCTraining ------------------------------
(***************************************************************************)
(* Training with twelve leaves of a configuration: a cap that is None by   *)
(* default, the policy's layers (the model contract), a read-only name,    *)
(* resume, the two controls, and the leaves a worker sets or reads; two    *)
(* workers; one foot of a nominal swing of four steps, with the windows of *)
(* the shipped task (0.20 to 0.65 and 0.30 to 0.80 of it) in steps; and    *)
(* two environments over five frames in two bins.                          *)
(***************************************************************************)
EXTENDS Training

Cap == <<"agent", "algorithm", "cap">>
Dims == <<"agent", "actor", "dims">>
Name == <<"env", "robot", "name">>
MCResume == <<"agent", "resume">>
MCOptIn == <<"opt_in">>
MCInspect == <<"inspect">>
MCAgentSeed == <<"agent", "seed">>
MCEnvSeed == <<"env", "seed">>
MCNanGuard == <<"guard">>
MCGuarded == <<"env", "guard">>
MCMotionFile == <<"motion">>
MCCommandMotion == <<"env", "motion">>
MCPaths ==
    {Cap, Dims, Name, MCResume, MCOptIn, MCInspect, MCAgentSeed, MCEnvSeed, MCNanGuard,
     MCGuarded, MCMotionFile, MCCommandMotion}

\* Of a cap, 0 is None and 2 is out of range; None does not replace a number.
MCValues == 0..2
MCTried == [p \in MCPaths |-> IF p = Cap THEN MCValues ELSE {0, 1}]
MCLegal ==
    [p \in MCPaths |-> [over \in MCValues |->
        IF p = Cap THEN (IF over = 0 THEN {0, 1} ELSE {1}) ELSE {0, 1}]]
MCResolved == [v \in MCValues |-> 2]
MCRanks == 0..1

MCRules ==
    {[category |-> "ppo", pattern |-> <<"agent", "*", "cap">>],
     [category |-> "ppo", pattern |-> <<"agent", "*", "*">>],
     [category |-> "launch", pattern |-> MCResume]}
MCReadOnlyRules == {<<"env", "*", "name">>}
MCContractRules == {<<"agent", "*", "dims">>}

MCLevels == {1, 2}
MCHeights == 0..1
MCKnees == {"lift", "forward"}
MCWindow == [t \in MCKnees |-> IF t = "lift" THEN {1, 2} ELSE {2, 3}]

\* What the tuning dictionary says of its switch (train.py:132): a
\* configuration with another contract never resumes an old checkpoint.
ResumeKeepsContract ==
    run.verdict = "trains" =>
        ~(run.cfg[MCResume] = 1 /\ \E p \in Contract : run.cfg[p] # 0)

\* What the tuning dictionary says of its layers (train.py:89-90): a value of
\* the command line has the highest priority, whatever the leaf.
CommandLineTrains ==
    worker.at = "trains" /\ worker.rank = 0 /\ run.by = "cli" =>
        \A p \in DOMAIN run.asked : worker.cfg[p] = run.asked[p]

=============================================================================
