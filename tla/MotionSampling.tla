---------------------------- MODULE MotionSampling ----------------------------
(***************************************************************************)
(* Which frame of the motion an environment starts from, and which part of *)
(* the motion a failure is held against: the adaptive sampling of          *)
(* MotionCommand (src/tasks/tracking/mdp/commands.py).  The frames and the *)
(* bins of all environments are one tensor each; a resampling is for some  *)
(* of them.                                                                *)
(*                                                                         *)
(* An environment step ends with the reset of the environments that        *)
(* terminated or ran out of time, which draws them a frame, and then with  *)
(* the update of the command, which advances every environment and draws   *)
(* again for those past the end.  The termination flags stay up for both.  *)
(* Any bin may be drawn: the uniform part of the probabilities is not zero.*)
(***************************************************************************)
EXTENDS Integers, FiniteSetsExt

CONSTANTS
    Envs,
    Frames,     \* the frames of the motion are 0 .. Frames - 1
    Bins        \* the parts of the motion are 0 .. Bins - 1

MotionAssumption ==
    Frames \in Nat \ {0} /\ Bins \in 1..Frames /\ IsFiniteSet(Envs)

VARIABLES
    time_steps,   \* the frame each environment is at
    charged,      \* what the last step added to each bin's failures
    step          \* history: who failed in the last step, in which bin, and
                  \* who drew the last frame of the motion

vars == <<time_steps, charged, step>>

AllBins == 0..(Bins - 1)

\* Frames are counted on from the last before they are drawn again.
BinOf(frame) == Min({(frame * Bins) \div Frames, Bins - 1})

\* A frame of a bin: (bin + u) / Bins * (Frames - 1) truncated, where the sum
\* may round up to bin + 1.
DrawnFrom(bin) ==
    ((bin * (Frames - 1)) \div Bins)..(((bin + 1) * (Frames - 1)) \div Bins)

Draws == UNION {DrawnFrom(b) : b \in AllBins}

\* bincount() of the failed environments' bins.
Counts(before, failed) ==
    [b \in AllBins |-> Cardinality({n \in failed : BinOf(before[n]) = b})]

\* Mutant: a call without a failure counts no failures.
CountedAlways(counts, before, failed) == Counts(before, failed)

\* _adaptive_sampling(): the counts are replaced, and only if somebody failed.
Counted(counts, before, failed) ==
    IF failed = {} THEN counts ELSE Counts(before, failed)

NoFailures == [b \in AllBins |-> 0]

\* One environment step: some environments terminate and some run out of time.
Step ==
    \E terminated \in SUBSET Envs : \E timedOut \in SUBSET (Envs \ terminated) :
    \E first \in [Envs -> Draws], second \in [Envs -> Draws] :
        LET restarted == [n \in Envs |-> IF n \in terminated \cup timedOut THEN first[n]
                                         ELSE time_steps[n]]
            afterReset == Counted(NoFailures, time_steps, terminated)
            advanced == [n \in Envs |-> restarted[n] + 1]
            past == {n \in Envs : advanced[n] >= Frames}
            wrapped == [n \in Envs |-> IF n \in past THEN second[n] ELSE advanced[n]]
        IN /\ \A n \in Envs \ (terminated \cup timedOut) : first[n] = 0
           /\ \A n \in Envs \ past : second[n] = 0
           /\ time_steps' = wrapped
           /\ charged' = IF past = {} THEN afterReset
                         ELSE Counted(afterReset, advanced, terminated \cap past)
           /\ step' = [failed |-> {<<n, BinOf(time_steps[n])>> : n \in terminated},
                       last |-> {n \in terminated : first[n] = Frames - 1}]

Init ==
    /\ time_steps = [n \in Envs |-> 0]
    /\ charged = NoFailures
    /\ step = [failed |-> {}, last |-> {}]

Next == Step

Spec == Init /\ [][Next]_vars

-----------------------------------------------------------------------------
(* Properties *)

\* A frame is one of the motion between two steps.
TypeOK ==
    /\ time_steps \in [Envs -> 0..(Frames - 1)]
    /\ charged \in [AllBins -> 0..Cardinality(Envs)]

\* Each environment that fell is held once against the part of the motion it
\* fell in, although its frame is drawn anew before the failures are added up
\* and others may run past the end in the same step; unless a frame rounded up
\* to the motion's last was drawn, which is then drawn again with the flag
\* still up.
FailsWhereItFell ==
    step.last = {} =>
        charged = [b \in AllBins |-> Cardinality({f \in step.failed : f[2] = b})]

==============================================================================
