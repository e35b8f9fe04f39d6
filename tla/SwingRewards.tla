----------------------------- MODULE SwingRewards -----------------------------
(***************************************************************************)
(* The reward terms that score a swing of a foot when it lands:            *)
(* CommandedKneeForward, CommandedKneeLift and CommandedFeetPeakClearance, *)
(* for one foot of one environment (the legs and the environments are      *)
(* rows of tensors that do not meet).  All three watch the same contact    *)
(* sensor, once an environment step, and latch the commands at liftoff,    *)
(* because the commands are drawn again whenever their time is up and an   *)
(* episode may end in the middle of a swing.                               *)
(*                                                                         *)
(* h stands for each term's own measurement (knee in the heading frame,    *)
(* knee over the root, foot over the ground), a level for the commanded    *)
(* step length or swing height.  A cost is the pair that is compared, the  *)
(* peak and the level.                                                     *)
(***************************************************************************)
EXTENDS Integers, Sequences, FiniteSetsExt

CONSTANTS
    Levels,       \* commanded levels
    Heights,      \* measurements
    Knees,        \* the two knee terms
    Window,       \* the air times in a knee term's tracking window
    MaxAir,       \* bound: air times are counted to here
    MaxCalls,     \* bound: steps of an episode
    MaxResamples, \* bound: commands drawn again in an episode
    NoCost

SwingAssumption ==
    /\ Heights \subseteq Int /\ MaxAir \in Nat \ {0}
    /\ \A t \in Knees : Window[t] \subseteq 1..MaxAir

VARIABLES
    sensor,     \* the contact sensor after the last step
    command,    \* the level, and what the velocity command asks for
    knee,       \* the state of the knee terms
    foot,       \* the state of the peak clearance term
    cost,       \* what each term charged in the last step
    episode     \* history: the observations since the last reset

vars == <<sensor, command, knee, foot, cost, episode>>

NoLevel == -1
Drives == {"stand", "turn", "walk"}

-----------------------------------------------------------------------------
(* The sensor.  Times are counted within and across steps: a foot that     *)
(* touched and left the ground within one step shows a first air, and no   *)
(* contact.                                                                *)

\* After a reset both times are zero: the first step is a first of its kind.
ResetSensor == [air |-> 0, known |-> FALSE, found |-> FALSE,
                firstAir |-> FALSE, firstContact |-> FALSE]

Observed(found, fresh) ==
    [air |-> IF found THEN 0 ELSE IF fresh THEN 1 ELSE Min({sensor.air + 1, MaxAir}),
     known |-> TRUE, found |-> found,
     firstAir |-> ~found /\ fresh, firstContact |-> found /\ fresh]

\* What one step can show after the last one.
Observations ==
    {Observed(f, n) : f \in BOOLEAN, n \in BOOLEAN} \ 
    {o \in {Observed(f, FALSE) : f \in BOOLEAN} : ~sensor.known \/ o.found # sensor.found}

-----------------------------------------------------------------------------
(* The knee terms: CommandedKneeForward and CommandedKneeLift *)

ResetKnee == [seen |-> FALSE, initialized |-> FALSE, liftoff |-> 0, peak |-> 0,
              level |-> NoLevel, active |-> FALSE]

\* Mutant: a foot that was never on the ground lifts off.
LatchesFirstAir(k, s, h) ==
    IF s.firstAir
    THEN [seen |-> TRUE, initialized |-> TRUE, liftoff |-> h, peak |-> 0,
          level |-> command.level, active |-> command.drive = "walk"]
    ELSE [k EXCEPT !.seen = @ \/ s.found]

\* The first half of __call__(): a liftoff is one after a contact of an earlier
\* step.
Latch(k, s, h) ==
    LET marked == [k EXCEPT !.seen = @ \/ s.found]
    IN IF s.firstAir /\ k.seen
       THEN [marked EXCEPT !.initialized = TRUE, !.liftoff = h, !.peak = 0,
                           !.level = command.level, !.active = (command.drive = "walk")]
       ELSE marked

Track(k, s, h, window) ==
    IF k.initialized /\ k.active /\ s.air \in window
    THEN [k EXCEPT !.peak = Max({@, h - k.liftoff})] ELSE k

\* _clear_landed()
Clear(k, s) ==
    IF s.firstContact THEN [ResetKnee EXCEPT !.seen = k.seen] ELSE k

Charge(k, s) ==
    IF s.firstContact /\ k.initialized /\ k.active
    THEN [peak |-> k.peak, level |-> k.level] ELSE NoCost

-----------------------------------------------------------------------------
(* CommandedFeetPeakClearance *)

ResetFoot == [initialized |-> FALSE, ground |-> 0, valid |-> FALSE, peak |-> 0,
              level |-> 0, active |-> FALSE]

Ground(f, s, h) ==
    [f EXCEPT !.initialized = @ \/ s.found, !.ground = IF s.found THEN h ELSE @]

Lift(f, s) ==
    IF s.firstAir /\ f.initialized
    THEN [f EXCEPT !.valid = TRUE, !.level = command.level, !.active = (command.drive # "stand"),
                   !.peak = 0]
    ELSE f

Rise(f, s, h) ==
    IF ~s.found /\ f.valid
    THEN [f EXCEPT !.peak = Max({@, h - f.ground, 0})] ELSE f

ChargeFoot(f, s) ==
    IF s.firstContact /\ f.valid /\ f.active
    THEN [peak |-> f.peak, level |-> f.level] ELSE NoCost

Land(f, s) ==
    IF s.firstContact /\ f.valid
    THEN [f EXCEPT !.peak = 0, !.level = 0, !.active = FALSE, !.valid = FALSE] ELSE f

-----------------------------------------------------------------------------
(* The environment *)

\* One environment step: physics, then the reward terms.
Step ==
    /\ Len(episode.seen) < MaxCalls
    /\ \E s \in Observations, h \in Heights :
          /\ sensor' = s
          /\ episode' = [episode EXCEPT !.seen = Append(@,
                            [h |-> h, found |-> s.found, air |-> s.air, command |-> command,
                             firstAir |-> s.firstAir, firstContact |-> s.firstContact])]
          /\ LET tracked == [t \in Knees |-> Track(Latch(knee[t], s, h), s, h, Window[t])]
                 risen == Rise(Lift(Ground(foot, s, h), s), s, h)
             IN /\ cost' = [knee |-> [t \in Knees |-> Charge(tracked[t], s)],
                            foot |-> ChargeFoot(risen, s)]
                /\ knee' = [t \in Knees |-> Clear(tracked[t], s)]
                /\ foot' = Land(risen, s)
    /\ UNCHANGED command

Commands == [level : Levels, drive : Drives]

\* A command's time is up.
Resample ==
    /\ episode.resampled < MaxResamples
    /\ command' \in Commands \ {command}
    /\ episode' = [episode EXCEPT !.resampled = @ + 1]
    /\ UNCHANGED <<sensor, knee, foot, cost>>

NewEpisode == [seen |-> << >>, resampled |-> 0]
NothingCharged == [knee |-> [t \in Knees |-> NoCost], foot |-> NoCost]

\* The episode ends, whatever the foot is doing.
Reset ==
    /\ episode # NewEpisode
    /\ sensor' = ResetSensor
    /\ knee' = [t \in Knees |-> ResetKnee]
    /\ foot' = ResetFoot
    /\ cost' = NothingCharged
    /\ episode' = NewEpisode
    /\ command' \in Commands

Init ==
    /\ sensor = ResetSensor
    /\ command \in Commands
    /\ knee = [t \in Knees |-> ResetKnee]
    /\ foot = ResetFoot
    /\ cost = NothingCharged
    /\ episode = NewEpisode

Next == Step \/ Resample \/ Reset

Spec == Init /\ [][Next]_vars

-----------------------------------------------------------------------------
(* Properties *)

Costs == [peak : Nat, level : Levels] \cup {NoCost}

\* Peaks are never below zero and a swing that counts has a level.
TypeOK ==
    /\ command \in Commands
    /\ \A t \in Knees :
          /\ knee[t].peak \in Nat
          /\ knee[t].level \in Levels \cup {NoLevel}
          /\ knee[t].initialized => knee[t].seen /\ knee[t].level \in Levels
          /\ cost.knee[t] \in Costs
    /\ foot.peak \in Nat /\ foot.ground \in Heights \cup {0}
    /\ foot.valid => foot.initialized /\ foot.level \in Levels
    /\ cost.foot \in Costs

Seen == episode.seen

\* The steps of this episode a foot left the ground in, having been seen on it.
Liftoffs == {i \in DOMAIN Seen : Seen[i].firstAir /\ \E j \in 1..i : Seen[j].found}

\* The liftoff of the swing that is open before step n: the last one that no
\* landing followed.
OpenSwing(n) ==
    LET open == {i \in Liftoffs : i < n /\ \A j \in i..(n - 1) : ~Seen[j].firstContact}
    IN IF open = {} THEN 0 ELSE Max(open)

Landed(n) == n > 0 /\ Seen[n].firstContact /\ OpenSwing(n) # 0

\* A knee term charges a step exactly when it ends a swing that was commanded
\* to walk when it began, and then the highest the knee came, from where it
\* was at liftoff, in the window of that swing, against the level commanded
\* at liftoff: nothing of an earlier swing, an earlier episode or a command
\* drawn in mid-air.
KneeScoresItsSwing ==
    \A t \in Knees :
        LET n == Len(Seen)
            i == OpenSwing(n)
            tracked == {k \in i..n : Seen[k].air \in Window[t]}
        IN cost.knee[t] =
              IF Landed(n) /\ Seen[i].command.drive = "walk"
              THEN [peak |-> Max({0} \cup {Seen[k].h - Seen[i].h : k \in tracked}),
                    level |-> Seen[i].command.level]
              ELSE NoCost

\* The clearance term the same, for every commanded motion, from the ground the
\* foot was last seen on.
FootScoresItsSwing ==
    LET n == Len(Seen)
        i == OpenSwing(n)
        ground == Seen[Max({j \in 1..i : Seen[j].found})].h
    IN cost.foot =
          IF Landed(n) /\ Seen[i].command.drive # "stand"
          THEN [peak |-> Max({0} \cup {Seen[k].h - ground : k \in i..(n - 1)}),
                level |-> Seen[i].command.level]
          ELSE NoCost

\* The terms keep their books apart and agree which swings there are.
TermsAgree ==
    \A t \in Knees :
        /\ knee[t].initialized = foot.valid
        /\ knee[t].seen = foot.initialized
        /\ foot.valid => knee[t].level = foot.level

\* Whatever was drawn or bounced meanwhile, a landing is charged for its own
\* swing, and all three terms mean the same swings.
LandingsAreCharged == KneeScoresItsSwing /\ FootScoresItsSwing /\ TermsAgree

=============================================================================
