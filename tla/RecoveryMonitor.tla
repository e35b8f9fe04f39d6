--------------------------- MODULE RecoveryMonitor ---------------------------
(***************************************************************************)
(* The GetUpRecoveryMonitor as GetUp's policy thread drives it: one sample *)
(* after every policy step, with the measured time since the previous one, *)
(* and a reset when the state is entered.                                  *)
(***************************************************************************)
EXTENDS GetUpControl

VARIABLES
    monitor,  \* the GetUpRecoveryMonitor
    monitorWatch     \* auxiliary, [stable, span, unhealthy, since]: the last sample was
              \* stable; ticks from the first to the last sample of the present
              \* run of stable ones, none more than SampleGap apart; samples
              \* since a healthy one; ticks since the reset

monitorVars == <<monitor, monitorWatch>>

TypeOKMonitor ==
    /\ monitor \in MonitorTypes
    /\ monitorWatch \in [stable: BOOLEAN, span: Nat, unhealthy: Nat, since: Nat]

NothingSampled == [stable |-> FALSE, span |-> 0, unhealthy |-> 0, since |-> 0]

InitMonitor ==
    /\ monitor = MonitorInit
    /\ monitorWatch = NothingSampled

\* reset(), from State_GetUp::enter.
ResetMonitor ==
    /\ monitor' = MonitorInit
    /\ monitorWatch' = NothingSampled

\* update(sample, dt).  The loop stops calling once the outcome is decided.
UpdateMonitor(s, dt) ==
    /\ monitor.outcome = "running"
    /\ monitor' = MonitorNext(monitor, s, dt)
    /\ monitorWatch' = [stable |-> StableSample(s) /\ dt <= SampleGap,
                 span |-> IF StableSample(s) /\ monitorWatch.stable /\ dt <= SampleGap
                          THEN monitorWatch.span + dt ELSE 0,
                 unhealthy |-> IF s.healthy THEN 0 ELSE monitorWatch.unhealthy + 1,
                 since |-> monitorWatch.since + dt]

NextMonitor ==
    \/ \E s \in Samples, dt \in 0 .. SampleGap + 1 : UpdateMonitor(s, dt)
    \/ ResetMonitor

SpecMonitor == InitMonitor /\ [][NextMonitor]_monitorVars

-----------------------------------------------------------------------------
\* A recovery hands over to Velocity only after the robot was seen upright and
\* still throughout StableTime.  The interval before the first stable sample is
\* counted too, so the observed span may be one SampleGap short, never more.
SucceedsOnlyWhenStable ==
    monitor.outcome = "succeeded" =>
        monitorWatch.stable /\ monitorWatch.span + SampleGap >= StableTime

\* A recovery is given up for inference only after MaxFailures unhealthy steps
\* in a row, for its duration only after RecoveryTimeout.
FailsForCause ==
    /\ monitor.reason = "inference" => monitorWatch.unhealthy >= MaxFailures
    /\ monitor.reason = "timeout" => monitorWatch.since >= RecoveryTimeout
    /\ monitor.reason # "none" <=> monitor.outcome = "failed"

\* No recovery goes on past its limits: one that has lasted RecoveryTimeout, or
\* has failed to infer MaxFailures times in a row, has been decided.
RunsWithinLimits ==
    monitor.outcome = "running" =>
        monitorWatch.since < RecoveryTimeout /\ monitorWatch.unhealthy < MaxFailures

\* A recovery is decided for the reason it reports, and no later than the
\* limits allow.
DecidesForCause == SucceedsOnlyWhenStable /\ FailsForCause /\ RunsWithinLimits
=============================================================================
