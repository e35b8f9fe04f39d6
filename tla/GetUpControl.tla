---------------------------- MODULE GetUpControl ----------------------------
(***************************************************************************)
(* The three timed decision procedures of deploy/include/FSM/              *)
(* getup_control.h, as functions on records: the gate that turns a held A  *)
(* button into a GetUp request, the detector that confirms a fall, and the *)
(* monitor that ends a recovery.                                           *)
(*                                                                         *)
(* Time is counted in ticks.  The code keeps the absolute time of its last *)
(* sample and only ever uses the difference to the present one, so a       *)
(* record holds that difference, `age', which Later advances and which     *)
(* saturates one tick past the gap it is compared with.  The 1e-9          *)
(* tolerances of the code make its comparisons exact on ticks.             *)
(***************************************************************************)
EXTENDS Integers

CONSTANTS
    HoldTime,         \* GetUpRequestConfig::hold_seconds
    GateGap,          \* GetUpRequestConfig::max_update_gap_seconds
    ConfirmTime,      \* FallenDetectorConfig::confirm_duration_seconds
    DetectorGap,      \* FallenDetectorConfig::max_update_gap_seconds
    StableTime,       \* GetUpRecoveryConfig::stable_duration_seconds
    RecoveryTimeout,  \* GetUpRecoveryConfig::timeout_seconds
    MaxFailures,      \* GetUpRecoveryConfig::max_consecutive_inference_failures
    SampleGap         \* GetUpRecoveryConfig::max_sample_gap_seconds

\* The constructors throw unless every parameter is positive.
ASSUME GetUpConfigAssumption ==
    /\ HoldTime \in Nat \ {0} /\ GateGap \in Nat \ {0}
    /\ ConfirmTime \in Nat \ {0} /\ DetectorGap \in Nat \ {0}
    /\ StableTime \in Nat \ {0} /\ RecoveryTimeout \in Nat \ {0}
    /\ MaxFailures \in Nat \ {0} /\ SampleGap \in Nat \ {0}

\* The torso tilt as the code tells it apart: at most upright_tilt_max_rad,
\* between the two thresholds, at least fallen_tilt_min_rad, and the NaN
\* torso_tilt_from_quaternion returns for a degenerate quaternion.
Tilts == {"upright", "leaning", "fallen", "invalid"}

Saturate(n, limit) == IF n <= limit THEN n ELSE limit

\* d ticks pass before the next sample of a gate or a detector.
Later(r, d, gap) ==
    IF r.hasLast THEN [r EXCEPT !.age = Saturate(r.age + d, gap + 1)] ELSE r

-----------------------------------------------------------------------------
(* GetUpRequestGate *)

GateTypes == [armed: BOOLEAN, qualifying: BOOLEAN, hasLast: BOOLEAN,
              held: 0 .. HoldTime - 1, age: 0 .. GateGap + 1]

GateInit == [armed |-> TRUE, qualifying |-> FALSE, hasLast |-> FALSE,
             held |-> 0, age |-> 0]

ResetPending(g) == [g EXCEPT !.held = 0, !.qualifying = FALSE]

\* last_update_seconds_ = now_seconds; has_last_update_ = true
Stamped(r) == [r EXCEPT !.hasLast = TRUE, !.age = 0]
Unstamped(r) == [r EXCEPT !.hasLast = FALSE, !.age = 0]

\* Slip: the demand for a release leaves the gate armed.
GateForgets(g) == Unstamped(ResetPending(g))

GateRequireRelease(g) == [Unstamped(ResetPending(g)) EXCEPT !.armed = FALSE]

\* Slip: the gap to the previous sample is not looked at.
CountsAcrossGaps(g) == g.hasLast /\ g.qualifying
\* The sample extends a run of qualifying samples without too long a gap.
GateCounts(g) == g.hasLast /\ g.qualifying /\ g.age <= GateGap

\* update() returns true.
GateFires(g, requested, tilt) ==
    /\ requested /\ g.armed /\ tilt = "fallen"
    /\ GateCounts(g)
    /\ g.held + g.age >= HoldTime

\* The gate after update(requested, tilt, now).
GateNext(g, requested, tilt) ==
    CASE tilt = "invalid" -> Unstamped(ResetPending(g))
      [] tilt # "invalid" /\ ~requested ->
            Stamped([ResetPending(g) EXCEPT !.armed = TRUE])
      [] tilt # "invalid" /\ requested /\ ~g.armed -> Stamped(g)
      [] tilt \in {"upright", "leaning"} /\ requested /\ g.armed ->
            Stamped(ResetPending(g))
      [] GateFires(g, requested, tilt) ->
            Stamped([ResetPending(g) EXCEPT !.armed = FALSE])
      [] OTHER ->
            Stamped([g EXCEPT !.qualifying = TRUE,
                              !.held = IF GateCounts(g) THEN g.held + g.age ELSE 0])

-----------------------------------------------------------------------------
(* FallenDetector.  The code lets confirmed_seconds_ grow after the fall is *)
(* confirmed and only compares it: it saturates here.                      *)

DetectorTypes == [qualifying: BOOLEAN, hasLast: BOOLEAN,
                  confirmed: 0 .. ConfirmTime, age: 0 .. DetectorGap + 1]

DetectorInit == [qualifying |-> FALSE, hasLast |-> FALSE,
                 confirmed |-> 0, age |-> 0]

\* Slip: the gap is not looked at.
ConfirmsAcrossGaps(d, tilt) == d.hasLast /\ d.qualifying /\ tilt = "fallen"
DetectorCounts(d, tilt) ==
    /\ d.hasLast /\ d.age <= DetectorGap
    /\ d.qualifying /\ tilt = "fallen"

\* The detector after update(tilt, now); reset() is DetectorInit.
DetectorNext(d, tilt) ==
    IF tilt = "invalid" THEN DetectorInit
    ELSE Stamped([d EXCEPT
            !.qualifying = (tilt = "fallen"),
            !.confirmed = IF DetectorCounts(d, tilt)
                          THEN Saturate(d.confirmed + d.age, ConfirmTime)
                          ELSE 0])

DetectorFires(d, tilt) ==
    DetectorCounts(d, tilt) /\ d.confirmed + d.age >= ConfirmTime

-----------------------------------------------------------------------------
(* GetUpRecoveryMonitor.  A sample is the torso tilt, whether the roll/pitch *)
(* and joint speeds are below their limits, and whether inference was healthy. *)

Speeds == {"still", "moving", "invalid"}
Samples == [tilt: Tilts, speed: Speeds, healthy: BOOLEAN]
Outcomes == {"running", "succeeded", "failed"}
Reasons == {"none", "timeout", "inference", "invalid_input"}

MonitorTypes == [outcome: Outcomes, reason: Reasons, elapsed: Nat,
                 stable: Nat, failures: 0 .. MaxFailures]

MonitorInit == [outcome |-> "running", reason |-> "none", elapsed |-> 0,
                stable |-> 0, failures |-> 0]

ValidSample(s, dt) == dt > 0 /\ s.tilt # "invalid" /\ s.speed # "invalid"

StableSample(s) == s.healthy /\ s.tilt = "upright" /\ s.speed = "still"

Fail(m, reason) == [m EXCEPT !.outcome = "failed", !.reason = reason]

\* Slip: an unstable sample does not clear the stable time, and no limit ends it.
StableAdds(m, s, dt) ==
    LET stable == IF StableSample(s) /\ dt <= SampleGap THEN m.stable + dt ELSE m.stable
    IN  IF s.healthy /\ stable >= StableTime
        THEN [m EXCEPT !.stable = stable, !.outcome = "succeeded"]
        ELSE [m EXCEPT !.stable = stable, !.elapsed = m.elapsed + dt]
\* Slip: a recovery has no time limit.
NeverTimesOut(m, s, dt) ==
    IF s.healthy THEN [m EXCEPT !.failures = 0] ELSE Fail(m, "inference")

\* A valid sample of a running recovery, dt after the previous one.
MonitorSample(m, s, dt) ==
    LET counted ==
          [m EXCEPT !.elapsed = m.elapsed + dt,
                    !.stable = IF StableSample(s) /\ dt <= SampleGap
                               THEN m.stable + dt ELSE 0,
                    !.failures = IF s.healthy THEN 0 ELSE m.failures + 1]
    IN  CASE counted.failures >= MaxFailures -> Fail(counted, "inference")
          [] s.healthy /\ counted.stable >= StableTime ->
                [counted EXCEPT !.outcome = "succeeded"]
          [] counted.failures < MaxFailures /\ counted.stable < StableTime
               /\ counted.elapsed >= RecoveryTimeout -> Fail(counted, "timeout")
          [] OTHER -> counted

\* The monitor after update(sample, dt): a decided outcome is kept.
MonitorNext(m, s, dt) ==
    CASE m.outcome # "running" -> m
      [] m.outcome = "running" /\ ~ValidSample(s, dt) -> Fail(m, "invalid_input")
      [] OTHER -> MonitorSample(m, s, dt)
=============================================================================
