---------------------------- MODULE DecisionProofs ----------------------------
(***************************************************************************)
(* What the controller's timed decision procedures promise: the request    *)
(* gate, the fall detector and the recovery monitor, for every duration,   *)
(* gap and failure limit; the single-step control, for every gait period,  *)
(* phase advance and pair of timeouts; and the conditions of transitions,  *)
(* for every text.                                                         *)
(***************************************************************************)
EXTENDS RequestGate, FallenDetector, RecoveryMonitor, SingleStep, JoystickDsl,
        GetUpControlProofs, WellFoundedInduction

-----------------------------------------------------------------------------
(* The request gate                                                        *)

\* The gate and the observer agree.  An armed gate is one whose operator has
\* been seen to release A; while it is armed it has counted exactly the run of
\* qualifying samples the observer has, and one that is not armed counts nothing.
GateAgreement ==
    /\ gate.armed = gateWatch.released
    /\ gate.age = 0
    /\ gate.qualifying => gate.armed /\ gate.hasLast /\ gateWatch.held
    /\ gate.armed /\ gateWatch.held => gate.qualifying /\ gate.held = gateWatch.span
    /\ ~gateWatch.held => gateWatch.span = 0
    /\ gateFired => gateWatch.held /\ gateWatch.span >= HoldTime

GateInv == TypeOKGate /\ GateAgreement

\* Every update() and every require_release() preserves the invariant.
LEMMA GateInductive == GateInv /\ [NextGate]_gateVars => GateInv'
<1> USE GetUpConfigAssumption
<1> SUFFICES ASSUME GateInv, [NextGate]_gateVars PROVE GateInv'
  OBVIOUS
<1>1. CASE RequireRelease
  <2>1. gate' \in GateTypes
    BY <1>1, GateRewrites DEF RequireRelease, GateRequireRelease, GateInv, TypeOKGate
  <2> DEFINE g == ResetPending(gate)
  <2>a. g \in GateTypes /\ ~g.qualifying
    BY GateRewrites DEF ResetPending, GateInv, TypeOKGate, GateTypes
  <2>b. Unstamped(g) \in GateTypes /\ ~Unstamped(g).qualifying /\ Unstamped(g).age = 0
    BY <2>a, GateRewrites DEF Unstamped, GateTypes
  <2>2. ~gate'.armed /\ ~gate'.qualifying /\ gate'.age = 0
    BY <1>1, <2>b DEF RequireRelease, GateRequireRelease, GateTypes
  <2>3. gateWatch' = [gateWatch EXCEPT !.released = FALSE] /\ gateFired' = FALSE
    BY <1>1 DEF RequireRelease
  <2>4. QED
    BY <2>1, <2>2, <2>3 DEF GateInv, TypeOKGate, GateAgreement, GateTypes
<1>2. CASE UNCHANGED gateVars
  BY <1>2 DEF gateVars, GateInv, TypeOKGate, GateAgreement
<1>3. ASSUME NEW d \in 1 .. GateGap + 1, NEW requested \in BOOLEAN,
             NEW tilt \in Tilts, UpdateGate(d, requested, tilt)
      PROVE  GateInv'
  <2> DEFINE g == Later(gate, d, GateGap)
             fires == GateFires(g, requested, tilt)
  <2>1. /\ g \in GateTypes /\ gate \in GateTypes
        /\ g.armed = gate.armed /\ g.qualifying = gate.qualifying
        /\ g.hasLast = gate.hasLast /\ g.held = gate.held
        /\ g.hasLast => g.age = d
    BY LaterGate DEF GateInv, TypeOKGate, GateAgreement, GateTypes
  <2>2. gateFired' = fires /\ gate' = GateNext(g, requested, tilt)
    BY <1>3 DEF UpdateGate
  <2>3. gate' \in GateTypes
    BY <2>1, <2>2, GateNextType
  <2>4. gateFired' \in BOOLEAN
    BY <2>2 DEF GateFires
  <2>5. /\ gateWatch'.held = (requested /\ tilt = "fallen")
        /\ gateWatch'.span = IF gateWatch'.held /\ gateWatch.held /\ d <= GateGap
                         THEN Saturate(gateWatch.span + d, HoldTime) ELSE 0
        /\ gateWatch'.released = ((gateWatch.released \/ (~requested /\ tilt # "invalid"))
                               /\ ~fires)
    BY <1>3, <2>2 DEF UpdateGate, GateWatched
  <2>6. gateWatch' \in [held: BOOLEAN, span: 0 .. HoldTime, released: BOOLEAN]
    BY <1>3, <2>2 DEF UpdateGate, GateWatched, Saturate, GateInv, TypeOKGate, GateFires, GateTypes
  <2>7. TypeOKGate'
    BY <2>3, <2>4, <2>6 DEF TypeOKGate
  <2>8. GateAgreement'
    <3> USE DEF Stamped, Unstamped, ResetPending
    <3>1. gate'.armed = gateWatch'.released
      BY <2>1, <2>2, <2>5 DEF GateNext, GateFires, GateTypes, GateInv, GateAgreement, Tilts
    <3>2. gate'.age = 0
      BY <2>1, <2>2 DEF GateNext, GateFires, GateTypes, Tilts
    <3>3. gate'.qualifying => gate'.armed /\ gate'.hasLast /\ gateWatch'.held
      BY <2>1, <2>2, <2>5 DEF GateNext, GateFires, GateTypes, GateInv, GateAgreement, Tilts
    <3>4. gate'.armed /\ gateWatch'.held => gate'.qualifying /\ gate'.held = gateWatch'.span
      <4> SUFFICES ASSUME gate'.armed, gateWatch'.held
                   PROVE  gate'.qualifying /\ gate'.held = gateWatch'.span
        OBVIOUS
      <4>1. requested /\ tilt = "fallen" /\ gate.armed /\ ~fires
        BY <2>1, <2>2, <2>5, <3>1 DEF GateInv, GateAgreement
      <4>2. /\ gate'.qualifying
            /\ gate'.held = IF GateCounts(g) THEN gate.held + g.age ELSE 0
        BY <2>1, <2>2, <4>1 DEF GateNext, GateTypes
      <4>3. GateCounts(g) <=> gateWatch.held /\ d <= GateGap
        BY <2>1, <4>1 DEF GateCounts, GateInv, GateAgreement
      <4>4. CASE GateCounts(g)
        <5>1. gateWatch.span + d < HoldTime
          BY <2>1, <4>1, <4>3, <4>4 DEF GateFires, GateInv, GateAgreement, GateTypes, GateCounts
        <5>2. QED
          BY <2>1, <2>5, <4>1, <4>2, <4>3, <4>4, <5>1
             DEF GateCounts, GateInv, GateAgreement, Saturate, TypeOKGate
      <4>5. CASE ~GateCounts(g)
        BY <2>5, <4>2, <4>3, <4>5
      <4>6. QED
        BY <4>4, <4>5
    <3>5. ~gateWatch'.held => gateWatch'.span = 0
      BY <2>5
    <3>6. gateFired' => gateWatch'.held /\ gateWatch'.span >= HoldTime
      <4> SUFFICES ASSUME fires PROVE gateWatch'.held /\ gateWatch'.span >= HoldTime
        BY <2>2
      <4>1. requested /\ tilt = "fallen" /\ gate.armed /\ g.hasLast /\ gate.qualifying
        BY <2>1 DEF GateFires, GateCounts
      <4>2. d <= GateGap /\ gate.held + d >= HoldTime
        BY <2>1, <4>1 DEF GateFires, GateCounts
      <4>3. gateWatch.held /\ gate.held = gateWatch.span
        BY <4>1 DEF GateInv, GateAgreement
      <4>4. gateWatch'.held /\ gateWatch'.span = Saturate(gateWatch.span + d, HoldTime)
        BY <2>5, <4>1, <4>2, <4>3
      <4>5. QED
        BY <4>2, <4>3, <4>4 DEF Saturate
    <3>7. QED
      BY <3>1, <3>2, <3>3, <3>4, <3>5, <3>6 DEF GateAgreement
  <2>9. QED
    BY <2>7, <2>8 DEF GateInv
<1>4. QED
  BY <1>1, <1>2, <1>3 DEF NextGate

\* The invariant holds throughout every behaviour of the gate.
THEOREM GateSafe == SpecGate => []GateInv
<1>1. InitGate => GateInv
  <2>1. /\ 0 \in 0 .. HoldTime - 1 /\ 0 \in 0 .. GateGap + 1
        /\ 0 \in 0 .. HoldTime
    BY GetUpConfigAssumption
  <2>2. GateInit \in GateTypes
    BY <2>1 DEF GateInit, GateTypes
  <2>3. [held |-> FALSE, span |-> 0, released |-> TRUE]
            \in [held: BOOLEAN, span: 0 .. HoldTime, released: BOOLEAN]
    BY <2>1
  <2>4. ASSUME InitGate PROVE TypeOKGate
    BY <2>2, <2>3, <2>4, Zenon DEF InitGate, TypeOKGate
  <2>5. ASSUME InitGate PROVE GateAgreement
    <3>1. gate.armed = TRUE /\ gate.qualifying = FALSE /\ gate.age = 0
      BY <2>5 DEF InitGate, GateInit
    <3>2. gateWatch.released = TRUE /\ gateWatch.held = FALSE /\ gateWatch.span = 0
      BY <2>5 DEF InitGate
    <3>3. QED
      BY <2>5, <3>1, <3>2 DEF InitGate, GateAgreement
  <2>6. QED
    BY <2>4, <2>5 DEF GateInv
<1>2. QED
  BY <1>1, GateInductive, PTL DEF SpecGate

\* Type correctness of the gate, its result and the observer.
THEOREM GateTypeOK == SpecGate => []TypeOKGate
<1>1. GateInv => TypeOKGate
  BY DEF GateInv
<1>2. QED
  BY <1>1, GateSafe, PTL

\* A GetUp request is the answer to A held for HoldTime on a fallen robot.
THEOREM RequestWasHeld == SpecGate => []FiresOnlyAfterHold
<1>1. GateInv => FiresOnlyAfterHold
  BY DEF GateInv, GateAgreement, FiresOnlyAfterHold
<1>2. QED
  BY <1>1, GateSafe, PTL

\* A hold the operator is entitled to is never swallowed.
THEOREM HoldIsAnswered == SpecGate => []HeldRequestFires
<1>1. GateInv => HeldRequestFires
  BY GetUpConfigAssumption
     DEF GateInv, GateAgreement, TypeOKGate, GateTypes, HeldRequestFires
<1>2. QED
  BY <1>1, GateSafe, PTL

\* One press of A gives at most one request, and one that began before the gate
\* was told to wait for a release gives none.
THEOREM RequestWasReleased == SpecGate => FiresOnlyAfterRelease
<1>1. GateInv /\ [NextGate]_gateVars => [gateFired' => gateWatch.released]_gateVars
  <2> SUFFICES ASSUME GateInv, NextGate, gateFired' PROVE gateWatch.released
    BY DEF gateVars
  <2>1. PICK d \in 1 .. GateGap + 1, requested \in BOOLEAN, tilt \in Tilts :
               UpdateGate(d, requested, tilt)
    BY DEF NextGate, RequireRelease
  <2>2. Later(gate, d, GateGap).armed
    BY <2>1 DEF UpdateGate, GateFires
  <2>3. gate.armed
    BY <2>2, LaterGate DEF GateInv, TypeOKGate, GateAgreement, GateTypes
  <2>4. QED
    BY <2>3 DEF GateInv, GateAgreement
<1>2. QED
  BY <1>1, GateSafe, PTL DEF SpecGate, FiresOnlyAfterRelease

\* The gate answers exactly the holds it should.
THEOREM RequestsExact == SpecGate => []RequestsAreExact
<1>1. FiresOnlyAfterHold /\ HeldRequestFires => RequestsAreExact
  BY DEF RequestsAreExact
<1>2. QED
  BY <1>1, RequestWasHeld, HoldIsAnswered, PTL

-----------------------------------------------------------------------------
(* The fall detector                                                       *)

\* The detector has counted exactly the run of fallen samples the observer has.
DetectorAgreement ==
    /\ detector.age = 0
    /\ detector.qualifying = detectorWatch.fallen
    /\ detectorWatch.fallen => detector.hasLast /\ detector.confirmed = detectorWatch.span
    /\ ~detectorWatch.fallen => detectorWatch.span = 0
    /\ detectorFired <=> detectorWatch.fallen /\ detectorWatch.span >= ConfirmTime

DetectorInv == TypeOKDetector /\ DetectorAgreement

\* A detector that has seen nothing.
LEMMA ClearedDetector ==
    /\ DetectorInit \in DetectorTypes
    /\ DetectorInit.age = 0 /\ DetectorInit.qualifying = FALSE
    /\ NoFallSeen \in [fallen: BOOLEAN, span: 0 .. ConfirmTime]
    /\ NoFallSeen.fallen = FALSE /\ NoFallSeen.span = 0
<1>1. 0 \in 0 .. ConfirmTime /\ 0 \in 0 .. DetectorGap + 1
  BY GetUpConfigAssumption
<1>2. DetectorInit \in DetectorTypes
  BY <1>1 DEF DetectorInit, DetectorTypes
<1>3. NoFallSeen \in [fallen: BOOLEAN, span: 0 .. ConfirmTime]
  BY <1>1 DEF NoFallSeen
<1>4. QED
  BY <1>2, <1>3 DEF DetectorInit, NoFallSeen

\* The state after a data timeout, and the initial one, satisfy the invariant.
LEMMA ClearedState ==
    detector = DetectorInit /\ detectorFired = FALSE /\ detectorWatch = NoFallSeen => DetectorInv
<1> SUFFICES ASSUME detector = DetectorInit, detectorFired = FALSE, detectorWatch = NoFallSeen
             PROVE  TypeOKDetector /\ DetectorAgreement
  BY DEF DetectorInv
<1>1. TypeOKDetector
  BY ClearedDetector, Zenon DEF TypeOKDetector
<1>2. DetectorAgreement
  BY ClearedDetector DEF DetectorAgreement
<1>3. QED
  BY <1>1, <1>2

\* Every sample and every data timeout preserves the invariant.
LEMMA DetectorInductive == DetectorInv /\ [NextDetector]_detectorVars => DetectorInv'
<1> USE GetUpConfigAssumption
<1> SUFFICES ASSUME DetectorInv, [NextDetector]_detectorVars PROVE DetectorInv'
  OBVIOUS
<1>1. CASE TimedOut
  <2>1. /\ detector' \in DetectorTypes /\ detector'.age = 0
        /\ detector'.qualifying = FALSE /\ detectorFired' = FALSE
        /\ detectorWatch' \in [fallen: BOOLEAN, span: 0 .. ConfirmTime]
        /\ detectorWatch'.fallen = FALSE /\ detectorWatch'.span = 0
    BY <1>1, ClearedDetector DEF TimedOut
  <2>2. QED
    BY <2>1 DEF DetectorInv, TypeOKDetector, DetectorAgreement
<1>2. CASE UNCHANGED detectorVars
  BY <1>2 DEF detectorVars, DetectorInv, TypeOKDetector, DetectorAgreement
<1>3. ASSUME NEW d \in 1 .. DetectorGap + 1, NEW tilt \in Tilts, UpdateDetector(d, tilt)
      PROVE  DetectorInv'
  <2> DEFINE r == Later(detector, d, DetectorGap)
             counts == detectorWatch.fallen /\ d <= DetectorGap
             span == IF counts THEN Saturate(detectorWatch.span + d, ConfirmTime) ELSE 0
  <2>1. /\ r \in DetectorTypes
        /\ r.qualifying = detector.qualifying /\ r.hasLast = detector.hasLast
        /\ r.confirmed = detector.confirmed
        /\ r.hasLast => r.age = d
    <3>1. d \in Nat \ {0} /\ d <= DetectorGap + 1
      OBVIOUS
    <3>2. detector \in DetectorTypes /\ detector.age = 0
      BY DEF DetectorInv, TypeOKDetector, DetectorAgreement
    <3>3. QED
      BY <3>1, <3>2, LaterDetector
  <2>2. /\ detectorFired' = DetectorFires(r, tilt) /\ detector' = DetectorNext(r, tilt)
        /\ detectorWatch' = [fallen |-> tilt = "fallen",
                     span |-> IF tilt = "fallen" /\ counts
                              THEN Saturate(detectorWatch.span + d, ConfirmTime) ELSE 0]
    BY <1>3 DEF UpdateDetector
  <2>3. CASE tilt = "invalid"
    <3>1. /\ detector' \in DetectorTypes /\ detector'.age = 0
          /\ detector'.qualifying = FALSE /\ detectorFired' = FALSE
      BY <2>2, <2>3, ClearedDetector DEF DetectorNext, DetectorFires, DetectorCounts
    <3>2. detectorWatch' = [fallen |-> FALSE, span |-> 0]
      BY <2>2, <2>3
    <3>3. QED
      BY <3>1, <3>2, ClearedDetector DEF NoFallSeen, DetectorInv, TypeOKDetector, DetectorAgreement
  <2>4. CASE tilt \in {"upright", "leaning"}
    <3>1. detector' = Stamped([r EXCEPT !.qualifying = FALSE, !.confirmed = 0])
      BY <2>2, <2>4 DEF DetectorNext, DetectorCounts
    <3>2. detector' \in DetectorTypes /\ detector'.age = 0 /\ detector'.qualifying = FALSE
      <4> DEFINE c == [r EXCEPT !.qualifying = FALSE, !.confirmed = 0]
      <4>1. 0 \in 0 .. ConfirmTime /\ 0 \in 0 .. DetectorGap + 1
        OBVIOUS
      <4>2. c \in DetectorTypes /\ c.qualifying = FALSE
        BY <2>1, <4>1 DEF DetectorTypes
      <4>3. QED
        BY <3>1, <4>1, <4>2 DEF Stamped, DetectorTypes
    <3>3. detectorFired' = FALSE
      BY <2>2, <2>4 DEF DetectorFires, DetectorCounts
    <3>4. detectorWatch' = [fallen |-> FALSE, span |-> 0]
      BY <2>2, <2>4
    <3>5. QED
      BY <3>2, <3>3, <3>4, ClearedDetector DEF NoFallSeen, DetectorInv, TypeOKDetector, DetectorAgreement
  <2>5. CASE tilt = "fallen"
    <3>1. DetectorCounts(r, tilt) <=> counts
      BY <2>1, <2>5 DEF DetectorCounts, DetectorInv, DetectorAgreement
    <3>2. detectorWatch' = [fallen |-> TRUE, span |-> span]
      BY <2>2, <2>5
    <3>3. span \in 0 .. ConfirmTime
      BY DEF DetectorInv, TypeOKDetector, Saturate
    <3>4. detector' = Stamped([r EXCEPT !.qualifying = TRUE, !.confirmed = span])
      <4>1. counts => r.confirmed = detectorWatch.span /\ r.age = d
        BY <2>1 DEF DetectorInv, DetectorAgreement
      <4>2. QED
        BY <2>2, <2>5, <3>1, <4>1 DEF DetectorNext
    <3>5. /\ detector' \in DetectorTypes /\ detector'.age = 0
          /\ detector'.qualifying = TRUE /\ detector'.hasLast = TRUE
          /\ detector'.confirmed = span
      <4> DEFINE c == [r EXCEPT !.qualifying = TRUE, !.confirmed = span]
      <4>1. 0 \in 0 .. DetectorGap + 1
        OBVIOUS
      <4>2. c \in DetectorTypes /\ c.qualifying = TRUE /\ c.confirmed = span
        BY <2>1, <3>3 DEF DetectorTypes
      <4> HIDE DEF c
      <4>3. QED
        BY <3>4, <4>1, <4>2 DEF Stamped, DetectorTypes, c
    <3>6. detectorFired' <=> span >= ConfirmTime
      <4>1. CASE counts
        <5>1. r.confirmed = detectorWatch.span /\ r.age = d
          BY <2>1, <4>1 DEF DetectorInv, DetectorAgreement
        <5>2. detectorFired' <=> detectorWatch.span + d >= ConfirmTime
          BY <2>2, <3>1, <4>1, <5>1 DEF DetectorFires
        <5>3. QED
          <6>1. span = Saturate(detectorWatch.span + d, ConfirmTime)
            BY <4>1
          <6>2. detectorWatch.span \in Nat
            BY DEF DetectorInv, TypeOKDetector
          <6>3. QED
            BY <5>2, <6>1, <6>2 DEF Saturate
      <4>2. CASE ~counts
        <5>1. span = 0
          BY <4>2
        <5>2. ~detectorFired'
          BY <2>2, <3>1, <4>2 DEF DetectorFires
        <5>3. QED
          BY <5>1, <5>2
      <4>3. QED
        BY <4>1, <4>2
    <3>7. detectorFired' \in BOOLEAN
      BY <2>2 DEF DetectorFires
    <3>8. detectorWatch' \in [fallen: BOOLEAN, span: 0 .. ConfirmTime]
      BY <3>2, <3>3
    <3>9. TypeOKDetector'
      BY <3>5, <3>7, <3>8 DEF TypeOKDetector
    <3>10. DetectorAgreement'
      BY <3>2, <3>5, <3>6 DEF DetectorAgreement
    <3>11. QED
      BY <3>9, <3>10 DEF DetectorInv
  <2>6. QED
    BY <2>3, <2>4, <2>5 DEF Tilts
<1>4. QED
  BY <1>1, <1>2, <1>3 DEF NextDetector

\* The invariant holds throughout every behaviour of the detector.
THEOREM DetectorSafe == SpecDetector => []DetectorInv
<1>1. InitDetector => DetectorInv
  BY ClearedState DEF InitDetector
<1>2. QED
  BY <1>1, DetectorInductive, PTL DEF SpecDetector

\* Type correctness of the detector, its result and the observer.
THEOREM DetectorTypeOK == SpecDetector => []TypeOKDetector
<1>1. DetectorInv => TypeOKDetector
  BY DEF DetectorInv
<1>2. QED
  BY <1>1, DetectorSafe, PTL

\* A fall is confirmed only when it was observed throughout ConfirmTime.
THEOREM ConfirmationWasObserved == SpecDetector => []ConfirmsOnlyObservedFall
<1>1. DetectorInv => ConfirmsOnlyObservedFall
  BY DEF DetectorInv, DetectorAgreement, ConfirmsOnlyObservedFall
<1>2. QED
  BY <1>1, DetectorSafe, PTL

\* A fall observed throughout ConfirmTime is confirmed.
THEOREM ObservationIsConfirmed == SpecDetector => []ObservedFallConfirmed
<1>1. DetectorInv => ObservedFallConfirmed
  BY GetUpConfigAssumption
     DEF DetectorInv, DetectorAgreement, TypeOKDetector, ObservedFallConfirmed
<1>2. QED
  BY <1>1, DetectorSafe, PTL

\* The detector reports exactly the falls it observed for the whole time.
THEOREM ConfirmationsExact == SpecDetector => []ConfirmationsAreExact
<1>1. ConfirmsOnlyObservedFall /\ ObservedFallConfirmed => ConfirmationsAreExact
  BY DEF ConfirmationsAreExact
<1>2. QED
  BY <1>1, ConfirmationWasObserved, ObservationIsConfirmed, PTL

-----------------------------------------------------------------------------
(* The recovery monitor                                                    *)

\* While it runs the monitor has counted what the observer has.  Its stable time
\* also holds the interval before the first stable sample, at most SampleGap.
Counting ==
    monitor.outcome = "running" =>
        /\ monitor.elapsed = monitorWatch.since /\ monitorWatch.since < RecoveryTimeout
        /\ monitor.failures = monitorWatch.unhealthy /\ monitorWatch.unhealthy < MaxFailures
        /\ monitor.stable <= monitorWatch.span + SampleGap
        /\ ~monitorWatch.stable => monitor.stable = 0

\* A decision was taken for its cause.
Deciding ==
    /\ SucceedsOnlyWhenStable
    /\ FailsForCause

MonitorInv == TypeOKMonitor /\ Counting /\ Deciding

\* A monitor that has been reset, and the observer with it.
LEMMA FreshMonitor ==
    monitor = MonitorInit /\ monitorWatch = NothingSampled => MonitorInv
<1> USE GetUpConfigAssumption
<1> SUFFICES ASSUME monitor = MonitorInit, monitorWatch = NothingSampled
             PROVE  MonitorInv
  OBVIOUS
<1>1. MonitorInit \in MonitorTypes
  BY DEF MonitorInit, MonitorTypes, Outcomes, Reasons
<1>2. NothingSampled \in [stable: BOOLEAN, span: Nat, unhealthy: Nat, since: Nat]
  BY DEF NothingSampled
<1>3. TypeOKMonitor
  BY <1>1, <1>2 DEF TypeOKMonitor
<1>4. Counting
  BY DEF Counting, MonitorInit, NothingSampled
<1>5. Deciding
  BY DEF Deciding, SucceedsOnlyWhenStable, FailsForCause, MonitorInit
<1>6. QED
  BY <1>3, <1>4, <1>5 DEF MonitorInv

\* Every sample preserves the invariant: it decides the recovery for a cause, or
\* it is counted within the limits.
LEMMA UpdateInductive ==
    ASSUME MonitorInv, NEW s \in Samples, NEW dt \in 0 .. SampleGap + 1,
           UpdateMonitor(s, dt)
    PROVE  MonitorInv'
<1> USE GetUpConfigAssumption
<1> DEFINE stable == IF StableSample(s) /\ dt <= SampleGap
                     THEN monitor.stable + dt ELSE 0
           failures == IF s.healthy THEN 0 ELSE monitor.failures + 1
           elapsed == monitor.elapsed + dt
           counted == [monitor EXCEPT !.elapsed = elapsed, !.stable = stable,
                                      !.failures = failures]
<1>1. /\ monitor \in MonitorTypes /\ monitor.outcome = "running"
      /\ monitor.reason = "none" /\ dt \in Nat
      /\ s.healthy \in BOOLEAN
      /\ monitorWatch \in [stable: BOOLEAN, span: Nat, unhealthy: Nat, since: Nat]
  BY DEF UpdateMonitor, MonitorInv, TypeOKMonitor, Deciding, FailsForCause, MonitorTypes,
         Reasons, Samples
<1>2. /\ monitor.elapsed = monitorWatch.since
      /\ monitor.failures = monitorWatch.unhealthy /\ monitorWatch.unhealthy < MaxFailures
      /\ monitor.stable <= monitorWatch.span + SampleGap
      /\ ~monitorWatch.stable => monitor.stable = 0
  BY <1>1 DEF MonitorInv, Counting
<1>3. /\ monitor' = MonitorNext(monitor, s, dt)
      /\ monitorWatch'.stable = (StableSample(s) /\ dt <= SampleGap)
      /\ monitorWatch'.span = IF StableSample(s) /\ monitorWatch.stable /\ dt <= SampleGap
                       THEN monitorWatch.span + dt ELSE 0
      /\ monitorWatch'.unhealthy = IF s.healthy THEN 0 ELSE monitorWatch.unhealthy + 1
      /\ monitorWatch'.since = monitorWatch.since + dt
  BY DEF UpdateMonitor
<1>4. monitorWatch' \in [stable: BOOLEAN, span: Nat, unhealthy: Nat, since: Nat]
  <2>1. (StableSample(s) /\ dt <= SampleGap) \in BOOLEAN
    BY DEF StableSample
  <2>2. QED
    BY <1>1, <2>1 DEF UpdateMonitor
<1>5. stable \in Nat /\ elapsed \in Nat /\ failures \in 0 .. MaxFailures
  BY <1>1, <1>2 DEF MonitorTypes
<1>6. /\ counted \in MonitorTypes
      /\ counted.outcome = "running" /\ counted.reason = "none"
      /\ counted.elapsed = elapsed /\ counted.stable = stable
      /\ counted.failures = failures
  BY <1>1, <1>5 DEF MonitorTypes
<1>7. /\ elapsed = monitorWatch'.since /\ failures = monitorWatch'.unhealthy
      /\ stable <= monitorWatch'.span + SampleGap
      /\ ~monitorWatch'.stable => stable = 0
  <2>1. stable <= monitorWatch'.span + SampleGap
    <3>1. CASE StableSample(s) /\ dt <= SampleGap /\ monitorWatch.stable
      BY <1>1, <1>2, <1>3, <3>1 DEF MonitorTypes
    <3>2. CASE StableSample(s) /\ dt <= SampleGap /\ ~monitorWatch.stable
      BY <1>1, <1>2, <1>3, <3>2
    <3>3. CASE ~(StableSample(s) /\ dt <= SampleGap)
      BY <1>3, <3>3
    <3>4. QED
      BY <3>1, <3>2, <3>3
  <2>2. QED
    BY <1>2, <1>3, <2>1
<1> HIDE DEF stable, failures, elapsed
<1>8. CASE ~ValidSample(s, dt)
  <2>1. monitor' = Fail(monitor, "invalid_input")
    BY <1>1, <1>3, <1>8 DEF MonitorNext
  <2>2. /\ monitor' \in MonitorTypes
        /\ monitor'.outcome = "failed" /\ monitor'.reason = "invalid_input"
    BY <1>1, <2>1 DEF Fail, MonitorTypes, Outcomes, Reasons
  <2>3. QED
    BY <1>4, <2>2 DEF MonitorInv, TypeOKMonitor, Counting, Deciding, FailsForCause,
                     SucceedsOnlyWhenStable
<1>9. CASE ValidSample(s, dt)
  <2>1. monitor' = MonitorSample(monitor, s, dt)
    BY <1>1, <1>3, <1>9 DEF MonitorNext
  <2>2. monitor' =
          CASE failures >= MaxFailures -> Fail(counted, "inference")
            [] s.healthy /\ stable >= StableTime ->
                  [counted EXCEPT !.outcome = "succeeded"]
            [] failures < MaxFailures /\ stable < StableTime
                 /\ elapsed >= RecoveryTimeout -> Fail(counted, "timeout")
            [] OTHER -> counted
    BY <1>6, <2>1 DEF MonitorSample, stable, failures, elapsed
  <2>3. CASE failures >= MaxFailures
    <3>1. monitor' = Fail(counted, "inference")
      <4>1. ~s.healthy
        BY <2>3 DEF failures
      <4>2. QED
        BY <1>5, <2>2, <2>3, <4>1
    <3>2. /\ monitor' \in MonitorTypes
          /\ monitor'.outcome = "failed" /\ monitor'.reason = "inference"
      BY <1>6, <3>1 DEF Fail, MonitorTypes, Outcomes, Reasons
    <3>3. QED
      BY <1>4, <1>7, <2>3, <3>2 DEF MonitorInv, TypeOKMonitor, Counting, Deciding,
                                   FailsForCause, SucceedsOnlyWhenStable
  <2>4. CASE failures < MaxFailures /\ stable >= StableTime
    <3>1. StableSample(s) /\ dt <= SampleGap
      BY <2>4 DEF stable
    <3>2. monitor' = [counted EXCEPT !.outcome = "succeeded"]
      BY <1>5, <2>2, <2>4, <3>1 DEF StableSample
    <3>3. /\ monitor' \in MonitorTypes
          /\ monitor'.outcome = "succeeded" /\ monitor'.reason = "none"
      BY <1>6, <3>2 DEF MonitorTypes, Outcomes
    <3>4. monitorWatch'.stable /\ monitorWatch'.span + SampleGap >= StableTime
      BY <1>3, <1>4, <1>5, <1>7, <2>4, <3>1
    <3>5. QED
      BY <1>4, <3>3, <3>4 DEF MonitorInv, TypeOKMonitor, Counting, Deciding,
                              FailsForCause, SucceedsOnlyWhenStable
  <2>5. CASE failures < MaxFailures /\ stable < StableTime
               /\ elapsed >= RecoveryTimeout
    <3>1. monitor' = Fail(counted, "timeout")
      BY <1>5, <2>2, <2>5
    <3>2. /\ monitor' \in MonitorTypes
          /\ monitor'.outcome = "failed" /\ monitor'.reason = "timeout"
      BY <1>6, <3>1 DEF Fail, MonitorTypes, Outcomes, Reasons
    <3>3. QED
      BY <1>4, <1>7, <2>5, <3>2 DEF MonitorInv, TypeOKMonitor, Counting, Deciding,
                                   FailsForCause, SucceedsOnlyWhenStable
  <2>6. CASE failures < MaxFailures /\ stable < StableTime
               /\ elapsed < RecoveryTimeout
    <3>1. monitor' = counted
      BY <1>5, <2>2, <2>6
    <3>2. /\ monitor' \in MonitorTypes
          /\ monitor'.outcome = "running" /\ monitor'.reason = "none"
          /\ monitor'.elapsed = elapsed /\ monitor'.stable = stable
          /\ monitor'.failures = failures
      BY <1>6, <3>1
    <3>3. QED
      BY <1>4, <1>7, <2>6, <3>2 DEF MonitorInv, TypeOKMonitor, Counting, Deciding,
                                   FailsForCause, SucceedsOnlyWhenStable
  <2>7. QED
    BY <1>5, <2>3, <2>4, <2>5, <2>6
<1>10. QED
  BY <1>8, <1>9

\* The invariant holds throughout every recovery, and every next one.
THEOREM MonitorSafe == SpecMonitor => []MonitorInv
<1>1. InitMonitor => MonitorInv
  BY FreshMonitor DEF InitMonitor
<1>2. MonitorInv /\ [NextMonitor]_monitorVars => MonitorInv'
  <2> SUFFICES ASSUME MonitorInv, [NextMonitor]_monitorVars PROVE MonitorInv'
    OBVIOUS
  <2>1. CASE ResetMonitor
    <3>1. (monitor = MonitorInit /\ monitorWatch = NothingSampled => MonitorInv)'
      BY FreshMonitor, PTL
    <3>2. QED
      BY <2>1, <3>1 DEF ResetMonitor
  <2>2. CASE UNCHANGED monitorVars
    BY <2>2 DEF monitorVars, MonitorInv, TypeOKMonitor, Counting, Deciding, FailsForCause,
                SucceedsOnlyWhenStable
  <2>3. ASSUME NEW s \in Samples, NEW dt \in 0 .. SampleGap + 1, UpdateMonitor(s, dt)
        PROVE  MonitorInv'
    BY <2>3, UpdateInductive
  <2>4. QED
    BY <2>1, <2>2, <2>3 DEF NextMonitor
<1>3. QED
  BY <1>1, <1>2, PTL DEF SpecMonitor

\* Type correctness of the monitor and the observer.
THEOREM MonitorTypeOK == SpecMonitor => []TypeOKMonitor
<1>1. MonitorInv => TypeOKMonitor
  BY DEF MonitorInv
<1>2. QED
  BY <1>1, MonitorSafe, PTL

\* GetUp hands over only a robot seen upright and still throughout StableTime.
THEOREM SuccessWasStable == SpecMonitor => []SucceedsOnlyWhenStable
<1>1. MonitorInv => SucceedsOnlyWhenStable
  BY DEF MonitorInv, Deciding
<1>2. QED
  BY <1>1, MonitorSafe, PTL

\* A recovery is given up for inference or for its duration only when it has
\* exceeded that limit.
THEOREM FailureHadCause == SpecMonitor => []FailsForCause
<1>1. MonitorInv => FailsForCause
  BY DEF MonitorInv, Deciding
<1>2. QED
  BY <1>1, MonitorSafe, PTL

\* An undecided recovery is within both limits.
THEOREM RunningIsWithinLimits == SpecMonitor => []RunsWithinLimits
<1>1. MonitorInv => RunsWithinLimits
  BY DEF MonitorInv, Counting, RunsWithinLimits
<1>2. QED
  BY <1>1, MonitorSafe, PTL

\* A recovery is decided for its reason and in time.
THEOREM DecisionHadCause == SpecMonitor => []DecidesForCause
<1>1. SucceedsOnlyWhenStable /\ FailsForCause /\ RunsWithinLimits => DecidesForCause
  BY DEF DecidesForCause
<1>2. QED
  BY <1>1, SuccessWasStable, FailureHadCause, RunningIsWithinLimits, PTL

-----------------------------------------------------------------------------
(* The single-step control.  The inductive invariant SafeStep says of the    *)
(* controller alone how its fields go together (Shape): an active step has   *)
(* made as much progress as time has passed, an armed one has not waited     *)
(* longer than its half cycle has lasted; and how it goes together with the  *)
(* environment (Outside).                                                    *)


\* Policy steps since the half cycle began.
InHalf(p) == IF p < Half THEN p ELSE p - Half

Shape(c) ==
    /\ c.state \in {"armed", "active"} => c.latched.direction \in Directions
    /\ c.state = "active" =>
          /\ c.command = c.latched.direction
          /\ c.progress = c.timer /\ c.progress <= Advance /\ c.timer < ActiveTimeout
    /\ c.state \in {"armed", "wait_release", "aborted"} => c.command = "zero"
    /\ c.state = "idle" => c.command \in {"zero", "stick"}
    /\ c.state = "armed" => c.timer <= InHalf(c.phase)
    /\ ArmedTimeout >= Half => c.reason # "armed_timeout"
    /\ ActiveTimeout > Advance => c.reason # "active_timeout"

Outside ==
    /\ on => phase = AdvancedPhase(ctl.phase)
    /\ ~on => ctl.state \in {"idle", "aborted"} /\ ctl.command = "zero"
    /\ on /\ ctl.state = "idle" => released
    /\ snapshot.linear = ctl.command
    /\ ctl.state = "aborted" => snapshot.yaw = "none"
    /\ burst = IF ctl.state = "active" THEN ctl.progress + 1 ELSE 0
    /\ ctl.state \in {"armed", "active"} =>
          /\ asked.direction = ctl.latched.direction
          /\ ctl.latched.level =
                IF asked.direction = "up" THEN asked.level ELSE "medium"

SafeStep == TypeOK /\ Shape(ctl) /\ Outside

-----------------------------------------------------------------------------
(* The controller alone *)

\* The values an update writes are of their types.
LEMMA Names ==
    /\ States = {"idle", "armed", "active", "wait_release", "aborted"}
    /\ "none" \in AbortReasons
    /\ "zero" \in Linear /\ "stick" \in Linear /\ Directions \subseteq Linear
    /\ NoRequest \in Requests
  BY DEF States, AbortReasons, Linear, NoRequest, Requests, Levels

\* An aborted controller, and a reset one, are well shaped.
LEMMA AbortShape ==
    ASSUME NEW c \in Controllers, NEW reason \in AbortReasons, Shape(c),
           reason = "armed_timeout" => ArmedTimeout < Half,
           reason = "active_timeout" => ActiveTimeout <= Advance
    PROVE  /\ Abort(c, reason) \in Controllers /\ Shape(Abort(c, reason))
           /\ Abort(c, reason).state = "aborted" /\ Abort(c, reason).phase = c.phase
           /\ Abort(c, reason).command = "zero"
<1> DEFINE a == Abort(c, reason)
<1>1. NoRequest \in Requests
  BY DEF NoRequest, Requests, Levels
<1>2. /\ a.state = "aborted" /\ a.reason = reason /\ a.phase = c.phase
      /\ a.command = "zero"
  BY DEF Abort, Controllers
<1>3. a \in Controllers
  BY <1>1, Names DEF Abort, Controllers
<1> HIDE DEF a
<1>4. Shape(a)
  BY <1>2, SingleStepAssumption DEF Shape
<1>5. QED
  BY <1>2, <1>3, <1>4 DEF a

LEMMA ResetShape ==
    ASSUME NEW dpad \in SUBSET Directions
    PROVE  /\ ResetTo(dpad) \in Controllers /\ Shape(ResetTo(dpad))
           /\ ResetTo(dpad).state = IF dpad = {} THEN "idle" ELSE "wait_release"
           /\ ResetTo(dpad).phase = 0 /\ ResetTo(dpad).command = "zero"
<1> DEFINE c == ResetTo(dpad)
<1>1. NoRequest \in Requests
  BY DEF NoRequest, Requests, Levels
<1>2. /\ c.state = IF dpad = {} THEN "idle" ELSE "wait_release"
      /\ c.reason = "none" /\ c.phase = 0 /\ c.command = "zero"
  BY DEF ResetTo
<1>3. 0 \in Phases
  BY SingleStepAssumption DEF Phases
<1>4. c \in Controllers
  BY <1>1, <1>3, Names DEF ResetTo, Controllers
<1> HIDE DEF c
<1>5. Shape(c)
  BY <1>2 DEF Shape
<1>6. QED
  BY <1>2, <1>4, <1>5 DEF c

\* From Idle: a step is armed for the one direction that is pressed, or the stick
\* passes through.
LEMMA IdleShape ==
    ASSUME NEW c \in Controllers, Shape(c), c.state = "idle",
           NEW dpad \in SUBSET Directions, NEW l \in Levels
    PROVE  LET u == FromIdle(c, dpad, l)
           IN  /\ u \in Controllers /\ Shape(u)
               /\ u.phase = c.phase
               /\ \/ u.state = "idle"
                  \/ /\ u.state = "armed" /\ dpad = {u.latched.direction}
                     /\ u.timer = 0
                     /\ u.latched.level =
                           IF u.latched.direction = "up" THEN l ELSE "medium"
<1>1. CASE \E d \in Directions : Pressed(c, dpad, d)
  <2> DEFINE pick == CHOOSE d \in Directions : Pressed(c, dpad, d)
  <2>1. pick \in Directions /\ dpad = {pick}
    BY <1>1 DEF Pressed
  <2>2. FromIdle(c, dpad, l) = Arm(c, pick, l)
    BY <1>1 DEF FromIdle
  <2> HIDE DEF pick
  <2>3. c.phase \in Phases
    BY DEF Controllers
  <2>4. 0 <= InHalf(c.phase)
    BY <2>3, SingleStepAssumption DEF InHalf, Phases
  <2> DEFINE lev == IF pick = "up" THEN l ELSE "medium"
             request == [direction |-> pick, level |-> lev]
             u == [c EXCEPT !.state = "armed", !.timer = 0, !.progress = 0,
                            !.command = "zero", !.latched = request]
  <2>5. request \in Requests
    BY <2>1 DEF Requests, Levels
  <2>6. Arm(c, pick, l) = u
    BY DEF Arm
  <2>7. request.direction = pick /\ request.level = lev
    OBVIOUS
  <2> HIDE DEF request
  <2>8. /\ u.state = "armed" /\ u.timer = 0 /\ u.command = "zero"
        /\ u.latched = request /\ u.phase = c.phase /\ u.reason = c.reason
    BY DEF Controllers
  <2>9. u \in Controllers
    BY <2>5, Names DEF Controllers
  <2> HIDE DEF u
  <2>10. Shape(u)
    BY <2>1, <2>4, <2>7, <2>8 DEF Shape
  <2>11. QED
    BY <2>1, <2>2, <2>6, <2>7, <2>8, <2>9, <2>10
<1>2. CASE ~ \E d \in Directions : Pressed(c, dpad, d)
  BY <1>2 DEF FromIdle, Controllers, Shape, Linear
<1>3. QED
  BY <1>1, <1>2

\* From Armed: the step begins with the half cycle, or goes on waiting, for no
\* longer than the half cycle has lasted, or is aborted by its timeout.
LEMMA ArmedShape ==
    ASSUME NEW c \in Controllers, Shape(c), c.state = "armed",
           NEW p \in Phases, p = AdvancedPhase(c.phase)
    PROVE  LET u == FromArmed(c, p)
           IN  /\ u \in Controllers /\ Shape([u EXCEPT !.phase = p])
               /\ \/ u.state = "aborted"
                  \/ u.state = "armed" /\ u.latched = c.latched
                  \/ /\ u.state = "active" /\ u.latched = c.latched
                     /\ u.progress = 0 /\ p \in {0, Half}
<1>0. c.phase \in Phases /\ c.timer \in Nat /\ c.timer <= InHalf(c.phase)
  BY DEF Controllers, Shape
<1>1. CASE HalfOf(c.phase) # HalfOf(p)
  <2>1. p \in {0, Half}
    BY <1>0, <1>1, SingleStepAssumption DEF HalfOf, AdvancedPhase, Phases
  <2> DEFINE u == [c EXCEPT !.state = "active", !.progress = 0, !.timer = 0,
                            !.half = HalfOf(p), !.command = c.latched.direction]
             v == [u EXCEPT !.phase = p]
  <2>2. FromArmed(c, p) = u
    BY <1>1 DEF FromArmed
  <2>3. c.latched.direction \in Directions /\ HalfOf(p) \in {"first", "second"}
    BY DEF Shape, HalfOf
  <2>4. u \in Controllers
    BY <2>3, Names DEF Controllers
  <2>5. /\ u.state = "active" /\ u.latched = c.latched /\ u.progress = 0
        /\ u.timer = 0 /\ u.command = c.latched.direction /\ u.reason = c.reason
    BY DEF Controllers
  <2> HIDE DEF u
  <2>6. /\ v.state = "active" /\ v.latched = c.latched /\ v.progress = 0
        /\ v.timer = 0 /\ v.command = c.latched.direction /\ v.reason = c.reason
    BY <2>4, <2>5 DEF Controllers
  <2> HIDE DEF v
  <2>7. Shape(v)
    BY <2>3, <2>6, SingleStepAssumption DEF Shape
  <2>8. QED
    BY <2>1, <2>2, <2>4, <2>5, <2>7 DEF v
<1>2. CASE HalfOf(c.phase) = HalfOf(p) /\ c.timer + 1 >= ArmedTimeout
  <2>1. FromArmed(c, p) = Abort(c, "armed_timeout")
    BY <1>2 DEF FromArmed
  <2>2. c.timer + 1 <= InHalf(p) /\ InHalf(p) < Half
    BY <1>0, <1>2, SingleStepAssumption DEF HalfOf, InHalf, AdvancedPhase, Phases
  <2>3. ArmedTimeout < Half
    BY <1>0, <1>2, <2>2, SingleStepAssumption DEF InHalf, Phases
  <2>4. Abort(c, "armed_timeout") \in Controllers
        /\ Abort(c, "armed_timeout").state = "aborted"
        /\ Shape(Abort(c, "armed_timeout"))
    BY <2>3, SingleStepAssumption, AbortShape DEF AbortReasons
  <2>5. QED
    BY <2>1, <2>4 DEF Shape, Controllers
<1>3. CASE HalfOf(c.phase) = HalfOf(p) /\ ~(c.timer + 1 >= ArmedTimeout)
  <2> DEFINE u == [c EXCEPT !.timer = c.timer + 1, !.command = "zero"]
             v == [u EXCEPT !.phase = p]
  <2>1. FromArmed(c, p) = u
    BY <1>3 DEF FromArmed
  <2>2. c.timer + 1 <= InHalf(p) /\ c.timer + 1 \in Nat
    BY <1>0, <1>3, SingleStepAssumption DEF HalfOf, InHalf, AdvancedPhase, Phases
  <2>3. u \in Controllers
    BY <2>2, Names DEF Controllers
  <2>4. /\ u.state = "armed" /\ u.latched = c.latched /\ u.timer = c.timer + 1
        /\ u.command = "zero" /\ u.reason = c.reason
    BY DEF Controllers
  <2> HIDE DEF u
  <2>5. /\ v.state = "armed" /\ v.latched = c.latched /\ v.timer = c.timer + 1
        /\ v.command = "zero" /\ v.reason = c.reason /\ v.phase = p
    BY <2>3, <2>4 DEF Controllers
  <2> HIDE DEF v
  <2>6. Shape(v)
    BY <2>2, <2>5 DEF Shape
  <2>7. QED
    BY <2>1, <2>3, <2>4, <2>6 DEF v
<1>4. QED
  BY <1>1, <1>2, <1>3

\* From Active: the step goes on, one policy step further and still below its
\* bounds, or it is complete, having made its advance, or is aborted.
LEMMA ActiveShape ==
    ASSUME NEW c \in Controllers, Shape(c), c.state = "active",
           NEW p \in Phases, p = AdvancedPhase(c.phase), NEW rounded \in BOOLEAN
    PROVE  LET u == FromActive(c, p, rounded)
           IN  /\ u \in Controllers /\ Shape([u EXCEPT !.phase = p])
               /\ \/ u.state = "aborted"
                  \/ u.state = "wait_release" /\ c.progress + 1 >= Advance
                  \/ /\ u.state = "active" /\ u.latched = c.latched
                     /\ u.progress = c.progress + 1
<1> DEFINE moved == [c EXCEPT !.progress = c.progress + Passed(c.phase, p)]
<1>1. Passed(c.phase, p) = 1
  <2>1. c.phase \in Phases
    BY DEF Controllers
  <2>2. QED
    BY <2>1, SingleStepAssumption DEF Passed, AdvancedPhase, Phases
<1>2. /\ moved \in Controllers /\ moved.progress = c.progress + 1
      /\ moved.state = "active" /\ moved.timer = c.timer
      /\ moved.command = c.command /\ moved.latched = c.latched
      /\ moved.phase = c.phase /\ moved.reason = c.reason
  BY <1>1 DEF Controllers
<1>3. /\ c.latched.direction \in Directions /\ c.command = c.latched.direction
      /\ c.progress = c.timer /\ c.timer \in Nat
      /\ ArmedTimeout >= Half => c.reason # "armed_timeout"
      /\ ActiveTimeout > Advance => c.reason # "active_timeout"
  BY DEF Shape, Controllers
<1>4. CASE Reaches(moved.progress, rounded)
  <2> DEFINE u == [moved EXCEPT !.state = "wait_release", !.timer = 0,
                                !.command = "zero"]
             v == [u EXCEPT !.phase = p]
  <2>1. FromActive(c, p, rounded) = u
    BY <1>4 DEF FromActive
  <2> HIDE DEF moved
  <2>2. /\ u.state = "wait_release" /\ u.command = "zero" /\ u.reason = c.reason
        /\ u \in Controllers
    BY <1>2, Names DEF Controllers
  <2>3. c.progress + 1 >= Advance
    BY <1>2, <1>3, <1>4, SingleStepAssumption DEF Reaches
  <2> HIDE DEF u
  <2>4. v.state = "wait_release" /\ v.command = "zero" /\ v.reason = c.reason
    BY <2>2 DEF Controllers
  <2> HIDE DEF v
  <2>5. Shape(v)
    BY <1>3, <2>4 DEF Shape
  <2>6. QED
    BY <2>1, <2>2, <2>3, <2>5 DEF v
<1>5. CASE ~Reaches(moved.progress, rounded) /\ c.timer + 1 >= ActiveTimeout
  <2> DEFINE u == Abort(moved, "active_timeout")
             v == [u EXCEPT !.phase = p]
  <2>1. FromActive(c, p, rounded) = u
    BY <1>5 DEF FromActive
  <2> HIDE DEF moved
  <2>2. c.progress + 1 <= Advance
    BY <1>2, <1>3, <1>5, SingleStepAssumption DEF Reaches
  <2>3. ActiveTimeout <= Advance
    BY <1>3, <1>5, <2>2, SingleStepAssumption
  <2>4. /\ u.state = "aborted" /\ u.reason = "active_timeout"
        /\ u.command = "zero" /\ u \in Controllers
    <3>1. "active_timeout" \in AbortReasons
      BY DEF AbortReasons
    <3>2. QED
      BY <1>2, <3>1, Names DEF Abort, Controllers
  <2> HIDE DEF u
  <2>5. v.state = "aborted" /\ v.reason = "active_timeout" /\ v.command = "zero"
    BY <2>4 DEF Controllers
  <2> HIDE DEF v
  <2>6. Shape(v)
    BY <2>3, <2>5, SingleStepAssumption DEF Shape
  <2>7. QED
    BY <2>1, <2>4, <2>6 DEF v
<1>6. CASE ~Reaches(moved.progress, rounded) /\ ~(c.timer + 1 >= ActiveTimeout)
  <2> DEFINE u == [moved EXCEPT !.timer = c.timer + 1]
             v == [u EXCEPT !.phase = p]
  <2>1. FromActive(c, p, rounded) = u
    BY <1>6 DEF FromActive
  <2> HIDE DEF moved
  <2>2. c.progress + 1 <= Advance /\ c.timer + 1 < ActiveTimeout
    BY <1>2, <1>3, <1>6, SingleStepAssumption DEF Reaches
  <2>3. /\ u.state = "active" /\ u.latched = c.latched /\ u.timer = c.timer + 1
        /\ u.progress = c.progress + 1 /\ u.command = c.command
        /\ u.reason = c.reason /\ u \in Controllers
    BY <1>2, <1>3 DEF Controllers
  <2> HIDE DEF u
  <2>4. /\ v.state = "active" /\ v.latched = c.latched /\ v.timer = c.timer + 1
        /\ v.progress = c.progress + 1 /\ v.command = c.command
        /\ v.reason = c.reason
    BY <2>3 DEF Controllers
  <2> HIDE DEF v
  <2>5. Shape(v)
    BY <1>3, <2>2, <2>4 DEF Shape
  <2>6. QED
    BY <2>1, <2>3, <2>5 DEF v
<1>7. QED
  BY <1>4, <1>5, <1>6

\* From WaitRelease and Aborted: idle if the D-pad is released, else no command.
LEMMA WaitingShape ==
    ASSUME NEW c \in Controllers, Shape(c),
           c.state \in {"wait_release", "aborted"}, NEW dpad \in SUBSET Directions
    PROVE  LET u == FromWaiting(c, dpad)
           IN  /\ u \in Controllers /\ Shape(u)
               /\ u.state = IF dpad = {} THEN "idle" ELSE c.state
<1> DEFINE u == FromWaiting(c, dpad)
<1>1. CASE dpad = {}
  <2>1. NoRequest \in Requests
    BY DEF NoRequest, Requests, Levels
  <2>2. /\ u.state = "idle" /\ u.command = "stick" /\ u.reason = "none"
        /\ u \in Controllers
    BY <1>1, <2>1, Names DEF FromWaiting, Controllers
  <2> HIDE DEF u
  <2>3. Shape(u)
    BY <2>2 DEF Shape
  <2>4. QED
    BY <1>1, <2>2, <2>3 DEF u
<1>2. CASE dpad # {}
  <2>1. /\ u.state = c.state /\ u.command = "zero" /\ u.reason = c.reason
        /\ u \in Controllers
    BY <1>2, Names DEF FromWaiting, Controllers
  <2> HIDE DEF u
  <2>2. Shape(u)
    BY <2>1 DEF Shape
  <2>3. QED
    BY <1>2, <2>1, <2>2 DEF u
<1>3. QED
  BY <1>1, <1>2

-----------------------------------------------------------------------------
(* The whole update *)

\* What one update may do to the controller: c becomes u.
Moves(c, u, dpad, p, l) ==
    \/ /\ u.state = "idle" /\ c.state \in {"idle", "wait_release", "aborted"}
       /\ c.state = "idle" \/ dpad = {}
    \/ /\ u.state = "armed" /\ c.state = "idle" /\ dpad = {u.latched.direction}
       /\ u.latched.level = IF u.latched.direction = "up" THEN l ELSE "medium"
    \/ u.state = "armed" /\ c.state = "armed" /\ u.latched = c.latched
    \/ /\ u.state = "active" /\ c.state = "armed" /\ u.latched = c.latched
       /\ u.progress = 0 /\ p \in {0, Half}
    \/ /\ u.state = "active" /\ c.state = "active" /\ u.latched = c.latched
       /\ u.progress = c.progress + 1
    \/ u.state = "wait_release" /\ c.state = "active" /\ c.progress + 1 >= Advance
    \/ u.state = "wait_release" /\ c.state = "wait_release"
    \/ u.state = "aborted" /\ c.state # "idle"

LEMMA UpdateShape ==
    ASSUME NEW c \in Controllers, Shape(c), NEW p \in Phases,
           p = AdvancedPhase(c.phase), NEW dpad \in SUBSET Directions,
           NEW l \in Levels, NEW rounded \in BOOLEAN
    PROVE  LET u == Update(c, dpad, p, l, rounded)
           IN  /\ u \in Controllers /\ Shape(u) /\ u.phase = p
               /\ Moves(c, u, dpad, p, l)
<1> DEFINE next == CASE c.state = "idle" -> FromIdle(c, dpad, l)
                     [] c.state = "armed" -> FromArmed(c, p)
                     [] c.state = "active" -> FromActive(c, p, rounded)
                     [] OTHER -> FromWaiting(c, dpad)
           v == [next EXCEPT !.phase = p]
           u == [next EXCEPT !.phase = p, !.dpad = dpad]
<1>1. Update(c, dpad, p, l, rounded) = u
  BY DEF Update
<1>2. c.state \in States /\ 0 <= InHalf(p)
  BY SingleStepAssumption DEF Controllers, InHalf, Phases
<1>3. next \in Controllers /\ Shape(v) /\ Moves(c, next, dpad, p, l)
  <2>1. CASE c.state = "idle"
    <3>1. next = FromIdle(c, dpad, l)
      BY <2>1
    <3> HIDE DEF next
    <3>2. /\ next \in Controllers /\ Shape(next)
          /\ \/ next.state = "idle"
             \/ /\ next.state = "armed" /\ dpad = {next.latched.direction}
                /\ next.timer = 0
                /\ next.latched.level =
                      IF next.latched.direction = "up" THEN l ELSE "medium"
      BY <2>1, <3>1, IdleShape
    <3>3. /\ v.state = next.state /\ v.timer = next.timer /\ v.phase = p
          /\ v.command = next.command /\ v.latched = next.latched
          /\ v.reason = next.reason
      BY <3>2 DEF Controllers
    <3> HIDE DEF v
    <3>4. Shape(v)
      BY <1>2, <3>2, <3>3 DEF Shape
    <3>5. QED
      BY <2>1, <3>2, <3>4 DEF Moves
  <2>2. CASE c.state = "armed"
    <3>1. next = FromArmed(c, p)
      BY <2>2
    <3> HIDE DEF next
    <3>2. QED
      BY <2>2, <3>1, ArmedShape DEF Moves
  <2>3. CASE c.state = "active"
    <3>1. next = FromActive(c, p, rounded)
      BY <2>3
    <3> HIDE DEF next
    <3>2. QED
      BY <2>3, <3>1, ActiveShape DEF Moves
  <2>4. CASE c.state \in {"wait_release", "aborted"}
    <3>1. next = FromWaiting(c, dpad)
      BY <2>4
    <3> HIDE DEF next
    <3>2. /\ next \in Controllers /\ Shape(next)
          /\ next.state = IF dpad = {} THEN "idle" ELSE c.state
      BY <2>4, <3>1, WaitingShape
    <3>3. /\ v.state = next.state /\ v.timer = next.timer /\ v.phase = p
          /\ v.command = next.command /\ v.latched = next.latched
          /\ v.reason = next.reason
      BY <3>2 DEF Controllers
    <3> HIDE DEF v
    <3>4. Shape(v)
      BY <2>4, <3>2, <3>3 DEF Shape
    <3>5. QED
      BY <2>4, <3>2, <3>4 DEF Moves
  <2>5. QED
    BY <1>2, <2>1, <2>2, <2>3, <2>4 DEF States
<1> HIDE DEF next
<1>4. u \in Controllers
  BY <1>3 DEF Controllers
<1>5. /\ u.state = v.state /\ u.timer = v.timer /\ u.phase = p /\ v.phase = p
      /\ u.command = v.command /\ u.latched = v.latched
      /\ u.reason = v.reason /\ u.progress = v.progress
      /\ u.state = next.state /\ u.latched = next.latched
      /\ u.progress = next.progress
  BY <1>3 DEF Controllers
<1> HIDE DEF u, v
<1>6. Shape(u)
  BY <1>3, <1>5 DEF Shape
<1>7. Moves(c, u, dpad, p, l)
  BY <1>3, <1>5 DEF Moves
<1>8. QED
  BY <1>1, <1>4, <1>5, <1>6, <1>7

-----------------------------------------------------------------------------
(* The inductive invariant *)

\* Every height a selector reports is one of its three levels.
LEMMA SelectedType ==
    ASSUME NEW l \in Levels, NEW zone \in Zones
    PROVE  Selected(l, zone) \in Levels
  BY DEF Selected, Levels

LEMMA AdvancedType ==
    ASSUME NEW p \in Phases
    PROVE  AdvancedPhase(p) \in Phases
  BY SingleStepAssumption DEF AdvancedPhase, Phases

\* The direction that armed a step is the only one pressed.
LEMMA OnlyOne ==
    ASSUME NEW d
    PROVE  (CHOOSE x \in {d} : TRUE) = d
  OBVIOUS

\* What a policy step does to the controller, from what is known before it.
LEMMA StepMoves ==
    ASSUME SafeStep, NEW dpad \in SUBSET Directions, NEW zone \in Zones,
           NEW yaw \in Yaws, NEW rounded \in BOOLEAN,
           Step(dpad, zone, yaw, rounded)
    PROVE  /\ ctl' \in Controllers /\ Shape(ctl') /\ ctl'.phase = phase
           /\ level' \in Levels /\ phase \in Phases
           /\ Moves(ctl, ctl', dpad, phase, level')
<1>1. /\ ctl \in Controllers /\ Shape(ctl) /\ phase \in Phases
      /\ phase = AdvancedPhase(ctl.phase) /\ level \in Levels
  BY DEF SafeStep, TypeOK, Outside, Step
<1>2. level' \in Levels
  BY <1>1, SelectedType DEF Step
<1>3. ctl' = Update(ctl, dpad, phase, level', rounded)
  BY DEF Step
<1> DEFINE u == Update(ctl, dpad, phase, level', rounded)
<1>4. /\ u \in Controllers /\ Shape(u) /\ u.phase = phase
      /\ Moves(ctl, u, dpad, phase, level')
  BY <1>1, <1>2, UpdateShape
<1> HIDE DEF u
<1>5. QED
  BY <1>1, <1>2, <1>3, <1>4 DEF u

LEMMA SafeInit == Init => SafeStep
<1> SUFFICES ASSUME Init PROVE SafeStep
  OBVIOUS
<1>1. 0 \in Phases
  BY SingleStepAssumption DEF Phases
<1>2. /\ ctl.state = "idle" /\ ctl.reason = "none" /\ ctl.command = "zero"
      /\ ctl \in Controllers
  BY <1>1, Names DEF Init, Controllers
<1>3. TypeOK
  BY <1>1, <1>2, Names DEF Init, TypeOK, Zero, Levels, Yaws
<1>4. Shape(ctl)
  BY <1>2 DEF Shape
<1>5. Outside
  BY <1>2 DEF Outside, Init, Zero
<1>6. QED
  BY <1>3, <1>4, <1>5 DEF SafeStep

\* A policy step keeps the invariant.
LEMMA SafeTick ==
    ASSUME SafeStep, NEW dpad \in SUBSET Directions, NEW zone \in Zones,
           NEW yaw \in Yaws, NEW rounded \in BOOLEAN,
           Step(dpad, zone, yaw, rounded)
    PROVE  SafeStep'
<1>1. /\ ctl' \in Controllers /\ Shape(ctl') /\ ctl'.phase = phase
      /\ level' \in Levels /\ phase \in Phases
      /\ Moves(ctl, ctl', dpad, phase, level')
  BY StepMoves
<1>2. TypeOK /\ Shape(ctl) /\ Outside
  BY DEF SafeStep
<1>3. /\ ctl.state \in States /\ ctl'.state \in States
      /\ ctl'.command \in Linear
  BY <1>1, <1>2 DEF TypeOK, Controllers
<1>4. /\ on /\ on' = on /\ snapshot' = WithYaw(ctl', yaw)
      /\ phase' = AdvancedPhase(phase)
  BY DEF Step
<1>5. CASE ctl.state = "idle" /\ ctl'.state = "armed"
  <2>1. dpad = {ctl'.latched.direction}
    BY <1>1, <1>5 DEF Moves
  <2>2. asked' = [direction |-> ctl'.latched.direction, level |-> level']
    BY <1>5, <2>1, OnlyOne DEF Step
  <2>3. /\ ctl'.latched.level =
              IF ctl'.latched.direction = "up" THEN level' ELSE "medium"
        /\ ctl'.latched.direction \in Directions
    BY <1>1, <1>5 DEF Moves, Shape
  <2>4. asked' \in Requests
    BY <1>1, <2>2, <2>3 DEF Requests
  <2>5. /\ asked'.direction = ctl'.latched.direction
        /\ ctl'.latched.level =
              IF asked'.direction = "up" THEN asked'.level ELSE "medium"
    BY <2>2, <2>3
  <2>6. ctl'.command = "zero"
    BY <1>1, <1>5 DEF Shape
  <2>7. burst' = 0
    BY <2>6 DEF Step, Directions
  <2>8. released' = FALSE
    BY <1>5 DEF Step
  <2>9. TypeOK'
    BY <1>1, <1>2, <1>3, <1>4, <2>4, <2>7, <2>8, AdvancedType
    DEF TypeOK, WithYaw, Yaws
  <2>10. Outside'
    BY <1>1, <1>4, <1>5, <2>5, <2>6, <2>7 DEF Outside, WithYaw
  <2>11. QED
    BY <1>1, <2>9, <2>10 DEF SafeStep
<1>6. CASE ~(ctl.state = "idle" /\ ctl'.state = "armed")
  <2>1. asked' = asked
    BY <1>6 DEF Step
  <2>2. ctl'.state \in {"armed", "active"} =>
          /\ ctl.state \in {"armed", "active"} /\ ctl'.latched = ctl.latched
    BY <1>1, <1>6 DEF Moves
  <2>3. ctl'.state \in {"armed", "active"} =>
          /\ asked'.direction = ctl'.latched.direction
          /\ ctl'.latched.level =
                IF asked'.direction = "up" THEN asked'.level ELSE "medium"
    BY <1>2, <2>1, <2>2 DEF Outside
  <2>4. burst' = IF ctl'.state = "active" THEN ctl'.progress + 1 ELSE 0
    <3>1. CASE ctl'.state = "active"
      <4>1. ctl'.command \in Directions
        BY <1>1, <3>1 DEF Shape
      <4>2. burst' = burst + 1
        BY <4>1 DEF Step
      <4>3. \/ ctl.state = "armed" /\ ctl'.progress = 0
            \/ ctl.state = "active" /\ ctl'.progress = ctl.progress + 1
        BY <1>1, <3>1 DEF Moves
      <4>4. burst = IF ctl.state = "active" THEN ctl.progress + 1 ELSE 0
        BY <1>2 DEF Outside
      <4>5. QED
        BY <3>1, <4>2, <4>3, <4>4
    <3>2. CASE ctl'.state # "active"
      <4>1. ctl'.command \notin Directions
        BY <1>1, <1>3, <3>2 DEF Shape, States, Directions
      <4>2. QED
        BY <3>2, <4>1 DEF Step
    <3>3. QED
      BY <3>1, <3>2
  <2>5. burst' \in Nat
    BY <1>1, <2>4 DEF Controllers
  <2>6. ctl'.state = "idle" => released'
    <3>1. SUFFICES ASSUME ctl'.state = "idle" PROVE released'
      OBVIOUS
    <3>2. ctl.state = "idle" \/ dpad = {}
      BY <1>1, <3>1 DEF Moves
    <3>3. released \/ dpad = {}
      BY <1>2, <1>4, <3>2 DEF Outside
    <3>4. QED
      BY <3>1, <3>3 DEF Step
  <2>7. released' \in BOOLEAN
    BY DEF Step
  <2>8. TypeOK'
    BY <1>1, <1>2, <1>3, <1>4, <2>1, <2>5, <2>7, AdvancedType
    DEF TypeOK, WithYaw, Yaws
  <2>9. Outside'
    BY <1>1, <1>4, <2>3, <2>4, <2>6 DEF Outside, WithYaw
  <2>10. QED
    BY <1>1, <2>8, <2>9 DEF SafeStep
<1>7. QED
  BY <1>5, <1>6

\* So do the beginning and the end of a session.
LEMMA SafeReset ==
    ASSUME SafeStep, NEW dpad \in SUBSET Directions, Reset(dpad)
    PROVE  SafeStep'
<1>1. /\ ctl' \in Controllers /\ Shape(ctl') /\ ctl'.phase = 0
      /\ ctl'.command = "zero"
      /\ ctl'.state = IF dpad = {} THEN "idle" ELSE "wait_release"
  BY ResetShape DEF Reset
<1>2. /\ on' = TRUE /\ level' = "medium" /\ snapshot' = Zero /\ phase' = 1
      /\ released' = (dpad = {}) /\ burst' = 0 /\ asked' = asked
  BY DEF Reset
<1>3. 1 \in Phases /\ AdvancedPhase(0) = 1
  BY SingleStepAssumption DEF Phases, AdvancedPhase
<1>4. Zero \in [linear: Linear, yaw: Yaws] /\ "medium" \in Levels
  BY Names DEF Zero, Yaws, Levels
<1>5. TypeOK'
  BY <1>1, <1>2, <1>3, <1>4 DEF SafeStep, TypeOK
<1>6. Outside'
  BY <1>1, <1>2, <1>3 DEF Outside, Zero
<1>7. QED
  BY <1>1, <1>5, <1>6 DEF SafeStep

LEMMA SafeStop ==
    ASSUME SafeStep, Stop
    PROVE  SafeStep'
<1>1. ctl \in Controllers /\ Shape(ctl)
  BY DEF SafeStep, TypeOK
<1>2. "external_stop" \in AbortReasons
  BY DEF AbortReasons
<1>3. /\ ctl' \in Controllers /\ Shape(ctl') /\ ctl'.state = "aborted"
      /\ ctl'.command = "zero"
  BY <1>1, <1>2, AbortShape DEF Stop
<1>4. Zero \in [linear: Linear, yaw: Yaws]
  BY Names DEF Zero, Yaws
<1>5. TypeOK'
  BY <1>3, <1>4 DEF SafeStep, TypeOK, Stop
<1>6. Outside'
  BY <1>3 DEF Outside, Stop, Zero
<1>7. QED
  BY <1>3, <1>5, <1>6 DEF SafeStep

LEMMA SafeNext == SafeStep /\ [Next]_vars => SafeStep'
<1> SUFFICES ASSUME SafeStep, [Next]_vars PROVE SafeStep'
  OBVIOUS
<1>1. ASSUME StepTick PROVE SafeStep'
  BY <1>1, SafeTick, SingleStepAssumption DEF StepTick
<1>2. ASSUME Stop PROVE SafeStep'
  BY <1>2, SafeStop
<1>3. ASSUME NEW dpad \in Dpads, Reset(dpad) PROVE SafeStep'
  BY <1>3, SafeReset, SingleStepAssumption
<1>4. ASSUME UNCHANGED vars PROVE SafeStep'
  BY <1>4 DEF vars, SafeStep, TypeOK, Outside
<1>5. QED
  BY <1>1, <1>2, <1>3, <1>4 DEF Next

LEMMA SafeAlways == Spec => []SafeStep
  BY SafeInit, SafeNext, PTL DEF Spec

-----------------------------------------------------------------------------
(* The properties *)

\* All state of SingleStep keeps its type.
THEOREM StepTypeOK == Spec => []TypeOK
<1>1. SafeStep => TypeOK
  BY DEF SafeStep
<1>2. QED
  BY <1>1, SafeAlways, PTL

\* The controller commands the direction, and has latched the height, that the
\* operator asked for when the step was armed.
THEOREM CommandWasAsked == Spec => []StepIsTheOneAsked
<1>1. SafeStep => StepIsTheOneAsked
  <2> SUFFICES ASSUME SafeStep, ctl.command \in Directions
               PROVE  /\ ctl.command = asked.direction
                      /\ ctl.latched.level =
                            IF asked.direction = "up" THEN asked.level ELSE "medium"
    BY DEF StepIsTheOneAsked
  <2>1. ctl.state \in States /\ Shape(ctl) /\ Outside
    BY DEF SafeStep, TypeOK, Controllers
  <2>2. ctl.state = "active"
    BY <2>1 DEF Shape, States, Directions
  <2>3. QED
    BY <2>1, <2>2 DEF Shape, Outside
<1>2. QED
  BY <1>1, SafeAlways, PTL

\* A timeout longer than half a cycle, or than one advance, never aborts a step.
THEOREM TimeoutsNeverFire == Spec => []TimeoutsAreSpare
<1>1. SafeStep => TimeoutsAreSpare
  BY DEF SafeStep, Shape, TimeoutsAreSpare
<1>2. QED
  BY <1>1, SafeAlways, PTL

\* The stick does not move the robot, after a step, an abort or the start of a
\* session, before the D-pad was seen released; an aborted robot stands still.
THEOREM ReleaseInterlock == Spec => []StickWaits
<1>1. SafeStep => StickWaits
  <2> SUFFICES ASSUME SafeStep PROVE StickWaits
    OBVIOUS
  <2>1. /\ ctl.state \in States /\ Shape(ctl) /\ Outside
        /\ snapshot \in [linear: Linear, yaw: Yaws]
    BY DEF SafeStep, TypeOK, Controllers
  <2>2. snapshot.linear = "stick" => released
    <3>1. SUFFICES ASSUME snapshot.linear = "stick" PROVE released
      OBVIOUS
    <3>2. ctl.command = "stick"
      BY <2>1, <3>1 DEF Outside
    <3>3. ctl.state = "idle"
      BY <2>1, <3>2 DEF Shape, States, Directions
    <3>4. QED
      BY <2>1, <3>2, <3>3 DEF Outside
  <2>3. ctl.state = "aborted" => snapshot = Zero
    <3>1. SUFFICES ASSUME ctl.state = "aborted" PROVE snapshot = Zero
      OBVIOUS
    <3>2. snapshot.linear = "zero" /\ snapshot.yaw = "none"
      BY <2>1, <3>1 DEF Shape, Outside
    <3>3. QED
      BY <2>1, <3>2 DEF Zero
  <2>4. QED
    BY <2>2, <2>3 DEF StickWaits
<1>2. QED
  BY <1>1, SafeAlways, PTL

\* A second step needs the D-pad released after the first was armed.
THEOREM ArmingNeedsRelease == Spec => StepNeedsRelease
<1>1. SafeStep /\ [Next]_vars =>
        [ctl.state = "idle" /\ ctl'.state = "armed" => released]_vars
  <2> SUFFICES ASSUME SafeStep, [Next]_vars, ctl.state = "idle",
                      ctl'.state = "armed"
               PROVE  released
    OBVIOUS
  <2>1. on => released
    BY DEF SafeStep, Outside
  <2>2. CASE StepTick
    BY <2>1, <2>2 DEF StepTick, Step
  <2>3. CASE Stop
    BY <2>3 DEF Stop, Abort, SafeStep, TypeOK, Controllers
  <2>4. CASE \E dpad \in Dpads : Reset(dpad)
    BY <2>4 DEF Reset, ResetTo
  <2>5. CASE UNCHANGED vars
    BY <2>5 DEF vars
  <2>6. QED
    BY <2>2, <2>3, <2>4, <2>5 DEF Next
<1>2. QED
  BY <1>1, SafeAlways, PTL DEF Spec, StepNeedsRelease

\* What the invariant says of the length of a step.
BurstFits ==
    /\ burst \in Nat
    /\ burst <= Advance + 1 /\ burst <= ActiveTimeout
    /\ burst > 0 <=> ctl.state = "active"
    /\ ctl.state = "active" => on /\ burst = ctl.progress + 1

LEMMA BurstBounds == SafeStep => BurstFits
<1> SUFFICES ASSUME SafeStep PROVE BurstFits
  OBVIOUS
<1>1. /\ ctl.progress \in Nat /\ ctl.timer \in Nat
      /\ burst \in Nat /\ on \in BOOLEAN
  BY DEF SafeStep, TypeOK, Controllers
<1>2. ctl.state = "active" =>
        ctl.progress = ctl.timer /\ ctl.progress <= Advance /\ ctl.timer < ActiveTimeout
  BY DEF SafeStep, Shape
<1>3. /\ burst = IF ctl.state = "active" THEN ctl.progress + 1 ELSE 0
      /\ ctl.state = "active" => on
  BY DEF SafeStep, Outside
<1>4. QED
  BY <1>1, <1>2, <1>3, SingleStepAssumption DEF BurstFits

LEMMA BurstBoundsNext == SafeStep' => BurstFits'
  BY BurstBounds, PTL

\* A step lasts one phase advance, give or take the rounding, and never longer
\* than its timeout.
THEOREM OneAdvance == Spec => StepLastsOneAdvance
<1>1. SafeStep /\ SafeStep' /\ [Next]_vars =>
        [ /\ burst' <= Advance + 1 /\ burst' <= ActiveTimeout
          /\ burst > 0 /\ burst' = 0 /\ ctl'.state # "aborted" =>
                burst >= Advance ]_vars
  <2> SUFFICES ASSUME SafeStep, SafeStep', [Next]_vars
               PROVE  /\ burst' <= Advance + 1 /\ burst' <= ActiveTimeout
                      /\ burst > 0 /\ burst' = 0 /\ ctl'.state # "aborted" =>
                            burst >= Advance
    OBVIOUS
  <2>1. burst' <= Advance + 1 /\ burst' <= ActiveTimeout
    BY BurstBounds, BurstBoundsNext DEF BurstFits
  <2>2. ASSUME burst > 0, burst' = 0, ctl'.state # "aborted"
        PROVE  burst >= Advance
    <3>1. ctl.state = "active" /\ on /\ burst = ctl.progress + 1
      BY <2>2, BurstBounds, BurstBoundsNext DEF BurstFits
    <3>2. ctl'.state # "active"
      BY <2>2, BurstBounds, BurstBoundsNext DEF BurstFits
    <3>3. ASSUME StepTick PROVE burst >= Advance
      <4>1. PICK dpad \in SUBSET Directions, zone \in Zones, yaw \in Yaws,
                 rounded \in BOOLEAN : Step(dpad, zone, yaw, rounded)
        BY <3>3, SingleStepAssumption DEF StepTick
      <4>2. Moves(ctl, ctl', dpad, phase, level')
        BY <4>1, StepMoves
      <4>3. ctl.progress + 1 >= Advance
        BY <2>2, <3>1, <3>2, <4>2 DEF Moves
      <4>4. QED
        BY <3>1, <4>3
    <3>4. ~Stop
      BY <2>2 DEF Stop, Abort, SafeStep, TypeOK, Controllers
    <3>5. ASSUME NEW dpad \in Dpads PROVE ~Reset(dpad)
      BY <3>1 DEF Reset
    <3>6. ~UNCHANGED vars
      BY <2>2 DEF vars
    <3>7. QED
      BY <3>3, <3>4, <3>5, <3>6 DEF Next
  <2>3. QED
    BY <2>1, <2>2
<1>2. QED
  BY <1>1, SafeAlways, PTL DEF Spec, StepLastsOneAdvance

\* The first policy step of a step is the first of a half cycle.
THEOREM StartsOnHalfCycle == Spec => StepsStartWithAHalfCycle
<1>1. SafeStep /\ SafeStep' /\ [Next]_vars =>
        [burst = 0 /\ burst' > 0 => phase \in {0, Half}]_vars
  <2> SUFFICES ASSUME SafeStep, SafeStep', [Next]_vars, burst = 0, burst' > 0
               PROVE  phase \in {0, Half}
    OBVIOUS
  <2>1. ctl.state # "active" /\ ctl'.state = "active"
    BY BurstBounds, BurstBoundsNext DEF BurstFits
  <2>2. ASSUME StepTick PROVE phase \in {0, Half}
    <3>1. PICK dpad \in SUBSET Directions, zone \in Zones, yaw \in Yaws,
               rounded \in BOOLEAN : Step(dpad, zone, yaw, rounded)
      BY <2>2, SingleStepAssumption DEF StepTick
    <3>2. Moves(ctl, ctl', dpad, phase, level')
      BY <3>1, StepMoves
    <3>3. QED
      BY <2>1, <3>2 DEF Moves
  <2>3. ~Stop
    BY <2>1 DEF Stop, Abort, SafeStep, TypeOK, Controllers
  <2>4. ASSUME NEW dpad \in Dpads PROVE ~Reset(dpad)
    BY <2>1 DEF Reset, ResetTo
  <2>5. ~UNCHANGED vars
    BY <2>1 DEF vars
  <2>6. QED
    BY <2>2, <2>3, <2>4, <2>5 DEF Next
<1>2. QED
  BY <1>1, SafeAlways, PTL DEF Spec, StepsStartWithAHalfCycle

\* The release interlock, of the stick and of the next step.
THEOREM InterlockHolds == Spec => StickAndStepWait
<1>1. [StickWaits']_vars
        /\ [ctl.state = "idle" /\ ctl'.state = "armed" => released]_vars
      => [ /\ StickWaits'
           /\ ctl.state = "idle" /\ ctl'.state = "armed" => released ]_vars
  OBVIOUS
<1>2. Spec => [][StickWaits']_vars
  BY ReleaseInterlock, PTL
<1>3. Spec => [][ctl.state = "idle" /\ ctl'.state = "armed" => released]_vars
  BY ArmingNeedsRelease DEF StepNeedsRelease
<1> QED
  BY <1>1, <1>2, <1>3, PTL DEF StickAndStepWait

\* A step takes its half cycle of the gait and nothing more.
THEOREM GaitIsKept == Spec => StepsKeepTheGait
<1>1. QED
  BY StartsOnHalfCycle, OneAdvance, PTL DEF StepsKeepTheGait

-----------------------------------------------------------------------------
(* The grammar is a recursive function: it has a solution since a phrase's   *)
(* meanings are those of smaller ones.                                       *)

\* What the grammar gives a phrase when the meanings of smaller ones are M.
OperandOf(ts, M, i, j) ==
    AtomMeanings(ts, i, j)
    \cup (IF i < j /\ Token(ts, i) = "!"
          THEN {Negation(p) : p \in M[Phrase("operand", i + 1, j)]} ELSE {})
    \cup (IF i + 1 < j /\ Token(ts, i) = "(" /\ Token(ts, j - 1) = ")"
          THEN M[Phrase("expression", i + 1, j - 1)] ELSE {})

ConjunctionOf(ts, M, i, j) ==
    M[Phrase("operand", i, j)]
    \cup UNION {{Both(p, q) : p \in M[Phrase("operand", i, k)],
                              q \in M[Phrase("conjunction", k + 1, j)]} :
                k \in Divisions(ts, "+", i, j)}

ExpressionOf(ts, M, i, j) ==
    M[Phrase("conjunction", i, j)]
    \cup UNION {{Either(p, q) : p \in M[Phrase("conjunction", i, k)],
                                q \in M[Phrase("expression", k + 1, j)]} :
                k \in Divisions(ts, "|", i, j)}

PhraseOf(ts, M, x) ==
    CASE x.kind = "operand" -> OperandOf(ts, M, x.from, x.to)
      [] x.kind = "conjunction" -> ConjunctionOf(ts, M, x.from, x.to)
      [] x.kind = "expression" -> ExpressionOf(ts, M, x.from, x.to)

LEMMA MeaningsChosen ==
  ASSUME NEW ts
  PROVE  Meanings(ts) = CHOOSE M : M = [x \in Phrases(ts) |-> PhraseOf(ts, M, x)]
  BY DEF Meanings, PhraseOf, OperandOf, ConjunctionOf, ExpressionOf

\* The size of a phrase: a longer one is larger, and of the phrases of one
\* length an expression is larger than a conjunction than an operand.
Size(ts, x) ==
    3 * (x.to - x.from + Len(ts))
    + (CASE x.kind = "operand" -> 0 [] x.kind = "conjunction" -> 1 [] x.kind = "expression" -> 2)

LEMMA PhraseFacts ==
  ASSUME NEW ts, Len(ts) \in Nat, NEW x \in Phrases(ts)
  PROVE  /\ x.from \in 1 .. Len(ts) + 1 /\ x.to \in 1 .. Len(ts) + 1
         /\ x.kind \in {"operand", "conjunction", "expression"}
         /\ Size(ts, x) \in Nat
         /\ Size(ts, x) < 6 * Len(ts) + 3
<1>1. /\ x.from \in 1 .. Len(ts) + 1 /\ x.to \in 1 .. Len(ts) + 1
      /\ x.kind \in {"operand", "conjunction", "expression"}
  BY DEF Phrases
<1> DEFINE rest == CASE x.kind = "operand" -> 0 [] x.kind = "conjunction" -> 1
                     [] x.kind = "expression" -> 2
<1>2. rest \in 0 .. 2
  BY <1>1
<1>3. Size(ts, x) = 3 * (x.to - x.from + Len(ts)) + rest
  BY DEF Size
<1> HIDE DEF rest
<1>4. QED
  BY <1>1, <1>2, <1>3

LEMMA PhraseSizes ==
  ASSUME NEW ts, Len(ts) \in Nat, NEW i \in 1 .. Len(ts) + 1, NEW j \in 1 .. Len(ts) + 1
  PROVE  /\ /\ Phrase("operand", i, j) \in Phrases(ts)
            /\ Size(ts, Phrase("operand", i, j)) = 3 * (j - i + Len(ts))
         /\ /\ Phrase("conjunction", i, j) \in Phrases(ts)
            /\ Size(ts, Phrase("conjunction", i, j)) = 3 * (j - i + Len(ts)) + 1
         /\ /\ Phrase("expression", i, j) \in Phrases(ts)
            /\ Size(ts, Phrase("expression", i, j)) = 3 * (j - i + Len(ts)) + 2
  BY DEF Phrases, Phrase, Size

\* The two ways a size gets smaller: an end moves inwards, or the kind falls.
LEMMA SmallerSizes ==
  ASSUME NEW n \in Nat, NEW i \in Int, NEW j \in Int, NEW k \in Int, NEW l \in Int,
         i <= k, l <= j, NEW a \in 0 .. 2, NEW b \in 0 .. 2, a < b \/ i < k \/ l < j
  PROVE  3 * (l - k + n) + a < 3 * (j - i + n) + b
<1>1. l - k <= j - i /\ (a < b \/ l - k < j - i)
  OBVIOUS
<1> DEFINE c == l - k + n  d == j - i + n
<1>2. c \in Int /\ d \in Int /\ c <= d /\ (a < b \/ c < d)
  BY <1>1
<1> HIDE DEF c, d
<1>3. 3 * c + a < 3 * d + b
  BY <1>2
<1>4. QED
  BY <1>3 DEF c, d

\* A phrase's meanings depend on those of smaller phrases.
LEMMA SmallerDecide ==
  ASSUME NEW ts, Len(ts) \in Nat, NEW M, NEW N, NEW x \in Phrases(ts),
         \A y \in Phrases(ts) : Size(ts, y) < Size(ts, x) => M[y] = N[y]
  PROVE  PhraseOf(ts, M, x) = PhraseOf(ts, N, x)
<1> DEFINE i == x.from  j == x.to
<1>1. /\ i \in 1 .. Len(ts) + 1 /\ j \in 1 .. Len(ts) + 1
      /\ x.kind \in {"operand", "conjunction", "expression"}
  BY PhraseFacts
<1>a. /\ x.kind = "operand" => Size(ts, x) = 3 * (j - i + Len(ts))
      /\ x.kind = "conjunction" => Size(ts, x) = 3 * (j - i + Len(ts)) + 1
      /\ x.kind = "expression" => Size(ts, x) = 3 * (j - i + Len(ts)) + 2
  BY <1>1 DEF Size
<1>b. /\ x.kind = "operand" => PhraseOf(ts, M, x) = OperandOf(ts, M, i, j)
                                /\ PhraseOf(ts, N, x) = OperandOf(ts, N, i, j)
      /\ x.kind = "conjunction" => PhraseOf(ts, M, x) = ConjunctionOf(ts, M, i, j)
                                /\ PhraseOf(ts, N, x) = ConjunctionOf(ts, N, i, j)
      /\ x.kind = "expression" => PhraseOf(ts, M, x) = ExpressionOf(ts, M, i, j)
                                /\ PhraseOf(ts, N, x) = ExpressionOf(ts, N, i, j)
  BY DEF PhraseOf
<1> HIDE DEF i, j
<1>2. CASE x.kind = "operand"
  <2>1. Size(ts, x) = 3 * (j - i + Len(ts))
    BY <1>a, <1>2
  <2>2. ASSUME i < j PROVE M[Phrase("operand", i + 1, j)] = N[Phrase("operand", i + 1, j)]
    <3>1. i + 1 \in 1 .. Len(ts) + 1
      BY <1>1, <2>2
    <3>2. Phrase("operand", i + 1, j) \in Phrases(ts)
          /\ Size(ts, Phrase("operand", i + 1, j)) = 3 * (j - (i + 1) + Len(ts))
      BY <1>1, <3>1, PhraseSizes
    <3>3. QED
      BY <1>1, <2>1, <3>2
  <2>3. ASSUME i + 1 < j
        PROVE  M[Phrase("expression", i + 1, j - 1)] = N[Phrase("expression", i + 1, j - 1)]
    <3>1. i + 1 \in 1 .. Len(ts) + 1 /\ j - 1 \in 1 .. Len(ts) + 1
      BY <1>1, <2>3
    <3>2. Phrase("expression", i + 1, j - 1) \in Phrases(ts)
          /\ Size(ts, Phrase("expression", i + 1, j - 1)) = 3 * (j - 1 - (i + 1) + Len(ts)) + 2
      BY <1>1, <3>1, PhraseSizes
    <3>3. QED
      BY <1>1, <2>1, <3>2
  <2>4. OperandOf(ts, M, i, j) = OperandOf(ts, N, i, j)
    <3>1. QED
      BY <2>2, <2>3 DEF OperandOf
  <2>5. QED
    BY <1>2, <1>b, <2>4
<1>3. CASE x.kind = "conjunction"
  <2>1. Size(ts, x) = 3 * (j - i + Len(ts)) + 1
    BY <1>a, <1>3
  <2>2. ASSUME NEW k \in i .. j
        PROVE  M[Phrase("operand", i, k)] = N[Phrase("operand", i, k)]
    <3>1. k \in 1 .. Len(ts) + 1
      BY <1>1
    <3>2. Phrase("operand", i, k) \in Phrases(ts)
          /\ Size(ts, Phrase("operand", i, k)) = 3 * (k - i + Len(ts))
      BY <1>1, <3>1, PhraseSizes
    <3>3. Size(ts, Phrase("operand", i, k)) < Size(ts, x)
      BY <1>1, <2>1, <3>1, <3>2
    <3>4. QED
      BY <3>2, <3>3
  <2>3. ASSUME NEW k \in i .. j - 1
        PROVE  M[Phrase("conjunction", k + 1, j)] = N[Phrase("conjunction", k + 1, j)]
    <3>1. k \in Int /\ k + 1 \in 1 .. Len(ts) + 1
      BY <1>1
    <3>2. Phrase("conjunction", k + 1, j) \in Phrases(ts)
          /\ Size(ts, Phrase("conjunction", k + 1, j)) = 3 * (j - (k + 1) + Len(ts)) + 1
      BY <1>1, <3>1, PhraseSizes
    <3>3. 3 * (j - (k + 1) + Len(ts)) + 1 < 3 * (j - i + Len(ts)) + 1
      <4>1. /\ i \in Int /\ j \in Int /\ k + 1 \in Int /\ i <= k + 1 /\ j <= j /\ i < k + 1
            /\ 1 \in 0 .. 2
        BY <1>1, <3>1
      <4>2. QED
        BY <4>1, SmallerSizes
    <3>4. Size(ts, Phrase("conjunction", k + 1, j)) < Size(ts, x)
      BY <2>1, <3>2, <3>3
    <3>5. QED
      BY <3>2, <3>4
  <2>4. M[Phrase("operand", i, j)] = N[Phrase("operand", i, j)]
    <3>1. Phrase("operand", i, j) \in Phrases(ts)
          /\ Size(ts, Phrase("operand", i, j)) = 3 * (j - i + Len(ts))
      BY <1>1, PhraseSizes
    <3>2. QED
      BY <1>1, <2>1, <3>1
  <2>5. \A k \in Divisions(ts, "+", i, j) : k \in i .. j /\ k \in i .. j - 1
    BY <1>1 DEF Divisions
  <2>6. ConjunctionOf(ts, M, i, j) = ConjunctionOf(ts, N, i, j)
    <3>1. \A k \in Divisions(ts, "+", i, j) :
             /\ M[Phrase("operand", i, k)] = N[Phrase("operand", i, k)]
             /\ M[Phrase("conjunction", k + 1, j)] = N[Phrase("conjunction", k + 1, j)]
      BY <2>2, <2>3, <2>5
    <3>2. QED
      BY <2>4, <3>1 DEF ConjunctionOf
  <2>7. QED
    BY <1>3, <1>b, <2>6
<1>4. CASE x.kind = "expression"
  <2>1. Size(ts, x) = 3 * (j - i + Len(ts)) + 2
    BY <1>a, <1>4
  <2>2. ASSUME NEW k \in i .. j
        PROVE  M[Phrase("conjunction", i, k)] = N[Phrase("conjunction", i, k)]
    <3>1. k \in 1 .. Len(ts) + 1
      BY <1>1
    <3>2. Phrase("conjunction", i, k) \in Phrases(ts)
          /\ Size(ts, Phrase("conjunction", i, k)) = 3 * (k - i + Len(ts)) + 1
      BY <1>1, <3>1, PhraseSizes
    <3>3. Size(ts, Phrase("conjunction", i, k)) < Size(ts, x)
      BY <1>1, <2>1, <3>1, <3>2
    <3>4. QED
      BY <3>2, <3>3
  <2>3. ASSUME NEW k \in i .. j - 1
        PROVE  M[Phrase("expression", k + 1, j)] = N[Phrase("expression", k + 1, j)]
    <3>1. k \in Int /\ k + 1 \in 1 .. Len(ts) + 1
      BY <1>1
    <3>2. Phrase("expression", k + 1, j) \in Phrases(ts)
          /\ Size(ts, Phrase("expression", k + 1, j)) = 3 * (j - (k + 1) + Len(ts)) + 2
      BY <1>1, <3>1, PhraseSizes
    <3>3. 3 * (j - (k + 1) + Len(ts)) + 2 < 3 * (j - i + Len(ts)) + 2
      <4>1. /\ i \in Int /\ j \in Int /\ k + 1 \in Int /\ i <= k + 1 /\ j <= j /\ i < k + 1
            /\ 2 \in 0 .. 2
        BY <1>1, <3>1
      <4>2. QED
        BY <4>1, SmallerSizes
    <3>4. Size(ts, Phrase("expression", k + 1, j)) < Size(ts, x)
      BY <2>1, <3>2, <3>3
    <3>5. QED
      BY <3>2, <3>4
  <2>4. M[Phrase("conjunction", i, j)] = N[Phrase("conjunction", i, j)]
    <3>1. Phrase("conjunction", i, j) \in Phrases(ts)
          /\ Size(ts, Phrase("conjunction", i, j)) = 3 * (j - i + Len(ts)) + 1
      BY <1>1, PhraseSizes
    <3>2. QED
      BY <1>1, <2>1, <3>1
  <2>5. \A k \in Divisions(ts, "|", i, j) : k \in i .. j /\ k \in i .. j - 1
    BY <1>1 DEF Divisions
  <2>6. ExpressionOf(ts, M, i, j) = ExpressionOf(ts, N, i, j)
    <3>1. \A k \in Divisions(ts, "|", i, j) :
             /\ M[Phrase("conjunction", i, k)] = N[Phrase("conjunction", i, k)]
             /\ M[Phrase("expression", k + 1, j)] = N[Phrase("expression", k + 1, j)]
      BY <2>2, <2>3, <2>5
    <3>2. QED
      BY <2>4, <3>1 DEF ExpressionOf
  <2>7. QED
    BY <1>4, <1>b, <2>6
<1>5. QED
  BY <1>1, <1>2, <1>3, <1>4

Less == {pair \in Nat \X Nat : pair[1] < pair[2]}

LEMMA LessIsWellFounded == IsWellFoundedOn(Less, Nat)
  BY NatLessThanWellFounded DEF OpToRel, Less

\* The grammar can be solved up to any size of the phrases.
LEMMA SolvedTo ==
  ASSUME NEW ts, Len(ts) \in Nat, NEW m \in Nat
  PROVE  \E M : /\ M = [x \in Phrases(ts) |-> M[x]]
                /\ \A x \in Phrases(ts) : Size(ts, x) < m => M[x] = PhraseOf(ts, M, x)
<1> DEFINE Solves(M, n) ==
        /\ M = [x \in Phrases(ts) |-> M[x]]
        /\ \A x \in Phrases(ts) : Size(ts, x) < n => M[x] = PhraseOf(ts, M, x)
    Unsolved == {n \in Nat : ~ \E M : Solves(M, n)}
<1>1. Solves([x \in Phrases(ts) |-> {}], 0)
  BY PhraseFacts
<1>2. ASSUME NEW n \in Nat, NEW M, Solves(M, n)
      PROVE  Solves([x \in Phrases(ts) |-> PhraseOf(ts, M, x)], n + 1)
  <2> DEFINE N == [x \in Phrases(ts) |-> PhraseOf(ts, M, x)]
  <2>1. \A x \in Phrases(ts) : N[x] = PhraseOf(ts, M, x) /\ Size(ts, x) \in Nat
    BY PhraseFacts
  <2>2. N = [x \in Phrases(ts) |-> N[x]]
    OBVIOUS
  <2> HIDE DEF N
  <2>3. ASSUME NEW x \in Phrases(ts), Size(ts, x) < n + 1 PROVE N[x] = PhraseOf(ts, N, x)
    <3> DEFINE limit == Size(ts, x)
    <3>a. \A y \in Phrases(ts) : Size(ts, y) < n => M[y] = N[y]
      BY <1>2, <2>1
    <3>b. limit \in Nat /\ limit < n + 1
      BY <2>1, <2>3
    <3> HIDE DEF limit
    <3>c. \A y \in Phrases(ts) : Size(ts, y) < limit => M[y] = N[y]
      BY <2>1, <3>a, <3>b
    <3>1. \A y \in Phrases(ts) : Size(ts, y) < Size(ts, x) => M[y] = N[y]
      BY <3>c DEF limit
    <3>2. PhraseOf(ts, M, x) = PhraseOf(ts, N, x)
      BY <3>1, SmallerDecide
    <3>3. QED
      BY <2>1, <3>2
  <2>4. Solves(N, n + 1)
    BY <2>2, <2>3
  <2>5. QED
    BY <2>4 DEF N
<1> HIDE DEF Solves
<1>3. ASSUME Unsolved # {} PROVE FALSE
  <2>1. PICK n \in Unsolved : \A k \in Unsolved : <<k, n>> \notin Less
    BY <1>3, LessIsWellFounded, WFMin
  <2>2. n # 0
    BY <1>1, <2>1
  <2>3. n - 1 \in Nat /\ <<n - 1, n>> \in Less
    BY <2>2 DEF Less
  <2>4. PICK M : Solves(M, n - 1)
    BY <2>1, <2>3
  <2>5. \E N : Solves(N, n - 1 + 1)
    BY <1>2, <2>3, <2>4
  <2>6. QED
    BY <2>1, <2>5
<1>4. \E M : Solves(M, m)
  BY <1>3
<1>5. QED
  BY <1>4 DEF Solves

\* The meanings of a text solve the grammar.
LEMMA MeaningsSolve ==
  ASSUME NEW ts, Len(ts) \in Nat, NEW x \in Phrases(ts)
  PROVE  Meanings(ts)[x] = PhraseOf(ts, Meanings(ts), x)
<1> DEFINE m == 6 * Len(ts) + 3
<1>1. \A y \in Phrases(ts) : Size(ts, y) < m
  BY PhraseFacts
<1>m. m \in Nat
  OBVIOUS
<1> HIDE DEF m
<1>2. PICK M : /\ M = [y \in Phrases(ts) |-> M[y]]
               /\ \A y \in Phrases(ts) : Size(ts, y) < m => M[y] = PhraseOf(ts, M, y)
  BY <1>m, SolvedTo
<1>3. M = [y \in Phrases(ts) |-> PhraseOf(ts, M, y)]
  BY <1>1, <1>2
<1> DEFINE C == CHOOSE N : N = [y \in Phrases(ts) |-> PhraseOf(ts, N, y)]
<1>4. C = [y \in Phrases(ts) |-> PhraseOf(ts, C, y)]
  BY <1>3
<1>5. Meanings(ts) = C
  BY MeaningsChosen
<1> HIDE DEF C
<1>6. C[x] = PhraseOf(ts, C, x)
  BY <1>4
<1>7. QED
  BY <1>5, <1>6

-----------------------------------------------------------------------------
(* The grammar, phrase by phrase                                             *)

Operands(ts, i, j) == Meanings(ts)[Phrase("operand", i, j)]
Conjunctions(ts, i, j) == Meanings(ts)[Phrase("conjunction", i, j)]
Expressions(ts, i, j) == Meanings(ts)[Phrase("expression", i, j)]

LEMMA Grammar ==
  ASSUME NEW ts, Len(ts) \in Nat, NEW i \in 1 .. Len(ts) + 1, NEW j \in 1 .. Len(ts) + 1
  PROVE  /\ \A u : u \in Operands(ts, i, j) <=>
              \/ u \in AtomMeanings(ts, i, j)
              \/ i < j /\ Token(ts, i) = "!" /\ \E p \in Operands(ts, i + 1, j) : u = Negation(p)
              \/ i + 1 < j /\ Token(ts, i) = "(" /\ Token(ts, j - 1) = ")"
                 /\ u \in Expressions(ts, i + 1, j - 1)
         /\ \A u : u \in Conjunctions(ts, i, j) <=>
              \/ u \in Operands(ts, i, j)
              \/ \E k \in i .. j - 1 : Token(ts, k) = "+" /\
                    \E p \in Operands(ts, i, k), q \in Conjunctions(ts, k + 1, j) : u = Both(p, q)
         /\ \A u : u \in Expressions(ts, i, j) <=>
              \/ u \in Conjunctions(ts, i, j)
              \/ \E k \in i .. j - 1 : Token(ts, k) = "|" /\
                    \E p \in Conjunctions(ts, i, k), q \in Expressions(ts, k + 1, j) : u = Either(p, q)
<1> DEFINE M == Meanings(ts)
<1>1. /\ PhraseOf(ts, M, Phrase("operand", i, j)) = OperandOf(ts, M, i, j)
      /\ PhraseOf(ts, M, Phrase("conjunction", i, j)) = ConjunctionOf(ts, M, i, j)
      /\ PhraseOf(ts, M, Phrase("expression", i, j)) = ExpressionOf(ts, M, i, j)
  BY DEF PhraseOf, Phrase
<1>2. /\ Operands(ts, i, j) = OperandOf(ts, M, i, j)
      /\ Conjunctions(ts, i, j) = ConjunctionOf(ts, M, i, j)
      /\ Expressions(ts, i, j) = ExpressionOf(ts, M, i, j)
  BY <1>1, PhraseSizes, MeaningsSolve DEF Operands, Conjunctions, Expressions
<1>3. \A u : u \in OperandOf(ts, M, i, j) <=>
              \/ u \in AtomMeanings(ts, i, j)
              \/ i < j /\ Token(ts, i) = "!" /\ \E p \in Operands(ts, i + 1, j) : u = Negation(p)
              \/ i + 1 < j /\ Token(ts, i) = "(" /\ Token(ts, j - 1) = ")"
                 /\ u \in Expressions(ts, i + 1, j - 1)
  BY DEF OperandOf, Operands, Expressions
<1>4. \A u : u \in ConjunctionOf(ts, M, i, j) <=>
              \/ u \in Operands(ts, i, j)
              \/ \E k \in i .. j - 1 : Token(ts, k) = "+" /\
                    \E p \in Operands(ts, i, k), q \in Conjunctions(ts, k + 1, j) : u = Both(p, q)
  BY DEF ConjunctionOf, Operands, Conjunctions, Divisions
<1>5. \A u : u \in ExpressionOf(ts, M, i, j) <=>
              \/ u \in Conjunctions(ts, i, j)
              \/ \E k \in i .. j - 1 : Token(ts, k) = "|" /\
                    \E p \in Conjunctions(ts, i, k), q \in Expressions(ts, k + 1, j) : u = Either(p, q)
  BY DEF ExpressionOf, Conjunctions, Expressions, Divisions
<1>6. QED
  BY <1>2, <1>3, <1>4, <1>5

\* && and || are associative, with what they throw and what they skip.
LEMMA Associative ==
  ASSUME NEW p, NEW q, NEW r
  PROVE  /\ Both(Both(p, q), r) = Both(p, Both(q, r))
         /\ Either(Either(p, q), r) = Either(p, Either(q, r))
  BY DEF Both, Either

-----------------------------------------------------------------------------
(* What the calls that wait can still return                                 *)

IsText(ts) == Len(ts) \in Nat /\ DOMAIN ts = 1 .. Len(ts)
Places(ts) == 1 .. Len(ts) + 1

Trees == [Joysticks -> Answers]

\* What may come after an operand, a conjunction and an expression.
AfterOperand == {"+", "|", ")", End}
AfterConjunction == {"|", ")", End}
AfterExpression == {")", End}

\* The call that waits with frame f can return t at e if the call it waits for
\* returns u at r.
Resumes(ts, f, r, u, e, t) ==
    CASE f.call = "not" -> e = r /\ t = Negation(u) /\ Token(ts, r) \in AfterOperand
      [] f.call = "group" -> Token(ts, r) = ")" /\ e = r + 1 /\ t = u
      [] f.call = "and" ->
            \/ e = r /\ t = Joined(f, u)
            \/ Token(ts, r) = "+" /\ \E w \in Conjunctions(ts, r + 1, e) : t = Both(Joined(f, u), w)
      [] f.call = "or" ->
            \/ e = r /\ t = Joined(f, u)
            \/ Token(ts, r) = "|" /\ \E w \in Expressions(ts, r + 1, e) : t = Either(Joined(f, u), w)

\* The whole text can come to mean V if the innermost call returns u at r: the
\* calls have places and trees to return, from the innermost to Parse().
Returns(ts, st, V, r, u, place, tree) ==
    /\ \A k \in 1 .. Len(st) + 1 : place[k] \in 1 .. Len(ts) + 1
    /\ place[1] = Len(ts) + 1 /\ tree[1] = V
    /\ place[Len(st) + 1] = r /\ tree[Len(st) + 1] = u
    /\ \A k \in 1 .. Len(st) :
         Resumes(ts, st[k], place[k + 1], tree[k + 1], place[k], tree[k])
CanMean(ts, st, V, r, u) == \E place, tree : Returns(ts, st, V, r, u, place, tree)

LEMMA NoCallWaits ==
  ASSUME NEW ts, IsText(ts), NEW V, NEW r, NEW u
  PROVE  CanMean(ts, <<>>, V, r, u) <=> r = Len(ts) + 1 /\ u = V
<1> USE DEF IsText
<1>1. ASSUME r = Len(ts) + 1, u = V PROVE CanMean(ts, <<>>, V, r, u)
  <2>1. Returns(ts, <<>>, V, r, u, [k \in 1 .. 1 |-> r], [k \in 1 .. 1 |-> u])
    BY <1>1 DEF Returns
  <2>2. QED
    BY <2>1 DEF CanMean
<1>2. QED
  BY <1>1 DEF CanMean, Returns

LEMMA CallWaits ==
  ASSUME NEW ts, IsText(ts), NEW st \in Seq(Frames), NEW f \in Frames, NEW V,
         NEW r \in Places(ts), NEW u
  PROVE  CanMean(ts, Append(st, f), V, r, u) <=>
            \E e \in Places(ts) : \E t : Resumes(ts, f, r, u, e, t) /\ CanMean(ts, st, V, e, t)
<1> USE DEF IsText, Places
<1> DEFINE n == Len(st)
           longer == Append(st, f)
<1>1. n \in Nat /\ Len(longer) = n + 1 /\ longer[n + 1] = f
      /\ \A k \in 1 .. n : longer[k] = st[k]
  OBVIOUS
<1> HIDE DEF n, longer
<1>2. ASSUME NEW place, NEW tree, Returns(ts, longer, V, r, u, place, tree)
      PROVE  /\ place[n + 1] \in 1 .. Len(ts) + 1
             /\ Resumes(ts, f, r, u, place[n + 1], tree[n + 1])
             /\ Returns(ts, st, V, place[n + 1], tree[n + 1], place, tree)
  <2>1. /\ \A k \in 1 .. n + 1 + 1 : place[k] \in 1 .. Len(ts) + 1
        /\ place[1] = Len(ts) + 1 /\ tree[1] = V
        /\ place[n + 1 + 1] = r /\ tree[n + 1 + 1] = u
        /\ \A k \in 1 .. n + 1 :
             Resumes(ts, longer[k], place[k + 1], tree[k + 1], place[k], tree[k])
    BY <1>1, <1>2 DEF Returns
  <2>2. n + 1 \in 1 .. n + 1 /\ n + 1 \in 1 .. n + 1 + 1
    BY <1>1
  <2>3. place[n + 1] \in 1 .. Len(ts) + 1 /\ Resumes(ts, f, r, u, place[n + 1], tree[n + 1])
    BY <1>1, <2>1, <2>2
  <2>4. \A k \in 1 .. n + 1 : place[k] \in 1 .. Len(ts) + 1
    BY <1>1, <2>1
  <2>5. ASSUME NEW k \in 1 .. n
        PROVE  Resumes(ts, st[k], place[k + 1], tree[k + 1], place[k], tree[k])
    <3>1. k \in 1 .. n + 1 /\ longer[k] = st[k]
      BY <1>1
    <3>2. QED
      BY <2>1, <3>1
  <2>6. QED
    BY <2>1, <2>3, <2>4, <2>5 DEF Returns, n
<1>3. ASSUME NEW e \in 1 .. Len(ts) + 1, NEW t, Resumes(ts, f, r, u, e, t),
             NEW place, NEW tree, Returns(ts, st, V, e, t, place, tree)
      PROVE  Returns(ts, longer, V, r, u,
                     [k \in 1 .. n + 2 |-> IF k = n + 2 THEN r ELSE place[k]],
                     [k \in 1 .. n + 2 |-> IF k = n + 2 THEN u ELSE tree[k]])
  <2> DEFINE P == [k \in 1 .. n + 2 |-> IF k = n + 2 THEN r ELSE place[k]]
             T == [k \in 1 .. n + 2 |-> IF k = n + 2 THEN u ELSE tree[k]]
  <2>1. /\ P[n + 2] = r /\ T[n + 2] = u
        /\ \A k \in 1 .. n + 1 : P[k] = place[k] /\ T[k] = tree[k]
    BY <1>1
  <2> HIDE DEF P, T
  <2>2. /\ \A k \in 1 .. n + 1 : place[k] \in 1 .. Len(ts) + 1
        /\ place[1] = Len(ts) + 1 /\ tree[1] = V
        /\ place[n + 1] = e /\ tree[n + 1] = t
        /\ \A k \in 1 .. n : Resumes(ts, st[k], place[k + 1], tree[k + 1], place[k], tree[k])
    BY <1>3 DEF Returns, n
  <2>3. ASSUME NEW k \in 1 .. n + 2 PROVE P[k] \in 1 .. Len(ts) + 1
    <3>1. k = n + 2 \/ k \in 1 .. n + 1
      BY <1>1
    <3>2. QED
      BY <2>1, <2>2, <3>1
  <2>4. P[1] = Len(ts) + 1 /\ T[1] = V
    BY <1>1, <2>1, <2>2
  <2>5. ASSUME NEW k \in 1 .. n + 1
        PROVE  Resumes(ts, longer[k], P[k + 1], T[k + 1], P[k], T[k])
    <3>1. CASE k = n + 1
      <4>1. k + 1 = n + 2
        BY <1>1, <3>1
      <4>2. longer[k] = f /\ P[k + 1] = r /\ T[k + 1] = u /\ P[k] = e /\ T[k] = t
        BY <1>1, <2>1, <2>2, <3>1, <4>1
      <4>3. QED
        BY <1>3, <4>2
    <3>2. CASE k # n + 1
      <4>1. k \in 1 .. n /\ k + 1 \in 1 .. n + 1
        BY <1>1, <3>2
      <4>2. longer[k] = st[k] /\ P[k + 1] = place[k + 1] /\ T[k + 1] = tree[k + 1]
            /\ P[k] = place[k] /\ T[k] = tree[k]
        BY <1>1, <2>1, <4>1
      <4>3. QED
        BY <2>2, <4>1, <4>2
    <3>3. QED
      BY <3>1, <3>2
  <2>6. n + 1 + 1 = n + 2
    BY <1>1
  <2>7. QED
    BY <1>1, <2>1, <2>3, <2>4, <2>5, <2>6 DEF Returns, P, T
<1>4. CanMean(ts, longer, V, r, u) <=>
        \E e \in 1 .. Len(ts) + 1 : \E t : Resumes(ts, f, r, u, e, t) /\ CanMean(ts, st, V, e, t)
  BY <1>2, <1>3 DEF CanMean
<1>5. QED
  BY <1>4 DEF longer

-----------------------------------------------------------------------------
(* One call more or less                                                     *)

LEMMA TokenInside ==
  ASSUME NEW ts, IsText(ts), NEW r \in Places(ts)
  PROVE  /\ r \in Nat
         /\ Token(ts, r) # End => r + 1 \in Places(ts)
         /\ Token(ts, Len(ts) + 1) = End
  BY DEF IsText, Places, Token

\* A phrase has at least one token.
LEMMA PhrasesAreLong ==
  ASSUME NEW ts, IsText(ts), NEW i \in Places(ts), NEW j \in Places(ts), NEW u,
         \/ u \in Operands(ts, i, j) \/ u \in Conjunctions(ts, i, j)
         \/ u \in Expressions(ts, i, j)
  PROVE  i < j
<1> SUFFICES ASSUME ~ (i < j) PROVE FALSE
  OBVIOUS
<1>1. i \in Int /\ j \in Int /\ Len(ts) \in Nat
  BY DEF Places, IsText
<1>2. \A x : x \notin AtomMeanings(ts, i, j)
  BY <1>1 DEF AtomMeanings
<1>3. \A x : x \notin Operands(ts, i, j)
  BY <1>1, <1>2, Grammar DEF Places
<1>4. i .. j - 1 = {}
  BY <1>1
<1>5. \A x : x \notin Conjunctions(ts, i, j)
  BY <1>1, <1>3, <1>4, Grammar DEF Places
<1>6. \A x : x \notin Expressions(ts, i, j)
  BY <1>1, <1>4, <1>5, Grammar DEF Places
<1>7. QED
  BY <1>3, <1>5, <1>6

\* What joins an operand to the left also joins a conjunction that begins with
\* it, and a conjunction an expression.
LEMMA JoinedAssociates ==
  ASSUME NEW left, NEW u, NEW w
  PROVE  /\ Joined(Frame("and", left), Both(u, w)) = Both(Joined(Frame("and", left), u), w)
         /\ Joined(Frame("or", left), Either(u, w)) = Either(Joined(Frame("or", left), u), w)
  BY Associative DEF Joined, Frame

\* ParseAnd() can return what joins its left operand and a conjunction exactly
\* if its next operand begins one.
LEMMA AndContinues ==
  ASSUME NEW ts, IsText(ts), NEW left, NEW i \in Places(ts), NEW e \in Places(ts), NEW t
  PROVE  (\E w \in Conjunctions(ts, i, e) : t = Joined(Frame("and", left), w)) <=>
            \E r \in Places(ts) : \E u \in Operands(ts, i, r) :
                Resumes(ts, Frame("and", left), r, u, e, t)
<1> DEFINE f == Frame("and", left)
<1>1. Len(ts) \in Nat /\ i \in Int /\ e \in Int
  BY DEF IsText, Places
<1>2. \A r, u : Resumes(ts, f, r, u, e, t) <=>
            \/ e = r /\ t = Joined(f, u)
            \/ Token(ts, r) = "+" /\ \E w \in Conjunctions(ts, r + 1, e) : t = Both(Joined(f, u), w)
  BY DEF Resumes, Frame
<1>3. \A u, w : Joined(f, Both(u, w)) = Both(Joined(f, u), w)
  BY JoinedAssociates
<1> HIDE DEF f
<1>4. ASSUME NEW w \in Conjunctions(ts, i, e), t = Joined(f, w)
      PROVE  \E r \in Places(ts) : \E u \in Operands(ts, i, r) : Resumes(ts, f, r, u, e, t)
  <2>1. CASE w \in Operands(ts, i, e)
    BY <1>2, <1>4, <2>1
  <2>2. CASE \E k \in i .. e - 1 : Token(ts, k) = "+" /\
                \E p \in Operands(ts, i, k), q \in Conjunctions(ts, k + 1, e) : w = Both(p, q)
    <3>1. PICK k \in i .. e - 1 : Token(ts, k) = "+" /\
                \E p \in Operands(ts, i, k), q \in Conjunctions(ts, k + 1, e) : w = Both(p, q)
      BY <2>2
    <3>2. PICK p \in Operands(ts, i, k) : \E q \in Conjunctions(ts, k + 1, e) : w = Both(p, q)
      BY <3>1
    <3>3. PICK q \in Conjunctions(ts, k + 1, e) : w = Both(p, q)
      BY <3>2
    <3>4. k \in Places(ts)
      BY <1>1 DEF Places
    <3>5. Resumes(ts, f, k, p, e, t)
      BY <1>2, <1>3, <1>4, <3>1, <3>3
    <3>6. QED
      BY <3>4, <3>5
  <2>3. QED
    BY <1>1, <2>1, <2>2, Grammar DEF Places
<1>5. ASSUME NEW r \in Places(ts), NEW u \in Operands(ts, i, r), Resumes(ts, f, r, u, e, t)
      PROVE  \E w \in Conjunctions(ts, i, e) : t = Joined(f, w)
  <2>1. CASE e = r /\ t = Joined(f, u)
    BY <1>1, <2>1, Grammar DEF Places
  <2>2. CASE Token(ts, r) = "+" /\ \E w \in Conjunctions(ts, r + 1, e) : t = Both(Joined(f, u), w)
    <3>1. PICK w \in Conjunctions(ts, r + 1, e) : t = Both(Joined(f, u), w)
      BY <2>2
    <3>2. r + 1 \in Places(ts) /\ r \in Int
      BY <2>2, TokenInside DEF End
    <3>3. i < r /\ r + 1 < e
      BY <3>2, PhrasesAreLong
    <3>4. r \in i .. e - 1
      BY <1>1, <3>2, <3>3
    <3>5. Both(u, w) \in Conjunctions(ts, i, e)
      BY <1>1, <2>2, <3>1, <3>4, Grammar DEF Places
    <3>6. QED
      BY <1>3, <3>1, <3>5
  <2>3. QED
    BY <1>2, <1>5, <2>1, <2>2
<1>6. QED
  BY <1>4, <1>5 DEF f

\* The same of ParseOr() and expressions.
LEMMA OrContinues ==
  ASSUME NEW ts, IsText(ts), NEW left, NEW i \in Places(ts), NEW e \in Places(ts), NEW t
  PROVE  (\E w \in Expressions(ts, i, e) : t = Joined(Frame("or", left), w)) <=>
            \E r \in Places(ts) : \E u \in Conjunctions(ts, i, r) :
                Resumes(ts, Frame("or", left), r, u, e, t)
<1> DEFINE f == Frame("or", left)
<1>1. Len(ts) \in Nat /\ i \in Int /\ e \in Int
  BY DEF IsText, Places
<1>2. \A r, u : Resumes(ts, f, r, u, e, t) <=>
            \/ e = r /\ t = Joined(f, u)
            \/ Token(ts, r) = "|" /\ \E w \in Expressions(ts, r + 1, e) : t = Either(Joined(f, u), w)
  BY DEF Resumes, Frame
<1>3. \A u, w : Joined(f, Either(u, w)) = Either(Joined(f, u), w)
  BY JoinedAssociates
<1> HIDE DEF f
<1>4. ASSUME NEW w \in Expressions(ts, i, e), t = Joined(f, w)
      PROVE  \E r \in Places(ts) : \E u \in Conjunctions(ts, i, r) : Resumes(ts, f, r, u, e, t)
  <2>1. CASE w \in Conjunctions(ts, i, e)
    BY <1>2, <1>4, <2>1
  <2>2. CASE \E k \in i .. e - 1 : Token(ts, k) = "|" /\
                \E p \in Conjunctions(ts, i, k), q \in Expressions(ts, k + 1, e) : w = Either(p, q)
    <3>1. PICK k \in i .. e - 1 : Token(ts, k) = "|" /\
                \E p \in Conjunctions(ts, i, k), q \in Expressions(ts, k + 1, e) : w = Either(p, q)
      BY <2>2
    <3>2. PICK p \in Conjunctions(ts, i, k) : \E q \in Expressions(ts, k + 1, e) : w = Either(p, q)
      BY <3>1
    <3>3. PICK q \in Expressions(ts, k + 1, e) : w = Either(p, q)
      BY <3>2
    <3>4. k \in Places(ts)
      BY <1>1 DEF Places
    <3>5. Resumes(ts, f, k, p, e, t)
      BY <1>2, <1>3, <1>4, <3>1, <3>3
    <3>6. QED
      BY <3>4, <3>5
  <2>3. QED
    BY <1>1, <2>1, <2>2, Grammar DEF Places
<1>5. ASSUME NEW r \in Places(ts), NEW u \in Conjunctions(ts, i, r), Resumes(ts, f, r, u, e, t)
      PROVE  \E w \in Expressions(ts, i, e) : t = Joined(f, w)
  <2>1. CASE e = r /\ t = Joined(f, u)
    BY <1>1, <2>1, Grammar DEF Places
  <2>2. CASE Token(ts, r) = "|" /\ \E w \in Expressions(ts, r + 1, e) : t = Either(Joined(f, u), w)
    <3>1. PICK w \in Expressions(ts, r + 1, e) : t = Either(Joined(f, u), w)
      BY <2>2
    <3>2. r + 1 \in Places(ts) /\ r \in Int
      BY <2>2, TokenInside DEF End
    <3>3. i < r /\ r + 1 < e
      BY <3>2, PhrasesAreLong
    <3>4. r \in i .. e - 1
      BY <1>1, <3>2, <3>3
    <3>5. Either(u, w) \in Expressions(ts, i, e)
      BY <1>1, <2>2, <3>1, <3>4, Grammar DEF Places
    <3>6. QED
      BY <1>3, <3>1, <3>5
  <2>3. QED
    BY <1>2, <1>5, <2>1, <2>2
<1>6. QED
  BY <1>4, <1>5 DEF f

-----------------------------------------------------------------------------
(* Which call waits for which                                                *)

\* The innermost call that waits.
Waiting(st) == IF st = <<>> THEN "none" ELSE st[Len(st)].call

\* The calls that wait next to one that waits for them.
Inner(call) ==
    CASE call \in {"none", "group"} -> {"or"}
      [] call = "or" -> {"and"}
      [] call \in {"and", "not"} -> {"not", "group"}

Nested(st) == \A k \in 1 .. Len(st) : st[k].call \in Inner(Waiting(SubSeq(st, 1, k - 1)))

\* What may come after the phrase that a call waits for.
After(call) ==
    CASE call \in {"none", "group"} -> AfterExpression
      [] call = "or" -> AfterConjunction
      [] call \in {"and", "not"} -> AfterOperand

LEMMA WaitingIs ==
  ASSUME NEW st \in Seq(Frames)
  PROVE  Waiting(st) \in {"none", "group", "or", "and", "not"}
<1>1. CASE st = <<>>
  BY <1>1 DEF Waiting
<1>2. CASE st # <<>>
  <2>1. st[Len(st)] \in Frames
    BY <1>2
  <2>2. QED
    BY <1>2, <2>1 DEF Waiting, Frames
<1>3. QED
  BY <1>1, <1>2

LEMMA InnerOf ==
  ASSUME NEW call \in {"none", "group", "or", "and", "not"}
  PROVE  /\ "or" \in Inner(call) <=> call \in {"none", "group"}
         /\ "and" \in Inner(call) <=> call = "or"
         /\ "not" \in Inner(call) <=> call \in {"and", "not"}
         /\ "group" \in Inner(call) <=> call \in {"and", "not"}
  BY DEF Inner

LEMMA Popped ==
  ASSUME NEW st \in Seq(Frames), st # <<>>
  PROVE  /\ SubSeq(st, 1, Len(st) - 1) \in Seq(Frames) /\ st[Len(st)] \in Frames
         /\ st = Append(SubSeq(st, 1, Len(st) - 1), st[Len(st)])
         /\ Waiting(st) = st[Len(st)].call
  BY DEF Waiting

LEMMA Pushed ==
  ASSUME NEW st \in Seq(Frames), NEW f \in Frames
  PROVE  /\ Append(st, f) \in Seq(Frames) /\ Append(st, f) # <<>>
         /\ Waiting(Append(st, f)) = f.call
         /\ Nested(Append(st, f)) <=> Nested(st) /\ f.call \in Inner(Waiting(st))
<1> DEFINE longer == Append(st, f)
<1>1. /\ longer \in Seq(Frames) /\ longer # <<>> /\ Len(st) \in Nat
      /\ Len(longer) = Len(st) + 1 /\ longer[Len(longer)] = f
      /\ \A k \in 1 .. Len(st) : longer[k] = st[k]
  OBVIOUS
<1>2. ASSUME NEW k \in 1 .. Len(st) + 1 PROVE SubSeq(longer, 1, k - 1) = SubSeq(st, 1, k - 1)
  <2>1. \A m \in 1 .. k - 1 : longer[m] = st[m]
    BY <1>1
  <2>2. SubSeq(longer, 1, k - 1) = [m \in 1 .. k - 1 |-> longer[m]]
        /\ SubSeq(st, 1, k - 1) = [m \in 1 .. k - 1 |-> st[m]]
    BY <1>1
  <2>3. QED
    BY <2>1, <2>2
<1>3. SubSeq(st, 1, Len(st)) = st
  BY <1>1
<1> HIDE DEF longer
<1>4. Waiting(longer) = f.call
  BY <1>1 DEF Waiting
<1>5. ASSUME NEW k \in 1 .. Len(st)
      PROVE  longer[k].call \in Inner(Waiting(SubSeq(longer, 1, k - 1))) <=>
             st[k].call \in Inner(Waiting(SubSeq(st, 1, k - 1)))
  <2>1. k \in 1 .. Len(st) + 1 /\ longer[k] = st[k]
    BY <1>1
  <2>2. SubSeq(longer, 1, k - 1) = SubSeq(st, 1, k - 1)
    BY <1>2, <2>1
  <2>3. QED
    BY <2>1, <2>2
<1>6. Inner(Waiting(SubSeq(longer, 1, Len(longer) - 1))) = Inner(Waiting(st))
  <2>1. Len(st) + 1 \in 1 .. Len(st) + 1 /\ Len(longer) - 1 = Len(st) /\ Len(st) + 1 - 1 = Len(st)
    BY <1>1
  <2>2. SubSeq(longer, 1, Len(longer) - 1) = st
    BY <1>2, <1>3, <2>1
  <2>3. QED
    BY <2>2
<1>7. 1 .. Len(longer) = 1 .. Len(st) \cup {Len(longer)}
  BY <1>1
<1>8. Nested(longer) <=> Nested(st) /\ f.call \in Inner(Waiting(st))
  BY <1>1, <1>5, <1>6, <1>7 DEF Nested
<1>9. QED
  BY <1>1, <1>4, <1>8 DEF longer

\* Where a call can return a tree, what comes next is what may come after it.
LEMMA Follows ==
  ASSUME NEW ts, IsText(ts), NEW st \in Seq(Frames), Nested(st), NEW V,
         NEW r \in Places(ts), NEW u, CanMean(ts, st, V, r, u)
  PROVE  Token(ts, r) \in After(Waiting(st))
<1>1. ASSUME NEW s \in Seq(Frames), NEW q \in Places(ts), NEW x, CanMean(ts, s, V, q, x),
             Waiting(s) \in {"none", "group"}
      PROVE  Token(ts, q) \in AfterExpression
  <2>1. CASE s = <<>>
    BY <1>1, <2>1, NoCallWaits, TokenInside DEF AfterExpression
  <2>2. CASE s # <<>>
    <3>1. PICK o \in Seq(Frames), f \in Frames : s = Append(o, f) /\ Waiting(s) = f.call
      BY <2>2, Popped
    <3>2. f.call = "group"
      BY <1>1, <3>1 DEF Frames
    <3>a. CanMean(ts, Append(o, f), V, q, x)
      BY <1>1, <3>1
    <3>3. \E e \in Places(ts) : \E t : Resumes(ts, f, q, x, e, t) /\ CanMean(ts, o, V, e, t)
      BY <3>a, CallWaits
    <3>4. QED
      BY <3>2, <3>3 DEF Resumes, AfterExpression
  <2>3. QED
    BY <2>1, <2>2
<1>2. ASSUME NEW s \in Seq(Frames), Nested(s), NEW q \in Places(ts), NEW x,
             CanMean(ts, s, V, q, x), Waiting(s) = "or"
      PROVE  Token(ts, q) \in AfterConjunction
  <2>1. s # <<>>
    BY <1>2 DEF Waiting
  <2>2. PICK o \in Seq(Frames), f \in Frames : s = Append(o, f) /\ Waiting(s) = f.call
    BY <2>1, Popped
  <2>3. f.call = "or" /\ f.call \in Inner(Waiting(o))
    BY <1>2, <2>2, Pushed
  <2>4. Waiting(o) \in {"none", "group"}
    BY <2>3, InnerOf, WaitingIs
  <2>5. PICK e \in Places(ts) : \E t : Resumes(ts, f, q, x, e, t) /\ CanMean(ts, o, V, e, t)
    BY <1>2, <2>2, CallWaits
  <2>6. Token(ts, e) \in AfterExpression
    BY <1>1, <2>4, <2>5
  <2>7. e = q \/ Token(ts, q) = "|"
    BY <2>3, <2>5 DEF Resumes
  <2>8. QED
    BY <2>6, <2>7 DEF AfterExpression, AfterConjunction
<1>3. ASSUME Waiting(st) \in {"and", "not"} PROVE Token(ts, r) \in AfterOperand
  <2>1. st # <<>>
    BY <1>3 DEF Waiting
  <2>2. PICK o \in Seq(Frames), f \in Frames : st = Append(o, f) /\ Waiting(st) = f.call
    BY <2>1, Popped
  <2>3. f.call \in Inner(Waiting(o)) /\ Nested(o)
    BY <2>2, Pushed
  <2>4. PICK e \in Places(ts) : \E t : Resumes(ts, f, r, u, e, t) /\ CanMean(ts, o, V, e, t)
    BY <2>2, CallWaits
  <2>5. CASE f.call = "not"
    BY <2>4, <2>5 DEF Resumes
  <2>6. CASE f.call = "and"
    <3>1. Waiting(o) = "or"
      BY <2>3, <2>6, InnerOf, WaitingIs
    <3>2. Token(ts, e) \in AfterConjunction
      BY <1>2, <2>3, <2>4, <3>1
    <3>3. e = r \/ Token(ts, r) = "+"
      BY <2>4, <2>6 DEF Resumes
    <3>4. QED
      BY <3>2, <3>3 DEF AfterConjunction, AfterOperand
  <2>7. QED
    BY <1>3, <2>2, <2>5, <2>6
<1>4. Waiting(st) \in {"none", "group", "or", "and", "not"}
  BY WaitingIs
<1>5. QED
  BY <1>1, <1>2, <1>3, <1>4 DEF After

-----------------------------------------------------------------------------
(* ParseAtom() against the atoms of the grammar                              *)

LEMMA TreesAreMade ==
  /\ \A name, field, hold : Atom(name, field, hold) \in Trees
  /\ \A p \in Trees : Negation(p) \in Trees
  /\ \A p, q \in Trees : Both(p, q) \in Trees /\ Either(p, q) \in Trees
<1>1. \A b : Truth(b) \in Answers
  BY DEF Truth, Answers
<1>2. "throws" \in Answers
  BY DEF Answers
<1>3. \A name, field, hold : Atom(name, field, hold) \in Trees
  BY <1>1, <1>2 DEF Atom, Trees
<1>4. \A p \in Trees : Negation(p) \in Trees
  BY <1>1, <1>2 DEF Negation, Trees
<1>5. \A p, q \in Trees : Both(p, q) \in Trees /\ Either(p, q) \in Trees
  BY DEF Both, Either, Trees
<1>6. QED
  BY <1>3, <1>4, <1>5

\* A state that is given counts without the hold.
LEMMA HoldIsNotAsked ==
  ASSUME NEW name, NEW field \in Fields, NEW hold
  PROVE  Atom(name, field, hold) = Atom(name, field, 0)
<1>1. \A key : KeyIs(key, field, hold) = KeyIs(key, field, 0)
  BY DEF KeyIs, Fields
<1>2. QED
  BY <1>1 DEF Atom

\* A hold ends where ParseAtom() has eaten the closing parenthesis.
LEMMA HoldEnds ==
  ASSUME NEW ts, IsText(ts), NEW i \in Places(ts), NEW j \in Int, i < j
  PROVE  IsHold(ts, i, j) <=>
            /\ Token(ts, i) = "(" /\ Token(ts, i + 1) \in Numbers
            /\ Token(ts, AfterNumber(ts, i + 2)) = ")" /\ j = AfterNumber(ts, i + 2) + 1
<1>1. i \in Int /\ i # j
  BY DEF Places
<1>2. ")" \notin Units
  BY DEF Units
<1>3. CASE Token(ts, i + 2) \in Units
  <2>1. AfterNumber(ts, i + 2) = i + 3 /\ AfterNumber(ts, i + 2) + 1 = i + 4
    BY <1>1, <1>3 DEF AfterNumber
  <2>2. j = i + 4 => j - 1 = i + 3
    BY <1>1
  <2>3. j = i + 3 => j - 1 = i + 2
    BY <1>1
  <2>4. QED
    BY <1>1, <1>2, <1>3, <2>1, <2>2, <2>3 DEF IsHold
<1>4. CASE Token(ts, i + 2) \notin Units
  <2>1. AfterNumber(ts, i + 2) = i + 2 /\ AfterNumber(ts, i + 2) + 1 = i + 3
    BY <1>1, <1>4 DEF AfterNumber
  <2>2. j = i + 3 => j - 1 = i + 2
    BY <1>1
  <2>3. QED
    BY <1>1, <1>4, <2>1, <2>2 DEF IsHold
<1>5. QED
  BY <1>3, <1>4

\* What ParseAtom() returns after a name whose hold ends before k is what the
\* grammar says of that name, hold and state; and the grammar says nothing else
\* where an operand can end.
LEMMA SuffixReads ==
  ASSUME NEW ts, IsText(ts), NEW i \in Places(ts), NEW k \in Places(ts), i < k,
         NEW field, NEW hold,
         AtomMeaning(ts, i, k, k) = Atom(Token(ts, i), field, hold)
  PROVE  LET built == StateSuffix(ts, Token(ts, i), field, hold, k)
         IN /\ built.ok => /\ built.next \in Places(ts) /\ k <= built.next
                           /\ built.node \in Trees
                           /\ IsState(ts, k, built.next)
                           /\ built.node = AtomMeaning(ts, i, k, built.next)
            /\ \A r \in Places(ts) :
                  IsState(ts, k, r) /\ Token(ts, r) \in AfterOperand
                  => built.ok /\ built.next = r /\ built.node = AtomMeaning(ts, i, k, r)
<1> DEFINE built == StateSuffix(ts, Token(ts, i), field, hold, k)
<1>1. i \in Nat /\ k \in Nat /\ Len(ts) \in Nat
  BY DEF Places, IsText
<1>2. CASE Token(ts, k) # "."
  <2>1. built = Built(Atom(Token(ts, i), field, hold), k)
    BY <1>2 DEF StateSuffix
  <2>2. built.ok /\ built.next = k /\ built.node = Atom(Token(ts, i), field, hold)
    BY <2>1 DEF Built
  <2> HIDE DEF built
  <2>3. IsState(ts, k, k)
    BY DEF IsState
  <2>4. \A r : IsState(ts, k, r) => r = k
    BY <1>2 DEF IsState
  <2>5. built.node \in Trees
    BY <2>2, TreesAreMade
  <2>6. QED
    BY <1>1, <2>2, <2>3, <2>4, <2>5 DEF built
<1>3. CASE Token(ts, k) = "." /\ Token(ts, k + 1) \in Fields
  <2>1. built = Built(Atom(Token(ts, i), Token(ts, k + 1), hold), k + 2)
    BY <1>3 DEF StateSuffix
  <2>2. /\ built.ok /\ built.next = k + 2
        /\ built.node = Atom(Token(ts, i), Token(ts, k + 1), hold)
    BY <2>1 DEF Built
  <2> HIDE DEF built
  <2>3. IsState(ts, k, k + 2)
    BY <1>3 DEF IsState
  <2>4. \A r : IsState(ts, k, r) /\ Token(ts, r) \in AfterOperand => r = k + 2
    BY <1>3 DEF IsState, AfterOperand, End
  <2>5. k + 2 \in Places(ts)
    <3>1. Token(ts, k + 1) # End
      BY <1>3 DEF End, Fields
    <3>2. k + 1 \in Places(ts)
      BY <1>3, TokenInside DEF End
    <3>3. k + 1 + 1 \in Places(ts)
      BY <3>1, <3>2, TokenInside
    <3>4. QED
      BY <1>1, <3>3
  <2>6. AtomMeaning(ts, i, k, k + 2) = built.node
    <3> DEFINE j == k + 2
    <3>1. k < j /\ j - 1 = k + 1
      BY <1>1
    <3> HIDE DEF j
    <3>2. AtomMeaning(ts, i, k, j) = Atom(Token(ts, i), Token(ts, k + 1), 0)
      BY <3>1 DEF AtomMeaning
    <3>3. AtomMeaning(ts, i, k, j) = built.node
      BY <1>3, <2>2, <3>2, HoldIsNotAsked
    <3>4. QED
      BY <3>3 DEF j
  <2>7. built.node \in Trees
    BY <2>2, TreesAreMade
  <2>8. k <= k + 2
    BY <1>1
  <2>9. QED
    BY <2>2, <2>3, <2>4, <2>5, <2>6, <2>7, <2>8 DEF built
<1>4. CASE Token(ts, k) = "." /\ Token(ts, k + 1) \notin Fields
  <2>1. ~ built.ok
    BY <1>4 DEF StateSuffix, Thrown
  <2>2. \A r : IsState(ts, k, r) => r = k
    BY <1>4 DEF IsState
  <2>3. Token(ts, k) \notin AfterOperand
    BY <1>4 DEF AfterOperand, End
  <2> HIDE DEF built
  <2>4. QED
    BY <2>1, <2>2, <2>3 DEF built
<1>5. QED
  BY <1>2, <1>3, <1>4

LEMMA AtomReads ==
  ASSUME NEW ts, IsText(ts), NEW i \in Places(ts)
  PROVE  /\ AtomAt(ts, i).ok =>
               /\ AtomAt(ts, i).next \in Places(ts) /\ AtomAt(ts, i).node \in Trees
               /\ AtomAt(ts, i).node \in AtomMeanings(ts, i, AtomAt(ts, i).next)
         /\ \A r \in Places(ts) : \A u \in AtomMeanings(ts, i, r) :
               Token(ts, r) \in AfterOperand =>
                  AtomAt(ts, i).ok /\ AtomAt(ts, i).next = r /\ AtomAt(ts, i).node = u
<1> DEFINE atom == AtomAt(ts, i)
           close == AfterNumber(ts, i + 3)
<1>1. i \in Nat /\ Len(ts) \in Nat
  BY DEF Places, IsText
<1>2. \A r, u : u \in AtomMeanings(ts, i, r) <=>
         \E l \in i + 1 .. r : /\ u = AtomMeaning(ts, i, l, r) /\ Token(ts, i) \in Identifiers
                               /\ IsHold(ts, i + 1, l) /\ IsState(ts, l, r)
  BY DEF AtomMeanings
<1>3. CASE Token(ts, i) \notin Identifiers
  <2>1. ~ atom.ok
    BY <1>3 DEF AtomAt, Thrown
  <2>2. QED
    BY <1>2, <1>3, <2>1
<1>4. ASSUME Token(ts, i) \in Identifiers PROVE i + 1 \in Places(ts)
  BY <1>4, TokenInside, DslAssumption
<1>5. ASSUME Token(ts, i) \in Identifiers, NEW k \in Places(ts), i < k, IsHold(ts, i + 1, k),
             NEW field, NEW hold, AtomMeaning(ts, i, k, k) = Atom(Token(ts, i), field, hold),
             atom = StateSuffix(ts, Token(ts, i), field, hold, k),
             \A l \in Int, r \in Places(ts) :
                i < l /\ IsHold(ts, i + 1, l) /\ IsState(ts, l, r)
                   /\ Token(ts, r) \in AfterOperand => l = k
      PROVE  /\ atom.ok => /\ atom.next \in Places(ts) /\ atom.node \in Trees
                           /\ atom.node \in AtomMeanings(ts, i, atom.next)
             /\ \A r \in Places(ts) : \A u \in AtomMeanings(ts, i, r) :
                   Token(ts, r) \in AfterOperand => atom.ok /\ atom.next = r /\ atom.node = u
  <2> HIDE DEF atom
  <2>1. /\ atom.ok => /\ atom.next \in Places(ts) /\ k <= atom.next
                      /\ atom.node \in Trees
                      /\ IsState(ts, k, atom.next)
                      /\ atom.node = AtomMeaning(ts, i, k, atom.next)
        /\ \A r \in Places(ts) :
              IsState(ts, k, r) /\ Token(ts, r) \in AfterOperand
              => atom.ok /\ atom.next = r /\ atom.node = AtomMeaning(ts, i, k, r)
    BY <1>5, SuffixReads
  <2>2. ASSUME atom.ok PROVE atom.node \in AtomMeanings(ts, i, atom.next)
    <3>1. k \in i + 1 .. atom.next
      BY <1>1, <1>5, <2>1, <2>2 DEF Places
    <3>2. QED
      BY <1>2, <1>5, <2>1, <2>2, <3>1
  <2>3. ASSUME NEW r \in Places(ts), NEW u \in AtomMeanings(ts, i, r),
               Token(ts, r) \in AfterOperand
        PROVE  atom.ok /\ atom.next = r /\ atom.node = u
    <3>1. PICK l \in i + 1 .. r : /\ u = AtomMeaning(ts, i, l, r)
                                  /\ IsHold(ts, i + 1, l) /\ IsState(ts, l, r)
      BY <1>2
    <3>2. l \in Int /\ i < l
      BY <1>1 DEF Places
    <3>3. l = k
      BY <1>5, <2>3, <3>1, <3>2
    <3>4. QED
      BY <2>1, <2>3, <3>1, <3>3
  <2>4. QED
    BY <2>1, <2>2, <2>3
<1>6. CASE Token(ts, i) \in Identifiers /\ Token(ts, i + 1) # "("
  <2>1. i + 1 \in Places(ts) /\ i < i + 1
    BY <1>1, <1>4, <1>6
  <2>2. IsHold(ts, i + 1, i + 1)
    BY DEF IsHold
  <2>3. \A l : IsHold(ts, i + 1, l) => l = i + 1
    BY <1>6 DEF IsHold
  <2>4. atom = StateSuffix(ts, Token(ts, i), "pressed", 0, i + 1)
    BY <1>6 DEF AtomAt
  <2>5. AtomMeaning(ts, i, i + 1, i + 1) = Atom(Token(ts, i), "pressed", 0)
    BY <1>1 DEF AtomMeaning
  <2> HIDE DEF atom
  <2>6. QED
    BY <1>5, <1>6, <2>1, <2>2, <2>3, <2>4, <2>5 DEF atom
<1>7. ASSUME Token(ts, i + 1) = "(", NEW l \in Int, NEW r \in Places(ts), i < l,
             IsHold(ts, i + 1, l), IsState(ts, l, r), Token(ts, r) \in AfterOperand
      PROVE  i + 1 < l
  <2>1. SUFFICES ASSUME l = i + 1 PROVE FALSE
    BY <1>1, <1>7
  <2>2. r = i + 1
    BY <1>7, <2>1 DEF IsState
  <2>3. QED
    BY <1>7, <2>2 DEF AfterOperand, End
<1>8. CASE /\ Token(ts, i) \in Identifiers /\ Token(ts, i + 1) = "("
           /\ Token(ts, i + 2) \in Numbers /\ Token(ts, close) = ")"
  <2>a. i + 1 + 1 = i + 2 /\ i + 1 + 2 = i + 3
    BY <1>1
  <2>1. i + 1 \in Places(ts)
    BY <1>4, <1>8
  <2>2. i + 2 \in Places(ts)
    BY <1>8, <2>1, <2>a, TokenInside DEF End
  <2>3. i + 3 \in Places(ts)
    <3>1. Token(ts, i + 2) # End
      BY <1>8 DEF Numbers, End
    <3>2. i + 2 + 1 \in Places(ts)
      BY <2>2, <3>1, TokenInside
    <3>3. QED
      BY <1>1, <3>2
  <2>4. close \in Places(ts) /\ close \in Nat /\ i + 3 <= close
    <3>1. Token(ts, i + 3) \in Units => i + 3 + 1 \in Places(ts)
      BY <2>3, TokenInside DEF Units, End
    <3>2. close = i + 3 \/ (Token(ts, i + 3) \in Units /\ close = i + 3 + 1)
      BY DEF AfterNumber
    <3> HIDE DEF close
    <3>3. QED
      BY <1>1, <2>3, <3>1, <3>2 DEF Places
  <2>5. close + 1 \in Places(ts)
    BY <1>8, <2>4, TokenInside DEF End
  <2>6. i + 1 < close + 1 /\ i < close + 1 /\ close + 1 \in Int
    BY <1>1, <2>4
  <2>7. IsHold(ts, i + 1, close + 1)
    BY <1>8, <2>1, <2>6, <2>a, HoldEnds
  <2>8. \A l \in Int : i + 1 < l /\ IsHold(ts, i + 1, l) => l = close + 1
    BY <2>1, <2>a, HoldEnds
  <2>9. atom = StateSuffix(ts, Token(ts, i), "held", Seconds[Token(ts, i + 2)], close + 1)
    BY <1>8 DEF AtomAt
  <2>10. AtomMeaning(ts, i, close + 1, close + 1) =
            Atom(Token(ts, i), "held", Seconds[Token(ts, i + 2)])
    BY <2>6 DEF AtomMeaning
  <2> HIDE DEF atom, close
  <2>11. QED
    BY <1>5, <1>7, <1>8, <2>5, <2>6, <2>7, <2>8, <2>9, <2>10 DEF atom
<1>9. CASE /\ Token(ts, i) \in Identifiers /\ Token(ts, i + 1) = "("
           /\ ~ (Token(ts, i + 2) \in Numbers /\ Token(ts, close) = ")")
  <2>a. i + 1 + 1 = i + 2 /\ i + 1 + 2 = i + 3
    BY <1>1
  <2>1. ~ atom.ok
    BY <1>9 DEF AtomAt, Thrown
  <2>2. i + 1 \in Places(ts)
    BY <1>4, <1>9
  <2>3. \A l \in Int : i + 1 < l => ~ IsHold(ts, i + 1, l)
    BY <1>9, <2>2, <2>a, HoldEnds
  <2>4. ASSUME NEW r \in Places(ts), NEW u \in AtomMeanings(ts, i, r),
               Token(ts, r) \in AfterOperand
        PROVE  FALSE
    <3>1. PICK l \in i + 1 .. r : IsHold(ts, i + 1, l) /\ IsState(ts, l, r)
      BY <1>2
    <3>2. l \in Int /\ i < l
      BY <1>1 DEF Places
    <3>3. QED
      BY <1>7, <1>9, <2>3, <2>4, <3>1, <3>2
  <2>5. QED
    BY <2>1, <2>4
<1>10. QED
  BY <1>3, <1>6, <1>8, <1>9

-----------------------------------------------------------------------------
(* The steps of the parser                                                   *)

\* The whole text can come to mean V if ParseUnary() is called at i while st
\* waits for it.
CanRead(ts, st, V, i) ==
    \E r \in Places(ts) : \E u \in Operands(ts, i, r) : CanMean(ts, st, V, r, u)

\* ParseAnd(), with what it has on the left, goes on reading what a conjunction
\* can be.
LEMMA AndReads ==
  ASSUME NEW ts, IsText(ts), NEW st \in Seq(Frames), NEW left, Frame("and", left) \in Frames,
         NEW V, NEW i \in Places(ts)
  PROVE  CanRead(ts, Append(st, Frame("and", left)), V, i) <=>
            \E e \in Places(ts) : \E w \in Conjunctions(ts, i, e) :
                CanMean(ts, st, V, e, Joined(Frame("and", left), w))
<1> DEFINE f == Frame("and", left)
<1>1. \A r \in Places(ts) : \A u :
        CanMean(ts, Append(st, f), V, r, u) <=>
            \E e \in Places(ts) : \E t : Resumes(ts, f, r, u, e, t) /\ CanMean(ts, st, V, e, t)
  BY CallWaits
<1>2. \A e \in Places(ts) : \A t :
        (\E w \in Conjunctions(ts, i, e) : t = Joined(f, w)) <=>
        \E r \in Places(ts) : \E u \in Operands(ts, i, r) : Resumes(ts, f, r, u, e, t)
  BY AndContinues
<1> HIDE DEF f
<1>3. CanRead(ts, Append(st, f), V, i) <=>
        \E e \in Places(ts) : \E w \in Conjunctions(ts, i, e) : CanMean(ts, st, V, e, Joined(f, w))
  <2>1. ASSUME CanRead(ts, Append(st, f), V, i)
        PROVE  \E e \in Places(ts) : \E w \in Conjunctions(ts, i, e) :
                  CanMean(ts, st, V, e, Joined(f, w))
    <3>1. PICK r \in Places(ts) : \E u \in Operands(ts, i, r) : CanMean(ts, Append(st, f), V, r, u)
      BY <2>1 DEF CanRead
    <3>2. PICK u \in Operands(ts, i, r) : CanMean(ts, Append(st, f), V, r, u)
      BY <3>1
    <3>3. PICK e \in Places(ts) : \E t : Resumes(ts, f, r, u, e, t) /\ CanMean(ts, st, V, e, t)
      BY <1>1, <3>2
    <3>4. PICK t : Resumes(ts, f, r, u, e, t) /\ CanMean(ts, st, V, e, t)
      BY <3>3
    <3>5. \E w \in Conjunctions(ts, i, e) : t = Joined(f, w)
      BY <1>2, <3>4
    <3>6. QED
      BY <3>4, <3>5
  <2>2. ASSUME NEW e \in Places(ts), NEW w \in Conjunctions(ts, i, e),
               CanMean(ts, st, V, e, Joined(f, w))
        PROVE  CanRead(ts, Append(st, f), V, i)
    <3>1. \E r \in Places(ts) : \E u \in Operands(ts, i, r) : Resumes(ts, f, r, u, e, Joined(f, w))
      BY <1>2
    <3>2. QED
      BY <1>1, <2>2, <3>1 DEF CanRead
  <2>3. QED
    BY <2>1, <2>2
<1>4. QED
  BY <1>3 DEF f

\* ParseOr(), with what it has on the left, calls ParseAnd().
LEMMA OrReads ==
  ASSUME NEW ts, IsText(ts), NEW st \in Seq(Frames), NEW left, Frame("or", left) \in Frames,
         NEW V, NEW i \in Places(ts)
  PROVE  CanRead(ts, Append(Append(st, Frame("or", left)), Frame("and", <<>>)), V, i) <=>
            \E e \in Places(ts) : \E w \in Expressions(ts, i, e) :
                CanMean(ts, st, V, e, Joined(Frame("or", left), w))
<1> DEFINE f == Frame("or", left)
<1>1. Frame("and", <<>>) \in Frames /\ Append(st, f) \in Seq(Frames)
  BY DEF Frame, Frames
<1>2. \A w : Joined(Frame("and", <<>>), w) = w
  BY DEF Joined, Frame
<1>3. CanRead(ts, Append(Append(st, f), Frame("and", <<>>)), V, i) <=>
        \E r \in Places(ts) : \E u \in Conjunctions(ts, i, r) : CanMean(ts, Append(st, f), V, r, u)
  <2>1. CanRead(ts, Append(Append(st, f), Frame("and", <<>>)), V, i) <=>
          \E r \in Places(ts) : \E u \in Conjunctions(ts, i, r) :
              CanMean(ts, Append(st, f), V, r, Joined(Frame("and", <<>>), u))
    BY <1>1, AndReads
  <2> HIDE DEF f
  <2>2. QED
    BY <1>2, <2>1
<1>4. \A r \in Places(ts) : \A u :
        CanMean(ts, Append(st, f), V, r, u) <=>
            \E e \in Places(ts) : \E t : Resumes(ts, f, r, u, e, t) /\ CanMean(ts, st, V, e, t)
  BY CallWaits
<1>5. \A e \in Places(ts) : \A t :
        (\E w \in Expressions(ts, i, e) : t = Joined(f, w)) <=>
        \E r \in Places(ts) : \E u \in Conjunctions(ts, i, r) : Resumes(ts, f, r, u, e, t)
  BY OrContinues
<1> HIDE DEF f
<1>6. (\E r \in Places(ts) : \E u \in Conjunctions(ts, i, r) : CanMean(ts, Append(st, f), V, r, u)) <=>
        \E e \in Places(ts) : \E w \in Expressions(ts, i, e) : CanMean(ts, st, V, e, Joined(f, w))
  <2>1. (\E r \in Places(ts) : \E u \in Conjunctions(ts, i, r) :
             CanMean(ts, Append(st, f), V, r, u)) <=>
          \E e \in Places(ts) : \E t :
              /\ \E r \in Places(ts) : \E u \in Conjunctions(ts, i, r) : Resumes(ts, f, r, u, e, t)
              /\ CanMean(ts, st, V, e, t)
    BY <1>4
  <2>2. QED
    BY <1>5, <2>1
<1>7. QED
  BY <1>3, <1>6 DEF f

\* A "!" calls ParseUnary() again.
LEMMA NotReads ==
  ASSUME NEW ts, IsText(ts), NEW st \in Seq(Frames), Nested(st),
         Waiting(st) \in {"and", "not"}, NEW V, NEW i \in Places(ts), Token(ts, i) = "!"
  PROVE  CanRead(ts, st, V, i) <=> CanRead(ts, Append(st, Frame("not", <<>>)), V, i + 1)
<1> DEFINE f == Frame("not", <<>>)
<1>1. i \in Nat /\ Len(ts) \in Nat /\ i + 1 \in Places(ts) /\ f \in Frames
  BY TokenInside DEF End, IsText, Frame, Frames
<1>2. \A r \in Places(ts) : \A u :
        CanMean(ts, Append(st, f), V, r, u) <=>
            \E e \in Places(ts) : \E t : Resumes(ts, f, r, u, e, t) /\ CanMean(ts, st, V, e, t)
  BY <1>1, CallWaits
<1>3. \A r, u, e, t : Resumes(ts, f, r, u, e, t) <=>
        e = r /\ t = Negation(u) /\ Token(ts, r) \in AfterOperand
  BY DEF Resumes, Frame
<1> HIDE DEF f
<1>4. \A r \in Places(ts) : \A u :
        CanMean(ts, Append(st, f), V, r, u) <=>
            Token(ts, r) \in AfterOperand /\ CanMean(ts, st, V, r, Negation(u))
  BY <1>2, <1>3
<1>5. \A r \in Places(ts) : \A u : CanMean(ts, st, V, r, u) => Token(ts, r) \in AfterOperand
  BY Follows DEF After
<1>6. ASSUME NEW r \in Places(ts)
      PROVE  \A u : u \in Operands(ts, i, r) <=> \E p \in Operands(ts, i + 1, r) : u = Negation(p)
  <2>1. \A u : u \notin AtomMeanings(ts, i, r)
    BY DslAssumption DEF AtomMeanings, Punctuation
  <2>2. \A p \in Operands(ts, i + 1, r) : i < r
    BY <1>1, PhrasesAreLong DEF Places
  <2>3. QED
    BY <2>1, <2>2, Grammar DEF Places, IsText
<1>7. CanRead(ts, st, V, i) <=> CanRead(ts, Append(st, f), V, i + 1)
  BY <1>4, <1>5, <1>6 DEF CanRead
<1>8. QED
  BY <1>7 DEF f

\* A "(" calls ParseOr().
LEMMA GroupReads ==
  ASSUME NEW ts, IsText(ts), NEW st \in Seq(Frames), NEW V, NEW i \in Places(ts),
         Token(ts, i) = "("
  PROVE  CanRead(ts, st, V, i) <=>
            CanRead(ts, Append(Append(Append(st, Frame("group", <<>>)), Frame("or", <<>>)),
                               Frame("and", <<>>)), V, i + 1)
<1> DEFINE f == Frame("group", <<>>)
           g == Frame("or", <<>>)
<1>1. /\ i \in Nat /\ Len(ts) \in Nat /\ i + 1 \in Places(ts) /\ f \in Frames /\ g \in Frames
      /\ Append(st, f) \in Seq(Frames)
  BY TokenInside DEF End, IsText, Frame, Frames
<1>2. \A r \in Places(ts) : \A u :
        CanMean(ts, Append(st, f), V, r, u) <=>
            \E e \in Places(ts) : \E t : Resumes(ts, f, r, u, e, t) /\ CanMean(ts, st, V, e, t)
  BY <1>1, CallWaits
<1>3. \A r, u, e, t : Resumes(ts, f, r, u, e, t) <=> Token(ts, r) = ")" /\ e = r + 1 /\ t = u
  BY DEF Resumes, Frame
<1>4. \A w : Joined(g, w) = w
  BY DEF Joined, Frame
<1>5. CanRead(ts, Append(Append(Append(st, f), g), Frame("and", <<>>)), V, i + 1) <=>
        \E e \in Places(ts) : \E w \in Expressions(ts, i + 1, e) : CanMean(ts, Append(st, f), V, e, w)
  <2>1. CanRead(ts, Append(Append(Append(st, f), g), Frame("and", <<>>)), V, i + 1) <=>
          \E e \in Places(ts) : \E w \in Expressions(ts, i + 1, e) :
              CanMean(ts, Append(st, f), V, e, Joined(g, w))
    BY <1>1, OrReads
  <2> HIDE DEF f, g
  <2>2. QED
    BY <1>4, <2>1
<1> HIDE DEF f, g
<1>6. ASSUME NEW r \in Places(ts)
      PROVE  \A u : u \in Operands(ts, i, r) <=>
                Token(ts, r - 1) = ")" /\ i + 1 < r /\ u \in Expressions(ts, i + 1, r - 1)
  <2>1. \A u : u \notin AtomMeanings(ts, i, r)
    BY DslAssumption DEF AtomMeanings, Punctuation
  <2>2. QED
    BY <2>1, Grammar DEF Places, IsText
<1>7. ASSUME NEW e \in Places(ts), NEW w \in Expressions(ts, i + 1, e), Token(ts, e) = ")"
      PROVE  e \in Nat /\ e + 1 \in Places(ts) /\ i + 1 < e + 1
  <2>1. e \in Nat /\ e + 1 \in Places(ts)
    BY <1>7, TokenInside DEF End
  <2>2. i + 1 < e
    BY <1>1, PhrasesAreLong
  <2>3. QED
    BY <1>1, <2>1, <2>2
<1>8. ASSUME NEW r \in Places(ts), i + 1 < r PROVE r - 1 \in Places(ts) /\ r - 1 + 1 = r
  BY <1>1, <1>8 DEF Places
<1>9. ASSUME CanRead(ts, st, V, i)
      PROVE  \E e \in Places(ts) : \E w \in Expressions(ts, i + 1, e) : CanMean(ts, Append(st, f), V, e, w)
  <2>1. PICK r \in Places(ts) : \E u \in Operands(ts, i, r) : CanMean(ts, st, V, r, u)
    BY <1>9 DEF CanRead
  <2>2. PICK u \in Operands(ts, i, r) : CanMean(ts, st, V, r, u)
    BY <2>1
  <2>3. Token(ts, r - 1) = ")" /\ i + 1 < r /\ u \in Expressions(ts, i + 1, r - 1)
    BY <1>6
  <2>4. r - 1 \in Places(ts) /\ r - 1 + 1 = r
    BY <1>8, <2>3
  <2>5. Resumes(ts, f, r - 1, u, r, u)
    BY <1>3, <2>3, <2>4
  <2>6. CanMean(ts, Append(st, f), V, r - 1, u)
    BY <1>2, <2>2, <2>4, <2>5
  <2>7. QED
    BY <2>3, <2>4, <2>6
<1>10. ASSUME NEW e \in Places(ts), NEW w \in Expressions(ts, i + 1, e), CanMean(ts, Append(st, f), V, e, w)
       PROVE  CanRead(ts, st, V, i)
  <2>1. Token(ts, e) = ")" /\ CanMean(ts, st, V, e + 1, w)
    BY <1>2, <1>3, <1>10
  <2>2. e \in Nat /\ e + 1 \in Places(ts) /\ i + 1 < e + 1
    BY <1>7, <2>1
  <2> DEFINE d == e + 1
  <2>a. d \in Places(ts) /\ i + 1 < d /\ d - 1 = e
    BY <2>2
  <2> HIDE DEF d
  <2>b. w \in Operands(ts, i, d)
    BY <1>6, <2>1, <2>a
  <2>3. w \in Operands(ts, i, e + 1)
    BY <2>b DEF d
  <2>4. QED
    BY <2>1, <2>2, <2>3 DEF CanRead
<1>11. CanRead(ts, st, V, i) <=>
         CanRead(ts, Append(Append(Append(st, f), g), Frame("and", <<>>)), V, i + 1)
  BY <1>5, <1>9, <1>10
<1>12. QED
  BY <1>11 DEF f, g

\* ParseAtom() returns the only atom that can be meant, or there is none.
LEMMA AtomIsRead ==
  ASSUME NEW ts, IsText(ts), NEW st \in Seq(Frames), Nested(st),
         Waiting(st) \in {"and", "not"}, NEW V, NEW i \in Places(ts),
         Token(ts, i) \notin {"!", "("}
  PROVE  /\ AtomAt(ts, i).ok =>
               (CanRead(ts, st, V, i) <=> CanMean(ts, st, V, AtomAt(ts, i).next, AtomAt(ts, i).node))
         /\ ~ AtomAt(ts, i).ok => ~ CanRead(ts, st, V, i)
<1> DEFINE atom == AtomAt(ts, i)
<1>1. \A r \in Places(ts) : Operands(ts, i, r) = AtomMeanings(ts, i, r)
  <2>1. \A r \in Places(ts) : \A u : u \in Operands(ts, i, r) <=> u \in AtomMeanings(ts, i, r)
    BY Grammar DEF Places, IsText
  <2>2. QED
    BY <2>1
<1>2. \A r \in Places(ts) : \A u : CanMean(ts, st, V, r, u) => Token(ts, r) \in AfterOperand
  BY Follows DEF After
<1>3. /\ atom.ok => atom.next \in Places(ts) /\ atom.node \in AtomMeanings(ts, i, atom.next)
      /\ \A r \in Places(ts) : \A u \in AtomMeanings(ts, i, r) :
            Token(ts, r) \in AfterOperand => atom.ok /\ atom.next = r /\ atom.node = u
  BY AtomReads
<1> HIDE DEF atom
<1>4. /\ atom.ok => (CanRead(ts, st, V, i) <=> CanMean(ts, st, V, atom.next, atom.node))
      /\ ~ atom.ok => ~ CanRead(ts, st, V, i)
  BY <1>1, <1>2, <1>3 DEF CanRead
<1>5. QED
  BY <1>4 DEF atom

\* A waiting call resumes: what the text can mean does not change.
LEMMA Resuming ==
  ASSUME NEW ts, IsText(ts), NEW st \in Seq(Frames), NEW f \in Frames, Nested(Append(st, f)),
         NEW V, NEW i \in Places(ts), NEW u
  PROVE  /\ f.call = "not" =>
              (CanMean(ts, Append(st, f), V, i, u) <=> CanMean(ts, st, V, i, Negation(u)))
         /\ f.call = "group" /\ Token(ts, i) = ")" =>
              (CanMean(ts, Append(st, f), V, i, u) <=> CanMean(ts, st, V, i + 1, u))
         /\ f.call = "group" /\ Token(ts, i) # ")" => ~ CanMean(ts, Append(st, f), V, i, u)
         /\ f.call = "and" /\ Token(ts, i) # "+" =>
              (CanMean(ts, Append(st, f), V, i, u) <=> CanMean(ts, st, V, i, Joined(f, u)))
         /\ f.call = "and" /\ Token(ts, i) = "+" =>
              (CanMean(ts, Append(st, f), V, i, u) <=>
               \E e \in Places(ts) : \E w \in Conjunctions(ts, i + 1, e) :
                  CanMean(ts, st, V, e, Both(Joined(f, u), w)))
         /\ f.call = "or" /\ Token(ts, i) # "|" =>
              (CanMean(ts, Append(st, f), V, i, u) <=> CanMean(ts, st, V, i, Joined(f, u)))
         /\ f.call = "or" /\ Token(ts, i) = "|" =>
              (CanMean(ts, Append(st, f), V, i, u) <=>
               \E e \in Places(ts) : \E w \in Expressions(ts, i + 1, e) :
                  CanMean(ts, st, V, e, Either(Joined(f, u), w)))
<1>1. CanMean(ts, Append(st, f), V, i, u) <=>
         \E e \in Places(ts) : \E t : Resumes(ts, f, i, u, e, t) /\ CanMean(ts, st, V, e, t)
  BY CallWaits
<1>2. Nested(st) /\ f.call \in Inner(Waiting(st))
  BY Pushed
<1>3. \A t : CanMean(ts, st, V, i, t) => Token(ts, i) \in After(Waiting(st))
  BY <1>2, Follows
<1>4. CASE f.call = "not"
  <2>1. \A e, t : Resumes(ts, f, i, u, e, t) <=>
          e = i /\ t = Negation(u) /\ Token(ts, i) \in AfterOperand
    BY <1>4 DEF Resumes
  <2>2. Waiting(st) \in {"and", "not"}
    BY <1>2, <1>4, InnerOf, WaitingIs
  <2>3. After(Waiting(st)) = AfterOperand
    BY <2>2 DEF After
  <2>4. QED
    BY <1>1, <1>3, <1>4, <2>1, <2>3
<1>5. CASE f.call = "group"
  <2>1. \A e, t : Resumes(ts, f, i, u, e, t) <=> Token(ts, i) = ")" /\ e = i + 1 /\ t = u
    BY <1>5 DEF Resumes
  <2>2. Token(ts, i) = ")" => i + 1 \in Places(ts)
    BY TokenInside DEF End
  <2>3. QED
    BY <1>1, <1>5, <2>1, <2>2
<1>6. CASE f.call = "and"
  <2>1. \A e, t : Resumes(ts, f, i, u, e, t) <=>
            \/ e = i /\ t = Joined(f, u)
            \/ Token(ts, i) = "+" /\ \E w \in Conjunctions(ts, i + 1, e) : t = Both(Joined(f, u), w)
    BY <1>6 DEF Resumes
  <2>2. Waiting(st) = "or"
    BY <1>2, <1>6, InnerOf, WaitingIs
  <2>3. Token(ts, i) = "+" => \A t : ~ CanMean(ts, st, V, i, t)
    BY <1>3, <2>2 DEF After, AfterConjunction, End
  <2>4. CASE Token(ts, i) = "+"
    BY <1>1, <1>6, <2>1, <2>3, <2>4
  <2>5. CASE Token(ts, i) # "+"
    BY <1>1, <1>6, <2>1, <2>5
  <2>6. QED
    BY <2>4, <2>5
<1>7. CASE f.call = "or"
  <2>1. \A e, t : Resumes(ts, f, i, u, e, t) <=>
            \/ e = i /\ t = Joined(f, u)
            \/ Token(ts, i) = "|" /\ \E w \in Expressions(ts, i + 1, e) : t = Either(Joined(f, u), w)
    BY <1>7 DEF Resumes
  <2>2. Waiting(st) \in {"none", "group"}
    BY <1>2, <1>7, InnerOf, WaitingIs
  <2>3. Token(ts, i) = "|" => \A t : ~ CanMean(ts, st, V, i, t)
    BY <1>3, <2>2 DEF After, AfterExpression, End
  <2>4. CASE Token(ts, i) = "|"
    BY <1>1, <1>7, <2>1, <2>3, <2>4
  <2>5. CASE Token(ts, i) # "|"
    BY <1>1, <1>7, <2>1, <2>5
  <2>6. QED
    BY <2>4, <2>5
<1>8. QED
  BY <1>4, <1>5, <1>6, <1>7 DEF Frames

-----------------------------------------------------------------------------
(* The invariant: what the text means is what the parser can still come to.  *)

\* The calls that wait are nested as the functions call each other, and the text
\* means exactly what they can return: before ParseUnary() reads, and after a
\* tree is returned.
ParserInv ==
    /\ TypeOKDsl /\ Nested(calls)
    /\ stage = "unary" =>
          /\ Waiting(calls) \in {"and", "not"}
          /\ \A V : V \in Meaning(text) <=> CanRead(text, calls, V, pos)
    /\ stage = "return" =>
          \A V : V \in Meaning(text) <=> CanMean(text, calls, V, pos, value)
    /\ ConditionsReadTheGrammar

LEMMA MeaningIs ==
  ASSUME NEW ts
  PROVE  Meaning(ts) = Expressions(ts, 1, Len(ts) + 1)
  BY DEF Meaning, Expressions

LEMMA TextIsText ==
  ASSUME TypeOKDsl
  PROVE  IsText(text) /\ pos \in Places(text)
  BY DEF TypeOKDsl, IsText, Places

\* The frames the calls push.
LEMMA FramesPushed ==
  /\ Frame("not", <<>>) \in Frames /\ Frame("not", <<>>).call = "not"
  /\ Frame("group", <<>>) \in Frames /\ Frame("group", <<>>).call = "group"
  /\ Frame("or", <<>>) \in Frames /\ Frame("or", <<>>).call = "or"
  /\ Frame("and", <<>>) \in Frames /\ Frame("and", <<>>).call = "and"
  /\ \A t \in Trees : /\ Frame("or", <<t>>) \in Frames /\ Frame("or", <<t>>).call = "or"
                      /\ Frame("and", <<t>>) \in Frames /\ Frame("and", <<t>>).call = "and"
  BY DEF Frame, Frames, Trees

LEMMA CallsPushed ==
  ASSUME NEW st \in Seq(Frames)
  PROVE  /\ st \o ParseAnd = Append(st, Frame("and", <<>>))
         /\ st \o ParseOr = Append(Append(st, Frame("or", <<>>)), Frame("and", <<>>))
<1>1. \A f \in Frames : st \o <<f>> = Append(st, f)
  OBVIOUS
<1>2. \A f, g \in Frames : st \o (<<f>> \o <<g>>) = Append(Append(st, f), g)
  OBVIOUS
<1>3. QED
  BY <1>1, <1>2, FramesPushed DEF ParseAnd, ParseOr

\* ParseOr() can be called where nothing waits and in a group.
LEMMA OrNested ==
  ASSUME NEW st \in Seq(Frames), Nested(st), Waiting(st) \in {"none", "group"}, NEW f \in Frames,
         f.call = "or"
  PROVE  LET calling == Append(Append(st, f), Frame("and", <<>>))
         IN calling \in Seq(Frames) /\ Nested(calling) /\ Waiting(calling) = "and"
<1>1. /\ Append(st, f) \in Seq(Frames) /\ Waiting(Append(st, f)) = "or"
      /\ Nested(Append(st, f)) <=> Nested(st) /\ f.call \in Inner(Waiting(st))
  BY Pushed
<1>2. "or" \in Inner(Waiting(st)) /\ "and" \in Inner("or")
  BY InnerOf
<1>3. Nested(Append(st, f))
  BY <1>1, <1>2
<1>4. Frame("and", <<>>) \in Frames /\ Frame("and", <<>>).call = "and"
  BY FramesPushed
<1>5. QED
  BY <1>1, <1>2, <1>3, <1>4, Pushed

LEMMA JoinedTree ==
  ASSUME NEW f \in Frames, NEW t \in Trees
  PROVE  Joined(f, t) \in Trees
<1>1. CASE f.left = <<>>
  BY <1>1 DEF Joined
<1>2. CASE f.left # <<>>
  <2>1. f.left \in Seq(Trees)
    BY DEF Frames, Trees
  <2>2. f.left[1] \in Trees
    BY <1>2, <2>1
  <2>3. QED
    BY <1>2, <2>2, TreesAreMade DEF Joined
<1>3. QED
  BY <1>1, <1>2

LEMMA ParserInvInit == InitDsl => ParserInv
<1> SUFFICES ASSUME InitDsl PROVE ParserInv
  OBVIOUS
<1>1. /\ text \in Seq(Identifiers \cup Numbers \cup Punctuation)
      /\ pos = 1 /\ stage = "unary" /\ calls = ParseOr
  BY DslAssumption DEF InitDsl
<1>2. IsText(text) /\ 1 \in Places(text) /\ Len(text) + 1 \in Places(text)
  BY <1>1 DEF IsText, Places
<1>3. <<>> \in Seq(Frames) /\ Nested(<<>>) /\ Waiting(<<>>) = "none"
  BY DEF Nested, Waiting
<1>4. calls = Append(Append(<<>>, Frame("or", <<>>)), Frame("and", <<>>))
  <2>1. calls = <<>> \o ParseOr
    BY <1>1 DEF ParseOr, ParseAnd
  <2>2. QED
    BY <1>3, <2>1, CallsPushed
<1>5. calls \in Seq(Frames) /\ Nested(calls) /\ Waiting(calls) = "and"
  BY <1>3, <1>4, OrNested, FramesPushed
<1>6. TypeOKDsl
  BY <1>1, <1>2, <1>5 DEF TypeOKDsl, Places
<1>7. ASSUME NEW V PROVE V \in Meaning(text) <=> CanRead(text, calls, V, pos)
  <2>1. \A w : Joined(Frame("or", <<>>), w) = w
    BY DEF Joined, Frame
  <2>2. CanRead(text, calls, V, 1) <=>
          \E e \in Places(text) : \E w \in Expressions(text, 1, e) :
              CanMean(text, <<>>, V, e, Joined(Frame("or", <<>>), w))
    BY <1>2, <1>3, <1>4, FramesPushed, OrReads
  <2>3. \A e, w : CanMean(text, <<>>, V, e, w) <=> e = Len(text) + 1 /\ w = V
    BY <1>2, NoCallWaits
  <2>4. CanRead(text, calls, V, 1) <=> V \in Expressions(text, 1, Len(text) + 1)
    BY <1>2, <2>1, <2>2, <2>3
  <2>5. QED
    BY <1>1, <2>4, MeaningIs
<1>8. QED
  BY <1>1, <1>5, <1>6, <1>7 DEF ParserInv, ConditionsReadTheGrammar

LEMMA ParserInvStep == ParserInv /\ [NextDsl]_dslVars => ParserInv'
<1> SUFFICES ASSUME ParserInv, [NextDsl]_dslVars PROVE ParserInv'
  OBVIOUS
<1>1. TypeOKDsl /\ Nested(calls) /\ calls \in Seq(Frames)
  BY DEF ParserInv, TypeOKDsl
<1>2. IsText(text) /\ pos \in Places(text) /\ pos \in Nat
  BY <1>1, TextIsText, TokenInside
<1>a. ASSUME text' = text, pos' \in Places(text), calls' \in Seq(Frames), Nested(calls'),
             stage' = "unary", Waiting(calls') \in {"and", "not"},
             \A V : V \in Meaning(text) <=> CanRead(text, calls', V, pos')
      PROVE  ParserInv'
  <2>1. TypeOKDsl'
    BY <1>1, <1>a DEF TypeOKDsl, Places
  <2>2. QED
    BY <1>a, <2>1 DEF ParserInv, ConditionsReadTheGrammar
<1>b. ASSUME text' = text, pos' \in Places(text), calls' \in Seq(Frames), Nested(calls'),
             stage' = "return", value' \in Trees,
             \A V : V \in Meaning(text) <=> CanMean(text, calls', V, pos', value')
      PROVE  ParserInv'
  <2>1. TypeOKDsl'
    BY <1>1, <1>b DEF TypeOKDsl, Places, Trees
  <2>2. QED
    BY <1>b, <2>1 DEF ParserInv, ConditionsReadTheGrammar
<1>c. ASSUME Throw, Meaning(text) = {} PROVE ParserInv'
  <2>1. stage' = "thrown" /\ text' = text /\ pos' = pos /\ calls' = calls /\ value' = value
    BY <1>c DEF Throw
  <2>2. TypeOKDsl'
    BY <1>1, <2>1 DEF TypeOKDsl
  <2>3. QED
    BY <1>1, <1>c, <2>1, <2>2 DEF ParserInv, ConditionsReadTheGrammar
<1>u. ASSUME stage = "unary"
      PROVE  /\ Waiting(calls) \in {"and", "not"}
             /\ \A V : V \in Meaning(text) <=> CanRead(text, calls, V, pos)
  BY <1>u DEF ParserInv
<1>r. ASSUME stage = "return"
      PROVE  /\ value \in Trees
             /\ \A V : V \in Meaning(text) <=> CanMean(text, calls, V, pos, value)
  BY <1>u, <1>r DEF ParserInv, TypeOKDsl, Trees
<1>t. ASSUME NEW call, ReturnTo(call)
      PROVE  /\ Outer \in Seq(Frames) /\ Innermost \in Frames /\ Innermost.call = call
             /\ calls = Append(Outer, Innermost) /\ Nested(Append(Outer, Innermost))
             /\ Nested(Outer) /\ call \in Inner(Waiting(Outer)) /\ stage = "return"
  <2>1. calls # <<>> /\ Innermost.call = call /\ stage = "return"
    BY <1>t DEF ReturnTo
  <2>2. Outer \in Seq(Frames) /\ Innermost \in Frames /\ calls = Append(Outer, Innermost)
    BY <1>1, <2>1, Popped DEF Outer, Innermost
  <2>3. Nested(Append(Outer, Innermost))
    BY <1>1, <2>2
  <2>4. QED
    BY <2>1, <2>2, <2>3, Pushed
<1>3. CASE ParseNot
  <2> DEFINE f == Frame("not", <<>>)
  <2>1. /\ stage = "unary" /\ Token(text, pos) = "!"
        /\ stage' = "unary" /\ pos' = pos + 1 /\ calls' = Append(calls, f) /\ text' = text
    BY <1>3 DEF ParseNot, Descend
  <2>2. f \in Frames /\ f.call = "not"
    BY FramesPushed
  <2>3. Waiting(calls) \in {"and", "not"}
    BY <1>u, <2>1
  <2>4. "not" \in Inner(Waiting(calls))
    BY <2>3, InnerOf
  <2>5. Append(calls, f) \in Seq(Frames) /\ Nested(Append(calls, f)) /\ Waiting(Append(calls, f)) = "not"
    BY <1>1, <2>2, <2>4, Pushed
  <2>6. pos + 1 \in Places(text)
    BY <1>2, <2>1, TokenInside DEF End
  <2>7. \A V : CanRead(text, calls, V, pos) <=> CanRead(text, Append(calls, f), V, pos + 1)
    BY <1>1, <1>2, <2>1, <2>3, NotReads
  <2> HIDE DEF f
  <2>8. \A V : V \in Meaning(text) <=> CanRead(text, calls', V, pos')
    BY <1>u, <2>1, <2>7
  <2>9. QED
    BY <1>a, <2>1, <2>5, <2>6, <2>8
<1>4. CASE ParseGroup
  <2> DEFINE f == Frame("group", <<>>)
             g == Frame("or", <<>>)
             waiting == Append(Append(Append(calls, f), g), Frame("and", <<>>))
  <2>1. /\ stage = "unary" /\ Token(text, pos) = "("
        /\ stage' = "unary" /\ pos' = pos + 1 /\ text' = text
        /\ calls' = calls \o <<f>> \o ParseOr
    BY <1>4 DEF ParseGroup, Descend
  <2>2. f \in Frames /\ f.call = "group" /\ g \in Frames /\ g.call = "or"
    BY FramesPushed
  <2>3. calls \o <<f>> = Append(calls, f)
    BY <1>1, <2>2
  <2>4. "group" \in Inner(Waiting(calls))
    BY <1>u, <2>1, InnerOf
  <2>5. Append(calls, f) \in Seq(Frames) /\ Nested(Append(calls, f)) /\ Waiting(Append(calls, f)) = "group"
    BY <1>1, <2>2, <2>4, Pushed
  <2>6. calls' = waiting
    BY <2>1, <2>3, <2>5, CallsPushed
  <2>7. waiting \in Seq(Frames) /\ Nested(waiting) /\ Waiting(waiting) = "and"
    BY <2>2, <2>5, OrNested
  <2>8. pos + 1 \in Places(text)
    BY <1>2, <2>1, TokenInside DEF End
  <2>9. \A V : CanRead(text, calls, V, pos) <=> CanRead(text, waiting, V, pos + 1)
    BY <1>1, <1>2, <2>1, GroupReads
  <2> HIDE DEF f, g, waiting
  <2>10. \A V : V \in Meaning(text) <=> CanRead(text, calls', V, pos')
    BY <1>u, <2>1, <2>6, <2>9
  <2>11. QED
    BY <1>a, <2>1, <2>6, <2>7, <2>8, <2>10
<1>5. CASE ParseAtom
  <2> DEFINE atom == AtomAt(text, pos)
  <2>1. /\ stage = "unary" /\ Token(text, pos) \notin {"!", "("}
        /\ \/ /\ atom.ok /\ stage' = "return" /\ value' = atom.node /\ pos' = atom.next
              /\ text' = text /\ calls' = calls
           \/ ~ atom.ok /\ Throw
    BY <1>5 DEF ParseAtom
  <2>2. Waiting(calls) \in {"and", "not"}
    BY <1>u, <2>1
  <2>3. atom.ok => atom.next \in Places(text) /\ atom.node \in Trees
    BY <1>2, AtomReads
  <2>4. \A V : /\ atom.ok => (CanRead(text, calls, V, pos) <=> CanMean(text, calls, V, atom.next, atom.node))
               /\ ~ atom.ok => ~ CanRead(text, calls, V, pos)
    BY <1>1, <1>2, <2>1, <2>2, AtomIsRead
  <2> HIDE DEF atom
  <2>5. CASE /\ atom.ok /\ stage' = "return" /\ value' = atom.node /\ pos' = atom.next
             /\ text' = text /\ calls' = calls
    <3>1. \A V : V \in Meaning(text) <=> CanMean(text, calls', V, pos', value')
      BY <1>u, <2>1, <2>4, <2>5
    <3>2. QED
      BY <1>1, <1>b, <2>3, <2>5, <3>1
  <2>6. CASE ~ atom.ok /\ Throw
    <3>1. Meaning(text) = {}
      BY <1>u, <2>1, <2>4, <2>6
    <3>2. QED
      BY <1>c, <2>6, <3>1
  <2>7. QED
    BY <2>1, <2>5, <2>6
<1>6. CASE ReturnNot
  <2>1. /\ ReturnTo("not") /\ value' = Negation(value) /\ pos' = pos /\ calls' = Outer
        /\ text' = text /\ stage' = stage
    BY <1>6 DEF ReturnNot, ReturnOn
  <2>2. /\ Outer \in Seq(Frames) /\ Innermost \in Frames /\ Innermost.call = "not"
        /\ calls = Append(Outer, Innermost) /\ Nested(Append(Outer, Innermost))
        /\ Nested(Outer) /\ stage = "return"
    BY <1>t, <2>1
  <2>3. \A V : CanMean(text, Append(Outer, Innermost), V, pos, value) <=>
               CanMean(text, Outer, V, pos, Negation(value))
    BY <1>2, <2>2, Resuming
  <2>4. \A V : V \in Meaning(text) <=> CanMean(text, calls', V, pos', value')
    BY <1>r, <2>1, <2>2, <2>3
  <2>5. value' \in Trees
    BY <1>r, <2>1, <2>2, TreesAreMade
  <2>6. QED
    BY <1>2, <1>b, <2>1, <2>2, <2>4, <2>5
<1>7. CASE ReturnGroup
  <2>1. /\ ReturnTo("group")
        /\ \/ /\ Token(text, pos) = ")" /\ value' = value /\ pos' = pos + 1 /\ calls' = Outer
              /\ text' = text /\ stage' = stage
           \/ Token(text, pos) # ")" /\ Throw
    BY <1>7 DEF ReturnGroup, ReturnOn
  <2>2. /\ Outer \in Seq(Frames) /\ Innermost \in Frames /\ Innermost.call = "group"
        /\ calls = Append(Outer, Innermost) /\ Nested(Append(Outer, Innermost))
        /\ Nested(Outer) /\ stage = "return"
    BY <1>t, <2>1
  <2>3. CASE /\ Token(text, pos) = ")" /\ value' = value /\ pos' = pos + 1 /\ calls' = Outer
             /\ text' = text /\ stage' = stage
    <3>1. \A V : CanMean(text, Append(Outer, Innermost), V, pos, value) <=>
                 CanMean(text, Outer, V, pos + 1, value)
      BY <1>2, <2>2, <2>3, Resuming
    <3>2. \A V : V \in Meaning(text) <=> CanMean(text, calls', V, pos', value')
      BY <1>r, <2>2, <2>3, <3>1
    <3>3. pos + 1 \in Places(text)
      BY <1>2, <2>3, TokenInside DEF End
    <3>4. QED
      BY <1>b, <1>r, <2>2, <2>3, <3>2, <3>3
  <2>4. CASE Token(text, pos) # ")" /\ Throw
    <3>1. \A V : ~ CanMean(text, Append(Outer, Innermost), V, pos, value)
      BY <1>2, <2>2, <2>4, Resuming
    <3>2. Meaning(text) = {}
      BY <1>r, <2>2, <3>1
    <3>3. QED
      BY <1>c, <2>4, <3>2
  <2>5. QED
    BY <2>1, <2>3, <2>4
<1>8. CASE ReturnAnd
  <2> DEFINE left == Joined(Innermost, value)
             f == Frame("and", <<left>>)
  <2>1. /\ ReturnTo("and")
        /\ \/ /\ Token(text, pos) = "+" /\ stage' = "unary" /\ pos' = pos + 1
              /\ calls' = Append(Outer, f) /\ text' = text
           \/ /\ Token(text, pos) # "+" /\ value' = left /\ pos' = pos /\ calls' = Outer
              /\ text' = text /\ stage' = stage
    BY <1>8 DEF ReturnAnd, ReturnOn, Descend
  <2>2. /\ Outer \in Seq(Frames) /\ Innermost \in Frames /\ Innermost.call = "and"
        /\ calls = Append(Outer, Innermost) /\ Nested(Append(Outer, Innermost))
        /\ Nested(Outer) /\ "and" \in Inner(Waiting(Outer)) /\ stage = "return"
    BY <1>t, <2>1
  <2>3. left \in Trees
    BY <1>r, <2>2, JoinedTree
  <2>4. f \in Frames /\ f.call = "and"
    BY <2>3, FramesPushed
  <2>5. \A w : Joined(f, w) = Both(left, w)
    BY DEF Joined, Frame
  <2>6. CASE /\ Token(text, pos) = "+" /\ stage' = "unary" /\ pos' = pos + 1
             /\ calls' = Append(Outer, f) /\ text' = text
    <3>1. pos + 1 \in Places(text)
      BY <1>2, <2>6, TokenInside DEF End
    <3>2. \A V : CanMean(text, Append(Outer, Innermost), V, pos, value) <=>
                 \E e \in Places(text) : \E w \in Conjunctions(text, pos + 1, e) :
                    CanMean(text, Outer, V, e, Both(left, w))
      BY <1>2, <2>2, <2>6, Resuming
    <3>3. \A V : CanRead(text, Append(Outer, f), V, pos + 1) <=>
                 \E e \in Places(text) : \E w \in Conjunctions(text, pos + 1, e) :
                    CanMean(text, Outer, V, e, Joined(f, w))
      BY <1>2, <2>2, <2>4, <3>1, AndReads
    <3>4. Append(Outer, f) \in Seq(Frames) /\ Nested(Append(Outer, f)) /\ Waiting(Append(Outer, f)) = "and"
      BY <2>2, <2>4, Pushed
    <3> HIDE DEF left, f
    <3>5. \A V : V \in Meaning(text) <=> CanRead(text, calls', V, pos')
      BY <1>r, <2>2, <2>5, <2>6, <3>2, <3>3
    <3>6. QED
      BY <1>a, <2>6, <3>1, <3>4, <3>5
  <2>7. CASE /\ Token(text, pos) # "+" /\ value' = left /\ pos' = pos /\ calls' = Outer
             /\ text' = text /\ stage' = stage
    <3>1. \A V : CanMean(text, Append(Outer, Innermost), V, pos, value) <=>
                 CanMean(text, Outer, V, pos, left)
      BY <1>2, <2>2, <2>7, Resuming
    <3> HIDE DEF left, f
    <3>2. \A V : V \in Meaning(text) <=> CanMean(text, calls', V, pos', value')
      BY <1>r, <2>2, <2>7, <3>1
    <3>3. QED
      BY <1>2, <1>b, <2>2, <2>3, <2>7, <3>2
  <2> HIDE DEF left, f
  <2>8. QED
    BY <2>1, <2>6, <2>7
<1>9. CASE ReturnOr
  <2> DEFINE left == Joined(Innermost, value)
             f == Frame("or", <<left>>)
             waiting == Append(Append(Outer, f), Frame("and", <<>>))
  <2>1. /\ ReturnTo("or")
        /\ \/ /\ Token(text, pos) = "|" /\ stage' = "unary" /\ pos' = pos + 1
              /\ calls' = Append(Outer, f) \o ParseAnd /\ text' = text
           \/ /\ Token(text, pos) # "|" /\ value' = left /\ pos' = pos /\ calls' = Outer
              /\ text' = text /\ stage' = stage
    BY <1>9 DEF ReturnOr, ReturnOn, Descend
  <2>2. /\ Outer \in Seq(Frames) /\ Innermost \in Frames /\ Innermost.call = "or"
        /\ calls = Append(Outer, Innermost) /\ Nested(Append(Outer, Innermost))
        /\ Nested(Outer) /\ "or" \in Inner(Waiting(Outer)) /\ stage = "return"
    BY <1>t, <2>1
  <2>3. left \in Trees
    BY <1>r, <2>2, JoinedTree
  <2>4. f \in Frames /\ f.call = "or"
    BY <2>3, FramesPushed
  <2>5. \A w : Joined(f, w) = Either(left, w)
    BY DEF Joined, Frame
  <2>6. CASE /\ Token(text, pos) = "|" /\ stage' = "unary" /\ pos' = pos + 1
             /\ calls' = Append(Outer, f) \o ParseAnd /\ text' = text
    <3>1. pos + 1 \in Places(text)
      BY <1>2, <2>6, TokenInside DEF End
    <3>2. \A V : CanMean(text, Append(Outer, Innermost), V, pos, value) <=>
                 \E e \in Places(text) : \E w \in Expressions(text, pos + 1, e) :
                    CanMean(text, Outer, V, e, Either(left, w))
      BY <1>2, <2>2, <2>6, Resuming
    <3>3. \A V : CanRead(text, waiting, V, pos + 1) <=>
                 \E e \in Places(text) : \E w \in Expressions(text, pos + 1, e) :
                    CanMean(text, Outer, V, e, Joined(f, w))
      BY <1>2, <2>2, <2>4, <3>1, OrReads
    <3>4. Waiting(Outer) \in {"none", "group"}
      BY <2>2, InnerOf, WaitingIs
    <3>5. waiting \in Seq(Frames) /\ Nested(waiting) /\ Waiting(waiting) = "and"
      BY <2>2, <2>4, <3>4, OrNested
    <3>6. calls' = waiting
      BY <2>2, <2>4, <2>6, CallsPushed, Pushed
    <3> HIDE DEF left, f, waiting
    <3>7. \A V : V \in Meaning(text) <=> CanRead(text, calls', V, pos')
      BY <1>r, <2>2, <2>5, <2>6, <3>2, <3>3, <3>6
    <3>8. QED
      BY <1>a, <2>6, <3>1, <3>5, <3>6, <3>7
  <2>7. CASE /\ Token(text, pos) # "|" /\ value' = left /\ pos' = pos /\ calls' = Outer
             /\ text' = text /\ stage' = stage
    <3>1. \A V : CanMean(text, Append(Outer, Innermost), V, pos, value) <=>
                 CanMean(text, Outer, V, pos, left)
      BY <1>2, <2>2, <2>7, Resuming
    <3> HIDE DEF left, f
    <3>2. \A V : V \in Meaning(text) <=> CanMean(text, calls', V, pos', value')
      BY <1>r, <2>2, <2>7, <3>1
    <3>3. QED
      BY <1>2, <1>b, <2>2, <2>3, <2>7, <3>2
  <2> HIDE DEF left, f
  <2>8. QED
    BY <2>1, <2>6, <2>7
<1>10. CASE Parse
  <2>1. /\ stage = "return" /\ calls = <<>>
        /\ stage' = IF Token(text, pos) = End THEN "parsed" ELSE "thrown"
        /\ text' = text /\ pos' = pos /\ calls' = calls /\ value' = value
    BY <1>10 DEF Parse
  <2>2. \A V : V \in Meaning(text) <=> pos = Len(text) + 1 /\ value = V
    BY <1>2, <1>r, <2>1, NoCallWaits
  <2>3. pos = Len(text) + 1 <=> Token(text, pos) = End
    <3>1. pos # Len(text) + 1 => pos \in DOMAIN text
      BY <1>2 DEF IsText, Places
    <3>2. ASSUME pos \in DOMAIN text PROVE Token(text, pos) # End
      <4>1. text[pos] \in Identifiers \cup Numbers \cup Punctuation
        BY <1>1, <3>2 DEF TypeOKDsl
      <4>2. End \notin Identifiers \cup Numbers \cup Punctuation
        BY DslAssumption DEF Numbers, Punctuation, End
      <4>3. QED
        BY <3>2, <4>1, <4>2 DEF Token
    <3>3. QED
      BY <1>2, <3>1, <3>2, TokenInside
  <2>4. TypeOKDsl'
    BY <1>1, <2>1 DEF TypeOKDsl
  <2>5. ConditionsReadTheGrammar'
    BY <2>1, <2>2, <2>3 DEF ConditionsReadTheGrammar
  <2>6. stage' \in {"parsed", "thrown"}
    BY <2>1
  <2>7. QED
    BY <1>1, <2>1, <2>4, <2>5, <2>6 DEF ParserInv
<1>11. CASE UNCHANGED dslVars
  BY <1>11 DEF dslVars, ParserInv, TypeOKDsl, ConditionsReadTheGrammar
<1>12. QED
  BY <1>3, <1>4, <1>5, <1>6, <1>7, <1>8, <1>9, <1>10, <1>11 DEF NextDsl

\* Whatever the words, the keys and the length of a condition: the parser
\* rejects it exactly when the grammar does not derive it, and what it is
\* compiled to is its one meaning.
THEOREM ConditionsRead == SpecDsl => []ConditionsReadTheGrammar
<1>1. ParserInv => ConditionsReadTheGrammar
  BY DEF ParserInv
<1>2. QED
  BY ParserInvInit, ParserInvStep, <1>1, PTL DEF SpecDsl

\* The parser ends on every condition: no step leaves as much to do as there
\* was.
THEOREM ParsingEnds == SpecDsl => ParserEnds
<1>1. ASSUME ParserInv, ParserInv', [NextDsl]_dslVars
      PROVE  [Remaining' \in Nat /\ Remaining' < Remaining]_dslVars
  <2>1. /\ Len(text) \in Nat /\ pos \in 1 .. Len(text) + 1 /\ calls \in Seq(Frames)
        /\ Len(text') \in Nat /\ pos' \in 1 .. Len(text') + 1 /\ calls' \in Seq(Frames)
    BY <1>1 DEF ParserInv, TypeOKDsl
  <2>2. Len(calls) \in Nat /\ Len(calls') \in Nat
    BY <2>1
  <2>a. ASSUME text' = text, NEW m \in 0 .. 3, pos' = pos + 1, Len(calls') <= Len(calls) + m,
               stage \in {"unary", "return"}
        PROVE  Remaining' \in Nat /\ Remaining' < Remaining
    <3> DEFINE left == Len(text) + 1 - pos
               busy == IF stage' \in {"unary", "return"} THEN 1 ELSE 0
    <3>1. left \in Nat /\ left - 1 \in Nat /\ busy \in 0 .. 1
      BY <2>1, <2>a
    <3>2. Remaining = 4 * left + Len(calls) + 1
      BY <2>a DEF Remaining
    <3>3. Len(text') + 1 - pos' = left - 1
      BY <2>1, <2>a
    <3>4. Remaining' = 4 * (left - 1) + Len(calls') + busy
      BY <3>3 DEF Remaining
    <3> HIDE DEF left, busy
    <3>5. QED
      BY <2>2, <2>a, <3>1, <3>2, <3>4
  <2>b. ASSUME text' = text, pos' = pos, calls' = calls, stage \in {"unary", "return"},
               stage' \notin {"unary", "return"}
        PROVE  Remaining' \in Nat /\ Remaining' < Remaining
    BY <2>1, <2>2, <2>b DEF Remaining
  <2>c. ASSUME ReturnTo("not") \/ ReturnTo("group") \/ ReturnTo("and") \/ ReturnTo("or")
        PROVE  Len(Outer) = Len(calls) - 1 /\ stage = "return"
    <3>1. stage = "return" /\ calls # <<>>
      BY <2>c DEF ReturnTo
    <3>2. Outer \in Seq(Frames) /\ calls = Append(Outer, Innermost)
      BY <2>1, <3>1, Popped DEF Outer, Innermost
    <3>3. Len(Append(Outer, Innermost)) = Len(Outer) + 1 /\ Len(Outer) \in Nat
      BY <3>2
    <3>4. Len(calls) = Len(Outer) + 1
      BY <3>2, <3>3
    <3>5. QED
      BY <3>1, <3>3, <3>4
  <2>d. ASSUME text' = text, pos' = pos \/ pos' = pos + 1, calls' = Outer, stage' = stage,
               ReturnTo("not") \/ ReturnTo("group") \/ ReturnTo("and") \/ ReturnTo("or")
        PROVE  Remaining' \in Nat /\ Remaining' < Remaining
    <3> DEFINE left == Len(text) + 1 - pos
               left2 == Len(text') + 1 - pos'
    <3>1. left \in Nat /\ left2 \in Nat /\ left2 <= left
      BY <2>1, <2>d
    <3>2. Len(calls') = Len(calls) - 1 /\ stage = "return" /\ stage' = "return"
      BY <2>c, <2>d
    <3>3. Remaining = 4 * left + Len(calls) + 1 /\ Remaining' = 4 * left2 + Len(calls') + 1
      BY <3>2 DEF Remaining
    <3> HIDE DEF left, left2
    <3>4. QED
      BY <2>2, <3>1, <3>2, <3>3
  <2>3. CASE ParseNot
    <3>1. Len(calls') = Len(calls) + 1
      BY <2>1, <2>3 DEF ParseNot, Descend
    <3>2. QED
      BY <2>2, <2>3, <2>a, <3>1 DEF ParseNot, Descend
  <2>4. CASE ParseGroup
    <3>1. \A f : Len(calls \o <<f>> \o ParseOr) = Len(calls) + 3
      BY <2>1 DEF ParseOr, ParseAnd
    <3>2. Len(calls') = Len(calls) + 3
      BY <2>4, <3>1 DEF ParseGroup, Descend
    <3>3. QED
      BY <2>2, <2>4, <2>a, <3>2 DEF ParseGroup, Descend
  <2>5. CASE ParseAtom
    <3> DEFINE atom == AtomAt(text, pos)
    <3>1. IsText(text) /\ pos \in Places(text)
      BY <1>1, TextIsText DEF ParserInv
    <3>2. atom.ok => atom.next \in Places(text) /\ atom.node \in AtomMeanings(text, pos, atom.next)
      BY <3>1, AtomReads
    <3> HIDE DEF atom
    <3>3. atom.ok => pos < atom.next
      BY <2>1, <3>2 DEF AtomMeanings, Places
    <3>4. CASE ~ atom.ok
      BY <2>5, <2>b, <3>4 DEF ParseAtom, Throw, atom
    <3>5. CASE atom.ok
      <4>1. /\ stage = "unary" /\ stage' = "return" /\ pos' = atom.next /\ text' = text
            /\ calls' = calls
        BY <2>5, <3>5 DEF ParseAtom, atom
      <4>2. QED
        BY <2>1, <2>2, <3>2, <3>3, <3>5, <4>1 DEF Remaining, Places
    <3>6. QED
      BY <3>4, <3>5
  <2>6. CASE ReturnNot
    BY <2>6, <2>d DEF ReturnNot, ReturnOn
  <2>7. CASE ReturnGroup
    <3>1. CASE Token(text, pos) = ")" /\ ReturnOn(value, pos + 1)
      BY <2>7, <2>d, <3>1 DEF ReturnGroup, ReturnOn
    <3>2. CASE Throw
      BY <2>7, <2>b, <2>c, <3>2 DEF ReturnGroup, Throw
    <3>3. QED
      BY <2>7, <3>1, <3>2 DEF ReturnGroup
  <2>8. CASE ReturnAnd
    <3> DEFINE left == Joined(Innermost, value)
    <3>1. CASE Descend(Append(Outer, Frame("and", <<left>>)))
      <4>1. \A f : Len(Append(Outer, f)) = Len(Outer) + 1
        BY <2>1 DEF Outer
      <4>2. ReturnTo("and") /\ Len(calls') = Len(calls)
        BY <2>2, <2>8, <2>c, <3>1, <4>1 DEF ReturnAnd, Descend
      <4>3. QED
        BY <2>2, <2>a, <2>c, <3>1, <4>2 DEF Descend
    <3>2. CASE ReturnOn(left, pos)
      BY <2>8, <2>d, <3>2 DEF ReturnAnd, ReturnOn
    <3>3. QED
      BY <2>8, <3>1, <3>2 DEF ReturnAnd
  <2>9. CASE ReturnOr
    <3> DEFINE left == Joined(Innermost, value)
    <3>1. CASE Descend(Append(Outer, Frame("or", <<left>>)) \o ParseAnd)
      <4>1. \A f : Len(Append(Outer, f) \o ParseAnd) = Len(Outer) + 2
        BY <2>1 DEF Outer, ParseAnd
      <4>2. ReturnTo("or") /\ Len(calls') = Len(calls) + 1
        BY <2>2, <2>9, <2>c, <3>1, <4>1 DEF ReturnOr, Descend
      <4>3. QED
        BY <2>2, <2>a, <2>c, <3>1, <4>2 DEF Descend
    <3>2. CASE ReturnOn(left, pos)
      BY <2>9, <2>d, <3>2 DEF ReturnOr, ReturnOn
    <3>3. QED
      BY <2>9, <3>1, <3>2 DEF ReturnOr
  <2>10. CASE Parse
    BY <2>10, <2>b DEF Parse
  <2>11. QED
    BY <1>1, <2>3, <2>4, <2>5, <2>6, <2>7, <2>8, <2>9, <2>10 DEF NextDsl
<1>2. QED
  BY ParserInvInit, ParserInvStep, <1>1, PTL DEF SpecDsl, ParserEnds

=============================================================================
