-------------------------- MODULE GetUpControlProofs --------------------------
(***************************************************************************)
(* What the operators of GetUpControl preserve: lemmas for the modules     *)
(* that use them.                                                          *)
(***************************************************************************)
EXTENDS GetUpControl, TLAPS

\* A gate stays a gate while time passes: only its age moves, and the age of one
\* that has just been sampled is the time that passed.
LEMMA LaterGate ==
    ASSUME NEW g \in GateTypes, NEW d \in 1 .. GateGap + 1
    PROVE  LET l == Later(g, d, GateGap)
           IN  /\ l \in GateTypes
               /\ l.armed = g.armed /\ l.qualifying = g.qualifying
               /\ l.hasLast = g.hasLast /\ l.held = g.held
               /\ g.hasLast /\ g.age = 0 => l.age = d
<1> USE GetUpConfigAssumption
<1> DEFINE age == Saturate(g.age + d, GateGap + 1)
<1>1. CASE g.hasLast
  <2>1. age \in 0 .. GateGap + 1 /\ (g.age = 0 => age = d)
    BY DEF Saturate, GateTypes
  <2>2. Later(g, d, GateGap) = [g EXCEPT !.age = age]
    BY <1>1 DEF Later
  <2> HIDE DEF age
  <2>3. QED
    BY <2>1, <2>2 DEF GateTypes
<1>2. CASE ~g.hasLast
  BY <1>2 DEF Later, GateTypes
<1>3. QED
  BY <1>1, <1>2

\* The three helpers that rewrite a gate keep it one.
LEMMA GateRewrites ==
    ASSUME NEW g \in GateTypes
    PROVE  /\ Stamped(g) \in GateTypes /\ Unstamped(g) \in GateTypes
           /\ ResetPending(g) \in GateTypes
           /\ \A b \in BOOLEAN : [g EXCEPT !.armed = b] \in GateTypes
           /\ Stamped(g).armed = g.armed /\ Unstamped(g).armed = g.armed
           /\ ResetPending(g).armed = g.armed
<1>0. 0 \in 0 .. HoldTime - 1 /\ 0 \in 0 .. GateGap + 1
  BY GetUpConfigAssumption
<1>1. Stamped(g) \in GateTypes
  BY <1>0 DEF GateTypes, Stamped
<1>2. Unstamped(g) \in GateTypes
  BY <1>0 DEF GateTypes, Unstamped
<1>3. ResetPending(g) \in GateTypes
  BY <1>0 DEF GateTypes, ResetPending
<1>4. ASSUME NEW b \in BOOLEAN PROVE [g EXCEPT !.armed = b] \in GateTypes
  BY DEF GateTypes
<1>5. /\ Stamped(g).armed = g.armed /\ Unstamped(g).armed = g.armed
      /\ ResetPending(g).armed = g.armed
  BY DEF GateTypes, Stamped, Unstamped, ResetPending
<1>6. QED
  BY <1>1, <1>2, <1>3, <1>4, <1>5

\* update() keeps a gate a gate: a pending hold is always below HoldTime, as one
\* that reaches it fires and is reset.
LEMMA GateNextType ==
    ASSUME NEW g \in GateTypes, NEW requested \in BOOLEAN, NEW tilt \in Tilts
    PROVE  GateNext(g, requested, tilt) \in GateTypes
<1>0. /\ Unstamped(ResetPending(g)) \in GateTypes
      /\ Stamped(g) \in GateTypes
      /\ Stamped(ResetPending(g)) \in GateTypes
      /\ \A b \in BOOLEAN : Stamped([ResetPending(g) EXCEPT !.armed = b]) \in GateTypes
  BY GateRewrites
<1>1. CASE tilt = "invalid"
  BY <1>0, <1>1 DEF GateNext
<1>2. CASE tilt # "invalid" /\ ~requested
  BY <1>0, <1>2 DEF GateNext
<1>3. CASE tilt # "invalid" /\ requested /\ ~g.armed
  BY <1>0, <1>3 DEF GateNext
<1>4. CASE tilt \in {"upright", "leaning"} /\ requested /\ g.armed
  BY <1>0, <1>4 DEF GateNext
<1>5. CASE tilt = "fallen" /\ GateFires(g, requested, tilt)
  BY <1>0, <1>5 DEF GateNext, GateFires
<1>6. CASE tilt = "fallen" /\ requested /\ g.armed /\ ~GateFires(g, requested, tilt)
  <2> DEFINE held == IF GateCounts(g) THEN g.held + g.age ELSE 0
  <2>1. held \in 0 .. HoldTime - 1
    BY <1>6, GetUpConfigAssumption DEF GateFires, GateCounts, GateTypes
  <2>2. [g EXCEPT !.qualifying = TRUE, !.held = held] \in GateTypes
    BY <2>1 DEF GateTypes
  <2>3. GateNext(g, requested, tilt)
            = Stamped([g EXCEPT !.qualifying = TRUE, !.held = held])
    BY <1>6 DEF GateNext
  <2>4. QED
    BY <2>2, <2>3, GateRewrites
<1>7. QED
  BY <1>1, <1>2, <1>3, <1>4, <1>5, <1>6 DEF Tilts

\* A detector likewise.
LEMMA LaterDetector ==
    ASSUME NEW r \in DetectorTypes, NEW d \in Nat \ {0}
    PROVE  LET l == Later(r, d, DetectorGap)
           IN  /\ l \in DetectorTypes
               /\ l.qualifying = r.qualifying /\ l.hasLast = r.hasLast
               /\ l.confirmed = r.confirmed
               /\ r.hasLast /\ r.age = 0 /\ d <= DetectorGap + 1 => l.age = d
<1> USE GetUpConfigAssumption
<1> DEFINE age == Saturate(r.age + d, DetectorGap + 1)
<1>1. CASE r.hasLast
  <2>1. /\ age \in 0 .. DetectorGap + 1
        /\ r.age = 0 /\ d <= DetectorGap + 1 => age = d
    BY DEF Saturate, DetectorTypes
  <2>2. Later(r, d, DetectorGap) = [r EXCEPT !.age = age]
    BY <1>1 DEF Later
  <2> HIDE DEF age
  <2>3. QED
    BY <2>1, <2>2 DEF DetectorTypes
<1>2. CASE ~r.hasLast
  BY <1>2 DEF Later, DetectorTypes
<1>3. QED
  BY <1>1, <1>2

\* update() keeps a detector a detector.
LEMMA DetectorNextType ==
    ASSUME NEW r \in DetectorTypes, NEW tilt \in Tilts
    PROVE  DetectorNext(r, tilt) \in DetectorTypes
<1> USE GetUpConfigAssumption
<1>1. DetectorInit \in DetectorTypes
  BY DEF DetectorInit, DetectorTypes
<1> DEFINE confirmed == IF DetectorCounts(r, tilt)
                        THEN Saturate(r.confirmed + r.age, ConfirmTime) ELSE 0
           counted == [r EXCEPT !.qualifying = (tilt = "fallen"),
                                !.confirmed = confirmed]
<1>2. confirmed \in 0 .. ConfirmTime
  BY DEF Saturate, DetectorTypes
<1> HIDE DEF confirmed
<1>3. counted \in DetectorTypes
  BY <1>2 DEF DetectorTypes
<1>4. Stamped(counted) \in DetectorTypes
  <2>1. 0 \in 0 .. DetectorGap + 1
    OBVIOUS
  <2> HIDE DEF counted
  <2>2. QED
    BY <1>3, <2>1 DEF Stamped, DetectorTypes
<1>5. QED
  BY <1>1, <1>4 DEF DetectorNext, confirmed

\* update() keeps a monitor a monitor, as long as it has not been called after
\* MaxFailures failures; and it decides the recovery by then.
LEMMA MonitorNextType ==
    ASSUME NEW m \in MonitorTypes, NEW s \in Samples, NEW dt \in Nat,
           m.outcome = "running" => m.failures < MaxFailures
    PROVE  LET n == MonitorNext(m, s, dt)
           IN  /\ n \in MonitorTypes
               /\ n.outcome = "running" => n.failures < MaxFailures
<1> USE GetUpConfigAssumption
<1> DEFINE stable == IF StableSample(s) /\ dt <= SampleGap THEN m.stable + dt ELSE 0
           failures == IF s.healthy THEN 0 ELSE m.failures + 1
           counted == [m EXCEPT !.elapsed = m.elapsed + dt, !.stable = stable,
                                !.failures = failures]
<1>1. CASE m.outcome # "running"
  BY <1>1 DEF MonitorNext
<1>2. CASE m.outcome = "running" /\ ~ValidSample(s, dt)
  BY <1>2 DEF MonitorNext, Fail, MonitorTypes, Outcomes, Reasons
<1>3. CASE m.outcome = "running" /\ ValidSample(s, dt)
  <2>1. /\ m.elapsed + dt \in Nat /\ stable \in Nat
        /\ failures \in 0 .. MaxFailures
    BY <1>3 DEF MonitorTypes
  <2> HIDE DEF stable, failures
  <2>2. counted \in MonitorTypes /\ counted.failures = failures
    BY <2>1 DEF MonitorTypes
  <2>3. MonitorNext(m, s, dt) = MonitorSample(m, s, dt)
    BY <1>3 DEF MonitorNext
  <2>4. \/ MonitorSample(m, s, dt) \in
              {Fail(counted, "inference"), Fail(counted, "timeout"),
               [counted EXCEPT !.outcome = "succeeded"]}
        \/ MonitorSample(m, s, dt) = counted /\ failures < MaxFailures
    <3>1. MonitorSample(m, s, dt) =
            CASE failures >= MaxFailures -> Fail(counted, "inference")
              [] s.healthy /\ stable >= StableTime ->
                    [counted EXCEPT !.outcome = "succeeded"]
              [] failures < MaxFailures /\ stable < StableTime
                   /\ m.elapsed + dt >= RecoveryTimeout -> Fail(counted, "timeout")
              [] OTHER -> counted
      BY <1>3 DEF MonitorSample, stable, failures, MonitorTypes
    <3> HIDE DEF counted
    <3>2. CASE failures >= MaxFailures
      <4>1. ~s.healthy
        BY <3>2 DEF failures
      <4>2. ~(failures < MaxFailures)
        BY <2>1, <3>2
      <4>3. MonitorSample(m, s, dt) = Fail(counted, "inference")
        BY <3>1, <3>2, <4>1, <4>2
      <4>4. QED
        BY <4>3
    <3>3. CASE failures < MaxFailures
      BY <2>1, <3>1, <3>3
    <3>4. QED
      BY <2>1, <3>2, <3>3
  <2>5. /\ Fail(counted, "inference") \in MonitorTypes
        /\ Fail(counted, "inference").outcome = "failed"
        /\ Fail(counted, "timeout") \in MonitorTypes
        /\ Fail(counted, "timeout").outcome = "failed"
        /\ [counted EXCEPT !.outcome = "succeeded"] \in MonitorTypes
        /\ [counted EXCEPT !.outcome = "succeeded"].outcome = "succeeded"
    <3> HIDE DEF counted
    <3>1. QED
      BY <2>2 DEF Fail, MonitorTypes, Outcomes, Reasons
  <2>6. QED
    BY <2>2, <2>3, <2>4, <2>5
<1>4. QED
  BY <1>1, <1>2, <1>3
=============================================================================
