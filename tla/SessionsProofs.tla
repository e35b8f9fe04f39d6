--------------------------- MODULE SessionsProofs ---------------------------
(***************************************************************************)
(* Proofs about Sessions, for any number of requests, sessions and pages   *)
(* and any length of the history: one session at a time owns the device's  *)
(* reader, none is left open, a closed session stays as it is, and a page  *)
(* misses only events the history had forgotten.                           *)
(***************************************************************************)
EXTENDS Sessions, TLAPS

-----------------------------------------------------------------------------
(* Types *)

LEMMA InitTypes == Init => TypeOK
<1> SUFFICES ASSUME Init PROVE TypeOK
  OBVIOUS
<1>1. log \in [Ids -> Seq(Events)]
  <2>1. << >> \in Seq(Events)
    OBVIOUS
  <2> QED BY <2>1 DEF Init
<1>2. /\ reader \in [Ids -> {"none", "live", "stale", "closed"}]
      /\ pump \in [Ids -> {"off", "loop", "events", "gone", "failed", "leaving", "dead"}]
      /\ connected \in [Ids -> BOOLEAN] /\ closed \in [Ids -> BOOLEAN]
  BY DEF Init
<1>3. /\ stream \in [Pages -> {"off", "wait", "quiet", "look", "send", "over"}]
      /\ batch \in [Pages -> SUBSET Nat]
      /\ watched \in [Pages -> Ids \cup {None}]
      /\ seen \in [Pages -> Nat] /\ told \in [Pages -> BOOLEAN]
      /\ drops \in Nat
  BY DEF Init
<1>4. /\ plugged \in BOOLEAN /\ simulator \in BOOLEAN
      /\ lock \in Requests \cup {None} /\ active \in Ids \cup {None}
      /\ target \in [Requests -> Ids \cup {None}]
  BY DEF Init
<1>5. at \in [Requests -> {"idle", "probe", "discover", "open", "start",
                          "publish", "close", "join", "arm"}]
  BY DEF Init
<1> QED BY <1>1, <1>2, <1>3, <1>4, <1>5 DEF TypeOK

\* A machine's step changes no type.
LEMMA MachineTypes ==
  ASSUME TypeOK, Machine
  PROVE  TypeOK'
<1>1. CASE Unplug
  <2>1. reader' \in [Ids -> {"none", "live", "stale", "closed"}]
    <3>1. \A s \in Ids : (IF reader[s] = "live" THEN "stale" ELSE reader[s])
                           \in {"none", "live", "stale", "closed"}
      BY DEF TypeOK
    <3> QED BY <1>1, <3>1 DEF Unplug
  <2> QED BY <1>1, <2>1 DEF TypeOK, Unplug, server, page
<1>2. CASE Plug \/ SimulatorStarts \/ SimulatorStops
  BY <1>2 DEF TypeOK, Plug, SimulatorStarts, SimulatorStops, server, session, page
<1> QED BY <1>1, <1>2 DEF Machine

LEMMA LeaveTypes ==
  ASSUME TypeOK, NEW r \in Requests, Leave(r)
  PROVE  /\ lock' \in Requests \cup {None}
         /\ at' \in [Requests -> {"idle", "probe", "discover", "open", "start",
                                  "publish", "close", "join", "arm"}]
         /\ target' \in [Requests -> Ids \cup {None}]
  BY DEF TypeOK, Leave

LEMMA RecordTypes ==
  ASSUME TypeOK, NEW s \in Ids, NEW event \in Events,
         Record(s, event) \/ AppendEvent(s, event)
  PROVE  log' \in [Ids -> Seq(Events)]
<1>1. Append(log[s], event) \in Seq(Events)
  BY DEF TypeOK
<1>2. CASE AppendEvent(s, event)
  BY <1>1, <1>2 DEF TypeOK, AppendEvent
<1>3. CASE Record(s, event) /\ ~AppendEvent(s, event)
  BY <1>3 DEF TypeOK, Record
<1> QED BY <1>2, <1>3

\* Creating.
LEMMA CreateTypes ==
  ASSUME TypeOK, NEW r \in Requests,
         BeginCreate(r) \/ Probe(r) \/ Discover(r) \/ OpenReader(r)
           \/ StartPump(r) \/ Publish(r),
         at[r] \in {"start", "publish"} => target[r] \in Ids
  PROVE  TypeOK'
<1>1. CASE BeginCreate(r)
  BY <1>1 DEF TypeOK, BeginCreate, session, page
<1>2. CASE Probe(r)
  BY <1>2, LeaveTypes DEF TypeOK, Probe, session, page
<1>3. CASE Discover(r)
  BY <1>3, LeaveTypes DEF TypeOK, Discover, session, page
<1>4. CASE OpenReader(r)
  <2>1. reader' \in [Ids -> {"none", "live", "stale", "closed"}]
    <3>1. \/ UNCHANGED reader
          \/ \E s \in Ids : reader' = [reader EXCEPT ![s] = "live"]
      BY <1>4 DEF OpenReader
    <3> QED BY <3>1 DEF TypeOK
  <2>2. /\ lock' \in Requests \cup {None}
        /\ at' \in [Requests -> {"idle", "probe", "discover", "open", "start",
                                 "publish", "close", "join", "arm"}]
        /\ target' \in [Requests -> Ids \cup {None}]
    BY <1>4, LeaveTypes DEF TypeOK, OpenReader
  <2> QED BY <1>4, <2>1, <2>2 DEF TypeOK, OpenReader, page
<1>5. CASE StartPump(r)
  BY <1>5 DEF TypeOK, StartPump, page
<1>6. CASE Publish(r)
  BY <1>6, LeaveTypes DEF TypeOK, Publish, session, page
<1> QED BY <1>1, <1>2, <1>3, <1>4, <1>5, <1>6

\* Closing and arming.
LEMMA CloseTypes ==
  ASSUME TypeOK, NEW r \in Requests,
         BeginClose(r) \/ Close(r) \/ Join(r) \/ GetForArm(r) \/ Arm(r),
         at[r] = "arm" => target[r] \in Ids
  PROVE  TypeOK'
<1>1. CASE BeginClose(r)
  BY <1>1 DEF TypeOK, BeginClose, session, page
<1>2. CASE Close(r)
  BY <1>2 DEF TypeOK, Close, TellStop, page
<1>3. CASE Join(r)
  BY <1>3, LeaveTypes DEF TypeOK, Join, session, page
<1>4. CASE GetForArm(r)
  BY <1>4 DEF TypeOK, GetForArm, session, page
<1>5. CASE Arm(r)
  <2>1. log' \in [Ids -> Seq(Events)]
    BY <1>5, RecordTypes DEF Arm, Events, TypeOK
  <2> QED BY <1>5, <2>1 DEF TypeOK, Arm, page
<1> QED BY <1>1, <1>2, <1>3, <1>4, <1>5

\* The pump.
LEMMA PumpTypes ==
  ASSUME TypeOK, NEW s \in Ids, Pump(s)
  PROVE  TypeOK'
<1>1. CASE Drain(s)
  BY <1>1 DEF TypeOK, Drain, server, page
<1>2. CASE Stop(s) \/ Discard(s)
  BY <1>2 DEF TypeOK, Stop, Discard, server, page
<1>3. CASE Observe(s)
  <2>1. log' \in [Ids -> Seq(Events)]
    BY <1>3, RecordTypes DEF Observe, Events
  <2> QED BY <1>3, <2>1 DEF TypeOK, Observe, server, page
<1>4. CASE ObserveGone(s) \/ ObserveFailure(s)
  <2>1. log' \in [Ids -> Seq(Events)]
    BY <1>4, RecordTypes DEF ObserveGone, ObserveFailure, Events
  <2> QED BY <1>4, <2>1 DEF TypeOK, ObserveGone, ObserveFailure, server, page
<1>5. CASE CloseReader(s)
  BY <1>5 DEF TypeOK, CloseReader, server, page
<1> QED BY <1>1, <1>2, <1>3, <1>4, <1>5 DEF Pump

\* The streams and the pages.
PageStep(p) == Connect(p) \/ Refuse(p) \/ Stream(p) \/ Drop(p)

LEMMA PageTypes ==
  ASSUME TypeOK, NEW p \in Pages, PageStep(p)
  PROVE  TypeOK'
<1> USE SessionsAssumption
<1>1. CASE Connect(p)
  BY <1>1 DEF TypeOK, Connect, Begins, server, session
<1>2. CASE Refuse(p) \/ KeepAlive(p) \/ AfterQuiet(p) \/ EndQuiet(p) \/ AfterSend(p)
  <2>1. \E to \in {"wait", "quiet", "look", "off", "over"} :
            stream' = [stream EXCEPT ![p] = to]
    BY <1>2 DEF Refuse, KeepAlive, AfterQuiet, EndQuiet, AfterSend
  <2>2. stream' \in [Pages -> {"off", "wait", "quiet", "look", "send", "over"}]
    BY <2>1 DEF TypeOK
  <2>3. UNCHANGED <<plugged, simulator, server, session, batch, watched, seen, told, drops>>
    BY <1>2 DEF Refuse, KeepAlive, AfterQuiet, EndQuiet, AfterSend
  <2> QED BY <2>2, <2>3 DEF TypeOK, server, session
<1>3. CASE Wake(p)
  <2>1. Fresh(p) \in SUBSET Nat
    BY DEF Fresh
  <2> QED BY <1>3, <2>1 DEF TypeOK, Wake, server, session
<1>4. CASE Send(p)
  BY <1>4 DEF TypeOK, Send, server, session
<1>5. CASE Drop(p)
  BY <1>5 DEF TypeOK, Drop, server, session
<1> QED BY <1>1, <1>2, <1>3, <1>4, <1>5 DEF PageStep, Stream
-----------------------------------------------------------------------------
(* The invariant *)

\* The places of a request that holds the manager's lock.
Busy == {"probe", "discover", "open", "start", "publish", "close", "join"}

\* The lock is held by the request that is in one of them.
Held == \A r \in Requests : at[r] \in Busy <=> lock = r

\* What a request knows of the session it works on.
Target(r) ==
    /\ at[r] \in {"open", "start", "publish"} => active = None
    /\ at[r] \in {"start", "publish", "close", "join", "arm"} => target[r] \in Ids
    /\ at[r] = "start" => pump[target[r]] = "off" /\ Open(target[r])
    /\ at[r] = "publish" => reader[target[r]] # "none"
    /\ at[r] \in {"close", "join"} => active = target[r]

Targets == \A r \in Requests : Target(r)

\* A reader lives as long as its pump.
Readers ==
    \A s \in Ids :
        /\ pump[s] = "off" => reader[s] # "closed"
        /\ pump[s] \in {"loop", "events", "gone", "failed", "leaving"} => Open(s)
        /\ pump[s] = "dead" <=> reader[s] = "closed"
        /\ active = s => reader[s] # "none"

IInv == TypeOK /\ Held /\ Targets /\ Readers /\ NoOrphan

LEMMA InitIInv == Init => IInv
<1> SUFFICES ASSUME Init PROVE IInv
  OBVIOUS
<1>1. Held
  BY SessionsAssumption DEF Init, Held, Busy
<1>2. Targets /\ Readers /\ NoOrphan
  BY SessionsAssumption DEF Init, Targets, Target, Readers, NoOrphan, Open
<1> QED BY <1>1, <1>2, InitTypes DEF IInv

\* The machine makes readers stale and nothing else.
LEMMA MachineIInv ==
  ASSUME IInv, Machine
  PROVE  IInv'
<1>1. TypeOK'
  BY MachineTypes DEF IInv
<1>2. UNCHANGED <<lock, at, target, active, pump>>
  BY DEF Machine, Unplug, Plug, SimulatorStarts, SimulatorStops, server, session
<1>3. \A s \in Ids : /\ Open(s)' = Open(s)
                    /\ (reader'[s] = "none") = (reader[s] = "none")
                    /\ (reader'[s] = "closed") = (reader[s] = "closed")
  BY DEF IInv, TypeOK, Open, Machine, Unplug, Plug, SimulatorStarts, SimulatorStops, session
<1>4. Held'
  BY <1>2 DEF IInv, Held
<1>5. Targets'
  BY <1>2, <1>3 DEF IInv, Targets, Target
<1>6. Readers'
  BY <1>2, <1>3 DEF IInv, Readers
<1>7. NoOrphan'
  BY <1>2, <1>3 DEF IInv, NoOrphan
<1> QED BY <1>1, <1>4, <1>5, <1>6, <1>7 DEF IInv

\* A request that takes the lock finds it free.
LEMMA TakeIInv ==
  ASSUME IInv, NEW r \in Requests, BeginCreate(r) \/ BeginClose(r) \/ GetForArm(r)
  PROVE  IInv'
<1> USE SessionsAssumption
<1>1. TypeOK'
  BY CreateTypes, CloseTypes DEF IInv, BeginCreate, BeginClose, GetForArm
<1>2. at[r] = "idle" /\ lock = None /\ UNCHANGED <<active, reader, pump>>
  BY DEF BeginCreate, BeginClose, GetForArm, session
<1>3. CASE BeginCreate(r)
  <2>1. lock' = r /\ target' = target /\ at' = [at EXCEPT ![r] = "probe"]
    BY <1>3 DEF BeginCreate
  <2>2. Held'
    BY <1>2, <2>1 DEF IInv, TypeOK, Held, Busy
  <2>3. Targets' /\ Readers'
    BY <1>2, <2>1 DEF IInv, TypeOK, Targets, Target, Readers, Open
  <2>4. NoOrphan'
    BY <1>2, <2>1 DEF IInv, TypeOK, NoOrphan, Open
  <2> QED BY <1>1, <2>2, <2>3, <2>4 DEF IInv
<1>4. CASE BeginClose(r)
  <2>1. /\ lock' = r /\ target' = [target EXCEPT ![r] = active]
        /\ at' = [at EXCEPT ![r] = "close"] /\ active \in Ids
    BY <1>4 DEF BeginClose, IInv, TypeOK
  <2>2. Held'
    BY <1>2, <2>1 DEF IInv, TypeOK, Held, Busy
  <2>3. Targets' /\ Readers'
    BY <1>2, <2>1 DEF IInv, TypeOK, Targets, Target, Readers, Open
  <2>4. NoOrphan'
    BY <1>2, <2>1 DEF IInv, TypeOK, NoOrphan, Open
  <2> QED BY <1>1, <2>2, <2>3, <2>4 DEF IInv
<1>5. CASE GetForArm(r)
  <2>1. /\ lock' = lock /\ target' = [target EXCEPT ![r] = active]
        /\ at' = [at EXCEPT ![r] = "arm"] /\ active \in Ids
    BY <1>5 DEF GetForArm, IInv, TypeOK
  <2>2. Held'
    BY <1>2, <2>1 DEF IInv, TypeOK, Held, Busy
  <2>3. Targets' /\ Readers'
    BY <1>2, <2>1 DEF IInv, TypeOK, Targets, Target, Readers, Open
  <2>4. NoOrphan'
    BY <1>2, <2>1 DEF IInv, TypeOK, NoOrphan, Open
  <2> QED BY <1>1, <2>2, <2>3, <2>4 DEF IInv
<1> QED BY <1>3, <1>4, <1>5

\* A request that answers lets the lock go.
LEMMA LeaveHeld ==
  ASSUME IInv, NEW r \in Requests, at[r] \in Busy, Leave(r)
  PROVE  Held' /\ lock = r
  BY SessionsAssumption DEF IInv, TypeOK, Held, Busy, Leave

\* From the lock to the answer, when a session is created.
LEMMA CreateIInv ==
  ASSUME IInv, NEW r \in Requests,
         Probe(r) \/ Discover(r) \/ OpenReader(r) \/ StartPump(r) \/ Publish(r)
  PROVE  IInv'
<1> USE SessionsAssumption
<1>1. TypeOK'
  BY CreateTypes DEF IInv, Targets, Target
<1>2. at[r] \in Busy
  BY DEF Busy, Probe, Discover, OpenReader, StartPump, Publish
<1>3. lock = r
  BY <1>2 DEF IInv, Held
<1>4. CASE Probe(r) \/ Discover(r)
  <2>1. UNCHANGED <<active, reader, pump>> /\ at[r] \in {"probe", "discover"}
    BY <1>4 DEF Probe, Discover, session
  <2>2. CASE Leave(r)
    <3>1. Targets'
      BY <2>1, <2>2 DEF IInv, TypeOK, Targets, Target, Open, Leave
    <3>2. Readers' /\ NoOrphan'
      BY <2>1, <2>2, <1>3 DEF IInv, TypeOK, Readers, NoOrphan, Open, Leave
    <3> QED BY <1>1, <1>2, <2>2, <3>1, <3>2, LeaveHeld DEF IInv
  <2>3. CASE ~Leave(r)
    <3>1. /\ lock' = lock /\ target' = target
          /\ \/ at' = [at EXCEPT ![r] = "discover"]
             \/ at' = [at EXCEPT ![r] = "open"] /\ active = None
      BY <1>4, <2>3 DEF Probe, Discover, MayDiscover
    <3>2. Held'
      BY <1>2, <3>1 DEF IInv, TypeOK, Held, Busy
    <3>3. Targets'
      BY <2>1, <3>1 DEF IInv, TypeOK, Targets, Target, Open
    <3>4. Readers' /\ NoOrphan'
      BY <2>1, <1>3, <3>1 DEF IInv, TypeOK, Readers, NoOrphan, Open
    <3> QED BY <1>1, <3>2, <3>3, <3>4 DEF IInv
  <2> QED BY <2>2, <2>3
<1>5. CASE OpenReader(r)
  <2>0. at[r] = "open" /\ UNCHANGED <<active, pump>>
    BY <1>5 DEF OpenReader
  <2>1. at[r] = "open" /\ UNCHANGED <<active, pump>> /\ active = None
    BY <2>0 DEF IInv, Targets, Target
  <2>2. \A s \in Ids : ~Open(s)
    BY <2>1, <1>3 DEF IInv, NoOrphan
  <2>3. CASE plugged
    <3>1. PICK s \in Ids : /\ reader[s] = "none"
                          /\ reader' = [reader EXCEPT ![s] = "live"]
                          /\ target' = [target EXCEPT ![r] = s]
                          /\ at' = [at EXCEPT ![r] = "start"]
                          /\ lock' = lock
      BY <1>5, <2>3 DEF OpenReader
    <3>2. Held'
      BY <1>2, <3>1 DEF IInv, TypeOK, Held, Busy
    <3>3. pump[s] = "off"
      BY <2>2, <3>1 DEF IInv, TypeOK, Readers
    <3>4. \A t \in Ids : Open(t)' <=> t = s
      BY <2>2, <3>1 DEF IInv, TypeOK, Open
    <3>5. Targets'
      <4> SUFFICES ASSUME NEW q \in Requests PROVE Target(q)'
        BY DEF Targets, Target
      <4>1. CASE q = r
        <5>1. target'[q] = s /\ at'[q] = "start" /\ pump' = pump /\ active' = None
          BY <4>1, <2>1, <3>1 DEF IInv, TypeOK
        <5> QED BY <5>1, <3>3, <3>4 DEF Target
      <4>2. CASE q # r
        <5>1. at[q] \notin Busy
          BY <4>2, <1>3 DEF IInv, Held
        <5> QED BY <4>2, <5>1, <2>1, <3>1 DEF IInv, TypeOK, Targets, Target, Busy
      <4> QED BY <4>1, <4>2
    <3>6. Readers'
      BY <2>1, <3>1, <3>3, <3>4 DEF IInv, TypeOK, Readers, Open
    <3>7. NoOrphan'
      BY <1>3, <3>1, <3>4 DEF IInv, TypeOK, NoOrphan
    <3> QED BY <1>1, <3>2, <3>5, <3>6, <3>7 DEF IInv
  <2>4. CASE ~plugged
    <3>1. Leave(r) /\ reader' = reader
      BY <1>5, <2>4 DEF OpenReader
    <3>2. Targets' /\ Readers' /\ NoOrphan'
      BY <2>1, <2>2, <3>1 DEF IInv, TypeOK, Targets, Target, Readers, NoOrphan, Open, Leave
    <3> QED BY <1>1, <1>2, <3>1, <3>2, LeaveHeld DEF IInv
  <2> QED BY <2>3, <2>4
<1>6. CASE StartPump(r)
  <2>1. /\ at[r] = "start" /\ UNCHANGED <<lock, active, target, reader>>
        /\ pump' = [pump EXCEPT ![target[r]] = "loop"]
        /\ at' = [at EXCEPT ![r] = "publish"]
    BY <1>6 DEF StartPump
  <2>2. target[r] \in Ids /\ pump[target[r]] = "off" /\ Open(target[r]) /\ active = None
    BY <2>1 DEF IInv, Targets, Target
  <2>3. Held'
    BY <1>2, <2>1 DEF IInv, TypeOK, Held, Busy
  <2>4. Targets'
    <3> SUFFICES ASSUME NEW q \in Requests PROVE Target(q)'
      BY DEF Targets, Target
    <3>1. CASE q = r
      BY <3>1, <2>1, <2>2 DEF IInv, TypeOK, Target, Open
    <3>2. CASE q # r
      <4>1. at[q] \notin Busy
        BY <3>2, <1>3 DEF IInv, Held
      <4> QED BY <3>2, <4>1, <2>1 DEF IInv, TypeOK, Targets, Target, Busy
    <3> QED BY <3>1, <3>2
  <2>5. Readers'
    BY <2>1, <2>2 DEF IInv, TypeOK, Readers, Open
  <2>6. NoOrphan'
    BY <2>1, <1>3 DEF IInv, TypeOK, NoOrphan, Open
  <2> QED BY <1>1, <2>3, <2>4, <2>5, <2>6 DEF IInv
<1>7. CASE Publish(r)
  <2>1. /\ at[r] = "publish" /\ UNCHANGED <<reader, pump>>
        /\ active' = target[r] /\ Leave(r)
    BY <1>7 DEF Publish, session
  <2>2. target[r] \in Ids /\ reader[target[r]] # "none"
    BY <2>1 DEF IInv, Targets, Target
  <2>3. Targets'
    <3> SUFFICES ASSUME NEW q \in Requests PROVE Target(q)'
      BY DEF Targets, Target
    <3>1. CASE q = r
      BY <3>1, <2>1 DEF IInv, TypeOK, Target, Leave
    <3>2. CASE q # r
      <4>1. at[q] \notin Busy
        BY <3>2, <1>3 DEF IInv, Held
      <4> QED BY <3>2, <4>1, <2>1 DEF IInv, TypeOK, Targets, Target, Busy, Leave
    <3> QED BY <3>1, <3>2
  <2>4. Readers'
    BY <2>1, <2>2 DEF IInv, Readers, Open
  <2>5. NoOrphan'
    <3>1. active = None
      BY <2>1 DEF IInv, Targets, Target
    <3> QED BY <2>1, <3>1, <1>3 DEF IInv, NoOrphan, Open
  <2> QED BY <1>1, <1>2, <2>1, <2>3, <2>4, <2>5, LeaveHeld DEF IInv
<1> QED BY <1>4, <1>5, <1>6, <1>7

\* Closing a session, and arming one that was looked up.
LEMMA CloseIInv ==
  ASSUME IInv, NEW r \in Requests, Close(r) \/ Join(r) \/ Arm(r)
  PROVE  IInv'
<1> USE SessionsAssumption
<1>1. TypeOK'
  BY CloseTypes DEF IInv, Targets, Target
<1>2. UNCHANGED <<reader, pump>>
  BY DEF Close, Join, Arm, session
<1>3. Target(r)
  BY DEF IInv, Targets
<1>4. CASE Close(r)
  <2>1. /\ at[r] = "close" /\ UNCHANGED <<lock, active, target>>
        /\ at' = [at EXCEPT ![r] = "join"]
    BY <1>4 DEF Close
  <2>2. Held'
    BY <2>1 DEF IInv, TypeOK, Held, Busy
  <2>3. Targets'
    BY <1>2, <2>1 DEF IInv, TypeOK, Targets, Target, Open
  <2>4. Readers' /\ NoOrphan'
    BY <1>2, <2>1 DEF IInv, TypeOK, Held, Busy, Readers, NoOrphan, Open
  <2> QED BY <1>1, <2>2, <2>3, <2>4 DEF IInv
<1>5. CASE Join(r)
  <2>1. at[r] = "join" /\ pump[target[r]] = "dead" /\ active' = None /\ Leave(r)
    BY <1>5 DEF Join, Joined
  <2>2. target[r] \in Ids /\ active = target[r] /\ lock = r
    BY <1>3, <2>1 DEF Target, IInv, Held, Busy
  <2>3. \A s \in Ids : ~Open(s)
    BY <2>1, <2>2 DEF IInv, NoOrphan, Readers, Open
  <2>4. Targets'
    <3> SUFFICES ASSUME NEW q \in Requests PROVE Target(q)'
      BY DEF Targets
    <3>1. CASE q = r
      BY <3>1, <2>1 DEF IInv, TypeOK, Target, Leave
    <3>2. CASE q # r
      <4>1. at[q] \notin Busy
        BY <3>2, <2>2 DEF IInv, Held
      <4> QED BY <3>2, <4>1, <2>1, <1>2 DEF IInv, TypeOK, Targets, Target, Busy, Leave, Open
    <3> QED BY <3>1, <3>2
  <2>5. Readers' /\ NoOrphan'
    BY <1>2, <2>1, <2>3 DEF IInv, Readers, NoOrphan, Open
  <2>6. Held'
    BY <2>1, LeaveHeld DEF Busy
  <2> QED BY <1>1, <2>4, <2>5, <2>6 DEF IInv
<1>6. CASE Arm(r)
  <2>1. /\ at[r] = "arm" /\ UNCHANGED <<lock, active>>
        /\ at' = [at EXCEPT ![r] = "idle"] /\ target' = [target EXCEPT ![r] = None]
    BY <1>6 DEF Arm
  <2>2. Held'
    BY <2>1 DEF IInv, TypeOK, Held, Busy
  <2>3. Targets'
    BY <1>2, <2>1 DEF IInv, TypeOK, Targets, Target, Open
  <2>4. Readers' /\ NoOrphan'
    BY <1>2, <2>1 DEF IInv, TypeOK, Held, Busy, Readers, NoOrphan, Open
  <2> QED BY <1>1, <2>2, <2>3, <2>4 DEF IInv
<1> QED BY <1>4, <1>5, <1>6

\* The pump moves on, and closes its reader when it dies.
LEMMA PumpIInv ==
  ASSUME IInv, NEW s \in Ids, Pump(s)
  PROVE  IInv'
<1>1. TypeOK'
  BY PumpTypes DEF IInv
<1>2. UNCHANGED <<lock, active, at, target>>
  BY DEF Pump, Drain, Stop, Discard, Observe, ObserveGone, ObserveFailure, CloseReader, server
<1>3. Held'
  BY <1>2 DEF IInv, Held
<1>4. pump[s] \notin {"off", "dead"} /\ Open(s)
  BY DEF Pump, Drain, Stop, Discard, Observe, ObserveGone, ObserveFailure,
         CloseReader, IInv, TypeOK, Readers
<1>5. CASE CloseReader(s)
  <2>1. /\ reader' = [reader EXCEPT ![s] = "closed"]
        /\ pump' = [pump EXCEPT ![s] = "dead"]
    BY <1>5 DEF CloseReader
  <2>2. \A t \in Ids : t # s => reader'[t] = reader[t] /\ pump'[t] = pump[t]
    BY <2>1 DEF IInv, TypeOK
  <2>3. reader'[s] = "closed" /\ pump'[s] = "dead"
    BY <2>1 DEF IInv, TypeOK
  <2>4. Targets'
    <3> SUFFICES ASSUME NEW q \in Requests PROVE Target(q)'
      BY DEF Targets
    <3>1. Target(q)
      BY DEF IInv, Targets
    <3> QED BY <3>1, <1>2, <1>4, <2>2, <2>3 DEF Target, Open
  <2>5. Readers' /\ NoOrphan'
    BY <1>2, <1>4, <2>2, <2>3 DEF IInv, Readers, NoOrphan, Open
  <2> QED BY <1>1, <1>3, <2>4, <2>5 DEF IInv
<1>6. CASE ~CloseReader(s)
  <2>1. /\ reader' = reader
        /\ \E to \in {"loop", "events", "gone", "failed", "leaving"} :
              pump' = [pump EXCEPT ![s] = to]
    BY <1>6 DEF Pump, Drain, Stop, Discard, Observe, ObserveGone, ObserveFailure
  <2>2. \A t \in Ids : t # s => pump'[t] = pump[t]
    BY <2>1 DEF IInv, TypeOK
  <2>3. pump'[s] \in {"loop", "events", "gone", "failed", "leaving"}
    BY <2>1 DEF IInv, TypeOK
  <2>4. Targets'
    <3> SUFFICES ASSUME NEW q \in Requests PROVE Target(q)'
      BY DEF Targets
    <3>1. Target(q)
      BY DEF IInv, Targets
    <3> QED BY <3>1, <1>2, <1>4, <2>1, <2>2 DEF Target, Open
  <2>5. Readers' /\ NoOrphan'
    BY <1>2, <1>4, <2>1, <2>2, <2>3 DEF IInv, Readers, NoOrphan, Open
  <2> QED BY <1>1, <1>3, <2>4, <2>5 DEF IInv
<1> QED BY <1>5, <1>6

\* A step that leaves the server and the readers as they are.
LEMMA OtherIInv ==
  ASSUME IInv, TypeOK', UNCHANGED <<lock, active, at, target, reader, pump>>
  PROVE  IInv'
<1>1. Held'
  BY DEF IInv, Held
<1>2. Targets'
  BY DEF IInv, Targets, Target, Open
<1>3. Readers' /\ NoOrphan'
  BY DEF IInv, Readers, NoOrphan, Open
<1> QED BY <1>1, <1>2, <1>3 DEF IInv

\* Every step keeps the invariant.
LEMMA NextIInv == IInv /\ [Next]_vars => IInv'
<1> SUFFICES ASSUME IInv, [Next]_vars PROVE IInv'
  OBVIOUS
<1>1. CASE Machine
  BY <1>1, MachineIInv
<1>2. ASSUME NEW r \in Requests, Request(r) PROVE IInv'
  BY <1>2, TakeIInv, CreateIInv, CloseIInv DEF Request, Serve
<1>3. ASSUME NEW s \in Ids, Pump(s) PROVE IInv'
  BY <1>3, PumpIInv
<1>4. ASSUME NEW p \in Pages, PageStep(p) PROVE IInv'
  <2>1. TypeOK'
    BY <1>4, PageTypes DEF IInv
  <2>2. UNCHANGED <<lock, active, at, target, reader, pump>>
    BY <1>4 DEF PageStep, Connect, Refuse, Stream, Wake, KeepAlive, AfterQuiet,
                EndQuiet, Send, AfterSend, Drop, server, session
  <2> QED BY <2>1, <2>2, OtherIInv
<1>5. CASE UNCHANGED vars
  <2>1. TypeOK'
    BY <1>5 DEF IInv, TypeOK, vars, server, session, page
  <2> QED BY <1>5, <2>1, OtherIInv DEF vars, server, session
<1> QED BY <1>1, <1>2, <1>3, <1>4, <1>5 DEF Next, PageStep

LEMMA Inductive == Spec => []IInv
  BY InitIInv, NextIInv, PTL DEF Spec

\* The variables keep their types.
THEOREM SessionsTypes == Spec => []TypeOK
  BY Inductive, PTL DEF IInv

\* No path of creating, losing or closing a session leaves a reader open that
\* nobody will close.
THEOREM SessionsNoOrphan == Spec => []NoOrphan
  BY Inductive, PTL DEF IInv

-----------------------------------------------------------------------------
(* What a closed session still does *)

\* A dead pump's reader is closed, and a closed reader is never opened again.
LEMMA ReaderStays ==
  ASSUME IInv, [Next]_vars, NEW s \in Ids, pump[s] = "dead"
  PROVE  reader'[s] = reader[s]
<1>1. reader[s] = "closed"
  BY DEF IInv, Readers
<1>2. CASE Machine
  BY <1>1, <1>2 DEF IInv, TypeOK, Machine, Unplug, Plug, SimulatorStarts,
                    SimulatorStops, session
<1>3. ASSUME NEW r \in Requests, Request(r) PROVE reader'[s] = reader[s]
  <2>1. CASE OpenReader(r)
    BY <1>1, <2>1 DEF OpenReader, IInv, TypeOK
  <2>2. CASE ~OpenReader(r)
    BY <1>3, <2>2 DEF Request, Serve, BeginCreate, BeginClose, GetForArm, Probe,
         Discover, StartPump, Publish, Close, Join, Arm, session
  <2> QED BY <2>1, <2>2
<1>4. ASSUME NEW t \in Ids, Pump(t) PROVE reader'[s] = reader[s]
  <2>1. CASE CloseReader(t)
    BY <1>1, <2>1 DEF CloseReader, IInv, TypeOK
  <2>2. CASE ~CloseReader(t)
    BY <1>4, <2>2 DEF Pump, Drain, Stop, Discard, Observe, ObserveGone, ObserveFailure
  <2> QED BY <2>1, <2>2
<1>5. ASSUME NEW p \in Pages, PageStep(p) PROVE reader'[s] = reader[s]
  BY <1>5 DEF PageStep, Connect, Refuse, Stream, Wake, KeepAlive, AfterQuiet,
              EndQuiet, Send, AfterSend, Drop, session
<1>6. CASE UNCHANGED vars
  BY <1>6 DEF vars, session
<1> QED BY <1>2, <1>3, <1>4, <1>5, <1>6 DEF Next, PageStep

\* What is written into a history: a request writes into a session that is
\* open, a pump into its own, and both write at the end.
LEMMA Written ==
  ASSUME IInv, [Next]_vars, NEW s \in Ids
  PROVE  \/ log'[s] = log[s]
         \/ /\ \E event \in Events : log'[s] = Append(log[s], event)
            /\ ~(closed[s] /\ pump[s] = "dead")
<1> DEFINE Grows(t) == /\ \E event \in Events : log' = [log EXCEPT ![t] = Append(@, event)]
                       /\ ~(closed[t] /\ pump[t] = "dead")
<1>1. SUFFICES UNCHANGED log \/ \E t \in Ids : Grows(t)
  <2>1. CASE UNCHANGED log
    BY <2>1
  <2>2. ASSUME NEW t \in Ids, Grows(t)
        PROVE  \/ log'[s] = log[s]
               \/ /\ \E event \in Events : log'[s] = Append(log[s], event)
                  /\ ~(closed[s] /\ pump[s] = "dead")
    BY <2>2 DEF IInv, TypeOK
  <2> QED BY <1>1, <2>1, <2>2
<1>2. CASE Machine
  BY <1>2 DEF Machine, Unplug, Plug, SimulatorStarts, SimulatorStops, session
<1>3. ASSUME NEW r \in Requests, Request(r)
      PROVE  UNCHANGED log \/ \E t \in Ids : Grows(t)
  <2>1. CASE Arm(r)
    <3>1. target[r] \in Ids
      BY <2>1 DEF Arm, IInv, Targets, Target
    <3>2. UNCHANGED log \/ Grows(target[r])
      BY <2>1, <3>1 DEF Arm, Mutable, Record, AppendEvent, Events
    <3> QED BY <3>1, <3>2
  <2>2. CASE ~Arm(r)
    BY <1>3, <2>2 DEF Request, Serve, BeginCreate, BeginClose, GetForArm, Probe,
         Discover, OpenReader, StartPump, Publish, Close, Join, session
  <2> QED BY <2>1, <2>2
<1>4. ASSUME NEW t \in Ids, Pump(t)
      PROVE  UNCHANGED log \/ Grows(t)
  BY <1>4 DEF Pump, Drain, Stop, Discard, Observe, ObserveGone, ObserveFailure,
              CloseReader, Record, AppendEvent, Events
<1>5. ASSUME NEW p \in Pages, PageStep(p) PROVE UNCHANGED log
  BY <1>5 DEF PageStep, Connect, Refuse, Stream, Wake, KeepAlive, AfterQuiet,
              EndQuiet, Send, AfterSend, Drop, session
<1>6. CASE UNCHANGED vars
  BY <1>6 DEF vars, session
<1> QED BY <1>2, <1>3, <1>4, <1>5, <1>6 DEF Next, PageStep

\* The reader and the log of a session that was closed and whose pump is dead
\* never change again.
THEOREM SessionsQuietAfterClose == Spec => QuietAfterClose
<1>1. IInv /\ [Next]_vars =>
        [\A s \in Ids : closed[s] /\ pump[s] = "dead" =>
            log'[s] = log[s] /\ reader'[s] = reader[s]]_vars
  BY ReaderStays, Written
<1> QED BY <1>1, Inductive, PTL DEF Spec, QuietAfterClose

-----------------------------------------------------------------------------
(* One owner of the device *)

\* Two sessions never have a reader open.
LEMMA OneReader ==
  ASSUME IInv, NEW s \in Ids, Open(s), NEW t \in Ids, Open(t)
  PROVE  s = t
<1>1. CASE active = None
  BY <1>1, SessionsAssumption DEF IInv, NoOrphan
<1>2. CASE active # None
  <2>1. ~(lock # None /\ at[lock] \in {"start", "publish"})
    BY <1>2 DEF IInv, TypeOK, Targets, Target
  <2> QED BY <2>1 DEF IInv, NoOrphan
<1> QED BY <1>1, <1>2

\* The owner is the session whose reader is open.
OwnerOpen ==
    /\ Owner \in Ids \cup {None}
    /\ \A s \in Ids : Open(s) <=> Owner = s

LEMMA OwnerIs == IInv => OwnerOpen
<1> SUFFICES ASSUME IInv PROVE OwnerOpen
  OBVIOUS
<1>1. CASE Owners = {}
  BY <1>1, SessionsAssumption DEF OwnerOpen, Owner, Owners
<1>2. CASE Owners # {}
  <2>1. PICK s \in Ids : Open(s)
    BY <1>2 DEF Owners
  <2>2. Owners = {s}
    BY <2>1, OneReader DEF Owners
  <2>3. Owner = s
    BY <2>2 DEF Owner
  <2> QED BY <2>1, <2>2, <2>3 DEF OwnerOpen, Owners
<1> QED BY <1>1, <1>2

LEMMA OwnerIsNext == IInv' => OwnerOpen'
  BY OwnerIs, PTL

\* A step that opens and closes no reader is no step of the promise.
SameReaders ==
    \A s \in Ids : /\ Open(s)' <=> Open(s)
                   /\ reader'[s] = "none" <=> reader[s] = "none"

LEMMA SameOwner ==
  ASSUME IInv, IInv', SameReaders
  PROVE  Owner' = Owner /\ Spent' = Spent
<1>1. Owner' = Owner
  BY OwnerIs, OwnerIsNext, SessionsAssumption DEF OwnerOpen, SameReaders
<1>2. Spent' = Spent
  BY DEF Spent, SameReaders
<1> QED BY <1>1, <1>2

LEMMA OwnerStep ==
  ASSUME IInv, IInv', [Next]_vars
  PROVE  [Promise!OwnerNext]_<<Owner, Spent>>
<1>1. CASE UNCHANGED reader
  <2>1. SameReaders
    BY <1>1 DEF SameReaders, Open
  <2>2. Owner' = Owner /\ Spent' = Spent
    BY <2>1, SameOwner
  <2> QED BY <2>2
<1>2. CASE Unplug
  <2>1. SameReaders
    BY <1>2 DEF SameReaders, Open, Unplug, IInv, TypeOK
  <2>2. Owner' = Owner /\ Spent' = Spent
    BY <2>1, SameOwner
  <2> QED BY <2>2
<1>3. ASSUME NEW r \in Requests, OpenReader(r), reader' # reader
      PROVE  Promise!OwnerNext
  <2>1. PICK s \in Ids : reader[s] = "none" /\ reader' = [reader EXCEPT ![s] = "live"]
    BY <1>3 DEF OpenReader
  <2>2. active = None /\ lock = r
    <3>1. at[r] = "open"
      BY <1>3 DEF OpenReader
    <3> QED BY <3>1 DEF IInv, Targets, Target, Held, Busy
  <2>3. \A t \in Ids : ~Open(t)
    BY <2>2, <1>3, SessionsAssumption DEF IInv, NoOrphan, OpenReader
  <2>4. Owner = None
    BY <2>3, OwnerIs DEF OwnerOpen
  <2>5. Owner' = s
    <3>1. Open(s)'
      BY <2>1 DEF Open, IInv, TypeOK
    <3> QED BY <3>1, <2>1, OwnerIsNext DEF OwnerOpen
  <2>6. Spent' = Spent \cup {s} /\ s \notin Spent
    BY <2>1 DEF Spent, IInv, TypeOK
  <2> QED BY <2>1, <2>4, <2>5, <2>6 DEF Promise!OwnerNext, Promise!Acquire
<1>4. ASSUME NEW s \in Ids, CloseReader(s) PROVE Promise!OwnerNext
  <2>1. reader' = [reader EXCEPT ![s] = "closed"] /\ Open(s)
    BY <1>4 DEF CloseReader, IInv, Readers
  <2>2. Owner = s
    BY <2>1, OwnerIs DEF OwnerOpen
  <2>3. \A t \in Ids : ~Open(t)'
    BY <2>1, OneReader DEF Open, IInv, TypeOK
  <2>4. Owner' = None
    BY <2>3, OwnerIsNext DEF OwnerOpen
  <2>5. Spent' = Spent
    BY <2>1 DEF Spent, Open, IInv, TypeOK
  <2> QED BY <2>2, <2>4, <2>5, SessionsAssumption DEF Promise!OwnerNext, Promise!GiveUp
<1>5. \/ UNCHANGED reader \/ Unplug
      \/ \E r \in Requests : OpenReader(r)
      \/ \E s \in Ids : CloseReader(s)
  <2>1. CASE Machine
    BY <2>1 DEF Machine, Unplug, Plug, SimulatorStarts, SimulatorStops, session
  <2>2. ASSUME NEW r \in Requests, Request(r)
        PROVE  UNCHANGED reader \/ OpenReader(r)
    BY <2>2 DEF Request, Serve, BeginCreate, BeginClose, GetForArm, Probe,
         Discover, StartPump, Publish, Close, Join, Arm, session
  <2>3. ASSUME NEW s \in Ids, Pump(s)
        PROVE  UNCHANGED reader \/ CloseReader(s)
    BY <2>3 DEF Pump, Drain, Stop, Discard, Observe, ObserveGone, ObserveFailure
  <2>4. ASSUME NEW p \in Pages, PageStep(p) PROVE UNCHANGED reader
    BY <2>4 DEF PageStep, Connect, Refuse, Stream, Wake, KeepAlive, AfterQuiet,
                EndQuiet, Send, AfterSend, Drop, session
  <2>5. CASE UNCHANGED vars
    BY <2>5 DEF vars, session
  <2> QED BY <2>1, <2>2, <2>3, <2>4, <2>5 DEF Next, PageStep
<1> QED BY <1>1, <1>2, <1>3, <1>4, <1>5

\* One session at a time reads the device, and one that gave it up never reads
\* it again: the console keeps its promise.
THEOREM SessionsOwnAlone == Spec => OwnsAlone
<1>1. Init => Promise!OwnerInit
  BY DEF Init, Promise!OwnerInit, Owner, Owners, Open, Spent
<1>2. IInv /\ IInv' /\ [Next]_vars =>
        [Promise!OwnerNext]_<<Owner, Spent>>
  BY OwnerStep
<1> QED BY <1>1, <1>2, Inductive, PTL DEF Spec, OwnsAlone, Promise!OwnerSpec

-----------------------------------------------------------------------------
(* What a page misses *)

\* The events a stream still has to send come after the last one sent, and
\* those between them that it does not have were forgotten.
Batch(p) ==
    /\ stream[p] \in {"wait", "quiet", "look", "send"} => watched[p] \in Ids
    /\ stream[p] = "send" =>
           /\ \A i \in batch[p] : i > seen[p]
           /\ \A i \in batch[p], j \in Nat : j > seen[p] /\ j < i /\ j \notin batch[p] =>
                  j + HistoryLimit <= Len(log[watched[p]])

Batches == \A p \in Pages : Batch(p)

Sending == IInv /\ Batches

\* A history never gets shorter.
LEMMA HistoriesGrow ==
  ASSUME IInv, [Next]_vars, NEW s \in Ids
  PROVE  Len(log'[s]) >= Len(log[s]) /\ Len(log[s]) \in Nat
<1>1. log[s] \in Seq(Events)
  BY DEF IInv, TypeOK
<1>2. CASE log'[s] = log[s]
  BY <1>1, <1>2
<1>3. ASSUME NEW event \in Events, log'[s] = Append(log[s], event)
      PROVE  Len(log'[s]) >= Len(log[s])
  BY <1>1, <1>3
<1> QED BY <1>1, <1>2, <1>3, Written

\* A step that leaves a page as it is.
LEMMA BatchStays ==
  ASSUME Sending, TypeOK', [Next]_vars, NEW p \in Pages,
         stream'[p] = stream[p], batch'[p] = batch[p],
         watched'[p] = watched[p], seen'[p] = seen[p]
  PROVE  Batch(p)'
<1>1. Batch(p)
  BY DEF Sending, Batches
<1>2. CASE watched[p] \notin Ids
  BY <1>1, <1>2 DEF Batch
<1>3. CASE watched[p] \in Ids
  <2>1. Len(log'[watched[p]]) >= Len(log[watched[p]]) /\ Len(log[watched[p]]) \in Nat
    BY <1>3, HistoriesGrow DEF Sending
  <2>2. Len(log'[watched[p]]) \in Nat
    BY <1>3 DEF TypeOK
  <2> QED BY <1>1, <1>3, <2>1, <2>2, SessionsAssumption DEF Batch
<1> QED BY <1>2, <1>3

LEMMA PageBatch ==
  ASSUME Sending, TypeOK', NEW p \in Pages, PageStep(p)
  PROVE  Batch(p)'
<1> USE SessionsAssumption
<1>1. Batch(p) /\ TypeOK
  BY DEF Sending, Batches, IInv
<1>2. CASE Connect(p)
  <2>1. stream'[p] = "wait" /\ watched'[p] \in Ids
    BY <1>1, <1>2 DEF Connect, TypeOK
  <2> QED BY <2>1 DEF Batch
<1>3. CASE Wake(p)
  <2>1. watched[p] \in Ids /\ watched' = watched /\ seen' = seen /\ log' = log
    BY <1>1, <1>3 DEF Wake, Batch, session
  <2>2. batch'[p] = Fresh(p)
    BY <1>1, <1>3 DEF Wake, TypeOK
  <2>3. Len(log[watched[p]]) \in Nat /\ seen[p] \in Nat
    BY <1>1, <2>1 DEF TypeOK
  <2> QED BY <2>1, <2>2, <2>3 DEF Batch, Fresh
<1>4. CASE Send(p)
  <2>1. PICK id \in batch[p] :
            /\ \A j \in batch[p] : id <= j
            /\ seen' = [seen EXCEPT ![p] = id]
            /\ batch' = [batch EXCEPT ![p] = @ \ {id}]
    BY <1>4 DEF Send
  <2>2. UNCHANGED <<stream, watched, log>> /\ stream[p] = "send"
    BY <1>4 DEF Send, session
  <2>3. seen'[p] = id /\ batch'[p] = batch[p] \ {id} /\ batch[p] \subseteq Nat
        /\ seen[p] \in Nat
    BY <1>1, <2>1 DEF TypeOK
  <2>4. watched[p] \in Ids
        /\ id > seen[p]
    BY <1>1, <2>2 DEF Batch
  <2>5. \A i \in batch'[p] : i > seen'[p]
    BY <2>1, <2>3
  <2>6. ASSUME NEW i \in batch'[p], NEW j \in Nat, j > seen'[p], j < i, j \notin batch'[p]
        PROVE  j + HistoryLimit <= Len(log'[watched'[p]])
    <3>1. j > seen[p] /\ j \notin batch[p] /\ i \in batch[p]
      BY <2>3, <2>4, <2>6
    <3> QED BY <1>1, <2>2, <2>6, <3>1 DEF Batch
  <2> QED BY <2>2, <2>4, <2>5, <2>6 DEF Batch
<1>5. CASE Refuse(p) \/ KeepAlive(p) \/ AfterQuiet(p) \/ EndQuiet(p) \/ AfterSend(p) \/ Drop(p)
  <2>1. watched' = watched /\ stream'[p] \in {"wait", "quiet", "look", "off", "over"}
    BY <1>1, <1>5 DEF Refuse, KeepAlive, AfterQuiet, EndQuiet, AfterSend, Drop, TypeOK
  <2>2. stream'[p] \in {"wait", "quiet", "look"} =>
            stream[p] \in {"wait", "quiet", "look", "send"}
    BY <1>1, <1>5 DEF Refuse, KeepAlive, AfterQuiet, EndQuiet, AfterSend, Drop, TypeOK
  <2> QED BY <1>1, <2>1, <2>2 DEF Batch
<1> QED BY <1>2, <1>3, <1>4, <1>5 DEF PageStep, Stream

\* A page's step is no step of another page.
LEMMA OtherPages ==
  ASSUME TypeOK, NEW p \in Pages, PageStep(p), NEW q \in Pages, q # p
  PROVE  /\ stream'[q] = stream[q] /\ batch'[q] = batch[q]
         /\ watched'[q] = watched[q] /\ seen'[q] = seen[q]
<1>1. CASE Connect(p)
  BY <1>1 DEF Connect, TypeOK
<1>2. CASE Wake(p) \/ Send(p)
  BY <1>2 DEF Wake, Send, TypeOK
<1>3. CASE Refuse(p) \/ KeepAlive(p) \/ AfterQuiet(p) \/ EndQuiet(p) \/ AfterSend(p) \/ Drop(p)
  BY <1>3 DEF Refuse, KeepAlive, AfterQuiet, EndQuiet, AfterSend, Drop, TypeOK
<1> QED BY <1>1, <1>2, <1>3 DEF PageStep, Stream

LEMMA NextPages ==
  ASSUME [Next]_vars
  PROVE  UNCHANGED <<stream, batch, watched, seen>> \/ \E p \in Pages : PageStep(p)
<1>1. CASE Machine
  BY <1>1 DEF Machine, Unplug, Plug, SimulatorStarts, SimulatorStops, page
<1>2. ASSUME NEW r \in Requests, Request(r) PROVE UNCHANGED page
  BY <1>2 DEF Request, Serve, BeginCreate, BeginClose, GetForArm, Probe, Discover,
       OpenReader, StartPump, Publish, Close, Join, Arm
<1>3. ASSUME NEW s \in Ids, Pump(s) PROVE UNCHANGED page
  BY <1>3 DEF Pump, Drain, Stop, Discard, Observe, ObserveGone, ObserveFailure, CloseReader
<1>4. ASSUME NEW p \in Pages, PageStep(p) PROVE \E q \in Pages : PageStep(q)
  BY <1>4
<1>5. CASE UNCHANGED vars
  BY <1>5 DEF vars, page
<1> QED BY <1>1, <1>2, <1>3, <1>4, <1>5 DEF Next, PageStep, page

LEMMA NextSending == Sending /\ [Next]_vars => Sending'
<1> SUFFICES ASSUME Sending, [Next]_vars PROVE Sending'
  OBVIOUS
<1>1. IInv'
  BY NextIInv DEF Sending
<1>2. ASSUME NEW q \in Pages PROVE Batch(q)'
  <2>1. CASE UNCHANGED <<stream, batch, watched, seen>>
    BY <1>1, <2>1, BatchStays DEF IInv
  <2>2. ASSUME NEW p \in Pages, PageStep(p) PROVE Batch(q)'
    <3>1. CASE p = q
      BY <1>1, <2>2, <3>1, PageBatch DEF IInv
    <3>2. CASE p # q
      <4>1. /\ stream'[q] = stream[q] /\ batch'[q] = batch[q]
            /\ watched'[q] = watched[q] /\ seen'[q] = seen[q]
        BY <2>2, <3>2, OtherPages DEF Sending, IInv
      <4> QED BY <1>1, <4>1, BatchStays DEF IInv
    <3> QED BY <3>1, <3>2
  <2> QED BY <2>1, <2>2, NextPages
<1> QED BY <1>1, <1>2 DEF Sending, Batches

LEMMA InitSending == Init => Sending
  BY InitIInv DEF Init, Sending, Batches, Batch

\* What a page's step makes it see.
LEMMA PageSees ==
  ASSUME Sending, NEW p \in Pages, PageStep(p), watched'[p] = watched[p],
         seen'[p] # seen[p]
  PROVE  /\ seen'[p] > seen[p]
         /\ \A i \in seen[p] + 1 .. seen'[p] - 1 :
                i + HistoryLimit <= Len(log[watched[p]])
<1>1. Batch(p) /\ TypeOK
  BY DEF Sending, Batches, IInv
<1>2. CASE Send(p)
  <2>1. PICK id \in batch[p] :
            /\ \A j \in batch[p] : id <= j
            /\ seen' = [seen EXCEPT ![p] = id]
    BY <1>2 DEF Send
  <2>2. seen'[p] = id /\ id \in Nat /\ seen[p] \in Nat /\ batch[p] \subseteq Nat
    BY <1>1, <2>1 DEF TypeOK
  <2>3. stream[p] = "send"
    BY <1>2 DEF Send
  <2>4. id > seen[p]
    BY <1>1, <2>3 DEF Batch
  <2>5. ASSUME NEW i \in seen[p] + 1 .. id - 1
        PROVE  i + HistoryLimit <= Len(log[watched[p]])
    <3>1. i \in Nat /\ i > seen[p] /\ i < id /\ i \notin batch[p]
      BY <2>1, <2>2
    <3> QED BY <1>1, <2>3, <3>1 DEF Batch
  <2> QED BY <2>2, <2>4, <2>5
<1>3. CASE Connect(p)
  BY <1>1, <1>3 DEF Connect, Begins, TypeOK
<1>4. CASE ~Send(p) /\ ~Connect(p)
  BY <1>4 DEF PageStep, Refuse, Stream, Wake, KeepAlive, AfterQuiet, EndQuiet,
              AfterSend, Drop
<1> QED BY <1>2, <1>3, <1>4

\* A page gets the events of a session in order and misses one only when the
\* history had forgotten it, for any length of the history.
THEOREM SessionsGapsAreForgotten == Spec => GapsAreForgotten
<1>1. Sending /\ [Next]_vars =>
        [\A p \in Pages : watched'[p] = watched[p] /\ seen'[p] # seen[p] =>
           /\ seen'[p] > seen[p]
           /\ \A i \in seen[p] + 1 .. seen'[p] - 1 :
                  i + HistoryLimit <= Len(log[watched[p]])]_vars
  <2> SUFFICES ASSUME Sending, [Next]_vars, NEW q \in Pages,
                      watched'[q] = watched[q], seen'[q] # seen[q]
               PROVE  /\ seen'[q] > seen[q]
                      /\ \A i \in seen[q] + 1 .. seen'[q] - 1 :
                             i + HistoryLimit <= Len(log[watched[q]])
    OBVIOUS
  <2>1. PICK p \in Pages : PageStep(p)
    BY NextPages
  <2>2. p = q
    BY <2>1, OtherPages DEF Sending, IInv
  <2> QED BY <2>1, <2>2, PageSees
<1> QED BY <1>1, InitSending, NextSending, PTL DEF Spec, GapsAreForgotten
=============================================================================
