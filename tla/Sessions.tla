------------------------------ MODULE Sessions ------------------------------
(***************************************************************************)
(* The sessions of the mapping console (sessions.py and the endpoints of   *)
(* app.py that use them).                                                  *)
(*                                                                         *)
(* Three kinds of threads meet.  Requests create, arm and close sessions;  *)
(* creating and closing hold the manager's lock from beginning to end.     *)
(* Each session's pump owns the joystick reader: it drains it without a    *)
(* lock and appends what it saw to the event history under the session's   *)
(* lock.  Streams wait for events and send them to a page, which connects  *)
(* again with Last-Event-ID when a stream ends.  The device may vanish and *)
(* come back, and a simulator may start and stop, at any moment.           *)
(*                                                                         *)
(* The two kinds of session differ in what they record, not in these       *)
(* steps; the lines are those of the quick one.  A step under the          *)
(* session's lock is one action.                                           *)
(***************************************************************************)
EXTENDS Integers, Sequences

CONSTANTS
    Ids,          \* the sessions there may be, each a fresh uuid
    Requests,     \* the threads that serve requests
    Pages,        \* the pages that follow a session's events
    HistoryLimit, \* EVENT_HISTORY_LIMIT
    MaxLog,       \* bound: events of a session, the last one not counted
    MaxDrops,     \* bound: lost connections
    None

ASSUME SessionsAssumption ==
    /\ None \notin Ids /\ None \notin Requests
    /\ HistoryLimit \in Nat \ {0} /\ MaxLog \in Nat /\ MaxDrops \in Nat

VARIABLES
    plugged,   \* the joystick is there
    simulator, \* a process of _BLOCKING_EXECUTABLES runs
    lock,      \* the request that holds SessionManager._lock, or None
    active,    \* SessionManager._active
    at,        \* where each request is
    target,    \* the session it works on
    reader,    \* each session's file descriptor; stale: its device has gone
    pump,      \* where its pump is
    connected, \* its engine's connected
    closed,    \* its _closed, set together with _stop
    log,       \* every event it appended; the history is the end of it
    stream,    \* each page's connection
    batch,     \* the ids of the events it still has to send
    watched,   \* the session it follows
    seen,      \* the id of the last event it got
    told,      \* it was told that the device is gone
    drops

server == <<lock, active, at, target>>
session == <<reader, pump, connected, closed, log>>
page == <<stream, batch, watched, seen, told, drops>>
vars == <<plugged, simulator, server, session, page>>

Events == {"snapshot", "state", "disconnected"}

Init ==
    /\ plugged \in BOOLEAN /\ simulator \in BOOLEAN
    /\ lock = None /\ active = None
    /\ at = [r \in Requests |-> "idle"]
    /\ target = [r \in Requests |-> None]
    /\ reader = [s \in Ids |-> "none"]
    /\ pump = [s \in Ids |-> "off"]
    /\ connected = [s \in Ids |-> TRUE]
    /\ closed = [s \in Ids |-> FALSE]
    /\ log = [s \in Ids |-> <<>>]
    /\ stream = [p \in Pages |-> "off"]
    /\ batch = [p \in Pages |-> {}]
    /\ watched = [p \in Pages |-> None]
    /\ seen = [p \in Pages |-> 0]
    /\ told = [p \in Pages |-> FALSE]
    /\ drops = 0

-----------------------------------------------------------------------------
(* The machine around the console *)

Unplug ==
    /\ plugged /\ plugged' = FALSE
    /\ reader' = [s \in Ids |-> IF reader[s] = "live" THEN "stale" ELSE reader[s]]
    /\ UNCHANGED <<simulator, server, pump, connected, closed, log, page>>

Plug ==
    /\ ~plugged /\ plugged' = TRUE
    /\ UNCHANGED <<simulator, server, session, page>>

SimulatorStarts ==
    /\ ~simulator /\ simulator' = TRUE
    /\ UNCHANGED <<plugged, server, session, page>>

SimulatorStops ==
    /\ simulator /\ simulator' = FALSE
    /\ UNCHANGED <<plugged, server, session, page>>

-----------------------------------------------------------------------------
(* Creating a session: the manager's lock is held throughout. *)

\* The request leaves the lock and answers.
Leave(r) ==
    /\ lock' = None
    /\ at' = [at EXCEPT ![r] = "idle"]
    /\ target' = [target EXCEPT ![r] = None]

\* Bound: while there is an id left.
BeginCreate(r) ==
    /\ at[r] = "idle" /\ lock = None
    /\ \E s \in Ids : reader[s] = "none"
    /\ lock' = r
    /\ at' = [at EXCEPT ![r] = "probe"]
    /\ UNCHANGED <<plugged, simulator, active, target, session, page>>

\* ensure_interlock() reads /proc.
Probe(r) ==
    /\ at[r] = "probe"
    /\ IF simulator
       THEN Leave(r)
       ELSE /\ at' = [at EXCEPT ![r] = "discover"]
            /\ UNCHANGED <<lock, target>>
    /\ UNCHANGED <<plugged, simulator, active, session, page>>

\* Mutant: a session that lost its device is not in the way.
MayDiscoverLoose == plugged /\ \A s \in Ids : active = s => ~connected[s]

\* _require_empty_locked(), then the device must be listed.
MayDiscover == plugged /\ active = None

\* Refused also when the listed device is not the expected one.
Discover(r) ==
    /\ at[r] = "discover"
    /\ \/ /\ MayDiscover
          /\ at' = [at EXCEPT ![r] = "open"]
          /\ UNCHANGED <<lock, target>>
       \/ Leave(r)
    /\ UNCHANGED <<plugged, simulator, active, session, page>>

\* _open_reader(): the device may have gone since it was listed.
OpenReader(r) ==
    /\ at[r] = "open"
    /\ IF plugged
       THEN \E s \in {i \in Ids : reader[i] = "none"} :
                /\ reader' = [reader EXCEPT ![s] = "live"]
                /\ target' = [target EXCEPT ![r] = s]
                /\ at' = [at EXCEPT ![r] = "start"]
                /\ UNCHANGED lock
       ELSE /\ Leave(r)
            /\ UNCHANGED reader
    /\ UNCHANGED <<plugged, simulator, active, pump, connected, closed, log, page>>

\* The constructor starts the pump before the manager knows the session.
StartPump(r) ==
    /\ at[r] = "start"
    /\ pump' = [pump EXCEPT ![target[r]] = "loop"]
    /\ at' = [at EXCEPT ![r] = "publish"]
    /\ UNCHANGED <<plugged, simulator, lock, active, target, reader, connected,
                   closed, log, page>>

Publish(r) ==
    /\ at[r] = "publish"
    /\ active' = target[r]
    /\ Leave(r)
    /\ UNCHANGED <<plugged, simulator, session, page>>

-----------------------------------------------------------------------------
(* Closing one: by its id, or at shutdown; the lock is held until the pump *)
(* is dead.                                                                *)

BeginClose(r) ==
    /\ at[r] = "idle" /\ lock = None /\ active # None
    /\ lock' = r
    /\ target' = [target EXCEPT ![r] = active]
    /\ at' = [at EXCEPT ![r] = "close"]
    /\ UNCHANGED <<plugged, simulator, active, session, page>>

\* Mutant: the pump is not told to stop.
TellLater(s) == closed

\* _closed and _stop are set under the session's lock.
TellStop(s) == [closed EXCEPT ![s] = TRUE]

Close(r) ==
    /\ at[r] = "close"
    /\ closed' = TellStop(target[r])
    /\ at' = [at EXCEPT ![r] = "join"]
    /\ UNCHANGED <<plugged, simulator, lock, active, target, reader, pump,
                   connected, log, page>>

\* Mutant: close() does not wait for the pump.
JoinedAtOnce(s) == TRUE

Joined(s) == pump[s] = "dead"

Join(r) ==
    /\ at[r] = "join" /\ Joined(target[r])
    /\ active' = None
    /\ Leave(r)
    /\ UNCHANGED <<plugged, simulator, session, page>>

-----------------------------------------------------------------------------
(* Arming a control: the session is looked up under the manager's lock,    *)
(* and armed under its own, when it may have been closed in between.       *)

GetForArm(r) ==
    /\ at[r] = "idle" /\ lock = None /\ active # None
    /\ target' = [target EXCEPT ![r] = active]
    /\ at' = [at EXCEPT ![r] = "arm"]
    /\ UNCHANGED <<plugged, simulator, lock, active, session, page>>

\* Mutant: the session's own state is not asked again.
MutableUnlessGone(s) == connected[s]

\* _require_mutable_locked()
Mutable(s) == ~closed[s] /\ connected[s]

AppendEvent(s, event) == log' = [log EXCEPT ![s] = Append(@, event)]

\* Bound: events beyond MaxLog are not recorded.
Record(s, event) ==
    IF Len(log[s]) < MaxLog THEN AppendEvent(s, event) ELSE UNCHANGED log

Arm(r) ==
    /\ at[r] = "arm"
    /\ IF Mutable(target[r]) THEN Record(target[r], "state") ELSE UNCHANGED log
    /\ at' = [at EXCEPT ![r] = "idle"]
    /\ target' = [target EXCEPT ![r] = None]
    /\ UNCHANGED <<plugged, simulator, lock, active, reader, pump, connected,
                   closed, page>>

-----------------------------------------------------------------------------
(* The pump *)

\* drain() returns what there is, that the device is gone, or fails.
Drain(s) ==
    /\ pump[s] = "loop"
    /\ \/ /\ reader[s] = "live"
          /\ pump' = [pump EXCEPT ![s] = "events"]
       \/ /\ reader[s] = "stale"
          /\ pump' = [pump EXCEPT ![s] = "gone"]
       \/ pump' = [pump EXCEPT ![s] = "failed"]
    /\ UNCHANGED <<plugged, simulator, server, reader, connected, closed, log, page>>

\* The loop and the wait between two rounds both end when the session stops.
Stop(s) ==
    /\ pump[s] = "loop" /\ closed[s]
    /\ pump' = [pump EXCEPT ![s] = "leaving"]
    /\ UNCHANGED <<plugged, simulator, server, reader, connected, closed, log, page>>

\* What was drained is for nobody once the session is closed.
Discard(s) ==
    /\ pump[s] \in {"events", "gone"} /\ closed[s]
    /\ pump' = [pump EXCEPT ![s] = "leaving"]
    /\ UNCHANGED <<plugged, simulator, server, reader, connected, closed, log, page>>

Observe(s) ==
    /\ pump[s] = "events" /\ ~closed[s]
    /\ Record(s, "snapshot")
    /\ pump' = [pump EXCEPT ![s] = "loop"]
    /\ UNCHANGED <<plugged, simulator, server, reader, connected, closed, page>>

ObserveGone(s) ==
    /\ pump[s] = "gone" /\ ~closed[s]
    /\ AppendEvent(s, "disconnected")
    /\ connected' = [connected EXCEPT ![s] = FALSE]
    /\ pump' = [pump EXCEPT ![s] = "leaving"]
    /\ UNCHANGED <<plugged, simulator, server, reader, closed, page>>

\* A failed drain is reported also by a session that was closed meanwhile.
ObserveFailure(s) ==
    /\ pump[s] = "failed"
    /\ AppendEvent(s, "disconnected")
    /\ connected' = [connected EXCEPT ![s] = FALSE]
    /\ pump' = [pump EXCEPT ![s] = "leaving"]
    /\ UNCHANGED <<plugged, simulator, server, reader, closed, page>>

CloseReader(s) ==
    /\ pump[s] = "leaving"
    /\ reader' = [reader EXCEPT ![s] = "closed"]
    /\ pump' = [pump EXCEPT ![s] = "dead"]
    /\ UNCHANGED <<plugged, simulator, server, connected, closed, log, page>>

-----------------------------------------------------------------------------
(* Streams of events, and the pages that follow them *)

\* Mutant: the stream begins with what is appended from now on.
BeginsNow(p, s) == Len(log[s])

\* after_id, or else the header the page repeats.
Begins(p, s) == IF watched[p] = s THEN seen[p] ELSE 0

\* A page connects, or connects again, to the session it was given.
Connect(p) ==
    /\ stream[p] = "off" /\ lock = None /\ active # None
    /\ watched[p] \in {None, active}
    /\ stream' = [stream EXCEPT ![p] = "wait"]
    /\ watched' = [watched EXCEPT ![p] = active]
    /\ seen' = [seen EXCEPT ![p] = Begins(p, active)]
    /\ UNCHANGED <<plugged, simulator, server, session, batch, told, drops>>

\* The session is not found: the page does not try again.
Refuse(p) ==
    /\ stream[p] = "off" /\ lock = None
    /\ watched[p] \notin {None, active}
    /\ stream' = [stream EXCEPT ![p] = "over"]
    /\ UNCHANGED <<plugged, simulator, server, session, batch, watched, seen,
                   told, drops>>

\* Mutant: the last event is taken for seen.
AvailableLate(p) == Len(log[watched[p]]) > seen[p] + 1

\* wait_events() returns as soon as there is an event after the cursor.
Available(p) == Len(log[watched[p]]) > seen[p]

\* The part of the history after the cursor: the deque forgot what is older.
Fresh(p) ==
    {i \in 1 .. Len(log[watched[p]]) :
        i > seen[p] /\ i + HistoryLimit > Len(log[watched[p]])}

\* The events that wait_events() returned.
Wake(p) ==
    /\ stream[p] \in {"wait", "look"} /\ Available(p)
    /\ batch' = [batch EXCEPT ![p] = Fresh(p)]
    /\ stream' = [stream EXCEPT ![p] = "send"]
    /\ UNCHANGED <<plugged, simulator, server, session, watched, seen, told, drops>>

\* Nothing for a second: a keepalive, and another round while the pump lives.
KeepAlive(p) ==
    /\ stream[p] = "wait" /\ ~Available(p)
    /\ stream' = [stream EXCEPT ![p] = "quiet"]
    /\ UNCHANGED <<plugged, simulator, server, session, batch, watched, seen,
                   told, drops>>

IsAlive(s) == pump[s] # "dead"

AfterQuiet(p) ==
    /\ stream[p] = "quiet"
    /\ stream' = [stream EXCEPT ![p] = IF IsAlive(watched[p]) THEN "wait" ELSE "look"]
    /\ UNCHANGED <<plugged, simulator, server, session, batch, watched, seen,
                   told, drops>>

\* A last look at the history of a pump that is dead.
EndQuiet(p) ==
    /\ stream[p] = "look" /\ ~Available(p)
    /\ stream' = [stream EXCEPT ![p] = "off"]
    /\ UNCHANGED <<plugged, simulator, server, session, batch, watched, seen,
                   told, drops>>

Send(p) ==
    /\ stream[p] = "send"
    /\ \E id \in batch[p] :
        /\ \A j \in batch[p] : id <= j
        /\ seen' = [seen EXCEPT ![p] = id]
        /\ told' = [told EXCEPT ![p] = @ \/ log[watched[p]][id] = "disconnected"]
        /\ batch' = [batch EXCEPT ![p] = @ \ {id}]
    /\ UNCHANGED <<plugged, simulator, server, session, stream, watched, drops>>

\* A stream that has sent its events ends without a last look.
AfterSend(p) ==
    /\ stream[p] = "send" /\ batch[p] = {}
    /\ stream' = [stream EXCEPT ![p] = IF IsAlive(watched[p]) THEN "wait" ELSE "off"]
    /\ UNCHANGED <<plugged, simulator, server, session, batch, watched, seen,
                   told, drops>>

\* The connection is lost with what was not sent yet.
Drop(p) ==
    /\ stream[p] \in {"wait", "quiet", "look", "send"} /\ drops < MaxDrops
    /\ stream' = [stream EXCEPT ![p] = "off"]
    /\ batch' = [batch EXCEPT ![p] = {}]
    /\ drops' = drops + 1
    /\ UNCHANGED <<plugged, simulator, server, session, watched, seen, told>>

-----------------------------------------------------------------------------

Machine == Unplug \/ Plug \/ SimulatorStarts \/ SimulatorStops

\* What a request does once it has begun.
Serve(r) ==
    \/ Probe(r) \/ Discover(r) \/ OpenReader(r) \/ StartPump(r) \/ Publish(r)
    \/ Close(r) \/ Join(r) \/ Arm(r)

Request(r) == BeginCreate(r) \/ BeginClose(r) \/ GetForArm(r) \/ Serve(r)

Pump(s) ==
    \/ Drain(s) \/ Stop(s) \/ Discard(s) \/ Observe(s) \/ ObserveGone(s)
    \/ ObserveFailure(s) \/ CloseReader(s)

Stream(p) ==
    \/ Wake(p) \/ KeepAlive(p) \/ AfterQuiet(p) \/ EndQuiet(p) \/ Send(p)
    \/ AfterSend(p)

Next ==
    \/ Machine
    \/ \E r \in Requests : Request(r)
    \/ \E s \in Ids : Pump(s)
    \/ \E p \in Pages : Connect(p) \/ Refuse(p) \/ Stream(p) \/ Drop(p)

Spec == Init /\ [][Next]_vars

\* Threads that can go on do, and a page that keeps asking for the lock gets
\* it; nothing makes a request begin or the machine change.
Fairness ==
    /\ \A r \in Requests : WF_vars(Serve(r))
    /\ \A s \in Ids : WF_vars(Pump(s))
    /\ \A p \in Pages : WF_vars(Stream(p)) /\ SF_vars(Connect(p)) /\ SF_vars(Refuse(p))

FairSpec == Spec /\ Fairness

-----------------------------------------------------------------------------
(* Properties *)

TypeOK ==
    /\ plugged \in BOOLEAN /\ simulator \in BOOLEAN
    /\ lock \in Requests \cup {None} /\ active \in Ids \cup {None}
    /\ at \in [Requests -> {"idle", "probe", "discover", "open", "start",
                            "publish", "close", "join", "arm"}]
    /\ target \in [Requests -> Ids \cup {None}]
    /\ reader \in [Ids -> {"none", "live", "stale", "closed"}]
    /\ pump \in [Ids -> {"off", "loop", "events", "gone", "failed", "leaving", "dead"}]
    /\ connected \in [Ids -> BOOLEAN] /\ closed \in [Ids -> BOOLEAN]
    /\ log \in [Ids -> Seq(Events)]
    /\ stream \in [Pages -> {"off", "wait", "quiet", "look", "send", "over"}]
    /\ batch \in [Pages -> SUBSET Nat]
    /\ watched \in [Pages -> Ids \cup {None}]
    /\ seen \in [Pages -> Nat] /\ told \in [Pages -> BOOLEAN]
    /\ drops \in Nat

Open(s) == reader[s] \in {"live", "stale"}

\* An open reader is the active session's, or in the hands of the request that
\* is creating its session: no path of create(), a failing pump or close()
\* leaves a descriptor nobody will close.
NoOrphan ==
    \A s \in Ids : Open(s) =>
        \/ active = s
        \/ lock # None /\ target[lock] = s /\ at[lock] \in {"start", "publish"}

\* The reader and the log of a session that was closed and whose pump is dead
\* do not change any more, whatever a request that looked the session up
\* before still does.
QuietAfterClose ==
    [][\A s \in Ids : closed[s] /\ pump[s] = "dead" =>
           log'[s] = log[s] /\ reader'[s] = reader[s]]_vars

\* A page gets the events of its session in order, and misses one only when
\* the history had forgotten it: streams that end, lost connections and new
\* connections lose and repeat nothing.
GapsAreForgotten ==
    [][\A p \in Pages : watched'[p] = watched[p] /\ seen'[p] # seen[p] =>
           /\ seen'[p] > seen[p]
           /\ \A i \in seen[p] + 1 .. seen'[p] - 1 :
                  i + HistoryLimit <= Len(log[watched[p]])]_vars

\* At most one session reads the device, and none reads it twice.
Owners == {s \in Ids : Open(s)}
Owner == IF Owners = {} THEN None ELSE CHOOSE s \in Owners : TRUE
Spent == {s \in Ids : reader[s] # "none"}
Promise == INSTANCE DeviceOwner WITH owner <- Owner, spent <- Spent
OwnsAlone == Promise!OwnerSpec

\* Every request is answered: a close does not wait for ever for the pump.
RequestsReturn == \A r \in Requests : at[r] # "idle" ~> at[r] = "idle"

\* A page that follows a session learns that its device is gone, although the
\* stream may end just before the last event, unless the session is closed.
PageLearns ==
    \A p \in Pages, s \in Ids :
        watched[p] = s /\ ~connected[s] ~> told[p] \/ closed[s]

\* The streams of a session that was closed come to an end.
StreamsEnd ==
    \A p \in Pages, s \in Ids : closed[s] /\ watched[p] = s ~> stream[p] = "over"

\* A page is told, and let go when there is nothing more to tell.
PageIsServed == PageLearns /\ StreamsEnd

\* process_interlock.py:1, "Read-only detection of simulator processes that
\* must not overlap calibration.": no session has the device open while a
\* simulator runs.  It is checked once, before the device is opened.
NoOverlap == simulator => Owners = {}
=============================================================================
