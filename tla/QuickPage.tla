----------------------------- MODULE QuickPage -----------------------------
(***************************************************************************)
(* The mapping page (static/quick_app.js) against the console.             *)
(*                                                                         *)
(* The page polls the catalog until there is a device, creates a session   *)
(* for it, follows the session's events, and starts over when the device   *)
(* goes.  Its handlers run one at a time but each await lets the others    *)
(* in: refresh() returns beginMonitoring() without awaiting it, so         *)
(* `refreshing` is FALSE again while the session is being created and the  *)
(* next tick may create another.  Answers and events come over different   *)
(* connections, in any order.                                              *)
(*                                                                         *)
(* The server is what the page sees of Sessions: one active session, its   *)
(* device, and whether that device has gone.  Bounds: Tasks, MaxUnplugs,   *)
(* MaxHides, one arm request in flight.  cancel() (:659-674) is called by  *)
(* nothing on the page and left out.                                       *)
(***************************************************************************)
EXTENDS Integers, Sequences, FiniteSets

CONSTANTS
    Devices,    \* the identities of joysticks
    Tasks,      \* bound: calls of beginMonitoring() in flight
    MaxUnplugs, \* bound: devices taken out
    MaxHides,   \* bound: times the page is left or loaded again
    MayArm,     \* the operator clicks mapping cards
    None

ASSUME QuickPageAssumption ==
    /\ None \notin Devices /\ IsFiniteSet(Devices)
    /\ MaxUnplugs \in Nat /\ MaxHides \in Nat /\ MayArm \in BOOLEAN

VARIABLES
    present,  \* the devices that are there
    blocked,  \* a simulator runs: creating is refused
    made,     \* the device of every session created; a session is its index
    active,   \* the session the manager holds, or 0
    lost,     \* the sessions whose device has gone
    unplugs,
    page,     \* the page is "here" or "gone"
    sid,      \* state.sessionId, or 0
    conn,     \* state.connected
    expected, \* state.expectedIdentity
    mismatch, \* state.mismatchDevice
    polling,  \* state.pollTimer is set
    refresh,  \* where refresh() is; "off": not refreshing
    awaited,  \* the session whose DELETE refresh() awaits, or 0
    listing,  \* the devices its catalog named
    task,     \* the calls of beginMonitoring()
    sse,      \* the session whose EventSource is open, or 0
    closing,  \* state.pendingClose: the session whose DELETE it is, or 0
    deletes,  \* the DELETEs the server has not worked off
    arm,      \* the arm request in flight
    agreed,   \* history: the devices the operator has agreed to
    hides

server == <<present, blocked, made, active, lost, unplugs>>
shown == <<sid, conn, expected, mismatch, agreed>>
work == <<polling, refresh, awaited, listing, task, sse, closing>>
vars == <<server, page, shown, work, deletes, arm, hides>>

Off == [at |-> "off", want |-> None, got |-> 0]
NoArm == [at |-> "off", of |-> 0, connected |-> FALSE]
Sessions == 0..Len(made)
Device(s) == made[s]

\* A page just loaded: mount() has called refresh(), which asks.
Fresh ==
    [sid |-> 0, conn |-> FALSE, expected |-> None, mismatch |-> None,
     polling |-> FALSE, refresh |-> "ask"]

Init ==
    /\ present \in SUBSET Devices /\ blocked \in BOOLEAN
    /\ made = <<>> /\ active = 0 /\ lost = {} /\ unplugs = 0
    /\ page = "here"
    /\ sid = Fresh.sid /\ conn = Fresh.conn
    /\ expected = Fresh.expected /\ mismatch = Fresh.mismatch
    /\ polling = Fresh.polling /\ refresh = Fresh.refresh
    /\ listing = {} /\ awaited = 0 /\ task = [t \in Tasks |-> Off]
    /\ sse = 0 /\ closing = 0 /\ deletes = {} /\ arm = NoArm
    /\ agreed = Devices /\ hides = 0

-----------------------------------------------------------------------------
(* The machine and the server *)

\* The pump's noticing is part of the step: what it says travels on its own.
Unplug(d) ==
    /\ d \in present /\ unplugs < MaxUnplugs
    /\ present' = present \ {d}
    /\ lost' = lost \cup (IF active # 0 /\ Device(active) = d THEN {active} ELSE {})
    /\ unplugs' = unplugs + 1
    /\ UNCHANGED <<blocked, made, active, page, shown, work, deletes, arm, hides>>

Plug(d) ==
    /\ d \notin present /\ present' = present \cup {d}
    /\ UNCHANGED <<blocked, made, active, lost, unplugs, page, shown, work, deletes, arm, hides>>

Simulator ==
    /\ blocked' = ~blocked
    /\ UNCHANGED <<present, made, active, lost, unplugs, page, shown, work, deletes, arm, hides>>

\* The first of the devices there, in the order of their paths: the catalog
\* and create_quick() list the same devices alike.
First(devices) == CHOOSE d \in devices : TRUE

\* The devices create_quick(want) may open.
Candidates(want) == IF want = None THEN present ELSE present \cap {want}

\* create_quick(): the interlock, the single session, the device.
Refuses(want) == blocked \/ active # 0 \/ Candidates(want) = {}

\* The next fresh session.
NewSession == Len(made) + 1

ServeCreate(t) ==
    /\ task[t].at \in {"sent", "abandoned"}
    /\ \/ /\ Refuses(task[t].want)
          /\ task' = [task EXCEPT ![t] =
                        IF @.at = "sent" THEN [@ EXCEPT !.at = "refused"] ELSE Off]
          /\ UNCHANGED <<made, active>>
       \/ /\ ~Refuses(task[t].want)
          /\ made' = Append(made, First(Candidates(task[t].want)))
          /\ active' = NewSession
          /\ task' = [task EXCEPT ![t] =
                        IF @.at = "sent"
                        THEN [@ EXCEPT !.at = "created", !.got = NewSession]
                        ELSE Off]
    /\ UNCHANGED <<present, blocked, lost, unplugs, page, shown, polling, refresh, awaited,
                   listing, sse, closing, deletes, arm, hides>>

\* close(): 404 for a session that is not the active one.
ServeDelete(s) ==
    /\ s \in deletes
    /\ deletes' = deletes \ {s}
    /\ active' = IF active = s THEN 0 ELSE active
    /\ UNCHANGED <<present, blocked, made, lost, unplugs, page, shown, work, arm, hides>>

\* get_quick() and _require_mutable_locked(); a refusal changes nothing on
\* the page.
ServeArm ==
    /\ arm.at = "sent"
    /\ arm' = IF active = arm.of /\ arm.of \notin lost
              THEN [arm EXCEPT !.at = "accepted"] ELSE NoArm
    /\ UNCHANGED <<server, page, shown, work, deletes, hides>>

\* The answer is a snapshot of its own.
AnswerArm ==
    /\ arm.at = "accepted"
    /\ arm' = [arm EXCEPT !.at = "armed", !.connected = arm.of \notin lost]
    /\ UNCHANGED <<server, page, shown, work, deletes, hides>>

ServeCatalog ==
    /\ page = "here" /\ refresh = "ask"
    /\ refresh' = "listed" /\ listing' = present
    /\ UNCHANGED <<server, page, shown, polling, awaited, task, sse, closing, deletes, arm, hides>>

-----------------------------------------------------------------------------
(* The page *)

\* applyEnvelope(): the session and whether it is connected.
ApplyEnvelope(s, connected) == sid' = s /\ conn' = connected

\* The step of a call of beginMonitoring(want) up to its first await: `got` is
\* the session whose DELETE it awaits.
Begun(want) ==
    [at |-> IF closing # 0 THEN "wait" ELSE "sent", want |-> want, got |-> closing]

\* The task slots and the timer after a call that begins monitoring.
BeginMonitoring(want) ==
    \E t \in Tasks : task[t].at = "off" /\ task' = [task EXCEPT ![t] = Begun(want)]

\* The timer: a tick while refreshing does nothing.
Tick ==
    /\ page = "here" /\ polling /\ refresh = "off"
    /\ refresh' = IF closing # 0 THEN "wait" ELSE "ask"
    /\ awaited' = closing
    /\ UNCHANGED <<server, page, shown, polling, listing, task, sse, closing, deletes, arm, hides>>

\* Who awaits the DELETE of s.
Awaits(t, s) == task[t].at = "wait" /\ task[t].got = s

\* A DELETE is answered or has failed: whoever awaits it goes on, and clears
\* pendingClose, even if that is another session's by now.
CloseAnswered ==
    \E s \in {closing, awaited} \cup {task[t].got : t \in {u \in Tasks : task[u].at = "wait"}} :
        /\ page = "here" /\ s # 0 /\ s \notin deletes
        /\ closing' = 0
        /\ IF awaited = s THEN refresh' = "ask" /\ awaited' = 0
                          ELSE UNCHANGED <<refresh, awaited>>
        /\ task' = [t \in Tasks |->
                      IF Awaits(t, s) THEN [task[t] EXCEPT !.at = "sent", !.got = 0]
                                      ELSE task[t]]
        /\ UNCHANGED <<server, page, shown, polling, listing, sse, deletes, arm, hides>>

\* The catalog could not be read.
CatalogFails ==
    /\ page = "here" /\ refresh = "ask"
    /\ refresh' = "off" /\ polling' = TRUE
    /\ UNCHANGED <<server, page, shown, awaited, listing, task, sse, closing, deletes, arm, hides>>

\* `exactMatch` of the catalog.
Known == expected # None /\ expected \in listing

\* refresh() from the catalog's answer to its end; it does not await the
\* monitoring it begins.
Returns == refresh' = "off" /\ listing' = {}

ListedConnected ==
    /\ conn /\ Returns
    /\ UNCHANGED <<mismatch, polling, task>>

ListedNothing ==
    /\ ~conn /\ listing = {} /\ Returns
    /\ mismatch' = None /\ polling' = TRUE
    /\ UNCHANGED task

ListedOther ==
    /\ ~conn /\ listing # {} /\ expected # None /\ ~Known /\ Returns
    /\ mismatch' = First(listing) /\ polling' = TRUE
    /\ UNCHANGED task

ListedKnown ==
    /\ ~conn /\ listing # {} /\ (expected = None \/ Known) /\ Returns
    /\ BeginMonitoring(expected)
    /\ UNCHANGED <<mismatch, polling>>

Listed ==
    /\ page = "here" /\ refresh = "listed"
    /\ ListedConnected \/ ListedNothing \/ ListedOther \/ ListedKnown
    /\ UNCHANGED <<server, page, sid, conn, expected, agreed, awaited, sse, closing, deletes, arm, hides>>

\* "Use new device": whichever device the button named.
UseNewDevice ==
    /\ page = "here" /\ ~conn /\ mismatch # None
    /\ expected' = None /\ mismatch' = None
    /\ agreed' = agreed \cup {mismatch}
    /\ BeginMonitoring(None)
    /\ UNCHANGED <<server, page, sid, conn, polling, refresh, awaited, listing, sse, closing, deletes, arm, hides>>

\* beginMonitoring() after a session was created; its device may have gone
\* before the answer was written.
Created(t) ==
    /\ page = "here" /\ task[t].at = "created"
    /\ expected' = Device(task[t].got) /\ mismatch' = None
    /\ \E connected \in {TRUE, task[t].got \notin lost} :
         ApplyEnvelope(task[t].got, connected)
    /\ agreed' = {Device(task[t].got)}
    /\ polling' = FALSE
    /\ sse' = task[t].got
    /\ task' = [task EXCEPT ![t] = Off]
    /\ UNCHANGED <<server, page, refresh, awaited, listing, closing, deletes, arm, hides>>

\* Mutant of Refused: the timer is not started.
RefusedForGood(t) ==
    /\ page = "here" /\ task[t].at = "refused"
    /\ task' = [task EXCEPT ![t] = Off]
    /\ UNCHANGED <<server, page, shown, polling, refresh, awaited, listing, sse, closing, deletes, arm, hides>>

\* ... and after it was refused.
Refused(t) ==
    /\ page = "here" /\ task[t].at = "refused"
    /\ polling' = TRUE
    /\ task' = [task EXCEPT ![t] = Off]
    /\ UNCHANGED <<server, page, shown, refresh, awaited, listing, sse, closing, deletes, arm, hides>>

\* An event that is not "disconnected"; it may have been sent before the
\* device went.
Snapshot ==
    /\ page = "here" /\ sse # 0
    /\ ApplyEnvelope(sse, TRUE)
    /\ UNCHANGED <<server, page, expected, mismatch, agreed, work, deletes, arm, hides>>

\* Mutant of Disconnected: the events are not closed.
DisconnectedOpen ==
    /\ page = "here" /\ sse # 0 /\ sse \in lost
    /\ sid' = 0 /\ conn' = FALSE
    /\ IF sid # 0
       THEN closing' = sid /\ deletes' = deletes \cup {sid}
       ELSE UNCHANGED <<closing, deletes>>
    /\ polling' = TRUE
    /\ UNCHANGED <<server, page, expected, mismatch, agreed, refresh, awaited, listing, task, sse, arm, hides>>

\* Mutant of Disconnected: the page goes on showing a connection.
DisconnectedShown ==
    /\ page = "here" /\ sse # 0 /\ sse \in lost
    /\ sid' = 0 /\ sse' = 0
    /\ IF sid # 0
       THEN closing' = sid /\ deletes' = deletes \cup {sid}
       ELSE UNCHANGED <<closing, deletes>>
    /\ polling' = TRUE
    /\ UNCHANGED <<server, page, conn, expected, mismatch, agreed, refresh, awaited, listing, task, arm, hides>>

\* handleDisconnected()
Disconnected ==
    /\ page = "here" /\ sse # 0 /\ sse \in lost
    /\ sid' = 0 /\ conn' = FALSE
    /\ sse' = 0
    /\ IF sid # 0
       THEN closing' = sid /\ deletes' = deletes \cup {sid}
       ELSE UNCHANGED <<closing, deletes>>
    /\ polling' = TRUE
    /\ UNCHANGED <<server, page, expected, mismatch, agreed, refresh, awaited, listing, task, arm, hides>>

\* A mapping card is clicked.
Arm ==
    /\ MayArm /\ page = "here" /\ sid # 0 /\ conn /\ arm.at = "off"
    /\ arm' = [at |-> "sent", of |-> sid, connected |-> FALSE]
    /\ UNCHANGED <<server, page, shown, work, deletes, hides>>

Armed ==
    /\ page = "here" /\ arm.at = "armed"
    /\ ApplyEnvelope(arm.of, arm.connected)
    /\ arm' = NoArm
    /\ UNCHANGED <<server, page, expected, mismatch, agreed, work, deletes, hides>>

\* A request in flight when the page goes is aborted or still served.
Abandoned(old) ==
    CASE old.at = "sent" -> {Off, [old EXCEPT !.at = "abandoned"]}
      [] old.at = "abandoned" -> {old}
      [] OTHER -> {Off}

\* pagehide: releaseForPageExit(); nothing of the page is left.
Hide ==
    /\ page = "here" /\ hides < MaxHides
    /\ hides' = hides + 1
    /\ page' = "gone"
    /\ deletes' = IF sid # 0 THEN deletes \cup {sid} ELSE deletes
    /\ sid' = 0 /\ conn' = FALSE /\ expected' = None /\ mismatch' = None
    /\ polling' = FALSE /\ sse' = 0 /\ closing' = 0
    /\ refresh' = "off" /\ awaited' = 0 /\ listing' = {}
    /\ \E next \in [Tasks -> {Off} \cup [at : {"abandoned"}, want : Devices \cup {None}, got : {0}]] :
         /\ \A t \in Tasks : next[t] \in Abandoned(task[t])
         /\ task' = next
    /\ arm' = NoArm /\ agreed' = Devices
    /\ UNCHANGED server

\* The page is loaded: mount().
Load ==
    /\ page = "gone" /\ page' = "here"
    /\ refresh' = Fresh.refresh
    /\ UNCHANGED <<server, shown, polling, awaited, listing, task, sse, closing, deletes, arm, hides>>

-----------------------------------------------------------------------------
Next ==
    \/ \E d \in Devices : Unplug(d) \/ Plug(d)
    \/ Simulator
    \/ \E t \in Tasks : ServeCreate(t) \/ Created(t) \/ Refused(t)
    \/ \E s \in deletes : ServeDelete(s)
    \/ ServeArm \/ AnswerArm \/ ServeCatalog
    \/ Tick \/ CloseAnswered \/ CatalogFails \/ Listed \/ UseNewDevice
    \/ Snapshot \/ Disconnected \/ Arm \/ Armed
    \/ Hide \/ Load

\* The server answers, the browser runs what is due, a pump sends a snapshot
\* again and again, and not every catalog fails.  Nobody has to plug, click
\* or leave.
Fairness ==
    /\ \A t \in Tasks :
         WF_vars(ServeCreate(t)) /\ WF_vars(Created(t)) /\ WF_vars(Refused(t))
    /\ WF_vars(\E s \in deletes : ServeDelete(s))
    /\ WF_vars(ServeArm) /\ WF_vars(AnswerArm) /\ SF_vars(ServeCatalog)
    /\ WF_vars(Tick) /\ WF_vars(CloseAnswered) /\ WF_vars(Listed)
    /\ WF_vars(Disconnected) /\ WF_vars(Armed) /\ WF_vars(Load)
    /\ WF_vars(sse \notin lost /\ Snapshot)

Spec == Init /\ [][Next]_vars /\ Fairness
-----------------------------------------------------------------------------
(* Properties *)

\* The types of the variables.
TypeOK ==
    /\ present \subseteq Devices /\ blocked \in BOOLEAN
    /\ made \in Seq(Devices) /\ active \in Sessions /\ lost \subseteq Sessions \ {0}
    /\ unplugs \in 0..MaxUnplugs /\ hides \in 0..MaxHides
    /\ page \in {"here", "gone"}
    /\ sid \in Sessions /\ conn \in BOOLEAN
    /\ expected \in Devices \cup {None} /\ mismatch \in Devices \cup {None}
    /\ polling \in BOOLEAN /\ refresh \in {"off", "wait", "ask", "listed"}
    /\ awaited \in Sessions
    /\ listing \subseteq Devices /\ agreed \subseteq Devices
    /\ \A t \in Tasks :
         /\ task[t].at \in {"off", "wait", "sent", "created", "refused", "abandoned"}
         /\ task[t].want \in Devices \cup {None}
         /\ task[t].got \in Sessions
         /\ (task[t].at \in {"created", "wait"}) = (task[t].got # 0)
    /\ sse \in Sessions /\ closing \in Sessions /\ deletes \subseteq Sessions \ {0}
    /\ arm.at \in {"off", "sent", "accepted", "armed"}
    /\ arm.of \in Sessions /\ arm.connected \in BOOLEAN

\* The events a page follows are those of the session the console holds:
\* nothing the page sends closes the session it listens to, in whatever order
\* its DELETEs, its two creations and its late answers come.  (And the state is
\* well typed.)
FollowsTheActive == TypeOK /\ (sse # 0 => sse = active)

\* A page is never left with nothing under way: it listens, polls, refreshes
\* or is about to hear of a session it asked for.  Every path out of
\* refresh() and beginMonitoring() starts the timer or a session.
NeverIdle ==
    page = "here" =>
        sse # 0 \/ polling \/ refresh # "off" \/ \E t \in Tasks : task[t].at # "off"

Calm == page = "here" /\ ~blocked /\ present = Devices
Monitoring == conn /\ sse # 0 /\ sse = active /\ sse \notin lost

\* A page that is not left and whose operator clicks on no card comes to monitor
\* a device when every one is there for good and no simulator runs, after any
\* number of lost devices, refused creations and failed catalogs.
Reconnects ==
    [](hides = 0 /\ arm.at = "off") => (<>[]Calm => <>[]Monitoring)

\* quick_app.js:508, after a lost device: "keeping the bindings and waiting
\* for the same device to connect again".
DisconnectWaits ==
    [](page = "here" /\ closing # 0 => (<>[]Calm => <>Monitoring))

\* A page that is left releases its session
\* (quick_ui_behavior_test.mjs:1025).
PageExitReleases == (page = "gone") ~> (active = 0 \/ active = sse)

\* The page follows another device than before only when the operator agreed
\* to that device (quick_ui_behavior_test.mjs:886).
UsesAgreedDevice ==
    [][sse' # sse /\ sse' # 0 => Device(sse') \in agreed]_vars
=============================================================================
