---------------------------- MODULE ConsoleProofs ----------------------------
(***************************************************************************)
(* What the mapping console promises of its page and of its two ways to    *)
(* make a profile, for every set of devices, controls, axes and buttons.   *)
(***************************************************************************)
EXTENDS QuickPage, Mapping, SequenceTheorems, WellFoundedInduction, TLAPS

(* The mapping page against the console *)

\* The types, in the parts that the actions leave alone together; requests are
\* records.
ServerTypes ==
    /\ present \subseteq Devices /\ blocked \in BOOLEAN /\ made \in Seq(Devices)
    /\ active \in Sessions /\ lost \subseteq Sessions \ {0} /\ unplugs \in 0 .. MaxUnplugs

ShownTypes ==
    /\ page \in {"here", "gone"} /\ conn \in BOOLEAN /\ polling \in BOOLEAN
    /\ expected \in Devices \cup {None} /\ mismatch \in Devices \cup {None}
    /\ refresh \in {"off", "wait", "ask", "listed"}
    /\ listing \subseteq Devices /\ agreed \subseteq Devices /\ hides \in 0 .. MaxHides

NamedTypes ==
    /\ sid \in Sessions /\ sse \in Sessions /\ closing \in Sessions /\ awaited \in Sessions
    /\ deletes \subseteq Sessions \ {0}

Request ==
    [at : {"off", "wait", "sent", "created", "refused", "abandoned"},
     want : Devices \cup {None}, got : Nat]

\* A call names a session while it awaits its DELETE, and when it was created.
Knows(r) == r.at \in {"created", "wait"} <=> r.got # 0

TaskTypes ==
    /\ task \in [Tasks -> Request]
    /\ \A t \in Tasks : /\ task[t].got \in Sessions
                        /\ Knows(task[t])

ArmTypes ==
    /\ arm \in [at : {"off", "sent", "accepted", "armed"}, of : Nat, connected : BOOLEAN]
    /\ arm.of \in Sessions

PageTypes == ServerTypes /\ ShownTypes /\ NamedTypes /\ TaskTypes /\ ArmTypes

\* The session an answer on its way names is the one the console holds, and
\* nobody on the page knows it yet, so nothing can have asked to close it.
AnswerIsNew ==
    \A t \in Tasks : task[t].at = "created" =>
        /\ task[t].got = active /\ task[t].got \notin deletes
        /\ task[t].got \notin {sse, sid, arm.of}

OneAnswer ==
    \A t, u \in Tasks : task[t].at = "created" /\ task[u].at = "created" => t = u

\* A page that shows a connection, or may come to by an answer to a click,
\* listens or polls.
ShownIsAttended == conn \/ arm.at # "off" => sse # 0 \/ polling

\* What a page that was left has asked for does not count.
UnderWay == \E t \in Tasks : task[t].at \in {"wait", "sent", "created", "refused"}
PageGoesOn == page = "here" => sse # 0 \/ polling \/ refresh # "off" \/ UnderWay

\* What the page listens to is the console's session, and nothing it has sent
\* will close that.
ListensToTheActive == sse # 0 => sse = active /\ sse \notin deletes

PageInv ==
    /\ PageTypes
    /\ ListensToTheActive /\ AnswerIsNew /\ OneAnswer /\ ShownIsAttended /\ PageGoesOn

\* Sessions are numbered in their order.
LEMMA SessionFacts ==
    ASSUME PageTypes
    PROVE  /\ Len(made) \in Nat /\ Sessions = 0 .. Len(made)
           /\ \A s \in Sessions \ {0} : Device(s) \in Devices
           /\ NewSession \in Nat /\ NewSession \notin Sessions
<1>1. made \in Seq(Devices)
  BY DEF PageTypes, ServerTypes
<1>2. Len(made) \in Nat /\ \A s \in 1 .. Len(made) : made[s] \in Devices
  BY <1>1, LenProperties, ElementOfSeq
<1>3. QED
  BY <1>2 DEF Sessions, Device, NewSession

\* The parts are the types the runs check.
LEMMA PageIsTyped == PageTypes => TypeOK
<1> SUFFICES ASSUME PageTypes PROVE TypeOK
  OBVIOUS
<1>1. \A t \in Tasks :
        /\ task[t].at \in {"off", "wait", "sent", "created", "refused", "abandoned"}
        /\ task[t].want \in Devices \cup {None} /\ task[t].got \in Sessions
        /\ (task[t].at \in {"created", "wait"}) = (task[t].got # 0)
  BY DEF PageTypes, TaskTypes, Request, Knows
<1>2. /\ arm.at \in {"off", "sent", "accepted", "armed"}
      /\ arm.of \in Sessions /\ arm.connected \in BOOLEAN
  BY DEF PageTypes, ArmTypes
<1>3. QED
  BY <1>1, <1>2, Zenon DEF PageTypes, ServerTypes, ShownTypes, NamedTypes, TypeOK

\* Any device of a set of them is one.
LEMMA FirstIsOne == ASSUME NEW S, S # {} PROVE First(S) \in S
  BY DEF First

\* A call that begins monitoring is a call.
LEMMA BegunIsATask ==
    ASSUME NEW want \in Devices \cup {None}, BeginMonitoring(want)
    PROVE  \E t \in Tasks :
              /\ task[t].at = "off" /\ task' = [task EXCEPT ![t] = Begun(want)]
              /\ Begun(want) \in [at : {"wait", "sent"}, want : Devices \cup {None},
                                  got : {closing}]
              /\ Knows(Begun(want))
  BY DEF BeginMonitoring, Begun, Knows

\* Parts nobody touches keep their types while no session is made.
LEMMA TypesStay ==
    ASSUME made' = made
    PROVE  /\ Sessions' = Sessions
           /\ NamedTypes /\ UNCHANGED <<sid, sse, closing, awaited, deletes>> => NamedTypes'
           /\ TaskTypes /\ task' = task => TaskTypes'
           /\ ArmTypes /\ arm' = arm => ArmTypes'
           /\ ServerTypes /\ UNCHANGED server => ServerTypes'
<1>1. Sessions' = Sessions
  BY DEF Sessions
<1>2. QED
  BY <1>1 DEF NamedTypes, TaskTypes, ArmTypes, ServerTypes, server

\* A call that changes keeps the types of the calls.
LEMMA TaskChanges ==
    ASSUME TaskTypes, Sessions' = Sessions, NEW t \in Tasks,
           NEW r \in Request, r.got \in Sessions, Knows(r),
           task' = [task EXCEPT ![t] = r]
    PROVE  TaskTypes'
<1>1. ASSUME NEW u \in Tasks
      PROVE  /\ task'[u] \in Request /\ task'[u].got \in Sessions /\ Knows(task'[u])
  BY DEF TaskTypes
<1>2. task' \in [Tasks -> Request]
  BY DEF TaskTypes
<1>3. QED
  BY <1>1, <1>2, Zenon DEF TaskTypes, Knows

\* Serving a creation: refused, or a session of a device that is there.
LEMMA ServeCreateTypes ==
    ASSUME PageTypes, NEW t \in Tasks, ServeCreate(t)
    PROVE  PageTypes' /\ Sessions \subseteq Sessions'
<1>1. /\ ServerTypes /\ ShownTypes /\ NamedTypes /\ TaskTypes /\ ArmTypes
      /\ UNCHANGED <<present, blocked, lost, unplugs, page, sid, conn, expected, mismatch,
                     agreed, polling, refresh, awaited, listing, sse, closing, deletes, arm, hides>>
  BY DEF PageTypes, ServeCreate, shown
<1>2. ShownTypes'
  BY <1>1 DEF ShownTypes
<1>3. CASE Refuses(task[t].want)
  <2>1. /\ UNCHANGED <<made, active>>
        /\ task' = [task EXCEPT ![t] = IF @.at = "sent" THEN [@ EXCEPT !.at = "refused"]
                                       ELSE Off]
    BY <1>3 DEF ServeCreate
  <2>2. Sessions' = Sessions /\ NamedTypes' /\ ArmTypes' /\ ServerTypes'
    BY <1>1, <2>1, TypesStay DEF server
  <2>3. task[t] \in Request /\ task[t].got \in Sessions
        /\ Knows(task[t])
    BY <1>1 DEF TaskTypes
  <2>4. 0 \in Sessions
    BY SessionFacts
  <2>5. TaskTypes'
    <3>1. CASE task[t].at = "sent"
      <4> DEFINE r == [task[t] EXCEPT !.at = "refused"]
      <4>1. r \in Request /\ r.at = "refused" /\ r.got = task[t].got
        BY <2>3 DEF Request
      <4>2. task' = [task EXCEPT ![t] = r]
        BY <2>1, <3>1
      <4>3. r.got \in Sessions /\ Knows(r)
        BY <2>3, <4>1, <3>1 DEF Knows
      <4> HIDE DEF r
      <4>4. QED
        BY <1>1, <2>2, <4>1, <4>2, <4>3, TaskChanges
    <3>2. CASE task[t].at # "sent"
      <4>1. Off \in Request /\ Knows(Off) /\ Off.got = 0
        BY DEF Off, Request, Knows
      <4>2. task' = [task EXCEPT ![t] = Off]
        BY <2>1, <3>2
      <4>3. QED
        BY <1>1, <2>2, <2>4, <4>1, <4>2, TaskChanges
    <3>3. QED
      BY <3>1, <3>2
  <2>6. QED
    BY <1>2, <2>2, <2>5 DEF PageTypes
<1>4. CASE ~Refuses(task[t].want)
  <2>1. /\ made' = Append(made, First(Candidates(task[t].want))) /\ active' = NewSession
        /\ Candidates(task[t].want) # {}
        /\ task' = [task EXCEPT ![t] =
                       IF @.at = "sent"
                       THEN [@ EXCEPT !.at = "created", !.got = NewSession] ELSE Off]
    BY <1>4 DEF ServeCreate, Refuses
  <2>2. First(Candidates(task[t].want)) \in Devices
    BY <1>1, <2>1, FirstIsOne DEF Candidates, ServerTypes
  <2>3. made' \in Seq(Devices) /\ Len(made') = Len(made) + 1 /\ Len(made) \in Nat
    BY <1>1, <2>1, <2>2, AppendProperties, LenProperties DEF ServerTypes
  <2>4. /\ Sessions \subseteq Sessions' /\ NewSession \in Sessions' /\ 0 \in Sessions'
        /\ NewSession \in Nat /\ NewSession # 0
    BY <2>3 DEF NewSession, Sessions
  <2>5. ServerTypes' /\ NamedTypes' /\ ArmTypes'
    BY <1>1, <2>1, <2>3, <2>4 DEF ServerTypes, NamedTypes, ArmTypes
  <2>6. task' \in [Tasks -> Request]
    BY <1>1, <2>1, <2>4 DEF TaskTypes, Request, Off
  <2>7. ASSUME NEW u \in Tasks
        PROVE  task'[u].got \in Sessions' /\ Knows(task'[u])
    <3>1. CASE u # t
      BY <1>1, <2>1, <2>4, <3>1 DEF TaskTypes
    <3>2. CASE u = t /\ task[t].at = "sent"
      <4>1. task'[u] = [task[t] EXCEPT !.at = "created", !.got = NewSession]
            /\ task[t] \in Request
        BY <1>1, <2>1, <3>2 DEF TaskTypes
      <4>2. task'[u].at = "created" /\ task'[u].got = NewSession
        BY <4>1 DEF Request
      <4>3. QED
        BY <4>2, <2>4 DEF Knows
    <3>3. CASE u = t /\ task[t].at # "sent"
      BY <1>1, <2>1, <2>4, <3>3 DEF TaskTypes, Off, Knows
    <3>4. QED
      BY <3>1, <3>2, <3>3
  <2>8. TaskTypes'
    BY <2>6, <2>7, Zenon DEF TaskTypes, Knows
  <2>9. QED
    BY <1>2, <2>4, <2>5, <2>8, Zenon DEF PageTypes
<1>5. QED
  BY <1>3, <1>4

\* A step that makes no session and leaves the calls alone keeps the types when
\* what else it sets is well typed.
LEMMA QuietTypes ==
    ASSUME PageTypes, made' = made, task' = task, ShownTypes',
           present' \subseteq Devices, blocked' \in BOOLEAN, active' \in Sessions,
           lost' \subseteq Sessions \ {0}, unplugs' \in 0 .. MaxUnplugs,
           sid' \in Sessions, sse' \in Sessions, closing' \in Sessions, awaited' \in Sessions,
           deletes' \subseteq Sessions \ {0},
           arm' \in [at : {"off", "sent", "accepted", "armed"}, of : Sessions,
                     connected : BOOLEAN]
    PROVE  PageTypes'
<1>1. Sessions' = Sessions /\ TaskTypes'
  BY TypesStay DEF PageTypes
<1>2. ServerTypes' /\ NamedTypes'
  BY <1>1 DEF ServerTypes, NamedTypes, PageTypes
<1>3. ArmTypes'
  BY <1>1, SessionFacts DEF ArmTypes
<1>4. QED
  BY <1>1, <1>2, <1>3 DEF PageTypes

LEMMA QuietStepTypes ==
    ASSUME PageTypes,
           \/ \E d \in Devices : Unplug(d) \/ Plug(d)
           \/ Simulator \/ ServeArm \/ AnswerArm \/ ServeCatalog
           \/ \E s \in deletes : ServeDelete(s)
           \/ Tick \/ CatalogFails \/ Snapshot \/ Disconnected \/ Arm \/ Armed \/ Load
    PROVE  PageTypes' /\ made' = made /\ task' = task
<1> DEFINE Calls == [at : {"off", "sent", "accepted", "armed"}, of : Sessions,
                     connected : BOOLEAN]
<1>0. /\ present \subseteq Devices /\ blocked \in BOOLEAN
      /\ active \in Sessions /\ 0 \in Sessions
      /\ lost \subseteq Sessions \ {0} /\ unplugs \in 0 .. MaxUnplugs
      /\ sid \in Sessions /\ sse \in Sessions /\ closing \in Sessions /\ awaited \in Sessions
      /\ deletes \subseteq Sessions \ {0} /\ arm \in Calls /\ ShownTypes
      /\ NoArm \in Calls /\ arm.of \in Sessions /\ arm.connected \in BOOLEAN
      /\ MaxUnplugs \in Nat
  <2>1. 0 \in Sessions /\ Sessions \subseteq Nat
    BY SessionFacts
  <2>2. arm \in Calls
    BY DEF PageTypes, ArmTypes
  <2>3. MaxUnplugs \in Nat
    BY QuickPageAssumption
  <2>4. NoArm \in Calls
    BY <2>1 DEF NoArm
  <2>5. QED
    BY <2>1, <2>2, <2>3, <2>4 DEF PageTypes, ServerTypes, NamedTypes
<1> HIDE DEF Calls
<1>1. ASSUME NEW d \in Devices, Unplug(d) \/ Plug(d)
      PROVE  PageTypes' /\ made' = made /\ task' = task
  <2>1. /\ UNCHANGED <<blocked, made, active, page, sid, conn, expected, mismatch, agreed,
                       polling, refresh, awaited, listing, task, sse, closing, deletes, arm, hides>>
        /\ present' \subseteq Devices /\ lost' \subseteq Sessions \ {0}
        /\ unplugs' \in 0 .. MaxUnplugs
    BY <1>0, <1>1 DEF Unplug, Plug, shown, work
  <2>2. ShownTypes'
    BY <1>0, <2>1 DEF ShownTypes
  <2>3. QED
    BY <1>0, <2>1, <2>2, QuietTypes DEF Calls
<1>2. ASSUME Simulator \/ \E s \in deletes : ServeDelete(s)
      PROVE  PageTypes' /\ made' = made /\ task' = task
  <2>1. /\ UNCHANGED <<present, made, lost, unplugs, page, sid, conn, expected, mismatch,
                       agreed, polling, refresh, awaited, listing, task, sse, closing, arm, hides>>
        /\ blocked' \in BOOLEAN /\ active' \in Sessions /\ deletes' \subseteq deletes
    BY <1>0, <1>2 DEF Simulator, ServeDelete, shown, work
  <2>2. ShownTypes' /\ deletes' \subseteq Sessions \ {0}
    BY <1>0, <2>1 DEF ShownTypes
  <2>3. QED
    BY <1>0, <2>1, <2>2, QuietTypes DEF Calls
<1>3. ASSUME ServeArm \/ AnswerArm \/ Arm
      PROVE  PageTypes' /\ made' = made /\ task' = task
  <2>1. UNCHANGED <<present, blocked, made, active, lost, unplugs, page, sid, conn, expected,
                    mismatch, agreed, polling, refresh, awaited, listing, task, sse, closing,
                    deletes, hides>>
    BY <1>3 DEF ServeArm, AnswerArm, Arm, server, shown, work
  <2>2. arm' \in Calls
    <3>1. CASE ServeArm
      BY <1>0, <3>1 DEF ServeArm, Calls
    <3>2. CASE AnswerArm
      BY <1>0, <3>2 DEF AnswerArm, Calls
    <3>3. CASE Arm
      BY <1>0, <3>3 DEF Arm, Calls
    <3>4. QED
      BY <1>3, <3>1, <3>2, <3>3
  <2>3. ShownTypes'
    BY <1>0, <2>1 DEF ShownTypes
  <2>4. QED
    BY <1>0, <2>1, <2>2, <2>3, QuietTypes DEF Calls
<1>4. ASSUME ServeCatalog \/ Tick \/ CatalogFails \/ Load
      PROVE  PageTypes' /\ made' = made /\ task' = task
  <2>1. /\ UNCHANGED <<present, blocked, made, active, lost, unplugs, sid, conn, expected,
                       mismatch, agreed, task, sse, closing, deletes, arm, hides>>
        /\ awaited' \in Sessions /\ page' \in {"here", "gone"} /\ refresh' \in {"off", "wait", "ask", "listed"}
        /\ polling' \in BOOLEAN /\ listing' \subseteq Devices
    BY <1>0, <1>4
    DEF ServeCatalog, Tick, CatalogFails, Load, Fresh, server, shown, work, ShownTypes
  <2>2. ShownTypes'
    BY <1>0, <2>1 DEF ShownTypes
  <2>3. QED
    BY <1>0, <2>1, <2>2, QuietTypes DEF Calls
<1>5. ASSUME Snapshot \/ Armed
      PROVE  PageTypes' /\ made' = made /\ task' = task
  <2>1. /\ UNCHANGED <<present, blocked, made, active, lost, unplugs, page, expected,
                       mismatch, agreed, polling, refresh, awaited, listing, task, sse, closing,
                       deletes, hides>>
        /\ sid' \in Sessions /\ conn' \in BOOLEAN /\ arm' \in Calls
    BY <1>0, <1>5 DEF Snapshot, Armed, ApplyEnvelope, server, work
  <2>2. ShownTypes'
    BY <1>0, <2>1 DEF ShownTypes
  <2>3. QED
    BY <1>0, <2>1, <2>2, QuietTypes DEF Calls
<1>6. ASSUME Disconnected
      PROVE  PageTypes' /\ made' = made /\ task' = task
  <2>1. /\ UNCHANGED <<present, blocked, made, active, lost, unplugs, page, expected,
                       mismatch, agreed, refresh, awaited, listing, task, arm, hides>>
        /\ sid' = 0 /\ sse' = 0 /\ conn' = FALSE /\ polling' = TRUE
        /\ closing' \in Sessions /\ deletes' \subseteq Sessions \ {0}
    BY <1>0, <1>6 DEF Disconnected, server
  <2>2. ShownTypes'
    BY <1>0, <2>1 DEF ShownTypes
  <2>3. QED
    BY <1>0, <2>1, <2>2, QuietTypes DEF Calls
<1>7. QED
  BY <1>1, <1>2, <1>3, <1>4, <1>5, <1>6

\* A step of the page that changes its calls.
LEMMA CallTypes ==
    ASSUME PageTypes, UNCHANGED server, TaskTypes', ShownTypes',
           sid' \in Sessions, sse' \in Sessions, closing' \in Sessions, awaited' \in Sessions,
           deletes' \subseteq Sessions \ {0}, arm' = arm \/ arm' = NoArm
    PROVE  PageTypes' /\ made' = made
<1>1. made' = made /\ Sessions' = Sessions /\ ServerTypes'
  BY TypesStay DEF PageTypes, server
<1>2. NamedTypes'
  BY <1>1 DEF NamedTypes
<1>3. 0 \in Sessions
  BY SessionFacts
<1>4. ArmTypes'
  <2>1. CASE arm' = arm
    BY <1>1, <2>1, TypesStay DEF PageTypes
  <2>2. CASE arm' = NoArm
    BY <1>1, <1>3, <2>2 DEF ArmTypes, NoArm
  <2>3. QED
    BY <2>1, <2>2
<1>5. QED
  BY <1>1, <1>2, <1>4 DEF PageTypes

\* A call that begins or ends knows at most the session it awaits the end of.
LEMMA CallBegins ==
    ASSUME PageTypes, UNCHANGED server, NEW t \in Tasks, NEW r \in Request,
           r.got \in Sessions, Knows(r), task' = [task EXCEPT ![t] = r]
    PROVE  TaskTypes'
<1>1. Sessions' = Sessions /\ TaskTypes /\ 0 \in Sessions
  BY TypesStay, SessionFacts DEF PageTypes, server
<1>2. QED
  BY <1>1, TaskChanges

LEMMA CallStepTypes ==
    ASSUME PageTypes,
           \/ \E t \in Tasks : Created(t) \/ Refused(t)
           \/ CloseAnswered \/ Listed \/ UseNewDevice \/ Hide
    PROVE  PageTypes' /\ made' = made
<1>0. /\ sid \in Sessions /\ sse \in Sessions /\ closing \in Sessions
      /\ awaited \in Sessions /\ 0 \in Sessions
      /\ deletes \subseteq Sessions \ {0}
      /\ Off \in Request /\ Knows(Off) /\ Off.got = 0
      /\ ShownTypes /\ MaxHides \in Nat
  <2>1. MaxHides \in Nat
    BY QuickPageAssumption
  <2>2. Off \in Request /\ Knows(Off) /\ Off.got = 0
    BY DEF Off, Request, Knows
  <2>3. QED
    BY <2>1, <2>2, SessionFacts DEF PageTypes, NamedTypes
<1>1. ASSUME NEW t \in Tasks, Created(t) PROVE PageTypes' /\ made' = made
  <2>1. task[t].got \in Sessions \ {0} /\ Device(task[t].got) \in Devices
    BY <1>1, SessionFacts DEF Created, PageTypes, TaskTypes, Knows
  <2>2. /\ UNCHANGED <<page, refresh, awaited, listing, hides>> /\ arm' = arm /\ UNCHANGED server
        /\ expected' \in Devices /\ mismatch' = None /\ conn' \in BOOLEAN
        /\ agreed' \subseteq Devices /\ polling' = FALSE
        /\ sid' \in Sessions /\ sse' \in Sessions /\ closing' = closing /\ deletes' = deletes
        /\ task' = [task EXCEPT ![t] = Off]
    BY <1>1, <2>1 DEF Created, ApplyEnvelope
  <2>3. ShownTypes'
    BY <1>0, <2>2 DEF ShownTypes
  <2>4. TaskTypes'
    BY <1>0, <2>2, CallBegins
  <2>5. QED
    BY <1>0, <2>2, <2>3, <2>4, CallTypes
<1>2. ASSUME NEW t \in Tasks, Refused(t) PROVE PageTypes' /\ made' = made
  <2>1. /\ UNCHANGED <<page, conn, expected, mismatch, agreed, refresh, awaited, listing, hides>>
        /\ UNCHANGED <<sid, sse, closing, deletes, arm>> /\ UNCHANGED server
        /\ polling' = TRUE /\ task' = [task EXCEPT ![t] = Off]
    BY <1>2 DEF Refused, shown
  <2>2. ShownTypes'
    BY <1>0, <2>1 DEF ShownTypes
  <2>3. TaskTypes'
    BY <1>0, <2>1, CallBegins
  <2>4. QED
    BY <1>0, <2>1, <2>2, <2>3, CallTypes
<1>3. CASE CloseAnswered
  <2>1. PICK s \in Nat \cup {closing, awaited} \cup {task[t].got : t \in Tasks} :
        /\ closing' = 0 /\ awaited' \in {0, awaited} /\ refresh' \in {"ask", refresh}
        /\ task' = [t \in Tasks |-> IF Awaits(t, s)
                                    THEN [task[t] EXCEPT !.at = "sent", !.got = 0]
                                    ELSE task[t]]
        /\ UNCHANGED <<page, conn, polling, expected, mismatch, agreed, listing, hides>>
        /\ UNCHANGED <<sid, sse, deletes, arm>> /\ UNCHANGED server
    BY <1>3 DEF CloseAnswered, shown
  <2>2. ShownTypes'
    BY <1>0, <2>1 DEF ShownTypes
  <2>3. Sessions' = Sessions /\ TaskTypes
    BY <2>1, TypesStay DEF PageTypes, server
  <2>4. ASSUME NEW t \in Tasks
        PROVE  /\ task'[t] \in Request /\ task'[t].got \in Sessions /\ Knows(task'[t])
    <3>1. task[t] \in Request /\ task[t].got \in Sessions /\ Knows(task[t])
      BY <2>3 DEF TaskTypes
    <3>2. CASE Awaits(t, s)
      <4>1. task'[t] = [task[t] EXCEPT !.at = "sent", !.got = 0]
        BY <2>1, <3>2
      <4>2. task'[t].at = "sent" /\ task'[t].got = 0 /\ task'[t] \in Request
        <5>1. 0 \in Nat
          OBVIOUS
        <5>2. QED
          BY <3>1, <4>1, <5>1 DEF Request
      <4>3. QED
        BY <1>0, <4>2 DEF Knows
    <3>3. CASE ~Awaits(t, s)
      BY <2>1, <3>1, <3>3
    <3>4. QED
      BY <3>2, <3>3
  <2>5. task' \in [Tasks -> Request]
    <3>1. DOMAIN task' = Tasks /\ task' = [t \in Tasks |-> task'[t]]
      BY <2>1
    <3>2. QED
      BY <3>1, <2>4
  <2>6. TaskTypes'
    BY <2>3, <2>4, <2>5, Zenon DEF TaskTypes, Knows
  <2>7. QED
    BY <1>0, <2>1, <2>2, <2>6, CallTypes
<1>4. ASSUME Listed PROVE PageTypes' /\ made' = made
  <2>1. /\ UNCHANGED <<page, conn, expected, agreed, awaited, hides>>
        /\ UNCHANGED <<sid, sse, closing, deletes, arm>> /\ UNCHANGED server
        /\ refresh' = "off" /\ listing' = {}
    BY <1>4
    DEF Listed, ListedConnected, ListedNothing, ListedOther, ListedKnown, Returns
  <2>2. mismatch' \in Devices \cup {None} /\ polling' \in BOOLEAN
    BY <1>0, <1>4, FirstIsOne
    DEF Listed, ListedConnected, ListedNothing, ListedOther, ListedKnown, ShownTypes
  <2>3. ShownTypes'
    BY <1>0, <2>1, <2>2 DEF ShownTypes
  <2>4. TaskTypes'
    <3>1. CASE task' = task
      BY <2>1, <3>1, TypesStay DEF PageTypes, server
    <3>2. CASE ListedKnown
      <4>1. expected \in Devices \cup {None} /\ BeginMonitoring(expected)
        BY <1>0, <3>2 DEF ListedKnown, ShownTypes
      <4>2. PICK t \in Tasks : task' = [task EXCEPT ![t] = Begun(expected)]
                               /\ Begun(expected) \in [at : {"wait", "sent"},
                                      want : Devices \cup {None}, got : {closing}]
                               /\ Knows(Begun(expected))
        BY <4>1, BegunIsATask
      <4>3. Begun(expected) \in Request /\ Begun(expected).got \in Sessions
        BY <1>0, <4>2, SessionFacts DEF Request
      <4>4. QED
        BY <2>1, <4>2, <4>3, CallBegins
    <3>3. QED
      BY <1>4, <3>1, <3>2 DEF Listed, ListedConnected, ListedNothing, ListedOther
  <2>5. QED
    BY <1>0, <2>1, <2>3, <2>4, CallTypes
<1>5. CASE UseNewDevice
  <2>1. /\ UNCHANGED <<page, conn, polling, refresh, awaited, listing, hides>>
        /\ UNCHANGED <<sid, sse, closing, deletes, arm>> /\ UNCHANGED server
        /\ expected' = None /\ mismatch' = None /\ agreed' \subseteq Devices
    BY <1>0, <1>5 DEF UseNewDevice, ShownTypes
  <2>2. ShownTypes'
    BY <1>0, <2>1 DEF ShownTypes
  <2>3. PICK t \in Tasks : task' = [task EXCEPT ![t] = Begun(None)]
                           /\ Begun(None) \in [at : {"wait", "sent"},
                                  want : Devices \cup {None}, got : {closing}]
                           /\ Knows(Begun(None))
    BY <1>5, BegunIsATask DEF UseNewDevice
  <2>4. Begun(None) \in Request /\ Begun(None).got \in Sessions
    BY <1>0, <2>3, SessionFacts DEF Request
  <2>5. TaskTypes'
    BY <2>1, <2>3, <2>4, CallBegins
  <2>6. QED
    BY <1>0, <2>1, <2>2, <2>5, CallTypes
<1>6. CASE Hide
  <2>1. /\ page' = "gone" /\ conn' = FALSE /\ expected' = None /\ mismatch' = None
        /\ polling' = FALSE /\ refresh' = "off" /\ listing' = {} /\ agreed' = Devices
        /\ sid' = 0 /\ sse' = 0 /\ closing' = 0 /\ awaited' = 0 /\ arm' = NoArm /\ UNCHANGED server
        /\ deletes' \subseteq Sessions \ {0}
    BY <1>0, <1>6 DEF Hide
  <2>2. ShownTypes'
    <3>1. hides \in 0 .. MaxHides /\ hides' = hides + 1 /\ hides < MaxHides
      BY <1>0, <1>6 DEF Hide, ShownTypes
    <3>2. hides' \in 0 .. MaxHides
      BY <1>0, <3>1
    <3>3. QED
      BY <2>1, <3>2 DEF ShownTypes
  <2>3. task' \in [Tasks -> {Off} \cup [at : {"abandoned"}, want : Devices \cup {None},
                                        got : {0}]]
    BY <1>6 DEF Hide
  <2>4. \A r \in {Off} \cup [at : {"abandoned"}, want : Devices \cup {None}, got : {0}] :
           r \in Request /\ Knows(r) /\ r.got = 0
    BY <1>0 DEF Request, Knows
  <2>5. Sessions' = Sessions
    BY <2>1 DEF Sessions, server
  <2>6. TaskTypes'
    <3>1. task' \in [Tasks -> Request]
          /\ \A t \in Tasks : task'[t].got \in Sessions /\ Knows(task'[t])
      BY <1>0, <2>3, <2>4
    <3>2. QED
      BY <2>5, <3>1, Zenon DEF TaskTypes, Knows
  <2>7. QED
    BY <1>0, <2>1, <2>2, <2>6, CallTypes
<1>7. QED
  BY <1>1, <1>2, <1>3, <1>4, <1>5, <1>6

\* Every step keeps the types; sessions are never forgotten.
LEMMA PageTypesKept ==
    ASSUME PageTypes, [Next]_vars
    PROVE  PageTypes'
<1>1. CASE UNCHANGED vars
  <2>1. /\ UNCHANGED server /\ UNCHANGED <<sid, sse, closing, awaited, deletes>>
        /\ UNCHANGED <<page, conn, expected, mismatch, agreed, polling, refresh, listing,
                       hides>>
        /\ made' = made /\ task' = task /\ arm' = arm
    BY <1>1 DEF vars, server, shown, work
  <2>2. ShownTypes'
    BY <2>1 DEF PageTypes, ShownTypes
  <2>3. QED
    BY <2>1, <2>2, TypesStay DEF PageTypes, server
<1>2. CASE Next
  BY <1>2, ServeCreateTypes, QuietStepTypes, CallStepTypes DEF Next
<1>3. QED
  BY <1>1, <1>2

\* An unserved call is what it was, or begins, or goes on, or ends; only one that
\* is served becomes a creation's answer.
LEMMA CallsStep ==
    ASSUME PageTypes, [Next]_vars, NEW u \in Tasks, task'[u] # task[u]
    PROVE  \/ task'[u].at = "created" /\ ServeCreate(u)
           \/ task'[u].at # "created"
<1>0. task[u] \in Request
  BY DEF PageTypes, TaskTypes
<1>1. task \in [Tasks -> Request]
  BY DEF PageTypes, TaskTypes
<1>2. ASSUME NEW t \in Tasks, ServeCreate(t)
      PROVE  \/ task'[u].at = "created" /\ ServeCreate(u)
             \/ task'[u].at # "created"
  <2>1. u = t
    BY <1>1, <1>2 DEF ServeCreate
  <2>2. task[t].at \in {"sent", "abandoned"}
    BY <1>0, <1>2, <2>1 DEF ServeCreate
  <2>3. \/ task'[t] = Off
        \/ task'[t] = [task[t] EXCEPT !.at = "refused"]
        \/ task'[t] = [task[t] EXCEPT !.at = "created", !.got = NewSession]
    BY <1>1, <1>2 DEF ServeCreate
  <2>4. CASE task'[t] = Off
    BY <2>1, <2>4 DEF Off
  <2>5. CASE task'[t] = [task[t] EXCEPT !.at = "refused"]
    BY <1>0, <2>1, <2>2, <2>5 DEF Request
  <2>6. CASE task'[t] = [task[t] EXCEPT !.at = "created", !.got = NewSession]
    BY <1>0, <1>2, <2>1, <2>6 DEF Request
  <2>7. QED
    BY <2>3, <2>4, <2>5, <2>6
<1>3. ASSUME NEW t \in Tasks, Created(t) \/ Refused(t)
      PROVE  task'[u].at # "created"
  <2>1. task' = [task EXCEPT ![t] = Off]
    BY <1>3 DEF Created, Refused
  <2>2. task'[u] = Off
    BY <1>1, <2>1
  <2>3. QED
    BY <2>2 DEF Off
<1>4. CASE CloseAnswered
  <2>1. task'[u] = [task[u] EXCEPT !.at = "sent", !.got = 0]
    BY <1>4 DEF CloseAnswered
  <2>2. QED
    BY <1>0, <2>1 DEF Request
<1>5. ASSUME Listed \/ UseNewDevice
      PROVE  task'[u].at # "created"
  <2>1. \E t \in Tasks, want \in {expected, None} : task' = [task EXCEPT ![t] = Begun(want)]
    BY <1>5
    DEF Listed, ListedConnected, ListedNothing, ListedOther, ListedKnown, UseNewDevice,
        BeginMonitoring
  <2>2. PICK t \in Tasks, want \in {expected, None} :
          task' = [task EXCEPT ![t] = Begun(want)]
    BY <2>1
  <2>3. task'[u] = Begun(want)
    BY <1>1, <2>2
  <2>4. QED
    BY <2>3 DEF Begun
<1>6. CASE Hide
  <2>1. task' \in [Tasks -> {Off} \cup [at : {"abandoned"}, want : Devices \cup {None},
                                        got : {0}]]
    BY <1>6 DEF Hide
  <2>2. QED
    BY <2>1 DEF Off
<1>7. QED
  <2>1. task' # task
    OBVIOUS
  <2>2. ~(UNCHANGED vars)
    BY <2>1 DEF vars, work
  <2>3. ASSUME \/ \E d \in Devices : Unplug(d) \/ Plug(d)
               \/ Simulator \/ ServeArm \/ AnswerArm \/ ServeCatalog
               \/ \E s \in deletes : ServeDelete(s)
               \/ Tick \/ CatalogFails \/ Snapshot \/ Disconnected \/ Arm \/ Armed \/ Load
        PROVE  FALSE
    BY <2>1, <2>3, QuietStepTypes
  <2>4. QED
    BY <1>2, <1>3, <1>4, <1>5, <1>6, <2>2, <2>3 DEF Next

\* A session is new when a creation is served, and the call is then the only
\* one that knows it.
LEMMA ServedIsNew ==
    ASSUME PageInv, NEW t \in Tasks, ServeCreate(t), task'[t].at = "created"
    PROVE  /\ active = 0 /\ active' = NewSession /\ task'[t].got = NewSession
           /\ sse = 0 /\ NewSession \notin deletes \cup {sse, sid, arm.of, 0}
           /\ \A u \in Tasks : task[u].at # "created"
           /\ \A u \in Tasks \ {t} : task'[u] = task[u]
<1>1. /\ PageTypes /\ ListensToTheActive /\ AnswerIsNew
      /\ task \in [Tasks -> Request] /\ task[t] \in Request
  BY DEF PageInv, PageTypes, TaskTypes
<1>2. ~Refuses(task[t].want)
  <2>1. SUFFICES ASSUME Refuses(task[t].want) PROVE FALSE
    OBVIOUS
  <2>2. task'[t] \in {[task[t] EXCEPT !.at = "refused"], Off}
    BY <1>1, <2>1 DEF ServeCreate
  <2>3. QED
    BY <1>1, <2>2 DEF Off, Request
<1>3. active = 0 /\ active' = NewSession
  BY <1>2 DEF ServeCreate, Refuses
<1>4. task'[t].got = NewSession
  <2>1. task'[t] \in {[task[t] EXCEPT !.at = "created", !.got = NewSession], Off}
    BY <1>1, <1>2 DEF ServeCreate
  <2>2. CASE task'[t] = [task[t] EXCEPT !.at = "created", !.got = NewSession]
    BY <1>1, <2>2 DEF Request
  <2>3. QED
    BY <2>1, <2>2 DEF Off
<1>5. NewSession \notin Sessions /\ 0 \in Sessions
  BY <1>1, SessionFacts
<1>6. NewSession \notin deletes \cup {sse, sid, arm.of, 0} /\ sse = 0
  BY <1>1, <1>3, <1>5 DEF PageTypes, NamedTypes, ArmTypes, ListensToTheActive
<1>7. \A u \in Tasks : task[u].at # "created"
  BY <1>1, <1>3 DEF AnswerIsNew, PageTypes, TaskTypes, Knows
<1>8. \A u \in Tasks \ {t} : task'[u] = task[u]
  BY <1>1 DEF ServeCreate
<1>9. QED
  BY <1>3, <1>4, <1>6, <1>7, <1>8

\* Two calls never know a session at once.
LEMMA OneAnswerKept == ASSUME PageInv, [Next]_vars PROVE OneAnswer'
<1>1. SUFFICES ASSUME NEW t \in Tasks, NEW u \in Tasks, t # u,
                      task'[t].at = "created", task'[u].at = "created"
               PROVE  FALSE
  BY DEF OneAnswer
<1>2. PageTypes /\ OneAnswer
  BY DEF PageInv
<1>3. CASE ServeCreate(t)
  BY <1>1, <1>3, ServedIsNew
<1>4. CASE ServeCreate(u)
  BY <1>1, <1>4, ServedIsNew
<1>5. CASE ~ServeCreate(t) /\ ~ServeCreate(u)
  <2>1. task'[t] = task[t] /\ task'[u] = task[u]
    BY <1>1, <1>2, <1>5, CallsStep
  <2>2. QED
    BY <1>1, <1>2, <2>1 DEF OneAnswer
<1>6. QED
  BY <1>3, <1>4, <1>5

\* What the page listens to stays the console's.
LEMMA ListensKept == ASSUME PageInv, [Next]_vars PROVE ListensToTheActive'
<1>0. PageTypes /\ ListensToTheActive /\ AnswerIsNew
  BY DEF PageInv
<1>1. ASSUME NEW t \in Tasks, ServeCreate(t) PROVE ListensToTheActive'
  <2>1. sse' = sse /\ deletes' = deletes /\ (active' = active \/ active = 0)
    BY <1>1 DEF ServeCreate, Refuses
  <2>2. QED
    BY <1>0, <2>1 DEF ListensToTheActive
<1>2. ASSUME NEW s \in deletes, ServeDelete(s) PROVE ListensToTheActive'
  BY <1>0, <1>2 DEF ServeDelete, work, ListensToTheActive
<1>3. ASSUME NEW t \in Tasks, Created(t) PROVE ListensToTheActive'
  BY <1>0, <1>3 DEF Created, server, AnswerIsNew, ListensToTheActive
<1>4. CASE Disconnected \/ Hide
  BY <1>4 DEF Disconnected, Hide, ListensToTheActive
<1>5. CASE UNCHANGED <<active, sse, deletes>>
  BY <1>0, <1>5 DEF ListensToTheActive
<1>6. \/ \E t \in Tasks : ServeCreate(t) \/ Created(t)
      \/ \E s \in deletes : ServeDelete(s)
      \/ Disconnected \/ Hide \/ UNCHANGED <<active, sse, deletes>>
  <2>1. UNCHANGED vars => UNCHANGED <<active, sse, deletes>>
    BY DEF vars, server, work
  <2>2. ASSUME NEW d \in Devices, Unplug(d) \/ Plug(d) PROVE UNCHANGED <<active, sse, deletes>>
    BY <2>2 DEF Unplug, Plug, work
  <2>3. ASSUME NEW t \in Tasks, Refused(t) PROVE UNCHANGED <<active, sse, deletes>>
    BY <2>3 DEF Refused, server
  <2>4. Simulator \/ ServeArm \/ AnswerArm \/ ServeCatalog
          => UNCHANGED <<active, sse, deletes>>
    BY DEF Simulator, ServeArm, AnswerArm, ServeCatalog, server, work
  <2>5. Tick \/ CloseAnswered \/ CatalogFails \/ Listed \/ UseNewDevice
          => UNCHANGED <<active, sse, deletes>>
    BY DEF Tick, CloseAnswered, CatalogFails, Listed, UseNewDevice, server
  <2>6. Snapshot \/ Arm \/ Armed \/ Load => UNCHANGED <<active, sse, deletes>>
    BY DEF Snapshot, Arm, Armed, Load, server, work
  <2>7. QED
    BY <2>1, <2>2, <2>3, <2>4, <2>5, <2>6 DEF Next
<1>7. QED
  BY <1>1, <1>2, <1>3, <1>4, <1>5, <1>6

\* Nobody but the call learns of a session before its answer is read: what the
\* page names comes from what it listens to, or from what it named before.
LEMMA NamesComeFromThePage ==
    ASSUME PageInv, [Next]_vars,
           ~ \E t \in Tasks : Created(t)
    PROVE  /\ sse' \in {sse, 0} /\ sid' \in {sid, sse, arm.of, 0}
           /\ arm'.of \in {arm.of, sid, 0} /\ deletes' \subseteq deletes \cup {sid}
<1>0. arm \in [at : {"off", "sent", "accepted", "armed"}, of : Nat, connected : BOOLEAN]
  BY DEF PageInv, PageTypes, ArmTypes
<1>1. CASE UNCHANGED <<sse, sid, arm, deletes>>
  BY <1>1
<1>2. CASE Snapshot \/ Disconnected \/ Hide
  BY <1>2 DEF Snapshot, Disconnected, Hide, ApplyEnvelope, work, NoArm
<1>3. ASSUME ServeArm \/ AnswerArm \/ Arm \/ Armed PROVE
        /\ sse' \in {sse, 0} /\ sid' \in {sid, sse, arm.of, 0}
        /\ arm'.of \in {arm.of, sid, 0} /\ deletes' \subseteq deletes \cup {sid}
  <2>1. UNCHANGED <<sse, deletes>> /\ sid' \in {sid, sse, arm.of, 0}
    BY <1>3 DEF ServeArm, AnswerArm, Arm, Armed, ApplyEnvelope, shown, work
  <2>2. arm'.of \in {arm.of, sid, 0}
    <3>1. CASE ServeArm
      BY <1>0, <3>1 DEF ServeArm, NoArm
    <3>2. CASE AnswerArm
      BY <1>0, <3>2 DEF AnswerArm
    <3>3. CASE Arm \/ Armed
      BY <1>0, <3>3 DEF Arm, Armed, NoArm
    <3>4. QED
      BY <1>3, <3>1, <3>2, <3>3
  <2>3. QED
    BY <2>1, <2>2
<1>4. ASSUME NEW s \in deletes, ServeDelete(s)
      PROVE  UNCHANGED <<sse, sid, arm>> /\ deletes' \subseteq deletes
  BY <1>4 DEF ServeDelete, shown, work
<1>5. \/ \E s \in deletes : ServeDelete(s)
      \/ Snapshot \/ Disconnected \/ Hide \/ ServeArm \/ AnswerArm \/ Arm \/ Armed
      \/ UNCHANGED <<sse, sid, arm, deletes>>
  <2>1. UNCHANGED vars => UNCHANGED <<sse, sid, arm, deletes>>
    BY DEF vars, shown, work
  <2>2. ASSUME NEW d \in Devices, Unplug(d) \/ Plug(d)
        PROVE  UNCHANGED <<sse, sid, arm, deletes>>
    BY <2>2 DEF Unplug, Plug, shown, work
  <2>3. ASSUME NEW t \in Tasks, Refused(t) \/ ServeCreate(t)
        PROVE  UNCHANGED <<sse, sid, arm, deletes>>
    BY <2>3 DEF Refused, ServeCreate, shown
  <2>4. Simulator \/ ServeCatalog \/ Load => UNCHANGED <<sse, sid, arm, deletes>>
    BY DEF Simulator, ServeCatalog, Load, shown, work
  <2>5. Tick \/ CloseAnswered \/ CatalogFails \/ Listed \/ UseNewDevice
          => UNCHANGED <<sse, sid, arm, deletes>>
    BY DEF Tick, CloseAnswered, CatalogFails, Listed, UseNewDevice, shown
  <2>6. QED
    BY <2>1, <2>2, <2>3, <2>4, <2>5 DEF Next
<1>6. QED
  BY <1>1, <1>2, <1>3, <1>4, <1>5

\* A session a call has yet to tell of stays the console's and unknown.
LEMMA AnswersKept == ASSUME PageInv, [Next]_vars PROVE AnswerIsNew'
<1>0. /\ PageTypes /\ AnswerIsNew /\ OneAnswer /\ ListensToTheActive
      /\ task \in [Tasks -> Request]
      /\ \A u \in Tasks : task[u].at = "created" => task[u].got # 0
  BY DEF PageInv, PageTypes, TaskTypes, Knows
<1>1. SUFFICES ASSUME NEW t \in Tasks, task'[t].at = "created"
               PROVE  /\ task'[t].got = active' /\ task'[t].got \notin deletes'
                      /\ task'[t].got \notin {sse', sid', arm'.of}
  BY DEF AnswerIsNew
<1>2. CASE ServeCreate(t)
  <2>1. UNCHANGED <<deletes, sse, sid, arm>>
    BY <1>2 DEF ServeCreate, shown
  <2>2. QED
    BY <1>1, <1>2, <2>1, ServedIsNew
<1>3. CASE ~ServeCreate(t)
  <2>1. task'[t] = task[t]
    BY <1>0, <1>1, <1>3, CallsStep
  <2>2. /\ task[t].got = active /\ task[t].got \notin deletes \cup {0}
        /\ task[t].got \notin {sse, sid, arm.of}
    BY <1>0, <1>1, <2>1 DEF AnswerIsNew
  <2>3. ~ \E u \in Tasks : Created(u)
    <3>1. SUFFICES ASSUME NEW u \in Tasks, Created(u) PROVE FALSE
      OBVIOUS
    <3>2. u = t
      BY <1>0, <1>1, <2>1, <3>1 DEF Created, OneAnswer
    <3>3. task'[t] = Off
      BY <1>0, <3>1, <3>2 DEF Created
    <3>4. QED
      BY <1>1, <3>3 DEF Off
  <2>4. /\ task[t].got \notin deletes' /\ task[t].got \notin {sse', sid', arm'.of}
    BY <2>2, <2>3, NamesComeFromThePage
  <2>5. active' = active
    <3>1. ASSUME NEW u \in Tasks, ServeCreate(u) PROVE active' = active
      <4>1. active # 0
        BY <2>2
      <4>2. QED
        BY <3>1, <4>1 DEF ServeCreate, Refuses
    <3>2. ASSUME NEW s \in deletes, ServeDelete(s) PROVE active' = active
      BY <2>2, <3>2 DEF ServeDelete
    <3>3. ASSUME NEW d \in Devices, Unplug(d) \/ Plug(d) PROVE active' = active
      BY <3>3 DEF Unplug, Plug
    <3>4. ASSUME NEW u \in Tasks, Created(u) \/ Refused(u) PROVE active' = active
      BY <3>4 DEF Created, Refused, server
    <3>5. Simulator \/ ServeArm \/ AnswerArm \/ ServeCatalog \/ UNCHANGED vars
            => active' = active
      BY DEF Simulator, ServeArm, AnswerArm, ServeCatalog, server, vars
    <3>6. Tick \/ CloseAnswered \/ CatalogFails \/ Listed \/ UseNewDevice
            => active' = active
      BY DEF Tick, CloseAnswered, CatalogFails, Listed, UseNewDevice, server
    <3>7. Snapshot \/ Disconnected \/ Arm \/ Armed \/ Hide \/ Load => active' = active
      BY DEF Snapshot, Disconnected, Arm, Armed, Hide, Load, server
    <3>8. QED
      BY <3>1, <3>2, <3>3, <3>4, <3>5, <3>6, <3>7 DEF Next
  <2>6. QED
    BY <2>1, <2>2, <2>4, <2>5
<1>4. QED
  BY <1>2, <1>3

\* A page does not come to show a connection it does not attend to.
LEMMA AttendedKept == ASSUME PageInv, [Next]_vars PROVE ShownIsAttended'
<1>0. /\ ShownIsAttended
      /\ arm \in [at : {"off", "sent", "accepted", "armed"}, of : Nat, connected : BOOLEAN]
  BY DEF PageInv, PageTypes, ArmTypes
<1>1. ASSUME NEW d \in Devices, Unplug(d) \/ Plug(d) PROVE ShownIsAttended'
  BY <1>0, <1>1 DEF Unplug, Plug, shown, work, ShownIsAttended
<1>2. ASSUME NEW t \in Tasks, ServeCreate(t) PROVE ShownIsAttended'
  BY <1>0, <1>2 DEF ServeCreate, shown, ShownIsAttended
<1>3. ASSUME NEW t \in Tasks, Created(t) PROVE ShownIsAttended'
  <2>1. sse' # 0
    BY <1>3 DEF Created, PageInv, PageTypes, TaskTypes, Knows
  <2>2. QED
    BY <2>1 DEF ShownIsAttended
<1>4. ASSUME NEW t \in Tasks, Refused(t) PROVE ShownIsAttended'
  BY <1>4 DEF Refused, ShownIsAttended
<1>5. ASSUME NEW s \in deletes, ServeDelete(s) PROVE ShownIsAttended'
  BY <1>0, <1>5 DEF ServeDelete, shown, work, ShownIsAttended
<1>6. ASSUME ServeArm \/ AnswerArm PROVE ShownIsAttended'
  <2>1. UNCHANGED <<conn, sse, polling>> /\ arm.at # "off"
    BY <1>6 DEF ServeArm, AnswerArm, shown, work
  <2>2. QED
    BY <1>0, <2>1 DEF ShownIsAttended
<1>7. ASSUME Snapshot \/ Arm \/ Armed PROVE ShownIsAttended'
  <2>1. UNCHANGED <<sse, polling>> /\ (sse # 0 \/ conn \/ arm.at # "off")
    BY <1>7 DEF Snapshot, Arm, Armed, work
  <2>2. QED
    BY <1>0, <2>1 DEF ShownIsAttended
<1>8. CASE Disconnected \/ Hide
  BY <1>8 DEF Disconnected, Hide, ShownIsAttended, NoArm
<1>9. CASE Simulator \/ ServeCatalog \/ Load \/ UNCHANGED vars
  BY <1>0, <1>9 DEF Simulator, ServeCatalog, Load, vars, shown, work, ShownIsAttended
<1>10. ASSUME Tick \/ CloseAnswered \/ CatalogFails \/ Listed \/ UseNewDevice
       PROVE  ShownIsAttended'
  <2>1. CASE Tick \/ CatalogFails \/ CloseAnswered
    BY <1>0, <2>1 DEF Tick, CatalogFails, CloseAnswered, shown, ShownIsAttended
  <2>2. CASE Listed \/ UseNewDevice
    <3>1. UNCHANGED <<conn, arm, sse>> /\ (polling => polling')
      BY <2>2
      DEF Listed, ListedConnected, ListedNothing, ListedOther, ListedKnown, UseNewDevice
    <3>2. QED
      BY <1>0, <3>1 DEF ShownIsAttended
  <2>3. QED
    BY <1>10, <2>1, <2>2
<1>11. QED
  BY <1>1, <1>2, <1>3, <1>4, <1>5, <1>6, <1>7, <1>8, <1>9, <1>10 DEF Next

\* A call under way goes on, or the page listens or polls after it, unless the
\* page is left.
LEMMA CallGoesOn ==
    ASSUME PageTypes, [Next]_vars, NEW t \in Tasks, page' = "here",
           task[t].at \in {"wait", "sent", "created", "refused"}
    PROVE  sse' # 0 \/ polling' \/ UnderWay'
<1>0. task \in [Tasks -> Request] /\ task[t] \in Request
  BY DEF PageTypes, TaskTypes
<1>1. SUFFICES ASSUME task'[t] # task[t],
                      task'[t].at \notin {"wait", "sent", "created", "refused"}
               PROVE  sse' # 0 \/ polling'
  BY DEF UnderWay
<1>2. task' # task
  BY <1>1
<1>3. ASSUME NEW u \in Tasks, ServeCreate(u) PROVE FALSE
  <2>1. u = t
    BY <1>0, <1>1, <1>3 DEF ServeCreate
  <2>2. task[t].at = "sent"
    BY <1>3, <2>1 DEF ServeCreate
  <2>3. \/ task'[t] = [task[t] EXCEPT !.at = "refused"]
        \/ task'[t] = [task[t] EXCEPT !.at = "created", !.got = NewSession]
    BY <1>0, <1>3, <2>1, <2>2 DEF ServeCreate
  <2>4. CASE task'[t] = [task[t] EXCEPT !.at = "refused"]
    BY <1>0, <1>1, <2>4 DEF Request
  <2>5. CASE task'[t] = [task[t] EXCEPT !.at = "created", !.got = NewSession]
    BY <1>0, <1>1, <2>5 DEF Request
  <2>6. QED
    BY <2>3, <2>4, <2>5
<1>4. ASSUME NEW u \in Tasks, Created(u) PROVE sse' # 0
  BY <1>4 DEF Created, PageTypes, TaskTypes, Knows
<1>5. ASSUME NEW u \in Tasks, Refused(u) PROVE polling' = TRUE
  BY <1>5 DEF Refused
<1>6. CASE CloseAnswered
  <2>1. task'[t] = [task[t] EXCEPT !.at = "sent", !.got = 0]
    BY <1>1, <1>6 DEF CloseAnswered
  <2>2. QED
    BY <1>0, <1>1, <2>1 DEF Request
<1>7. CASE Listed \/ UseNewDevice
  <2>1. \E u \in Tasks, want \in {expected, None} :
           task[u].at = "off" /\ task' = [task EXCEPT ![u] = Begun(want)]
    BY <1>2, <1>7
    DEF Listed, ListedConnected, ListedNothing, ListedOther, ListedKnown, UseNewDevice,
        BeginMonitoring
  <2>2. QED
    BY <1>0, <1>1, <2>1
<1>8. CASE Hide
  BY <1>8 DEF Hide
<1>9. ~(UNCHANGED vars)
  BY <1>2 DEF vars, work
<1>10. ASSUME \/ \E d \in Devices : Unplug(d) \/ Plug(d)
              \/ Simulator \/ ServeArm \/ AnswerArm \/ ServeCatalog
              \/ \E s \in deletes : ServeDelete(s)
              \/ Tick \/ CatalogFails \/ Snapshot \/ Disconnected \/ Arm \/ Armed \/ Load
       PROVE  FALSE
  BY <1>2, <1>10, QuietStepTypes
<1>11. QED
  BY <1>3, <1>4, <1>5, <1>6, <1>7, <1>8, <1>9, <1>10 DEF Next

\* Beginning to monitor puts a call under way.
LEMMA BeginningIsUnderWay ==
    ASSUME PageTypes, NEW want \in Devices \cup {None}, BeginMonitoring(want)
    PROVE  UnderWay'
<1>1. PICK t \in Tasks : task' = [task EXCEPT ![t] = Begun(want)]
                         /\ Begun(want) \in [at : {"wait", "sent"},
                                want : Devices \cup {None}, got : {closing}]
  BY BegunIsATask
<1>2. task'[t] = Begun(want)
  BY <1>1 DEF PageTypes, TaskTypes
<1>3. QED
  BY <1>1, <1>2 DEF UnderWay

\* A page that is not left goes on.
LEMMA GoesOnKept == ASSUME PageInv, [Next]_vars PROVE PageGoesOn'
<1>0. PageTypes /\ PageGoesOn /\ ShownIsAttended
  BY DEF PageInv
<1>1. SUFFICES ASSUME page' = "here"
               PROVE  sse' # 0 \/ polling' \/ refresh' # "off" \/ UnderWay'
  BY DEF PageGoesOn
<1>2. CASE UnderWay
  BY <1>0, <1>1, <1>2, CallGoesOn DEF UnderWay
<1>3. CASE page = "here" /\ (sse # 0 \/ polling \/ refresh # "off")
  <2>1. CASE sse' = sse /\ (polling => polling') /\ (refresh # "off" => refresh' # "off")
    BY <1>3, <2>1
  <2>2. CASE Tick \/ CatalogFails \/ Disconnected \/ \E t \in Tasks : Refused(t)
    BY <2>2 DEF Tick, CatalogFails, Disconnected, Refused
  <2>3. CASE \E t \in Tasks : Created(t)
    BY <1>0, <2>3 DEF Created, PageTypes, TaskTypes, Knows
  <2>4. CASE Listed
    <3>1. CASE ListedConnected
      BY <1>0, <2>4, <3>1 DEF Listed, ListedConnected, ShownIsAttended
    <3>2. CASE ListedNothing \/ ListedOther
      BY <3>2 DEF ListedNothing, ListedOther
    <3>3. CASE ListedKnown
      BY <1>0, <3>3, BeginningIsUnderWay DEF ListedKnown, PageTypes, ShownTypes
    <3>4. QED
      BY <2>4, <3>1, <3>2, <3>3 DEF Listed
  <2>5. CASE Hide
    BY <1>1, <2>5 DEF Hide
  <2>6. \/ Tick \/ CatalogFails \/ Disconnected \/ Listed \/ Hide
        \/ \E t \in Tasks : Refused(t) \/ Created(t)
        \/ sse' = sse /\ (polling => polling') /\ (refresh # "off" => refresh' # "off")
    <3>1. ASSUME NEW d \in Devices, Unplug(d) \/ Plug(d)
          PROVE  UNCHANGED <<sse, polling, refresh>>
      BY <3>1 DEF Unplug, Plug, work
    <3>2. ASSUME NEW t \in Tasks, ServeCreate(t) PROVE UNCHANGED <<sse, polling, refresh>>
      BY <3>2 DEF ServeCreate
    <3>3. ASSUME NEW s \in deletes, ServeDelete(s) PROVE UNCHANGED <<sse, polling, refresh>>
      BY <3>3 DEF ServeDelete, work
    <3>4. Simulator \/ ServeArm \/ AnswerArm \/ Snapshot \/ Arm \/ Armed \/ UNCHANGED vars
            => UNCHANGED <<sse, polling, refresh>>
      BY DEF Simulator, ServeArm, AnswerArm, Snapshot, Arm, Armed, vars, work
    <3>5. UseNewDevice => UNCHANGED <<sse, polling, refresh>>
      BY DEF UseNewDevice
    <3>6. ServeCatalog \/ CloseAnswered \/ Load
            => UNCHANGED <<sse, polling>> /\ (refresh # "off" => refresh' # "off")
      BY DEF ServeCatalog, CloseAnswered, Load, Fresh
    <3>7. QED
      BY <3>1, <3>2, <3>3, <3>4, <3>5, <3>6 DEF Next
  <2>7. QED
    BY <2>1, <2>2, <2>3, <2>4, <2>5, <2>6
<1>4. CASE page # "here"
  <2>1. Load
    <3>1. UNCHANGED vars => page' = page
      BY DEF vars
    <3>2. ASSUME NEW d \in Devices, Unplug(d) \/ Plug(d) PROVE page' = page
      BY <3>2 DEF Unplug, Plug
    <3>3. ASSUME NEW t \in Tasks, ServeCreate(t) \/ Created(t) \/ Refused(t)
          PROVE  page' = page
      BY <3>3 DEF ServeCreate, Created, Refused
    <3>4. ASSUME NEW s \in deletes, ServeDelete(s) PROVE page' = page
      BY <3>4 DEF ServeDelete
    <3>5. Simulator \/ ServeArm \/ AnswerArm \/ ServeCatalog => page' = page
      BY DEF Simulator, ServeArm, AnswerArm, ServeCatalog
    <3>6. Tick \/ CloseAnswered \/ CatalogFails \/ Listed \/ UseNewDevice => page' = page
      BY DEF Tick, CloseAnswered, CatalogFails, Listed, UseNewDevice
    <3>7. Snapshot \/ Disconnected \/ Arm \/ Armed => page' = page
      BY DEF Snapshot, Disconnected, Arm, Armed
    <3>8. Hide => page' # "here"
      BY DEF Hide
    <3>9. QED
      BY <1>1, <1>4, <3>1, <3>2, <3>3, <3>4, <3>5, <3>6, <3>7, <3>8 DEF Next
  <2>2. QED
    BY <2>1 DEF Load, Fresh
<1>5. QED
  BY <1>0, <1>2, <1>3, <1>4 DEF PageGoesOn

LEMMA PageStarts == Init => PageInv
<1> SUFFICES ASSUME Init PROVE PageInv
  OBVIOUS
<1>1. made = <<>> /\ made \in Seq(Devices) /\ Len(made) = 0 /\ Sessions = {0}
  <2>1. made = <<>> /\ made \in Seq(Devices) /\ Len(made) = 0
    BY EmptySeq DEF Init
  <2>2. QED
    BY <2>1 DEF Sessions
<1>2. ServerTypes
  <2>1. MaxUnplugs \in Nat
    BY QuickPageAssumption
  <2>2. QED
    BY <1>1, <2>1 DEF Init, ServerTypes
<1>3. ShownTypes
  <2>1. MaxHides \in Nat
    BY QuickPageAssumption
  <2>2. QED
    BY <2>1 DEF Init, Fresh, ShownTypes
<1>4. NamedTypes
  BY <1>1 DEF Init, Fresh, NamedTypes
<1>5. TaskTypes
  <2>1. Off \in Request /\ Knows(Off) /\ Off.got = 0
    BY DEF Off, Request, Knows
  <2>2. QED
    BY <1>1, <2>1 DEF Init, TaskTypes
<1>6. ArmTypes
  BY <1>1 DEF Init, NoArm, ArmTypes
<1>7. ListensToTheActive /\ ShownIsAttended /\ PageGoesOn
  BY DEF Init, Fresh, NoArm, ListensToTheActive, ShownIsAttended, PageGoesOn
<1>8. \A t \in Tasks : task[t].at # "created"
  BY DEF Init, Off
<1>9. QED
  BY <1>2, <1>3, <1>4, <1>5, <1>6, <1>7, <1>8 DEF PageInv, PageTypes, AnswerIsNew, OneAnswer

THEOREM PageInvariant == Spec => []PageInv
<1>1. PageInv /\ [Next]_vars => PageInv'
  <2>1. SUFFICES ASSUME PageInv, [Next]_vars PROVE PageInv'
    OBVIOUS
  <2>2. PageTypes'
    BY <2>1, PageTypesKept DEF PageInv
  <2>3. QED
    BY <2>1, <2>2, OneAnswerKept, ListensKept, AnswersKept, AttendedKept, GoesOnKept
    DEF PageInv
<1>2. QED
  BY <1>1, PageStarts, PTL DEF Spec

\* Whatever becomes of devices, simulators, clicks, page loads and late answers,
\* the events the page follows are those of the session the console holds, and
\* no DELETE of the page's is on its way to that session.
THEOREM PageFollows == Spec => [](FollowsTheActive /\ (sse # 0 => sse \notin deletes))
<1>1. PageInv => FollowsTheActive /\ (sse # 0 => sse \notin deletes)
  BY PageIsTyped DEF PageInv, ListensToTheActive, FollowsTheActive
<1>2. QED
  BY <1>1, PageInvariant, PTL

\* A page that is there always has something under way that leads it on.
THEOREM PageNeverIdle == Spec => []NeverIdle
<1>1. PageInv => NeverIdle
  BY DEF PageInv, PageGoesOn, UnderWay, NeverIdle
<1>2. QED
  BY <1>1, PageInvariant, PTL

-----------------------------------------------------------------------------
(* The two ways to make a profile *)

\* What a quick mapping's engine has seen is what the device read: all of it,
\* or, while the pump holds a batch, what the device read before the batch.
SeenByTheEngine ==
    /\ batch = Nil /\ drained /\ connected =>
          quickAxes = device.axes /\ quickButtons = device.buttons
    /\ batch # Nil =>
          /\ connected /\ drained /\ batch.after = device
          /\ ~batch.first => /\ quickAxes = batch.before.axes
                             /\ quickButtons = batch.before.buttons
    /\ settled => drained /\ (batch # Nil => ~batch.first)

\* A control is armed with a window, in one of the states the page shows.
ArmedHasAWindow ==
    armed # Nil =>
        /\ connected /\ window # Nil /\ status \in {"armed", "collecting", "ambiguous"}
        /\ window.waiting <=> status = "ambiguous"

\* How far axis i was from where it was at arming, by the window and by the
\* batch it has yet to see.
Went(i) ==
    {Quick!Abs(window.peaks[i])} \cup
    IF batch = Nil THEN {}
    ELSE {Quick!Abs(batch.events[k].value - window.baseline[i]) :
             k \in {j \in DOMAIN batch.events :
                       batch.events[j].kind = "axis" /\ batch.events[j].number = i}}

\* A window that opened on a device the engine had seen has its peaks where
\* the axes' farthest is, unless it waits for the axes to come back or its
\* control takes no axis; and no press it will find escaped the operator.
WindowMeasures ==
    armed # Nil /\ settled =>
        /\ window.baseline = atArm.axes
        /\ ~window.waiting /\ armed \notin Quick!ButtonControls =>
              \A i \in Axes : reach[i] \in Went(i) /\ \A n \in Went(i) : n <= reach[i]
        /\ batch # Nil => Quick!Struck(batch.before, batch.events) \subseteq struck

QuickInv ==
    /\ Quick!TypeOK /\ Quick!DraftConflictFree
    /\ SeenByTheEngine /\ ArmedHasAWindow /\ WindowMeasures

GuidedTypes ==
    /\ Guided!TypeOK
    /\ draft \in [Guides -> Guided!Bindings \cup {Guided!Unbound}]
    /\ candidate \in Guided!Offers \cup {Nil}

\* No two bindings of a draft claim one source, and what is required is not
\* given up.
DraftIsSound ==
    /\ Guided!ConflictFree(draft)
    /\ \A c \in Guided!Required : draft[c] # Guided!Unsupported

\* What a step remembers of each axis bounds where the axis was.
Remembered ==
    \A i \in Axes :
        /\ least[i] \in visited[i] /\ most[i] \in visited[i]
        /\ \A v \in visited[i] : least[i] <= v /\ v <= most[i]
        /\ state = "capturing" => centers[i] \in visited[i]

\* What is offered is what the last observation ranked first.
OfferIsCurrent ==
    candidate # Nil =>
        /\ state = "capturing"
        /\ \A i \in Axes : rawAxes[i] \in visited[i]
        /\ \A i \in Buttons : rawButtons[i] # base[i] => i \in changed
        /\ \E source \in Guided!Strongest(control, rawAxes, rawButtons) :
              /\ Guided!Complete(control, source, least, most)
              /\ candidate.binding = Guided!BindingFor(control, source, least, most)
              /\ candidate.ambiguous =
                    (Guided!Rivals(control, source, least, most, changed) # {})

GuidedInv ==
    /\ GuidedTypes /\ Guided!SessionFollowsEngine
    /\ DraftIsSound /\ Remembered /\ OfferIsCurrent

MappingInv == QuickInv /\ GuidedInv

\* Numbers of a set that has any have a least one, and a greatest one if they
\* have a bound.
Less == {pair \in Nat \X Nat : pair[1] < pair[2]}

LEMMA LessIsWellFounded == IsWellFoundedOn(Less, Nat)
  BY NatLessThanWellFounded DEF OpToRel, Less

LEMMA LessIsLess == ASSUME NEW m \in Nat, NEW n \in Nat, m < n PROVE <<m, n>> \in Less
  BY DEF Less

LEMMA LeastExists ==
    ASSUME NEW S, S \subseteq Nat, S # {}
    PROVE  \E n \in S : \A m \in S : n <= m
<1>1. PICK n \in S : \A m \in S : <<m, n>> \notin Less
  BY LessIsWellFounded, WFMin
<1>2. \A m \in S : ~ (m < n)
  BY <1>1, LessIsLess
<1>3. QED
  BY <1>2

LEMMA GreatestExists ==
    ASSUME NEW S, S \subseteq Nat, S # {}, NEW b \in Nat, \A n \in S : n <= b
    PROVE  \E n \in S : \A m \in S : m <= n
<1> DEFINE T == {b - n : n \in S}
<1>1. \A n \in S : b - n \in Nat
  OBVIOUS
<1>2. T \subseteq Nat /\ T # {}
  BY <1>1
<1>3. PICK t \in T : \A u \in T : t <= u
  BY <1>2, LeastExists
<1>4. PICK n \in S : t = b - n
  BY <1>3
<1>5. ASSUME NEW m \in S PROVE m <= n
  <2>1. b - m \in T
    OBVIOUS
  <2>2. t <= b - m
    BY <1>3, <2>1
  <2>3. QED
    BY <1>4, <2>2
<1>6. QED
  BY <1>5

\* What the assumptions say of the numbers of the model.
LEMMA MappingConstants ==
    /\ Lowest \in Int /\ Highest \in Nat /\ Lowest = -Highest - 1
    /\ Axes \subseteq Nat /\ Buttons \subseteq Nat
    /\ QuickPositions \subseteq Lowest .. Highest /\ 0 \in QuickPositions
    /\ StartDelta \in Nat /\ MinimumPeak \in Nat /\ Recenter \in Nat
    /\ CaptureTime \in Nat \ {0} /\ MaxEvents \in Nat
    /\ Positions \subseteq Lowest .. Highest /\ Rests \subseteq Positions
    /\ MinExcursion \in Nat \ {0, 1} /\ FullRange \in Nat
    /\ StableCount \in Nat \ {0} /\ StableTime \in Nat
    /\ Nil \notin Quicks /\ Nil \notin Guides
  BY MappingAssumption
  DEF Quick!ProfileAssumption, Quick!QuickAssumption, Guided!CalibrationAssumption

LEMMA MappingControls ==
    /\ Quicks \subseteq Quick!StickControls \cup Quick!TriggerControls
                        \cup Quick!ButtonControls \cup Quick!DpadControls
    /\ Guides \subseteq Guided!StickControls \cup Guided!TriggerControls
                        \cup Guided!ButtonControls \cup Guided!DpadControls
  BY MappingAssumption DEF Quick!ProfileAssumption, Guided!ProfileAssumption

-----------------------------------------------------------------------------
(* The quick mapping *)

LEMMA QuickConflictFacts ==
    ASSUME NEW c, NEW d, NEW b, NEW e
    PROVE  /\ Quick!Conflict(c, b, d, e) <=> Quick!Conflict(d, e, c, b)
           /\ ~ Quick!Conflict(c, b, d, Quick!Unsupported)
<1>1. {c, d} = {d, c}
  OBVIOUS
<1>2. QED
  BY <1>1
  DEF Quick!Conflict, Quick!HatClash, Quick!Analog, Quick!Digital, Quick!Hat, Quick!Unsupported

\* The kinds of controls are apart, and what each admits.
LEMMA QuickKinds ==
    ASSUME NEW c
    PROVE  /\ c \in Quick!StickControls =>
                /\ c \notin Quick!TriggerControls \cup Quick!ButtonControls
                /\ Quick!BindingsOf(c) = {Quick!Unsupported} \cup Quick!OnAxis("stick")
           /\ c \in Quick!TriggerControls =>
                /\ c \notin Quick!ButtonControls
                /\ Quick!BindingsOf(c) = {Quick!Unsupported} \cup Quick!OnAxis("axisTrigger")
                                           \cup Quick!OnButton("buttonTrigger")
           /\ c \in Quick!ButtonControls =>
                Quick!BindingsOf(c) = {Quick!Unsupported} \cup Quick!OnButton("button")
           /\ c \notin Quick!StickControls \cup Quick!TriggerControls \cup Quick!ButtonControls =>
                Quick!BindingsOf(c) = {Quick!Unsupported} \cup Quick!OnAxis("axisDpad")
                                           \cup Quick!OnButton("button")
<1>1. /\ c \in Quick!StickControls => c \notin Quick!TriggerControls \cup Quick!ButtonControls
      /\ c \in Quick!TriggerControls => c \notin Quick!ButtonControls
  BY DEF Quick!StickControls, Quick!TriggerControls, Quick!ButtonControls
<1>2. CASE c \in Quick!StickControls
  BY <1>1, <1>2, Zenon DEF Quick!BindingsOf
<1>3. CASE c \in Quick!TriggerControls
  BY <1>1, <1>3 DEF Quick!BindingsOf
<1>4. CASE c \in Quick!ButtonControls
  BY <1>1, <1>4 DEF Quick!BindingsOf
<1>5. CASE c \notin Quick!StickControls \cup Quick!TriggerControls \cup Quick!ButtonControls
  BY <1>5 DEF Quick!BindingsOf
<1>6. QED
  BY <1>1, <1>2, <1>3, <1>4, <1>5

\* What a capture makes is a binding its control admits.
LEMMA QuickBindings ==
    /\ \A c \in Quicks : Quick!Unsupported \in Quick!BindingsOf(c)
    /\ \A c \in Quicks \ Quick!StickControls, i \in Buttons :
          Quick!ButtonBinding(c, i) \in Quick!BindingsOf(c)
    /\ \A c \in Quicks \ Quick!ButtonControls, i \in Axes, n \in Int :
          Quick!AxisBinding(c, i, n) \in Quick!BindingsOf(c)
<1>1. ASSUME NEW c \in Quicks \ Quick!StickControls, NEW i \in Buttons
      PROVE  Quick!ButtonBinding(c, i) \in Quick!BindingsOf(c)
  BY QuickKinds DEF Quick!ButtonBinding, Quick!OnButton
<1>2. ASSUME NEW c \in Quicks \ Quick!ButtonControls, NEW i \in Axes, NEW n \in Int
      PROVE  Quick!AxisBinding(c, i, n) \in Quick!BindingsOf(c)
  BY QuickKinds DEF Quick!AxisBinding, Quick!OnAxis, Quick!Directions
<1>3. QED
  BY <1>1, <1>2, QuickKinds

\* A finished capture keeps the draft well formed and free of conflicts: the
\* bindings it displaces are dropped.
LEMMA CompleteKeeps ==
    ASSUME Quick!TypeOK, Quick!DraftConflictFree, NEW c \in Quicks,
           NEW b \in Quick!BindingsOf(c), Quick!Complete(c, b)
    PROVE  /\ bindings' \in [Quicks -> Quick!Bindings]
           /\ \A d \in Quicks : bindings'[d] \in Quick!BindingsOf(d)
           /\ bindings'[c] = b /\ Quick!DraftConflictFree'
           /\ armed' = Nil /\ window' = Nil /\ status' = "captured" /\ replaced' \subseteq Quicks
<1>1. /\ bindings' = [d \in Quicks |-> IF d = c THEN b
                                       ELSE IF d \in Quick!Displaced(c, b)
                                       THEN Quick!Unsupported ELSE bindings[d]]
      /\ replaced' = Quick!Displaced(c, b)
      /\ armed' = Nil /\ window' = Nil /\ status' = "captured"
  BY DEF Quick!Complete
<1>2. \A d \in Quicks : bindings[d] \in Quick!BindingsOf(d)
  BY DEF Quick!TypeOK
<1>3. \A d \in Quicks : bindings'[d] \in Quick!BindingsOf(d)
  BY <1>1, <1>2, QuickBindings
<1>4. bindings' \in [Quicks -> Quick!Bindings]
  <2>1. \A d \in Quicks : bindings'[d] \in Quick!Bindings
    BY <1>3 DEF Quick!Bindings
  <2>2. QED
    BY <1>1, <2>1
<1>5. Quick!DraftConflictFree'
  <2>1. SUFFICES ASSUME NEW d \in Quicks, NEW e \in Quicks, d # e
                 PROVE  ~ Quick!Conflict(d, bindings'[d], e, bindings'[e])
    BY DEF Quick!DraftConflictFree, Quick!ConflictFree
  <2>2. ~ Quick!Conflict(d, bindings[d], e, bindings[e])
    BY <2>1 DEF Quick!DraftConflictFree, Quick!ConflictFree
  <2>3. CASE bindings'[d] = Quick!Unsupported \/ bindings'[e] = Quick!Unsupported
    <3>1. /\ ~ Quick!Conflict(d, bindings'[d], e, Quick!Unsupported)
          /\ ~ Quick!Conflict(e, bindings'[e], d, Quick!Unsupported)
      BY QuickConflictFacts
    <3>2. Quick!Conflict(d, bindings'[d], e, bindings'[e])
            <=> Quick!Conflict(e, bindings'[e], d, bindings'[d])
      BY QuickConflictFacts
    <3>3. QED
      BY <2>3, <3>1, <3>2
  <2>4. CASE bindings'[d] # Quick!Unsupported /\ bindings'[e] # Quick!Unsupported
    <3>1. \A x \in Quicks : bindings'[x] = IF x = c THEN b
                                           ELSE IF x \in Quick!Displaced(c, b)
                                           THEN Quick!Unsupported ELSE bindings[x]
      BY <1>1
    <3>2. CASE d = c
      <4>1. e \notin Quick!Displaced(c, b) /\ bindings'[d] = b /\ bindings'[e] = bindings[e]
        BY <2>1, <2>4, <3>1, <3>2
      <4>2. QED
        BY <2>1, <3>2, <4>1 DEF Quick!Displaced
    <3>3. CASE e = c
      <4>1. d \notin Quick!Displaced(c, b) /\ bindings'[e] = b /\ bindings'[d] = bindings[d]
        BY <2>1, <2>4, <3>1, <3>3
      <4>2. ~ Quick!Conflict(c, b, d, bindings[d])
        BY <2>1, <3>3, <4>1 DEF Quick!Displaced
      <4>3. Quick!Conflict(c, b, d, bindings[d]) <=> Quick!Conflict(d, bindings[d], c, b)
        BY QuickConflictFacts
      <4>4. QED
        BY <3>3, <4>1, <4>2, <4>3
    <3>4. CASE d # c /\ e # c
      BY <2>2, <2>4, <3>1, <3>4
    <3>5. QED
      BY <3>2, <3>3, <3>4
  <2>5. QED
    BY <2>3, <2>4
<1>6. QED
  BY <1>1, <1>3, <1>4, <1>5 DEF Quick!Displaced

\* An event list is a bounded sequence of events.
LEMMA EventFacts ==
    ASSUME NEW events \in Quick!EventLists
    PROVE  /\ DOMAIN events \subseteq Nat /\ \A k \in DOMAIN events : k <= MaxEvents
           /\ \A k \in DOMAIN events : events[k] \in Quick!Events
           /\ \A k \in DOMAIN events :
                 /\ events[k].kind = "axis" =>
                       events[k].number \in Axes /\ events[k].value \in QuickPositions
                 /\ events[k].kind = "button" =>
                       events[k].number \in Buttons /\ events[k].value \in {0, 1}
<1>1. PICK n \in 0 .. MaxEvents : events \in [1 .. n -> Quick!Events]
  BY DEF Quick!EventLists
<1>2. MaxEvents \in Nat
  BY MappingConstants
<1>3. \A e \in Quick!Events :
        /\ e.kind = "axis" => e.number \in Axes /\ e.value \in QuickPositions
        /\ e.kind = "button" => e.number \in Buttons /\ e.value \in {0, 1}
  BY DEF Quick!Events, Quick!AxisEvents, Quick!ButtonEvents
<1>4. QED
  BY <1>1, <1>2, <1>3

\* The value a source ends with is the last event's, or the old one.
LEMMA LastIsAValue ==
    ASSUME NEW events \in Quick!EventLists, NEW kind, NEW i, NEW old,
           NEW T, old \in T,
           \A k \in DOMAIN events :
              events[k].kind = kind /\ events[k].number = i => events[k].value \in T
    PROVE  Quick!Last(events, kind, i, old) \in T
<1> DEFINE at == {k \in DOMAIN events : events[k].kind = kind /\ events[k].number = i}
<1>1. Quick!Last(events, kind, i, old) =
         IF at = {} THEN old ELSE events[CHOOSE k \in at : \A j \in at : j <= k].value
  BY DEF Quick!Last
<1>2. CASE at = {}
  BY <1>1, <1>2
<1>3. CASE at # {}
  <2>1. at \subseteq Nat /\ (\A k \in at : k <= MaxEvents) /\ MaxEvents \in Nat
    BY EventFacts, MappingConstants
  <2>2. \E k \in at : \A j \in at : j <= k
    BY <1>3, <2>1, GreatestExists
  <2>3. (CHOOSE k \in at : \A j \in at : j <= k) \in at
    BY <2>2
  <2>4. QED
    BY <1>1, <1>3, <2>3
<1>4. QED
  BY <1>2, <1>3

LEMMA AfterIsADevice ==
    ASSUME NEW d \in Quick!Devices, NEW events \in Quick!EventLists
    PROVE  Quick!After(d, events) \in Quick!Devices
<1>1. ASSUME NEW i \in Axes
      PROVE  Quick!Last(events, "axis", i, d.axes[i]) \in QuickPositions
  <2>1. d.axes[i] \in QuickPositions
    BY DEF Quick!Devices
  <2>2. \A k \in DOMAIN events : events[k].kind = "axis" /\ events[k].number = i
                                  => events[k].value \in QuickPositions
    BY EventFacts
  <2>3. QED
    BY <2>1, <2>2, LastIsAValue
<1>2. ASSUME NEW i \in Buttons
      PROVE  Quick!Last(events, "button", i, d.buttons[i]) \in {0, 1}
  <2> DEFINE Bits == {0, 1}
  <2>1. d.buttons[i] \in Bits
    BY DEF Quick!Devices
  <2>2. \A k \in DOMAIN events : events[k].kind = "button" /\ events[k].number = i
                                  => events[k].value \in Bits
    BY EventFacts
  <2> HIDE DEF Bits
  <2>3. Quick!Last(events, "button", i, d.buttons[i]) \in Bits
    BY <2>1, <2>2, LastIsAValue
  <2>4. QED
    BY <2>3 DEF Bits
<1>3. QED
  BY <1>1, <1>2 DEF Quick!After, Quick!Devices

LEMMA AbsFacts ==
    ASSUME NEW n \in Int
    PROVE  /\ Quick!Abs(n) \in Nat /\ Quick!Abs(n) >= n /\ Quick!Abs(n) >= -n
           /\ Quick!Abs(n) \in {n, -n}
  BY DEF Quick!Abs

\* Raw values are integers a bounded distance apart.
LEMMA QuickDistances ==
    ASSUME NEW v \in QuickPositions, NEW w \in QuickPositions
    PROVE  /\ v \in Int /\ v - w \in Quick!Deltas /\ v - w \in Int
           /\ Quick!Abs(v - w) \in Nat /\ Quick!Abs(v - w) <= Highest - Lowest
           /\ Highest - Lowest \in Nat
  BY MappingConstants DEF Quick!Abs, Quick!Deltas

\* What Farthest chooses is the greatest distance.
LEMMA FarthestIsGreatest ==
    ASSUME Quick!TypeOK, NEW events \in Quick!EventLists, NEW i \in Axes
    PROVE  LET went == {reach[i]} \cup
                       {Quick!Abs(events[k].value - atArm.axes[i]) :
                           k \in {j \in DOMAIN events :
                                     events[j].kind = "axis" /\ events[j].number = i}}
           IN  /\ Quick!Farthest(events, i) \in went
               /\ \A m \in went : m <= Quick!Farthest(events, i)
               /\ Quick!Farthest(events, i) \in Nat
<1> DEFINE moves == {j \in DOMAIN events :
                        events[j].kind = "axis" /\ events[j].number = i}
           went == {reach[i]} \cup {Quick!Abs(events[k].value - atArm.axes[i]) : k \in moves}
           bound == reach[i] + (Highest - Lowest)
<1>1. reach[i] \in Nat /\ atArm.axes[i] \in QuickPositions
  BY DEF Quick!TypeOK, Quick!Devices
<1>2. \A k \in moves : events[k].value \in QuickPositions
  BY EventFacts
<1>3. Highest - Lowest \in Nat
  BY MappingConstants
<1>4. \A k \in moves : /\ Quick!Abs(events[k].value - atArm.axes[i]) \in Nat
                       /\ Quick!Abs(events[k].value - atArm.axes[i]) <= Highest - Lowest
  BY <1>1, <1>2, QuickDistances
<1>5. went \subseteq Nat /\ (\A m \in went : m <= bound) /\ bound \in Nat /\ went # {}
  BY <1>1, <1>3, <1>4
<1>6. \E n \in went : \A m \in went : m <= n
  BY <1>5, GreatestExists
<1>7. Quick!Farthest(events, i) = CHOOSE n \in went : \A m \in went : m <= n
  BY DEF Quick!Farthest
<1>8. /\ Quick!Farthest(events, i) \in went
      /\ \A m \in went : m <= Quick!Farthest(events, i)
  BY <1>6, <1>7
<1>9. QED
  BY <1>5, <1>8

\* What a batch and a window hold.
LEMMA BatchFacts ==
    ASSUME Quick!TypeOK, batch # Nil
    PROVE  /\ batch.events \in Quick!EventLists
           /\ batch.before \in Quick!Devices /\ batch.after \in Quick!Devices
           /\ batch.first \in BOOLEAN /\ batch.connected \in BOOLEAN
  BY DEF Quick!TypeOK, Quick!Batches

LEMMA WindowFacts ==
    ASSUME Quick!TypeOK, window # Nil
    PROVE  /\ window \in Quick!Windows
           /\ window.baseline \in [Axes -> QuickPositions]
           /\ window.peaks \in [Axes -> Quick!Deltas]
           /\ window.age \in Quick!NoAge .. CaptureTime /\ window.waiting \in BOOLEAN
           /\ \A i \in Axes : window.baseline[i] \in QuickPositions
                              /\ window.peaks[i] \in Int /\ window.peaks[i] \in Quick!Deltas
  BY MappingConstants DEF Quick!TypeOK, Quick!Windows, Quick!Deltas

\* A window's new peak is the greatest distance of the old one and the batch's.
LEMMA PeakIsGreatest ==
    ASSUME Quick!TypeOK, batch # Nil, window # Nil, NEW i \in Axes
    PROVE  /\ Quick!Peak(i) \in Quick!Deltas
           /\ Quick!Abs(Quick!Peak(i)) \in Went(i)
           /\ \A n \in Went(i) : n <= Quick!Abs(Quick!Peak(i))
<1> DEFINE moves == {k \in DOMAIN batch.events :
                        batch.events[k].kind = "axis" /\ batch.events[k].number = i}
           delta(k) == batch.events[k].value - window.baseline[i]
           far(k) == \A j \in moves :
                        Quick!Abs(delta(j)) < Quick!Abs(delta(k))
                        \/ (Quick!Abs(delta(j)) = Quick!Abs(delta(k)) /\ k <= j)
           peak == window.peaks[i]
<1>1. Quick!Peak(i) = IF \E k \in moves : Quick!Abs(delta(k)) > Quick!Abs(peak)
                      THEN delta(CHOOSE k \in moves : far(k)) ELSE peak
  BY DEF Quick!Peak
<1>2. Went(i) = {Quick!Abs(peak)} \cup {Quick!Abs(delta(k)) : k \in moves}
  BY DEF Went
<1>3. /\ \A k \in moves : /\ delta(k) \in Quick!Deltas /\ Quick!Abs(delta(k)) \in Nat
                          /\ Quick!Abs(delta(k)) <= Highest - Lowest
      /\ moves \subseteq Nat /\ Highest - Lowest \in Nat
      /\ peak \in Quick!Deltas /\ Quick!Abs(peak) \in Nat
  <2>1. moves \subseteq Nat /\ \A k \in moves : batch.events[k].value \in QuickPositions
    BY BatchFacts, EventFacts
  <2>2. window.baseline[i] \in QuickPositions /\ peak \in Int /\ peak \in Quick!Deltas
    BY WindowFacts
  <2>3. Highest - Lowest \in Nat
    BY MappingConstants
  <2>4. Quick!Abs(peak) \in Nat
    BY <2>2, AbsFacts
  <2>5. ASSUME NEW k \in moves
        PROVE  /\ delta(k) \in Quick!Deltas /\ Quick!Abs(delta(k)) \in Nat
               /\ Quick!Abs(delta(k)) <= Highest - Lowest
    BY <2>1, <2>2, QuickDistances
  <2>6. QED
    BY <2>1, <2>2, <2>3, <2>4, <2>5
<1>4. CASE \E k \in moves : Quick!Abs(delta(k)) > Quick!Abs(peak)
  <2> DEFINE heights == {Quick!Abs(delta(k)) : k \in moves}
  <2>1. heights \subseteq Nat /\ heights # {} /\ \A n \in heights : n <= Highest - Lowest
    BY <1>3, <1>4
  <2>2. PICK n \in heights : \A m \in heights : m <= n
    BY <1>3, <2>1, GreatestExists
  <2> DEFINE tops == {k \in moves : Quick!Abs(delta(k)) = n}
  <2>3. tops \subseteq Nat /\ tops # {}
    BY <1>3, <2>2
  <2>4. PICK k \in tops : \A j \in tops : k <= j
    BY <2>3, LeastExists
  <2>5. far(k)
    <3>1. SUFFICES ASSUME NEW j \in moves
                   PROVE  Quick!Abs(delta(j)) < n \/ (Quick!Abs(delta(j)) = n /\ k <= j)
      BY <2>4
    <3>2. Quick!Abs(delta(j)) \in heights /\ Quick!Abs(delta(j)) <= n
      BY <2>2, <3>1
    <3>3. Quick!Abs(delta(j)) \in Nat /\ n \in Nat
      BY <1>3, <2>1
    <3>4. QED
      BY <2>4, <3>2, <3>3
  <2>6. \E x \in moves : far(x)
    BY <2>4, <2>5
  <2> DEFINE f == CHOOSE x \in moves : far(x)
  <2>7. f \in moves /\ far(f)
    BY <2>6
  <2>8. Quick!Peak(i) = delta(f)
    BY <1>1, <1>4
  <2> HIDE DEF f
  <2>9. ASSUME NEW m \in Went(i) PROVE m <= Quick!Abs(delta(f))
    <3>1. \A j \in moves : Quick!Abs(delta(j)) <= Quick!Abs(delta(f))
      BY <1>3, <2>7
    <3>2. PICK j \in moves : Quick!Abs(delta(j)) > Quick!Abs(peak)
      BY <1>4
    <3>3. Quick!Abs(peak) <= Quick!Abs(delta(f))
      BY <1>3, <2>7, <3>1, <3>2
    <3>4. QED
      BY <1>2, <2>9, <3>1, <3>3
  <2>10. QED
    BY <1>2, <1>3, <2>7, <2>8, <2>9
<1>5. CASE ~ \E k \in moves : Quick!Abs(delta(k)) > Quick!Abs(peak)
  <2>1. Quick!Peak(i) = peak
    BY <1>1, <1>5
  <2>2. \A k \in moves : Quick!Abs(delta(k)) <= Quick!Abs(peak)
    BY <1>3, <1>5
  <2>3. QED
    BY <1>2, <1>3, <2>1, <2>2
<1>6. QED
  BY <1>4, <1>5

\* What capturing does to the window of the control that stays armed.
Measured ==
    /\ armed' = armed /\ window' # Nil /\ window'.baseline = window.baseline
    /\ status' \in {"armed", "collecting", "ambiguous"}
    /\ window'.waiting <=> status' = "ambiguous"
    /\ ~window'.waiting /\ window.waiting =>
          status' = "armed" /\ \A i \in Axes : window'.peaks[i] = 0
    /\ ~window'.waiting /\ ~window.waiting /\ armed \notin Quick!ButtonControls =>
          \A i \in Axes : window'.peaks[i] = Quick!Peak(i)

LEMMA PeaksAreTyped ==
    ASSUME Quick!TypeOK, batch # Nil, window # Nil
    PROVE  /\ Quick!Peaks \in [Axes -> Quick!Deltas]
           /\ \A i \in Axes : Quick!Peaks[i] = Quick!Peak(i) /\ Quick!Peak(i) \in Int
<1>1. \A i \in Axes : Quick!Peak(i) \in Quick!Deltas
  BY PeakIsGreatest
<1>2. Quick!Deltas \subseteq Int
  BY MappingConstants DEF Quick!Deltas
<1>3. QED
  BY <1>1, <1>2 DEF Quick!Peaks

\* What capturing promises, by the two ways it may end.
Captured ==
    /\ bindings' \in [Quicks -> Quick!Bindings]
    /\ \A c \in Quicks : bindings'[c] \in Quick!BindingsOf(c)
    /\ Quick!DraftConflictFree'
    /\ armed' = Nil /\ window' = Nil /\ replaced' \subseteq Quicks
    /\ status' \in {"idle", "armed", "collecting", "ambiguous", "captured"}

GoesOn ==
    /\ UNCHANGED <<bindings, replaced>>
    /\ window' \in Quick!Windows /\ Measured

\* The axes of a control that takes them, one way of capturing at a time.
LEMMA AxesAreMeasured ==
    ASSUME QuickInv, batch # Nil, armed # Nil, armed \notin Quick!ButtonControls,
           NEW dt \in 1 .. CaptureTime, Quick!CaptureAxis(dt)
    PROVE  Captured \/ GoesOn
<1>1. /\ Quick!TypeOK /\ Quick!DraftConflictFree /\ armed \in Quicks
      /\ window # Nil /\ status \in {"armed", "collecting", "ambiguous"}
      /\ window.waiting <=> status = "ambiguous"
  BY DEF QuickInv, ArmedHasAWindow, Quick!TypeOK
<1>2. /\ window \in Quick!Windows /\ window.age \in Quick!NoAge .. CaptureTime
      /\ window.waiting \in BOOLEAN
  BY <1>1, WindowFacts
<1>3. /\ Quick!Peaks \in [Axes -> Quick!Deltas]
      /\ \A i \in Axes : Quick!Peaks[i] = Quick!Peak(i) /\ Quick!Peak(i) \in Int
  BY <1>1, PeaksAreTyped
<1>4. CaptureTime \in Nat \ {0} /\ Quick!NoAge = -1 /\ Nil \notin Quick!Windows
  BY MappingConstants, MappingAssumption DEF Quick!NoAge
<1>5. [i \in Axes |-> 0] \in [Axes -> Quick!Deltas]
  BY MappingConstants DEF Quick!Deltas
<1>6. CASE Quick!AwaitNeutral
  <2>1. /\ UNCHANGED <<bindings, replaced, armed>> /\ window.waiting
        /\ \/ UNCHANGED <<window, status>>
           \/ /\ window' = [window EXCEPT !.peaks = [i \in Axes |-> 0],
                                          !.age = Quick!NoAge, !.waiting = FALSE]
              /\ status' = "armed"
    BY <1>6 DEF Quick!AwaitNeutral, Quick!KeepBindings
  <2>2. CASE UNCHANGED <<window, status>>
    BY <1>1, <1>2, <2>1, <2>2 DEF GoesOn, Measured
  <2>3. CASE /\ window' = [window EXCEPT !.peaks = [i \in Axes |-> 0],
                                         !.age = Quick!NoAge, !.waiting = FALSE]
             /\ status' = "armed"
    <3>1. /\ window' \in Quick!Windows /\ window'.baseline = window.baseline
          /\ ~window'.waiting /\ window'.peaks = [i \in Axes |-> 0]
      <4>1. window' = [baseline |-> window.baseline, peaks |-> [i \in Axes |-> 0],
                       age |-> Quick!NoAge, waiting |-> FALSE]
        BY <1>2, <2>3 DEF Quick!Windows
      <4>2. Quick!NoAge \in Quick!NoAge .. CaptureTime
        BY <1>4
      <4>3. window.baseline \in [Axes -> QuickPositions]
        BY <1>1, WindowFacts
      <4>4. QED
        BY <1>5, <4>1, <4>2, <4>3 DEF Quick!Windows
    <3>2. QED
      BY <1>4, <2>1, <2>3, <3>1 DEF GoesOn, Measured
  <2>4. QED
    BY <2>1, <2>2, <2>3
<1>7. ASSUME NEW since \in Quick!NoAge .. CaptureTime, ~window.waiting,
             UNCHANGED <<bindings, replaced, armed>>,
             window' = [window EXCEPT !.peaks = Quick!Peaks, !.age = since],
             status' \in {"collecting", status}
      PROVE  GoesOn
  <2>1. /\ window' \in Quick!Windows /\ window'.baseline = window.baseline
        /\ window'.waiting = FALSE /\ window'.peaks = Quick!Peaks
    BY <1>2, <1>3, <1>7 DEF Quick!Windows
  <2>2. status' \in {"armed", "collecting"}
    BY <1>1, <1>7
  <2>3. QED
    BY <1>3, <1>4, <1>7, <2>1, <2>2 DEF GoesOn, Measured
<1>8. CASE Quick!AwaitStart
  <2>1. \E since \in {0, Quick!NoAge} :
          /\ ~window.waiting /\ UNCHANGED <<bindings, replaced, armed>>
          /\ window' = [window EXCEPT !.peaks = Quick!Peaks, !.age = since]
          /\ status' \in {"collecting", status}
    BY <1>8 DEF Quick!AwaitStart, Quick!KeepBindings
  <2>2. {0, Quick!NoAge} \subseteq Quick!NoAge .. CaptureTime
    BY <1>4
  <2>3. QED
    BY <1>7, <2>1, <2>2
<1>9. CASE Quick!Collect(dt)
  <2>1. /\ ~window.waiting /\ UNCHANGED <<bindings, replaced, armed, status>>
        /\ window.age + dt < CaptureTime
        /\ window' = [window EXCEPT !.peaks = Quick!Peaks, !.age = window.age + dt]
    BY <1>2, <1>9 DEF Quick!Collect, Quick!KeepBindings, Quick!Windows
  <2>2. window.age + dt \in Quick!NoAge .. CaptureTime
    BY <1>2, <1>4, <2>1
  <2>3. QED
    BY <1>7, <2>1, <2>2
<1>10. CASE Quick!Decide(dt)
  <2>1. PICK i \in Axes :
          IF Quick!Dominant(Quick!Peaks, i)
          THEN Quick!Complete(armed, Quick!AxisBinding(armed, i, Quick!Peaks[i]))
          ELSE /\ window' = [window EXCEPT !.peaks = Quick!Peaks, !.age = CaptureTime,
                                           !.waiting = TRUE]
               /\ status' = "ambiguous"
               /\ UNCHANGED <<bindings, replaced, armed>>
    BY <1>10 DEF Quick!Decide, Quick!KeepBindings
  <2>2. CASE Quick!Dominant(Quick!Peaks, i)
    <3>1. Quick!AxisBinding(armed, i, Quick!Peaks[i]) \in Quick!BindingsOf(armed)
      BY <1>1, <1>3, QuickBindings
    <3>2. Quick!Complete(armed, Quick!AxisBinding(armed, i, Quick!Peaks[i]))
      BY <2>1, <2>2
    <3>3. QED
      BY <1>1, <3>1, <3>2, CompleteKeeps DEF Captured
  <2>3. CASE ~ Quick!Dominant(Quick!Peaks, i)
    <3>1. /\ window' = [window EXCEPT !.peaks = Quick!Peaks, !.age = CaptureTime,
                                      !.waiting = TRUE]
          /\ status' = "ambiguous"
          /\ UNCHANGED <<bindings, replaced, armed>>
      BY <2>1, <2>3
    <3>2. /\ window' \in Quick!Windows /\ window'.baseline = window.baseline
          /\ window'.waiting
      <4>1. window' = [baseline |-> window.baseline, peaks |-> Quick!Peaks,
                       age |-> CaptureTime, waiting |-> TRUE]
        BY <1>2, <3>1 DEF Quick!Windows
      <4>2. CaptureTime \in Quick!NoAge .. CaptureTime
        BY <1>4
      <4>3. window.baseline \in [Axes -> QuickPositions]
        BY <1>1, WindowFacts
      <4>4. QED
        BY <1>3, <4>1, <4>2, <4>3 DEF Quick!Windows
    <3>3. QED
      BY <1>4, <3>1, <3>2 DEF GoesOn, Measured
  <2>4. QED
    BY <2>2, <2>3
<1>11. QED
  BY <1>6, <1>8, <1>9, <1>10 DEF Quick!CaptureAxis

\* The first press of a batch.
FirstPress == CHOOSE k \in Quick!Presses : \A j \in Quick!Presses : k <= j

LEMMA FirstPressIsOne ==
    ASSUME Quick!TypeOK, batch # Nil, Quick!Presses # {}
    PROVE  FirstPress \in Quick!Presses /\ batch.events[FirstPress].number \in Buttons
<1>1. Quick!Presses \subseteq Nat
      /\ \A k \in Quick!Presses : batch.events[k].number \in Buttons
  BY BatchFacts, EventFacts DEF Quick!Presses
<1>2. \E k \in Quick!Presses : \A j \in Quick!Presses : k <= j
  BY <1>1, LeastExists
<1>3. QED
  BY <1>1, <1>2 DEF FirstPress

\* Capturing keeps the draft sound, and measures the gesture of the control
\* that stays armed.
LEMMA InputIsCaptured ==
    ASSUME QuickInv, batch # Nil, NEW dt \in 1 .. CaptureTime, Quick!CaptureInput(dt)
    PROVE  \/ Captured \/ GoesOn
           \/ armed = Nil /\ UNCHANGED <<bindings, replaced, armed, window, status>>
<1>1. /\ Quick!TypeOK /\ Quick!DraftConflictFree /\ ArmedHasAWindow
      /\ armed \in Quicks \cup {Nil}
  BY DEF QuickInv, Quick!TypeOK
<1>2. CASE armed = Nil
  BY <1>2 DEF Quick!CaptureInput
<1>3. CASE armed # Nil /\ armed \notin Quick!StickControls /\ Quick!Presses # {}
  <2>1. Quick!Complete(armed, Quick!ButtonBinding(armed, batch.events[FirstPress].number))
    BY <1>3 DEF Quick!CaptureInput, Quick!CaptureButton, FirstPress
  <2>2. Quick!ButtonBinding(armed, batch.events[FirstPress].number)
           \in Quick!BindingsOf(armed)
    BY <1>1, <1>3, FirstPressIsOne, QuickBindings
  <2>3. QED
    BY <1>1, <1>3, <2>1, <2>2, CompleteKeeps DEF Captured
<1>4. CASE /\ armed # Nil /\ ~(armed \notin Quick!StickControls /\ Quick!Presses # {})
           /\ armed \in Quick!ButtonControls
  <2>1. UNCHANGED <<bindings, replaced, armed, window, status>>
    BY <1>4 DEF Quick!CaptureInput
  <2>2. /\ window \in Quick!Windows /\ window # Nil
        /\ status \in {"armed", "collecting", "ambiguous"}
        /\ window.waiting <=> status = "ambiguous"
    BY <1>1, <1>4, WindowFacts DEF ArmedHasAWindow
  <2>3. window' \in Quick!Windows /\ Measured
    BY <1>4, <2>1, <2>2 DEF Measured
  <2>4. QED
    BY <2>1, <2>3 DEF GoesOn
<1>5. CASE /\ armed # Nil /\ ~(armed \notin Quick!StickControls /\ Quick!Presses # {})
           /\ armed \notin Quick!ButtonControls
  <2>1. Quick!CaptureAxis(dt)
    BY <1>5 DEF Quick!CaptureInput
  <2>2. QED
    BY <1>5, <2>1, AxesAreMeasured
<1>6. QED
  BY <1>2, <1>3, <1>4, <1>5

LEMMA ZerosAreADevice == Quick!Zeros \in Quick!Devices
                         /\ Quick!Zeros.axes = [i \in Axes |-> 0]
                         /\ Quick!Zeros.axes \in [Axes -> Nat]
  BY MappingConstants DEF Quick!Zeros, Quick!Devices

\* The pump hands its batch to the engine.
LEMMA ObserveKeeps ==
    ASSUME QuickInv, NEW dt \in 1 .. CaptureTime, Quick!Observe(dt)
    PROVE  QuickInv'
<1>1. /\ Quick!TypeOK /\ Quick!DraftConflictFree /\ SeenByTheEngine /\ ArmedHasAWindow
      /\ WindowMeasures /\ batch # Nil
  BY DEF QuickInv, Quick!Observe
<1>2. /\ UNCHANGED <<device, drained, atArm, settled, struck>>
      /\ batch' = Nil /\ connected' = batch.connected
      /\ batch.connected => Quick!CaptureInput(dt)
                            /\ quickAxes' = batch.after.axes
                            /\ quickButtons' = batch.after.buttons
      /\ ~batch.connected => Quick!Disarm /\ quickAxes' = Quick!Zeros.axes
                             /\ quickButtons' = Quick!Zeros.buttons
      /\ reach' = IF status = "ambiguous" /\ status' = "armed" THEN Quick!Zeros.axes
                  ELSE reach
      /\ pressed' \subseteq Quick!Digitals
  BY DEF Quick!Observe, Quick!PressedIn
<1>3. \/ Captured \/ GoesOn
      \/ /\ UNCHANGED <<bindings, replaced>> /\ armed' = Nil
         /\ window' \in {window, Nil} /\ status' \in {status, "idle"}
  <2>1. CASE batch.connected
    BY <1>1, <1>2, <2>1, InputIsCaptured
  <2>2. CASE ~batch.connected
    BY <1>2, <2>2 DEF Quick!Disarm
  <2>3. QED
    BY <2>1, <2>2
<1>4. GoesOn => batch.connected
  <2>1. CASE batch.connected
    BY <2>1
  <2>2. CASE ~batch.connected
    BY <1>1, <1>2, <2>2 DEF Quick!Disarm, GoesOn, Measured
  <2>3. QED
    BY <2>1, <2>2
<1>5. /\ bindings' \in [Quicks -> Quick!Bindings]
      /\ \A c \in Quicks : bindings'[c] \in Quick!BindingsOf(c)
      /\ Quick!DraftConflictFree'
      /\ armed' \in Quicks \cup {Nil} /\ window' \in Quick!Windows \cup {Nil}
      /\ status' \in {"idle", "armed", "collecting", "ambiguous", "captured"}
      /\ replaced' \subseteq Quicks
  <2>1. CASE Captured
    BY <2>1 DEF Captured
  <2>2. CASE UNCHANGED <<bindings, replaced>>
    <3>1. Quick!DraftConflictFree'
      BY <1>1, <2>2 DEF Quick!DraftConflictFree, Quick!ConflictFree
    <3>2. /\ bindings' \in [Quicks -> Quick!Bindings]
          /\ \A c \in Quicks : bindings'[c] \in Quick!BindingsOf(c)
          /\ replaced' \subseteq Quicks
      BY <1>1, <2>2 DEF Quick!TypeOK
    <3>3. /\ armed' \in Quicks \cup {Nil} /\ window' \in Quick!Windows \cup {Nil}
          /\ status' \in {"idle", "armed", "collecting", "ambiguous", "captured"}
      BY <1>1, <1>3 DEF Quick!TypeOK, Captured, GoesOn, Measured
    <3>4. QED
      BY <3>1, <3>2, <3>3
  <2>3. QED
    BY <1>3, <2>1, <2>2 DEF GoesOn
<1>6. Quick!TypeOK'
  <2>1. /\ device' \in Quick!Devices /\ drained' \in BOOLEAN /\ connected' \in BOOLEAN
        /\ batch' \in Quick!Batches \cup {Nil}
        /\ atArm' \in Quick!Devices /\ settled' \in BOOLEAN /\ struck' \subseteq Buttons
    BY <1>1, <1>2, BatchFacts DEF Quick!TypeOK
  <2>2. quickAxes' \in [Axes -> QuickPositions] /\ quickButtons' \in [Buttons -> {0, 1}]
    BY <1>1, <1>2, BatchFacts, ZerosAreADevice DEF Quick!Devices
  <2>3. reach' \in [Axes -> Nat]
    BY <1>1, <1>2, ZerosAreADevice DEF Quick!TypeOK
  <2>4. QED
    BY <1>2, <1>5, <2>1, <2>2, <2>3 DEF Quick!TypeOK
<1>7. SeenByTheEngine'
  BY <1>1, <1>2 DEF SeenByTheEngine
<1>8. ArmedHasAWindow'
  <2>1. CASE GoesOn
    BY <1>2, <1>4, <2>1 DEF GoesOn, Measured, ArmedHasAWindow
  <2>2. CASE ~GoesOn
    BY <1>3, <2>2 DEF Captured, ArmedHasAWindow
  <2>3. QED
    BY <2>1, <2>2
<1>9. WindowMeasures'
  <2>1. CASE ~GoesOn
    BY <1>3, <2>1 DEF Captured, WindowMeasures
  <2>2. CASE GoesOn
    <3>1. SUFFICES ASSUME armed' # Nil, settled'
                   PROVE  /\ window'.baseline = atArm'.axes
                          /\ ~window'.waiting /\ armed' \notin Quick!ButtonControls =>
                                \A i \in Axes : /\ reach'[i] \in Went(i)'
                                                /\ \A n \in Went(i)' : n <= reach'[i]
      BY <1>2 DEF WindowMeasures
    <3>2. armed # Nil /\ settled /\ Measured /\ window # Nil
          /\ (window.waiting <=> status = "ambiguous")
      BY <1>1, <1>2, <2>2, <3>1 DEF GoesOn, Measured, ArmedHasAWindow
    <3>3. window'.baseline = atArm'.axes
      BY <1>1, <1>2, <3>2 DEF Measured, WindowMeasures
    <3>4. ASSUME NEW i \in Axes, ~window'.waiting, armed' \notin Quick!ButtonControls
          PROVE  reach'[i] \in Went(i)' /\ \A n \in Went(i)' : n <= reach'[i]
      <4>1. Went(i)' = {Quick!Abs(window'.peaks[i])}
        BY <1>2 DEF Went, Quick!Abs
      <4>2. reach'[i] \in Nat
        BY <1>6 DEF Quick!TypeOK
      <4>3. CASE window.waiting
        <5>1. window'.peaks[i] = 0 /\ reach'[i] = 0
          BY <1>2, <3>2, <3>4, <4>3, ZerosAreADevice DEF Measured
        <5>2. QED
          BY <4>1, <5>1 DEF Quick!Abs
      <4>4. CASE ~window.waiting
        <5>1. window'.peaks[i] = Quick!Peak(i) /\ reach' = reach
          BY <1>2, <3>2, <3>4, <4>4 DEF Measured
        <5>2. reach[i] \in Went(i) /\ \A n \in Went(i) : n <= reach[i]
          BY <1>1, <3>2, <3>4, <4>4 DEF WindowMeasures, Measured
        <5>3. /\ Quick!Abs(Quick!Peak(i)) \in Went(i)
              /\ \A n \in Went(i) : n <= Quick!Abs(Quick!Peak(i))
              /\ Quick!Abs(Quick!Peak(i)) \in Nat
          BY <1>1, <3>2, PeakIsGreatest, PeaksAreTyped, AbsFacts
        <5>4. reach[i] = Quick!Abs(Quick!Peak(i))
          BY <4>2, <5>1, <5>2, <5>3
        <5>5. QED
          BY <4>1, <4>2, <5>1, <5>4
      <4>5. QED
        BY <4>3, <4>4
    <3>5. QED
      BY <3>3, <3>4
  <2>3. QED
    BY <2>1, <2>2
<1>10. QED
  BY <1>5, <1>6, <1>7, <1>8, <1>9 DEF QuickInv

\* A control is armed.
LEMMA ArmKeeps ==
    ASSUME QuickInv, NEW c \in Quicks, Quick!Arm(c)
    PROVE  QuickInv'
<1>1. /\ Quick!TypeOK /\ Quick!DraftConflictFree /\ SeenByTheEngine /\ connected
  BY DEF QuickInv, Quick!Arm
<1>2. /\ UNCHANGED <<device, drained, batch, connected, quickAxes, quickButtons, bindings,
                     pressed>>
      /\ armed' = c /\ status' = "armed" /\ replaced' = {}
      /\ window' = [baseline |-> quickAxes, peaks |-> [i \in Axes |-> 0],
                    age |-> Quick!NoAge, waiting |-> FALSE]
      /\ atArm' = device /\ settled' = (drained /\ batch = Nil)
      /\ reach' = Quick!Zeros.axes /\ struck' = {}
  BY DEF Quick!Arm
<1>3. window' \in Quick!Windows
  <2>1. [i \in Axes |-> 0] \in [Axes -> Quick!Deltas]
    BY MappingConstants DEF Quick!Deltas
  <2>2. Quick!NoAge \in Quick!NoAge .. CaptureTime
    BY MappingConstants DEF Quick!NoAge
  <2>3. quickAxes \in [Axes -> QuickPositions]
    BY <1>1 DEF Quick!TypeOK
  <2>4. QED
    BY <1>2, <2>1, <2>2, <2>3 DEF Quick!Windows
<1>4. window' # Nil /\ c # Nil
  BY <1>3, MappingAssumption, MappingConstants
<1>5. Quick!TypeOK'
  <2>1. settled' \in BOOLEAN
    BY <1>2
  <2>2. reach' \in [Axes -> Nat]
    BY <1>2, ZerosAreADevice
  <2>3. /\ device' \in Quick!Devices /\ drained' \in BOOLEAN /\ connected' \in BOOLEAN
        /\ batch' \in Quick!Batches \cup {Nil}
        /\ quickAxes' \in [Axes -> QuickPositions]
        /\ quickButtons' \in [Buttons -> {0, 1}]
        /\ bindings' \in [Quicks -> Quick!Bindings]
        /\ \A d \in Quicks : bindings'[d] \in Quick!BindingsOf(d)
        /\ armed' \in Quicks \cup {Nil} /\ replaced' \subseteq Quicks
        /\ pressed' \subseteq Quick!Digitals /\ atArm' \in Quick!Devices
        /\ struck' \subseteq Buttons
    BY <1>1, <1>2 DEF Quick!TypeOK
  <2>4. QED
    BY <1>2, <1>3, <2>1, <2>2, <2>3 DEF Quick!TypeOK
<1>6. Quick!DraftConflictFree'
  BY <1>1, <1>2 DEF Quick!DraftConflictFree, Quick!ConflictFree
<1>7. SeenByTheEngine'
  BY <1>1, <1>2 DEF SeenByTheEngine
<1>8. ArmedHasAWindow'
  BY <1>1, <1>2, <1>4 DEF ArmedHasAWindow
<1>9. WindowMeasures'
  <2>1. SUFFICES ASSUME settled'
                 PROVE  /\ window'.baseline = atArm'.axes /\ batch' = Nil
                        /\ \A i \in Axes : /\ reach'[i] \in Went(i)'
                                           /\ \A n \in Went(i)' : n <= reach'[i]
    BY DEF WindowMeasures
  <2>2. batch' = Nil /\ window'.baseline = atArm'.axes
    BY <1>1, <1>2, <2>1 DEF SeenByTheEngine
  <2>3. ASSUME NEW i \in Axes
        PROVE  reach'[i] \in Went(i)' /\ \A n \in Went(i)' : n <= reach'[i]
    <3>1. reach'[i] = 0 /\ window'.peaks[i] = 0
      BY <1>2, ZerosAreADevice
    <3>2. Went(i)' = {Quick!Abs(window'.peaks[i])}
      BY <2>2 DEF Went, Quick!Abs
    <3>3. QED
      BY <3>1, <3>2 DEF Quick!Abs
  <2>4. QED
    BY <2>2, <2>3
<1>10. QED
  BY <1>5, <1>6, <1>7, <1>8, <1>9 DEF QuickInv

\* The pump drains the device, which the engine does not see yet.
LEMMA DrainKeeps ==
    ASSUME QuickInv, NEW events \in Quick!EventLists, NEW alive \in BOOLEAN,
           Quick!Drain(events, alive)
    PROVE  QuickInv'
<1>1. /\ Quick!TypeOK /\ Quick!DraftConflictFree /\ SeenByTheEngine /\ ArmedHasAWindow
      /\ WindowMeasures /\ connected /\ batch = Nil
  BY DEF QuickInv, Quick!Drain
<1>2. /\ UNCHANGED <<connected, quickAxes, quickButtons, bindings, armed, window, status,
                     replaced, pressed, atArm, settled>>
      /\ device' = Quick!After(device, events) /\ drained' = TRUE
      /\ batch' = [events |-> events, first |-> ~drained, before |-> device,
                   after |-> Quick!After(device, events), connected |-> alive]
      /\ reach' = [i \in Axes |-> Quick!Farthest(events, i)]
      /\ struck' = struck \cup Quick!Struck(device, events)
  BY DEF Quick!Drain
<1>3. device \in Quick!Devices /\ device' \in Quick!Devices /\ drained \in BOOLEAN
  BY <1>1, <1>2, AfterIsADevice DEF Quick!TypeOK
<1>4. batch' \in Quick!Batches
  BY <1>2, <1>3 DEF Quick!Batches
<1>5. batch' # Nil
  BY <1>4, MappingAssumption
<1>6. /\ batch'.events = events /\ (batch'.first <=> ~drained)
      /\ batch'.before = device /\ batch'.after = device'
  BY <1>2
<1>7. Quick!TypeOK'
  <2>1. reach' \in [Axes -> Nat]
    BY <1>1, <1>2, FarthestIsGreatest
  <2>2. struck' \subseteq Buttons
    BY <1>1, <1>2 DEF Quick!TypeOK, Quick!Struck
  <2>3. /\ connected' \in BOOLEAN
        /\ quickAxes' \in [Axes -> QuickPositions]
        /\ quickButtons' \in [Buttons -> {0, 1}]
        /\ bindings' \in [Quicks -> Quick!Bindings]
        /\ \A d \in Quicks : bindings'[d] \in Quick!BindingsOf(d)
        /\ armed' \in Quicks \cup {Nil} /\ replaced' \subseteq Quicks
        /\ window' \in Quick!Windows \cup {Nil}
        /\ status' \in {"idle", "armed", "collecting", "ambiguous", "captured"}
        /\ pressed' \subseteq Quick!Digitals /\ atArm' \in Quick!Devices
        /\ settled' \in BOOLEAN
    BY <1>1, <1>2 DEF Quick!TypeOK
  <2>4. QED
    BY <1>2, <1>3, <1>4, <2>1, <2>2, <2>3 DEF Quick!TypeOK
<1>8. Quick!DraftConflictFree'
  BY <1>1, <1>2 DEF Quick!DraftConflictFree, Quick!ConflictFree
<1>9. SeenByTheEngine'
  BY <1>1, <1>2, <1>5, <1>6 DEF SeenByTheEngine
<1>10. ArmedHasAWindow'
  BY <1>1, <1>2 DEF ArmedHasAWindow
<1>11. WindowMeasures'
  <2>1. SUFFICES ASSUME armed # Nil, settled
                 PROVE  /\ window'.baseline = atArm'.axes
                        /\ ~window'.waiting /\ armed' \notin Quick!ButtonControls =>
                              \A i \in Axes : /\ reach'[i] \in Went(i)'
                                              /\ \A n \in Went(i)' : n <= reach'[i]
                        /\ Quick!Struck(batch'.before, batch'.events) \subseteq struck'
    BY <1>2 DEF WindowMeasures
  <2>2. window'.baseline = atArm'.axes /\ window.baseline = atArm.axes
    BY <1>1, <1>2, <2>1 DEF WindowMeasures
  <2>3. Quick!Struck(batch'.before, batch'.events) \subseteq struck'
    BY <1>2, <1>6
  <2>4. ASSUME NEW i \in Axes, ~window.waiting, armed \notin Quick!ButtonControls
        PROVE  reach'[i] \in Went(i)' /\ \A n \in Went(i)' : n <= reach'[i]
    <3>1. Went(i) = {Quick!Abs(window.peaks[i])} /\ reach[i] \in Went(i)
      BY <1>1, <2>1, <2>4 DEF WindowMeasures, Went
    <3>2. Went(i)' = {reach[i]} \cup
                     {Quick!Abs(events[k].value - atArm.axes[i]) :
                         k \in {j \in DOMAIN events :
                                   events[j].kind = "axis" /\ events[j].number = i}}
      BY <1>2, <1>5, <1>6, <2>2, <3>1 DEF Went, Quick!Abs
    <3>3. reach'[i] = Quick!Farthest(events, i)
      BY <1>2
    <3>4. QED
      BY <1>1, <3>2, <3>3, FarthestIsGreatest
  <2>5. QED
    BY <1>2, <2>2, <2>3, <2>4
<1>12. QED
  BY <1>7, <1>8, <1>9, <1>10, <1>11 DEF QuickInv

\* A press the engine finds is one the operator made since the control was
\* armed, when the engine had seen all the device said.
LEMMA PressIsStruck ==
    ASSUME QuickInv, batch # Nil, armed # Nil, settled, NEW k \in Quick!Presses
    PROVE  batch.events[k].number \in struck
<1> DEFINE i == batch.events[k].number
<1>1. /\ Quick!TypeOK /\ ~batch.first /\ quickButtons = batch.before.buttons
      /\ Quick!Struck(batch.before, batch.events) \subseteq struck
  BY DEF QuickInv, SeenByTheEngine, WindowMeasures
<1>2. /\ k \in DOMAIN batch.events /\ batch.events[k].kind = "button"
      /\ Quick!OldValue(k) = 0 /\ batch.events[k].value = 1
  BY DEF Quick!Presses
<1>3. i \in Buttons /\ batch.events[k] \in Quick!Events
  BY <1>1, <1>2, BatchFacts, EventFacts
<1>4. batch.events[k] = [kind |-> "button", number |-> i, value |-> 1]
  BY <1>2, <1>3 DEF Quick!Events, Quick!AxisEvents, Quick!ButtonEvents
<1>5. Quick!Last([j \in 1 .. k - 1 |-> batch.events[j]], "button", i,
                 batch.before.buttons[i]) = 0
  BY <1>1, <1>2 DEF Quick!OldValue
<1>6. i \in Quick!Struck(batch.before, batch.events)
  BY <1>2, <1>3, <1>4, <1>5 DEF Quick!Struck
<1>7. QED
  BY <1>1, <1>6

\* The peaks of a window that decides are where the axes went.
LEMMA PeaksAreReach ==
    ASSUME QuickInv, batch # Nil, armed # Nil, settled, ~window.waiting,
           armed \notin Quick!ButtonControls, NEW i \in Axes
    PROVE  Quick!Abs(Quick!Peak(i)) = reach[i]
<1>1. Quick!TypeOK /\ window # Nil /\ reach[i] \in Nat
  BY DEF QuickInv, ArmedHasAWindow, Quick!TypeOK
<1>2. reach[i] \in Went(i) /\ \A n \in Went(i) : n <= reach[i]
  BY DEF QuickInv, WindowMeasures
<1>3. /\ Quick!Abs(Quick!Peak(i)) \in Went(i) /\ Quick!Abs(Quick!Peak(i)) \in Nat
      /\ \A n \in Went(i) : n <= Quick!Abs(Quick!Peak(i))
  BY <1>1, PeakIsGreatest, PeaksAreTyped, AbsFacts
<1>4. QED
  BY <1>1, <1>2, <1>3

\* A capture binds what the operator moved.
LEMMA CaptureIsTheGesture ==
    ASSUME QuickInv, Quick!Next, NEW c \in Quicks, armed = c, status' = "captured", settled
    PROVE  IF Quick!Digital(bindings'[c]) THEN bindings'[c].index \in struck
           ELSE /\ reach[bindings'[c].index] >= MinimumPeak
                /\ \A j \in Axes \ {bindings'[c].index} :
                      2 * reach[bindings'[c].index] >= 3 * reach[j]
<1>1. /\ Quick!TypeOK /\ Quick!DraftConflictFree /\ armed # Nil /\ window # Nil
      /\ status \in {"armed", "collecting", "ambiguous"}
  BY MappingConstants DEF QuickInv, ArmedHasAWindow
<1>2. PICK dt \in 1 .. CaptureTime : Quick!Observe(dt)
  BY <1>1 DEF Quick!Next, Quick!Pump, Quick!Drain, Quick!Arm
<1>3. batch # Nil /\ Quick!CaptureInput(dt)
  BY <1>2 DEF Quick!Observe, Quick!Disarm
<1>4. CASE armed \notin Quick!StickControls /\ Quick!Presses # {}
  <2>1. Quick!Complete(armed, Quick!ButtonBinding(armed, batch.events[FirstPress].number))
    BY <1>1, <1>3, <1>4 DEF Quick!CaptureInput, Quick!CaptureButton, FirstPress
  <2>2. Quick!ButtonBinding(armed, batch.events[FirstPress].number)
           \in Quick!BindingsOf(armed)
    BY <1>1, <1>3, <1>4, FirstPressIsOne, QuickBindings
  <2>3. bindings'[c] = Quick!ButtonBinding(armed, batch.events[FirstPress].number)
    BY <1>1, <2>1, <2>2, CompleteKeeps
  <2>4. Quick!Digital(bindings'[c]) /\ bindings'[c].index = batch.events[FirstPress].number
    BY <2>3 DEF Quick!ButtonBinding, Quick!Digital
  <2>5. QED
    BY <1>1, <1>3, <1>4, <2>4, FirstPressIsOne, PressIsStruck
<1>5. CASE ~(armed \notin Quick!StickControls /\ Quick!Presses # {})
  <2>1. armed \notin Quick!ButtonControls /\ Quick!CaptureAxis(dt)
    BY <1>1, <1>3, <1>5 DEF Quick!CaptureInput
  <2>2. Quick!Decide(dt)
    BY <1>1, <2>1 DEF Quick!CaptureAxis, Quick!AwaitNeutral, Quick!AwaitStart, Quick!Collect
  <2>3. PICK i \in Axes :
          IF Quick!Dominant(Quick!Peaks, i)
          THEN Quick!Complete(armed, Quick!AxisBinding(armed, i, Quick!Peaks[i]))
          ELSE status' = "ambiguous"
    BY <2>2 DEF Quick!Decide
  <2>4. /\ Quick!Dominant(Quick!Peaks, i)
        /\ Quick!Complete(armed, Quick!AxisBinding(armed, i, Quick!Peaks[i]))
    BY <2>3
  <2>5. Quick!AxisBinding(armed, i, Quick!Peaks[i]) \in Quick!BindingsOf(armed)
    BY <1>1, <1>3, <2>1, PeaksAreTyped, QuickBindings
  <2>6. bindings'[c] = Quick!AxisBinding(armed, i, Quick!Peaks[i])
    BY <1>1, <2>4, <2>5, CompleteKeeps
  <2>7. ~ Quick!Digital(bindings'[c]) /\ bindings'[c].index = i
    BY <2>6 DEF Quick!AxisBinding, Quick!Digital
  <2>8. \A j \in Axes : Quick!Abs(Quick!Peaks[j]) = reach[j]
    BY <1>1, <1>3, <2>1, <2>2, PeaksAreTyped, PeaksAreReach DEF Quick!Decide
  <2>9. /\ reach[i] >= MinimumPeak
        /\ \A j \in Axes \ {i} : 2 * reach[i] >= 3 * reach[j]
    BY <2>4, <2>8 DEF Quick!Dominant
  <2>10. QED
    BY <2>7, <2>9
<1>6. QED
  BY <1>4, <1>5

LEMMA QuickStarts == Quick!Init => QuickInv
<1> SUFFICES ASSUME Quick!Init PROVE QuickInv
  OBVIOUS
<1>1. /\ device \in Quick!Devices /\ drained = FALSE /\ batch = Nil /\ connected = TRUE
      /\ quickAxes = Quick!Zeros.axes /\ quickButtons = Quick!Zeros.buttons
      /\ bindings = [c \in Quicks |-> Quick!Unsupported]
      /\ armed = Nil /\ window = Nil /\ status = "idle" /\ replaced = {} /\ pressed = {}
      /\ atArm = device /\ settled = FALSE /\ reach = Quick!Zeros.axes /\ struck = {}
  BY DEF Quick!Init
<1>2. \A c \in Quicks : bindings[c] = Quick!Unsupported
                        /\ bindings[c] \in Quick!BindingsOf(c)
  BY <1>1, QuickBindings
<1>3. bindings \in [Quicks -> Quick!Bindings]
  BY <1>1, <1>2 DEF Quick!Bindings
<1>4. /\ quickAxes \in [Axes -> QuickPositions] /\ quickButtons \in [Buttons -> {0, 1}]
      /\ reach \in [Axes -> Nat]
  BY <1>1, ZerosAreADevice DEF Quick!Devices
<1>5. Quick!TypeOK
  BY <1>1, <1>2, <1>3, <1>4 DEF Quick!TypeOK
<1>6. Quick!DraftConflictFree
  BY <1>2, QuickConflictFacts DEF Quick!DraftConflictFree, Quick!ConflictFree
<1>7. SeenByTheEngine /\ ArmedHasAWindow /\ WindowMeasures
  BY <1>1 DEF SeenByTheEngine, ArmedHasAWindow, WindowMeasures
<1>8. QED
  BY <1>5, <1>6, <1>7 DEF QuickInv

LEMMA QuickKept == ASSUME QuickInv, [Quick!Next]_quickVars PROVE QuickInv'
<1>1. CASE UNCHANGED quickVars
  BY <1>1
  DEF quickVars, QuickInv, Quick!TypeOK, Quick!DraftConflictFree, Quick!ConflictFree,
      SeenByTheEngine, ArmedHasAWindow, WindowMeasures, Went
<1>2. CASE Quick!Next
  BY <1>2, ArmKeeps, DrainKeeps, ObserveKeeps DEF Quick!Next, Quick!Pump
<1>3. QED
  BY <1>1, <1>2

-----------------------------------------------------------------------------
(* The guided calibration *)

LEMMA GuidedConflictFacts ==
    ASSUME NEW c, NEW d, NEW b, NEW e
    PROVE  /\ Guided!Conflict(c, b, d, e) <=> Guided!Conflict(d, e, c, b)
           /\ ~ Guided!Conflict(c, b, d, Guided!Unsupported)
           /\ ~ Guided!Conflict(c, b, d, Guided!Unbound)
<1>1. {c, d} = {d, c}
  OBVIOUS
<1>2. QED
  BY <1>1
  DEF Guided!Conflict, Guided!HatClash, Guided!Analog, Guided!Digital, Guided!Hat,
      Guided!Unsupported, Guided!Unbound

LEMMA GuidedKinds ==
    ASSUME NEW c
    PROVE  /\ c \in Guided!StickControls =>
                /\ c \notin Guided!TriggerControls \cup Guided!ButtonControls
                /\ Guided!BindingsOf(c) = {Guided!Unsupported} \cup Guided!OnAxis("stick")
           /\ c \in Guided!TriggerControls =>
                /\ c \notin Guided!ButtonControls
                /\ Guided!BindingsOf(c) = {Guided!Unsupported} \cup Guided!OnAxis("axisTrigger")
                                            \cup Guided!OnButton("buttonTrigger")
           /\ c \in Guided!ButtonControls =>
                Guided!BindingsOf(c) = {Guided!Unsupported} \cup Guided!OnButton("button")
           /\ c \notin Guided!StickControls \cup Guided!TriggerControls
                         \cup Guided!ButtonControls =>
                Guided!BindingsOf(c) = {Guided!Unsupported} \cup Guided!OnAxis("axisDpad")
                                            \cup Guided!OnButton("button")
<1>1. /\ c \in Guided!StickControls =>
            c \notin Guided!TriggerControls \cup Guided!ButtonControls
      /\ c \in Guided!TriggerControls => c \notin Guided!ButtonControls
  BY DEF Guided!StickControls, Guided!TriggerControls, Guided!ButtonControls
<1>2. CASE c \in Guided!StickControls
  BY <1>1, <1>2, Zenon DEF Guided!BindingsOf
<1>3. CASE c \in Guided!TriggerControls
  BY <1>1, <1>3 DEF Guided!BindingsOf
<1>4. CASE c \in Guided!ButtonControls
  BY <1>1, <1>4 DEF Guided!BindingsOf
<1>5. CASE c \notin Guided!StickControls \cup Guided!TriggerControls
                     \cup Guided!ButtonControls
  BY <1>5 DEF Guided!BindingsOf
<1>6. QED
  BY <1>1, <1>2, <1>3, <1>4, <1>5

\* A source is an axis or a button.
LEMMA SourceFacts ==
    ASSUME NEW s \in Guided!Sources
    PROVE  \/ s[1] = "axis" /\ s[2] \in Axes /\ s = <<"axis", s[2]>>
           \/ s[1] = "button" /\ s[2] \in Buttons /\ s = <<"button", s[2]>>
  BY DEF Guided!Sources

LEMMA SourcesAre ==
    /\ \A i \in Axes : <<"axis", i>> \in Guided!Sources
    /\ \A i \in Buttons : <<"button", i>> \in Guided!Sources
  BY DEF Guided!Sources

\* What a source is bound to.
LEMMA BindingForIs ==
    ASSUME NEW c, NEW s \in Guided!Sources, NEW lo, NEW hi
    PROVE  /\ s[1] = "button" =>
                Guided!BindingFor(c, s, lo, hi) =
                   [kind |-> IF c \in Guided!TriggerControls THEN "buttonTrigger" ELSE "button",
                    index |-> s[2], direction |-> "positive"]
           /\ s[1] = "axis" /\ c \in Guided!StickControls =>
                Guided!BindingFor(c, s, lo, hi) =
                   [kind |-> "stick", index |-> s[2],
                    direction |-> IF c \in {"left_y", "right_y"} THEN "negative" ELSE "positive"]
           /\ s[1] = "axis" /\ c \notin Guided!StickControls /\ c \in Guided!TriggerControls =>
                Guided!BindingFor(c, s, lo, hi) =
                   [kind |-> "axisTrigger", index |-> s[2],
                    direction |-> IF centers[s[2]] - lo[s[2]] > hi[s[2]] - centers[s[2]]
                                  THEN "negative" ELSE "positive"]
           /\ s[1] = "axis" /\ c \notin Guided!StickControls
                            /\ c \notin Guided!TriggerControls =>
                Guided!BindingFor(c, s, lo, hi) =
                   [kind |-> "axisDpad", index |-> s[2],
                    direction |-> IF centers[s[2]] - lo[s[2]] >= hi[s[2]] - centers[s[2]]
                                  THEN "negative" ELSE "positive"]
<1>1. CASE s[1] = "button"
  BY <1>1 DEF Guided!BindingFor
<1>2. CASE s[1] = "axis" /\ c \in Guided!StickControls
  <2>1. c \notin Guided!TriggerControls
    BY <1>2, GuidedKinds
  <2>2. QED
    BY <1>2, <2>1 DEF Guided!BindingFor
<1>3. CASE s[1] = "axis" /\ c \notin Guided!StickControls /\ c \in Guided!TriggerControls
  BY <1>3 DEF Guided!BindingFor
<1>4. CASE s[1] = "axis" /\ c \notin Guided!StickControls /\ c \notin Guided!TriggerControls
  BY <1>4 DEF Guided!BindingFor
<1>5. QED
  BY <1>1, <1>2, <1>3, <1>4, SourceFacts

\* ... is a binding its control admits, of that source.
LEMMA BindingForIsAdmitted ==
    ASSUME NEW c \in Guides, NEW s \in Guided!Sources, NEW lo, NEW hi,
           s[1] = "axis" => Guided!ReadsAxes(c),
           s[1] = "button" => Guided!ReadsButtons(c)
    PROVE  /\ Guided!BindingFor(c, s, lo, hi) \in Guided!BindingsOf(c) \ {Guided!Unsupported}
           /\ Guided!BindingFor(c, s, lo, hi).index = s[2]
           /\ Guided!Digital(Guided!BindingFor(c, s, lo, hi)) <=> s[1] = "button"
           /\ Guided!BindingFor(c, s, lo, hi).kind = "stick"
                <=> s[1] = "axis" /\ c \in Guided!StickControls
<1>1. CASE s[1] = "button"
  <2>1. s[2] \in Buttons /\ c \notin Guided!StickControls
    BY <1>1, SourceFacts DEF Guided!ReadsButtons
  <2>2. Guided!BindingFor(c, s, lo, hi) =
           [kind |-> IF c \in Guided!TriggerControls THEN "buttonTrigger" ELSE "button",
            index |-> s[2], direction |-> "positive"]
    BY <1>1, BindingForIs
  <2>3. QED
    BY <1>1, <2>1, <2>2, GuidedKinds DEF Guided!OnButton, Guided!Digital, Guided!Unsupported
<1>2. CASE s[1] = "axis" /\ c \in Guided!StickControls
  <2>1. s[2] \in Axes
    BY <1>2, SourceFacts
  <2>2. PICK dir \in Guided!Directions :
          Guided!BindingFor(c, s, lo, hi) =
             [kind |-> "stick", index |-> s[2], direction |-> dir]
    BY <1>2, BindingForIs DEF Guided!Directions
  <2>3. QED
    BY <1>2, <2>1, <2>2, GuidedKinds DEF Guided!OnAxis, Guided!Digital, Guided!Unsupported
<1>3. CASE s[1] = "axis" /\ c \notin Guided!StickControls /\ c \in Guided!TriggerControls
  <2>1. s[2] \in Axes
    BY <1>3, SourceFacts
  <2>2. PICK dir \in Guided!Directions :
          Guided!BindingFor(c, s, lo, hi) =
             [kind |-> "axisTrigger", index |-> s[2], direction |-> dir]
    BY <1>3, BindingForIs DEF Guided!Directions
  <2>3. QED
    BY <1>3, <2>1, <2>2, GuidedKinds DEF Guided!OnAxis, Guided!Digital, Guided!Unsupported
<1>4. CASE s[1] = "axis" /\ c \notin Guided!StickControls /\ c \notin Guided!TriggerControls
  <2>1. s[2] \in Axes /\ c \notin Guided!ButtonControls
    BY <1>4, SourceFacts DEF Guided!ReadsAxes
  <2>2. PICK dir \in Guided!Directions :
          Guided!BindingFor(c, s, lo, hi) =
             [kind |-> "axisDpad", index |-> s[2], direction |-> dir]
    BY <1>4, BindingForIs DEF Guided!Directions
  <2>3. QED
    BY <1>4, <2>1, <2>2, GuidedKinds DEF Guided!OnAxis, Guided!Digital, Guided!Unsupported
<1>5. QED
  BY <1>1, <1>2, <1>3, <1>4, SourceFacts

LEMMA GuidedNumbers ==
    ASSUME NEW m \in Int, NEW n \in Int
    PROVE  /\ Guided!Larger(m, n) \in {m, n} /\ m <= Guided!Larger(m, n)
           /\ n <= Guided!Larger(m, n)
           /\ Guided!Smaller(m, n) \in {m, n} /\ Guided!Smaller(m, n) <= m
           /\ Guided!Smaller(m, n) <= n
           /\ Guided!Abs(m) \in Nat /\ m <= Guided!Abs(m) /\ -m <= Guided!Abs(m)
           /\ Guided!Abs(m) \in {m, -m}
  BY DEF Guided!Larger, Guided!Smaller, Guided!Abs

LEMMA GuidedValues ==
    ASSUME Guided!TypeOK, NEW i \in Axes
    PROVE  /\ centers[i] \in Positions \cup {0} /\ rawAxes[i] \in Positions \cup {0}
           /\ least[i] \in Positions \cup {0} /\ most[i] \in Positions \cup {0}
           /\ visited[i] \subseteq Positions \cup {0}
           /\ Positions \cup {0} \subseteq Int
           /\ noise[i] \in Nat /\ Guided!Minimum(i) \in Nat
           /\ MinExcursion <= Guided!Minimum(i) /\ 2 <= Guided!Minimum(i)
           /\ Guided!Excursion(rawAxes, i) \in Nat
<1>1. /\ centers[i] \in Positions \cup {0} /\ rawAxes[i] \in Positions \cup {0}
      /\ least[i] \in Positions \cup {0} /\ most[i] \in Positions \cup {0}
      /\ visited[i] \subseteq Positions \cup {0} /\ noise[i] \in Nat
  BY DEF Guided!TypeOK
<1>2. Positions \cup {0} \subseteq Int
  BY MappingConstants
<1>3. MinExcursion \in Nat /\ 2 <= MinExcursion
  BY MappingConstants
<1>4. /\ Guided!Minimum(i) \in Nat
      /\ MinExcursion <= Guided!Minimum(i) /\ 2 <= Guided!Minimum(i)
  <2>1. 4 * noise[i] \in Nat
    BY <1>1
  <2>2. QED
    BY <1>3, <2>1 DEF Guided!Minimum, Guided!Larger
<1>5. Guided!Excursion(rawAxes, i) \in Nat
  BY <1>1, <1>2, GuidedNumbers DEF Guided!Excursion
<1>6. QED
  BY <1>1, <1>2, <1>3, <1>4, <1>5

\* The farthest an axis was from its centre is what its score says.
LEMMA FarthestIsTheScore ==
    ASSUME Guided!TypeOK, Remembered, NEW i \in Axes, centers[i] \in visited[i]
    PROVE  /\ Guided!Farthest(i) = Guided!Score(least, most, <<"axis", i>>)
           /\ Guided!Farthest(i) \in Nat
           /\ Guided!Farthest(i) = Guided!Larger(centers[i] - least[i], most[i] - centers[i])
           /\ \A v \in visited[i] : Guided!Abs(v - centers[i]) <= Guided!Farthest(i)
<1> DEFINE under == centers[i] - least[i]
           over == most[i] - centers[i]
           far == {Guided!Abs(v - centers[i]) : v \in visited[i]}
<1>1. /\ centers[i] \in Int /\ least[i] \in Int /\ most[i] \in Int /\ visited[i] \subseteq Int
  BY GuidedValues
<1>2. /\ least[i] \in visited[i] /\ most[i] \in visited[i]
      /\ \A v \in visited[i] : least[i] <= v /\ v <= most[i]
  BY DEF Remembered
<1>3. /\ least[i] <= centers[i] /\ centers[i] <= most[i]
  BY <1>2
<1>4. Guided!Abs(least[i] - centers[i]) = under /\ Guided!Abs(most[i] - centers[i]) = over
  BY <1>1, <1>3 DEF Guided!Abs
<1>5. Guided!Larger(under, over) \in far
  BY <1>1, <1>2, <1>4, GuidedNumbers
<1>6. \A v \in visited[i] : Guided!Abs(v - centers[i]) <= Guided!Larger(under, over)
  BY <1>1, <1>2, <1>3 DEF Guided!Abs, Guided!Larger
<1>7. Guided!Larger(under, over) \in Nat /\ far \subseteq Nat
  <2>1. under \in Nat /\ over \in Nat
    BY <1>1, <1>3
  <2>2. \A v \in visited[i] : Guided!Abs(v - centers[i]) \in Nat
    BY <1>1, GuidedNumbers
  <2>3. QED
    BY <2>1, <2>2 DEF Guided!Larger
<1>8. Guided!Farthest(i) = CHOOSE n \in far : \A v \in visited[i] : Guided!Abs(v - centers[i]) <= n
  BY DEF Guided!Farthest
<1>9. /\ Guided!Farthest(i) \in far
      /\ \A v \in visited[i] : Guided!Abs(v - centers[i]) <= Guided!Farthest(i)
  BY <1>5, <1>6, <1>8
<1>10. Guided!Farthest(i) = Guided!Larger(under, over)
  <2>1. PICK v \in visited[i] : Guided!Farthest(i) = Guided!Abs(v - centers[i])
    BY <1>9
  <2>2. Guided!Farthest(i) <= Guided!Larger(under, over)
    BY <1>6, <2>1
  <2>3. PICK w \in visited[i] : Guided!Larger(under, over) = Guided!Abs(w - centers[i])
    BY <1>5
  <2>4. Guided!Larger(under, over) <= Guided!Farthest(i)
    BY <1>9, <2>3
  <2>5. Guided!Farthest(i) \in Nat
    BY <1>7, <1>9
  <2>6. QED
    BY <1>7, <2>2, <2>4, <2>5
<1>11. Guided!Score(least, most, <<"axis", i>>) = Guided!Larger(under, over)
  BY <1>4 DEF Guided!Score
<1>12. QED
  BY <1>7, <1>9, <1>10, <1>11

\* What the strongest source is.
LEMMA StrongestFacts ==
    ASSUME NEW c, NEW a, NEW b, NEW s \in Guided!Strongest(c, a, b)
    PROVE  /\ s \in Guided!Sources /\ s \in Guided!Current(c, a, b)
           /\ s[1] = "axis" => /\ Guided!ReadsAxes(c)
                               /\ Guided!Excursion(a, s[2]) > Guided!Minimum(s[2])
           /\ s[1] = "button" => Guided!ReadsButtons(c) /\ b[s[2]] # base[s[2]]
<1>1. s \in Guided!Current(c, a, b)
  BY DEF Guided!Strongest
<1>2. s \in Guided!Sources
  BY <1>1 DEF Guided!Current
<1>3. QED
  BY <1>1, <1>2, SourceFacts DEF Guided!Current

\* No axis that counts is ranked below the strongest when it went farther.
LEMMA StrongestIsFarthest ==
    ASSUME Guided!TypeOK, NEW c, NEW s \in Guided!Strongest(c, rawAxes, rawButtons),
           s[1] = "axis", NEW j \in Axes,
           Guided!Excursion(rawAxes, j) > Guided!Excursion(rawAxes, s[2])
    PROVE  Guided!Excursion(rawAxes, j) <= Guided!Minimum(j)
<1> DEFINE r == <<"axis", j>>
<1> SUFFICES ASSUME ~(Guided!Excursion(rawAxes, j) <= Guided!Minimum(j)) PROVE FALSE
  OBVIOUS
<1>1. s[2] \in Axes /\ Guided!ReadsAxes(c)
  BY StrongestFacts, SourceFacts
<1>2. /\ Guided!Excursion(rawAxes, j) \in Nat /\ Guided!Minimum(j) \in Nat
      /\ Guided!Excursion(rawAxes, s[2]) \in Nat
  BY <1>1, GuidedValues
<1>3. r \in Guided!Sources /\ r[1] = "axis" /\ r[2] = j
  BY SourcesAre
<1>4. r \in Guided!Current(c, rawAxes, rawButtons)
  BY <1>1, <1>2, <1>3 DEF Guided!Current
<1>5. \/ Guided!Strength(rawAxes, s) > Guided!Strength(rawAxes, r)
      \/ Guided!Strength(rawAxes, s) = Guided!Strength(rawAxes, r)
  BY <1>4 DEF Guided!Strongest
<1>6. /\ Guided!Strength(rawAxes, s) = Guided!Excursion(rawAxes, s[2])
      /\ Guided!Strength(rawAxes, r) = Guided!Excursion(rawAxes, j)
  BY <1>3 DEF Guided!Strength
<1>7. QED
  BY <1>2, <1>5, <1>6

\* A ranking is the same when the device at rest and the control are.
LEMMA RankingStays ==
    ASSUME centers' = centers, noise' = noise, base' = base, control' = control
    PROVE  /\ Guided!Strongest(control, rawAxes, rawButtons)'
                = Guided!Strongest(control, rawAxes', rawButtons')
           /\ \A s : /\ Guided!Complete(control, s, least, most)'
                          <=> Guided!Complete(control, s, least', most')
                     /\ Guided!BindingFor(control, s, least, most)'
                          = Guided!BindingFor(control, s, least', most')
                     /\ Guided!Rivals(control, s, least, most, changed)'
                          = Guided!Rivals(control, s, least', most', changed')
<1>1. Guided!Strongest(control, rawAxes, rawButtons)'
        = Guided!Strongest(control, rawAxes', rawButtons')
  BY DEF Guided!Strongest, Guided!Current, Guided!Strength, Guided!Excursion, Guided!Minimum
<1>2. ASSUME NEW s
      PROVE  /\ Guided!Complete(control, s, least, most)'
                          <=> Guided!Complete(control, s, least', most')
             /\ Guided!Rivals(control, s, least, most, changed)'
                          = Guided!Rivals(control, s, least', most', changed')
  BY DEF Guided!Complete, Guided!Rivals, Guided!Historical, Guided!Score, Guided!Minimum
<1>3. ASSUME NEW s
      PROVE  Guided!BindingFor(control, s, least, most)'
                = Guided!BindingFor(control, s, least', most')
  BY DEF Guided!BindingFor
<1>4. QED
  BY <1>1, <1>2, <1>3

LEMMA DraftCompletes == GuidedInv => Guided!CompleteDraftIsUsable
  BY DEF GuidedInv, DraftIsSound, Guided!CompleteDraftIsUsable, Guided!Usable, Guided!Missing

\* What is offered, and the source it was made of.
LEMMA OfferFacts ==
    ASSUME GuidedInv, candidate # Nil
    PROVE  \E s \in Guided!Strongest(control, rawAxes, rawButtons) :
              /\ s \in Guided!Sources /\ candidate.binding.index = s[2]
              /\ candidate.binding = Guided!BindingFor(control, s, least, most)
              /\ Guided!Complete(control, s, least, most)
              /\ candidate.ambiguous =
                    (Guided!Rivals(control, s, least, most, changed) # {})
              /\ candidate.binding \in Guided!BindingsOf(control) \ {Guided!Unsupported}
              /\ Guided!Digital(candidate.binding) <=> s[1] = "button"
              /\ candidate.binding.kind = "stick"
                   <=> s[1] = "axis" /\ control \in Guided!StickControls
              /\ control \in Guides /\ state = "capturing"
<1>1. state = "capturing" /\ control \in Guides
  BY MappingConstants
  DEF GuidedInv, GuidedTypes, OfferIsCurrent, Guided!SessionFollowsEngine, Guided!TypeOK
<1>2. PICK s \in Guided!Strongest(control, rawAxes, rawButtons) :
         /\ Guided!Complete(control, s, least, most)
         /\ candidate.binding = Guided!BindingFor(control, s, least, most)
         /\ candidate.ambiguous = (Guided!Rivals(control, s, least, most, changed) # {})
  BY DEF GuidedInv, OfferIsCurrent
<1>3. /\ s \in Guided!Sources
      /\ s[1] = "axis" => Guided!ReadsAxes(control)
      /\ s[1] = "button" => Guided!ReadsButtons(control)
  BY StrongestFacts
<1>4. QED
  <2>1. /\ candidate.binding \in Guided!BindingsOf(control) \ {Guided!Unsupported}
        /\ candidate.binding.index = s[2]
        /\ Guided!Digital(candidate.binding) <=> s[1] = "button"
        /\ candidate.binding.kind = "stick"
             <=> s[1] = "axis" /\ control \in Guided!StickControls
    BY <1>1, <1>2, <1>3, BindingForIsAdmitted
  <2>2. QED
    BY <1>1, <1>2, <1>3, <2>1

LEMMA OfferHolds == GuidedInv => Guided!OfferIsHeld
<1> SUFFICES ASSUME GuidedInv, candidate # Nil
             PROVE  LET b == candidate.binding
                    IN IF Guided!Digital(b) THEN rawButtons[b.index] # base[b.index]
                       ELSE /\ Guided!Excursion(rawAxes, b.index) > MinExcursion
                            /\ \A j \in Axes :
                                  Guided!Excursion(rawAxes, j) > Guided!Excursion(rawAxes, b.index)
                                  => Guided!Excursion(rawAxes, j) <= Guided!Minimum(j)
                            /\ b.kind = "stick" =>
                                  \E v, w \in visited[b.index] :
                                     /\ centers[b.index] - v >= FullRange
                                     /\ w - centers[b.index] >= FullRange
                            /\ b.kind # "stick" =>
                                  \E v \in visited[b.index] :
                                     /\ Guided!Abs(v - centers[b.index]) = Guided!Farthest(b.index)
                                     /\ b.direction = IF v < centers[b.index] THEN "negative"
                                                      ELSE "positive"
  BY DEF Guided!OfferIsHeld
<1>1. PICK s \in Guided!Strongest(control, rawAxes, rawButtons) :
              /\ s \in Guided!Sources /\ candidate.binding.index = s[2]
              /\ candidate.binding = Guided!BindingFor(control, s, least, most)
              /\ Guided!Complete(control, s, least, most)
              /\ Guided!Digital(candidate.binding) <=> s[1] = "button"
              /\ candidate.binding.kind = "stick"
                   <=> s[1] = "axis" /\ control \in Guided!StickControls
              /\ control \in Guides /\ state = "capturing"
  BY OfferFacts
<1> DEFINE b == candidate.binding
           i == s[2]
<1>2. CASE s[1] = "button"
  BY <1>1, <1>2, StrongestFacts
<1>3. CASE s[1] = "axis"
  <2>1. ~ Guided!Digital(b) /\ i \in Axes
    BY <1>1, <1>3, SourceFacts
  <2>2. Guided!TypeOK /\ Remembered /\ centers[i] \in visited[i] /\ rawAxes[i] \in visited[i]
    BY <1>1, <2>1 DEF GuidedInv, GuidedTypes, Remembered, OfferIsCurrent
  <2>3. Guided!Excursion(rawAxes, i) > Guided!Minimum(i)
    BY <1>1, <1>3, StrongestFacts
  <2>4. /\ Guided!Minimum(i) \in Nat /\ MinExcursion <= Guided!Minimum(i)
        /\ Guided!Excursion(rawAxes, i) \in Nat
        /\ MinExcursion \in Nat
    BY <2>1, <2>2, GuidedValues, MappingConstants
  <2>5. Guided!Excursion(rawAxes, i) > MinExcursion /\ Guided!Excursion(rawAxes, i) > 0
    BY <2>3, <2>4
  <2>6. \A j \in Axes : Guided!Excursion(rawAxes, j) > Guided!Excursion(rawAxes, i)
                        => Guided!Excursion(rawAxes, j) <= Guided!Minimum(j)
    BY <1>1, <1>3, <2>2, StrongestIsFarthest
  <2>7. /\ least[i] \in visited[i] /\ most[i] \in visited[i]
        /\ least[i] <= centers[i] /\ centers[i] <= most[i]
    BY <2>1, <2>2 DEF Remembered
  <2>8. centers[i] \in Int /\ least[i] \in Int /\ most[i] \in Int
    BY <2>1, <2>2, GuidedValues
  <2>9. b.kind = "stick" =>
           \E v, w \in visited[i] :
              centers[i] - v >= FullRange /\ w - centers[i] >= FullRange
    BY <1>1, <1>3, <2>7 DEF Guided!Complete
  <2>10. ASSUME b.kind # "stick"
         PROVE  \E v \in visited[i] :
                  /\ Guided!Abs(v - centers[i]) = Guided!Farthest(i)
                  /\ b.direction = IF v < centers[i] THEN "negative" ELSE "positive"
    <3> DEFINE under == centers[i] - least[i]
               over == most[i] - centers[i]
    <3>1. /\ Guided!Farthest(i) = Guided!Larger(under, over)
          /\ Guided!Farthest(i) >= Guided!Excursion(rawAxes, i)
      BY <2>1, <2>2, FarthestIsTheScore DEF Guided!Excursion
    <3>2. under \in Nat /\ over \in Nat /\ (under > 0 \/ over > 0)
      BY <2>4, <2>5, <2>7, <2>8, <3>1 DEF Guided!Larger
    <3>3. \/ b.direction = IF under > over THEN "negative" ELSE "positive"
          \/ b.direction = IF under >= over THEN "negative" ELSE "positive"
      BY <1>1, <1>3, <2>10, BindingForIs
    <3>4. CASE b.direction = "negative"
      <4>1. under >= over /\ under > 0
        BY <3>2, <3>3, <3>4
      <4>2. /\ Guided!Abs(least[i] - centers[i]) = under
            /\ Guided!Larger(under, over) = under /\ least[i] < centers[i]
        BY <2>8, <3>2, <4>1 DEF Guided!Abs, Guided!Larger
      <4>3. QED
        BY <2>7, <3>1, <3>4, <4>2
    <3>5. CASE b.direction = "positive"
      <4>1. over >= under
        BY <3>2, <3>3, <3>5
      <4>2. /\ Guided!Abs(most[i] - centers[i]) = over
            /\ Guided!Larger(under, over) = over /\ ~(most[i] < centers[i])
        BY <2>8, <3>2, <4>1 DEF Guided!Abs, Guided!Larger
      <4>3. QED
        BY <2>7, <3>1, <3>5, <4>2
    <3>6. QED
      BY <3>3, <3>4, <3>5
  <2>11. QED
    BY <1>1, <2>1, <2>5, <2>6, <2>9, <2>10
<1>4. QED
  BY <1>1, <1>2, <1>3, SourceFacts

\* A confirmation binds a source nothing rivals.
LEMMA ConfirmIsUnrivalled ==
    ASSUME GuidedInv, NEW c \in Guides, control = c, Guided!Confirm
    PROVE  LET b == draft'[c]
               moved == {j \in Axes : Guided!ReadsAxes(c)
                                      /\ Guided!Farthest(j) > Guided!Minimum(j)}
           IN IF Guided!Digital(b) THEN moved = {} /\ changed = {b.index}
              ELSE \A j \in moved \ {b.index} :
                      2 * Guided!Farthest(b.index) >= 3 * Guided!Farthest(j)
<1> DEFINE b == candidate.binding
           moved == {j \in Axes : Guided!ReadsAxes(c) /\ Guided!Farthest(j) > Guided!Minimum(j)}
<1>1. /\ state = "capturing" /\ candidate # Nil /\ candidate.ambiguous = FALSE
      /\ draft' = [draft EXCEPT ![c] = b]
  BY DEF Guided!Confirm, Guided!Conclude, GuidedInv, GuidedTypes, Guided!TypeOK
<1>2. /\ Guided!TypeOK /\ Remembered /\ (\A i \in Axes : centers[i] \in visited[i])
      /\ (\A i \in Buttons : rawButtons[i] # base[i] => i \in changed)
      /\ changed \subseteq Buttons
  BY <1>1 DEF GuidedInv, GuidedTypes, Remembered, OfferIsCurrent, Guided!TypeOK
<1>3. draft'[c] = b
  BY <1>1 DEF GuidedInv, GuidedTypes
<1>4. PICK s \in Guided!Strongest(control, rawAxes, rawButtons) :
              /\ s \in Guided!Sources /\ b.index = s[2]
              /\ candidate.ambiguous =
                    (Guided!Rivals(control, s, least, most, changed) # {})
              /\ Guided!Digital(b) <=> s[1] = "button"
  BY <1>1, OfferFacts
<1>5. Guided!Rivals(c, s, least, most, changed) = {}
  BY <1>1, <1>4
<1>6. \A r \in Guided!Historical(c, least, most, changed) \ {s} :
         ~(2 * Guided!Score(least, most, s) < 3 * Guided!Score(least, most, r))
  BY <1>5 DEF Guided!Rivals
<1>7. \A j \in Axes : /\ Guided!Score(least, most, <<"axis", j>>) = Guided!Farthest(j)
                      /\ Guided!Farthest(j) \in Nat
                      /\ Guided!Minimum(j) \in Nat /\ 2 <= Guided!Minimum(j)
  BY <1>2, FarthestIsTheScore, GuidedValues
<1>8. \A j \in moved : <<"axis", j>> \in Guided!Historical(c, least, most, changed)
  BY <1>7, SourcesAre DEF Guided!Historical
<1>9. CASE s[1] = "button"
  <2>1. Guided!Score(least, most, s) = 1 /\ s[2] \in changed /\ Guided!ReadsButtons(c)
        /\ s = <<"button", s[2]>> /\ s[2] \in Buttons
    BY <1>2, <1>9, StrongestFacts, SourceFacts DEF Guided!Score
  <2>2. ASSUME NEW j \in moved PROVE FALSE
    <3>1. ~(2 * 1 < 3 * Guided!Farthest(j))
      <4>1. <<"axis", j>> # s
        BY <1>9
      <4>2. QED
        BY <1>6, <1>7, <1>8, <2>1, <4>1
    <3>2. Guided!Farthest(j) \in Nat /\ Guided!Farthest(j) > 2
      <4>1. j \in Axes /\ Guided!Farthest(j) > Guided!Minimum(j)
        OBVIOUS
      <4>2. Guided!Minimum(j) \in Nat /\ 2 <= Guided!Minimum(j) /\ Guided!Farthest(j) \in Nat
        BY <1>7, <4>1
      <4>3. QED
        BY <4>1, <4>2
    <3>3. QED
      BY <3>1, <3>2
  <2>3. ASSUME NEW k \in changed PROVE k = s[2]
    <3>1. SUFFICES ASSUME k # s[2] PROVE FALSE
      OBVIOUS
    <3>2. <<"button", k>> \in Guided!Historical(c, least, most, changed)
      BY <1>2, <2>1, SourcesAre DEF Guided!Historical
    <3>3. <<"button", k>> # s /\ Guided!Score(least, most, <<"button", k>>) = 1
      BY <3>1 DEF Guided!Score
    <3>4. QED
      BY <1>6, <2>1, <3>2, <3>3
  <2>4. moved = {} /\ changed = {b.index}
    BY <1>4, <2>1, <2>2, <2>3
  <2>5. QED
    BY <1>3, <1>4, <1>9, <2>4
<1>10. CASE s[1] = "axis"
  <2>1. s[2] \in Axes /\ s = <<"axis", s[2]>>
    BY <1>4, <1>10, SourceFacts
  <2>2. ASSUME NEW j \in moved \ {s[2]}
        PROVE  2 * Guided!Farthest(s[2]) >= 3 * Guided!Farthest(j)
    <3>1. <<"axis", j>> \in Guided!Historical(c, least, most, changed) \ {s}
      <4>1. <<"axis", j>> # s
        BY <2>1
      <4>2. QED
        BY <1>8, <4>1
    <3>2. ~(2 * Guided!Score(least, most, s) < 3 * Guided!Score(least, most, <<"axis", j>>))
      BY <1>6, <3>1
    <3>3. /\ Guided!Score(least, most, s) = Guided!Farthest(s[2])
          /\ Guided!Score(least, most, <<"axis", j>>) = Guided!Farthest(j)
          /\ Guided!Farthest(s[2]) \in Nat /\ Guided!Farthest(j) \in Nat
      BY <1>7, <2>1
    <3>4. QED
      BY <3>2, <3>3
  <2>3. ~ Guided!Digital(b)
    BY <1>4, <1>10
  <2>4. QED
    BY <1>3, <1>4, <2>2, <2>3
<1>11. QED
  BY <1>4, <1>9, <1>10, SourceFacts

\* A binding of one more control keeps the draft free of conflicts, when no
\* other claims its source, and leaves no required control given up.
LEMMA SoundKept ==
    ASSUME GuidedTypes, DraftIsSound, NEW c \in Guides,
           NEW b \in Guided!BindingsOf(c) \cup {Guided!Unbound},
           Guided!Available(c, b), c \in Guided!Required => b # Guided!Unsupported,
           draft' = [draft EXCEPT ![c] = b]
    PROVE  /\ DraftIsSound'
           /\ draft' \in [Guides -> Guided!Bindings \cup {Guided!Unbound}]
           /\ \A d \in Guides : draft'[d] \in Guided!BindingsOf(d) \cup {Guided!Unbound}
<1>1. /\ draft \in [Guides -> Guided!Bindings \cup {Guided!Unbound}]
      /\ \A d \in Guides : draft[d] \in Guided!BindingsOf(d) \cup {Guided!Unbound}
  BY DEF GuidedTypes, Guided!TypeOK
<1>2. b \in Guided!Bindings \cup {Guided!Unbound}
  BY DEF Guided!Bindings
<1>3. draft'[c] = b /\ \A d \in Guides \ {c} : draft'[d] = draft[d]
  BY <1>1
<1>4. /\ draft' \in [Guides -> Guided!Bindings \cup {Guided!Unbound}]
      /\ \A d \in Guides : draft'[d] \in Guided!BindingsOf(d) \cup {Guided!Unbound}
  BY <1>1, <1>2, <1>3
<1>5. Guided!Required \subseteq Guides
  BY DEF Guided!Required
<1>6. \A d \in Guided!Required : draft'[d] # Guided!Unsupported
  BY <1>3, <1>5 DEF DraftIsSound
<1>7. ASSUME NEW d \in Guides, NEW e \in Guides, d # e
      PROVE  ~ Guided!Conflict(d, draft'[d], e, draft'[e])
  <2>1. CASE d = c
    BY <1>3, <1>7, <2>1 DEF Guided!Available
  <2>2. CASE e = c
    <3>1. ~ Guided!Conflict(c, b, d, draft[d]) /\ draft'[d] = draft[d] /\ draft'[e] = b
      BY <1>3, <1>7, <2>2 DEF Guided!Available
    <3>2. Guided!Conflict(c, b, d, draft[d]) <=> Guided!Conflict(d, draft[d], c, b)
      BY GuidedConflictFacts
    <3>3. QED
      BY <2>2, <3>1, <3>2
  <2>3. CASE d # c /\ e # c
    BY <1>3, <1>7, <2>3 DEF DraftIsSound, Guided!ConflictFree
  <2>4. QED
    BY <2>1, <2>2, <2>3
<1>8. Guided!ConflictFree(draft)'
  BY <1>7 DEF Guided!ConflictFree
<1>9. QED
  BY <1>4, <1>6, <1>8 DEF DraftIsSound

\* The end of a step keeps the invariant.
LEMMA ConcludeKeeps ==
    ASSUME GuidedInv, NEW c \in Guides, NEW b \in Guided!BindingsOf(c),
           Guided!Available(c, b), c \in Guided!Required => b # Guided!Unsupported,
           Guided!Conclude(c, b), state # "disconnected"
    PROVE  GuidedInv'
<1>1. /\ draft' = [draft EXCEPT ![c] = b]
      /\ state' = "review" /\ control' = Nil /\ candidate' = Nil /\ engaged' = Nil
      /\ template' = template /\ centers' = centers /\ noise' = noise /\ base' = base
      /\ rawAxes' = rawAxes /\ rawButtons' = rawButtons
      /\ least' = least /\ most' = most /\ changed' = changed /\ stable' = stable
      /\ count' = count /\ age' = age /\ visited' = visited
  BY DEF Guided!Conclude, Guided!rest, Guided!raw, Guided!capture
<1>2. /\ DraftIsSound'
      /\ draft' \in [Guides -> Guided!Bindings \cup {Guided!Unbound}]
      /\ \A d \in Guides : draft'[d] \in Guided!BindingsOf(d) \cup {Guided!Unbound}
  BY <1>1, SoundKept DEF GuidedInv
<1>3. Guided!TypeOK'
  BY <1>1, <1>2 DEF GuidedInv, GuidedTypes, Guided!TypeOK
<1>4. GuidedTypes'
  BY <1>1, <1>2, <1>3 DEF GuidedTypes
<1>5. Guided!SessionFollowsEngine' /\ OfferIsCurrent'
  BY <1>1 DEF Guided!SessionFollowsEngine, OfferIsCurrent
<1>6. Remembered'
  BY <1>1 DEF GuidedInv, Remembered
<1>7. QED
  BY <1>2, <1>4, <1>5, <1>6 DEF GuidedInv

LEMMA ConfirmKeeps == ASSUME GuidedInv, Guided!Confirm PROVE GuidedInv'
<1>1. /\ candidate # Nil /\ state = "capturing"
      /\ Guided!Available(control, candidate.binding)
      /\ Guided!Conclude(control, candidate.binding)
  BY DEF Guided!Confirm
<1>2. /\ control \in Guides
      /\ candidate.binding \in Guided!BindingsOf(control) \ {Guided!Unsupported}
  BY <1>1, OfferFacts
<1>3. QED
  BY <1>1, <1>2, ConcludeKeeps

LEMMA OverrideKeeps == ASSUME GuidedInv, Guided!Override PROVE GuidedInv'
<1>1. PICK b \in Guided!BindingsOf(control) \ {Guided!Unsupported} :
         Guided!Available(control, b) /\ Guided!Conclude(control, b)
  BY DEF Guided!Override
<1>2. state = "capturing" /\ control \in Guides
  BY MappingConstants
  DEF Guided!Override, GuidedInv, GuidedTypes, Guided!SessionFollowsEngine, Guided!TypeOK
<1>3. QED
  BY <1>1, <1>2, ConcludeKeeps

LEMMA MarkKeeps ==
    ASSUME GuidedInv, NEW c \in Guides, Guided!MarkUnsupported(c) PROVE GuidedInv'
<1>1. /\ state # "disconnected" /\ c \notin Guided!Required
      /\ Guided!Conclude(c, Guided!Unsupported)
  BY DEF Guided!MarkUnsupported
<1>2. Guided!Available(c, Guided!Unsupported)
  BY GuidedConflictFacts DEF Guided!Available
<1>3. Guided!Unsupported \in Guided!BindingsOf(c)
  BY GuidedKinds
<1>4. QED
  BY <1>1, <1>2, <1>3, ConcludeKeeps

\* The beginning of a step.
LEMMA StartKeeps ==
    ASSUME GuidedInv, NEW c \in Guides, Guided!StartCapture(c), state # "disconnected",
           draft' \in [Guides -> Guided!Bindings \cup {Guided!Unbound}],
           \A d \in Guides : draft'[d] \in Guided!BindingsOf(d) \cup {Guided!Unbound},
           DraftIsSound',
           UNCHANGED <<template, centers, noise, base, rawAxes, rawButtons>>
    PROVE  GuidedInv'
<1>1. /\ state' = "capturing" /\ control' = c /\ engaged' = c /\ candidate' = Nil
      /\ least' = centers /\ most' = centers /\ changed' = {}
      /\ stable' = Nil /\ count' = 0 /\ age' = 0
      /\ visited' = [i \in Axes |-> {centers[i]}]
      /\ template' = template /\ centers' = centers /\ noise' = noise /\ base' = base
      /\ rawAxes' = rawAxes /\ rawButtons' = rawButtons
  BY DEF Guided!StartCapture
<1>2. /\ centers \in [Axes -> Positions \cup {0}] /\ noise \in [Axes -> Nat]
      /\ base \in [Buttons -> {0, 1}] /\ rawButtons \in [Buttons -> {0, 1}]
      /\ rawAxes \in [Axes -> Positions \cup {0}] /\ template \in BOOLEAN
  BY DEF GuidedInv, GuidedTypes, Guided!TypeOK
<1>3. visited' \in [Axes -> SUBSET (Positions \cup {0})]
  BY <1>1, <1>2
<1>4. /\ state' \in {"neutral", "ready", "capturing", "review", "disconnected"}
      /\ count' \in 0 .. StableCount /\ age' \in 0 .. StableTime
  BY <1>1, MappingConstants
<1>5. Guided!TypeOK'
  BY <1>1, <1>2, <1>3, <1>4 DEF Guided!TypeOK
<1>6. GuidedTypes'
  BY <1>1, <1>5 DEF GuidedTypes
<1>7. Guided!SessionFollowsEngine' /\ OfferIsCurrent'
  BY <1>1, MappingConstants DEF Guided!SessionFollowsEngine, OfferIsCurrent
<1>8. Remembered'
  <2>1. Positions \cup {0} \subseteq Int
    BY MappingConstants
  <2>2. \A i \in Axes : centers[i] \in Int
    BY <1>2, <2>1
  <2>3. QED
    BY <1>1, <1>2, <2>2 DEF Remembered
<1>9. QED
  BY <1>6, <1>7, <1>8 DEF GuidedInv

LEMMA BeginKeeps ==
    ASSUME GuidedInv, NEW c \in Guides, Guided!BeginStep(c) PROVE GuidedInv'
<1>1. /\ draft' = draft /\ state # "disconnected" /\ Guided!StartCapture(c)
      /\ UNCHANGED <<template, centers, noise, base, rawAxes, rawButtons>>
  BY DEF Guided!BeginStep, Guided!rest, Guided!raw
<1>2. /\ draft' \in [Guides -> Guided!Bindings \cup {Guided!Unbound}]
      /\ \A d \in Guides : draft'[d] \in Guided!BindingsOf(d) \cup {Guided!Unbound}
      /\ DraftIsSound'
  BY <1>1 DEF GuidedInv, GuidedTypes, Guided!TypeOK, DraftIsSound, Guided!ConflictFree
<1>3. QED
  BY <1>1, <1>2, StartKeeps

LEMMA RedoKeeps ==
    ASSUME GuidedInv, NEW c \in Guides, Guided!Redo(c) PROVE GuidedInv'
<1>1. /\ draft' = [draft EXCEPT ![c] = Guided!Unbound] /\ state # "disconnected"
      /\ Guided!StartCapture(c)
      /\ UNCHANGED <<template, centers, noise, base, rawAxes, rawButtons>>
  BY DEF Guided!Redo, Guided!rest, Guided!raw
<1>2. /\ Guided!Available(c, Guided!Unbound) /\ Guided!Unbound # Guided!Unsupported
  BY GuidedConflictFacts DEF Guided!Available, Guided!Unbound, Guided!Unsupported
<1>3. /\ draft' \in [Guides -> Guided!Bindings \cup {Guided!Unbound}]
      /\ \A d \in Guides : draft'[d] \in Guided!BindingsOf(d) \cup {Guided!Unbound}
      /\ DraftIsSound'
  BY <1>1, <1>2, SoundKept DEF GuidedInv
<1>4. QED
  BY <1>1, <1>3, StartKeeps

LEMMA NeutralKeeps ==
    ASSUME GuidedInv, NEW center \in [Axes -> Rests], NEW widest \in [Axes -> Rests],
           NEW held \in [Buttons -> {0, 1}], Guided!Neutral(center, widest, held)
    PROVE  GuidedInv'
<1>1. /\ state = "neutral" /\ state' \in {"review", "ready"}
      /\ centers' = center /\ base' = held /\ rawAxes' = center /\ rawButtons' = held
      /\ noise' = [i \in Axes |-> Guided!Abs(widest[i] - center[i])]
      /\ template' = template /\ draft' = draft /\ control' = control /\ engaged' = engaged
      /\ candidate' = candidate /\ least' = least /\ most' = most /\ changed' = changed
      /\ stable' = stable /\ count' = count /\ age' = age /\ visited' = visited
  BY DEF Guided!Neutral, Guided!capture
<1>2. Guided!TypeOK /\ GuidedTypes
  BY DEF GuidedInv, GuidedTypes
<1>3. candidate = Nil
  BY <1>1 DEF GuidedInv, OfferIsCurrent
<1>4. \A i \in Axes : Guided!Abs(widest[i] - center[i]) \in Nat
  <2>1. Rests \subseteq Int
    <3>1. Rests \subseteq Lowest .. Highest
      BY MappingConstants
    <3>2. QED
      BY <3>1
  <2>2. ASSUME NEW i \in Axes PROVE widest[i] - center[i] \in Int
    <3>1. widest[i] \in Rests /\ center[i] \in Rests
      OBVIOUS
    <3>2. widest[i] \in Int /\ center[i] \in Int
      BY <2>1, <3>1
    <3>3. QED
      BY <3>2
  <2>3. QED
    BY <2>2, GuidedNumbers
<1>5. noise' \in [Axes -> Nat]
  BY <1>1, <1>4
<1>6. center \in [Axes -> Positions \cup {0}]
  BY MappingConstants
<1>7. Guided!TypeOK'
  BY <1>1, <1>2, <1>5, <1>6 DEF Guided!TypeOK
<1>8. GuidedTypes' /\ DraftIsSound'
  BY <1>1, <1>2, <1>7 DEF GuidedInv, GuidedTypes, DraftIsSound, Guided!ConflictFree
<1>9. Guided!SessionFollowsEngine' /\ OfferIsCurrent'
  BY <1>1, <1>3 DEF GuidedInv, Guided!SessionFollowsEngine, OfferIsCurrent
<1>10. Remembered'
  BY <1>1 DEF GuidedInv, Remembered
<1>11. QED
  BY <1>8, <1>9, <1>10 DEF GuidedInv

LEMMA LoseKeeps == ASSUME GuidedInv, Guided!Lose PROVE GuidedInv'
<1>1. /\ state' = "disconnected" /\ candidate' = Nil
      /\ template' = template /\ draft' = draft /\ control' = control /\ engaged' = engaged
      /\ centers' = centers /\ noise' = noise /\ base' = base
      /\ rawAxes' = rawAxes /\ rawButtons' = rawButtons
      /\ least' = least /\ most' = most /\ changed' = changed
      /\ stable' = stable /\ count' = count /\ age' = age /\ visited' = visited
  BY DEF Guided!Lose, Guided!rest, Guided!raw, Guided!capture
<1>2. Guided!TypeOK'
  BY <1>1 DEF GuidedInv, GuidedTypes, Guided!TypeOK
<1>3. GuidedTypes' /\ DraftIsSound'
  BY <1>1, <1>2 DEF GuidedInv, GuidedTypes, DraftIsSound, Guided!ConflictFree
<1>4. Guided!SessionFollowsEngine' /\ OfferIsCurrent' /\ Remembered'
  BY <1>1 DEF GuidedInv, Guided!SessionFollowsEngine, OfferIsCurrent, Remembered
<1>5. QED
  BY <1>3, <1>4 DEF GuidedInv

\* What an observation makes of the strongest source.
LEMMA FollowOffers ==
    ASSUME GuidedInv, control \in Guides, NEW a, NEW b, NEW dt \in Nat,
           NEW source \in Guided!Strongest(control, a, b),
           Guided!Follow(source, dt)
    PROVE  /\ stable' \in Guided!Sources /\ count' \in 0 .. StableCount
           /\ age' \in 0 .. StableTime /\ candidate' \in Guided!Offers \cup {Nil}
           /\ candidate' # Nil =>
                 /\ candidate'.binding \in Guided!BindingsOf(control)
                 /\ Guided!Complete(control, source, least', most')
                 /\ candidate'.binding = Guided!BindingFor(control, source, least', most')
                 /\ candidate'.ambiguous =
                       (Guided!Rivals(control, source, least', most', changed') # {})
<1>1. /\ stable' = source /\ count' = Guided!Counts(source) /\ age' = Guided!Ages(source, dt)
  BY DEF Guided!Follow
<1>2. /\ source \in Guided!Sources
      /\ source[1] = "axis" => Guided!ReadsAxes(control)
      /\ source[1] = "button" => Guided!ReadsButtons(control)
  BY StrongestFacts
<1>3. /\ count \in 0 .. StableCount /\ age \in 0 .. StableTime
      /\ StableCount \in Nat \ {0} /\ StableTime \in Nat
  BY MappingConstants DEF GuidedInv, GuidedTypes, Guided!TypeOK
<1>4. count' \in 0 .. StableCount /\ age' \in 0 .. StableTime
  BY <1>1, <1>3 DEF Guided!Counts, Guided!Ages, Guided!Smaller
<1> DEFINE bound == Guided!BindingFor(control, source, least', most')
           rivals == Guided!Rivals(control, source, least', most', changed')
<1>5. bound \in Guided!BindingsOf(control) /\ bound \in Guided!Bindings
  BY <1>2, BindingForIsAdmitted DEF Guided!Bindings
<1>6. \/ candidate' = Nil
      \/ /\ candidate' = [binding |-> bound, ambiguous |-> rivals # {}]
         /\ Guided!Complete(control, source, least', most')
  BY DEF Guided!Follow
<1> HIDE DEF bound, rivals
<1>7. [binding |-> bound, ambiguous |-> rivals # {}] \in Guided!Offers
  BY <1>5 DEF Guided!Offers
<1>8. candidate' \in Guided!Offers \cup {Nil}
  BY <1>6, <1>7
<1>9. candidate' # Nil =>
         /\ candidate'.binding = bound /\ candidate'.ambiguous = (rivals # {})
         /\ Guided!Complete(control, source, least', most')
  BY <1>6
<1>10. QED
  BY <1>1, <1>2, <1>4, <1>5, <1>8, <1>9 DEF bound, rivals

LEMMA CaptureKeeps ==
    ASSUME GuidedInv, NEW a \in [Axes -> Positions], NEW b \in [Buttons -> {0, 1}],
           NEW dt \in 1 .. StableTime, Guided!Observe(a, b, dt)
    PROVE  GuidedInv'
<1>1. /\ state = "capturing" /\ state' = state /\ rawAxes' = a /\ rawButtons' = b
      /\ least' = [i \in Axes |-> Guided!Smaller(least[i], a[i])]
      /\ most' = [i \in Axes |-> Guided!Larger(most[i], a[i])]
      /\ changed' = changed \cup {i \in Buttons : b[i] # base[i]}
      /\ visited' = [i \in Axes |-> visited[i] \cup {a[i]}]
      /\ template' = template /\ draft' = draft /\ control' = control /\ engaged' = engaged
      /\ centers' = centers /\ noise' = noise /\ base' = base
      /\ \/ Guided!Strongest(control, a, b) = {} /\ Guided!ResetStability
         \/ \E source \in Guided!Strongest(control, a, b) : Guided!Follow(source, dt)
  BY DEF Guided!Observe, Guided!rest
<1>2. Guided!TypeOK /\ control \in Guides /\ Remembered
  BY <1>1, MappingConstants
  DEF GuidedInv, GuidedTypes, Guided!SessionFollowsEngine, Guided!TypeOK
<1>3. Positions \cup {0} \subseteq Int /\ StableTime \in Nat /\ StableCount \in Nat
  BY MappingConstants
<1>4. ASSUME NEW i \in Axes
      PROVE  /\ a[i] \in Positions \cup {0} /\ a[i] \in Int
             /\ least[i] \in Positions \cup {0} /\ most[i] \in Positions \cup {0}
             /\ least[i] \in Int /\ most[i] \in Int
             /\ visited[i] \subseteq Positions \cup {0}
             /\ least'[i] \in {least[i], a[i]} /\ least'[i] <= a[i] /\ least'[i] <= least[i]
             /\ most'[i] \in {most[i], a[i]} /\ a[i] <= most'[i] /\ most[i] <= most'[i]
  BY <1>1, <1>2, <1>3, GuidedValues, GuidedNumbers
<1>5. /\ least' \in [Axes -> Positions \cup {0}] /\ most' \in [Axes -> Positions \cup {0}]
      /\ visited' \in [Axes -> SUBSET (Positions \cup {0})]
      /\ rawAxes' \in [Axes -> Positions \cup {0}]
  <2>1. least' \in [Axes -> Positions \cup {0}]
    BY <1>1, <1>4
  <2>2. most' \in [Axes -> Positions \cup {0}]
    BY <1>1, <1>4
  <2>3. visited' \in [Axes -> SUBSET (Positions \cup {0})]
    BY <1>1, <1>4
  <2>4. QED
    BY <1>1, <1>4, <2>1, <2>2, <2>3
<1>6. Remembered'
  <2>1. SUFFICES ASSUME NEW i \in Axes
                 PROVE  /\ least'[i] \in visited'[i] /\ most'[i] \in visited'[i]
                        /\ \A v \in visited'[i] : least'[i] <= v /\ v <= most'[i]
                        /\ centers[i] \in visited'[i]
    BY <1>1 DEF Remembered
  <2>2. /\ least[i] \in visited[i] /\ most[i] \in visited[i] /\ centers[i] \in visited[i]
        /\ \A v \in visited[i] : least[i] <= v /\ v <= most[i] /\ v \in Int
        /\ visited'[i] = visited[i] \cup {a[i]}
    BY <1>1, <1>2, <1>3, <1>4 DEF Remembered
  <2>3. \A v \in visited[i] : least'[i] <= v /\ v <= most'[i]
    <3>1. least'[i] \in Int /\ most'[i] \in Int
      BY <1>4
    <3>2. QED
      BY <1>4, <2>2, <3>1
  <2>4. QED
    BY <1>4, <2>2, <2>3
<1> DEFINE Followed ==
      /\ stable' \in Guided!Sources \cup {Nil} /\ count' \in 0 .. StableCount
      /\ age' \in 0 .. StableTime /\ candidate' \in Guided!Offers \cup {Nil}
      /\ candidate' # Nil =>
            \E source \in Guided!Strongest(control, a, b) :
               /\ candidate'.binding \in Guided!BindingsOf(control)
               /\ Guided!Complete(control, source, least', most')
               /\ candidate'.binding = Guided!BindingFor(control, source, least', most')
               /\ candidate'.ambiguous =
                       (Guided!Rivals(control, source, least', most', changed') # {})
<1>7. Followed
  <2>1. CASE Guided!ResetStability
    BY <1>2, <1>3, <2>1 DEF Guided!ResetStability, Guided!TypeOK
  <2>2. ASSUME NEW source \in Guided!Strongest(control, a, b), Guided!Follow(source, dt)
        PROVE  Followed
    <3>1. dt \in Nat
      BY <1>3
    <3>2. QED
      BY <1>2, <2>2, <3>1, FollowOffers
  <2>3. QED
    BY <1>1, <2>1, <2>2
<1>8. candidate' # Nil => /\ candidate'.binding \in Guided!BindingsOf(control)
                          /\ candidate'.ambiguous \in BOOLEAN
  BY <1>7 DEF Guided!Offers
<1>9. changed' \subseteq Buttons
  BY <1>1, <1>2 DEF Guided!TypeOK
<1>10. Guided!TypeOK'
  <2>1. control # Nil
    BY <1>2, MappingConstants
  <2>2. QED
    BY <1>1, <1>2, <1>5, <1>7, <1>8, <1>9, <2>1 DEF Guided!TypeOK
<1>11. GuidedTypes' /\ DraftIsSound' /\ Guided!SessionFollowsEngine'
  BY <1>1, <1>7, <1>10
  DEF GuidedInv, GuidedTypes, DraftIsSound, Guided!ConflictFree, Guided!SessionFollowsEngine
<1>12. OfferIsCurrent'
  <2>1. SUFFICES ASSUME candidate' # Nil PROVE OfferIsCurrent'
    BY DEF OfferIsCurrent
  <2>2. PICK source \in Guided!Strongest(control, a, b) :
               /\ Guided!Complete(control, source, least', most')
               /\ candidate'.binding = Guided!BindingFor(control, source, least', most')
               /\ candidate'.ambiguous =
                       (Guided!Rivals(control, source, least', most', changed') # {})
    BY <1>7, <2>1
  <2>3. source \in Guided!Strongest(control, rawAxes, rawButtons)'
    BY <1>1, <2>2, RankingStays
  <2>4. /\ Guided!Complete(control, source, least, most)'
        /\ candidate'.binding = Guided!BindingFor(control, source, least, most)'
        /\ candidate'.ambiguous = (Guided!Rivals(control, source, least, most, changed)' # {})
    BY <1>1, <2>2, RankingStays
  <2>5. /\ state' = "capturing" /\ (\A i \in Axes : rawAxes'[i] \in visited'[i])
        /\ \A i \in Buttons : rawButtons'[i] # base'[i] => i \in changed'
    BY <1>1
  <2>6. QED
    BY <2>3, <2>4, <2>5 DEF OfferIsCurrent
<1>13. QED
  BY <1>6, <1>11, <1>12 DEF GuidedInv

LEMMA GuidedStarts == Guided!Init => GuidedInv
<1> SUFFICES ASSUME Guided!Init PROVE GuidedInv
  OBVIOUS
<1>1. /\ state = "neutral" /\ control = Nil /\ engaged = Nil /\ candidate = Nil
      /\ centers = [i \in Axes |-> 0] /\ noise = [i \in Axes |-> 0]
      /\ base = [i \in Buttons |-> 0]
      /\ rawAxes = [i \in Axes |-> 0] /\ rawButtons = [i \in Buttons |-> 0]
      /\ least = centers /\ most = centers /\ changed = {}
      /\ stable = Nil /\ count = 0 /\ age = 0 /\ visited = [i \in Axes |-> {0}]
  BY DEF Guided!Init
<1>2. /\ template \in BOOLEAN
      /\ draft \in [Guides -> Guided!Bindings \cup {Guided!Unbound}]
      /\ \A c \in Guides : draft[c] \in Guided!BindingsOf(c) \cup {Guided!Unbound}
      /\ DraftIsSound
  <2>1. CASE template = FALSE /\ draft = [c \in Guides |-> Guided!Unbound]
    <3>1. Guided!Unbound # Guided!Unsupported /\ Guided!Required \subseteq Guides
      BY DEF Guided!Unbound, Guided!Unsupported, Guided!Required
    <3>2. Guided!ConflictFree(draft)
      BY <2>1, GuidedConflictFacts DEF Guided!ConflictFree
    <3>3. QED
      BY <2>1, <3>1, <3>2 DEF DraftIsSound
  <2>2. CASE template = TRUE /\ draft \in Guided!Templates
    <3>1. /\ draft \in [Guides -> Guided!Bindings]
          /\ \A c \in Guides : draft[c] \in Guided!BindingsOf(c)
          /\ Guided!Usable(draft)
      BY <2>2 DEF Guided!Templates
    <3>2. DraftIsSound
      BY <3>1 DEF DraftIsSound, Guided!Usable, Guided!Missing
    <3>3. QED
      BY <2>2, <3>1, <3>2
  <2>3. QED
    BY <2>1, <2>2 DEF Guided!Init
<1>3. /\ count \in 0 .. StableCount /\ age \in 0 .. StableTime
  BY <1>1, MappingConstants
<1>4. Guided!TypeOK
  BY <1>1, <1>2, <1>3 DEF Guided!TypeOK
<1>5. GuidedTypes /\ Guided!SessionFollowsEngine /\ Remembered /\ OfferIsCurrent
  BY <1>1, <1>2, <1>4
  DEF GuidedTypes, Guided!SessionFollowsEngine, Remembered, OfferIsCurrent
<1>6. QED
  BY <1>2, <1>5 DEF GuidedInv

LEMMA GuidedKept == ASSUME GuidedInv, [Guided!Next]_guidedVars PROVE GuidedInv'
<1>1. CASE UNCHANGED guidedVars
  <2>1. Guided!TypeOK'
    BY <1>1 DEF guidedVars, GuidedInv, GuidedTypes, Guided!TypeOK
  <2>2. GuidedTypes' /\ DraftIsSound' /\ Guided!SessionFollowsEngine' /\ Remembered'
    BY <1>1, <2>1
    DEF guidedVars, GuidedInv, GuidedTypes, DraftIsSound, Guided!ConflictFree,
        Guided!SessionFollowsEngine, Remembered
  <2>3. OfferIsCurrent'
    <3>1. /\ Guided!Strongest(control, rawAxes, rawButtons)'
                = Guided!Strongest(control, rawAxes, rawButtons)
          /\ \A s : /\ Guided!Complete(control, s, least, most)'
                          <=> Guided!Complete(control, s, least, most)
                    /\ Guided!BindingFor(control, s, least, most)'
                          = Guided!BindingFor(control, s, least, most)
                    /\ Guided!Rivals(control, s, least, most, changed)'
                          = Guided!Rivals(control, s, least, most, changed)
      BY <1>1, RankingStays DEF guidedVars
    <3>2. QED
      BY <1>1, <3>1 DEF guidedVars, GuidedInv, OfferIsCurrent
  <2>4. QED
    BY <2>2, <2>3 DEF GuidedInv
<1>2. CASE Guided!Operator
  BY <1>2, BeginKeeps, RedoKeeps, MarkKeeps, ConfirmKeeps, OverrideKeeps DEF Guided!Operator
<1>3. CASE Guided!Pump
  BY <1>3, NeutralKeeps, CaptureKeeps, LoseKeeps DEF Guided!Pump
<1>4. QED
  BY <1>1, <1>2, <1>3 DEF Guided!Next

-----------------------------------------------------------------------------
(* Both ways *)

LEMMA MappingStarts == MappingInit => MappingInv
  BY QuickStarts, GuidedStarts DEF MappingInit, MappingInv

LEMMA MappingKept ==
    MappingInv /\ [MappingNext]_<<moving, quickVars, guidedVars>> => MappingInv'
  BY QuickKept, GuidedKept DEF MappingInv, MappingNext

\* The inductive invariant: what the engines have seen is what the device
\* read, and what a step remembers is where the axes were.
THEOREM MappingInvariant == MappingSpec => []MappingInv
  BY MappingStarts, MappingKept, PTL DEF MappingSpec

\* Both ways keep a draft that is free of conflicts after every capture,
\* confirmation, override, redo and control given up (_complete_capture() of
\* the quick mapping drops what a new binding displaces; confirm() of the
\* calibration refuses what another control claims), so that a finished one
\* can be saved; and the session names the control its engine will bind.
THEOREM DraftsUsable == MappingSpec => []DraftsAreUsable
<1>1. MappingInv => DraftsAreUsable
  BY DraftCompletes
  DEF MappingInv, QuickInv, GuidedInv, GuidedTypes, DraftsAreUsable
<1>2. QED
  BY <1>1, MappingInvariant, PTL

\* What the calibration offers is held now, with the direction of its farthest
\* excursion in this step, whatever observe(), the requests and a lost device did in between.
THEOREM OffersAreHeld == MappingSpec => []OfferIsHeld
<1>1. MappingInv => OfferIsHeld
  BY OfferHolds DEF MappingInv, OfferIsHeld
<1>2. QED
  BY <1>1, MappingInvariant, PTL

\* Neither way binds a source another one rivals: _dominant_axis() of the
\* quick mapping against all the axis did since the control was armed, and
\* confirm() of the calibration against all that moved in the step.
THEOREM GesturesAreBound == MappingSpec => BindsTheGesture
<1> DEFINE mappingVars == <<moving, quickVars, guidedVars>>
           Captures == \A c \in Quicks :
              armed = c /\ status' = "captured" /\ settled =>
                 LET b == bindings'[c]
                 IN IF Quick!Digital(b) THEN b.index \in struck
                    ELSE /\ reach[b.index] >= MinimumPeak
                         /\ \A j \in Axes \ {b.index} : 2 * reach[b.index] >= 3 * reach[j]
           Confirms == \A c \in Guides :
              control = c /\ Guided!Confirm =>
                 LET b == draft'[c]
                     moved == {j \in Axes : Guided!ReadsAxes(c)
                                            /\ Guided!Farthest(j) > Guided!Minimum(j)}
                 IN IF Guided!Digital(b) THEN moved = {} /\ changed = {b.index}
                    ELSE \A j \in moved \ {b.index} :
                            2 * Guided!Farthest(b.index) >= 3 * Guided!Farthest(j)
<1>1. ASSUME MappingInv, [MappingNext]_mappingVars PROVE [Captures]_(Quick!vars)
  <2>1. CASE UNCHANGED Quick!vars
    BY <2>1
  <2>2. CASE Quick!Next
    BY <1>1, <2>2, CaptureIsTheGesture DEF MappingInv
  <2>3. CASE UNCHANGED quickVars
    BY <2>3 DEF quickVars, Quick!vars, Quick!truth
  <2>4. QED
    BY <1>1, <2>2, <2>3 DEF MappingNext
<1>2. ASSUME MappingInv, [MappingNext]_mappingVars PROVE [Confirms]_(Guided!vars)
  BY <1>2, ConfirmIsUnrivalled DEF MappingInv
<1>3. Quick!CapturesTheGesture <=> [][Captures]_(Quick!vars)
  BY DEF Quick!CapturesTheGesture
<1>4. Guided!ConfirmedIsUnrivalled <=> [][Confirms]_(Guided!vars)
  BY DEF Guided!ConfirmedIsUnrivalled
<1> HIDE DEF Captures, Confirms
<1>5. MappingSpec => [][Captures]_(Quick!vars) /\ [][Confirms]_(Guided!vars)
  BY <1>1, <1>2, MappingInvariant, PTL DEF MappingSpec
<1>6. QED
  BY <1>3, <1>4, <1>5 DEF BindsTheGesture

=============================================================================
