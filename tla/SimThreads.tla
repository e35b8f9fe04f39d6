----------------------------- MODULE SimThreads -----------------------------
(***************************************************************************)
(* The threads of the simulator (simulate/src/main.cc with                 *)
(* simulate/mujoco/simulate/simulate.cc).                                  *)
(*                                                                         *)
(* The physics thread loads models and steps them.  The render thread,     *)
(* which is main, shows them and handles the window's events while it      *)
(* holds sim.mtx.  The bridge to the robot's controller takes the first    *)
(* model and data it sees and keeps them.  Physics hands a new model to    *)
(* the render thread through loadrequest and waits until it is taken; then *)
(* it deletes the old one.  A model with its data is a number, 0 is none.  *)
(* The window's Backspace resets the globals' data from the render thread: *)
(* where that is no model or a deleted one, what happens is undefined, and *)
(* the process may die or go on.                                           *)
(*                                                                         *)
(* What a thread does with the mutex held is one action, except where the  *)
(* render thread uses the data or waits with the mutex held; those are     *)
(* places of their own (`render`).  The bridge's rounds, the physics steps *)
(* and the keys of the elastic band change nothing that is modelled.       *)
(* Bounds: MaxDrops, MaxReloads.                                           *)
(***************************************************************************)
EXTENDS Integers

CONSTANTS
    MaxDrops,   \* bound: files dropped on the window
    MaxReloads, \* bound: clicks on Reload
    MayEnd      \* the window may be closed, and Quit clicked

ASSUME SimThreadsAssumption ==
    MaxDrops \in Nat /\ MaxReloads \in Nat /\ MayEnd \in BOOLEAN

VARIABLES
    physics,     \* where the physics thread is
    load,        \* which of its three loads it is in
    render,      \* where the render thread is
    keyed,       \* the data the key callback uses
    bridge,      \* the data the bridge uses
    exitrequest, \* sim.exitrequest
    droprequest, \* sim.droploadrequest
    reloads,     \* sim.uiloadrequest
    loadrequest, \* sim.loadrequest
    made,        \* models loaded so far
    data,        \* the globals m and d
    fresh,       \* sim.mnew_ and dnew_
    shown,       \* sim.m_ and d_, what the render thread uses
    freed,       \* what was deleted
    drops, clicks

requests == <<exitrequest, droprequest, reloads>>
models == <<made, data, fresh, shown, freed>>
bounds == <<drops, clicks>>
vars == <<physics, load, render, keyed, bridge, requests, loadrequest, models, bounds>>

Init ==
    /\ physics = "message" /\ load = "first"
    /\ render = "unlocked" /\ keyed = 0 /\ bridge = 0
    /\ exitrequest = 0 /\ droprequest = FALSE /\ reloads = 0 /\ loadrequest = 0
    /\ made = 0 /\ data = 0 /\ fresh = 0 /\ shown = 0 /\ freed = {}
    /\ drops = 0 /\ clicks = 0

\* sim.mtx is free between the actions but for the render thread's long ones.
MtxIsFree == render \in {"unlocked", "joining"}

Running == physics \notin {"ended", "crashed"}

-----------------------------------------------------------------------------
(* The physics thread *)

\* LoadMessage()
Message ==
    /\ physics = "message" /\ MtxIsFree
    /\ loadrequest' = 3
    /\ physics' = "load"
    /\ UNCHANGED <<load, render, keyed, bridge, requests, models, bounds>>

\* The drop is taken once its file has been read.
Taken == droprequest' = (droprequest /\ load # "drop")

\* LoadModel() and mj_makeData(); the first ones are the globals at once.
LoadModel ==
    /\ physics = "load" /\ Taken
    /\ made' = made + 1
    /\ data' = IF load = "first" THEN made + 1 ELSE data
    /\ physics' = "request"
    /\ UNCHANGED <<load, render, keyed, bridge, exitrequest, reloads, loadrequest, fresh, shown, freed, bounds>>

\* The file is no model.
LoadFails ==
    /\ physics = "load" /\ Taken
    /\ physics' = "clear"
    /\ UNCHANGED <<load, render, keyed, bridge, exitrequest, reloads, loadrequest, models, bounds>>

\* Where a load returns to: the drop comes before the reload in the loop.
After == IF load = "drop" THEN "reload" ELSE IF load = "first" THEN "loop" ELSE "step"

\* LoadMessageClear()
Clear ==
    /\ physics = "clear" /\ MtxIsFree
    /\ loadrequest' = 0
    /\ physics' = After
    /\ UNCHANGED <<load, render, keyed, bridge, requests, models, bounds>>

\* Load() up to its wait.
Request ==
    /\ physics = "request" /\ MtxIsFree
    /\ fresh' = made /\ loadrequest' = 2
    /\ physics' = "wait"
    /\ UNCHANGED <<load, render, keyed, bridge, requests, made, data, shown, freed, bounds>>

\* Mutant of Handed: Load() does not wait.
HandedAtOnce == TRUE

\* Mutant of Handed: it waits until the label is shown.
HandedEarly == loadrequest # 2

\* What Load() waits for.
Handed == loadrequest = 0

Wait ==
    /\ physics = "wait" /\ MtxIsFree /\ Handed
    /\ physics' = IF load = "first" THEN "forward" ELSE "delete"
    /\ UNCHANGED <<load, render, keyed, bridge, requests, loadrequest, models, bounds>>

Delete ==
    /\ physics = "delete"
    /\ freed' = IF data = 0 THEN freed ELSE freed \cup {data}
    /\ physics' = "assign"
    /\ UNCHANGED <<load, render, keyed, bridge, requests, loadrequest, made, data, fresh, shown, bounds>>

\* What the globals are after a load.
Installed == made

Assign ==
    /\ physics = "assign"
    /\ data' = Installed
    /\ physics' = "forward"
    /\ UNCHANGED <<load, render, keyed, bridge, requests, loadrequest, made, fresh, shown, freed, bounds>>

\* mj_forward(m, d), without the mutex.
Forward ==
    /\ physics = "forward"
    /\ physics' = After
    /\ UNCHANGED <<load, render, keyed, bridge, requests, loadrequest, models, bounds>>

\* The head of PhysicsLoop().
Loop ==
    /\ physics = "loop"
    /\ \/ exitrequest # 0 /\ physics' = "end" /\ UNCHANGED load
       \/ /\ exitrequest = 0 /\ droprequest
          /\ physics' = "message" /\ load' = "drop"
       \/ /\ exitrequest = 0 /\ ~droprequest
          /\ physics' = "reload" /\ UNCHANGED load
    /\ UNCHANGED <<render, keyed, bridge, requests, loadrequest, models, bounds>>

\* Mutant of ReloadTaken: the request is cleared, not counted down.
ReloadKept == reloads

\* uiloadrequest.fetch_sub(1)
ReloadTaken == reloads - 1

ReloadAsked == reloads > 0

Reload ==
    /\ physics = "reload"
    /\ IF ReloadAsked
       THEN physics' = "message" /\ load' = "reload" /\ reloads' = ReloadTaken
       ELSE physics' = "step" /\ UNCHANGED <<load, reloads>>
    /\ UNCHANGED <<render, keyed, bridge, exitrequest, droprequest, loadrequest, models, bounds>>

\* The steps of a round, with the mutex.
Step ==
    /\ physics = "step" /\ MtxIsFree
    /\ physics' = "loop"
    /\ UNCHANGED <<load, render, keyed, bridge, requests, loadrequest, models, bounds>>

\* Everything is deleted, then the process ends.
End ==
    /\ physics = "end"
    /\ freed' = IF data = 0 THEN freed ELSE freed \cup {data}
    /\ physics' = "ended"
    /\ UNCHANGED <<load, render, keyed, bridge, requests, loadrequest, made, data, fresh, shown, bounds>>

-----------------------------------------------------------------------------
(* The render thread *)

\* The events of PollEvents() that matter here.
Nothing == UNCHANGED <<requests, keyed, bounds>> /\ render' = "syncing"

\* A dropped file: it waits, with the mutex, until the last one was taken.
Drop ==
    /\ drops < MaxDrops /\ drops' = drops + 1
    /\ IF droprequest
       THEN render' = "spinning" /\ UNCHANGED droprequest
       ELSE render' = "syncing" /\ droprequest' = TRUE
    /\ UNCHANGED <<exitrequest, reloads, keyed, clicks>>

ClickReload ==
    /\ clicks < MaxReloads /\ clicks' = clicks + 1
    /\ reloads' = reloads + 1 /\ render' = "syncing"
    /\ UNCHANGED <<exitrequest, droprequest, keyed, drops>>

\* Sync() does nothing once the exit is requested.
Quit ==
    /\ MayEnd /\ exitrequest' = 1 /\ render' = "unlocked"
    /\ UNCHANGED <<droprequest, reloads, keyed, bounds>>

\* user_key_cb() on Backspace: mj_resetData(m, d) on the globals.
Backspace ==
    /\ render' = "resetting" /\ keyed' = data
    /\ UNCHANGED <<requests, bounds>>

\* LoadOnRenderThread(), after a pass that only showed the label.
TakeModel ==
    \/ loadrequest = 1 /\ loadrequest' = 0 /\ shown' = fresh
    \/ loadrequest = 2 /\ loadrequest' = 1 /\ UNCHANGED shown
    \/ loadrequest \in {0, 3} /\ UNCHANGED <<loadrequest, shown>>

\* A pass of RenderLoop() until Sync().
Pass ==
    /\ render = "unlocked" /\ exitrequest = 0 /\ Running
    /\ TakeModel
    /\ Nothing \/ Drop \/ ClickReload \/ Quit \/ Backspace
    /\ UNCHANGED <<physics, load, bridge, made, data, fresh, freed>>

Spin ==
    /\ render = "spinning" /\ ~droprequest
    /\ droprequest' = TRUE
    /\ render' = "syncing"
    /\ UNCHANGED <<physics, load, keyed, bridge, exitrequest, reloads, loadrequest, models, bounds>>

\* Its mj_forward(m, d): the globals are read again.
ForwardKey ==
    /\ render = "resetting" /\ Running
    /\ render' = "forwarding" /\ keyed' = data
    /\ UNCHANGED <<physics, load, bridge, requests, loadrequest, models, bounds>>

KeyDone ==
    /\ render = "forwarding" /\ Running
    /\ render' = "syncing" /\ keyed' = 0
    /\ UNCHANGED <<physics, load, bridge, requests, loadrequest, models, bounds>>

Keying == render \in {"resetting", "forwarding"}

\* The process dies of the use of no model, or of a deleted one.
Crash ==
    /\ Keying /\ Running
    /\ keyed \in freed \cup {0}
    /\ physics' = "crashed"
    /\ UNCHANGED <<load, render, keyed, bridge, requests, loadrequest, models, bounds>>

\* Sync() with what is shown, and the mutex is released.
Synced ==
    /\ render = "syncing"
    /\ render' = "unlocked"
    /\ UNCHANGED <<physics, load, keyed, bridge, requests, loadrequest, models, bounds>>

\* The window was closed or Quit clicked: RenderLoop() returns, main joins.
Leave ==
    /\ render = "unlocked" /\ MayEnd /\ Running
    /\ exitrequest' = 2
    /\ render' = "joining"
    /\ UNCHANGED <<physics, load, keyed, bridge, droprequest, reloads, loadrequest, models, bounds>>

\* UnitreeSdk2BridgeThread()
Bridge ==
    /\ bridge = 0 /\ data # 0 /\ Running
    /\ bridge' = data
    /\ UNCHANGED <<physics, load, render, keyed, requests, loadrequest, models, bounds>>

-----------------------------------------------------------------------------
Next ==
    \/ Message \/ LoadModel \/ LoadFails \/ Clear \/ Request \/ Wait
    \/ Delete \/ Assign \/ Forward \/ Loop \/ Reload \/ Step \/ End
    \/ Pass \/ Spin \/ ForwardKey \/ KeyDone \/ Crash \/ Synced \/ Leave
    \/ Bridge

\* Both threads run.  The render thread releases the mutex in every pass and
\* waits for the display without it, so that physics gets it in the end; a
\* Quit is followed by the end of the loop.
Fairness ==
    /\ SF_vars(Message) /\ SF_vars(Clear) /\ SF_vars(Request) /\ SF_vars(Wait) /\ SF_vars(Step)
    /\ WF_vars(LoadModel \/ LoadFails)
    /\ WF_vars(Delete) /\ WF_vars(Assign) /\ WF_vars(Forward)
    /\ WF_vars(Loop) /\ WF_vars(Reload) /\ WF_vars(End)
    /\ WF_vars(Pass) /\ WF_vars(Spin) /\ WF_vars(ForwardKey \/ KeyDone) /\ WF_vars(Synced)
    /\ WF_vars(exitrequest # 0 /\ Leave)
    /\ WF_vars(Bridge)

Spec == Init /\ [][Next]_vars /\ Fairness

-----------------------------------------------------------------------------
(* Properties *)

\* The types of the variables.
TypeOK ==
    /\ physics \in {"message", "load", "clear", "request", "wait", "delete",
                    "assign", "forward", "loop", "reload", "step", "end", "ended", "crashed"}
    /\ load \in {"first", "drop", "reload"}
    /\ render \in {"unlocked", "spinning", "resetting", "forwarding", "syncing", "joining"}
    /\ exitrequest \in 0..2 /\ droprequest \in BOOLEAN
    /\ reloads \in 0..MaxReloads /\ loadrequest \in 0..3
    /\ made \in 0..(1 + MaxDrops + MaxReloads)
    /\ {keyed, bridge, data, fresh, shown} \subseteq 0..made
    /\ freed \subseteq 1..made
    /\ drops \in 0..MaxDrops /\ clicks \in 0..MaxReloads

\* What the window shows is never a model that was deleted, in whatever order
\* drops, reloads and passes come: Load() returns only after the new one was
\* taken (simulate.cc:2248-2250).
RenderSeesLiveData == render = "syncing" => shown \notin freed

\* Between its loads physics steps what the globals name, which is there.
StepsLiveData == physics \in {"loop", "reload", "step", "forward"} => data \notin freed

\* When physics runs on after a load, what is shown is what it steps, unless
\* the window has gone.
ShownIsStepped ==
    physics \in {"loop", "reload", "step"} /\ exitrequest = 0 => shown = data

\* A Backspace meets no deleted model as long as physics reads a file or
\* hands its model over: what the globals name is deleted only later.
KeysSeeLiveData ==
    Keying /\ physics \in {"load", "clear", "request", "wait"} => keyed \notin freed

\* The hand-over keeps a model until it was replaced: neither the window's
\* picture nor the physics steps use one that was deleted, and a Backspace does
\* not until the hand-over is over.  (After it a Backspace may, and the bridge
\* does: BackspaceIsSafe and OldDataIsUnused below do not hold.)
HandoverIsSafe == RenderSeesLiveData /\ StepsLiveData /\ KeysSeeLiveData

\* A model handed over is taken, and Load() returns (simulate.cc:2248:
\* "Wait for the render thread to be done loading").
LoadReturns == physics = "wait" ~> physics # "wait"

\* As long as the window stays, no Backspace kills the process and no second
\* file is dropped, every load returns, and a drop and every click on reload are served.
WindowIsServed ==
    [](exitrequest = 0 /\ drops <= 1 /\ physics # "crashed") =>
        /\ LoadReturns
        /\ droprequest ~> ~droprequest
        /\ reloads > 0 ~> reloads = 0

\* "run until asked to exit" (main.cc:338): once asked the process ends.
ExitEnds == exitrequest # 0 ~> ~Running

\* "operations which require holding the mutex, prevents racing with physics
\* thread" (simulate.cc:1914): physics and Sync() never use one data at once.
SyncExcludesPhysics ==
    ~(render = "syncing" /\ physics = "forward" /\ shown # 0 /\ shown = data)

\* Load() waits "so that we know the old model and data's memory can be
\* free'd" (simulate.cc:2249): the bridge uses nothing that was deleted.
OldDataIsUnused == exitrequest = 0 => bridge \notin freed

\* The same of a Backspace: physics deletes and assigns the globals without
\* the mutex that the callback runs under.
BackspaceIsSafe == Keying => keyed \notin freed
=============================================================================
