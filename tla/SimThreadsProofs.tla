-------------------------- MODULE SimThreadsProofs --------------------------
(***************************************************************************)
(* Proofs about SimThreads, for any number of dropped files and reloads:   *)
(* however the physics and the render thread take turns, the window never  *)
(* shows and physics never steps a model that was deleted, and a Backspace *)
(* meets none before a hand-over is over.                                  *)
(***************************************************************************)
EXTENDS SimThreads, TLAPS

-----------------------------------------------------------------------------
(* The invariant *)

\* The physics thread has a new model that is not yet in the globals.
Handing == physics \in {"request", "wait", "delete", "assign"}

\* What loadrequest says in each place of the physics thread.
Handshake ==
    /\ physics = "wait" => loadrequest \in 0..2 /\ fresh = made
    /\ physics \in {"load", "request", "clear"} => loadrequest = 3
    /\ physics \notin {"wait", "load", "request", "clear", "crashed"} => loadrequest = 0

\* What the globals and the render thread have: the last model made, or the one
\* before while a new one is handed over.
Held ==
    physics # "crashed" =>
    /\ data = IF Handing /\ load # "first" THEN made - 1 ELSE made
    /\ shown = IF physics = "request" \/ (physics = "wait" /\ loadrequest # 0)
               THEN made - 1 ELSE made

\* Only older models were deleted, until the process ends or dies.
Deleted ==
    /\ physics \notin {"assign", "ended", "crashed"} => \A f \in freed : f < data
    /\ physics = "assign" => \A f \in freed : f < made
    /\ load = "first" /\ physics \in {"message", "load"} => made = 0
    /\ load = "first" /\ Handing => freed = {} /\ physics \in {"request", "wait"}

\* Physics ends after the render thread was asked to, which then shows nothing;
\* the process dies of a key only.
Ends ==
    /\ physics = "crashed" => Keying
    /\ physics \in {"end", "ended"} => exitrequest # 0
    /\ exitrequest # 0 => render \in {"unlocked", "joining"}

One(b) == IF b THEN 1 ELSE 0

\* Every model made, or still to be made, was asked for.
Count ==
    /\ made + One(droprequest) + One(render = "spinning") + reloads
            + One(physics \in {"message", "load"} /\ load # "drop")
         <= 1 + drops + clicks
    /\ reloads <= clicks
    /\ physics \in {"message", "load"} /\ load = "drop" => droprequest

IInv == TypeOK /\ Handshake /\ Held /\ Deleted /\ Ends /\ Count /\ KeysSeeLiveData

LEMMA InitIInv == Init => IInv
<1> SUFFICES ASSUME Init PROVE IInv
  OBVIOUS
<1>1. TypeOK
  <2>1. 1 + MaxDrops + MaxReloads \in Nat
    BY SimThreadsAssumption
  <2>2. {keyed, bridge, data, fresh, shown} \subseteq 0..made /\ freed \subseteq 1..made
    BY DEF Init
  <2>3. made \in 0..(1 + MaxDrops + MaxReloads) /\ reloads \in 0..MaxReloads
        /\ drops \in 0..MaxDrops /\ clicks \in 0..MaxReloads
    BY <2>1, SimThreadsAssumption DEF Init
  <2>4. exitrequest \in 0..2 /\ loadrequest \in 0..3
    BY DEF Init
  <2>6. droprequest \in BOOLEAN
    BY Zenon DEF Init
  <2>5. physics = "message" /\ load = "first" /\ render = "unlocked"
    BY DEF Init
  <2> QED BY <2>2, <2>3, <2>4, <2>5, <2>6 DEF TypeOK
<1>2. Handshake /\ Held /\ Deleted
  BY DEF Init, Handshake, Held, Handing, Deleted
<1>3. Ends /\ Count
  BY DEF Init, Ends, Count, One
<1>4. KeysSeeLiveData
  BY DEF Init, KeysSeeLiveData, Keying
<1> QED BY <1>1, <1>2, <1>3, <1>4 DEF IInv

-----------------------------------------------------------------------------
(* Each step keeps it *)

LEMMA MessageKeeps ==
  ASSUME IInv, Message
  PROVE  IInv'
<1> USE SimThreadsAssumption
<1>1. TypeOK'
  BY DEF IInv, TypeOK, Message, requests, models, bounds
<1>2. Handshake'
  BY DEF IInv, TypeOK, Handshake, Ends, Message, requests, models, bounds
<1>3. Held'
  BY DEF IInv, TypeOK, Handshake, Held, Handing, Deleted, Message, requests, models, bounds
<1>4. Deleted'
  BY DEF IInv, TypeOK, Handshake, Held, Deleted, Handing, Message, requests, models, bounds
<1>5. Ends'
  BY DEF IInv, TypeOK, Ends, Keying, MtxIsFree, Running, Message, requests, models, bounds
<1>6. Count'
  BY DEF IInv, TypeOK, Count, One, Message, requests, models, bounds
<1>7. KeysSeeLiveData'
  BY DEF IInv, TypeOK, Handshake, Deleted, Handing, KeysSeeLiveData, Keying, MtxIsFree, Ends, Message, requests, models, bounds
<1> QED BY <1>1, <1>2, <1>3, <1>4, <1>5, <1>6, <1>7 DEF IInv

LEMMA LoadModelKeeps ==
  ASSUME IInv, LoadModel
  PROVE  IInv'
<1> USE SimThreadsAssumption
<1>0. /\ made' = made + 1 /\ physics = "load" /\ physics' = "request"
      /\ UNCHANGED <<load, render, reloads, drops, clicks>>
  BY DEF LoadModel, bounds
<1>6. Count'
  <2>1. CASE load = "drop"
    <3>1. droprequest = TRUE /\ droprequest' = FALSE
      BY <1>0, <2>1 DEF LoadModel, Taken, IInv, TypeOK, Count
    <3> QED BY <1>0, <2>1, <3>1 DEF IInv, TypeOK, Count, One
  <2>2. CASE load # "drop"
    <3>1. droprequest' = droprequest
      BY <2>2 DEF LoadModel, Taken, IInv, TypeOK
    <3> QED BY <1>0, <2>2, <3>1 DEF IInv, TypeOK, Count, One
  <2> QED BY <2>1, <2>2
<1>1. TypeOK'
  <2>1. made' \in 0..(1 + MaxDrops + MaxReloads)
    BY <1>0, <1>6 DEF IInv, TypeOK, Count, One
  <2>2. {keyed', bridge', data', fresh', shown'} \subseteq 0..made' /\ freed' \subseteq 1..made'
    <3>1. data' \in {data, made + 1} /\ UNCHANGED <<keyed, bridge, fresh, shown, freed>>
      BY DEF LoadModel
    <3>2. made \in Nat /\ {keyed, bridge, data, fresh, shown} \subseteq 0..made /\ freed \subseteq 1..made
      BY DEF IInv, TypeOK
    <3>3. 0..made \subseteq 0..(made + 1) /\ 1..made \subseteq 1..(made + 1)
          /\ made + 1 \in 0..(made + 1)
      BY <3>2
    <3> QED BY <1>0, <3>1, <3>2, <3>3
  <2>3. droprequest' \in BOOLEAN
    BY DEF LoadModel, Taken
  <2>4. UNCHANGED <<load, render, exitrequest, reloads, loadrequest, bounds>>
    BY DEF LoadModel
  <2> QED BY <1>0, <2>1, <2>2, <2>3, <2>4 DEF IInv, TypeOK, bounds
<1>2. Handshake'
  BY DEF IInv, TypeOK, Handshake, Ends, LoadModel, Taken, requests, models, bounds
<1>3. Held'
  BY DEF IInv, TypeOK, Handshake, Held, Handing, Deleted, LoadModel, Taken, requests, models, bounds
<1>4. Deleted'
  BY DEF IInv, TypeOK, Handshake, Held, Deleted, Handing, LoadModel, Taken, requests, models, bounds
<1>5. Ends'
  BY DEF IInv, TypeOK, Ends, Keying, MtxIsFree, Running, LoadModel, Taken, requests, models, bounds
<1>7. KeysSeeLiveData'
  BY DEF IInv, TypeOK, Handshake, Deleted, Handing, KeysSeeLiveData, Keying, MtxIsFree, Ends, LoadModel, Taken, requests, models, bounds
<1> QED BY <1>1, <1>2, <1>3, <1>4, <1>5, <1>6, <1>7 DEF IInv

LEMMA LoadFailsKeeps ==
  ASSUME IInv, LoadFails
  PROVE  IInv'
<1> USE SimThreadsAssumption
<1>1. TypeOK'
  BY DEF IInv, TypeOK, LoadFails, Taken, requests, models, bounds
<1>2. Handshake'
  BY DEF IInv, TypeOK, Handshake, Ends, LoadFails, Taken, requests, models, bounds
<1>3. Held'
  BY DEF IInv, TypeOK, Handshake, Held, Handing, Deleted, LoadFails, Taken, requests, models, bounds
<1>4. Deleted'
  BY DEF IInv, TypeOK, Handshake, Held, Deleted, Handing, LoadFails, Taken, requests, models, bounds
<1>5. Ends'
  BY DEF IInv, TypeOK, Ends, Keying, MtxIsFree, Running, LoadFails, Taken, requests, models, bounds
<1>6. Count'
  BY DEF IInv, TypeOK, Count, One, LoadFails, Taken, requests, models, bounds
<1>7. KeysSeeLiveData'
  BY DEF IInv, TypeOK, Handshake, Deleted, Handing, KeysSeeLiveData, Keying, MtxIsFree, Ends, LoadFails, Taken, requests, models, bounds
<1> QED BY <1>1, <1>2, <1>3, <1>4, <1>5, <1>6, <1>7 DEF IInv

LEMMA ClearKeeps ==
  ASSUME IInv, Clear
  PROVE  IInv'
<1> USE SimThreadsAssumption
<1>1. TypeOK'
  BY DEF IInv, TypeOK, Clear, After, requests, models, bounds
<1>2. Handshake'
  BY DEF IInv, TypeOK, Handshake, Ends, Clear, After, requests, models, bounds
<1>3. Held'
  BY DEF IInv, TypeOK, Handshake, Held, Handing, Deleted, Clear, After, requests, models, bounds
<1>4. Deleted'
  BY DEF IInv, TypeOK, Handshake, Held, Deleted, Handing, Clear, After, requests, models, bounds
<1>5. Ends'
  BY DEF IInv, TypeOK, Ends, Keying, MtxIsFree, Running, Clear, After, requests, models, bounds
<1>6. Count'
  BY DEF IInv, TypeOK, Count, One, Clear, After, requests, models, bounds
<1>7. KeysSeeLiveData'
  BY DEF IInv, TypeOK, Handshake, Deleted, Handing, KeysSeeLiveData, Keying, MtxIsFree, Ends, Clear, After, requests, models, bounds
<1> QED BY <1>1, <1>2, <1>3, <1>4, <1>5, <1>6, <1>7 DEF IInv

LEMMA RequestKeeps ==
  ASSUME IInv, Request
  PROVE  IInv'
<1> USE SimThreadsAssumption
<1>1. TypeOK'
  BY DEF IInv, TypeOK, Request, requests, models, bounds
<1>2. Handshake'
  BY DEF IInv, TypeOK, Handshake, Ends, Request, requests, models, bounds
<1>3. Held'
  BY DEF IInv, TypeOK, Handshake, Held, Handing, Deleted, Request, requests, models, bounds
<1>4. Deleted'
  BY DEF IInv, TypeOK, Handshake, Held, Deleted, Handing, Request, requests, models, bounds
<1>5. Ends'
  BY DEF IInv, TypeOK, Ends, Keying, MtxIsFree, Running, Request, requests, models, bounds
<1>6. Count'
  BY DEF IInv, TypeOK, Count, One, Request, requests, models, bounds
<1>7. KeysSeeLiveData'
  BY DEF IInv, TypeOK, Handshake, Deleted, Handing, KeysSeeLiveData, Keying, MtxIsFree, Ends, Request, requests, models, bounds
<1> QED BY <1>1, <1>2, <1>3, <1>4, <1>5, <1>6, <1>7 DEF IInv

LEMMA WaitKeeps ==
  ASSUME IInv, Wait
  PROVE  IInv'
<1> USE SimThreadsAssumption
<1>1. TypeOK'
  BY DEF IInv, TypeOK, Wait, Handed, requests, models, bounds
<1>2. Handshake'
  BY DEF IInv, TypeOK, Handshake, Ends, Wait, Handed, requests, models, bounds
<1>3. Held'
  BY DEF IInv, TypeOK, Handshake, Held, Handing, Deleted, Wait, Handed, requests, models, bounds
<1>4. Deleted'
  BY DEF IInv, TypeOK, Handshake, Held, Deleted, Handing, Wait, Handed, requests, models, bounds
<1>5. Ends'
  BY DEF IInv, TypeOK, Ends, Keying, MtxIsFree, Running, Wait, Handed, requests, models, bounds
<1>6. Count'
  BY DEF IInv, TypeOK, Count, One, Wait, Handed, requests, models, bounds
<1>7. KeysSeeLiveData'
  BY DEF IInv, TypeOK, Handshake, Deleted, Handing, KeysSeeLiveData, Keying, MtxIsFree, Ends, Wait, Handed, requests, models, bounds
<1> QED BY <1>1, <1>2, <1>3, <1>4, <1>5, <1>6, <1>7 DEF IInv

LEMMA DeleteKeeps ==
  ASSUME IInv, Delete
  PROVE  IInv'
<1> USE SimThreadsAssumption
<1>1. TypeOK'
  <2>1. freed' \subseteq 1..made
    <3>1. data \in 0..made /\ made \in Nat /\ freed \subseteq 1..made
      BY DEF IInv, TypeOK
    <3>2. data # 0 => data \in 1..made
      BY <3>1
    <3> QED BY <3>1, <3>2 DEF Delete
  <2>2. UNCHANGED <<load, render, keyed, bridge, requests, loadrequest, made, data, fresh, shown, bounds>>
        /\ physics' \in {"assign", "ended"}
    BY DEF Delete
  <2> QED BY <2>1, <2>2 DEF IInv, TypeOK, requests, bounds
<1>2. Handshake'
  BY DEF IInv, TypeOK, Handshake, Ends, Delete, requests, models, bounds
<1>3. Held'
  BY DEF IInv, TypeOK, Handshake, Held, Handing, Deleted, Delete, requests, models, bounds
<1>4. Deleted'
  BY DEF IInv, TypeOK, Handshake, Held, Deleted, Handing, Delete, requests, models, bounds
<1>5. Ends'
  BY DEF IInv, TypeOK, Ends, Keying, MtxIsFree, Running, Delete, requests, models, bounds
<1>6. Count'
  BY DEF IInv, TypeOK, Count, One, Delete, requests, models, bounds
<1>7. KeysSeeLiveData'
  BY DEF IInv, TypeOK, Handshake, Deleted, Handing, KeysSeeLiveData, Keying, MtxIsFree, Ends, Delete, requests, models, bounds
<1> QED BY <1>1, <1>2, <1>3, <1>4, <1>5, <1>6, <1>7 DEF IInv

LEMMA AssignKeeps ==
  ASSUME IInv, Assign
  PROVE  IInv'
<1> USE SimThreadsAssumption
<1>1. TypeOK'
  BY DEF IInv, TypeOK, Assign, Installed, requests, models, bounds
<1>2. Handshake'
  BY DEF IInv, TypeOK, Handshake, Ends, Assign, Installed, requests, models, bounds
<1>3. Held'
  BY DEF IInv, TypeOK, Handshake, Held, Handing, Deleted, Assign, Installed, requests, models, bounds
<1>4. Deleted'
  BY DEF IInv, TypeOK, Handshake, Held, Deleted, Handing, Assign, Installed, requests, models, bounds
<1>5. Ends'
  BY DEF IInv, TypeOK, Ends, Keying, MtxIsFree, Running, Assign, Installed, requests, models, bounds
<1>6. Count'
  BY DEF IInv, TypeOK, Count, One, Assign, Installed, requests, models, bounds
<1>7. KeysSeeLiveData'
  BY DEF IInv, TypeOK, Handshake, Deleted, Handing, KeysSeeLiveData, Keying, MtxIsFree, Ends, Assign, Installed, requests, models, bounds
<1> QED BY <1>1, <1>2, <1>3, <1>4, <1>5, <1>6, <1>7 DEF IInv

LEMMA ForwardKeeps ==
  ASSUME IInv, Forward
  PROVE  IInv'
<1> USE SimThreadsAssumption
<1>1. TypeOK'
  BY DEF IInv, TypeOK, Forward, After, requests, models, bounds
<1>2. Handshake'
  BY DEF IInv, TypeOK, Handshake, Ends, Forward, After, requests, models, bounds
<1>3. Held'
  BY DEF IInv, TypeOK, Handshake, Held, Handing, Deleted, Forward, After, requests, models, bounds
<1>4. Deleted'
  BY DEF IInv, TypeOK, Handshake, Held, Deleted, Handing, Forward, After, requests, models, bounds
<1>5. Ends'
  BY DEF IInv, TypeOK, Ends, Keying, MtxIsFree, Running, Forward, After, requests, models, bounds
<1>6. Count'
  BY DEF IInv, TypeOK, Count, One, Forward, After, requests, models, bounds
<1>7. KeysSeeLiveData'
  BY DEF IInv, TypeOK, Handshake, Deleted, Handing, KeysSeeLiveData, Keying, MtxIsFree, Ends, Forward, After, requests, models, bounds
<1> QED BY <1>1, <1>2, <1>3, <1>4, <1>5, <1>6, <1>7 DEF IInv

LEMMA LoopKeeps ==
  ASSUME IInv, Loop
  PROVE  IInv'
<1> USE SimThreadsAssumption
<1>1. TypeOK'
  BY DEF IInv, TypeOK, Loop, requests, models, bounds
<1>2. Handshake'
  BY DEF IInv, TypeOK, Handshake, Ends, Loop, requests, models, bounds
<1>3. Held'
  BY DEF IInv, TypeOK, Handshake, Held, Handing, Deleted, Loop, requests, models, bounds
<1>4. Deleted'
  BY DEF IInv, TypeOK, Handshake, Held, Deleted, Handing, Loop, requests, models, bounds
<1>5. Ends'
  BY DEF IInv, TypeOK, Ends, Keying, MtxIsFree, Running, Loop, requests, models, bounds
<1>6. Count'
  BY DEF IInv, TypeOK, Count, One, Loop, requests, models, bounds
<1>7. KeysSeeLiveData'
  BY DEF IInv, TypeOK, Handshake, Deleted, Handing, KeysSeeLiveData, Keying, MtxIsFree, Ends, Loop, requests, models, bounds
<1> QED BY <1>1, <1>2, <1>3, <1>4, <1>5, <1>6, <1>7 DEF IInv

LEMMA ReloadKeeps ==
  ASSUME IInv, Reload
  PROVE  IInv'
<1> USE SimThreadsAssumption
<1>1. TypeOK'
  BY DEF IInv, TypeOK, Count, One, Reload, ReloadAsked, ReloadTaken, requests, models, bounds
<1>2. Handshake'
  BY DEF IInv, TypeOK, Handshake, Ends, Reload, ReloadAsked, ReloadTaken, requests, models, bounds
<1>3. Held'
  BY DEF IInv, TypeOK, Handshake, Held, Handing, Deleted, Reload, ReloadAsked, ReloadTaken, requests, models, bounds
<1>4. Deleted'
  BY DEF IInv, TypeOK, Handshake, Held, Deleted, Handing, Reload, ReloadAsked, ReloadTaken, requests, models, bounds
<1>5. Ends'
  BY DEF IInv, TypeOK, Ends, Keying, MtxIsFree, Running, Reload, ReloadAsked, ReloadTaken, requests, models, bounds
<1>6. Count'
  BY DEF IInv, TypeOK, Count, One, Reload, ReloadAsked, ReloadTaken, requests, models, bounds
<1>7. KeysSeeLiveData'
  BY DEF IInv, TypeOK, Handshake, Deleted, Handing, KeysSeeLiveData, Keying, MtxIsFree, Ends, Reload, ReloadAsked, ReloadTaken, requests, models, bounds
<1> QED BY <1>1, <1>2, <1>3, <1>4, <1>5, <1>6, <1>7 DEF IInv

LEMMA StepKeeps ==
  ASSUME IInv, Step
  PROVE  IInv'
<1> USE SimThreadsAssumption
<1>1. TypeOK'
  BY DEF IInv, TypeOK, Step, requests, models, bounds
<1>2. Handshake'
  BY DEF IInv, TypeOK, Handshake, Ends, Step, requests, models, bounds
<1>3. Held'
  BY DEF IInv, TypeOK, Handshake, Held, Handing, Deleted, Step, requests, models, bounds
<1>4. Deleted'
  BY DEF IInv, TypeOK, Handshake, Held, Deleted, Handing, Step, requests, models, bounds
<1>5. Ends'
  BY DEF IInv, TypeOK, Ends, Keying, MtxIsFree, Running, Step, requests, models, bounds
<1>6. Count'
  BY DEF IInv, TypeOK, Count, One, Step, requests, models, bounds
<1>7. KeysSeeLiveData'
  BY DEF IInv, TypeOK, Handshake, Deleted, Handing, KeysSeeLiveData, Keying, MtxIsFree, Ends, Step, requests, models, bounds
<1> QED BY <1>1, <1>2, <1>3, <1>4, <1>5, <1>6, <1>7 DEF IInv

LEMMA EndKeeps ==
  ASSUME IInv, End
  PROVE  IInv'
<1> USE SimThreadsAssumption
<1>1. TypeOK'
  <2>1. freed' \subseteq 1..made
    <3>1. data \in 0..made /\ made \in Nat /\ freed \subseteq 1..made
      BY DEF IInv, TypeOK
    <3>2. data # 0 => data \in 1..made
      BY <3>1
    <3> QED BY <3>1, <3>2 DEF End
  <2>2. UNCHANGED <<load, render, keyed, bridge, requests, loadrequest, made, data, fresh, shown, bounds>>
        /\ physics' \in {"assign", "ended"}
    BY DEF End
  <2> QED BY <2>1, <2>2 DEF IInv, TypeOK, requests, bounds
<1>2. Handshake'
  BY DEF IInv, TypeOK, Handshake, Ends, End, requests, models, bounds
<1>3. Held'
  BY DEF IInv, TypeOK, Handshake, Held, Handing, Deleted, End, requests, models, bounds
<1>4. Deleted'
  BY DEF IInv, TypeOK, Handshake, Held, Deleted, Handing, End, requests, models, bounds
<1>5. Ends'
  BY DEF IInv, TypeOK, Ends, Keying, MtxIsFree, Running, End, requests, models, bounds
<1>6. Count'
  BY DEF IInv, TypeOK, Count, One, End, requests, models, bounds
<1>7. KeysSeeLiveData'
  BY DEF IInv, TypeOK, Handshake, Deleted, Handing, KeysSeeLiveData, Keying, MtxIsFree, Ends, End, requests, models, bounds
<1> QED BY <1>1, <1>2, <1>3, <1>4, <1>5, <1>6, <1>7 DEF IInv

LEMMA PassKeeps ==
  ASSUME IInv, Pass
  PROVE  IInv'
<1> USE SimThreadsAssumption
<1>1. TypeOK'
  <2>1. /\ UNCHANGED <<physics, load, bridge, made, data, fresh, freed>>
        /\ loadrequest' \in 0..3 /\ shown' \in {fresh, shown}
    BY DEF IInv, TypeOK, Pass, TakeModel
  <2>0. Nothing \/ Drop \/ ClickReload \/ Quit \/ Backspace
    BY DEF Pass
  <2>5. render' \in {"unlocked", "spinning", "resetting", "syncing"} /\ keyed' \in {keyed, data}
    BY <2>0 DEF Nothing, Drop, ClickReload, Quit, Backspace
  <2>6. exitrequest' \in 0..2
    BY <2>0 DEF IInv, TypeOK, Nothing, Drop, ClickReload, Quit, Backspace, requests
  <2>2. droprequest' \in BOOLEAN
    <3>1. UNCHANGED droprequest \/ droprequest' = TRUE
      BY <2>0 DEF Nothing, Drop, ClickReload, Quit, Backspace, requests
    <3> QED BY <3>1 DEF IInv, TypeOK
  <2>3. drops' \in 0..MaxDrops /\ clicks' \in 0..MaxReloads
    BY DEF IInv, TypeOK, Pass, Nothing, Drop, ClickReload, Quit, Backspace, bounds
  <2>4. reloads' \in 0..MaxReloads
    <3>1. reloads \in 0..MaxReloads /\ reloads <= clicks /\ clicks \in 0..MaxReloads
      BY DEF IInv, TypeOK, Count
    <3>2. reloads' = reloads \/ (clicks < MaxReloads /\ reloads' = reloads + 1)
      BY <2>0 DEF Nothing, Drop, ClickReload, Quit, Backspace, requests
    <3> QED BY <3>1, <3>2
  <2> QED BY <2>1, <2>2, <2>3, <2>4, <2>5, <2>6 DEF IInv, TypeOK
<1>2. Handshake'
  BY DEF IInv, TypeOK, Handshake, Ends, Pass, TakeModel, Nothing, Drop, ClickReload, Quit, Backspace, requests, models, bounds
<1>3. Held'
  BY DEF IInv, TypeOK, Handshake, Held, Handing, Deleted, Pass, TakeModel, Nothing, Drop, ClickReload, Quit, Backspace, requests, models, bounds
<1>4. Deleted'
  BY DEF IInv, TypeOK, Handshake, Held, Deleted, Handing, Pass, TakeModel, Nothing, Drop, ClickReload, Quit, Backspace, requests, models, bounds
<1>5. Ends'
  BY DEF IInv, TypeOK, Ends, Keying, MtxIsFree, Running, Pass, TakeModel, Nothing, Drop, ClickReload, Quit, Backspace, requests, models, bounds
<1>6. Count'
  BY DEF IInv, TypeOK, Count, One, Pass, TakeModel, Nothing, Drop, ClickReload, Quit, Backspace, requests, models, bounds
<1>7. KeysSeeLiveData'
  BY DEF IInv, TypeOK, Handshake, Deleted, Handing, KeysSeeLiveData, Keying, MtxIsFree, Ends, Pass, TakeModel, Nothing, Drop, ClickReload, Quit, Backspace, requests, models, bounds
<1> QED BY <1>1, <1>2, <1>3, <1>4, <1>5, <1>6, <1>7 DEF IInv

LEMMA SpinKeeps ==
  ASSUME IInv, Spin
  PROVE  IInv'
<1> USE SimThreadsAssumption
<1>1. TypeOK'
  BY DEF IInv, TypeOK, Spin, requests, models, bounds
<1>2. Handshake'
  BY DEF IInv, TypeOK, Handshake, Ends, Spin, requests, models, bounds
<1>3. Held'
  BY DEF IInv, TypeOK, Handshake, Held, Handing, Deleted, Spin, requests, models, bounds
<1>4. Deleted'
  BY DEF IInv, TypeOK, Handshake, Held, Deleted, Handing, Spin, requests, models, bounds
<1>5. Ends'
  BY DEF IInv, TypeOK, Ends, Keying, MtxIsFree, Running, Spin, requests, models, bounds
<1>6. Count'
  BY DEF IInv, TypeOK, Count, One, Spin, requests, models, bounds
<1>7. KeysSeeLiveData'
  BY DEF IInv, TypeOK, Handshake, Deleted, Handing, KeysSeeLiveData, Keying, MtxIsFree, Ends, Spin, requests, models, bounds
<1> QED BY <1>1, <1>2, <1>3, <1>4, <1>5, <1>6, <1>7 DEF IInv

LEMMA ForwardKeyKeeps ==
  ASSUME IInv, ForwardKey
  PROVE  IInv'
<1> USE SimThreadsAssumption
<1>1. TypeOK'
  BY DEF IInv, TypeOK, ForwardKey, requests, models, bounds
<1>2. Handshake'
  BY DEF IInv, TypeOK, Handshake, Ends, ForwardKey, requests, models, bounds
<1>3. Held'
  BY DEF IInv, TypeOK, Handshake, Held, Handing, Deleted, ForwardKey, requests, models, bounds
<1>4. Deleted'
  BY DEF IInv, TypeOK, Handshake, Held, Deleted, Handing, ForwardKey, requests, models, bounds
<1>5. Ends'
  BY DEF IInv, TypeOK, Ends, Keying, MtxIsFree, Running, ForwardKey, requests, models, bounds
<1>6. Count'
  BY DEF IInv, TypeOK, Count, One, ForwardKey, requests, models, bounds
<1>7. KeysSeeLiveData'
  BY DEF IInv, TypeOK, Handshake, Deleted, Handing, KeysSeeLiveData, Keying, MtxIsFree, Ends, ForwardKey, requests, models, bounds
<1> QED BY <1>1, <1>2, <1>3, <1>4, <1>5, <1>6, <1>7 DEF IInv

LEMMA KeyDoneKeeps ==
  ASSUME IInv, KeyDone
  PROVE  IInv'
<1> USE SimThreadsAssumption
<1>1. TypeOK'
  BY DEF IInv, TypeOK, KeyDone, requests, models, bounds
<1>2. Handshake'
  BY DEF IInv, TypeOK, Handshake, Ends, KeyDone, requests, models, bounds
<1>3. Held'
  BY DEF IInv, TypeOK, Handshake, Held, Handing, Deleted, KeyDone, requests, models, bounds
<1>4. Deleted'
  BY DEF IInv, TypeOK, Handshake, Held, Deleted, Handing, KeyDone, requests, models, bounds
<1>5. Ends'
  BY DEF IInv, TypeOK, Ends, Keying, MtxIsFree, Running, KeyDone, requests, models, bounds
<1>6. Count'
  BY DEF IInv, TypeOK, Count, One, KeyDone, requests, models, bounds
<1>7. KeysSeeLiveData'
  BY DEF IInv, TypeOK, Handshake, Deleted, Handing, KeysSeeLiveData, Keying, MtxIsFree, Ends, KeyDone, requests, models, bounds
<1> QED BY <1>1, <1>2, <1>3, <1>4, <1>5, <1>6, <1>7 DEF IInv

LEMMA CrashKeeps ==
  ASSUME IInv, Crash
  PROVE  IInv'
<1> USE SimThreadsAssumption
<1>1. TypeOK'
  BY DEF IInv, TypeOK, Crash, requests, models, bounds
<1>2. Handshake'
  BY DEF IInv, TypeOK, Handshake, Ends, Crash, requests, models, bounds
<1>3. Held'
  BY DEF IInv, TypeOK, Handshake, Held, Handing, Deleted, Crash, requests, models, bounds
<1>4. Deleted'
  BY DEF IInv, TypeOK, Handshake, Held, Deleted, Handing, Crash, requests, models, bounds
<1>5. Ends'
  BY DEF IInv, TypeOK, Ends, Keying, MtxIsFree, Running, Crash, requests, models, bounds
<1>6. Count'
  BY DEF IInv, TypeOK, Count, One, Crash, requests, models, bounds
<1>7. KeysSeeLiveData'
  BY DEF IInv, TypeOK, Handshake, Deleted, Handing, KeysSeeLiveData, Keying, MtxIsFree, Ends, Crash, requests, models, bounds
<1> QED BY <1>1, <1>2, <1>3, <1>4, <1>5, <1>6, <1>7 DEF IInv

LEMMA SyncedKeeps ==
  ASSUME IInv, Synced
  PROVE  IInv'
<1> USE SimThreadsAssumption
<1>1. TypeOK'
  BY DEF IInv, TypeOK, Synced, requests, models, bounds
<1>2. Handshake'
  BY DEF IInv, TypeOK, Handshake, Ends, Synced, requests, models, bounds
<1>3. Held'
  BY DEF IInv, TypeOK, Handshake, Held, Handing, Deleted, Synced, requests, models, bounds
<1>4. Deleted'
  BY DEF IInv, TypeOK, Handshake, Held, Deleted, Handing, Synced, requests, models, bounds
<1>5. Ends'
  BY DEF IInv, TypeOK, Ends, Keying, MtxIsFree, Running, Synced, requests, models, bounds
<1>6. Count'
  BY DEF IInv, TypeOK, Count, One, Synced, requests, models, bounds
<1>7. KeysSeeLiveData'
  BY DEF IInv, TypeOK, Handshake, Deleted, Handing, KeysSeeLiveData, Keying, MtxIsFree, Ends, Synced, requests, models, bounds
<1> QED BY <1>1, <1>2, <1>3, <1>4, <1>5, <1>6, <1>7 DEF IInv

LEMMA LeaveKeeps ==
  ASSUME IInv, Leave
  PROVE  IInv'
<1> USE SimThreadsAssumption
<1>1. TypeOK'
  BY DEF IInv, TypeOK, Leave, requests, models, bounds
<1>2. Handshake'
  BY DEF IInv, TypeOK, Handshake, Ends, Leave, requests, models, bounds
<1>3. Held'
  BY DEF IInv, TypeOK, Handshake, Held, Handing, Deleted, Leave, requests, models, bounds
<1>4. Deleted'
  BY DEF IInv, TypeOK, Handshake, Held, Deleted, Handing, Leave, requests, models, bounds
<1>5. Ends'
  BY DEF IInv, TypeOK, Ends, Keying, MtxIsFree, Running, Leave, requests, models, bounds
<1>6. Count'
  BY DEF IInv, TypeOK, Count, One, Leave, requests, models, bounds
<1>7. KeysSeeLiveData'
  BY DEF IInv, TypeOK, Handshake, Deleted, Handing, KeysSeeLiveData, Keying, MtxIsFree, Ends, Leave, requests, models, bounds
<1> QED BY <1>1, <1>2, <1>3, <1>4, <1>5, <1>6, <1>7 DEF IInv

LEMMA BridgeKeeps ==
  ASSUME IInv, Bridge
  PROVE  IInv'
<1> USE SimThreadsAssumption
<1>1. TypeOK'
  BY DEF IInv, TypeOK, Bridge, requests, models, bounds
<1>2. Handshake'
  BY DEF IInv, TypeOK, Handshake, Ends, Bridge, requests, models, bounds
<1>3. Held'
  BY DEF IInv, TypeOK, Handshake, Held, Handing, Deleted, Bridge, requests, models, bounds
<1>4. Deleted'
  BY DEF IInv, TypeOK, Handshake, Held, Deleted, Handing, Bridge, requests, models, bounds
<1>5. Ends'
  BY DEF IInv, TypeOK, Ends, Keying, MtxIsFree, Running, Bridge, requests, models, bounds
<1>6. Count'
  BY DEF IInv, TypeOK, Count, One, Bridge, requests, models, bounds
<1>7. KeysSeeLiveData'
  BY DEF IInv, TypeOK, Handshake, Deleted, Handing, KeysSeeLiveData, Keying, MtxIsFree, Ends, Bridge, requests, models, bounds
<1> QED BY <1>1, <1>2, <1>3, <1>4, <1>5, <1>6, <1>7 DEF IInv

LEMMA NextIInv == IInv /\ [Next]_vars => IInv'
<1> SUFFICES ASSUME IInv, [Next]_vars PROVE IInv'
  OBVIOUS
<1>1. CASE Message \/ LoadModel \/ LoadFails \/ Clear \/ Request
  BY <1>1, MessageKeeps, LoadModelKeeps, LoadFailsKeeps, ClearKeeps, RequestKeeps
<1>2. CASE Wait \/ Delete \/ Assign \/ Forward \/ Loop
  BY <1>2, WaitKeeps, DeleteKeeps, AssignKeeps, ForwardKeeps, LoopKeeps
<1>3. CASE Reload \/ Step \/ End \/ Pass
  BY <1>3, ReloadKeeps, StepKeeps, EndKeeps, PassKeeps
<1>4. CASE Spin \/ Synced \/ Leave \/ Bridge
  BY <1>4, SpinKeeps, SyncedKeeps, LeaveKeeps, BridgeKeeps
<1>6. CASE ForwardKey \/ KeyDone \/ Crash
  BY <1>6, ForwardKeyKeeps, KeyDoneKeeps, CrashKeeps
<1>5. CASE UNCHANGED vars
  BY <1>5 DEF IInv, TypeOK, Handshake, Held, Handing, Deleted, Ends, Count, One,
              KeysSeeLiveData, Keying, vars, requests, models, bounds
<1> QED BY <1>1, <1>2, <1>3, <1>4, <1>5, <1>6 DEF Next

LEMMA Inductive == Spec => []IInv
  BY InitIInv, NextIInv, PTL DEF Spec

-----------------------------------------------------------------------------
(* What follows from it *)

\* The variables keep their types; no more models are made than were asked for.
THEOREM SimTypes == Spec => []TypeOK
  BY Inductive, PTL DEF IInv

\* What the window shows was not deleted, for any number of drops and reloads.
THEOREM SimRenderSeesLiveData == Spec => []RenderSeesLiveData
<1>1. IInv => RenderSeesLiveData
  <2> SUFFICES ASSUME IInv, render = "syncing", shown \in freed PROVE FALSE
    BY DEF RenderSeesLiveData
  <2>1. physics \notin {"ended", "crashed"}
    BY DEF IInv, Ends, Keying
  <2>2. shown \in Nat /\ made \in Nat /\ data \in Nat /\ freed \subseteq Nat
    BY DEF IInv, TypeOK
  <2>3. CASE load = "first" /\ Handing
    BY <2>3 DEF IInv, Deleted
  <2>4. CASE physics = "assign"
    BY <2>2, <2>4 DEF IInv, Held, Deleted
  <2>5. CASE ~(load = "first" /\ Handing) /\ physics # "assign"
    <3>1. shown >= data
      BY <2>1, <2>2, <2>5 DEF IInv, Held, Handing
    <3> QED BY <2>1, <2>2, <2>5, <3>1 DEF IInv, Deleted
  <2> QED BY <2>3, <2>4, <2>5
<1> QED BY <1>1, Inductive, PTL

\* Physics steps data that is there.
THEOREM SimStepsLiveData == Spec => []StepsLiveData
<1>1. IInv => StepsLiveData
  BY DEF IInv, TypeOK, Deleted, StepsLiveData
<1> QED BY <1>1, Inductive, PTL

\* Between two loads the window shows the data that physics steps.
THEOREM SimShownIsStepped == Spec => []ShownIsStepped
<1>1. IInv => ShownIsStepped
  BY DEF IInv, Held, Handing, ShownIsStepped
<1> QED BY <1>1, Inductive, PTL

\* A Backspace before the end of a hand-over uses data that is there.
THEOREM SimKeysSeeLiveData == Spec => []KeysSeeLiveData
  BY Inductive, PTL DEF IInv

\* The hand-over keeps what the window shows, what physics steps and what a
\* Backspace meets until then, for any number of drops and reloads.
THEOREM SimHandoverIsSafe == Spec => []HandoverIsSafe
<1>1. RenderSeesLiveData /\ StepsLiveData /\ KeysSeeLiveData => HandoverIsSafe
  BY DEF HandoverIsSafe
<1> QED BY <1>1, SimRenderSeesLiveData, SimStepsLiveData, SimKeysSeeLiveData, PTL
=============================================================================
