---------------------------- MODULE GamepadProofs ----------------------------
(***************************************************************************)
(* What the way of a gamepad to the controller promises, for every set of  *)
(* controls, devices, requests and pads, and every number of writes, power *)
(* failures and pads plugged in.                                           *)
(***************************************************************************)
EXTENDS Gamepad, FiniteSetTheorems, SequenceTheorems, TLAPS

gamepadVars == <<moving, vars, storeVars, discoveryVars, robotVars, simVars>>

\* Each stage of a behaviour is a behaviour of its module.
LEMMA Stagewise ==
    GamepadSpec => Spec /\ Store!Spec /\ Discovery!Spec /\ Robot!Spec /\ Sim!Spec
<1>1. GamepadInit => Init /\ Store!Init /\ Discovery!Init /\ Robot!Init /\ Sim!Init
  BY DEF GamepadInit
<1>2. [GamepadNext]_gamepadVars => [Next]_vars
  BY DEF GamepadNext, gamepadVars, vars
<1>3. [GamepadNext]_gamepadVars => [Store!Next]_(Store!vars)
  BY DEF GamepadNext, gamepadVars, storeVars, Store!vars, Store!store
<1>4. [GamepadNext]_gamepadVars => [Discovery!Next]_(Discovery!vars)
  BY DEF GamepadNext, gamepadVars, discoveryVars, Discovery!vars
<1>5. [GamepadNext]_gamepadVars => [Robot!Next]_(Robot!vars)
  BY DEF GamepadNext, gamepadVars, robotVars, Robot!vars
<1>6. [GamepadNext]_gamepadVars => [Sim!Next]_(Sim!vars)
  BY DEF GamepadNext, gamepadVars, simVars, Sim!vars
<1>7. QED
  BY <1>1, <1>2, <1>3, <1>4, <1>5, <1>6, PTL
     DEF GamepadSpec, Spec, Store!Spec, Discovery!Spec, Robot!Spec, Sim!Spec, gamepadVars

-----------------------------------------------------------------------------
(* The two joystick readers *)

\* What the robot's reader holds is neutral once the device is lost, and applied
\* at the end of the tick that noticed it.
RobotInv ==
    /\ Robot!TypeOK
    /\ tick = "read" => connected
    /\ ~connected => held = Robot!Input!Neutral
    /\ ~connected /\ tick # "apply" => robotOut = Robot!Input!Neutral

LEMMA RobotTypes ==
    ASSUME Robot!TypeOK, [Robot!Next]_(Robot!vars)
    PROVE  Robot!TypeOK'
<1> USE GamepadAssumption DEF Robot!TypeOK, Robot!RobotAssumption
<1>1. Robot!Input!Neutral \in Robot!Input!Inputs
  BY DEF Robot!Input!Neutral, Robot!Input!Inputs, Robot!Input!Deflections
<1>2. ASSUME NEW i \in Robot!Input!Inputs
      PROVE  Robot!Input!Followed(i) \in Robot!Input!Inputs
  BY <1>2 DEF Robot!Input!Followed, Robot!Input!Smoothed, Robot!Input!Inputs,
              Robot!Input!Deflections
<1>3. ASSUME NEW e \in Robot!Events
      PROVE  Robot!Handled(e) \in Robot!Input!Inputs
  <2>1. CASE e.kind = "axis"
    <3>1. Robot!Handled(e) = [held EXCEPT !.axis = Robot!Normalized(e.value)]
      BY <2>1 DEF Robot!Handled
    <3>2. Robot!Normalized(e.value) \in Robot!Input!Deflections
      BY <1>3, <2>1 DEF Robot!Normalized, Robot!Events, Robot!Input!Deflections
    <3>3. QED
      BY <3>1, <3>2 DEF Robot!Input!Inputs
  <2>2. CASE e.kind = "button"
    <3>1. Robot!Handled(e) = [held EXCEPT !.button = e.value # 0]
      BY <2>2 DEF Robot!Handled
    <3>2. QED
      BY <3>1 DEF Robot!Input!Inputs
  <2>3. CASE e.kind # "axis" /\ e.kind # "button"
    BY <2>3 DEF Robot!Handled
  <2>4. QED
    BY <2>1, <2>2, <2>3
<1>4. CASE UNCHANGED Robot!vars
  BY <1>4 DEF Robot!vars
<1>5. CASE Robot!Vanish
  <2>1. robotQueue' \in Seq(Robot!Events)
    BY <1>5, EmptySeq DEF Robot!Vanish
  <2>2. QED
    BY <1>5, <2>1 DEF Robot!Vanish
<1>6. ASSUME NEW e \in Robot!Events, Robot!Produce(e) PROVE Robot!TypeOK'
  BY <1>6 DEF Robot!Produce
<1>7. CASE Robot!Poll
  BY <1>7 DEF Robot!Poll
<1>8. CASE Robot!ReadEvent
  BY <1>8, <1>3 DEF Robot!ReadEvent
<1>9. CASE Robot!ReadNothing
  BY <1>9 DEF Robot!ReadNothing
<1>10. CASE Robot!ReadFails
  BY <1>10, <1>1 DEF Robot!ReadFails, Robot!Released
<1>11. CASE Robot!Apply
  BY <1>11, <1>2 DEF Robot!Apply, Robot!Applied
<1>12. CASE Robot!Repeat
  BY <1>12, <1>2 DEF Robot!Repeat, Robot!Applied
<1>13. QED
  BY <1>4, <1>5, <1>6, <1>7, <1>8, <1>9, <1>10, <1>11, <1>12 DEF Robot!Next, Robot!Tick

LEMMA RobotInvariant == Robot!Spec => []RobotInv
<1> USE GamepadAssumption
<1>1. Robot!Init => RobotInv
  BY DEF Robot!Init, RobotInv, Robot!TypeOK, Robot!Input!Neutral, Robot!Input!Inputs,
         Robot!Input!Deflections, Robot!RobotAssumption
<1>2. RobotInv /\ [Robot!Next]_(Robot!vars) => RobotInv'
  <2> SUFFICES ASSUME RobotInv, [Robot!Next]_(Robot!vars) PROVE RobotInv'
    OBVIOUS
  <2>1. Robot!TypeOK'
    BY RobotTypes DEF RobotInv
  <2>2. CASE UNCHANGED Robot!vars
    BY <2>1, <2>2 DEF RobotInv, Robot!vars
  <2>3. CASE Robot!Next
    BY <2>1, <2>3
       DEF RobotInv, Robot!Next, Robot!Tick, Robot!Vanish, Robot!Produce, Robot!Poll,
           Robot!ReadEvent, Robot!ReadNothing, Robot!ReadFails, Robot!Released,
           Robot!Apply, Robot!Repeat, Robot!Applied
  <2>4. QED
    BY <2>2, <2>3
<1>3. QED
  BY <1>1, <1>2, PTL DEF Robot!Spec

\* Whatever the device does, the robot's reader is an input source: its outputs
\* follow, and are neutral at once and for good when the device is lost.
THEOREM RobotIsInputSource == GamepadSpec => Robot!IsInputSource
<1>1. Robot!Init => Robot!Input!SourceInit
  BY DEF Robot!Init, Robot!Input!SourceInit
<1>2. RobotInv /\ [Robot!Next]_(Robot!vars)
      => [Robot!Input!SourceNext]_<<robotOut, ~connected /\ tick # "apply">>
  <2> SUFFICES ASSUME RobotInv, [Robot!Next]_(Robot!vars)
               PROVE  \/ Robot!Input!SourceNext
                      \/ UNCHANGED <<robotOut, ~connected /\ tick # "apply">>
    OBVIOUS
  <2>1. CASE UNCHANGED Robot!vars
    BY <2>1 DEF Robot!vars
  <2>2. CASE Robot!Apply /\ connected
    <3>1. held \in Robot!Input!Inputs
      BY DEF RobotInv, Robot!TypeOK
    <3>2. Robot!Input!Follow(held)
      BY <2>2 DEF Robot!Apply, Robot!Applied, Robot!Input!Follow
    <3>3. QED
      BY <3>1, <3>2 DEF Robot!Input!SourceNext
  <2>3. CASE Robot!Apply /\ ~connected
    BY <2>3 DEF Robot!Apply, Robot!Applied, RobotInv, Robot!Input!SourceNext,
                Robot!Input!Lose
  <2>4. CASE Robot!Repeat
    BY <2>4 DEF Robot!Repeat, Robot!Applied, RobotInv
  <2>5. CASE Robot!Vanish \/ Robot!Poll \/ Robot!ReadEvent \/ Robot!ReadNothing
             \/ Robot!ReadFails \/ \E e \in Robot!Events : Robot!Produce(e)
    BY <2>5 DEF Robot!Vanish, Robot!Poll, Robot!ReadEvent, Robot!ReadNothing,
                Robot!ReadFails, Robot!Produce, RobotInv
  <2>6. QED
    BY <2>1, <2>2, <2>3, <2>4, <2>5 DEF Robot!Next, Robot!Tick
<1>3. QED
  BY <1>1, <1>2, RobotInvariant, Stagewise, PTL
     DEF Robot!Spec, Robot!IsInputSource, Robot!Input!SourceSpec

\* The simulator's reader is neutral from the read that noticed the loss.
SimInv ==
    /\ Sim!TypeOK
    /\ disconnected => at # "drain" /\ out = Sim!Input!Neutral

LEMMA SimTypes ==
    ASSUME Sim!TypeOK, [Sim!Next]_(Sim!vars)
    PROVE  Sim!TypeOK'
<1> USE GamepadAssumption DEF Sim!TypeOK, Sim!SimAssumption
<1>1. Sim!Input!Neutral \in Sim!Input!Inputs
  BY DEF Sim!Input!Neutral, Sim!Input!Inputs, Sim!Input!Deflections
<1>2. Sim!Input!Followed(Sim!Logical(snapshot)) \in Sim!Input!Inputs
  BY DEF Sim!Input!Followed, Sim!Input!Smoothed, Sim!Input!Inputs, Sim!Logical,
         Sim!Input!Deflections, Sim!Snapshots
<1>3. CASE UNCHANGED Sim!vars
  BY <1>3 DEF Sim!vars
<1>4. CASE Sim!Vanish
  <2>1. queue' \in Seq(Sim!Events)
    BY <1>4, EmptySeq DEF Sim!Vanish
  <2>2. QED
    BY <1>4, <2>1 DEF Sim!Vanish
<1>5. ASSUME NEW e \in Sim!Events, Sim!Produce(e) PROVE Sim!TypeOK'
  BY <1>5 DEF Sim!Produce
<1>6. CASE Sim!Update
  BY <1>6 DEF Sim!Update
<1>7. CASE Sim!DrainEvent
  <2>1. Head(queue) \in Sim!Events /\ queue' \in Seq(Sim!Events)
    BY <1>7, HeadTailProperties DEF Sim!DrainEvent
  <2>2. snapshot' \in Sim!Snapshots
    BY <1>7, <2>1 DEF Sim!DrainEvent, Sim!Snapshots, Sim!Events
  <2>3. QED
    BY <1>7, <2>1, <2>2 DEF Sim!DrainEvent
<1>8. CASE Sim!Publish
  BY <1>8, <1>2 DEF Sim!Publish
<1>9. CASE Sim!Disconnect
  BY <1>9, <1>1 DEF Sim!Disconnect, Sim!AtLoss
<1>10. CASE Sim!Throw
  BY <1>10 DEF Sim!Throw
<1>11. CASE Sim!Skip
  BY <1>11 DEF Sim!Skip, Sim!vars
<1>12. QED
  BY <1>3, <1>4, <1>5, <1>6, <1>7, <1>8, <1>9, <1>10, <1>11 DEF Sim!Next, Sim!Round

LEMMA SimInvariant == Sim!Spec => []SimInv
<1> USE GamepadAssumption
<1>1. Sim!Init => SimInv
  <2>1. <<>> \in Seq(Sim!Events)
    BY EmptySeq
  <2>2. [axis |-> 0, button |-> 0] \in Sim!Snapshots
    BY DEF Sim!Snapshots, Sim!Input!Deflections, Sim!SimAssumption
  <2>3. Sim!Input!Neutral \in Sim!Input!Inputs
    BY DEF Sim!Input!Neutral, Sim!Input!Inputs, Sim!Input!Deflections, Sim!SimAssumption
  <2>4. QED
    BY <2>1, <2>2, <2>3 DEF Sim!Init, SimInv, Sim!TypeOK
<1>2. SimInv /\ [Sim!Next]_(Sim!vars) => SimInv'
  <2> SUFFICES ASSUME SimInv, [Sim!Next]_(Sim!vars) PROVE SimInv'
    OBVIOUS
  <2>1. Sim!TypeOK'
    BY SimTypes DEF SimInv
  <2>2. CASE UNCHANGED Sim!vars
    BY <2>1, <2>2 DEF SimInv, Sim!vars
  <2>3. CASE Sim!Next
    BY <2>1, <2>3
       DEF SimInv, Sim!Next, Sim!Round, Sim!Vanish, Sim!Produce, Sim!Update,
           Sim!DrainEvent, Sim!Publish, Sim!Disconnect, Sim!AtLoss, Sim!Throw, Sim!Skip,
           Sim!vars
  <2>4. QED
    BY <2>2, <2>3
<1>3. QED
  BY <1>1, <1>2, PTL DEF Sim!Spec

\* So is the simulator's reader.
THEOREM SimIsInputSource == GamepadSpec => Sim!IsInputSource
<1>1. Sim!Init => Sim!Input!SourceInit
  BY DEF Sim!Init, Sim!Input!SourceInit
<1>2. SimInv /\ [Sim!Next]_(Sim!vars) => [Sim!Input!SourceNext]_<<out, disconnected>>
  <2> SUFFICES ASSUME SimInv, [Sim!Next]_(Sim!vars)
               PROVE  Sim!Input!SourceNext \/ UNCHANGED <<out, disconnected>>
    OBVIOUS
  <2>1. CASE UNCHANGED Sim!vars
    BY <2>1 DEF Sim!vars
  <2>2. CASE Sim!Publish
    <3>1. Sim!Logical(snapshot) \in Sim!Input!Inputs
      BY GamepadAssumption
         DEF SimInv, Sim!TypeOK, Sim!Logical, Sim!Snapshots, Sim!Input!Inputs,
             Sim!Input!Deflections, Sim!SimAssumption
    <3>2. Sim!Input!Follow(Sim!Logical(snapshot))
      BY <2>2 DEF Sim!Publish, Sim!Input!Follow, SimInv, Sim!TypeOK
    <3>3. QED
      BY <3>1, <3>2 DEF Sim!Input!SourceNext
  <2>3. CASE Sim!Disconnect
    BY <2>3 DEF Sim!Disconnect, Sim!AtLoss, SimInv, Sim!Input!SourceNext, Sim!Input!Lose
  <2>4. CASE Sim!Vanish \/ Sim!Update \/ Sim!DrainEvent \/ Sim!Throw \/ Sim!Skip
             \/ \E e \in Sim!Events : Sim!Produce(e)
    BY <2>4 DEF Sim!Vanish, Sim!Update, Sim!DrainEvent, Sim!Throw, Sim!Skip, Sim!Produce,
                Sim!vars
  <2>5. QED
    BY <2>1, <2>2, <2>3, <2>4 DEF Sim!Next, Sim!Round
<1>3. QED
  BY <1>1, <1>2, SimInvariant, Stagewise, PTL
     DEF Sim!Spec, Sim!IsInputSource, Sim!Input!SourceSpec

-----------------------------------------------------------------------------
(* The two validations of a profile *)

\* A reader that has not refused has walked past bindings that are on the device
\* and do not conflict with one another.
Clean(r) ==
    /\ Missing(profile) = {}
    /\ \A c \in walked[r] : Within(profile[c])
    /\ \A c, d \in walked[r] : c # d => ~Conflict(c, profile[c], d, profile[d])

\* For each axis Python remembers one of the directional controls on it that it
\* has walked past, if there is any.
Remembers ==
    \A i \in Axes :
        /\ lastHat[i] = Nobody =>
              \A c \in walked["python"] : ~(Hat(profile[c]) /\ profile[c].index = i)
        /\ lastHat[i] # Nobody =>
              /\ lastHat[i] \in walked["python"]
              /\ Hat(profile[lastHat[i]]) /\ profile[lastHat[i]].index = i

ValidationInv ==
    /\ TypeOK
    /\ \A r \in Readers :
          /\ verdict[r] # "invalid" => Clean(r)
          /\ verdict[r] = "valid" => walked[r] = Controls
          /\ verdict[r] = "invalid" => ~Usable(profile)
    /\ Remembers

\* Two directional controls that share an axis are each other's only partners.
LEMMA OneOpposite ==
    ASSUME NEW c, NEW d, NEW e, {c, d} \in Opposites, {e, d} \in Opposites,
           c # d, e # d
    PROVE  c = e
  BY DEF Opposites

\* A directional control is on an axis the profile can name.
LEMMA HatOnAxis ==
    ASSUME TypeOK, NEW c \in Controls, Hat(profile[c])
    PROVE  profile[c].index \in Axes
  BY DEF TypeOK, Profiles, BindingsOf, OnAxis, OnButton, Hat, Unsupported

LEMMA NobodyIsNoControl == Nobody \notin Controls
  BY ProfileAssumption
     DEF Nobody, StickControls, TriggerControls, ButtonControls, DpadControls

\* Each reader refuses a binding exactly if it is off the device or conflicts
\* with one the reader has walked past: for Python's sake, whom it remembers is
\* enough.
LEMMA RefusedExactly ==
    ASSUME ValidationInv, NEW r \in Readers, NEW c \in Controls \ walked[r],
           verdict[r] = "reading"
    PROVE  Refused(r, c) <=>
               \/ ~Within(profile[c])
               \/ \E d \in walked[r] : Conflict(c, profile[c], d, profile[d])
<1> DEFINE i == profile[c].index
           l == lastHat[i]
<1>1. Taken(r, c) <=>
          \E d \in walked[r] : \/ Analog(profile[c]) /\ Analog(profile[d]) /\ i = profile[d].index
                               \/ Digital(profile[c]) /\ Digital(profile[d]) /\ i = profile[d].index
  BY DEF Taken
<1>2. ASSUME r = "python", Hat(profile[c])
      PROVE  PythonHatTaken(c) <=> \E d \in walked[r] : HatClash(c, profile[c], d, profile[d])
  <2>1. i \in Axes
    BY <1>2, HatOnAxis DEF ValidationInv
  <2>2. CASE l = Nobody
    <3>1. \A d \in walked[r] : ~HatClash(c, profile[c], d, profile[d])
      BY <1>2, <2>1, <2>2 DEF ValidationInv, Remembers, HatClash
    <3>2. QED
      BY <2>2, <3>1 DEF PythonHatTaken
  <2>3. CASE l # Nobody
    <3>1. l \in walked[r] /\ Hat(profile[l]) /\ profile[l].index = i
      BY <1>2, <2>1, <2>3 DEF ValidationInv, Remembers
    <3>2. ASSUME NEW d \in walked[r], HatClash(c, profile[c], d, profile[d]), d # l,
                 ~HatClash(c, profile[c], l, profile[l])
          PROVE  FALSE
      <4>1. ~HatClash(d, profile[d], l, profile[l])
        BY <3>1, <3>2 DEF ValidationInv, Clean, Conflict
      <4>2. {d, l} \in Opposites /\ {c, l} \in Opposites
        BY <1>2, <3>1, <3>2, <4>1 DEF HatClash
      <4>3. QED
        BY <3>1, <3>2, <4>2, OneOpposite
    <3>3. QED
      BY <2>3, <3>1, <3>2 DEF PythonHatTaken
  <2>4. QED
    BY <2>2, <2>3
<1>3. ASSUME r = "cpp"
      PROVE  CppHatTaken(c) <=> \E d \in walked[r] : HatClash(c, profile[c], d, profile[d])
  BY <1>3 DEF CppHatTaken
<1>4. ~Hat(profile[c]) => \A d \in walked[r] : ~HatClash(c, profile[c], d, profile[d])
  BY DEF HatClash
<1>5. r = "python" \/ r = "cpp"
  BY DEF Readers
<1>6. CASE r = "python"
  BY <1>1, <1>2, <1>4, <1>6 DEF Refused, Conflict
<1>7. CASE r = "cpp"
  BY <1>1, <1>3, <1>4, <1>7 DEF Refused, Conflict
<1>8. QED
  BY <1>5, <1>6, <1>7

LEMMA ValidationInductive == ValidationInv /\ [Next]_vars => ValidationInv'
<1> SUFFICES ASSUME ValidationInv, [Next]_vars PROVE ValidationInv'
  OBVIOUS
<1>1. CASE UNCHANGED vars
  BY <1>1 DEF vars, ValidationInv, TypeOK, Clean, Remembers, Usable, ConflictFree, Missing
<1>2. ASSUME NEW r \in Readers, NEW c \in Controls, Walk(r, c) PROVE ValidationInv'
  <2>1. /\ verdict[r] = "reading" /\ c \in Controls \ walked[r]
        /\ profile' = profile /\ walked' = [walked EXCEPT ![r] = @ \cup {c}]
    BY <1>2 DEF Walk, Turn
  <2>2. verdict' = [verdict EXCEPT ![r] =
                       IF Refused(r, c) THEN "invalid"
                       ELSE IF walked[r] \cup {c} = Controls THEN "valid" ELSE "reading"]
    BY <1>2, <2>1 DEF Walk
  <2>3. TypeOK'
    <3>1. verdict' \in [Readers -> Verdicts] /\ walked' \in [Readers -> SUBSET Controls]
      BY <2>1, <2>2 DEF ValidationInv, TypeOK, Verdicts
    <3>2. lastHat' \in [Axes -> Controls \cup {Nobody}]
      BY <1>2 DEF Walk, ValidationInv, TypeOK
    <3>3. QED
      BY <2>1, <3>1, <3>2 DEF ValidationInv, TypeOK
  <2>4. Refused(r, c) <=>
            \/ ~Within(profile[c])
            \/ \E d \in walked[r] : Conflict(c, profile[c], d, profile[d])
    BY <2>1, RefusedExactly
  <2>5. ASSUME NEW q \in Readers, q # r
        PROVE  /\ verdict'[q] # "invalid" => Clean(q)'
               /\ verdict'[q] = "valid" => walked'[q] = Controls
               /\ verdict'[q] = "invalid" => ~Usable(profile')
    <3>1. verdict'[q] = verdict[q] /\ walked'[q] = walked[q]
      BY <2>1, <2>2, <2>5 DEF ValidationInv, TypeOK
    <3>2. QED
      BY <2>1, <3>1 DEF ValidationInv, Clean
  <2>6. /\ verdict'[r] # "invalid" => Clean(r)'
        /\ verdict'[r] = "valid" => walked'[r] = Controls
        /\ verdict'[r] = "invalid" => ~Usable(profile')
    <3>1. walked'[r] = walked[r] \cup {c} /\ walked[r] \subseteq Controls
      BY <2>1 DEF ValidationInv, TypeOK
    <3>2. verdict'[r] = IF Refused(r, c) THEN "invalid"
                        ELSE IF walked[r] \cup {c} = Controls THEN "valid" ELSE "reading"
      BY <2>2 DEF ValidationInv, TypeOK
    <3>3. CASE Refused(r, c)
      <4>1. ~Usable(profile)
        BY <2>1, <2>4, <3>1, <3>3 DEF Usable, ConflictFree
      <4>2. QED
        BY <2>1, <3>2, <3>3, <4>1
    <3>4. CASE ~Refused(r, c)
      <4>1. Within(profile[c]) /\ \A d \in walked[r] : ~Conflict(c, profile[c], d, profile[d])
        BY <2>4, <3>4
      <4>2. \A d \in walked[r] : ~Conflict(d, profile[d], c, profile[c])
        <5>1. \A d : {c, d} = {d, c}
          OBVIOUS
        <5>2. QED
          BY <4>1, <5>1 DEF Conflict, HatClash
      <4>3. Clean(r)
        BY <2>1 DEF ValidationInv
      <4>4. Clean(r)'
        BY <2>1, <3>1, <4>1, <4>2, <4>3 DEF Clean
      <4>5. QED
        BY <3>1, <3>2, <3>4, <4>4
    <3>5. QED
      BY <3>3, <3>4
  <2>7. Remembers'
    <3>1. CASE r = "python" /\ Hat(profile[c])
      <4>1. profile[c].index \in Axes
        BY <2>1, <3>1, HatOnAxis DEF ValidationInv
      <4>2. lastHat' = [lastHat EXCEPT ![profile[c].index] = c]
        BY <1>2, <3>1 DEF Walk
      <4>3. walked'["python"] = walked["python"] \cup {c}
        BY <2>1, <3>1 DEF ValidationInv, TypeOK, Readers
      <4>4. ASSUME NEW i \in Axes
            PROVE  lastHat'[i] = IF i = profile[c].index THEN c ELSE lastHat[i]
        BY <4>1, <4>2 DEF ValidationInv, TypeOK
      <4>5. c # Nobody
        BY NobodyIsNoControl
      <4>6. QED
        BY <2>1, <3>1, <4>3, <4>4, <4>5 DEF ValidationInv, Remembers
    <3>2. CASE r = "python" /\ ~Hat(profile[c])
      <4>1. walked'["python"] = walked["python"] \cup {c} /\ lastHat' = lastHat
        BY <1>2, <2>1, <3>2 DEF Walk, ValidationInv, TypeOK, Readers
      <4>2. QED
        BY <2>1, <3>2, <4>1 DEF ValidationInv, Remembers
    <3>3. CASE r # "python"
      <4>1. walked'["python"] = walked["python"] /\ lastHat' = lastHat
        BY <1>2, <2>1, <3>3 DEF Walk, ValidationInv, TypeOK, Readers
      <4>2. QED
        BY <2>1, <4>1 DEF ValidationInv, Remembers
    <3>4. QED
      BY <3>1, <3>2, <3>3
  <2>8. QED
    BY <2>3, <2>5, <2>6, <2>7 DEF ValidationInv
<1>3. QED
  BY <1>1, <1>2 DEF Next

\* For every set of controls, whatever the profile and whatever the order the
\* two readers walk it in, each accepts exactly the usable profiles.
THEOREM VerdictsRight == GamepadSpec => []VerdictsAreRight
<1>1. Init => ValidationInv
  BY DEF Init, ValidationInv, TypeOK, Clean, Remembers, Usable, Readers, Verdicts
<1>2. ValidationInv => VerdictsAreRight
  <2> SUFFICES ASSUME ValidationInv PROVE VerdictsAreRight
    OBVIOUS
  <2>1. VerdictIsUsable
    BY DEF ValidationInv, VerdictIsUsable, Clean, Usable, ConflictFree
  <2>2. ReadersAgree
    BY <2>1 DEF VerdictIsUsable, ReadersAgree, Readers
  <2>3. QED
    BY <2>1, <2>2 DEF VerdictsAreRight, ValidationInv
<1>3. QED
  BY <1>1, <1>2, ValidationInductive, Stagewise, PTL DEF Spec

-----------------------------------------------------------------------------
(* The files of the mapping console *)

\* What a file may hold: the history of one is a sequence that is never empty.
LEMMA PlacedFacts ==
    ASSUME Store!TypeOK, NEW f \in Store!Files
    PROVE  /\ placed[f] \in Seq(Store!Texts)
           /\ Len(placed[f]) \in Nat \ {0} /\ DOMAIN placed[f] = 1 .. Len(placed[f])
           /\ \A i \in 1 .. Len(placed[f]) : placed[f][i] \in Store!Texts
           /\ Store!Seen(f) \in Store!Texts /\ Store!Seen(f) = placed[f][Len(placed[f])]
<1>1. placed[f] \in Seq(Store!Texts) /\ placed[f] # <<>>
  BY DEF Store!TypeOK
<1>2. Len(placed[f]) \in Nat \ {0} /\ DOMAIN placed[f] = 1 .. Len(placed[f])
  BY <1>1, EmptySeq, LenProperties
<1>3. \A i \in 1 .. Len(placed[f]) : placed[f][i] \in Store!Texts
  BY <1>1, ElementOfSeq
<1>4. QED
  BY <1>1, <1>2, <1>3 DEF Store!Seen

\* A history of one entry.
LEMMA OneEntry ==
    ASSUME NEW c \in Store!Texts
    PROVE  <<c>> \in Seq(Store!Texts) \ {<<>>} /\ Len(<<c>>) = 1 /\ <<c>>[1] = c
  OBVIOUS

\* A file's history is what its replacements appended.
LEMMA Appended ==
    ASSUME Store!TypeOK, NEW f \in Store!Files, NEW c \in Store!Texts
    PROVE  LET s == Append(placed[f], c)
           IN  /\ s \in Seq(Store!Texts) \ {<<>>}
               /\ Len(s) = Len(placed[f]) + 1 /\ s[Len(s)] = c
               /\ \A i \in 1 .. Len(placed[f]) : s[i] = placed[f][i]
<1>1. placed[f] \in Seq(Store!Texts) /\ Len(placed[f]) \in Nat
  BY PlacedFacts
<1>2. QED
  BY <1>1, AppendProperties

\* A replacement numbers what it puts in place, and its request learns the number.
LEMMA Numbered ==
    ASSUME NEW j \in Store!Jobs, NEW n \in Nat
    PROVE  LET k == [j EXCEPT !.turn = n]
           IN  /\ k \in Store!Jobs /\ k.turn = n
               /\ k.file = j.file /\ k.device = j.device /\ k.profile = j.profile
               /\ k.of = j.of
  BY DEF Store!Jobs

LEMMA NumberedContents ==
    ASSUME NEW c \in Store!Contents, NEW n \in Nat
    PROVE  LET d == [c EXCEPT !.text.turn = n]
           IN  /\ d \in Store!Contents /\ d.text = [c.text EXCEPT !.turn = n]
               /\ d.whole = c.whole /\ d.synced = c.synced
<1>1. c.text \in Store!Jobs
  BY DEF Store!Contents
<1>2. [c.text EXCEPT !.turn = n] \in Store!Jobs
  BY <1>1, Numbered
<1>3. QED
  BY <1>2 DEF Store!Contents

\* A request that is not idle has something to write.
StoreTyped ==
    Store!TypeOK /\ \A r \in Requests : step[r] # "idle" => job[r] \in Store!Jobs

LEMMA StoreTypes ==
    ASSUME StoreTyped, [Store!Next]_(Store!vars)
    PROVE  StoreTyped'
<1> USE GamepadAssumption
    DEF Store!StoreAssumption, StoreTyped, Store!TypeOK, Store!Goto, Store!Temporary
<1>1. CASE UNCHANGED Store!vars
  BY <1>1 DEF Store!vars, Store!store
<1>2. ASSUME NEW r \in Requests, NEW d \in Devices, Store!BeginSave(r, d)
      PROVE  StoreTyped'
  <2>1. [file |-> IdOf[d], device |-> d, profile |-> IdOf[d], of |-> 0, turn |-> 0]
            \in Store!Jobs
    BY DEF Store!Jobs, Store!Files
  <2>2. QED
    BY <1>2, <2>1 DEF Store!BeginSave, Store!Steps
<1>3. ASSUME NEW r \in Requests, NEW id \in Ids, Store!BeginActivate(r, id)
      PROVE  StoreTyped'
  <2>1. Store!Seen(id) \in Store!Contents
    BY <1>3, PlacedFacts DEF Store!BeginActivate, Store!Readable, Store!Texts, Store!Files
  <2>2. [file |-> "active", device |-> Store!Seen(id).text.device, profile |-> id,
         of |-> 0, turn |-> 0] \in Store!Jobs
    BY <2>1 DEF Store!Jobs, Store!Contents, Store!Files
  <2>3. QED
    BY <1>3, <2>2 DEF Store!BeginActivate, Store!Steps
<1>4. ASSUME NEW r \in Requests, Store!Match(r) PROVE StoreTyped'
  BY <1>4 DEF Store!Match, Store!Steps
<1>5. ASSUME NEW r \in Requests, Store!Load(r) PROVE StoreTyped'
  <2>1. job[r] \in Store!Jobs
    BY <1>5 DEF Store!Load
  <2>2. ASSUME Store!Readable(job[r].profile) PROVE Store!Selection(r) \in Store!Jobs
    <3>1. job[r].profile \in Store!Files
      BY <2>1 DEF Store!Jobs, Store!Files
    <3>2. Store!Seen(job[r].profile) \in Store!Contents
      BY <2>2, <3>1, PlacedFacts DEF Store!Readable, Store!Texts
    <3>3. QED
      BY <2>1, <3>2 DEF Store!Selection, Store!Jobs, Store!Contents
  <2>3. QED
    BY <1>5, <2>2 DEF Store!Load, Store!Steps
<1>6. ASSUME NEW r \in Requests, Store!Open(r) PROVE StoreTyped'
  <2>1. [text |-> job[r], whole |-> FALSE, synced |-> FALSE] \in Store!Contents
    BY <1>6 DEF Store!Open, Store!Contents
  <2>2. QED
    BY <1>6, <2>1 DEF Store!Open, Store!Steps, Store!Texts
<1>7. ASSUME NEW r \in Requests, Store!Write(r) PROVE StoreTyped'
  <2>1. temp' = [temp EXCEPT ![r] = [temp[r] EXCEPT !.text = job[r], !.whole = TRUE]]
    BY <1>7 DEF Store!Write
  <2>2. temp[r] \in Store!Contents /\ job[r] \in Store!Jobs
    BY <1>7 DEF Store!Write, Store!Texts
  <2>3. [temp[r] EXCEPT !.text = job[r], !.whole = TRUE] \in Store!Contents
    BY <2>2 DEF Store!Contents
  <2>4. QED
    BY <1>7, <2>1, <2>3 DEF Store!Write, Store!Steps, Store!Texts
<1>8. ASSUME NEW r \in Requests, Store!Sync(r) PROVE StoreTyped'
  <2>1. Store!Synced(temp[r]) \in Store!Contents
    BY <1>8 DEF Store!Sync, Store!Synced, Store!Contents, Store!Texts
  <2>2. QED
    BY <1>8, <2>1 DEF Store!Sync, Store!Steps, Store!Texts
<1>9. ASSUME NEW r \in Requests, Store!Replace(r) PROVE StoreTyped'
  <2> DEFINE f == job[r].file
             c == [temp[r] EXCEPT !.text.turn = turns[f] + 1]
  <2>1. f \in Store!Files /\ turns[f] + 1 \in Nat
    BY <1>9 DEF Store!Replace, Store!Jobs
  <2>2. c \in Store!Texts
    <3>1. temp[r] \in Store!Contents
      BY <1>9 DEF Store!Replace, Store!Texts
    <3>2. c \in Store!Contents
      BY <2>1, <3>1, NumberedContents, Zenon
    <3>3. QED
      BY <3>2 DEF Store!Texts
  <2>3. Append(placed[f], c) \in Seq(Store!Texts) \ {<<>>}
    BY <2>1, <2>2, Appended
  <2>4. placed' = [placed EXCEPT ![f] = Append(placed[f], c)]
    BY <1>9 DEF Store!Replace
  <2>5. placed' \in [Store!Files -> Seq(Store!Texts) \ {<<>>}]
    BY <2>3, <2>4
  <2>6. job' = [job EXCEPT ![r] = [job[r] EXCEPT !.turn = turns[f] + 1]]
    BY <1>9 DEF Store!Replace
  <2>7. [job[r] EXCEPT !.turn = turns[f] + 1] \in Store!Jobs
    <3>1. job[r] \in Store!Jobs
      BY <1>9 DEF Store!Replace
    <3>2. QED
      BY <2>1, <3>1, Numbered, Zenon
  <2>8. /\ turns' = [turns EXCEPT ![f] = turns[f] + 1]
        /\ temp' = [temp EXCEPT ![r] = None] /\ step' = [step EXCEPT ![r] = "syncdir"]
        /\ UNCHANGED <<acked, sim, active, begun, losses>>
    BY <1>9 DEF Store!Replace
  <2> HIDE DEF f, c
  <2>9. turns' \in [Store!Files -> Nat] /\ temp' \in [Requests -> Store!Texts]
    BY <2>1, <2>8 DEF Store!Texts
  <2>10. job' \in [Requests -> Store!Jobs \cup {None}] /\ step' \in [Requests -> Store!Steps]
    BY <2>6, <2>7, <2>8 DEF Store!Steps
  <2>11. \A q \in Requests : step'[q] # "idle" => job'[q] \in Store!Jobs
    BY <2>6, <2>7, <2>8
  <2>12. QED
    BY <2>5, <2>8, <2>9, <2>10, <2>11
<1>10. ASSUME NEW r \in Requests, Store!SyncDirectory(r) PROVE StoreTyped'
  <2>1. \A f \in Store!Files : <<Store!Seen(f)>> \in Seq(Store!Texts) \ {<<>>}
    BY PlacedFacts, OneEntry
  <2>2. placed' \in [Store!Files -> Seq(Store!Texts) \ {<<>>}]
    BY <1>10, <2>1 DEF Store!SyncDirectory
  <2>3. QED
    BY <1>10, <2>2 DEF Store!SyncDirectory, Store!Steps
<1>11. ASSUME NEW r \in Requests, Store!Fail(r) PROVE StoreTyped'
  BY <1>11 DEF Store!Fail, Store!Steps
<1>12. ASSUME NEW r \in Requests, Store!Finish(r) PROVE StoreTyped'
  <2>1. job[r].file \in Store!Files /\ job[r].turn \in Nat
    BY <1>12 DEF Store!Finish, Store!Jobs
  <2>2. acked' \in [Store!Files -> Nat]
    BY <1>12, <2>1 DEF Store!Finish
  <2>3. QED
    BY <1>12, <2>2 DEF Store!Finish, Store!Steps, Store!Texts
<1>13. CASE Store!SimStart
  <2>1. "active" \in Store!Files
    BY DEF Store!Files
  <2>2. ASSUME Store!Readable("active") PROVE Store!Seen("active").text \in Store!Jobs
    BY <2>1, <2>2, PlacedFacts DEF Store!Readable, Store!Texts, Store!Contents
  <2>3. QED
    BY <1>13, <2>2 DEF Store!SimStart, Store!store
<1>14. CASE Store!SimCheck \/ Store!SimReload \/ Store!SimExit
  BY <1>14 DEF Store!SimCheck, Store!SimReload, Store!SimExit, Store!store
<1>15. CASE Store!Kill
  BY <1>15 DEF Store!Kill, Store!Forget, Store!Texts, Store!Steps
<1>16. CASE Store!PowerFails
  <2>1. ASSUME NEW f \in Store!Files PROVE Store!Survivors(f) \subseteq Store!Texts
    <3>1. \A i \in DOMAIN placed[f] : placed[f][i] \in Store!Texts
      BY <2>1, PlacedFacts DEF StoreTyped
    <3>2. ASSUME NEW c \in Store!Contents PROVE [c EXCEPT !.whole = FALSE] \in Store!Contents
      BY <3>2 DEF Store!Contents
    <3>3. QED
      BY <3>1, <3>2 DEF Store!Survivors, Store!Texts
  <2>2. PICK p \in [Store!Files -> {<<c>> : c \in UNION {Store!Survivors(f) : f \in Store!Files}}] :
            placed' = p
    BY <1>16 DEF Store!PowerFails
  <2>3. ASSUME NEW f \in Store!Files PROVE p[f] \in Seq(Store!Texts) \ {<<>>}
    <3>1. UNION {Store!Survivors(g) : g \in Store!Files} \subseteq Store!Texts
      BY <2>1
    <3>2. PICK c \in UNION {Store!Survivors(g) : g \in Store!Files} : p[f] = <<c>>
      OBVIOUS
    <3>3. QED
      BY <3>1, <3>2, OneEntry
  <2>4. placed' \in [Store!Files -> Seq(Store!Texts) \ {<<>>}]
    BY <2>2, <2>3
  <2>5. QED
    BY <1>16, <2>4 DEF Store!PowerFails, Store!Forget, Store!Texts, Store!Steps
<1>17. QED
  BY <1>1, <1>2, <1>3, <1>4, <1>5, <1>6, <1>7, <1>8, <1>9, <1>10, <1>11, <1>12, <1>13,
     <1>14, <1>15, <1>16 DEF Store!Next, Store!Request, Store!Simulator

\* The device a text names is of the file it is for: a profile's own, and an
\* activation's the one selected, of which it has read some replacement.
Fits(j) ==
    /\ j.file \in Ids => IdOf[j.device] = j.file
    /\ j.file = "active" => j.of >= 1 /\ IdOf[j.device] = j.profile

\* What was put in place of file f is whole, synced, and made for it.
Kept(f, c) ==
    c # None => /\ c.whole /\ c.synced
                /\ c.text.file = f /\ c.text.turn >= 1 /\ Fits(c.text)

FilesKept ==
    \A f \in Store!Files : \A i \in DOMAIN placed[f] : Kept(f, placed[f][i])

\* The replacements of a file that may be seen are numbered in their order.
TurnsGrow ==
    \A f \in Store!Files :
        /\ \A i, j \in DOMAIN placed[f] :
              i <= j => Store!TurnOf(placed[f][i]) <= Store!TurnOf(placed[f][j])
        /\ Store!TurnOf(Store!Seen(f)) <= turns[f]

\* Where a request is, what it has achieved: a temporary that is written, then
\* synced; its replacement, or a later one, in place, then durable.
GoesOn(r) ==
    /\ step[r] \in {"match", "load"} => job[r].file = "active"
    /\ step[r] \in {"open", "write", "sync", "replace"} => Fits(job[r])
    /\ step[r] \in {"sync", "replace"} /\ temp[r] # None =>
          temp[r].text = job[r] /\ temp[r].whole
    /\ step[r] = "replace" /\ temp[r] # None => temp[r].synced
    /\ step[r] = "syncdir" => job[r].turn <= Store!TurnOf(Store!Seen(job[r].file))
    /\ step[r] = "done" => job[r].turn <= Store!TurnOf(placed[job[r].file][1])

\* What the simulator starts on is a selection.
Selected ==
    /\ sim \in {"check", "reload"} => active # None
    /\ active # None => active.file = "active" /\ Fits(active)

StoreInv ==
    /\ StoreTyped
    /\ FilesKept /\ TurnsGrow /\ Store!AcknowledgedIsDurable
    /\ \A r \in Requests : GoesOn(r)
    /\ Selected

LEMMA TurnOfType == ASSUME NEW c \in Store!Texts PROVE Store!TurnOf(c) \in Nat
  BY DEF Store!TurnOf, Store!Texts, Store!Contents, Store!Jobs

\* Only what a text is for decides whether it fits.
LEMMA FitsAlike ==
    ASSUME NEW j, NEW k, Fits(j),
           j.file = k.file, j.device = k.device, j.profile = k.profile, j.of = k.of
    PROVE  Fits(k)
  BY DEF Fits

\* What is seen of a file that is there is the last of its history.
LEMMA SeenKept ==
    ASSUME StoreInv, NEW f \in Store!Files
    PROVE  /\ Kept(f, Store!Seen(f)) /\ Store!Seen(f) \in Store!Texts
           /\ Store!TurnOf(placed[f][1]) \in Nat /\ Store!TurnOf(Store!Seen(f)) \in Nat
           /\ Store!TurnOf(placed[f][1]) <= Store!TurnOf(Store!Seen(f))
           /\ placed[f][1] \in Store!Texts
<1>1. Store!TypeOK
  BY DEF StoreInv, StoreTyped
<1>2. 1 \in DOMAIN placed[f] /\ Len(placed[f]) \in DOMAIN placed[f] /\ 1 <= Len(placed[f])
  BY <1>1, PlacedFacts
<1>3. Store!Seen(f) = placed[f][Len(placed[f])]
  BY DEF Store!Seen
<1>4. placed[f][1] \in Store!Texts /\ Store!Seen(f) \in Store!Texts
  BY <1>1, PlacedFacts
<1>5. QED
  BY <1>2, <1>3, <1>4, TurnOfType DEF StoreInv, FilesKept, TurnsGrow

\* A request that does not move is where it was as long as the files only move on.
LEMMA OthersGoOn ==
    ASSUME StoreInv, StoreTyped', NEW r \in Requests,
           step'[r] = step[r], job'[r] = job[r], temp'[r] = temp[r],
           \A f \in Store!Files :
               /\ Store!TurnOf(Store!Seen(f)) <= Store!TurnOf(Store!Seen(f))'
               /\ Store!TurnOf(placed[f][1]) <= Store!TurnOf(placed[f][1])'
               /\ Store!TurnOf(Store!Seen(f))' \in Nat
               /\ Store!TurnOf(placed[f][1])' \in Nat
    PROVE  GoesOn(r)'
<1>1. step[r] # "idle" =>
          /\ job[r] \in Store!Jobs /\ job[r].file \in Store!Files /\ job[r].turn \in Nat
          /\ Store!TurnOf(Store!Seen(job[r].file)) \in Nat
          /\ Store!TurnOf(placed[job[r].file][1]) \in Nat
  BY SeenKept DEF StoreInv, StoreTyped, Store!Jobs
<1>2. GoesOn(r)
  BY DEF StoreInv
<1>3. step'[r] \in {"syncdir"} =>
          job'[r].turn <= Store!TurnOf(Store!Seen(job[r].file))'
  BY <1>1, <1>2 DEF GoesOn
<1>4. step'[r] \in {"done"} =>
          job'[r].turn <= Store!TurnOf(placed[job[r].file][1])'
  BY <1>1, <1>2 DEF GoesOn
<1>5. QED
  BY <1>2, <1>3, <1>4 DEF GoesOn, Fits

\* While no file is replaced or synced nothing of what is in place changes.
LEMMA FilesStay ==
    ASSUME StoreInv, StoreTyped', UNCHANGED <<placed, turns>>,
           Store!AcknowledgedIsDurable'
    PROVE  /\ FilesKept' /\ TurnsGrow'
           /\ \A r \in Requests :
                 step'[r] = step[r] /\ job'[r] = job[r] /\ temp'[r] = temp[r] => GoesOn(r)'
<1>1. FilesKept' /\ TurnsGrow'
  BY DEF StoreInv, FilesKept, TurnsGrow, Kept, Fits, Store!TurnOf, Store!Seen
<1>2. ASSUME NEW f \in Store!Files
      PROVE  /\ Store!TurnOf(Store!Seen(f)) <= Store!TurnOf(Store!Seen(f))'
             /\ Store!TurnOf(placed[f][1]) <= Store!TurnOf(placed[f][1])'
             /\ Store!TurnOf(Store!Seen(f))' \in Nat
             /\ Store!TurnOf(placed[f][1])' \in Nat
  <2>1. /\ Store!TurnOf(Store!Seen(f))' = Store!TurnOf(Store!Seen(f))
        /\ Store!TurnOf(placed[f][1])' = Store!TurnOf(placed[f][1])
    BY DEF Store!TurnOf, Store!Seen
  <2>2. QED
    BY <2>1, SeenKept
<1>3. QED
  BY <1>1, <1>2, OthersGoOn

\* What a request loads of a profile that is there makes a selection that fits.
LEMMA SelectionFits ==
    ASSUME StoreInv, NEW r \in Requests, step[r] = "load",
           Store!Readable(job[r].profile)
    PROVE  Fits(Store!Selection(r))
<1> DEFINE id == job[r].profile
           p == Store!Seen(id)
<1>1. job[r] \in Store!Jobs /\ job[r].file = "active"
  BY DEF StoreInv, StoreTyped, GoesOn
<1>2. id \in Ids /\ id \in Store!Files
  BY <1>1 DEF Store!Jobs, Store!Files
<1>3. p # None
  BY DEF Store!Readable
<1>4. Kept(id, p) /\ p \in Store!Contents
  BY <1>2, <1>3, SeenKept DEF Store!Texts
<1>5. IdOf[p.text.device] = id /\ p.text.turn >= 1
  BY <1>2, <1>3, <1>4 DEF Kept, Fits
<1>6. /\ Store!Selection(r).file = "active" /\ Store!Selection(r).profile = id
      /\ Store!Selection(r).device = p.text.device /\ Store!Selection(r).of = p.text.turn
  BY <1>1 DEF Store!Selection, Store!Jobs
<1>7. "active" \notin Ids
  BY GamepadAssumption DEF Store!StoreAssumption
<1>8. QED
  BY <1>5, <1>6, <1>7 DEF Fits

\* A request's steps up to the replacement, its failure and its answer.
LEMMA RequestInductive ==
    ASSUME StoreInv, StoreTyped', NEW r \in Requests,
           \/ \E d \in Devices : Store!BeginSave(r, d)
           \/ \E id \in Ids : Store!BeginActivate(r, id)
           \/ Store!Match(r) \/ Store!Load(r)
           \/ Store!Open(r) \/ Store!Write(r) \/ Store!Sync(r)
           \/ Store!Fail(r) \/ Store!Finish(r)
    PROVE  StoreInv'
<1> USE DEF Store!Temporary
<1>1. UNCHANGED <<placed, turns, sim, active>>
  BY DEF Store!BeginSave, Store!BeginActivate, Store!Match, Store!Load, Store!Open,
         Store!Write, Store!Sync, Store!Fail, Store!Finish
<1>2. \A q \in Requests \ {r} : step'[q] = step[q] /\ job'[q] = job[q] /\ temp'[q] = temp[q]
  BY DEF Store!BeginSave, Store!BeginActivate, Store!Match, Store!Load, Store!Open,
         Store!Write, Store!Sync, Store!Fail, Store!Finish, Store!Goto, StoreInv,
         StoreTyped, Store!TypeOK
<1>3. step[r] \in Store!Steps /\ (step[r] # "idle" => job[r] \in Store!Jobs)
  BY DEF StoreInv, StoreTyped, Store!TypeOK
<1>4. GoesOn(r)
  BY DEF StoreInv
<1>5. Store!AcknowledgedIsDurable'
  <2>1. CASE Store!Finish(r) /\ step[r] = "done"
    <3> DEFINE f == job[r].file
    <3>1. f \in Store!Files /\ job[r].turn <= Store!TurnOf(placed[f][1])
      BY <1>3, <1>4, <2>1 DEF GoesOn, Store!Jobs
    <3>2. acked' = [acked EXCEPT ![f] = IF job[r].turn > acked[f] THEN job[r].turn ELSE acked[f]]
      BY <2>1 DEF Store!Finish
    <3>3. ASSUME NEW g \in Store!Files PROVE acked'[g] <= Store!TurnOf(placed[g][1])
      BY <3>1, <3>2 DEF StoreInv, StoreTyped, Store!TypeOK, Store!AcknowledgedIsDurable
    <3>4. QED
      BY <1>1, <3>3 DEF Store!AcknowledgedIsDurable, Store!TurnOf
  <2>2. CASE ~(Store!Finish(r) /\ step[r] = "done")
    <3>1. acked' = acked
      BY <2>2 DEF Store!BeginSave, Store!BeginActivate, Store!Match, Store!Load, Store!Open,
         Store!Write, Store!Sync, Store!Fail, Store!Finish, StoreInv, StoreTyped, Store!TypeOK
    <3>2. QED
      BY <1>1, <3>1 DEF StoreInv, Store!AcknowledgedIsDurable, Store!TurnOf
  <2>3. QED
    BY <2>1, <2>2
<1>6. /\ FilesKept' /\ TurnsGrow'
      /\ \A q \in Requests \ {r} : GoesOn(q)'
  BY <1>1, <1>2, <1>5, FilesStay
<1>7. GoesOn(r)'
  <2>1. ASSUME NEW d \in Devices, Store!BeginSave(r, d) PROVE GoesOn(r)'
    <3>1. step'[r] = "open" /\ job'[r].file = IdOf[d] /\ job'[r].device = d
      BY <2>1 DEF Store!BeginSave, Store!Goto, StoreInv, StoreTyped, Store!TypeOK
    <3>2. IdOf[d] # "active"
      BY GamepadAssumption DEF Store!StoreAssumption
    <3>3. QED
      BY <3>1, <3>2 DEF GoesOn, Fits
  <2>2. ASSUME NEW id \in Ids, Store!BeginActivate(r, id) PROVE GoesOn(r)'
    <3>1. step'[r] = "match" /\ job'[r].file = "active"
      BY <2>2 DEF Store!BeginActivate, Store!Goto, StoreInv, StoreTyped, Store!TypeOK
    <3>2. QED
      BY <3>1 DEF GoesOn
  <2>3. CASE Store!Match(r)
    <3>1. step'[r] = "idle" \/ (step'[r] = "load" /\ job'[r] = job[r])
      BY <2>3 DEF Store!Match, Store!Goto, StoreInv, StoreTyped, Store!TypeOK
    <3>2. QED
      BY <1>4, <2>3, <3>1 DEF GoesOn, Store!Match
  <2>4. CASE Store!Load(r)
    <3>1. \/ step'[r] = "idle"
          \/ Store!Readable(job[r].profile) /\ step'[r] = "open" /\ job'[r] = Store!Selection(r)
      BY <2>4 DEF Store!Load, Store!Goto, StoreInv, StoreTyped, Store!TypeOK
    <3>2. step[r] = "load"
      BY <2>4 DEF Store!Load
    <3>3. step'[r] = "open" => Fits(job'[r])
      BY <3>1, <3>2, SelectionFits
    <3>4. QED
      BY <3>1, <3>3 DEF GoesOn, Fits
  <2>5. CASE Store!Open(r)
    <3>1. step[r] = "open" /\ step'[r] = "write" /\ job'[r] = job[r]
      BY <2>5 DEF Store!Open, Store!Goto, StoreInv, StoreTyped, Store!TypeOK
    <3>2. QED
      BY <1>4, <3>1 DEF GoesOn, Fits
  <2>6. CASE Store!Write(r)
    <3>1. /\ step[r] = "write" /\ step'[r] = "sync" /\ job'[r] = job[r]
          /\ temp[r] # None /\ temp[r] \in Store!Texts
          /\ temp'[r] = [temp[r] EXCEPT !.text = job[r], !.whole = TRUE]
      BY <2>6 DEF Store!Write, Store!Goto, StoreInv, StoreTyped, Store!TypeOK
    <3>2. temp'[r].text = job[r] /\ temp'[r].whole
      BY <3>1 DEF Store!Texts, Store!Contents
    <3>3. QED
      BY <1>4, <3>1, <3>2 DEF GoesOn, Fits
  <2>7. CASE Store!Sync(r)
    <3>1. /\ step[r] = "sync" /\ step'[r] = "replace" /\ job'[r] = job[r]
          /\ temp[r] # None /\ temp[r] \in Store!Texts
          /\ temp'[r] = [temp[r] EXCEPT !.synced = TRUE]
      BY <2>7 DEF Store!Sync, Store!Synced, Store!Goto, StoreInv, StoreTyped, Store!TypeOK
    <3>2. /\ temp'[r].text = temp[r].text /\ temp'[r].whole = temp[r].whole
          /\ temp'[r].synced
      BY <3>1 DEF Store!Texts, Store!Contents
    <3>3. QED
      BY <1>4, <3>1, <3>2 DEF GoesOn, Fits
  <2>8. CASE Store!Fail(r)
    <3>1. step'[r] = "failed"
      BY <2>8 DEF Store!Fail, Store!Goto, StoreInv, StoreTyped, Store!TypeOK
    <3>2. QED
      BY <3>1 DEF GoesOn
  <2>9. CASE Store!Finish(r)
    <3>1. step'[r] = "idle"
      BY <2>9 DEF Store!Finish, Store!Goto, StoreInv, StoreTyped, Store!TypeOK
    <3>2. QED
      BY <3>1 DEF GoesOn
  <2>10. QED
    BY <2>1, <2>2, <2>3, <2>4, <2>5, <2>6, <2>7, <2>8, <2>9
<1>8. Selected'
  BY <1>1 DEF StoreInv, Selected, Fits
<1>9. QED
  BY <1>5, <1>6, <1>7, <1>8 DEF StoreInv

\* A replacement puts a whole, synced content in place, with the next number.
LEMMA ReplaceInductive ==
    ASSUME StoreInv, StoreTyped', NEW r \in Requests, Store!Replace(r)
    PROVE  StoreInv'
<1>f. PICK f : f = job[r].file
  OBVIOUS
<1>c. PICK c : c = [temp[r] EXCEPT !.text.turn = turns[f] + 1]
  OBVIOUS
<1>n. PICK n : n = Len(placed[f])
  OBVIOUS
<1>1. /\ step[r] = "replace" /\ temp[r] # None
      /\ placed' = [placed EXCEPT ![f] = Append(placed[f], c)]
      /\ temp' = [temp EXCEPT ![r] = None]
      /\ turns' = [turns EXCEPT ![f] = turns[f] + 1]
      /\ job' = [job EXCEPT ![r] = [job[r] EXCEPT !.turn = turns[f] + 1]]
      /\ step' = [step EXCEPT ![r] = "syncdir"]
      /\ UNCHANGED <<acked, sim, active>>
  BY <1>f, <1>c DEF Store!Replace, Store!Temporary, Store!Goto
<1>2. Store!TypeOK /\ job[r] \in Store!Jobs /\ temp[r] \in Store!Contents
  BY <1>1 DEF StoreInv, StoreTyped, Store!TypeOK, Store!Texts
<1>3. f \in Store!Files /\ turns[f] \in Nat /\ turns[f] + 1 \in Nat /\ turns[f] + 1 >= 1
  BY <1>2, <1>f DEF Store!Jobs, Store!TypeOK
<1>4. temp[r].text = job[r] /\ temp[r].whole /\ temp[r].synced /\ Fits(job[r])
  BY <1>1 DEF StoreInv, GoesOn
<1>5. /\ c \in Store!Contents /\ c.text = [temp[r].text EXCEPT !.turn = turns[f] + 1]
      /\ c.whole = temp[r].whole /\ c.synced = temp[r].synced
  BY <1>2, <1>3, <1>c, NumberedContents, Zenon
<1>6. LET k == [job[r] EXCEPT !.turn = turns[f] + 1]
      IN  /\ k \in Store!Jobs /\ k.turn = turns[f] + 1
          /\ k.file = f /\ k.device = job[r].device /\ k.profile = job[r].profile
          /\ k.of = job[r].of
  BY <1>2, <1>3, <1>f, Numbered, Zenon
<1>7. Kept(f, c) /\ c # None /\ Store!TurnOf(c) = turns[f] + 1
  <2>1. c # None
    BY <1>5, GamepadAssumption DEF Store!StoreAssumption
  <2>2. c.text = [job[r] EXCEPT !.turn = turns[f] + 1]
    BY <1>4, <1>5
  <2>3. Fits(c.text)
    BY <1>4, <1>6, <1>f, <2>2, FitsAlike
  <2>4. QED
    BY <1>3, <1>4, <1>5, <1>6, <2>1, <2>2, <2>3 DEF Kept, Store!TurnOf
<1>8. /\ n \in Nat \ {0} /\ DOMAIN placed[f] = 1 .. n
      /\ Store!Seen(f) = placed[f][n]
  BY <1>2, <1>3, <1>n, PlacedFacts
<1>9. /\ Len(placed'[f]) = n + 1 /\ DOMAIN placed'[f] = 1 .. n + 1
      /\ placed'[f][n + 1] = c /\ \A i \in 1 .. n : placed'[f][i] = placed[f][i]
      /\ Store!Seen(f)' = c
  <2>1. c \in Store!Texts
    BY <1>5 DEF Store!Texts
  <2>2. placed'[f] = Append(placed[f], c)
    BY <1>1, <1>2, <1>3 DEF Store!TypeOK
  <2>3. /\ placed'[f] \in Seq(Store!Texts) /\ Len(placed'[f]) = n + 1
        /\ placed'[f][n + 1] = c /\ \A i \in 1 .. n : placed'[f][i] = placed[f][i]
    BY <1>2, <1>3, <1>n, <2>1, <2>2, Appended
  <2>4. DOMAIN placed'[f] = 1 .. n + 1
    BY <2>3, LenProperties
  <2>5. QED
    BY <2>3, <2>4 DEF Store!Seen
<1>10. \A g \in Store!Files \ {f} : placed'[g] = placed[g] /\ turns'[g] = turns[g]
  BY <1>1, <1>2 DEF Store!TypeOK
<1>11. turns'[f] = turns[f] + 1
  BY <1>1, <1>2, <1>3 DEF Store!TypeOK
<1>12. FilesKept'
  <2>1. ASSUME NEW i \in DOMAIN placed'[f] PROVE Kept(f, placed'[f][i])
    BY <1>7, <1>8, <1>9, <1>3 DEF StoreInv, FilesKept
  <2>2. ASSUME NEW g \in Store!Files \ {f}, NEW i \in DOMAIN placed'[g]
        PROVE  Kept(g, placed'[g][i])
    BY <1>10 DEF StoreInv, FilesKept
  <2>3. ASSUME NEW g \in Store!Files, NEW i \in DOMAIN placed'[g]
        PROVE  Kept(g, placed'[g][i])
    BY <2>1, <2>2
  <2>4. QED
    BY <2>3 DEF FilesKept, Kept, Fits
<1> DEFINE t(i) == Store!TurnOf(placed[f][i])
<1>13. \A i \in 1 .. n : t(i) \in Nat /\ t(i) <= turns[f]
  <2>1. ASSUME NEW i \in 1 .. n PROVE t(i) \in Nat /\ t(i) <= t(n) /\ t(n) \in Nat /\ t(n) <= turns[f]
    <3>1. placed[f][i] \in Store!Texts /\ placed[f][n] \in Store!Texts
      BY <1>2, <1>3, <1>8, PlacedFacts
    <3>2. n \in 1 .. n /\ i <= n
      BY <1>8
    <3>3. QED
      BY <1>3, <1>8, <3>1, <3>2, TurnOfType DEF StoreInv, TurnsGrow
  <2>2. QED
    BY <1>3, <2>1
<1>14. TurnsGrow'
  <2>1. ASSUME NEW i \in 1 .. n + 1, NEW j \in 1 .. n + 1, i <= j
        PROVE  Store!TurnOf(placed'[f][i]) <= Store!TurnOf(placed'[f][j])
    <3>1. CASE j = n + 1
      <4>1. Store!TurnOf(placed'[f][j]) = turns[f] + 1
        BY <1>7, <1>9, <3>1
      <4>2. i \in 1 .. n => Store!TurnOf(placed'[f][i]) \in Nat /\ Store!TurnOf(placed'[f][i]) <= turns[f]
        BY <1>9, <1>13
      <4>3. i \in 1 .. n \/ placed'[f][i] = placed'[f][j]
        BY <1>8, <2>1, <3>1
      <4>4. QED
        BY <1>3, <4>1, <4>2, <4>3
    <3>2. CASE j # n + 1
      <4>1. i \in 1 .. n /\ j \in 1 .. n
        BY <1>8, <2>1, <3>2
      <4>2. QED
        BY <1>3, <1>8, <1>9, <2>1, <4>1 DEF StoreInv, TurnsGrow
    <3>3. QED
      BY <3>1, <3>2
  <2>2. Store!TurnOf(Store!Seen(f)') <= turns'[f]
    BY <1>3, <1>7, <1>9, <1>11
  <2>3. ASSUME NEW g \in Store!Files \ {f}
        PROVE  /\ \A i, j \in DOMAIN placed'[g] :
                     i <= j => Store!TurnOf(placed'[g][i]) <= Store!TurnOf(placed'[g][j])
               /\ Store!TurnOf(Store!Seen(g)') <= turns'[g]
    BY <1>10 DEF StoreInv, TurnsGrow, Store!Seen
  <2>4. ASSUME NEW g \in Store!Files
        PROVE  /\ \A i, j \in DOMAIN placed'[g] :
                     i <= j => Store!TurnOf(placed'[g][i]) <= Store!TurnOf(placed'[g][j])
               /\ Store!TurnOf(Store!Seen(g)') <= turns'[g]
    BY <2>1, <2>2, <2>3, <1>9
  <2>5. QED
    BY <2>4 DEF TurnsGrow, Store!TurnOf
<1>15. ASSUME NEW g \in Store!Files
       PROVE  /\ Store!TurnOf(Store!Seen(g)) <= Store!TurnOf(Store!Seen(g))'
              /\ Store!TurnOf(placed[g][1]) <= Store!TurnOf(placed[g][1])'
              /\ Store!TurnOf(Store!Seen(g))' \in Nat
              /\ Store!TurnOf(placed[g][1])' \in Nat
              /\ placed'[g][1] = placed[g][1]
  <2>1. CASE g = f
    <3>1. Store!TurnOf(Store!Seen(f))' = turns[f] + 1 /\ Store!TurnOf(placed[f][1])' = t(1)
      BY <1>7, <1>8, <1>9 DEF Store!TurnOf
    <3>2. t(1) \in Nat /\ t(n) \in Nat /\ t(n) <= turns[f] /\ placed'[f][1] = placed[f][1]
      BY <1>8, <1>9, <1>13
    <3>3. QED
      BY <1>3, <1>8, <2>1, <3>1, <3>2
  <2>2. CASE g # f
    <3>1. /\ Store!TurnOf(Store!Seen(g))' = Store!TurnOf(Store!Seen(g))
          /\ Store!TurnOf(placed[g][1])' = Store!TurnOf(placed[g][1])
          /\ placed'[g][1] = placed[g][1]
      BY <1>10, <2>2 DEF Store!TurnOf, Store!Seen
    <3>2. QED
      BY <3>1, SeenKept
  <2>3. QED
    BY <2>1, <2>2
<1>16. Store!AcknowledgedIsDurable'
  BY <1>1, <1>15 DEF StoreInv, Store!AcknowledgedIsDurable, Store!TurnOf
<1>17. ASSUME NEW q \in Requests PROVE GoesOn(q)'
  <2>1. CASE q = r
    <3>1. step'[r] = "syncdir" /\ job'[r].file = f /\ job'[r].turn = turns[f] + 1
      BY <1>1, <1>2, <1>6 DEF Store!TypeOK
    <3>2. job'[r].turn <= Store!TurnOf(Store!Seen(f))'
      BY <1>3, <1>7, <1>9, <3>1 DEF Store!TurnOf
    <3>3. QED
      BY <2>1, <3>1, <3>2 DEF GoesOn
  <2>2. CASE q # r
    <3>1. step'[q] = step[q] /\ job'[q] = job[q] /\ temp'[q] = temp[q]
      BY <1>1, <1>2, <2>2 DEF Store!TypeOK
    <3>2. QED
      BY <1>15, <3>1, OthersGoOn
  <2>3. QED
    BY <2>1, <2>2
<1>18. Selected'
  BY <1>1 DEF StoreInv, Selected, Fits
<1>19. QED
  BY <1>12, <1>14, <1>16, <1>17, <1>18 DEF StoreInv

\* Syncing a directory makes what is seen of its files durable.
LEMMA SyncDirectoryInductive ==
    ASSUME StoreInv, StoreTyped', NEW r \in Requests, Store!SyncDirectory(r)
    PROVE  StoreInv'
<1>f. PICK f : f = job[r].file
  OBVIOUS
<1>1. /\ step[r] = "syncdir" /\ step' = [step EXCEPT ![r] = "done"]
      /\ UNCHANGED <<temp, job, turns, acked, sim, active>>
  BY DEF Store!SyncDirectory, Store!Goto
<1>2. Store!TypeOK /\ f \in Store!Files /\ f \in Store!Beside(f)
  BY <1>1, <1>f
     DEF StoreInv, StoreTyped, Store!TypeOK, Store!Jobs, Store!Beside, Store!Files
<1>3. ASSUME NEW g \in Store!Files
      PROVE  /\ placed'[g] = <<Store!Seen(g)>> \/ placed'[g] = placed[g]
             /\ g \in Store!Beside(f) => placed'[g] = <<Store!Seen(g)>>
  BY <1>f DEF Store!SyncDirectory
<1>4. ASSUME NEW g \in Store!Files
      PROVE  /\ Store!Seen(g)' = Store!Seen(g)
             /\ \A i \in DOMAIN placed'[g] : Kept(g, placed'[g][i])
             /\ \A i, j \in DOMAIN placed'[g] :
                   i <= j => Store!TurnOf(placed'[g][i]) <= Store!TurnOf(placed'[g][j])
             /\ placed'[g][1] = placed[g][1] \/ placed'[g][1] = Store!Seen(g)
             /\ g \in Store!Beside(f) => placed'[g][1] = Store!Seen(g)
  <2>1. CASE placed'[g] = <<Store!Seen(g)>>
    <3>1. DOMAIN placed'[g] = {1} /\ placed'[g][1] = Store!Seen(g) /\ Len(placed'[g]) = 1
      BY <2>1
    <3>2. Store!Seen(g)' = Store!Seen(g)
      BY <3>1 DEF Store!Seen
    <3>3. Kept(g, Store!Seen(g)) /\ Store!TurnOf(Store!Seen(g)) \in Nat
      BY SeenKept
    <3>4. QED
      BY <3>1, <3>2, <3>3
  <2>2. CASE placed'[g] = placed[g] /\ g \notin Store!Beside(f)
    BY <2>2 DEF StoreInv, FilesKept, TurnsGrow, Store!Seen
  <2>3. QED
    BY <1>3, <2>1, <2>2
<1>5. FilesKept' /\ TurnsGrow'
  BY <1>1, <1>4 DEF StoreInv, FilesKept, TurnsGrow, Kept, Fits, Store!TurnOf
<1>6. ASSUME NEW g \in Store!Files
      PROVE  /\ Store!TurnOf(Store!Seen(g)) <= Store!TurnOf(Store!Seen(g))'
             /\ Store!TurnOf(placed[g][1]) <= Store!TurnOf(placed[g][1])'
             /\ Store!TurnOf(Store!Seen(g))' \in Nat
             /\ Store!TurnOf(placed[g][1])' \in Nat
  <2>1. /\ Store!TurnOf(Store!Seen(g))' = Store!TurnOf(Store!Seen(g))
        /\ \/ Store!TurnOf(placed[g][1])' = Store!TurnOf(placed[g][1])
           \/ Store!TurnOf(placed[g][1])' = Store!TurnOf(Store!Seen(g))
    BY <1>4 DEF Store!TurnOf
  <2>2. /\ Store!TurnOf(placed[g][1]) \in Nat /\ Store!TurnOf(Store!Seen(g)) \in Nat
        /\ Store!TurnOf(placed[g][1]) <= Store!TurnOf(Store!Seen(g))
    BY SeenKept
  <2>3. QED
    BY <2>1, <2>2
<1>7. Store!AcknowledgedIsDurable'
  <2>1. ASSUME NEW g \in Store!Files PROVE acked[g] <= Store!TurnOf(placed[g][1])'
    <3>1. acked[g] \in Nat /\ acked[g] <= Store!TurnOf(placed[g][1])
      BY <1>2 DEF StoreInv, Store!AcknowledgedIsDurable, Store!TypeOK
    <3>2. Store!TurnOf(placed[g][1]) \in Nat
      BY SeenKept
    <3>3. QED
      BY <1>6, <3>1, <3>2
  <2>2. QED
    BY <1>1, <2>1 DEF Store!AcknowledgedIsDurable
<1>8. ASSUME NEW q \in Requests PROVE GoesOn(q)'
  <2>1. CASE q = r
    <3>1. job[r].turn <= Store!TurnOf(Store!Seen(f))
      BY <1>1, <1>f DEF StoreInv, GoesOn
    <3>2. step'[r] = "done" /\ job'[r] = job[r]
      BY <1>1, <1>2 DEF Store!TypeOK
    <3>3. placed'[f][1] = Store!Seen(f)
      BY <1>2, <1>4
    <3>4. job'[r].turn <= Store!TurnOf(placed[job[r].file][1])'
      BY <1>f, <3>1, <3>2, <3>3 DEF Store!TurnOf
    <3>5. QED
      BY <2>1, <3>2, <3>4 DEF GoesOn
  <2>2. CASE q # r
    <3>1. step'[q] = step[q] /\ job'[q] = job[q] /\ temp'[q] = temp[q]
      BY <1>1, <1>2, <2>2 DEF Store!TypeOK
    <3>2. QED
      BY <1>6, <3>1, OthersGoOn
  <2>3. QED
    BY <2>1, <2>2
<1>9. Selected'
  BY <1>1 DEF StoreInv, Selected, Fits
<1>10. QED
  BY <1>5, <1>7, <1>8, <1>9 DEF StoreInv

\* After a power failure some entry of each history is left, and nothing that
\* was torn: whatever was put in place had been synced.
LEMMA PowerFailsInductive ==
    ASSUME StoreInv, StoreTyped', Store!PowerFails
    PROVE  StoreInv'
<1>1. Store!TypeOK
  BY DEF StoreInv, StoreTyped
<1>2. ASSUME NEW g \in Store!Files
      PROVE  \E i \in DOMAIN placed[g] : placed'[g] = <<placed[g][i]>>
  <2>1. PICK c \in UNION {Store!Survivors(f) : f \in Store!Files} :
            placed'[g] = <<c>> /\ placed'[g][1] \in Store!Survivors(g)
    BY DEF Store!PowerFails
  <2>2. c \in Store!Survivors(g)
    BY <2>1
  <2>3. {j \in DOMAIN placed[g] : placed[g][j] # None /\ ~placed[g][j].synced} = {}
    BY DEF StoreInv, FilesKept, Kept
  <2>4. PICK i \in DOMAIN placed[g] : c = placed[g][i]
    BY <2>2, <2>3 DEF Store!Survivors
  <2>5. QED
    BY <2>1, <2>4
<1>3. ASSUME NEW g \in Store!Files
      PROVE  /\ \A i \in DOMAIN placed'[g] : Kept(g, placed'[g][i])
             /\ \A i, j \in DOMAIN placed'[g] :
                   i <= j => Store!TurnOf(placed'[g][i]) <= Store!TurnOf(placed'[g][j])
             /\ Store!TurnOf(Store!Seen(g))' <= turns[g]
             /\ acked[g] <= Store!TurnOf(placed[g][1])'
  <2>1. PICK i \in DOMAIN placed[g] : placed'[g] = <<placed[g][i]>>
    BY <1>2
  <2>2. DOMAIN placed'[g] = {1} /\ placed'[g][1] = placed[g][i] /\ Len(placed'[g]) = 1
    BY <2>1
  <2>3. Store!Seen(g)' = placed[g][i]
    BY <2>2 DEF Store!Seen
  <2>4. i \in 1 .. Len(placed[g]) /\ Len(placed[g]) \in Nat \ {0} /\ placed[g][i] \in Store!Texts
        /\ DOMAIN placed[g] = 1 .. Len(placed[g]) /\ Store!Seen(g) = placed[g][Len(placed[g])]
    BY <1>1, PlacedFacts
  <2>5. Store!TurnOf(placed[g][i]) \in Nat
    BY <2>4, TurnOfType
  <2>6. /\ Store!TurnOf(placed[g][1]) <= Store!TurnOf(placed[g][i])
        /\ Store!TurnOf(placed[g][i]) <= Store!TurnOf(Store!Seen(g))
    <3>1. 1 \in DOMAIN placed[g] /\ Len(placed[g]) \in DOMAIN placed[g]
          /\ 1 <= i /\ i <= Len(placed[g])
      BY <2>4
    <3>2. QED
      BY <2>4, <3>1 DEF StoreInv, TurnsGrow
  <2>7. /\ acked[g] \in Nat /\ acked[g] <= Store!TurnOf(placed[g][1])
        /\ turns[g] \in Nat /\ Store!TurnOf(Store!Seen(g)) <= turns[g]
    BY <1>1 DEF StoreInv, TurnsGrow, Store!AcknowledgedIsDurable, Store!TypeOK
  <2>8. Store!TurnOf(placed[g][1]) \in Nat /\ Store!TurnOf(Store!Seen(g)) \in Nat
    BY SeenKept
  <2>9. Store!TurnOf(Store!Seen(g))' = Store!TurnOf(placed[g][i])
        /\ Store!TurnOf(placed[g][1])' = Store!TurnOf(placed[g][i])
    BY <2>2, <2>3 DEF Store!TurnOf
  <2>10. Kept(g, placed[g][i])
    BY DEF StoreInv, FilesKept
  <2>11. QED
    BY <2>2, <2>5, <2>6, <2>7, <2>8, <2>9, <2>10
<1>4. UNCHANGED <<turns, acked>> /\ active' = None /\ sim' = "off"
      /\ \A q \in Requests : step'[q] = "idle"
  BY DEF Store!PowerFails, Store!Forget
<1>5. FilesKept' /\ TurnsGrow'
  BY <1>3, <1>4 DEF FilesKept, TurnsGrow, Kept, Fits, Store!TurnOf
<1>6. Store!AcknowledgedIsDurable'
  BY <1>3, <1>4 DEF Store!AcknowledgedIsDurable
<1>7. (\A q \in Requests : GoesOn(q)') /\ Selected'
  BY <1>4 DEF GoesOn, Selected
<1>8. QED
  BY <1>5, <1>6, <1>7 DEF StoreInv

LEMMA SimulatorInductive ==
    ASSUME StoreInv, StoreTyped', Store!Simulator
    PROVE  StoreInv'
<1>1. UNCHANGED <<placed, temp, step, job, turns, acked>>
  BY DEF Store!Simulator, Store!SimStart, Store!SimCheck, Store!SimReload, Store!SimExit,
         Store!store
<1>2. Store!AcknowledgedIsDurable'
  BY <1>1 DEF StoreInv, Store!AcknowledgedIsDurable, Store!TurnOf
<1>3. FilesKept' /\ TurnsGrow' /\ \A r \in Requests : GoesOn(r)'
  BY <1>1, <1>2, FilesStay
<1>4. Selected'
  <2>1. CASE Store!SimStart /\ Store!Readable("active")
    <3>1. "active" \in Store!Files
      BY DEF Store!Files
    <3>2. Store!Seen("active") # None
      BY <2>1 DEF Store!Readable
    <3>3. Kept("active", Store!Seen("active")) /\ Store!Seen("active") \in Store!Contents
      BY <3>1, <3>2, SeenKept DEF Store!Texts
    <3>4. active' = Store!Seen("active").text /\ active' # None
      <4>1. Store!Seen("active").text \in Store!Jobs
        BY <3>3 DEF Store!Contents
      <4>2. QED
        BY <2>1, <4>1, GamepadAssumption DEF Store!SimStart, Store!StoreAssumption
    <3>5. QED
      BY <3>2, <3>3, <3>4 DEF Kept, Selected, Fits
  <2>2. CASE ~(Store!SimStart /\ Store!Readable("active"))
    BY <2>2
       DEF Store!Simulator, Store!SimStart, Store!SimCheck, Store!SimReload, Store!SimExit,
           StoreInv, Selected, Fits
  <2>3. QED
    BY <2>1, <2>2
<1>5. QED
  BY <1>2, <1>3, <1>4 DEF StoreInv

LEMMA StoreInvariant == Store!Spec => []StoreInv
<1>1. Store!Init => StoreInv
  <2> SUFFICES ASSUME Store!Init PROVE StoreInv
    OBVIOUS
  <2>1. StoreTyped
    <3>1. None \in Store!Texts
      BY DEF Store!Texts
    <3>2. <<None>> \in Seq(Store!Texts) \ {<<>>}
      BY <3>1, OneEntry
    <3>3. placed \in [Store!Files -> Seq(Store!Texts) \ {<<>>}]
      BY <3>2 DEF Store!Init
    <3>4. QED
      BY <3>1, <3>3, GamepadAssumption
         DEF Store!Init, StoreTyped, Store!TypeOK, Store!Steps, Store!StoreAssumption
  <2>2. \A f \in Store!Files : DOMAIN placed[f] = {1} /\ placed[f][1] = None
                               /\ Store!Seen(f) = None
    BY DEF Store!Init, Store!Seen
  <2>3. FilesKept /\ TurnsGrow /\ Store!AcknowledgedIsDurable
    BY <2>2
       DEF Store!Init, FilesKept, Kept, TurnsGrow, Store!AcknowledgedIsDurable, Store!TurnOf
  <2>4. QED
    BY <2>1, <2>3 DEF Store!Init, StoreInv, GoesOn, Selected
<1>2. StoreInv /\ [Store!Next]_(Store!vars) => StoreInv'
  <2> SUFFICES ASSUME StoreInv, [Store!Next]_(Store!vars) PROVE StoreInv'
    OBVIOUS
  <2>1. StoreTyped'
    BY StoreTypes DEF StoreInv
  <2>2. CASE UNCHANGED Store!vars
    <3>1. UNCHANGED <<placed, temp, step, job, turns, acked, sim, active>>
      BY <2>2 DEF Store!vars, Store!store
    <3>2. Store!AcknowledgedIsDurable'
      BY <3>1 DEF StoreInv, Store!AcknowledgedIsDurable, Store!TurnOf
    <3>3. FilesKept' /\ TurnsGrow' /\ \A r \in Requests : GoesOn(r)'
      BY <2>1, <3>1, <3>2, FilesStay
    <3>4. QED
      BY <2>1, <3>1, <3>2, <3>3 DEF StoreInv, Selected, Fits
  <2>3. ASSUME NEW r \in Requests, Store!Request(r) PROVE StoreInv'
    BY <2>1, <2>3, RequestInductive, ReplaceInductive, SyncDirectoryInductive
       DEF Store!Request
  <2>4. CASE Store!Simulator
    BY <2>1, <2>4, SimulatorInductive
  <2>5. CASE Store!Kill
    <3>1. UNCHANGED <<placed, turns, acked, sim, active>>
          /\ \A r \in Requests : step'[r] = "idle"
      BY <2>5 DEF Store!Kill, Store!Forget
    <3>2. Store!AcknowledgedIsDurable'
      BY <3>1 DEF StoreInv, Store!AcknowledgedIsDurable, Store!TurnOf
    <3>3. FilesKept' /\ TurnsGrow'
      BY <2>1, <3>1, <3>2, FilesStay
    <3>4. QED
      BY <2>1, <3>1, <3>2, <3>3 DEF StoreInv, Selected, Fits, GoesOn
  <2>6. CASE Store!PowerFails
    BY <2>1, <2>6, PowerFailsInductive
  <2>7. QED
    BY <2>2, <2>3, <2>4, <2>5, <2>6 DEF Store!Next
<1>3. QED
  BY <1>1, <1>2, PTL DEF Store!Spec

\* No reader of a file finds it torn, and what was acknowledged is there after
\* every power failure: whoever writes, in whatever order, and whatever fails.
THEOREM FilesAreSafe == GamepadSpec => [](Store!NeverTorn /\ Store!AcknowledgedIsDurable)
<1>1. StoreInv => Store!NeverTorn /\ Store!AcknowledgedIsDurable
  BY SeenKept DEF StoreInv, Store!NeverTorn, Kept
<1>2. QED
  BY <1>1, StoreInvariant, Stagewise, PTL

\* An acknowledged file is there.
LEMMA AcknowledgedIsThere ==
    ASSUME StoreInv, NEW f \in Store!Files, acked[f] > 0
    PROVE  Store!Readable(f) /\ Kept(f, Store!Seen(f)) /\ Store!Seen(f) \in Store!Contents
<1>1. acked[f] \in Nat /\ acked[f] <= Store!TurnOf(placed[f][1])
  BY DEF StoreInv, StoreTyped, Store!TypeOK, Store!AcknowledgedIsDurable
<1>2. Store!TurnOf(Store!Seen(f)) > 0
  BY <1>1, SeenKept
<1>3. Store!Seen(f) # None
  BY <1>2 DEF Store!TurnOf
<1>4. QED
  BY <1>3, SeenKept DEF Kept, Store!Readable, Store!Texts

\* A selection of a profile that was acknowledged resolves, to one of its device
\* if that does not share its id.
LEMMA Resolves ==
    ASSUME StoreInv, NEW a \in Store!Jobs, a.file = "active", Fits(a),
           ~(acked[a.profile] < a.of)
    PROVE  /\ Store!Readable(a.profile)
           /\ Store!Alone(a.device) => Store!Seen(a.profile).text.device = a.device
<1>1. /\ a.of >= 1 /\ a.of \in Nat /\ a.device \in Devices /\ IdOf[a.device] = a.profile
      /\ a.profile \in Ids /\ a.profile \in Store!Files
  BY DEF Fits, Store!Jobs, Store!Files
<1>2. acked[a.profile] \in Nat
  BY <1>1 DEF StoreInv, StoreTyped, Store!TypeOK
<1>3. /\ Store!Readable(a.profile) /\ Kept(a.profile, Store!Seen(a.profile))
      /\ Store!Seen(a.profile) \in Store!Contents
  BY <1>1, <1>2, AcknowledgedIsThere
<1>4. /\ Store!Seen(a.profile).text.device \in Devices
      /\ IdOf[Store!Seen(a.profile).text.device] = a.profile
  BY <1>1, <1>3 DEF Kept, Fits, Store!Readable, Store!Contents, Store!Jobs
<1>5. QED
  BY <1>1, <1>3, <1>4 DEF Store!Alone

\* A reader of the store finds no file or a whole one, what was acknowledged
\* outlives every power failure, and the active selection names a profile, of its
\* device unless another has the same id.
THEOREM StoreSafe == GamepadSpec => []StoreIsSafe
<1>1. StoreInv => StoreIsSafe
  <2> SUFFICES ASSUME StoreInv PROVE StoreIsSafe
    OBVIOUS
  <2>1. Store!NeverTorn
    BY SeenKept DEF Store!NeverTorn, Kept
  <2>2. Store!ActiveResolves
    <3> SUFFICES ASSUME Store!Seen("active") # None
                 PROVE  \/ acked[Store!Seen("active").text.profile]
                               < Store!Seen("active").text.of
                        \/ /\ Store!Readable(Store!Seen("active").text.profile)
                           /\ Store!Alone(Store!Seen("active").text.device) =>
                                 Store!Seen(Store!Seen("active").text.profile).text.device
                                     = Store!Seen("active").text.device
      BY DEF Store!ActiveResolves
    <3>1. "active" \in Store!Files
      BY DEF Store!Files
    <3>2. Kept("active", Store!Seen("active")) /\ Store!Seen("active") \in Store!Contents
      BY <3>1, SeenKept DEF Store!Texts
    <3>3. /\ Store!Seen("active").text \in Store!Jobs
          /\ Store!Seen("active").text.file = "active" /\ Fits(Store!Seen("active").text)
      BY <3>2 DEF Kept, Store!Contents
    <3>4. QED
      BY <3>3, Resolves
  <2>3. QED
    BY <2>1, <2>2 DEF StoreIsSafe, StoreInv, StoreTyped
<1>2. QED
  BY <1>1, StoreInvariant, Stagewise, PTL

\* The simulator refuses to start after an acknowledged activation only on a
\* profile whose saving was not acknowledged, or on one whose id two devices have.
LEMMA StartsStepwise ==
    ASSUME StoreInv, StoreInv', [Store!Next]_(Store!vars),
           acked["active"] > 0, sim # "refused", sim' = "refused"
    PROVE  /\ active' # None
           /\ acked[active'.profile] < active'.of \/ ~Store!Alone(active'.device)
<1>1. Store!SimStart \/ Store!SimCheck \/ Store!SimReload
  BY DEF Store!Next, Store!vars, Store!Request, Store!Simulator, Store!SimExit,
         Store!BeginSave, Store!BeginActivate, Store!Match, Store!Load, Store!Open,
         Store!Write, Store!Sync, Store!Replace, Store!SyncDirectory, Store!Fail,
         Store!Finish, Store!Kill, Store!PowerFails
<1>2. CASE Store!SimStart
  <2>1. "active" \in Store!Files
    BY DEF Store!Files
  <2>2. QED
    BY <1>2, <2>1, AcknowledgedIsThere DEF Store!SimStart
<1>3. CASE Store!SimCheck \/ Store!SimReload
  <2>1. active' = active /\ active # None
    BY <1>3 DEF Store!SimCheck, Store!SimReload, StoreInv, Selected
  <2>2. active \in Store!Jobs /\ active.file = "active" /\ Fits(active)
    BY <2>1 DEF StoreInv, StoreTyped, Store!TypeOK, Selected
  <2>3. ~(/\ Store!Readable(active.profile)
          /\ Store!Seen(active.profile).text.device = active.device)
    BY <1>3 DEF Store!SimCheck, Store!SimReload, Store!Accepts
  <2>4. QED
    BY <2>1, <2>2, <2>3, Resolves
<1>4. QED
  BY <1>1, <1>2, <1>3

LEMMA StartsOnceActivated == GamepadSpec => Store!StartsOnceActivated
<1>1. StoreInv /\ StoreInv' /\ [Store!Next]_(Store!vars)
      => (acked["active"] > 0 /\ sim # "refused" /\ sim' = "refused" =>
             /\ active' # None
             /\ acked[active'.profile] < active'.of \/ ~Store!Alone(active'.device))
  BY StartsStepwise
<1>2. QED
  BY <1>1, StoreInvariant, Stagewise, PTL DEF Store!Spec, Store!StartsOnceActivated

-----------------------------------------------------------------------------
(* How the joystick of a profile is found *)

\* What may have been read of a node.
Reads ==
    LET models == {Model[p] : p \in Pads} \cup {None}
        serials == {Serial[p] : p \in Pads} \cup {None}
    IN [model : models, serial : serials, counts : {Counts[p] : p \in Pads} \cup {None},
        before : [model : models, serial : serials] \cup {None}]

\* No pad has two numbers, and inodes are given out in order.
Plugged ==
    /\ \A s, t \in Slots : slots[s] # None /\ slots[t] # None
                           /\ slots[s].pad = slots[t].pad => s = t
    /\ \A s \in Slots : slots[s] # None => slots[s].inode <= plugs
    /\ opened # None => opened.inode <= plugs

\* A path is inspected with its node open.
Underway ==
    /\ call = 0 => /\ steady = {} /\ ~quiet /\ found = {} /\ chosen = None
                   /\ outcome = "running"
    /\ opened # None => call > 1
    /\ outcome = "running" /\ call > 1 => opened # None
    /\ call <= 3 => read.before = None

\* What was read of the path so far is of the pad that is open: at first only if
\* the path still is that node's, for good once the path was compared with it.
ReadRight(s) ==
    /\ slots[s] # None /\ slots[s].inode = opened.inode =>
          /\ slots[s].pad = opened.pad
          /\ call = 3 => read.model = Model[opened.pad]
          /\ call = 4 => read.before = Discovery!IdentityOf(opened.pad)
    /\ slots[s] # None /\ slots[s].pad \in steady => opened = Discovery!Node(s)
    /\ call >= 5 => read.before = Discovery!IdentityOf(opened.pad)
    /\ call >= 8 => read.counts = Counts[opened.pad]
    /\ quiet /\ call >= 10 => read.model = Model[opened.pad]
    /\ quiet /\ call >= 11 => read.serial = Serial[opened.pad]

\* A pad that kept its node is still to be inspected or found.
SteadyFound ==
    \A p \in steady : \E s \in Slots :
        /\ Discovery!Node(s) # None /\ slots[s].pad = p
        /\ s \in todo \/ \E d \in found : d.pad = p

\* While no pad leaves, all that was listed is there.
QuietKept ==
    quiet => /\ \A s \in todo : Discovery!Node(s) # None /\ slots[s].pad \in steady
             /\ \A d \in found : /\ Discovery!Node(d.slot) # None
                                 /\ slots[d.slot].pad = d.pad /\ d.pad \in steady

ChosenMatches == chosen # None => chosen \in found /\ Discovery!Matches(chosen.identity)

DiscoveryInv ==
    /\ Discovery!TypeOK /\ read \in Reads /\ IsFiniteSet(found)
    /\ Plugged /\ Underway
    /\ \A s \in Slots : Discovery!Path(s) /\ opened # None => ReadRight(s)
    /\ Discovery!DescriptorIsOnePad
    /\ SteadyFound /\ QuietKept /\ ChosenMatches
    /\ Discovery!QuietStartSucceeds

\* The calls made for a path are twelve.
LEMMA CallsOfAPath ==
    /\ Len(Discovery!Inspection) = 12 /\ DOMAIN Discovery!Inspection = 1 .. 12
    /\ \A i \in 1 .. 12 :
          /\ Discovery!Inspection[i] = "open" <=> i = 1
          /\ Discovery!Inspection[i] = "model" <=> i \in {2, 9}
          /\ Discovery!Inspection[i] = "serial" <=> i \in {3, 10}
          /\ Discovery!Inspection[i] = "current" <=> i \in {4, 6, 8, 11}
          /\ Discovery!Inspection[i] = "by-id" <=> i = 5
          /\ Discovery!Inspection[i] = "counts" <=> i = 7
          /\ Discovery!Inspection[i] = "same" <=> i = 12
<1>1. Len(Discovery!Inspection) = 12 /\ DOMAIN Discovery!Inspection = 1 .. 12
  BY DEF Discovery!Inspection
<1>2. ASSUME NEW i \in 1 .. 12
      PROVE  /\ i \in {1} => Discovery!Inspection[i] = "open"
             /\ i \in {2, 9} => Discovery!Inspection[i] = "model"
             /\ i \in {3, 10} => Discovery!Inspection[i] = "serial"
             /\ i \in {4, 6, 8, 11} => Discovery!Inspection[i] = "current"
             /\ i \in {5} => Discovery!Inspection[i] = "by-id"
             /\ i \in {7} => Discovery!Inspection[i] = "counts"
             /\ i \in {12} => Discovery!Inspection[i] = "same"
  BY DEF Discovery!Inspection
<1>3. QED
  BY <1>1, <1>2

\* What a number's node is.
LEMMA NodeFacts ==
    ASSUME Discovery!TypeOK, NEW s \in Slots
    PROVE  /\ Discovery!Node(s) \in Discovery!Nodes \cup {None}
           /\ Discovery!Node(s) # None <=> slots[s] # None /\ slots[s].phase = "ready"
           /\ Discovery!Node(s) # None =>
                 /\ Discovery!Node(s).pad = slots[s].pad
                 /\ Discovery!Node(s).inode = slots[s].inode
           /\ slots[s] # None => slots[s].pad \in Pads /\ slots[s].inode \in 1 .. MaxPlugs
<1>1. slots[s] # None => slots[s] \in Discovery!Entries
  BY DEF Discovery!TypeOK
<1>2. slots[s] # None => [pad |-> slots[s].pad, inode |-> slots[s].inode] \in Discovery!Nodes
  BY <1>1 DEF Discovery!Entries, Discovery!Nodes
<1>3. None \notin Discovery!Nodes
  BY GamepadAssumption DEF Discovery!DiscoveryAssumption
<1>4. QED
  BY <1>1, <1>2, <1>3 DEF Discovery!Node, Discovery!Entries

\* One path is inspected at a time.
LEMMA OnePath ==
    ASSUME Discovery!TypeOK, NEW s \in Slots, NEW t \in Slots,
           Discovery!Path(s), Discovery!Path(t)
    PROVE  s = t
<1>1. s <= t /\ t <= s
  BY DEF Discovery!Path
<1>2. s \in Nat /\ t \in Nat
  BY GamepadAssumption DEF Discovery!DiscoveryAssumption
<1>3. QED
  BY <1>1, <1>2

\* A pad that is steady is on one number, and its node is there.
LEMMA SteadyIsReady ==
    ASSUME DiscoveryInv, NEW s \in Slots, slots[s] # None, slots[s].pad \in steady
    PROVE  slots[s].phase = "ready" /\ Discovery!Node(s) # None
<1>1. PICK t \in Slots : Discovery!Node(t) # None /\ slots[t].pad = slots[s].pad
  BY DEF DiscoveryInv, SteadyFound
<1>2. slots[t] # None
  BY <1>1, NodeFacts DEF DiscoveryInv
<1>3. s = t
  BY <1>1, <1>2 DEF DiscoveryInv, Plugged
<1>4. QED
  BY <1>1, <1>3, NodeFacts DEF DiscoveryInv

\* Pads come and go without disturbing what was found of those that stay.
LEMMA UsbKeeps ==
    ASSUME DiscoveryInv, Discovery!TypeOK', Discovery!Keep, Plugged',
           steady' \subseteq steady, quiet' => quiet /\ steady' = steady,
           NEW n \in Nat, opened # None => opened.inode <= n,
           \A t \in Slots :
               /\ slots[t] # None /\ slots[t].phase = "ready" /\ slots[t].pad \in steady'
                     => slots'[t] = slots[t]
               /\ slots'[t] # None /\ slots'[t].pad \in steady' => slots'[t] = slots[t]
               /\ slots'[t] # None /\ slots'[t].inode <= n
                     => /\ slots[t] # None /\ slots'[t].inode = slots[t].inode
                        /\ slots'[t].pad = slots[t].pad
    PROVE  DiscoveryInv'
<1>1. UNCHANGED <<todo, call, opened, read, found, outcome, chosen, reader>>
  BY DEF Discovery!Keep
<1>2. ASSUME NEW t \in Slots, slots'[t] = slots[t]
      PROVE  Discovery!Node(t)' = Discovery!Node(t)
  BY <1>2 DEF Discovery!Node
<1>3. Underway'
  BY <1>1 DEF DiscoveryInv, Underway
<1>4. ASSUME NEW s \in Slots, Discovery!Path(s)', opened' # None PROVE ReadRight(s)'
  <2>1. ReadRight(s)
    BY <1>1, <1>4 DEF DiscoveryInv, Discovery!Path
  <2>2. opened.inode <= n
    BY <1>1, <1>4
  <2>3. slots'[s] # None /\ slots'[s].inode = opened.inode
        => slots[s] # None /\ slots[s].inode = opened.inode /\ slots'[s].pad = slots[s].pad
    BY <2>2
  <2>4. slots'[s] # None /\ slots'[s].pad \in steady' => opened = Discovery!Node(s)'
    BY <1>2, <2>1 DEF ReadRight
  <2>5. QED
    BY <1>1, <2>1, <2>3, <2>4 DEF ReadRight, Discovery!IdentityOf
<1>5. Discovery!DescriptorIsOnePad' /\ ChosenMatches'
  BY <1>1 DEF DiscoveryInv, Discovery!DescriptorIsOnePad, Discovery!IdentityOf,
              ChosenMatches, Discovery!Matches
<1>6. SteadyFound'
  <2> SUFFICES ASSUME NEW p \in steady'
               PROVE  \E s \in Slots : /\ Discovery!Node(s)' # None /\ slots'[s].pad = p
                                       /\ s \in todo \/ \E d \in found : d.pad = p
    BY <1>1 DEF SteadyFound
  <2>1. PICK s \in Slots : /\ Discovery!Node(s) # None /\ slots[s].pad = p
                           /\ s \in todo \/ \E d \in found : d.pad = p
    BY DEF DiscoveryInv, SteadyFound
  <2>2. slots'[s] = slots[s]
    BY <2>1, NodeFacts DEF DiscoveryInv
  <2>3. QED
    BY <1>2, <2>1, <2>2
<1>7. QuietKept'
  <2> SUFFICES ASSUME quiet'
               PROVE  /\ \A s \in todo : Discovery!Node(s)' # None /\ slots'[s].pad \in steady'
                      /\ \A d \in found : /\ Discovery!Node(d.slot)' # None
                                          /\ slots'[d.slot].pad = d.pad /\ d.pad \in steady'
    BY <1>1 DEF QuietKept
  <2>1. QuietKept /\ quiet /\ steady' = steady
    BY DEF DiscoveryInv
  <2>2. ASSUME NEW s \in Slots, Discovery!Node(s) # None, slots[s].pad \in steady
        PROVE  slots'[s] = slots[s] /\ Discovery!Node(s)' = Discovery!Node(s)
    BY <1>2, <2>1, <2>2, NodeFacts DEF DiscoveryInv
  <2>3. todo \subseteq Slots /\ \A d \in found : d.slot \in Slots
    BY DEF DiscoveryInv, Discovery!TypeOK, Discovery!Descriptors
  <2>4. QED
    BY <2>1, <2>2, <2>3 DEF QuietKept
<1>8. Discovery!QuietStartSucceeds'
  BY <1>1 DEF DiscoveryInv, Discovery!QuietStartSucceeds, Discovery!Matches,
              Discovery!IdentityOf
<1>9. QED
  BY <1>1, <1>3, <1>4, <1>5, <1>6, <1>7, <1>8 DEF DiscoveryInv, Reads

LEMMA UsbInductive == ASSUME DiscoveryInv, Discovery!Usb PROVE DiscoveryInv'
<1>1. /\ Discovery!TypeOK /\ plugs \in Nat /\ MaxPlugs \in Nat /\ Plugged
      /\ opened # None => opened.inode <= plugs
  <2>1. MaxPlugs \in Nat
    BY GamepadAssumption DEF Discovery!DiscoveryAssumption
  <2>2. Discovery!TypeOK /\ Plugged
    BY DEF DiscoveryInv
  <2>3. plugs \in Nat
    BY <2>1, <2>2 DEF Discovery!TypeOK
  <2>4. QED
    BY <2>1, <2>2, <2>3 DEF Plugged
<1>2. PICK s \in Slots : \/ \E p \in Pads : Discovery!Plug(p, s)
                         \/ Discovery!Appear(s) \/ Discovery!Unplug(s) \/ Discovery!Vanish(s)
  BY DEF Discovery!Usb
<1>3. \A t \in Slots : slots[t] # None => slots[t] \in Discovery!Entries
  BY <1>1 DEF Discovery!TypeOK
<1>4. ASSUME NEW p \in Pads, Discovery!Plug(p, s) PROVE DiscoveryInv'
  <2> DEFINE e == [pad |-> p, inode |-> plugs + 1, phase |-> "arriving"]
  <2>1. /\ slots' = [slots EXCEPT ![s] = e] /\ plugs' = plugs + 1 /\ plugs < MaxPlugs
        /\ UNCHANGED <<steady, quiet>> /\ Discovery!Keep /\ slots[s] = None
    BY <1>4 DEF Discovery!Plug
  <2>2. e \in Discovery!Entries
    BY <1>1, <2>1 DEF Discovery!Entries
  <2>3. Discovery!TypeOK'
    BY <1>1, <2>1, <2>2 DEF Discovery!TypeOK, Discovery!Keep
  <2>4. \A t \in Slots : slots[t] # None => slots[t].pad # p
    BY <1>4 DEF Discovery!Plug, Discovery!Attached
  <2>5. p \notin steady
    BY <2>4, NodeFacts DEF DiscoveryInv, SteadyFound
  <2>6. slots'[s] = e /\ \A t \in Slots \ {s} : slots'[t] = slots[t]
    BY <1>1, <2>1 DEF Discovery!TypeOK
  <2>7. e.pad = p /\ e.inode = plugs + 1
    OBVIOUS
  <2> HIDE DEF e
  <2>8. Plugged'
    <3>1. ASSUME NEW t \in Slots, slots'[t] # None PROVE slots'[t].inode <= plugs'
      <4>1. CASE t = s
        BY <1>1, <2>1, <2>6, <2>7, <4>1
      <4>2. CASE t # s
        <5>1. slots'[t] = slots[t] /\ slots[t].inode \in Nat /\ slots[t].inode <= plugs
          BY <1>1, <2>6, <3>1, <4>2, NodeFacts DEF Plugged
        <5>2. QED
          BY <1>1, <2>1, <5>1
      <4>3. QED
        BY <4>1, <4>2
    <3>2. ASSUME NEW t \in Slots, NEW u \in Slots, slots'[t] # None, slots'[u] # None,
                 slots'[t].pad = slots'[u].pad
          PROVE  t = u
      BY <1>1, <2>4, <2>6, <2>7, <3>2 DEF Plugged
    <3>3. opened' # None => opened'.inode <= plugs'
      <4>1. opened # None => opened.inode \in Nat
        BY <1>1 DEF Discovery!TypeOK, Discovery!Nodes
      <4>2. QED
        BY <1>1, <2>1, <4>1 DEF Discovery!Keep
    <3>4. QED
      BY <3>1, <3>2, <3>3 DEF Plugged
  <2>9. \A t \in Slots :
            /\ slots[t] # None => slots'[t] = slots[t]
            /\ slots'[t] # None /\ slots'[t].pad \in steady' => slots'[t] = slots[t]
            /\ slots'[t] # None /\ slots'[t].inode <= plugs => slots'[t] = slots[t]
    BY <1>1, <2>1, <2>5, <2>6, <2>7
  <2>10. QED
    BY <1>1, <2>1, <2>3, <2>8, <2>9, UsbKeeps
<1>5. ASSUME NEW e \in Discovery!Entries, slots[s] # None, slots' = [slots EXCEPT ![s] = e],
             e.pad = slots[s].pad, e.inode = slots[s].inode, plugs' = plugs,
             Discovery!Keep, steady' \subseteq steady, slots[s].pad \notin steady',
             quiet' => quiet /\ steady' = steady
      PROVE  DiscoveryInv'
  <2>1. Discovery!TypeOK'
    BY <1>1, <1>5 DEF Discovery!TypeOK, Discovery!Keep
  <2>2. slots'[s] = e /\ \A t \in Slots \ {s} : slots'[t] = slots[t]
    BY <1>1, <1>5 DEF Discovery!TypeOK
  <2>3. Plugged'
    BY <1>1, <1>5, <2>2 DEF Plugged, Discovery!Keep
  <2>4. \A t \in Slots :
            /\ slots[t] # None /\ slots[t].pad \in steady' => slots'[t] = slots[t]
            /\ slots'[t] # None /\ slots'[t].pad \in steady' => slots'[t] = slots[t]
            /\ slots'[t] # None => /\ slots[t] # None /\ slots'[t].inode = slots[t].inode
                                   /\ slots'[t].pad = slots[t].pad
    BY <1>5, <2>2
  <2>5. QED
    BY <1>1, <1>5, <2>1, <2>3, <2>4, UsbKeeps
<1>6. ASSUME NEW phase \in {"arriving", "ready", "leaving"}, slots[s] # None
      PROVE  LET e == [slots[s] EXCEPT !.phase = phase]
             IN  /\ e \in Discovery!Entries
                 /\ e.pad = slots[s].pad /\ e.inode = slots[s].inode
  BY <1>3, <1>6 DEF Discovery!Entries
<1>7. CASE Discovery!Appear(s)
  <2>1. /\ slots[s] # None /\ slots[s].phase = "arriving"
        /\ slots' = [slots EXCEPT ![s] = [slots[s] EXCEPT !.phase = "ready"]]
        /\ UNCHANGED <<plugs, steady, quiet>> /\ Discovery!Keep
    BY <1>7 DEF Discovery!Appear
  <2>2. slots[s].pad \notin steady
    BY <2>1, SteadyIsReady
  <2>3. QED
    BY <1>5, <1>6, <2>1, <2>2
<1>8. CASE Discovery!Unplug(s)
  <2>1. /\ slots[s] # None
        /\ slots' = [slots EXCEPT ![s] = [slots[s] EXCEPT !.phase = "leaving"]]
        /\ steady' = steady \ {slots[s].pad} /\ quiet' = FALSE
        /\ UNCHANGED plugs /\ Discovery!Keep
    BY <1>1, <1>8, NodeFacts DEF Discovery!Unplug
  <2>2. QED
    BY <1>5, <1>6, <2>1
<1>9. CASE Discovery!Vanish(s)
  <2>1. /\ slots[s] # None /\ slots[s].phase = "leaving"
        /\ slots' = [slots EXCEPT ![s] = None]
        /\ UNCHANGED <<plugs, steady, quiet>> /\ Discovery!Keep
    BY <1>9 DEF Discovery!Vanish
  <2>2. Discovery!TypeOK'
    BY <1>1, <2>1 DEF Discovery!TypeOK, Discovery!Keep
  <2>3. slots'[s] = None /\ \A t \in Slots \ {s} : slots'[t] = slots[t]
    BY <1>1, <2>1 DEF Discovery!TypeOK
  <2>4. Plugged'
    BY <1>1, <2>1, <2>3 DEF Plugged, Discovery!Keep
  <2>5. \A t \in Slots :
            /\ slots[t] # None /\ slots[t].phase = "ready" => slots'[t] = slots[t]
            /\ slots'[t] # None => slots'[t] = slots[t]
    BY <2>1, <2>3
  <2>6. QED
    BY <1>1, <2>1, <2>2, <2>4, <2>5, UsbKeeps
<1>10. QED
  BY <1>2, <1>4, <1>7, <1>8, <1>9

\* Counting is counting: the module of the discovery has operators of its own.
LEMMA SameCardinality ==
    \A S : /\ Discovery!Cardinality(S) = Cardinality(S)
           /\ Discovery!IsFiniteSet(S) <=> IsFiniteSet(S)
<1>1. \A S : Discovery!Cardinality(S) = Cardinality(S)
  BY DEF Discovery!Cardinality, Cardinality
<1>2. \A S : Discovery!IsFiniteSet(S) <=> IsFiniteSet(S)
  BY DEF Discovery!IsFiniteSet, IsFiniteSet
<1>3. QED
  BY <1>1, <1>2

\* A discovery may fail where a pad has left or no single one matches.
LEMMA FailKeeps ==
    ASSUME DiscoveryInv, Discovery!Fail, call # 0,
           ~(quiet /\ Cardinality({p \in steady :
                          Discovery!Matches(Discovery!IdentityOf(p))}) = 1)
    PROVE  DiscoveryInv'
<1>1. /\ outcome' = "failed" /\ opened' = None
      /\ UNCHANGED <<slots, plugs, steady, quiet, todo, call, read, found, chosen, reader>>
  BY DEF Discovery!Fail, Discovery!world
<1>2. Discovery!TypeOK' /\ read' \in Reads'
  BY <1>1 DEF DiscoveryInv, Discovery!TypeOK, Reads
<1>3. Plugged' /\ Underway'
  BY <1>1 DEF DiscoveryInv, Plugged, Underway
<1>4. SteadyFound' /\ QuietKept' /\ ChosenMatches' /\ Discovery!DescriptorIsOnePad'
  BY <1>1 DEF DiscoveryInv, SteadyFound, QuietKept, ChosenMatches, Discovery!Matches,
              Discovery!DescriptorIsOnePad, Discovery!IdentityOf, Discovery!Node
<1>5. Discovery!QuietStartSucceeds'
  BY <1>1, SameCardinality
     DEF Discovery!QuietStartSucceeds, Discovery!Matches, Discovery!IdentityOf
<1>6. QED
  BY <1>1, <1>2, <1>3, <1>4, <1>5 DEF DiscoveryInv

\* A call that succeeds goes on to the next one; all it has to keep is that what
\* was read is right.
LEMMA AdvanceKeeps ==
    ASSUME DiscoveryInv, NEW s \in Slots, Discovery!Path(s), Discovery!Advance,
           call \in 1 .. 11, opened' \in Discovery!Nodes, opened'.inode <= plugs,
           read' \in Reads, call' <= 3 => read'.before = None, ReadRight(s)'
    PROVE  DiscoveryInv'
<1>1. /\ call' = call + 1
      /\ UNCHANGED <<slots, plugs, steady, quiet, todo, found, outcome, chosen, reader>>
  BY DEF Discovery!Advance, Discovery!world
<1>2. None \notin Discovery!Nodes
  BY GamepadAssumption DEF Discovery!DiscoveryAssumption
<1>3. Discovery!TypeOK' /\ read' \in Reads'
  BY <1>1, CallsOfAPath DEF DiscoveryInv, Discovery!TypeOK, Reads
<1>4. Plugged' /\ Underway'
  BY <1>1, <1>2 DEF DiscoveryInv, Plugged, Underway
<1>5. SteadyFound' /\ QuietKept' /\ ChosenMatches' /\ Discovery!DescriptorIsOnePad'
  BY <1>1 DEF DiscoveryInv, SteadyFound, QuietKept, ChosenMatches, Discovery!Matches,
              Discovery!DescriptorIsOnePad, Discovery!IdentityOf, Discovery!Node
<1>6. Discovery!QuietStartSucceeds'
  BY <1>1 DEF DiscoveryInv, Discovery!QuietStartSucceeds, Discovery!Matches,
              Discovery!IdentityOf
<1>7. ASSUME NEW t \in Slots, Discovery!Path(t)' PROVE ReadRight(t)'
  <2>1. Discovery!Path(t)
    BY <1>1, <1>7 DEF Discovery!Path
  <2>2. t = s
    BY <2>1, OnePath DEF DiscoveryInv
  <2>3. QED
    BY <2>2
<1>8. QED
  BY <1>1, <1>3, <1>4, <1>5, <1>6, <1>7 DEF DiscoveryInv

\* While no pad leaves, the path inspected is the node that is open.
LEMMA QuietIsOpen ==
    ASSUME DiscoveryInv, quiet, NEW s \in Slots, Discovery!Path(s)
    PROVE  /\ Discovery!Node(s) # None /\ slots[s] # None
           /\ opened # None => opened = Discovery!Node(s)
<1>1. s \in todo
  BY DEF Discovery!Path
<1>2. Discovery!Node(s) # None /\ slots[s].pad \in steady
  BY <1>1 DEF DiscoveryInv, QuietKept
<1>3. slots[s] # None
  BY <1>2, NodeFacts DEF DiscoveryInv
<1>4. QED
  BY <1>2, <1>3 DEF DiscoveryInv, ReadRight

\* Where a call of the inspection is made, and on what.
LEMMA Inspected ==
    ASSUME DiscoveryInv, NEW s \in Slots, NEW c, Discovery!Inspecting(c, s)
    PROVE  /\ call \in 1 .. 12 /\ Discovery!Inspection[call] = c
           /\ outcome = "running" /\ Discovery!Path(s)
           /\ call > 1 => /\ opened \in Discovery!Nodes /\ opened # None
                          /\ opened.inode \in Nat /\ opened.inode <= plugs
                          /\ opened.pad \in Pads /\ ReadRight(s)
<1>1. /\ call \in 1 .. 12 /\ Discovery!Inspection[call] = c
      /\ outcome = "running" /\ Discovery!Path(s)
  BY CallsOfAPath DEF Discovery!Inspecting
<1>2. call > 1 => opened # None /\ opened \in Discovery!Nodes
  BY <1>1 DEF DiscoveryInv, Underway, Discovery!TypeOK
<1>3. QED
  BY <1>1, <1>2 DEF DiscoveryInv, Plugged, Discovery!Nodes

\* The identity of a pad is something that can have been read.
LEMMA Identified ==
    ASSUME NEW p \in Pads
    PROVE  /\ Discovery!IdentityOf(p) # None
           /\ Discovery!IdentityOf(p) \in Discovery!Identities
           /\ Counts[p] \in {Counts[q] : q \in Pads}
<1>1. Discovery!IdentityOf(p) \in Discovery!Identities
  BY DEF Discovery!IdentityOf, Discovery!Identities
<1>2. QED
  BY <1>1, GamepadAssumption DEF Discovery!DiscoveryAssumption

LEMMA OpenInductive ==
    ASSUME DiscoveryInv, NEW s \in Slots, Discovery!Open(s)
    PROVE  DiscoveryInv'
<1>1. call = 1 /\ outcome = "running" /\ Discovery!Path(s)
  BY Inspected, CallsOfAPath DEF Discovery!Open
<1>2. CASE Discovery!Node(s) = None
  BY <1>1, <1>2, QuietIsOpen, FailKeeps DEF Discovery!Open
<1>3. CASE Discovery!Node(s) # None
  <2>1. /\ opened' = Discovery!Node(s) /\ read' = read /\ Discovery!Advance
        /\ UNCHANGED <<slots, plugs, steady>> /\ call' = 2
    BY <1>1, <1>3 DEF Discovery!Open, Discovery!Advance, Discovery!world
  <2>2. /\ Discovery!Node(s) \in Discovery!Nodes /\ Discovery!Node(s).pad = slots[s].pad
        /\ Discovery!Node(s).inode = slots[s].inode /\ slots[s] # None
    BY <1>3, NodeFacts DEF DiscoveryInv
  <2>3. opened'.inode <= plugs
    BY <2>1, <2>2 DEF DiscoveryInv, Plugged
  <2>4. ReadRight(s)'
    BY <2>1, <2>2 DEF ReadRight, Discovery!Node
  <2>5. QED
    BY <1>1, <2>1, <2>2, <2>3, <2>4, AdvanceKeeps DEF DiscoveryInv, Underway
<1>4. QED
  BY <1>2, <1>3

LEMMA ReadModelInductive ==
    ASSUME DiscoveryInv, NEW s \in Slots, Discovery!ReadModel(s)
    PROVE  DiscoveryInv'
<1>1. /\ call \in {2, 9} /\ Discovery!Path(s) /\ opened \in Discovery!Nodes /\ opened # None
      /\ opened.inode <= plugs /\ ReadRight(s)
  BY Inspected, CallsOfAPath DEF Discovery!ReadModel
<1>2. CASE slots[s] = None
  BY <1>1, <1>2, QuietIsOpen, FailKeeps DEF Discovery!ReadModel, Discovery!Entry
<1>3. CASE slots[s] # None
  <2>1. /\ read' = [read EXCEPT !.model = Model[slots[s].pad]]
        /\ Discovery!Advance /\ opened' = opened /\ call' = call + 1
        /\ UNCHANGED <<slots, plugs, steady, quiet>>
    BY <1>3 DEF Discovery!ReadModel, Discovery!Entry, Discovery!Advance, Discovery!world
  <2>2. slots[s].pad \in Pads
    BY <1>3, NodeFacts DEF DiscoveryInv
  <2>3. /\ read' \in Reads /\ read'.before = read.before /\ read'.counts = read.counts
        /\ read'.serial = read.serial /\ read'.model = Model[slots[s].pad]
    BY <2>1, <2>2 DEF DiscoveryInv, Reads
  <2>4. quiet => slots[s].pad = opened.pad
    BY <1>1, <1>3, QuietIsOpen, NodeFacts DEF DiscoveryInv
  <2>5. ReadRight(s)'
    BY <1>1, <2>1, <2>3, <2>4 DEF ReadRight, Discovery!Node, Discovery!IdentityOf
  <2>6. call' <= 3 => read'.before = None
    BY <1>1, <2>1, <2>3 DEF DiscoveryInv, Underway
  <2>7. QED
    BY <1>1, <2>1, <2>3, <2>5, <2>6, AdvanceKeeps
<1>4. QED
  BY <1>2, <1>3

LEMMA ReadSerialInductive ==
    ASSUME DiscoveryInv, NEW s \in Slots, Discovery!ReadSerial(s)
    PROVE  DiscoveryInv'
<1> DEFINE serial == IF slots[s] # None THEN Serial[slots[s].pad] ELSE None
           aside == [model |-> read.model, serial |-> serial]
<1>1. /\ call \in {3, 10} /\ Discovery!Path(s) /\ opened \in Discovery!Nodes /\ opened # None
      /\ opened.inode <= plugs /\ opened.pad \in Pads /\ ReadRight(s)
  BY Inspected, CallsOfAPath DEF Discovery!ReadSerial
<1>2. /\ read' = IF read.before = None
                 THEN [read EXCEPT !.serial = serial, !.before = aside]
                 ELSE [read EXCEPT !.serial = serial]
      /\ Discovery!Advance /\ opened' = opened /\ call' = call + 1
      /\ UNCHANGED <<slots, plugs, steady, quiet>>
  BY DEF Discovery!ReadSerial, Discovery!Entry, Discovery!Advance, Discovery!world
<1>3. serial \in {Serial[p] : p \in Pads} \cup {None}
  BY NodeFacts DEF DiscoveryInv
<1>4. slots[s] # None => serial = Serial[slots[s].pad]
  OBVIOUS
<1> HIDE DEF serial
<1>5. /\ read' \in Reads /\ read'.model = read.model /\ read'.counts = read.counts
      /\ read'.serial = serial
      /\ read.before = None => read'.before = aside
      /\ read.before # None => read'.before = read.before
  BY <1>2, <1>3 DEF DiscoveryInv, Reads
<1>6. CASE call = 3
  <2>1. read.before = None
    BY <1>6 DEF DiscoveryInv, Underway
  <2>2. slots[s] # None /\ slots[s].inode = opened.inode =>
            slots[s].pad = opened.pad /\ read'.before = Discovery!IdentityOf(opened.pad)
    BY <1>1, <1>4, <1>5, <1>6, <2>1 DEF ReadRight, Discovery!IdentityOf
  <2>3. ReadRight(s)'
    BY <1>1, <1>2, <1>6, <2>2 DEF ReadRight, Discovery!Node, Discovery!IdentityOf
  <2>4. QED
    BY <1>1, <1>2, <1>5, <1>6, <2>3, AdvanceKeeps
<1>7. CASE call = 10
  <2>1. read.before = Discovery!IdentityOf(opened.pad)
    BY <1>1, <1>7 DEF ReadRight
  <2>2. read'.before = read.before
    BY <1>1, <1>5, <2>1, Identified
  <2>3. quiet => serial = Serial[opened.pad]
    BY <1>1, <1>4, QuietIsOpen, NodeFacts DEF DiscoveryInv
  <2>4. ReadRight(s)'
    BY <1>1, <1>2, <1>5, <1>7, <2>1, <2>2, <2>3
       DEF ReadRight, Discovery!Node, Discovery!IdentityOf
  <2>5. QED
    BY <1>1, <1>2, <1>5, <1>7, <2>4, AdvanceKeeps
<1>8. QED
  BY <1>1, <1>6, <1>7

\* The calls that read nothing of the identity.
LEMMA OtherCallsInductive ==
    ASSUME DiscoveryInv, NEW s \in Slots,
           \/ Discovery!RequireCurrent(s) \/ Discovery!FindById(s) \/ Discovery!ReadCounts(s)
    PROVE  DiscoveryInv'
<1>1. /\ call \in {4, 5, 6, 7, 8, 11} /\ Discovery!Path(s)
      /\ opened \in Discovery!Nodes /\ opened # None /\ opened.pad \in Pads
      /\ opened.inode <= plugs /\ ReadRight(s)
      /\ call = 4 => Discovery!RequireCurrent(s)
      /\ Discovery!ReadCounts(s) <=> call = 7
  <2>1. CASE Discovery!RequireCurrent(s)
    <3>1. call \in {4, 6, 8, 11} /\ ~Discovery!ReadCounts(s)
      BY <2>1, Inspected, CallsOfAPath DEF Discovery!RequireCurrent, Discovery!ReadCounts
    <3>2. QED
      BY <2>1, <3>1, Inspected DEF Discovery!RequireCurrent
  <2>2. CASE Discovery!FindById(s)
    <3>1. call = 5 /\ ~Discovery!ReadCounts(s)
      BY <2>2, Inspected, CallsOfAPath DEF Discovery!FindById, Discovery!ReadCounts
    <3>2. QED
      BY <2>2, <3>1, Inspected DEF Discovery!FindById
  <2>3. CASE Discovery!ReadCounts(s)
    <3>1. call = 7
      BY <2>3, Inspected, CallsOfAPath DEF Discovery!ReadCounts
    <3>2. QED
      BY <2>3, <3>1, Inspected DEF Discovery!ReadCounts
  <2>4. QED
    BY <2>1, <2>2, <2>3
<1>2. CASE Discovery!Fail /\ ~quiet
  BY <1>1, <1>2, FailKeeps
<1>3. CASE ~(Discovery!Fail /\ ~quiet)
  <2>1. ~Discovery!Fail
    BY <1>1, <1>3, QuietIsOpen
       DEF Discovery!RequireCurrent, Discovery!IsCurrent, Discovery!FindById,
           Discovery!LinkFails, Discovery!ReadCounts, Discovery!Fail, Discovery!Advance
  <2>2. /\ Discovery!Advance /\ opened' = opened /\ call' = call + 1
        /\ UNCHANGED <<slots, plugs, steady, quiet>>
        /\ IF call = 7 THEN read' = [read EXCEPT !.counts = Counts[opened.pad]]
                       ELSE read' = read
        /\ call = 4 => Discovery!Node(s) = opened
    BY <1>1, <2>1
       DEF Discovery!RequireCurrent, Discovery!IsCurrent, Discovery!FindById,
           Discovery!LinkFails, Discovery!ReadCounts, Discovery!Advance, Discovery!world
  <2>3. /\ read' \in Reads /\ read'.model = read.model /\ read'.serial = read.serial
        /\ read'.before = read.before
        /\ call = 7 => read'.counts = Counts[opened.pad]
        /\ call # 7 => read'.counts = read.counts
    BY <1>1, <2>2 DEF DiscoveryInv, Reads
  <2>4. call = 4 => slots[s] # None /\ slots[s].inode = opened.inode
    BY <1>1, <2>2, NodeFacts DEF DiscoveryInv
  <2>5. ReadRight(s)'
    <3>1. /\ slots[s] # None /\ slots[s].inode = opened.inode => slots[s].pad = opened.pad
          /\ read.before = Discovery!IdentityOf(opened.pad)
      BY <1>1, <2>4 DEF ReadRight
    <3>2. call' >= 8 => read'.counts = Counts[opened.pad]
      BY <1>1, <2>2, <2>3 DEF ReadRight
    <3>3. /\ quiet /\ call' >= 10 => read.model = Model[opened.pad]
          /\ quiet /\ call' >= 11 => read.serial = Serial[opened.pad]
      BY <1>1, <2>2 DEF ReadRight
    <3>4. QED
      BY <1>1, <2>2, <2>3, <3>1, <3>2, <3>3
         DEF ReadRight, Discovery!Node, Discovery!IdentityOf
  <2>6. QED
    BY <1>1, <2>2, <2>3, <2>5, AdvanceKeeps
<1>4. QED
  BY <1>2, <1>3

LEMMA RequireSameInductive ==
    ASSUME DiscoveryInv, NEW s \in Slots, Discovery!RequireSame(s)
    PROVE  DiscoveryInv'
<1>1. /\ call = 12 /\ outcome = "running" /\ Discovery!Path(s)
      /\ opened \in Discovery!Nodes /\ opened # None /\ opened.pad \in Pads /\ ReadRight(s)
  <2>1. call = 12
    BY Inspected, CallsOfAPath DEF Discovery!RequireSame
  <2>2. QED
    BY <2>1, Inspected DEF Discovery!RequireSame
<1>2. /\ read.before = Discovery!IdentityOf(opened.pad)
      /\ read.counts = Counts[opened.pad]
      /\ quiet => Discovery!Identity = Discovery!IdentityOf(opened.pad)
  BY <1>1 DEF ReadRight, Discovery!Identity, Discovery!IdentityOf
<1>3. CASE Discovery!Fail /\ ~quiet
  BY <1>1, <1>3, FailKeeps
<1>4. CASE ~(Discovery!Fail /\ ~quiet)
  <2> DEFINE d == [slot |-> s, identity |-> Discovery!IdentityOf(opened.pad),
                   counts |-> Counts[opened.pad], pad |-> opened.pad]
  <2>1. /\ found' = found \cup {d} /\ todo' = todo \ {s}
        /\ call' = 1 /\ opened' = None /\ read' = Discovery!NothingRead
        /\ UNCHANGED <<slots, plugs, steady, quiet, outcome, chosen, reader>>
    BY <1>2, <1>4 DEF Discovery!RequireSame, Discovery!LinkFails, Discovery!world
  <2>2. d \in Discovery!Descriptors
    BY <1>1, Identified DEF Discovery!Descriptors
  <2>3. d.slot = s /\ d.pad = opened.pad /\ d.counts = Counts[d.pad]
        /\ d.identity = Discovery!IdentityOf(d.pad)
    OBVIOUS
  <2> HIDE DEF d
  <2>4. read' \in Reads /\ read'.before = None
    BY <2>1 DEF Reads, Discovery!NothingRead
  <2>5. Discovery!TypeOK' /\ IsFiniteSet(found)'
    BY <2>1, <2>2, CallsOfAPath, FS_AddElement DEF DiscoveryInv, Discovery!TypeOK
  <2>6. Plugged' /\ Underway'
    BY <1>1, <2>1, <2>4 DEF DiscoveryInv, Plugged, Underway
  <2>7. Discovery!DescriptorIsOnePad' /\ ChosenMatches'
    BY <2>1, <2>3 DEF DiscoveryInv, Discovery!DescriptorIsOnePad, ChosenMatches,
                      Discovery!Matches, Discovery!IdentityOf
  <2>8. SteadyFound'
    <3> SUFFICES ASSUME NEW p \in steady
                 PROVE  \E t \in Slots : /\ Discovery!Node(t) # None /\ slots[t].pad = p
                                         /\ t \in todo' \/ \E e \in found' : e.pad = p
      BY <2>1 DEF SteadyFound, Discovery!Node
    <3>1. PICK t \in Slots : /\ Discovery!Node(t) # None /\ slots[t].pad = p
                             /\ t \in todo \/ \E e \in found : e.pad = p
      BY DEF DiscoveryInv, SteadyFound
    <3>2. t = s => d.pad = p
      BY <1>1, <2>3, <3>1, NodeFacts DEF ReadRight, DiscoveryInv
    <3>3. QED
      BY <2>1, <3>1, <3>2
  <2>9. QuietKept'
    <3>1. quiet => /\ Discovery!Node(s) # None /\ slots[s].pad = d.pad /\ d.pad \in steady
      BY <1>1, <2>3, QuietIsOpen, NodeFacts DEF DiscoveryInv, QuietKept, Discovery!Path
    <3>2. QED
      BY <2>1, <2>3, <3>1 DEF DiscoveryInv, QuietKept, Discovery!Node
  <2>10. Discovery!QuietStartSucceeds'
    BY <2>1 DEF DiscoveryInv, Discovery!QuietStartSucceeds, Discovery!Matches,
                Discovery!IdentityOf
  <2>11. QED
    BY <2>1, <2>4, <2>5, <2>6, <2>7, <2>8, <2>9, <2>10 DEF DiscoveryInv, Reads
<1>5. QED
  BY <1>3, <1>4

LEMMA ListInductive == ASSUME DiscoveryInv, Discovery!List PROVE DiscoveryInv'
<1>1. /\ call = 0 /\ call' = 1 /\ outcome = "running"
      /\ todo' = {s \in Slots : Discovery!Node(s) # None}
      /\ steady' = {slots[s].pad : s \in {t \in Slots : Discovery!Node(t) # None}}
      /\ UNCHANGED <<slots, plugs, opened, read, found, outcome, chosen, reader>>
  BY DEF Discovery!List
<1>2. /\ found = {} /\ chosen = None /\ opened = None /\ read.before = None
  BY <1>1 DEF DiscoveryInv, Underway
<1>3. steady' \subseteq Pads
  BY <1>1, NodeFacts DEF DiscoveryInv
<1>4. Discovery!TypeOK' /\ Plugged' /\ Underway'
  BY <1>1, <1>2, <1>3, CallsOfAPath DEF DiscoveryInv, Discovery!TypeOK, Plugged, Underway
<1>5. SteadyFound' /\ QuietKept'
  BY <1>1, <1>2 DEF SteadyFound, QuietKept, Discovery!Node
<1>6. Discovery!DescriptorIsOnePad' /\ ChosenMatches'
  BY <1>1, <1>2 DEF Discovery!DescriptorIsOnePad, ChosenMatches
<1>7. Discovery!QuietStartSucceeds'
  BY <1>1 DEF Discovery!QuietStartSucceeds
<1>8. QED
  BY <1>1, <1>2, <1>4, <1>5, <1>6, <1>7 DEF DiscoveryInv, Reads

\* On a quiet bus the descriptors that match are those of the pads that match.
LEMMA QuietMatching ==
    ASSUME DiscoveryInv, quiet, call = 1, todo = {}, opened = None,
           NEW p, {q \in steady : Discovery!Matches(Discovery!IdentityOf(q))} = {p}
    PROVE  Cardinality(Discovery!Matching) = 1 /\ Discovery!Matching # {}
<1>1. /\ Discovery!TypeOK /\ SteadyFound /\ QuietKept /\ Plugged
      /\ Discovery!DescriptorIsOnePad
  BY DEF DiscoveryInv
<1>2. p \in steady /\ Discovery!Matches(Discovery!IdentityOf(p))
  OBVIOUS
<1>3. PICK d \in found : d.pad = p
  BY <1>1, <1>2 DEF SteadyFound
<1>4. d \in Discovery!Matching
  BY <1>1, <1>2, <1>3 DEF Discovery!Matching, Discovery!DescriptorIsOnePad
<1>5. ASSUME NEW e \in Discovery!Matching PROVE e = d
  <2>1. e \in found /\ e.pad \in steady
        /\ Discovery!Matches(Discovery!IdentityOf(e.pad))
    BY <1>1 DEF Discovery!Matching, Discovery!DescriptorIsOnePad, QuietKept
  <2>2. e.pad = p
    BY <2>1
  <2>3. /\ d.slot \in Slots /\ e.slot \in Slots
        /\ d \in Discovery!Descriptors /\ e \in Discovery!Descriptors
    BY <1>1, <1>3, <2>1 DEF Discovery!TypeOK, Discovery!Descriptors
  <2>4. /\ Discovery!Node(d.slot) # None /\ Discovery!Node(e.slot) # None
        /\ slots[d.slot].pad = p /\ slots[e.slot].pad = p
    BY <1>1, <1>3, <2>1, <2>2 DEF QuietKept
  <2>5. d.slot = e.slot
    BY <1>1, <2>3, <2>4, NodeFacts DEF Plugged
  <2>6. d.identity = e.identity /\ d.counts = e.counts
    BY <1>1, <1>3, <2>1, <2>2 DEF Discovery!DescriptorIsOnePad
  <2>7. QED
    BY <1>3, <2>2, <2>3, <2>5, <2>6 DEF Discovery!Descriptors
<1>6. Discovery!Matching = {d}
  BY <1>4, <1>5
<1>7. QED
  BY <1>6, FS_Singleton

\* The one pad of a quiet bus that matches.
LEMMA TheMatch ==
    ASSUME DiscoveryInv,
           Cardinality({q \in steady : Discovery!Matches(Discovery!IdentityOf(q))}) = 1
    PROVE  \E p : {q \in steady : Discovery!Matches(Discovery!IdentityOf(q))} = {p}
<1> DEFINE matching == {q \in steady : Discovery!Matches(Discovery!IdentityOf(q))}
<1>1. IsFiniteSet(Pads)
  BY GamepadAssumption, SameCardinality DEF Discovery!DiscoveryAssumption
<1>2. matching \subseteq Pads
  BY DEF DiscoveryInv, Discovery!TypeOK
<1>3. IsFiniteSet(matching)
  BY <1>1, <1>2, FS_Subset
<1>4. QED
  BY <1>3, FS_Singleton

LEMMA SelectInductive == ASSUME DiscoveryInv, Discovery!Select PROVE DiscoveryInv'
<1>1. outcome = "running" /\ call = 1 /\ todo = {} /\ opened = None
  BY DEF Discovery!Select, DiscoveryInv, Underway, Discovery!TypeOK
<1>2. CASE Discovery!Unique(Discovery!Matching) = {} /\ Discovery!Fail
  <2>1. ASSUME quiet,
               Cardinality({q \in steady : Discovery!Matches(Discovery!IdentityOf(q))}) = 1
        PROVE  FALSE
    <3>1. PICK p : {q \in steady : Discovery!Matches(Discovery!IdentityOf(q))} = {p}
      BY <2>1, TheMatch
    <3>2. Cardinality(Discovery!Matching) = 1 /\ Discovery!Matching # {}
      BY <1>1, <2>1, <3>1, QuietMatching
    <3>3. QED
      BY <1>2, <3>2, SameCardinality DEF Discovery!Unique
  <2>2. QED
    BY <1>1, <1>2, <2>1, FailKeeps
<1>3. CASE chosen' \in Discovery!Unique(Discovery!Matching)
           /\ UNCHANGED <<slots, plugs, steady, quiet, todo, call, opened, read, found,
                          outcome, reader>>
  <2>1. chosen' \in found /\ Discovery!Matches(chosen'.identity)
    BY <1>3 DEF Discovery!Unique, Discovery!Matching
  <2>2. Discovery!TypeOK'
    BY <1>3, <2>1 DEF DiscoveryInv, Discovery!TypeOK
  <2>3. Plugged' /\ Underway'
    BY <1>1, <1>3 DEF DiscoveryInv, Plugged, Underway
  <2>4. SteadyFound' /\ QuietKept' /\ Discovery!DescriptorIsOnePad'
    BY <1>3 DEF DiscoveryInv, SteadyFound, QuietKept, Discovery!DescriptorIsOnePad,
                Discovery!IdentityOf, Discovery!Node
  <2>5. ChosenMatches'
    BY <1>3, <2>1 DEF ChosenMatches, Discovery!Matches
  <2>6. Discovery!QuietStartSucceeds'
    BY <1>3 DEF DiscoveryInv, Discovery!QuietStartSucceeds, Discovery!Matches,
                Discovery!IdentityOf
  <2>7. QED
    BY <1>1, <1>3, <2>2, <2>3, <2>4, <2>5, <2>6 DEF DiscoveryInv, Reads
<1>4. QED
  BY <1>2, <1>3 DEF Discovery!Select, Discovery!world

LEMMA OpenSourceInductive == ASSUME DiscoveryInv, Discovery!OpenSource PROVE DiscoveryInv'
<1>1. /\ outcome = "running" /\ chosen # None /\ chosen \in found /\ call # 0
      /\ Discovery!Matches(chosen.identity) /\ chosen.slot \in Slots
      /\ chosen.identity = Discovery!IdentityOf(chosen.pad)
  BY DEF Discovery!OpenSource, DiscoveryInv, ChosenMatches, Underway,
         Discovery!DescriptorIsOnePad, Discovery!TypeOK, Discovery!Descriptors
<1>2. quiet => /\ Discovery!Node(chosen.slot) # None /\ chosen.pad \in steady
               /\ Discovery!Node(chosen.slot).pad = chosen.pad
  BY <1>1, NodeFacts DEF DiscoveryInv, QuietKept
<1>3. CASE Discovery!Node(chosen.slot) = None
  BY <1>1, <1>2, <1>3, FailKeeps DEF Discovery!OpenSource
<1>4. CASE Discovery!Node(chosen.slot) # None
  <2>1. /\ reader' = Discovery!Node(chosen.slot).pad /\ outcome' = "reading"
        /\ UNCHANGED <<slots, plugs, steady, quiet, todo, call, opened, read, found, chosen>>
    BY <1>4 DEF Discovery!OpenSource, Discovery!world
  <2>2. reader' \in Pads
    BY <1>1, <1>4, <2>1, NodeFacts DEF DiscoveryInv
  <2>3. Discovery!TypeOK'
    BY <2>1, <2>2 DEF DiscoveryInv, Discovery!TypeOK
  <2>4. Plugged' /\ Underway'
    BY <1>1, <2>1 DEF DiscoveryInv, Plugged, Underway
  <2>5. SteadyFound' /\ QuietKept' /\ Discovery!DescriptorIsOnePad' /\ ChosenMatches'
    BY <2>1 DEF DiscoveryInv, SteadyFound, QuietKept, Discovery!DescriptorIsOnePad,
                Discovery!IdentityOf, Discovery!Node, ChosenMatches, Discovery!Matches
  <2>6. Discovery!QuietStartSucceeds'
    BY <1>1, <1>2, <2>1
       DEF Discovery!QuietStartSucceeds, Discovery!Matches, Discovery!IdentityOf
  <2>7. ASSUME NEW s \in Slots, Discovery!Path(s)', opened' # None PROVE ReadRight(s)'
    BY <2>1, <2>7 DEF DiscoveryInv, Discovery!Path, ReadRight, Discovery!Node,
                      Discovery!IdentityOf
  <2>8. QED
    BY <2>1, <2>3, <2>4, <2>5, <2>6, <2>7 DEF DiscoveryInv, Reads
<1>5. QED
  BY <1>3, <1>4

LEMMA DiscoveryInvariant == Discovery!Spec => []DiscoveryInv
<1>1. Discovery!Init => DiscoveryInv
  <2> SUFFICES ASSUME Discovery!Init PROVE DiscoveryInv
    OBVIOUS
  <2>1. Discovery!TypeOK /\ read \in Reads /\ IsFiniteSet(found)
    BY GamepadAssumption, CallsOfAPath, FS_EmptySet
       DEF Discovery!Init, Discovery!TypeOK, Reads, Discovery!NothingRead,
           Discovery!DiscoveryAssumption
  <2>2. QED
    BY <2>1 DEF Discovery!Init, DiscoveryInv, Plugged, Underway, SteadyFound, QuietKept,
                ChosenMatches, Discovery!DescriptorIsOnePad, Discovery!NothingRead,
                Discovery!QuietStartSucceeds
<1>2. DiscoveryInv /\ [Discovery!Next]_(Discovery!vars) => DiscoveryInv'
  <2> SUFFICES ASSUME DiscoveryInv, [Discovery!Next]_(Discovery!vars) PROVE DiscoveryInv'
    OBVIOUS
  <2>1. CASE UNCHANGED Discovery!vars
    BY <2>1 DEF Discovery!vars, DiscoveryInv, Discovery!TypeOK, Reads, Plugged, Underway,
                Discovery!Path, ReadRight, Discovery!Node, Discovery!IdentityOf,
                Discovery!DescriptorIsOnePad, SteadyFound, QuietKept, ChosenMatches,
                Discovery!Matches, Discovery!QuietStartSucceeds
  <2>2. ASSUME NEW s \in Slots, Discovery!Inspect(s) PROVE DiscoveryInv'
    BY <2>2, OpenInductive, ReadModelInductive, ReadSerialInductive, OtherCallsInductive,
       RequireSameInductive DEF Discovery!Inspect
  <2>3. QED
    BY <2>1, <2>2, ListInductive, SelectInductive, OpenSourceInductive, UsbInductive
       DEF Discovery!Next, Discovery!Create
<1>3. QED
  BY <1>1, <1>2, PTL DEF Discovery!Spec

\* A descriptor is of one pad, whatever is plugged in and out between two calls,
\* and on a quiet bus the simulator reads the only pad that matches.
THEOREM DiscoveryIsRight ==
    GamepadSpec => []Discovery!DescriptorIsOnePad /\ []Discovery!QuietStartSucceeds
<1>1. DiscoveryInv => Discovery!DescriptorIsOnePad /\ Discovery!QuietStartSucceeds
  BY DEF DiscoveryInv
<1>2. QED
  BY <1>1, DiscoveryInvariant, Stagewise, PTL

\* When one descriptor matches, no other pad that was there throughout does.
LEMMA NeverAmongEqualsStepwise ==
    ASSUME DiscoveryInv, [Discovery!Next]_(Discovery!vars), chosen = None, chosen' # None
    PROVE  /\ Discovery!Matches(chosen'.identity)
           /\ \A p \in steady \ {chosen'.pad} :
                 ~Discovery!Matches(Discovery!IdentityOf(p))
<1>1. Discovery!Select
  BY DEF Discovery!Next, Discovery!vars, Discovery!Create, Discovery!List,
         Discovery!Inspect, Discovery!Open, Discovery!ReadModel, Discovery!ReadSerial,
         Discovery!RequireCurrent, Discovery!FindById, Discovery!LinkFails,
         Discovery!ReadCounts, Discovery!RequireSame, Discovery!OpenSource, Discovery!Usb,
         Discovery!Plug, Discovery!Appear, Discovery!Unplug, Discovery!Vanish,
         Discovery!Keep, Discovery!Advance, Discovery!Fail
<1>2. todo = {} /\ chosen' \in Discovery!Unique(Discovery!Matching)
  BY <1>1 DEF Discovery!Select, Discovery!Fail
<1>3. /\ Cardinality(Discovery!Matching) = 1 /\ chosen' \in Discovery!Matching
  BY <1>2, SameCardinality DEF Discovery!Unique
<1>4. IsFiniteSet(Discovery!Matching)
  <2>1. Discovery!Matching \subseteq found /\ IsFiniteSet(found)
    BY DEF Discovery!Matching, DiscoveryInv
  <2>2. QED
    BY <2>1, FS_Subset
<1>5. PICK d : Discovery!Matching = {d}
  BY <1>3, <1>4, FS_Singleton
<1>6. ASSUME NEW p \in steady, Discovery!Matches(Discovery!IdentityOf(p))
      PROVE  p = chosen'.pad
  <2>1. PICK e \in found : e.pad = p
    BY <1>2 DEF DiscoveryInv, SteadyFound
  <2>2. e \in Discovery!Matching
    BY <1>6, <2>1 DEF DiscoveryInv, Discovery!Matching, Discovery!DescriptorIsOnePad
  <2>3. QED
    BY <1>3, <1>5, <2>1, <2>2
<1>7. QED
  BY <1>3, <1>6 DEF Discovery!Matching

LEMMA NeverAmongEquals == GamepadSpec => Discovery!NeverChoosesAmongEquals
<1>1. DiscoveryInv /\ [Discovery!Next]_(Discovery!vars)
      => (chosen = None /\ chosen' # None =>
             /\ Discovery!Matches(chosen'.identity)
             /\ \A p \in steady \ {chosen'.pad} :
                   ~Discovery!Matches(Discovery!IdentityOf(p)))
  BY NeverAmongEqualsStepwise
<1>2. QED
  BY <1>1, DiscoveryInvariant, Stagewise, PTL
     DEF Discovery!Spec, Discovery!NeverChoosesAmongEquals

\* Once an activation was acknowledged the simulator is refused only a profile
\* whose saving was not, or a device that shares its id with another; and the pad
\* it takes is never a choice among equals and is found on a quiet bus.
THEOREM Starts == GamepadSpec => SimulatorStarts
<1>1. DiscoveryInv => Discovery!TypeOK
  BY DEF DiscoveryInv
<1>2. QED
  BY <1>1, StartsOnceActivated, NeverAmongEquals, DiscoveryIsRight, DiscoveryInvariant,
     Stagewise, PTL DEF SimulatorStarts

=============================================================================
