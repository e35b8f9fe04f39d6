---------------------------- MODULE ControlModes ----------------------------
(***************************************************************************)
(* What the controller promises about its states: the changes of state it  *)
(* can make, and that between two changes the motors are driven by the     *)
(* gains of the state it is in.  Only a recovery that cannot start leaves  *)
(* the gains it found, which are those of a state that may ask for one.    *)
(***************************************************************************)
EXTENDS Naturals

Modes == {"Passive", "FixStand", "Velocity", "GetUp", "Mimic", "Fallen"}

\* The transitions of deploy/robots/g1/config/config.yaml and the checks the
\* states register for themselves.
Successors ==
    [m \in Modes |->
        CASE m = "Passive" -> {"FixStand", "GetUp"}
          [] m = "FixStand" -> {"GetUp", "Passive", "Velocity"}
          [] m = "Velocity" -> {"Fallen", "Mimic", "Passive"}
          [] m = "Fallen" -> {"GetUp", "Passive"}
          [] m = "GetUp" -> {"Passive", "Velocity", "Fallen"}
          [] m = "Mimic" -> {"Passive", "Velocity"}]

\* The gains a state may drive the motors with.
GainsOf(m) ==
    CASE m \in {"Passive", "Fallen"} -> {"damping"}
      [] m = "FixStand" -> {"posture"}
      [] m = "GetUp" -> {"GetUp", "damping", "posture"}
      [] OTHER -> {m}

VARIABLES
    mode,    \* the current state
    gains,   \* the gains in the motor command
    settled  \* the state has been entered: the command may be published

vars == <<mode, gains, settled>>

Init == mode = "Passive" /\ gains = "damping" /\ settled = TRUE

Leave(m) ==
    /\ settled /\ m \in Successors[mode]
    /\ mode' = m /\ settled' = FALSE
    /\ UNCHANGED gains

Settle(g) ==
    /\ ~settled /\ g \in GainsOf(mode)
    /\ g = mode \/ mode # "GetUp" \/ g = gains
    /\ gains' = g /\ settled' = TRUE
    /\ UNCHANGED mode

Next ==
    \/ \E m \in Modes : Leave(m)
    \/ \E g \in UNION {GainsOf(m) : m \in Modes} : Settle(g)

Spec == Init /\ [][Next]_vars

-----------------------------------------------------------------------------
TypeOK ==
    /\ mode \in Modes /\ settled \in BOOLEAN
    /\ gains \in UNION {GainsOf(m) : m \in Modes}

\* Whenever a command can be published, its gains are those of the state, and a
\* recovery that did not start keeps damping or posture gains, never a policy's.
DrivenByMode == settled => gains \in GainsOf(mode)
=============================================================================
