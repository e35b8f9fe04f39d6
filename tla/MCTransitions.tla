---------------------------- MODULE MCTransitions ----------------------------
(***************************************************************************)
(* What fires the controller's transitions, in one run: the GetUp gate,    *)
(* the fallen detector, the recovery monitor and the conditions of         *)
(* config.yaml.  They share no state, so it is enough to let one of them   *)
(* move in a behaviour: what the others do changes nothing it can see.     *)
(* Times are hundredths of a second for the gate and the detector, with    *)
(* the shipped values; the monitor's are scaled down to some steps.        *)
(***************************************************************************)
EXTENDS RequestGate, FallenDetector, RecoveryMonitor, JoystickDsl

VARIABLE moving  \* the part that moves in this behaviour

MCIdentifiers == {"A", "B", "Z", "s", "pressed", "on_pressed", "on_released"}

\* Every text of at most six tokens of two keys and the operators, every one of
\* at most five tokens of a key and another name with holds, units and states,
\* and longer conditions with any one token replaced by any other.
UpTo(n, tokens) == UNION {[1 .. k -> tokens] : k \in 0 .. n}

Longer ==
    {<<"A", "(", "2", "s", ")", ".", "pressed">>,
     <<"A", "(", "1", ")", "+", "!", "B", ".", "on_pressed">>,
     <<"!", "(", "A", "|", "B", "+", "Z", ")", "+", "A">>,
     <<"A", "+", "B", "|", "!", "A", "+", "(", "B", "|", "Z", ")">>}

MCTexts ==
    UpTo(6, {"A", "B", "+", "|", "!", "(", ")"})
    \cup UpTo(5, {"A", "Z", "2", "s", "(", ")", ".", "pressed", "on_released"})
    \cup UNION {{[c EXCEPT ![i] = t] : i \in DOMAIN c,
                   t \in MCIdentifiers \cup Numbers \cup Punctuation} : c \in Longer}

Init ==
    /\ InitGate /\ InitDetector /\ InitMonitor /\ InitDsl
    /\ moving \in {"gate", "detector", "monitor", "condition"}
    /\ moving # "condition" => text = <<>>

Next ==
    \/ moving = "gate" /\ NextGate
       /\ UNCHANGED <<moving, detectorVars, monitorVars, dslVars>>
    \/ moving = "detector" /\ NextDetector
       /\ UNCHANGED <<moving, gateVars, monitorVars, dslVars>>
    \/ moving = "monitor" /\ NextMonitor
       /\ UNCHANGED <<moving, gateVars, detectorVars, dslVars>>
    \/ moving = "condition" /\ NextDsl
       /\ UNCHANGED <<moving, gateVars, detectorVars, monitorVars>>

Spec == Init /\ [][Next]_<<moving, gateVars, detectorVars, monitorVars, dslVars>>
=============================================================================
