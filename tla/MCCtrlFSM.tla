----------------------------- MODULE MCCtrlFSM -----------------------------
EXTENDS CtrlFSM

MCPressesLive == {{}, {"A"}, {"start"}}
MCPressesStop == {{}, {"A"}, {"start"}, {"A", "LT", "B"}}
MCPresses == {{}, {"A"}, {"start"}, {"LT", "B"}, {"RT", "RB", "A"}}

\* What the next visit of a state overwrites before reading it is left out.
MCView == <<alive, timedOut, fsmVars, thread, running,
            [m \in {"Velocity", "Mimic"} |->
                IF m = mode THEN actions[m] ELSE Aged(actions[m])],
            IF mode = "Mimic" THEN episode ELSE 0,
            ready,
            IF mode = "GetUp" THEN <<latest, monitor, outcome>>
            ELSE <<latest = "none">> >>
=============================================================================
