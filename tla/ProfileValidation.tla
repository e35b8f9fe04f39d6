------------------------- MODULE ProfileValidation -------------------------
(***************************************************************************)
(* The two readers of one profile file: validate_profile() of the mapping  *)
(* console and ValidateProfileImpl() of the simulator.  Each refuses a     *)
(* missing required control and then walks the bindings once, keeping what *)
(* it needs of those behind it.  They do not keep the same: Python         *)
(* remembers one user of an axis for the directional controls, the last,   *)
(* C++ remembers them all.  The console writes only what Python accepts    *)
(* and the simulator starts only on what C++ accepts.                      *)
(***************************************************************************)
EXTENDS GamepadProfile

CONSTANTS
    AxisCount,    \* axes the device has
    ButtonCount   \* buttons the device has

ASSUME ValidationAssumption == AxisCount \in Nat /\ ButtonCount \in Nat

Readers == {"python", "cpp"}
Verdicts == {"reading", "valid", "invalid"}

VARIABLES
    profile,  \* the file: a binding of each control
    walked,   \* walked[r]: the controls reader r has walked past
    lastHat,  \* Python's dpad_axes: the last user of each axis
    verdict   \* verdict[r]: what reader r says of the file

vars == <<profile, walked, lastHat, verdict>>

Nobody == "nobody"
Profiles == {p \in [Controls -> Bindings] : \A c \in Controls : p[c] \in BindingsOf(c)}

Init ==
    /\ profile \in Profiles
    /\ walked = [r \in Readers |-> {}]
    /\ lastHat = [i \in Axes |-> Nobody]
    /\ verdict = [r \in Readers |->
                     IF Missing(profile) = {} THEN "reading" ELSE "invalid"]

\* Both walk the sticks, then the triggers, the buttons and the directions.
Section(c) ==
    CASE c \in StickControls -> 1 [] c \in TriggerControls -> 2
      [] c \in ButtonControls -> 3 [] OTHER -> 4

\* The order inside a section is the file's for Python, the name's for C++.
Turn(r, c) ==
    /\ verdict[r] = "reading" /\ c \in Controls \ walked[r]
    /\ \A d \in Controls \ walked[r] : Section(c) <= Section(d)

\* _check_capability(), check_axis() and check_button()
Within(b) ==
    IF Digital(b) THEN b.index < ButtonCount
    ELSE b = Unsupported \/ b.index < AxisCount

\* Mutant: the map forgets the sticks when the triggers begin.
TakenInSection(r, c) ==
    \E d \in walked[r] :
        /\ profile[d].index = profile[c].index /\ Section(d) = Section(c)
        /\ \/ Analog(profile[c]) /\ Analog(profile[d])
           \/ Digital(profile[c]) /\ Digital(profile[d])

\* analog_axes and button_sources: the binding's source is in the map already.
Taken(r, c) ==
    \E d \in walked[r] :
        /\ profile[d].index = profile[c].index
        /\ \/ Analog(profile[c]) /\ Analog(profile[d])
           \/ Digital(profile[c]) /\ Digital(profile[d])

\* Against the last user of the axis.
PythonHatTaken(c) ==
    LET d == lastHat[profile[c].index]
    IN d # Nobody /\ HatClash(c, profile[c], d, profile[d])

\* Against every user of the axis.
CppHatTaken(c) ==
    \E d \in walked["cpp"] : HatClash(c, profile[c], d, profile[d])

Refused(r, c) ==
    \/ Taken(r, c)
    \/ Hat(profile[c]) /\ (IF r = "python" THEN PythonHatTaken(c) ELSE CppHatTaken(c))
    \/ ~Within(profile[c])

\* One turn of the loop over the bindings.
Walk(r, c) ==
    /\ Turn(r, c)
    /\ walked' = [walked EXCEPT ![r] = @ \cup {c}]
    /\ verdict' = [verdict EXCEPT ![r] =
                      IF Refused(r, c) THEN "invalid"
                      ELSE IF walked[r] \cup {c} = Controls THEN "valid" ELSE @]
    /\ lastHat' = IF r = "python" /\ Hat(profile[c])
                  THEN [lastHat EXCEPT ![profile[c].index] = c] ELSE lastHat
    /\ UNCHANGED profile

Next == \E r \in Readers, c \in Controls : Walk(r, c)

Spec == Init /\ [][Next]_vars

-----------------------------------------------------------------------------
(* Properties *)

TypeOK ==
    /\ profile \in Profiles
    /\ walked \in [Readers -> SUBSET Controls]
    /\ lastHat \in [Axes -> Controls \cup {Nobody}]
    /\ verdict \in [Readers -> Verdicts]

\* What makes a profile usable, said of the whole file at once: nothing
\* required is missing, every source is on the device, no two bindings claim
\* one source.
Usable(p) ==
    Missing(p) = {} /\ (\A c \in Controls : Within(p[c])) /\ ConflictFree(p)

\* Whichever it remembers and in whatever order it walks, each reader accepts
\* the usable profiles and refuses the others.
VerdictIsUsable ==
    \A r \in Readers : /\ verdict[r] = "valid" => Usable(profile)
                       /\ verdict[r] = "invalid" => ~Usable(profile)

\* What one of them accepts the other does not refuse: a profile the console
\* saved never stops the simulator, nor the other way round.
ReadersAgree == {verdict["python"], verdict["cpp"]} # {"valid", "invalid"}

=============================================================================
