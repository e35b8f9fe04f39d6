---------------------------- MODULE ProfileStore ----------------------------
(***************************************************************************)
(* The files of the mapping console: one profile for each device identity  *)
(* and active.yaml, which names the profile the simulator is to use        *)
(* (profile_store.py, the activate endpoint of app.py), and the simulator  *)
(* that reads them when it starts (configured_joystick.cc).                *)
(*                                                                         *)
(* Requests run concurrently and without a lock.  A file is replaced as a  *)
(* whole: a temporary of its own is written and synced, renamed over the   *)
(* destination, and the directory is synced.  Each of these may fail; the  *)
(* console may be killed and the power may fail between any two.  The file *)
(* system is the one POSIX promises: a rename that was not synced may be   *)
(* lost, and so may what was written and not synced.                       *)
(***************************************************************************)
EXTENDS Naturals, Sequences

CONSTANTS
    Devices,   \* device identities
    Ids,       \* profile ids
    IdOf,      \* profile_id_for: the id of each identity
    Requests,  \* the threads that serve requests
    MaxWrites, \* bound: writes ever begun
    MaxLosses, \* bound: power failures
    None

Files == Ids \cup {"active"}

\* profile and of are for active.yaml: the profile selected, and the
\* replacement of it that was read.
Jobs == [file : Files, device : Devices, profile : Ids, of : Nat, turn : Nat]
Contents == [text : Jobs, whole : BOOLEAN, synced : BOOLEAN]

StoreAssumption ==
    /\ IdOf \in [Devices -> Ids]
    /\ None \notin Jobs \cup Contents /\ "active" \notin Ids
    /\ MaxWrites \in Nat /\ MaxLosses \in Nat

VARIABLES
    placed, \* for each file what readers see, last, and before it what a
            \* power failure may bring back
    temp,   \* each request's temporary, or None
    at,     \* where each request is
    job,    \* what it writes, or None
    turns,  \* how often each file was replaced
    acked,  \* the last replacement of each file that a request reported done
    sim,    \* where the simulator is
    chosen, \* the active selection it read, or None
    begun, losses

store == <<placed, temp, at, job, turns, acked>>
vars == <<store, sim, chosen, begun, losses>>

Seen(f) == placed[f][Len(placed[f])]

\* What a reader can parse.
Readable(f) == Seen(f) # None /\ Seen(f).whole

TurnOf(c) == IF c = None THEN 0 ELSE c.text.turn

Init ==
    /\ placed = [f \in Files |-> <<None>>]
    /\ temp = [r \in Requests |-> None]
    /\ at = [r \in Requests |-> "idle"]
    /\ job = [r \in Requests |-> None]
    /\ turns = [f \in Files |-> 0]
    /\ acked = [f \in Files |-> 0]
    /\ sim = "off" /\ chosen = None
    /\ begun = 0 /\ losses = 0

Goto(r, step) == at' = [at EXCEPT ![r] = step]

-----------------------------------------------------------------------------
(* Saving, and importing, a profile *)

BeginSave(r, d) ==
    /\ at[r] = "idle" /\ begun < MaxWrites
    /\ job' = [job EXCEPT ![r] = [file |-> IdOf[d], device |-> d,
                                  profile |-> IdOf[d], of |-> 0, turn |-> 0]]
    /\ Goto(r, "open")
    /\ begun' = begun + 1
    /\ UNCHANGED <<placed, temp, turns, acked, sim, chosen, losses>>

-----------------------------------------------------------------------------
(* Activating one: the endpoint loads it and looks for its device, then    *)
(* the store loads it again and writes the selection.                      *)

BeginActivate(r, id) ==
    /\ at[r] = "idle" /\ sim = "off" /\ begun < MaxWrites
    /\ Readable(id)
    /\ job' = [job EXCEPT ![r] = [file |-> "active", device |-> Seen(id).text.device,
                                  profile |-> id, of |-> 0, turn |-> 0]]
    /\ Goto(r, "match")
    /\ begun' = begun + 1
    /\ UNCHANGED <<placed, temp, turns, acked, sim, chosen, losses>>

\* One device of that identity, within whose capabilities the profile is.
Match(r) ==
    /\ at[r] = "match"
    /\ \/ Goto(r, "load") /\ UNCHANGED job
       \/ Goto(r, "idle") /\ job' = [job EXCEPT ![r] = None]
    /\ UNCHANGED <<placed, temp, turns, acked, sim, chosen, begun, losses>>

Selection(r) ==
    LET p == Seen(job[r].profile) IN
    [job[r] EXCEPT !.device = p.text.device, !.of = p.text.turn]

Load(r) ==
    /\ at[r] = "load"
    /\ IF Readable(job[r].profile)
       THEN Goto(r, "open") /\ job' = [job EXCEPT ![r] = Selection(r)]
       ELSE Goto(r, "idle") /\ job' = [job EXCEPT ![r] = None]
    /\ UNCHANGED <<placed, temp, turns, acked, sim, chosen, begun, losses>>

-----------------------------------------------------------------------------
(* _atomic_write *)

\* Mutant: requests share one temporary.
SharedTemporary(r) == CHOOSE q \in Requests : TRUE

\* Each request's has a uuid of its own.
Temporary(r) == r

Open(r) ==
    /\ at[r] = "open"
    /\ temp' = [temp EXCEPT ![Temporary(r)] =
                   [text |-> job[r], whole |-> FALSE, synced |-> FALSE]]
    /\ Goto(r, "write")
    /\ UNCHANGED <<placed, job, turns, acked, sim, chosen, begun, losses>>

Write(r) ==
    /\ at[r] = "write" /\ temp[Temporary(r)] # None
    /\ temp' = [temp EXCEPT ![Temporary(r)].text = job[r], ![Temporary(r)].whole = TRUE]
    /\ Goto(r, "sync")
    /\ UNCHANGED <<placed, job, turns, acked, sim, chosen, begun, losses>>

Synced(c) == [c EXCEPT !.synced = TRUE]

Sync(r) ==
    /\ at[r] = "sync" /\ temp[Temporary(r)] # None
    /\ temp' = [temp EXCEPT ![Temporary(r)] = Synced(@)]
    /\ Goto(r, "replace")
    /\ UNCHANGED <<placed, job, turns, acked, sim, chosen, begun, losses>>

Replace(r) ==
    LET f == job[r].file
        c == [temp[Temporary(r)] EXCEPT !.text.turn = turns[f] + 1]
    IN /\ at[r] = "replace" /\ temp[Temporary(r)] # None
       /\ placed' = [placed EXCEPT ![f] = Append(@, c)]
       /\ temp' = [temp EXCEPT ![Temporary(r)] = None]
       /\ turns' = [turns EXCEPT ![f] = @ + 1]
       /\ job' = [job EXCEPT ![r].turn = turns[f] + 1]
       /\ Goto(r, "syncdir")
       /\ UNCHANGED <<acked, sim, chosen, begun, losses>>

\* The files of the same directory: profiles/, or the root.
Beside(f) == IF f = "active" THEN {"active"} ELSE Ids

SyncDirectory(r) ==
    /\ at[r] = "syncdir"
    /\ placed' = [f \in Files |-> IF f \in Beside(job[r].file)
                                  THEN <<Seen(f)>> ELSE placed[f]]
    /\ Goto(r, "done")
    /\ UNCHANGED <<temp, job, turns, acked, sim, chosen, begun, losses>>

\* Any of these calls may fail, before it has an effect.
Fail(r) ==
    /\ at[r] \in {"open", "write", "sync", "replace", "syncdir"}
    /\ Goto(r, "failed")
    /\ UNCHANGED <<placed, temp, job, turns, acked, sim, chosen, begun, losses>>

\* The temporary is removed, if it is still there, and the request answers.
Finish(r) ==
    /\ at[r] \in {"done", "failed"}
    /\ temp' = [temp EXCEPT ![Temporary(r)] = None]
    /\ acked' = [acked EXCEPT ![job[r].file] =
                    IF at[r] = "done" /\ job[r].turn > @ THEN job[r].turn ELSE @]
    /\ job' = [job EXCEPT ![r] = None]
    /\ Goto(r, "idle")
    /\ UNCHANGED <<placed, turns, sim, chosen, begun, losses>>

-----------------------------------------------------------------------------
(* The simulator's start: LoadActiveSelection reads the selection and the  *)
(* profile it names, then the profile is read again.                       *)

SimStart ==
    /\ sim = "off"
    /\ IF Readable("active")
       THEN sim' = "check" /\ chosen' = Seen("active").text
       ELSE sim' = "refused" /\ UNCHANGED chosen
    /\ UNCHANGED <<store, begun, losses>>

Accepts(p) == p.text.device = chosen.device

SimCheck ==
    /\ sim = "check"
    /\ IF Readable(chosen.profile)
       THEN sim' = IF Accepts(Seen(chosen.profile)) THEN "reload" ELSE "refused"
       ELSE sim' = "refused"
    /\ UNCHANGED <<store, chosen, begun, losses>>

SimReload ==
    /\ sim = "reload"
    /\ sim' = IF Readable(chosen.profile) THEN "running" ELSE "refused"
    /\ UNCHANGED <<store, chosen, begun, losses>>

SimExit ==
    /\ sim \in {"running", "refused"}
    /\ sim' = "off" /\ chosen' = None
    /\ UNCHANGED <<store, begun, losses>>

-----------------------------------------------------------------------------
(* The console is killed: what it renamed stays, its temporaries are in    *)
(* nobody's way.  The power fails: of what was not synced, anything may be *)
(* lost.                                                                   *)

Forget ==
    /\ temp' = [r \in Requests |-> None]
    /\ at' = [r \in Requests |-> "idle"]
    /\ job' = [r \in Requests |-> None]

Kill ==
    /\ \E r \in Requests : at[r] # "idle"
    /\ Forget
    /\ UNCHANGED <<placed, turns, acked, sim, chosen, begun, losses>>

Survivors(f) ==
    {placed[f][i] : i \in DOMAIN placed[f]} \cup
    {[c EXCEPT !.whole = FALSE] :
        c \in {placed[f][i] : i \in {j \in DOMAIN placed[f] :
                  placed[f][j] # None /\ ~placed[f][j].synced}}}

PowerFails ==
    /\ losses < MaxLosses
    /\ losses' = losses + 1
    /\ placed' \in {p \in [Files -> {<<c>> : c \in UNION {Survivors(f) : f \in Files}}] :
                       \A f \in Files : p[f][1] \in Survivors(f)}
    /\ Forget
    /\ sim' = "off" /\ chosen' = None
    /\ UNCHANGED <<turns, acked, begun>>

-----------------------------------------------------------------------------

Request(r) ==
    \/ \E d \in Devices : BeginSave(r, d)
    \/ \E id \in Ids : BeginActivate(r, id)
    \/ Match(r) \/ Load(r)
    \/ Open(r) \/ Write(r) \/ Sync(r) \/ Replace(r) \/ SyncDirectory(r)
    \/ Fail(r) \/ Finish(r)

Simulator == SimStart \/ SimCheck \/ SimReload \/ SimExit

Next == (\E r \in Requests : Request(r)) \/ Simulator \/ Kill \/ PowerFails

Spec == Init /\ [][Next]_vars

-----------------------------------------------------------------------------
(* Properties *)

Texts == Contents \cup {None}
Steps == {"idle", "match", "load", "open", "write", "sync", "replace", "syncdir",
          "done", "failed"}

TypeOK ==
    /\ placed \in [Files -> Seq(Texts) \ {<<>>}]
    /\ temp \in [Requests -> Texts]
    /\ at \in [Requests -> Steps]
    /\ job \in [Requests -> Jobs \cup {None}]
    /\ turns \in [Files -> Nat] /\ acked \in [Files -> Nat]
    /\ sim \in {"off", "check", "reload", "running", "refused"}
    /\ chosen \in Jobs \cup {None}
    /\ begun \in 0 .. MaxWrites /\ losses \in 0 .. MaxLosses

\* Whatever fails, dies or loses power, a reader finds no file or a whole one:
\* concurrent saves of one profile do not write into each other.
NeverTorn == \A f \in Files : Seen(f) # None => Seen(f).whole

\* A replacement that was reported done, or a later one, is there after any
\* power failure.
AcknowledgedIsDurable ==
    \A f \in Files : acked[f] <= TurnOf(placed[f][1])

\* No other device has its id.
Alone(d) == \A e \in Devices \ {d} : IdOf[e] # IdOf[d]

\* An active selection names a profile that is there, also after a power
\* failure, when the saving of the profile it was made for had been
\* acknowledged; and that profile is of the device the selection names, unless
\* another device has the same id.
ActiveResolves ==
    Seen("active") # None =>
        LET a == Seen("active").text IN
        \/ acked[a.profile] < a.of
        \/ /\ Readable(a.profile)
           /\ Alone(a.device) => Seen(a.profile).text.device = a.device

\* The simulator starts once an activation has been reported done, whatever is
\* saved, fails or loses power after it or between its two reads.  Excepted are
\* a profile whose saving was not acknowledged, and a device with whose id
\* another's profile may have been saved.
StartsOnceActivated ==
    [][acked["active"] > 0 /\ sim # "refused" /\ sim' = "refused" =>
           /\ chosen' # None
           /\ acked[chosen'.profile] < chosen'.of \/ ~Alone(chosen'.device)]_vars

\* gamepad_profile.cc:848 refuses a selection whose "active identity does not
\* match profile identity": no sequence of saves and activations makes one.
\* Two identities whose names differ in case or punctuation share an id.
ActiveMatchesProfile ==
    Seen("active") # None /\ Readable(Seen("active").text.profile) =>
        Seen(Seen("active").text.profile).text.device = Seen("active").text.device
=============================================================================
