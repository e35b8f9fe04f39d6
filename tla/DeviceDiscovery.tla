---------------------------- MODULE DeviceDiscovery ----------------------------
(***************************************************************************)
(* How the simulator finds the joystick of its profile                     *)
(* (simulate/src/gamepad/device_discovery.cc and                           *)
(* ConfiguredJoystick::Create): it enumerates the joystick nodes, reads    *)
(* each one's identity and capabilities, selects the only match and opens  *)
(* it.  Every system call is a step, and pads come and go between them: a  *)
(* node that vanishes may come back as another pad's.                      *)
(***************************************************************************)
EXTENDS Integers, FiniteSets, Sequences

CONSTANTS
    Pads,       \* the joysticks there are
    Slots,      \* the numbers of the nodes js0, js1, ...
    Model,      \* vendor, product and name of a pad
    Serial,     \* its serial, or None
    Counts,     \* its numbers of axes and buttons
    Wanted,     \* the identity of the active selection: model and serial
    MaxPlugs,   \* bound: times a pad is plugged in
    None

Nodes == [pad : Pads, inode : 1 .. MaxPlugs]
Identities == [model : {Model[p] : p \in Pads}, serial : {Serial[p] : p \in Pads} \cup {None}]
Descriptors == [slot : Slots, identity : Identities,
                counts : {Counts[p] : p \in Pads}, pad : Pads]

IdentityOf(p) == [model |-> Model[p], serial |-> Serial[p]]

DiscoveryAssumption ==
    /\ Slots \subseteq Nat /\ MaxPlugs \in Nat /\ IsFiniteSet(Pads)
    /\ DOMAIN Model = Pads /\ DOMAIN Serial = Pads /\ DOMAIN Counts = Pads
    /\ None \notin Nodes \cup Identities \cup Descriptors

VARIABLES
    slots,    \* the kernel's side of each number: the pad, its node, its phase
    plugs,    \* pads plugged in so far
    todo,     \* the paths still to be inspected
    at,       \* the step of the inspection of the first of them
    opened,   \* the node the descriptor is open on
    read,     \* what was read of it
    found,    \* result: the descriptors, one for each path
    outcome,  \* "running", "failed" or "reading"
    chosen,   \* the descriptor selected
    reader,   \* the pad the event source reads
    steady,   \* auxiliary: the pads that have kept their node since the listing
    quiet     \* auxiliary: no pad was leaving at the listing, and none has left since

world == <<slots, plugs, steady, quiet>>
vars == <<slots, plugs, todo, at, opened, read, found, outcome, chosen, reader, steady,
          quiet>>

NothingRead == [model |-> None, serial |-> None, counts |-> None, before |-> None]

Init ==
    /\ slots = [s \in Slots |-> None] /\ plugs = 0
    /\ todo = {} /\ at = 0 /\ opened = None /\ read = NothingRead
    /\ found = {} /\ outcome = "running" /\ chosen = None /\ reader = None
    /\ steady = {} /\ quiet = FALSE

-----------------------------------------------------------------------------
(* Pads come and go.  The kernel makes the sysfs entry before the node and  *)
(* removes it after the node; a node that is made again has a new inode.    *)

Entry(s) == slots[s] # None
Node(s) == IF slots[s] # None /\ slots[s].phase = "ready"
           THEN [pad |-> slots[s].pad, inode |-> slots[s].inode] ELSE None
Attached == {slots[s].pad : s \in {t \in Slots : slots[t] # None}}

Keep == UNCHANGED <<todo, at, opened, read, found, outcome, chosen, reader>>

Plug(p, s) ==
    /\ plugs < MaxPlugs /\ p \notin Attached
    /\ slots[s] = None /\ \A t \in Slots : slots[t] = None => s <= t
    /\ plugs' = plugs + 1
    /\ slots' = [slots EXCEPT ![s] = [pad |-> p, inode |-> plugs', phase |-> "arriving"]]
    /\ UNCHANGED <<steady, quiet>> /\ Keep

Appear(s) ==
    /\ slots[s] # None /\ slots[s].phase = "arriving"
    /\ slots' = [slots EXCEPT ![s].phase = "ready"]
    /\ UNCHANGED <<plugs, steady, quiet>> /\ Keep

Unplug(s) ==
    /\ Node(s) # None
    /\ slots' = [slots EXCEPT ![s].phase = "leaving"]
    /\ steady' = steady \ {slots[s].pad} /\ quiet' = FALSE
    /\ UNCHANGED plugs /\ Keep

Vanish(s) ==
    /\ slots[s] # None /\ slots[s].phase = "leaving"
    /\ slots' = [slots EXCEPT ![s] = None]
    /\ UNCHANGED <<plugs, steady, quiet>> /\ Keep

-----------------------------------------------------------------------------
(* EnumerateLinuxJoysticks() *)

Fail ==
    /\ outcome' = "failed" /\ opened' = None
    /\ UNCHANGED <<world, todo, at, read, found, chosen, reader>>

\* The calls made for one path, in their order.  The identity is read field by
\* field, before and after the rest; after every call that could have been
\* about another node the path is compared with the node that is open.
Inspection ==
    <<"open", "model", "serial", "current", "by-id", "current", "counts", "current",
      "model", "serial", "current", "same">>

List ==
    /\ at = 0 /\ outcome = "running"
    /\ todo' = {s \in Slots : Node(s) # None}
    /\ at' = 1
    /\ steady' = {slots[s].pad : s \in {t \in Slots : Node(t) # None}}
    /\ quiet' = \A s \in Slots : slots[s] # None => slots[s].phase # "leaving"
    /\ UNCHANGED <<slots, plugs, opened, read, found, outcome, chosen, reader>>

\* Listed paths are sorted by number: s is the first of those still to do.
Path(s) == s \in todo /\ \A t \in todo : s <= t

Inspecting(call, s) ==
    /\ outcome = "running" /\ Path(s)
    /\ at \in DOMAIN Inspection /\ Inspection[at] = call

Advance == at' = at + 1 /\ UNCHANGED <<world, todo, found, outcome, chosen, reader>>

Open(s) ==
    /\ Inspecting("open", s)
    /\ IF Node(s) = None THEN Fail
       ELSE opened' = Node(s) /\ UNCHANGED read /\ Advance

ReadModel(s) ==
    /\ Inspecting("model", s)
    /\ IF ~Entry(s) THEN Fail
       ELSE /\ read' = [read EXCEPT !.model = Model[slots[s].pad]]
            /\ UNCHANGED opened /\ Advance

\* The serial is optional: one that cannot be read is none.  The identity read
\* first is set aside.
ReadSerial(s) ==
    /\ Inspecting("serial", s)
    /\ LET serial == IF Entry(s) THEN Serial[slots[s].pad] ELSE None
       IN read' = IF read.before = None
                  THEN [read EXCEPT !.serial = serial,
                                    !.before = [model |-> read.model, serial |-> serial]]
                  ELSE [read EXCEPT !.serial = serial]
    /\ UNCHANGED opened /\ Advance

\* RequireCurrentPath()
IsCurrent(s) == Node(s) = opened

RequireCurrent(s) ==
    /\ Inspecting("current", s)
    /\ IF IsCurrent(s) THEN UNCHANGED <<opened, read>> /\ Advance ELSE Fail

\* FindById() finds a link to the node, or none: nothing later depends on which.
\* A link outlives its node until udev removes it, and a link to nothing,
\* whosever it was, fails the search.
LinkFails == ~quiet /\ Fail

FindById(s) ==
    /\ Inspecting("by-id", s)
    /\ \/ UNCHANGED <<opened, read>> /\ Advance
       \/ LinkFails

\* ReadCounts() asks the open descriptor, not the path.
ReadCounts(s) ==
    /\ Inspecting("counts", s)
    /\ IF \E t \in Slots : Node(t) = opened
       THEN /\ read' = [read EXCEPT !.counts = Counts[opened.pad]]
            /\ UNCHANGED opened /\ Advance
       ELSE Fail

Identity == [model |-> read.model, serial |-> read.serial]

\* The identities must agree, and the link found must still be the node's; then
\* the path is done and its descriptor closed.
RequireSame(s) ==
    /\ Inspecting("same", s)
    /\ \/ read.before # Identity /\ Fail
       \/ LinkFails
       \/ /\ read.before = Identity
          /\ found' = found \cup {[slot |-> s, identity |-> Identity,
                                   counts |-> read.counts, pad |-> opened.pad]}
          /\ todo' = todo \ {s} /\ at' = 1 /\ opened' = None /\ read' = NothingRead
          /\ UNCHANGED <<world, outcome, chosen, reader>>

-----------------------------------------------------------------------------
(* SelectUniqueDevice() and the event source.  Between the two the profile is *)
(* validated against the descriptor: ProfileValidation.                       *)

\* A selection without a serial takes any.
Matches(identity) ==
    /\ identity.model = Wanted.model
    /\ Wanted.serial \in {None, identity.serial}

\* Mutant: the first match is taken.
FirstMatch(all) == {d \in all : \A e \in all : d.slot <= e.slot}

Unique(all) == IF Cardinality(all) = 1 THEN all ELSE {}

Matching == {d \in found : Matches(d.identity)}

Select ==
    /\ outcome = "running" /\ at = 1 /\ todo = {} /\ chosen = None
    /\ \/ Unique(Matching) = {} /\ Fail
       \/ /\ chosen' \in Unique(Matching)
          /\ UNCHANGED <<world, todo, at, opened, read, found, outcome, reader>>

\* LinuxJoystickEventSource() opens the path again.
OpenSource ==
    /\ outcome = "running" /\ chosen # None
    /\ IF Node(chosen.slot) = None THEN Fail
       ELSE /\ reader' = Node(chosen.slot).pad /\ outcome' = "reading"
            /\ UNCHANGED <<world, todo, at, opened, read, found, chosen>>

Inspect(s) ==
    \/ Open(s) \/ ReadModel(s) \/ ReadSerial(s) \/ RequireCurrent(s) \/ FindById(s)
    \/ ReadCounts(s) \/ RequireSame(s)

Create == List \/ (\E s \in Slots : Inspect(s)) \/ Select \/ OpenSource

Usb ==
    \E s \in Slots :
        \/ \E p \in Pads : Plug(p, s)
        \/ Appear(s) \/ Unplug(s) \/ Vanish(s)

Next == Create \/ Usb

Spec == Init /\ [][Next]_vars

-----------------------------------------------------------------------------
(* Properties *)

Entries == [pad : Pads, inode : 1 .. MaxPlugs, phase : {"arriving", "ready", "leaving"}]

TypeOK ==
    /\ slots \in [Slots -> Entries \cup {None}]
    /\ plugs \in 0 .. MaxPlugs /\ at \in 0 .. Len(Inspection)
    /\ todo \subseteq Slots
    /\ opened \in Nodes \cup {None}
    /\ found \subseteq Descriptors
    /\ outcome \in {"running", "failed", "reading"}
    /\ chosen \in Descriptors \cup {None} /\ reader \in Pads \cup {None}
    /\ steady \subseteq Pads

\* A descriptor is of one pad: its identity and its capabilities are those of
\* the pad whose node was open, whatever was plugged into its number between
\* two reads.
DescriptorIsOnePad ==
    \A d \in found : d.identity = IdentityOf(d.pad) /\ d.counts = Counts[d.pad]

\* A selection is never a choice: no second pad that matches was there all the
\* time from the listing to the selection.
NeverChoosesAmongEquals ==
    [][chosen = None /\ chosen' # None =>
          /\ Matches(chosen'.identity)
          /\ \A p \in steady \ {chosen'.pad} :
                ~Matches(IdentityOf(p))]_vars

\* The checks reject no quiet system: when no pad leaves from the listing on and
\* one of those listed matches, the simulator reads that one, whatever arrives.
QuietStartSucceeds ==
    LET matching == {p \in steady : Matches(IdentityOf(p))}
    IN quiet /\ Cardinality(matching) = 1
       => outcome # "failed" /\ (outcome = "reading" => reader \in matching)

\* docs/deployment.md:27 says that the selector matches the joystick's
\* identity: the pad that is read is one the selection names.
ReadsTheSelected ==
    outcome = "reading" => Matches(IdentityOf(reader))

=============================================================================
