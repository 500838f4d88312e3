-------------------------- MODULE CompoundSignalPath --------------------------
(***************************************************************************)
(* The enumeration of audio paths through connected devices                *)
(* (src/src/compound_signal_path.cc).                                      *)
(*                                                                         *)
(* Within a device, SignalPathTracker enumerates the active paths from its *)
(* inputs to its sinks.  CompoundSignalPathTracker appends each of them to *)
(* its one path vector, goes on in the devices connected to the sink, and  *)
(* calls back for a path whose sink is connected to nothing.  Each nested  *)
(* call of enumerate_compound_signal_paths() is a frame of a stack here;   *)
(* the stack is also device_name_store_, each entry of which has the name  *)
(* of a device and the length of the path when it was entered.             *)
(*                                                                         *)
(* The order of active paths in a device and of its connections depends on *)
(* unordered containers: any order is taken.  The callback wants all paths *)
(* (that of the Roon plugin does).  Connections form no cycles: the code   *)
(* does not look for any and would follow them forever.                    *)
(***************************************************************************)
EXTENDS Naturals, Sequences, FiniteSets, SequencesExt

CONSTANTS
  Devices,      \* instances in the configuration store
  Root,         \* the device the enumeration starts from, "self"
  Elements,     \* audio path elements, inputs and sinks among them
  LocalPaths,   \* device -> paths which may be active in it, as sequences of
                \* elements
  Connections,  \* connections there may be, each from a sink to an input
  None          \* empty filter on inputs

ASSUME CompoundAssumption ==
  /\ Root \in Devices
  /\ LocalPaths \in [Devices -> SUBSET (Seq(Elements) \ {<<>>})]
  /\ Connections \subseteq [from: Devices, sink: Elements, to: Devices, input: Elements]
  /\ None \notin Elements

VARIABLES
  modelled,  \* devices which have a model
  active,    \* device -> the paths which are active in it
  conns,     \* Device::outgoing_connections_ of all devices
  phase,     \* ready, walking, or done
  frames,    \* device_name_store_ and the nested calls it stands for
  current,   \* current_path_: elements, each with an index of a device name
  reported   \* history: elements of the paths given to the callback, each
             \* with the device name its index stood for then

storeVars == <<modelled, active, conns>>
vars == <<storeVars, phase, frames, current, reported>>

Init ==
  /\ modelled \in SUBSET Devices
  /\ active \in {a \in [Devices -> SUBSET UNION {LocalPaths[d] : d \in Devices}] :
                   \A dev \in Devices :
                     a[dev] \subseteq IF dev \in modelled THEN LocalPaths[dev] ELSE {}}
  /\ conns \in SUBSET Connections
  /\ phase = "ready"
  /\ frames = <<>>
  /\ current = <<>>
  /\ reported = {}

ConnectionsOf(dev, sink) == {c \in conns : c.from = dev /\ c.sink = sink}

\* Seeded fault: the input a connection ends at is not looked at.
UnfilteredFrame(dev, input) ==
  [dev |-> dev, input |-> input, length |-> Len(current), left |-> active[dev],
   onPath |-> FALSE, hasConnectedDevice |-> FALSE, pending |-> {}]

\* A device has been entered at one of its inputs (or at any).  Its paths
\* are taken one after the other; for each of them, "pending" has the
\* connections of its sink that have yet to be followed.
Frame(dev, input) ==
  [dev |-> dev, input |-> input, length |-> Len(current),
   left |-> {p \in active[dev] : input \in {None, Head(p)}},
   onPath |-> FALSE, hasConnectedDevice |-> FALSE, pending |-> {}]

top == frames[Len(frames)]
WithTop(frame) == [frames EXCEPT ![Len(frames)] = frame]
Walking == phase = "walking" /\ frames # <<>>

Start ==
  /\ phase = "ready"
  /\ IF Root \in modelled
     THEN phase' = "walking" /\ frames' = <<Frame(Root, None)>>
     ELSE phase' = "done" /\ UNCHANGED frames
  /\ UNCHANGED <<storeVars, current, reported>>

\* Seeded fault: the path is not cut before it is extended.
ExtendPathOnly(p) ==
  /\ Walking
  /\ ~top.onPath /\ p \in top.left
  /\ current' = current \o [i \in DOMAIN p |-> [at |-> Len(frames), elem |-> p[i]]]
  /\ frames' = WithTop([top EXCEPT !.left = @ \ {p}, !.onPath = TRUE,
                                   !.hasConnectedDevice = FALSE,
                                   !.pending = ConnectionsOf(top.dev, Last(p))])
  /\ UNCHANGED <<storeVars, phase, reported>>

\* Seeded fault: paths are not ticked off.
ExtendPathAgain(p) ==
  /\ Walking
  /\ ~top.onPath /\ p \in top.left
  /\ current' = SubSeq(current, 1, top.length)
                  \o [i \in DOMAIN p |-> [at |-> Len(frames), elem |-> p[i]]]
  /\ frames' = WithTop([top EXCEPT !.onPath = TRUE,
                                   !.hasConnectedDevice = FALSE,
                                   !.pending = ConnectionsOf(top.dev, Last(p))])
  /\ UNCHANGED <<storeVars, phase, reported>>

\* extend_path() with the next path of the device entered last.
ExtendPath(p) ==
  /\ Walking
  /\ ~top.onPath /\ p \in top.left
  /\ current' = SubSeq(current, 1, top.length)
                  \o [i \in DOMAIN p |-> [at |-> Len(frames), elem |-> p[i]]]
  /\ frames' = WithTop([top EXCEPT !.left = @ \ {p}, !.onPath = TRUE,
                                   !.hasConnectedDevice = FALSE,
                                   !.pending = ConnectionsOf(top.dev, Last(p))])
  /\ UNCHANGED <<storeVars, phase, reported>>

\* A connected device counts as such even if it has no model, or if no path
\* is active behind the input the connection ends at.
FollowConnection(c) ==
  /\ Walking
  /\ c \in top.pending
  /\ LET followed == WithTop([top EXCEPT !.pending = @ \ {c},
                                         !.hasConnectedDevice = TRUE])
     IN frames' = IF c.to \in modelled
                  THEN Append(followed, Frame(c.to, c.input))
                  ELSE followed
  /\ UNCHANGED <<storeVars, phase, current, reported>>

\* map_path_index_to_device_name() of all elements of the path; None stands
\* for whatever is found behind the end of device_name_store_.
NameAt(i) == IF i \in DOMAIN frames THEN frames[i].dev ELSE None
Named(path) ==
  [i \in DOMAIN path |-> [dev |-> NameAt(path[i].at), elem |-> path[i].elem]]

\* Seeded fault: paths are reported on all devices they run through.
EndAnyPath ==
  /\ Walking
  /\ top.onPath /\ top.pending = {}
  /\ reported' = reported \cup {Named(current)}
  /\ frames' = WithTop([top EXCEPT !.onPath = FALSE])
  /\ UNCHANGED <<storeVars, phase, current>>

EndPath ==
  /\ Walking
  /\ top.onPath /\ top.pending = {}
  /\ reported' = IF top.hasConnectedDevice THEN reported
                 ELSE reported \cup {Named(current)}
  /\ frames' = WithTop([top EXCEPT !.onPath = FALSE])
  /\ UNCHANGED <<storeVars, phase, current>>

Return ==
  /\ Walking
  /\ ~top.onPath /\ top.left = {}
  /\ frames' = SubSeq(frames, 1, Len(frames) - 1)
  /\ phase' = IF Len(frames) = 1 THEN "done" ELSE phase
  /\ UNCHANGED <<storeVars, current, reported>>

Next ==
  \/ Start
  \/ \E p \in UNION {LocalPaths[d] : d \in Devices} : ExtendPath(p)
  \/ \E c \in conns : FollowConnection(c)
  \/ EndPath
  \/ Return

Spec == Init /\ [][Next]_vars

\* It is a call: nothing can keep it from going on.
FairSpec == Spec /\ WF_vars(Next)

-----------------------------------------------------------------------------
(***************************************************************************)
(* What is to be reported, without a search: sequences of devices with a   *)
(* path through each, joined by connections.                               *)
(***************************************************************************)
Hop == {h \in [dev: modelled, path: UNION {active[d] : d \in Devices}] :
          h.path \in active[h.dev]}

Joined(h, g) ==
  \E c \in ConnectionsOf(h.dev, Last(h.path)) : c.to = g.dev /\ c.input = Head(g.path)

Routes ==
  LET routes[n \in 1..Cardinality(Devices)] ==
        IF n = 1 THEN {<<h>> : h \in {g \in Hop : g.dev = Root}}
        ELSE {Append(r, h) : r \in routes[n - 1], h \in Hop}
               \cap {r \in [1..n -> Hop] : Joined(r[n - 1], r[n])}
  IN UNION {routes[n] : n \in 1..Cardinality(Devices)}

Flat(r) ==
  FlattenSeq([i \in DOMAIN r |->
    [j \in DOMAIN r[i].path |-> [dev |-> r[i].dev, elem |-> r[i].path[j]]]])

CompoundPaths ==
  {Flat(r) : r \in {s \in Routes :
                      ConnectionsOf(Last(s).dev, Last(Last(s).path)) = {}}}

FanOut == \E c, d \in conns : c # d /\ c.from = d.from /\ c.sink = d.sink

\* Type invariant.
TypeOK ==
  /\ phase \in {"ready", "walking", "done"}
  /\ conns \subseteq Connections
  /\ \A i \in DOMAIN frames : /\ frames[i].dev \in modelled
                              /\ frames[i].left \subseteq active[frames[i].dev]
                              /\ frames[i].pending \subseteq conns
  /\ \A i \in DOMAIN current : current[i].at \in Nat

\* device_name_store_ is indexed without a check of bounds: as long as each
\* sink is connected to at most one input, each element of a path given to
\* the callback has a device name.  A cut never leaves less of the path than
\* what the devices entered before have put there.
PathHasDeviceNames ==
  Walking =>
    /\ \A i \in DOMAIN frames :
         /\ frames[i].length <= Len(current)
         /\ i > 1 => frames[i - 1].length < frames[i].length
    /\ top.onPath /\ top.pending = {} /\ ~top.hasConnectedDevice /\ ~FanOut =>
         \A i \in DOMAIN current : current[i].at \in DOMAIN frames

\* As long as each sink is connected to at most one input, the enumeration
\* reports exactly the paths which follow the active paths and connections
\* from the root to a sink which is connected to nothing.
EnumerationIsExact ==
  phase = "done" /\ ~FanOut => reported = CompoundPaths

\* In any case, the reported paths end at the sinks at which such paths end:
\* the Roon plugin takes the rank of a path and its output method from there.
ReachedSinksAreReported ==
  phase = "done" => {Last(r) : r \in reported} = {Last(r) : r \in CompoundPaths}

\* The enumeration ends, as long as connections form no cycle
\* (enumerate_compound_signal_paths()).
EnumerationEnds == <>(phase = "done")

-----------------------------------------------------------------------------
(* Statements that the code contradicts.                                   *)

\* No device is entered from within itself: the recursion is not deeper than
\* there are devices.
DevicesAreEnteredOnce ==
  \A i, j \in DOMAIN frames : frames[i].dev = frames[j].dev => i = j

\* Comment on CompoundSignalPath: an audio path spanning multiple, connected
\* appliances.  Between its elements are edges of a path active in a device,
\* or connections.
ReportedPathsAreConnected ==
  \A r \in reported : \A i \in 1..Len(r) - 1 :
    \/ /\ r[i].dev = r[i + 1].dev /\ r[i].dev \in Devices
       /\ \E p \in active[r[i].dev] : \E j \in 1..Len(p) - 1 :
            p[j] = r[i].elem /\ p[j + 1] = r[i + 1].elem
    \/ \E c \in ConnectionsOf(r[i].dev, r[i].elem) :
         c.to = r[i + 1].dev /\ c.input = r[i + 1].elem
=============================================================================
