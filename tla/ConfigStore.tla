----------------------------- MODULE ConfigStore -----------------------------
(***************************************************************************)
(* The audio path configuration store (src/src/configstore.cc) and the     *)
(* change log it fills while a batch of audio path changes is applied.     *)
(*                                                                         *)
(* DCPD sends batches of changes as JSON arrays.  Settings::Impl::update   *)
(* applies one after the other; the first change that throws ends the      *)
(* batch, and what was applied before it stays applied.  In either case    *)
(* the caller then extracts the change log, stripped of entries that       *)
(* describe no change, and reports it to the plugins.  An action below is  *)
(* one change of a batch, the extraction at its end, or the loss of DCPD.  *)
(*                                                                         *)
(* Names are compared with each other and nothing else, so device          *)
(* instances, elements, controls, sinks and inputs are members of constant *)
(* sets; a qualified name "device.element" is a record.  Values are those  *)
(* of the "complete list of supported types" in protocol.md.  The code     *)
(* also takes the type code "@" with null, which that list does not have   *)
(* (type_check()): such a value would be stored, and be equal to the value *)
(* that is not known in the log.  No batch of this model has one.          *)
(***************************************************************************)
EXTENDS Naturals

CONSTANTS
  Names,       \* device instance names: "self", "pa", ...
  Ids,         \* device IDs, the names of models in the models database
  Elems,       \* audio path elements of a device
  Params,      \* controls of an element
  Values,      \* well-typed values of controls
  Choices,     \* the values which are in range for a selector
  SelectorOf,  \* device ID -> element -> control that switches its path
  Sinks,       \* audio outputs of a device
  Inputs,      \* audio inputs of a device
  None,        \* no such device, no such selector
  Void,        \* ConfigStore::Value(): the value is not known
  Malformed,   \* a value that disagrees with its type code
  Floating,    \* the selector of a switching element is not known
  Wild         \* a part missing in the filter of a "disconnect"

ASSUME ConstantsAssumption ==
  /\ Choices \subseteq Values
  /\ None \notin Ids \cup Params
  /\ {Void, Malformed} \cap Values = {}
  /\ Floating \notin Choices
  /\ Wild \notin Names \cup Sinks \cup Inputs
  /\ SelectorOf \in [Ids -> [Elems -> Params \cup {None}]]

\* ConfigStore::Settings::Impl::devices_ with the parts of each Device, and
\* log_, a ChangeLog made of three maps.
VARIABLES
  device,     \* the ID of each device instance, None for the absent ones
  conns,      \* all Device::outgoing_connections_
  value,      \* all ReportedElement::values_, Void for the absent ones
  selected,   \* all SignalPathTracker::selector_values_
  deviceLog,  \* ChangeLog::device_changes_
  connLog,    \* ChangeLog::connection_changes_
  valueLog,   \* ChangeLog::value_changes_
  status,     \* progress of Impl::update
  base        \* history: the store when changes were last extracted

store == <<device, conns, value, selected>>
log == <<deviceLog, connLog, valueLog>>
vars == <<store, log, status, base>>

Connection == [from: Names, sink: Sinks, to: Names, input: Inputs]
Slot == [dev: Names, elem: Elems, param: Params]

\* The keys under which values are logged: "dev.elem.param" is meant by all
\* callers; "elem.param" and "dev.elem" are what two of them pass.
ValueKey == Slot \cup [elem: Elems, param: Params]
                 \cup [dev: Names, elem: Elems]
ElementKey(s) == [dev |-> s.dev, elem |-> s.elem]
UnqualifiedKey(s) == [elem |-> s.elem, param |-> s.param]

Known(n) == device[n] # None

IsSelector(s) ==
  /\ Known(s.dev)
  /\ SelectorOf[device[s.dev]][s.elem] = s.param

(***************************************************************************)
(* The change log                                                          *)
(***************************************************************************)
EmptyLog == [k \in {} |-> [orig |-> Void, cur |-> Void]]

Reset(old) == [k \in DOMAIN old |-> [orig |-> old[k], cur |-> Void]]
Appeared(keys) == [k \in keys |-> [orig |-> FALSE, cur |-> TRUE]]
Vanished(keys) == [k \in keys |-> [orig |-> TRUE, cur |-> FALSE]]

\* Seeded faults: a log that believes its last entry about the original
\* state, and one that believes its first entry about the current state.
LoggedAfresh(old, new) ==
  [k \in DOMAIN old \cup DOMAIN new |->
     IF k \in DOMAIN new THEN new[k] ELSE old[k]]
LoggedOnce(old, new) ==
  [k \in DOMAIN old \cup DOMAIN new |->
     IF k \in DOMAIN old THEN old[k] ELSE new[k]]

\* The original state of a name is what its first entry says, its current
\* state what the last one says.
Logged(old, new) ==
  [k \in DOMAIN old \cup DOMAIN new |->
     [orig |-> IF k \in DOMAIN old THEN old[k].orig ELSE new[k].orig,
      cur  |-> IF k \in DOMAIN new THEN new[k].cur ELSE old[k].cur]]

IsNop(entry) == entry.orig = entry.cur
Without(changes, keys) == [k \in DOMAIN changes \ keys |-> changes[k]]

\* Seeded fault: devices that went and came back are dropped as well.
OptimizedAllDevices ==
  Without(deviceLog, {n \in DOMAIN deviceLog : IsNop(deviceLog[n])})

\* ChangeLog::optimize() drops the entries that describe no change, but
\* keeps devices which were there before, went away and came back.
OptimizedDevices ==
  Without(deviceLog, {n \in DOMAIN deviceLog :
                        IsNop(deviceLog[n]) /\ ~deviceLog[n].orig})
Optimized(changes) == Without(changes, {k \in DOMAIN changes : IsNop(changes[k])})

Report == [devices |-> OptimizedDevices,
           conns   |-> Optimized(connLog),
           values  |-> Optimized(valueLog)]

HasChanges == \E part \in DOMAIN Report : DOMAIN Report[part] # {}

(***************************************************************************)
(* Values and selectors of the elements of a device                        *)
(***************************************************************************)
Held(S) == {s \in S : value[s] # Void}
SlotsOf(d, e) == {s \in Slot : s.dev = d /\ s.elem = e}

\* Seeded fault: the tracker is not told that the value has gone.
FloatNever(S) == selected

\* Forgetting the values in S makes the switching elements float whose
\* selector is among them (Device::unset_value, unset_values).
FloatAfter(S) ==
  [d \in Names |-> [e \in Elems |->
     IF \E s \in Held(S) : s.dev = d /\ s.elem = e /\ IsSelector(s)
     THEN Floating ELSE selected[d][e]]]

Forget(S) == [s \in Slot |-> IF s \in S THEN Void ELSE value[s]]

\* Seeded fault: the old values are looked at after they were moved away.
ForgottenEntriesTooLate(S) == Reset([s \in Held(S) |-> Void])

ForgottenEntries(S) == Reset([s \in Held(S) |-> value[s]])

Init ==
  /\ device = [n \in Names |-> None]
  /\ conns = {}
  /\ value = [s \in Slot |-> Void]
  /\ selected = [n \in Names |-> [e \in Elems |-> Floating]]
  /\ deviceLog = EmptyLog
  /\ connLog = EmptyLog
  /\ valueLog = EmptyLog
  /\ status = "idle"
  /\ base = [device |-> device, conns |-> conns, value |-> value]

(***************************************************************************)
(* Batches                                                                 *)
(***************************************************************************)
\* The D-Bus signal with a batch arrives; update() creates an empty log.
BeginUpdate ==
  /\ status = "idle"
  /\ status' = "updating"
  /\ UNCHANGED <<store, log, base>>

\* An exception leaves update(); the changes behind this one are lost.
Fail ==
  /\ status = "updating"
  /\ status' = "failed"
  /\ UNCHANGED <<store, log, base>>

\* A change with a missing key, an unknown "op" or an empty name.
MalformedChange == Fail

\* The caller takes the log out of the store and reports it.
ExtractChanges ==
  /\ status \in {"updating", "failed"}
  /\ status' = "idle"
  /\ deviceLog' = EmptyLog
  /\ connLog' = EmptyLog
  /\ valueLog' = EmptyLog
  /\ base' = [device |-> device, conns |-> conns, value |-> value]
  /\ UNCHANGED store

\* DCPD has disappeared from the bus: Settings::clear() between two batches.
Clear ==
  /\ status = "idle"
  /\ device' = [n \in Names |-> None]
  /\ conns' = {}
  /\ value' = [s \in Slot |-> Void]
  /\ selected' = [n \in Names |-> [e \in Elems |-> Floating]]
  /\ base' = [device |-> device', conns |-> conns', value |-> value']
  /\ UNCHANGED <<log, status>>

(***************************************************************************)
(* Device instances                                                        *)
(***************************************************************************)
\* Seeded fault: connections into the device are overlooked.
LeavingOnly(n) == {c \in conns : c.from = n}

Touching(n) == {c \in conns : n \in {c.from, c.to}}

\* Seeded fault: the values of the device itself are kept.
DetachOthers(n) ==
  /\ conns' = conns \ Touching(n)
  /\ connLog' = Logged(connLog, Vanished(Touching(n)))
  /\ value' = Forget({s \in Slot : s.dev # n})
  /\ valueLog' = Logged(valueLog, ForgottenEntries({s \in Slot : s.dev # n}))
  /\ selected' = [FloatAfter(Slot) EXCEPT ![n] = [e \in Elems |-> Floating]]

\* What Impl::remove_instance does to everything but the map of devices: it
\* cuts the connections of n, and it forgets the values of all devices.
Detach(n) ==
  /\ conns' = conns \ Touching(n)
  /\ connLog' = Logged(connLog, Vanished(Touching(n)))
  /\ value' = Forget(Slot)
  /\ valueLog' = Logged(valueLog, ForgottenEntries(Slot))
  /\ selected' = [FloatAfter(Slot) EXCEPT ![n] = [e \in Elems |-> Floating]]

\* Seeded fault: a device is replaced without removing the old one first.
ReplaceInstance(n, id) ==
  /\ status = "updating"
  /\ deviceLog' = Logged(deviceLog, Appeared({n}))
  /\ device' = [device EXCEPT ![n] = id]
  /\ UNCHANGED <<conns, connLog, value, valueLog, selected, status, base>>

AddInstance(n, id) ==
  /\ status = "updating"
  /\ IF Known(n)
     THEN /\ Detach(n)
          /\ deviceLog' = Logged(Logged(deviceLog, Vanished({n})), Appeared({n}))
     ELSE /\ deviceLog' = Logged(deviceLog, Appeared({n}))
          /\ UNCHANGED <<conns, connLog, value, valueLog, selected>>
  /\ device' = [device EXCEPT ![n] = id]
  /\ UNCHANGED <<status, base>>

RemoveInstance(n) ==
  /\ status = "updating"
  /\ Known(n)
  /\ Detach(n)
  /\ deviceLog' = Logged(deviceLog, Vanished({n}))
  /\ device' = [device EXCEPT ![n] = None]
  /\ UNCHANGED <<status, base>>

RemoveUnknownInstance(n) == ~Known(n) /\ Fail

\* Only the devices are logged, not their connections and values.
ClearInstances ==
  /\ status = "updating"
  /\ deviceLog' = Logged(deviceLog, Vanished({n \in Names : Known(n)}))
  /\ device' = [n \in Names |-> None]
  /\ conns' = {}
  /\ value' = [s \in Slot |-> Void]
  /\ selected' = [n \in Names |-> [e \in Elems |-> Floating]]
  /\ UNCHANGED <<connLog, valueLog, status, base>>

(***************************************************************************)
(* Values of controls                                                      *)
(***************************************************************************)
\* "set" (isReset) and "update".  Ill-typed values are skipped one by one.
\* A selector value the model rejects is stored like any other value, and
\* the tracker of active signal paths is not told.
SetElementValues(d, e, kv, isReset) ==
  LET reset == IF isReset THEN Held(SlotsOf(d, e)) ELSE {}
      given == {s \in SlotsOf(d, e) : /\ s.param \in DOMAIN kv
                                      /\ kv[s.param] # Malformed}
      kept == Forget(reset)
      floated == FloatAfter(reset)
      chosen == {s \in given : IsSelector(s) /\ kv[s.param] \in Choices}
      resetEntries == [k \in {UnqualifiedKey(s) : s \in reset} |->
                         [orig |-> value[[dev |-> d, elem |-> e, param |-> k.param]],
                          cur  |-> Void]]
      givenEntries == [s \in given |-> [orig |-> kept[s], cur |-> kv[s.param]]]
  IN /\ status = "updating"
     /\ Known(d)
     /\ value' = [s \in Slot |-> IF s \in given THEN kv[s.param] ELSE kept[s]]
     /\ selected' = IF chosen = {} THEN floated
                    ELSE [floated EXCEPT ![d][e] = kv[SelectorOf[device[d]][e]]]
     /\ valueLog' = Logged(Logged(valueLog, resetEntries), givenEntries)
     /\ UNCHANGED <<device, conns, deviceLog, connLog, status, base>>

\* "unset": the log gets the name of the element only.
ClearElementValue(d, e, p) ==
  LET s == [dev |-> d, elem |-> e, param |-> p]
  IN /\ status = "updating"
     /\ Known(d)
     /\ value[s] # Void
     /\ value' = Forget({s})
     /\ selected' = FloatAfter({s})
     /\ valueLog' = Logged(valueLog, Reset([k \in {ElementKey(s)} |-> value[s]]))
     /\ UNCHANGED <<device, conns, deviceLog, connLog, status, base>>

ClearAbsentValue(d, e, p) ==
  /\ Known(d) => value[[dev |-> d, elem |-> e, param |-> p]] = Void
  /\ Fail

\* "unset_all"
ClearElementValues(d, e) ==
  /\ status = "updating"
  /\ Known(d)
  /\ value' = Forget(SlotsOf(d, e))
  /\ selected' = FloatAfter(SlotsOf(d, e))
  /\ valueLog' = Logged(valueLog, ForgottenEntries(SlotsOf(d, e)))
  /\ UNCHANGED <<device, conns, deviceLog, connLog, status, base>>

\* "set", "update" and "unset_all" for a device that is not there.
ValuesOfUnknownDevice(d) == ~Known(d) /\ Fail

(***************************************************************************)
(* Connections between devices                                             *)
(***************************************************************************)
\* Seeded fault: the entry is made for the device, not for the connection.
AddConnectionOfDevice(c) ==
  /\ status = "updating"
  /\ Known(c.from)
  /\ Known(c.to)
  /\ conns' = conns \cup {c}
  /\ connLog' = Logged(connLog, Appeared({c.from}))
  /\ UNCHANGED <<device, value, selected, deviceLog, valueLog, status, base>>

\* "connect": sink and input are not looked up in the models, and a
\* connection already made is logged as if it was new.
AddConnection(c) ==
  /\ status = "updating"
  /\ Known(c.from)
  /\ Known(c.to)
  /\ conns' = conns \cup {c}
  /\ connLog' = Logged(connLog, Appeared({c}))
  /\ UNCHANGED <<device, value, selected, deviceLog, valueLog, status, base>>

AddUnknownConnection(c) == ~(Known(c.from) /\ Known(c.to)) /\ Fail

\* "disconnect" takes a filter: each end is missing, a device, or qualified.
Filter == {f \in [from: Names \cup {Wild}, sink: Sinks \cup {Wild},
                  to: Names \cup {Wild}, input: Inputs \cup {Wild}] :
             /\ f.from = Wild => f.sink = Wild
             /\ f.to = Wild => f.input = Wild}

Selects(f, c) == \A end \in DOMAIN f : f[end] \in {Wild, c[end]}

\* Ingoing connections are looked for only if the target exists; with a
\* sink side given, a target that does not exist simply matches nothing.
Doomed(f) ==
  IF f.from = Wild /\ f.to # Wild /\ ~Known(f.to)
  THEN {}
  ELSE {c \in conns : Selects(f, c)}

\* Seeded fault: connections which do not exist are logged as removed.
RemoveConnectionsBlindly(f) ==
  /\ status = "updating"
  /\ f.from # Wild => Known(f.from)
  /\ conns' = conns \ Doomed(f)
  /\ connLog' = Logged(connLog, Vanished({c \in Connection : Selects(f, c)}))
  /\ UNCHANGED <<device, value, selected, deviceLog, valueLog, status, base>>

RemoveConnections(f) ==
  /\ status = "updating"
  /\ f.from # Wild => Known(f.from)
  /\ conns' = conns \ Doomed(f)
  /\ connLog' = Logged(connLog, Vanished(Doomed(f)))
  /\ UNCHANGED <<device, value, selected, deviceLog, valueLog, status, base>>

RemoveUnknownConnections(f) == f.from # Wild /\ ~Known(f.from) /\ Fail

(***************************************************************************)
(* Next-state relation                                                     *)
(***************************************************************************)
ValueMaps == UNION {[P -> Values \cup {Malformed}] : P \in SUBSET Params}

InstanceStep ==
  \/ \E n \in Names, id \in Ids : AddInstance(n, id)
  \/ \E n \in Names : RemoveInstance(n) \/ RemoveUnknownInstance(n)
  \/ ClearInstances

ValueStep ==
  \E d \in Names, e \in Elems :
    \/ \E kv \in ValueMaps, r \in BOOLEAN : SetElementValues(d, e, kv, r)
    \/ \E p \in Params : ClearElementValue(d, e, p) \/ ClearAbsentValue(d, e, p)
    \/ ClearElementValues(d, e)
    \/ ValuesOfUnknownDevice(d)

ConnectionStep ==
  \/ \E c \in Connection : AddConnection(c) \/ AddUnknownConnection(c)
  \/ \E f \in Filter : RemoveConnections(f) \/ RemoveUnknownConnections(f)

Next ==
  \/ BeginUpdate
  \/ MalformedChange
  \/ InstanceStep
  \/ ValueStep
  \/ ConnectionStep
  \/ ExtractChanges
  \/ Clear

Spec == Init /\ [][Next]_vars

-----------------------------------------------------------------------------
IsLog(changes, Keys, States) ==
  /\ DOMAIN changes \subseteq Keys
  /\ changes \in [DOMAIN changes -> [orig: States, cur: States]]

\* Type invariant of the store, of its log and of the history variable.
TypeOK ==
  /\ device \in [Names -> Ids \cup {None}]
  /\ conns \subseteq Connection
  /\ value \in [Slot -> Values \cup {Void}]
  /\ selected \in [Names -> [Elems -> Choices \cup {Floating}]]
  /\ IsLog(deviceLog, Names, BOOLEAN)
  /\ IsLog(connLog, Connection, BOOLEAN)
  /\ IsLog(valueLog, ValueKey, Values \cup {Void})
  /\ status \in {"idle", "updating", "failed"}
  /\ base \in [device: [Names -> Ids \cup {None}], conns: SUBSET Connection,
               value: [Slot -> Values \cup {Void}]]

\* Both ends of every connection are devices in the store, whatever was
\* removed, replaced or reconnected in whatever order, and also after a batch
\* that failed half way (add_connection, remove_instance, clear_instances).
NoDanglingConnections ==
  \A c \in conns : Known(c.from) /\ Known(c.to)

\* Nothing is remembered of a device that is not there: neither a value nor
\* the position of a selector survives for a later instance of that name.
NoLeftovers ==
  \A s \in Slot :
    ~Known(s.dev) => value[s] = Void /\ selected[s.dev][s.elem] = Floating

\* The signal path tracker of a device agrees with the stored value of each
\* selector: floating if there is no value, set to it if it is in range.
TrackerFollowsValues ==
  \A s \in Slot :
    IsSelector(s) =>
      /\ value[s] = Void => selected[s.dev][s.elem] = Floating
      /\ value[s] \in Choices => selected[s.dev][s.elem] = value[s]

\* An element without selector (or in a device without model) never has a
\* position.
OnlySelectorsArePositioned ==
  \A d \in Names, e \in Elems :
    selected[d][e] # Floating =>
      \E p \in Params : IsSelector([dev |-> d, elem |-> e, param |-> p])

\* The device log says of each device in it whether it was there before the
\* batch and whether it is there now; a device not in it is as before.
DeviceLogIsExact ==
  \A n \in Names :
    IF n \in DOMAIN deviceLog
    THEN /\ deviceLog[n].orig <=> base.device[n] # None
         /\ deviceLog[n].cur <=> Known(n)
    ELSE device[n] = base.device[n]

\* The plugins hear of every device that came, went or was replaced by
\* another one under its name, also if that happened within one batch
\* (ChangeLog::optimize keeps devices that went and came back).
DeviceChangesAreReported ==
  \A n \in Names :
    device[n] # base.device[n] => /\ n \in DOMAIN Report.devices
                                  /\ Report.devices[n].cur <=> Known(n)

Ends(c) == {c.from, c.to}

\* What the connection log says is true: an entry that was there originally
\* was there, one that is gone is gone, and one that is present is present
\* unless one of its devices is logged too (clear_instances).
ConnectionLogIsSound ==
  \A c \in DOMAIN connLog :
    /\ connLog[c].orig => c \in base.conns
    /\ ~connLog[c].cur => c \notin conns
    /\ connLog[c].cur => c \in conns \/ Ends(c) \cap DOMAIN deviceLog # {}

\* The connection log is complete: a connection that is lost is logged as
\* gone, or one of its devices is reported.
LostConnectionsAreLogged ==
  \A c \in base.conns \ conns :
    \/ c \in DOMAIN connLog /\ ~connLog[c].cur
    \/ Ends(c) \cap DOMAIN Report.devices # {}

\* A connection that was made in the batch and still exists at its end is
\* reported as made.
NewConnectionsAreReported ==
  \A c \in conns \ base.conns :
    c \in DOMAIN Report.conns /\ Report.conns[c].cur

\* A value that differs from what it was before the batch leaves a trace in
\* what is reported: under its own name, under the incomplete name logged by
\* "set" or "unset", or through its device.
ChangedValuesAreReported ==
  \A s \in Slot :
    value[s] # base.value[s] =>
      \/ {s, ElementKey(s), UnqualifiedKey(s)} \cap DOMAIN Report.values # {}
      \/ s.dev \in DOMAIN Report.devices

\* Extracting the changes leaves nothing behind for the next batch.
LogsOnlyInBatches ==
  status = "idle" => ~HasChanges

-----------------------------------------------------------------------------
(* Statements of comments, tests and documents that the code contradicts.  *)

\* Test case "NOP reports are filtered out": a batch that leaves everything
\* as it was has nothing to report.
NopReportsAreFilteredOut ==
  (DOMAIN deviceLog = {} /\ conns = base.conns /\ value = base.value)
    => ~HasChanges

\* Comment on ChangeLog::connection_changes_ (original and current state of
\* each connection) and README ("On any audio path changes, AuPaD emits D-Bus
\* signals"): a connection that is lost is reported, or one of its devices is.
LostConnectionsAreReported ==
  \A c \in base.conns \ conns :
    \/ c \in DOMAIN Report.conns /\ ~Report.conns[c].cur
    \/ Ends(c) \cap DOMAIN Report.devices # {}

\* protocol.md on "i": what goes with an appliance is its connections; what
\* was reported about other appliances stays as it is.
OthersKeepTheirValues ==
  [][\A n \in Names : RemoveInstance(n) =>
       \A s \in Slot : s.dev # n => value'[s] = value[s]]_vars

\* Comment on ChangeLog::value_changes_: the map keeps track of names and
\* their values, so a change of a value is logged under a name that includes
\* the control, and not under that of its element alone.
LoggedValuesNameTheControl ==
  \A k \in DOMAIN valueLog : "param" \in DOMAIN k

\* protocol.md on "S": a control set to a value out of range is unknown.
OutOfRangeIsUnknown ==
  \A s \in Slot :
    IsSelector(s) /\ value[s] \notin Choices
      => selected[s.dev][s.elem] = Floating

\* protocol.md on "C": a connection of unknown ends is ignored (and does not
\* take the rest of its batch with it).
UnknownConnectionsAreIgnored ==
  [][\A c \in Connection : AddUnknownConnection(c) => status' = "updating"]_vars
=============================================================================
