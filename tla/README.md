# TLA+ models of AuPaD

AuPaD (Audio Path Daemon) keeps a picture of the audio paths of a hi-fi
appliance. The appliance tells the daemon DCPD about its devices, their
controls and their connections; DCPD forwards batches of changes to AuPaD over
D-Bus; AuPaD stores them, works out which audio path is active, and tells
registered D-Bus clients (so far: a Roon client).

These modules describe that program as it is in `src/`: what it stores, how it
finds the active paths, what it reports and to whom. TLC checks small instances;
TLAPS proves the central invariants for instances of any size.

1. [The system](#the-system)
2. [Modules](#modules)
3. [Runs, bounds and fairness](#runs-bounds-and-fairness)
4. [Where code and documents disagree](#where-code-and-documents-disagree)
5. [Proofs](#proofs)
6. [Not modelled](#not-modelled)
7. [Plan](#plan)

Run a model with `tlc -config <cfg> <MC module>` and the proofs with
`tlapm <module>`.

## The system

AuPaD is one process with one thread and a GLib main loop. Each D-Bus call,
signal, and callback of the loop runs to its end before the next one starts, so
handlers are atomic; what interleaves is the *order* of handlers, decided by
DCPD, by the clients, and by asynchronous results of the D-Bus library.

```
 appliance -> DCPD --batches--> Settings (store + change log)
                ^                  |  changes            ^ iterate
       request  |                  v                     |
        AuPaD --+            PluginManager --> Roon plugin --> active path
                                   |   has_clients?      |
                             MonitorManager          signals, replies
                                   ^                     v
                                   +------ clients ------+
```

| Component | State | Operations | Called by |
|---|---|---|---|
| Configuration store, `configstore.cc` | devices with ID, reported values, outgoing connections, and a signal path tracker each; models in use | `update` (batch of JSON changes), `clear`, `extract_changes`, iteration | `aupad.cc` |
| Change log, `configstore.cc` | original and current state of each device, connection, and value touched in a batch | `add_*`, `remove_*`, `set_value`, `unset_values`, `optimize`, `clear` | the store |
| Client registration, `monitor_manager.cc`, `client_plugin.hh` | monitor object -> set of client names, a peer watcher per client with a use count, a reference count per plugin | register, unregister, peer vanished | D-Bus |
| Reporting, `aupad.cc`, `report_roon.cc`, `client_plugin.cc` | the previous report | report changes, full report (`Get`), add client | batches, D-Bus |
| Connection to DCPD, `aupad.cc` | two proxies, connected or not | DCPD appeared, vanished, proxy connected, update received | D-Bus |
| Signal path graph and tracker, `signal_paths.hh`, `signal_path_tracker.cc` | graph of path elements with edges and mappings; selector per switching element | build, `select`, `floating`, `enumerate_active_signal_paths` | store, reporting |
| Compound paths, `compound_signal_path.cc` | one path vector, stack of device names | `enumerate_compound_signal_paths` | reporting |
| Choice of a path, `report_roon.cc` | best path so far, cache of ranks | `compute_sorted_result`, `determine_path_rank_and_output_method` | reporting |
| Contents of reports, `report_roon.cc` | places for fragments, by element and rank; the previous report | prepare, fill in, map values, compare | reporting |
| Device models, `device_models.cc`, `element.hh` | the database, flattened at startup, read-only afterwards; models made on demand | load, flatten, make a model, look up | `main`, store, reporting |
| Controls, `element_controls.hh` | none | validate, number of choices, value -> selector index -> text | device models, reporting |
| Values, `configvalue.hh`, `configstore.cc` | type and JSON primitive | type check, compare, convert, type codes | all |

### What is hard

* **Sequences of changes.** A batch may remove, replace, connect and set in any
  order, and a change that throws ends it half way. The change log folds several
  entries for a name into one; folding loses or invents changes if it
  remembers the wrong one.
* **Two pictures of one fact.** The value of a selector is in the store, its
  position in the tracker: each way of losing a value (`unset`, `set` of others,
  replaced or removed devices) has to release the selector.
* **Clients that die.** The calls of a client and the news of its death reach
  AuPaD through one queue; a set, a count and a watcher have to agree through
  every order of registrations with several objects.
* **One previous report for all clients.** A report computed for the `Get` of one
  client suppresses the next signal to all of them.
* **Two proxies, connected asynchronously**, while DCPD may restart.
* **A depth first search with one path vector**, recursive in two levels, whose
  elements have to be cut at the right places when branches rejoin.
* **Ranks cached by address**, in a program that frees and rebuilds models.
* **Definitions flattened in place**, by recursion, while other definitions
  still refer to them.
* **Three names for a position**: the value of a selector, its index, and the text
  by which mapping tables list it, with 64 bit arithmetic and casts between them.
* **Reports put together in two passes**, places first, values in the order of
  a hash table second, the fragment of one control depending on the value of another.

### What makes each component correct

* Store: connections have both ends; nothing outlives its device; selectors are
  where their values say.
* Change log: the difference between now and the last extraction, as far as
  plugins need it: devices exactly, connections soundly and completely, each
  changed value with a trace.
* Registration: a watcher is used once per registration; counts cover the
  clients; the dead are forgotten for good.
* Reporting: a registered client never believes in a path that is not active,
  unless DCPD was lost or the change left no trace in the log; each call is answered.
* Connection to DCPD: from the first complete batch the store follows DCPD, and
  it is empty when DCPD is gone.
* Tracker and compound paths: exactly the active paths are enumerated, each once
  (in a device), from a path vector which is a chain at every moment.
* Choice: the reported path is one with the lowest rank, with its own method.
* Device models: flattening ends, gives each device what its definition asks for,
  and accepts a database or not independently of the order.
* Controls and mappings: a value the selector accepts selects a choice of the
  mapping, and the pads listed for its text.
* Contents: the fragments of a report are those the current values ask for, in
  order; clients hear of it if and only if it is news to them.
* Values: a number that was accepted for a type is the number that is read back.

## Modules

| Module | Models | Composes |
|---|---|---|
| `ConfigStore` | store, change log, batches and their failure, extraction, loss of DCPD | |
| `ConfigStoreProofs` | theorems on the store and on its log | extends `ConfigStore` |
| `MonitorManager` | registration, watchers, counts, the bus, clients that die | |
| `MonitorManagerProofs` | theorems on them | extends `MonitorManager` |
| `RoonReporting` | clients, Get, signals, suppressed reports, loss of DCPD | INSTANCE `MonitorManager`, which it refines |
| `RoonReportingProofs` | theorems on them, and the refinement | extends `RoonReporting` |
| `DcpdConnection` | DCPD, both proxies, request and updates, batches that fail | |
| `DcpdConnectionProofs` | theorems on them | extends `DcpdConnection` |
| `SignalPathMappings` | I/O mappings of switching elements, and whether they fit the edges | |
| `SignalPathTracker` | building a graph, selectors, the search as a stack of calls | extends `SignalPathMappings` |
| `SignalPathTrackerProofs` | theorems on the search | extends `SignalPathTracker` |
| `CompoundSignalPath` | the search across devices as a stack of calls | |
| `CompoundSignalPathProofs` | theorems on the search | extends `CompoundSignalPath` |
| `RoonRanking` | ranks, their cache, the path that is kept, models that come and go | |
| `ConfigValues` | typed JSON values, type checks, type codes (operators only) | |
| `SwitchingControls` | choices, ranges, on/off controls (operators only) | extends `ConfigValues` |
| `ModelDefinitions` | validation of definitions, models made from them (operators only) | extends `SwitchingControls`, `SignalPathMappings` |
| `DeviceModels` | the database: flattening as a stack of calls, models on demand | extends `ModelDefinitions` |
| `DeviceModelsProofs` | theorems on flattening, models, selectors and pads | extends `DeviceModels` |
| `RoonMappings` | mapping of values to fragments (operators only) | extends `SwitchingControls` |
| `RoonReports` | places, filling in, previous report, changing settings | extends `RoonMappings` |
| `RoonReportsProofs` | theorems on the contents of reports, and on the choice of their path | extends `RoonReports`, `RoonRanking` |
| `MC*` | constants for TLC | extend the module of that name |

Each module starts with the code it is about and what it abstracts. In all of
them an action is a whole handler, or, where the code is one long call whose
inside matters (batches, searches), one step of it.

**ConfigStore.** All `Device` objects are flattened into functions on names:
`device` (ID or `None`), `value`, `selected` (the trackers), and the set
`conns`. An action is one change of a batch; its first half, the object's entry
in the log, and its second, the store, are one step as in the code. `Fail` is an
exception: the batch is over, the log is kept, and the only thing that follows is
`ExtractChanges`. `clear()` drops the log as well. Keys of the value log keep
the shape callers give them: most name device, element and control, but `set`
resets under `element.control` and `unset` of an element logs `device.element`,
as the source does. `base` is a history variable: the store at the time of the
last extraction.

**MonitorManager.** `bus` holds calls and `Vanished` in the order of delivery. A `Get` is
one of the calls: it has no effect on registration. The
watcher of a client is its use count (`tdbus` is an external library; it is modelled
from its use: added on the first registration, dropped with the last, its callback
fires once). The `Vanished` of a client without a watcher has no effect.

**RoonReporting.** A client goes through `out`, `joining`, `joined`, `asked`,
`ready` and `leaving`, with one call under way at a time, as README.md
tells clients to. The path found in the store is a member of `Paths` or
`NoPath`; a batch may change it or not. `previous` is `previous_roon_report_`,
null or a report. A batch may change the path and have something in its log, or not, in any
combination: the run `store_lost_connection` shows a path that changes without a trace.
Two variables are history: `stale`, DCPD was lost and nothing has changed since, and
`unnoticed`, while clients were registered a batch changed the path without a trace, and no
signal has been sent since. Each behaviour is one of `MonitorManager`, with the same bus and the
plugin's one monitor object (`ImplementsRegistration`).

**DcpdConnection.** What DCPD knows is a set of facts, a batch sets or unsets one
of them, or replaces all, and may fail anywhere. A signal without handler is lost.
`MaxLives` bounds restarts. `complete` and `failed` are history: what the store can be
expected to know.

**SignalPathTracker.** TLC chooses the edges and mappings, then `Build` finalizes
(or rejects) as `ApplianceBuilder::build` does. The search keeps `frames`, one for
each active call of `DepthFirst::down`, and the path vector. Edges of one output are
in an unordered map: they are taken in any order.

**CompoundSignalPath.** A frame is an entry of `device_name_store_`, together
with the call that pushed it. Active paths within a device are a choice of TLC;
what they are is the subject of `SignalPathTracker`.

**RoonRanking.** Sinks live at addresses; clearing the store frees them, a model
loaded later may get any that is free. The cache of ranks lives on. The names of this module
differ from those of `RoonReports` (`RankingInit`, `RankingNext`, `RankingSpec`), so that
the theorems on both parts of `report_roon.cc` can be in one module.

**ConfigValues, SwitchingControls.** A value is a type and a JSON primitive.
Integers keep their width, which is a parameter (`Bits`): the library's casts to and
from `int64_t` and `uint64_t` are modular arithmetic, and so is the arithmetic of
`Range::SelectorSupport`. A text is a name, the numeral of an integer, or spelled in another
way that `std::stoll` reads as a number ("01", " 1", "1abc"), since nobody checks where it
stops; of the latter only their order is known. A call that throws yields `Failed`.

**ModelDefinitions.** A definition is a record of sources, sinks, elements with
controls, and blocks of I/O mappings or connections; names and pads are split already.
`IsModelDefinition` is the conjunction of all that `mk_model` throws for, `Model` what
it returns. Keys of a mapping table are visited in their order, and of several which select
the same input (again "1" and "01") the last one wins. Mappings have the form `SignalPathTracker` takes them in, and are checked
against the edges by the same operator, `FitsEdges`.

**DeviceModels.** `frames` has the active calls of `flatten_device`; the set
`seen`, which is handed down by value, is the set of their devices. An exception in
`flatten` ends `main`: `terminated`. `GetDeviceModel` remembers devices without
a definition, but not those whose definition is rejected, as `get_device_model` does.

**RoonMappings, RoonReports.** The functions of `report_roon.cc` from
`process_flag_entry` to `map_value`, one operator each; real numbers are fractions, or
`NaN`. Reports are computed in steps: `PrepareElement` for each element along the
path, then `Fill` for each setting, in any order within an element. `relevant` is
history: has anything been changed that could make the report another one?

Definitions called "seeded fault" are deliberate bugs next to the operator they
could have been; they are used to make sure that the properties notice.

## Runs, bounds and fairness

| Run | Instance | Shows |
|---|---|---|
| `store_connections` | 2 devices of two possible IDs, one sink and one input each | `NoDanglingConnections`, `DeviceLogIsExact`, `ConnectionLogIsSound`, `LostConnectionsAreLogged`, `NewConnectionsAreReported`, `DeviceChangesAreReported`, and the type invariant |
| `store_two_devices` | 2 devices of one model, one selector each, a value in range, one out of range | `NoLeftovers`, `TrackerFollowsValues`, `ChangedValuesAreReported` |
| `monitor` | 2 objects, 2 clients, `MaxPending` 3 | `WatcherPerRegistration`, `CountCoversClients`, `DeadClientsAreBeingNoticed`; `DeadClientsAreForgotten` (liveness) |
| `roon` | 2 clients, 2 paths, `MaxPending` 3, `MaxInbox` 2 | `ClientsAreNeverMisled`, `JoinedClientsAreRegistered`, `ImplementsRegistration` (refinement), `CallsAreAnswered` (liveness) |
| `paths` | any subset of 9 edges over 2 inputs, a splitter, a mux, a demux, 2 outputs; 6 combinations of mappings | `PathIsActiveChain`, `EnumerationIsExact`, `EnumerationEnds` (liveness) |
| `compound_paths` | 3 devices, any active paths of 7, any of 5 connections, any models missing | `PathHasDeviceNames`, `EnumerationIsExact`, `ReachedSinksAreReported`, `EnumerationEnds` (liveness) |
| `dcpd` | 2 facts, `MaxQueue` 4, `MaxLives` 3 | `CompleteStoreFollowsDcpd`; `LossIsNoticed`, `RestartIsCaughtUpWith` (liveness) |
| `ranking` | 4 sinks (two of equal rank, one unranked), an end which is no sink, 3 addresses | `BestPathIsReportedUntilClear` |
| `device_models` | 3 devices with any of several ways to copy from each other, or one whose definition is a model with a mux, a demux and a table, or nearly so; integers of 2 to 4 bits | `FlatDevicesAreResolved`, `OnlySoundDatabasesAreServed`, `FlattenEnds` (liveness), `SelectorsFitMappings`, `ChoicesSelectTheirPads`, `SelectorIndexIsInvertible`, `ValuesSurviveTransport` |
| `roon_reports` | 2 elements, several setups of flags, ranges, tables and selections with equal and different ranks | `ReportIsExact`, `SuppressedControlsAreSilent`, `OnlyChangesAreReported`, `MappedValuesKeepTheirOrder` |
| `store_lost_connection` | as `store_connections`, one ID | see the next section |
| `monitor_leak` | 1 object, 2 clients | see the next section |

Each module has a type invariant, `TypeOK`. The store's is checked by a run, since
its logs are what an operation gets wrong easily. Each of them is proved.

**Why the bounds are enough.** Names are only compared, never ordered or counted,
so two of a kind show what one can do to another: two devices make a connection
between devices, from a device to itself, and two directions; removing one of two
devices shows what it does to the other. Batches in `ConfigStore` have no bound on
their length: logs fold, so the state space is finite. `MaxPending` 3 lets the
last call of a client, the call of another, and the news of a death queue up;
`MaxInbox` 2 lets signals pile up in front of the reply of a call made before
them (replies are outside the bound, a client waits for at most one). `MaxQueue` 4 is
DCPD's disappearance, return, all facts and a change to them; `MaxLives` 3 is a
restart during the aftermath of another. Graphs
in `paths` include a splitter whose branches rejoin directly in front of a mux,
parallel edges into one pad, an element reached by its parent only, and table
mappings which connect several pads at once. Three devices are enough for
copies of copies, for a cycle that is entered from outside, and for a device that is
flattened before, during, and after others which copy from it. With integers of a few
bits each type has values that fit, that fit only as signed or unsigned, and
that wrap; the widths are parameters, of which the code uses nothing but their order.
The bounds limit what the
environment sends, never what the daemon does with it.

**Symmetry** on names, sinks and inputs (`ConfigStore`), and on clients and objects
(`monitor_leak`): sets of model values which no definition distinguishes. It is not
used in runs with liveness properties.

**Deadlock** is not checked where the system may rightly be at rest:
`monitor`, `monitor_leak` (all clients dead), `dcpd` (no life left, nothing
queued), `paths` (a rejected model), `compound_paths` (one enumeration per
behaviour),
`device_models` (the program has ended).
The store, `roon`, `ranking` and `roon_reports` always have something they can do, and there it is
checked.

**Fairness.** `WF_vars(Handle)`: GLib's main loop dispatches a pending message; no
handler blocks. `WF_vars(Receive(c))`: the bus delivers to a client that
lives. `WF_vars(Walk)`, `WF_vars(Next)` in `CompoundSignalPath`, `WF_vars(Flatten)`: an
enumeration, or flattening, is one C++ call and goes on until it returns.
`RequestsConnected` of `DcpdConnection` is weakly fair, since the library calls back
with the outcome of each attempt, a success or not. `SF_vars(AnswerRequest)` is the one
assumption on a peer: DCPD answers a request, in spite of the bound on the queue,
which may hold the answer up again and again but not forever. Nothing is assumed of
what clients do.

## Where code and documents disagree

Two runs end in a counterexample:

* `store_lost_connection` (`LostConnectionsAreReported`). `add_connection` logs a
  connection as new even if it exists (`configstore.cc:1004`). If it is cut in the
  same batch, `optimize` takes the entry for one that describes no change: the
  path is gone, and nobody is told.
* `monitor_leak` (`ReportsStopWithTheLastClient`). The callback for a dead client
  erases it from the sets, but not from the plugins' reference counts
  (`monitor_manager.cc:126`): reports go on forever.

Other statements of the repository that the code contradicts are kept as
definitions at the end of the modules. Each of them fails when it is
added as INVARIANT (PROPERTY for `OthersKeepTheirValues`,
`UnknownConnectionsAreIgnored`, `GetReturnsFullInformation` and
`FailedBatchesAreMadeUpFor`) to the named configuration:

| Definition | Statement | What happens | Configuration |
|---|---|---|---|
| `OthersKeepTheirValues` (`ConfigStore`) | protocol.md: the removal of an appliance removes its connections | `remove_instance` calls `unset_values` for all elements of *each* device in the loop that cuts the connections into the one that goes (`configstore.cc:887`): removing one appliance forgets all settings of the others | `MCConfigStoreTwoDevices` |
| `NopReportsAreFilteredOut` (`ConfigStore`) | test "NOP reports are filtered out" | "connect" of a connection that exists is reported | `MCConfigStoreConnections` |
| `LoggedValuesNameTheControl` (`ConfigStore`) | comment on `value_changes_` | `unset` of an element logs `device.element` | `MCConfigStoreTwoDevices` |
| `OutOfRangeIsUnknown` (`ConfigStore`) | protocol.md on "S": "Controls with values set out of range (according to the model) are marked as unknown." | `set_value` stores the value, and the selector stays where it was (`configstore.cc:392`): an update with "U" leaves a path active that the appliance has left | `MCConfigStoreTwoDevices` |
| `UnknownConnectionsAreIgnored` (`ConfigStore`) | protocol.md on "C" | the rest of the batch is lost | `MCConfigStoreConnections` |
| `GetReturnsFullInformation` (`RoonReporting`) | README.md, "Initialization": signals are to be ignored before, and their changes "will be incorporated in the full information returned" | a client registers, a batch is reported, and its `Get` is answered with `[]`, because the report is the previous one (`report_roon.cc:978`) | `MCRoonReporting` |
| `ClientsHearOfTheLoss` (`RoonReporting`) | README.md, "Updates from the appliance": signals "on any audio path changes" | when DCPD vanishes the store is cleared, and nothing is sent (`aupad.cc:281`) | `MCRoonReporting` |
| `ReportedPathsAreConnected` (`CompoundSignalPath`) | comment on the class: a path "spanning multiple, connected appliances" | if a sink is connected to two inputs, the branch visited first is not cut from the path vector before the other one is appended (`compound_signal_path.cc:47`): what is reported leads through one device into another it is not connected with, in part under wrong names | `MCCompoundSignalPath` |
| `InformationIsCurrent` (`DcpdConnection`) | README.md, "AuPaD maintains current information" | DCPD answers the request before the handler for updates is attached; the store stays empty | `MCDcpdConnection` |
| `FailedBatchesAreMadeUpFor` (`DcpdConnection`) | the same | nobody asks DCPD again after a batch has failed | `MCDcpdConnection` |
| `DevicesAreEnteredOnce` (`CompoundSignalPath`) | the recursion of the enumeration ends | connections which form a cycle are followed forever | `MCCompoundSignalPath`, `Connections <- MCCyclicConnections` |
| `AllSelectorsFitMappings` (`DeviceModels`) | `get_number_of_choices()` and `to_selector_index()` are about the same choices | a range whose width is no multiple of its step has a choice less than it has values (0, 2, 4 are two choices): the last value has an index no mapping has | `MCDeviceModels` |
| `SelectorTextsAreExact` (`DeviceModels`) | mapping tables list choices by their texts | `std::stoll` is not asked where it stopped (`element_controls.hh:363`): the texts "01" and "1abc" select the choice "1" of a range | `MCDeviceModels` |
| `NothingIsSentTwice` (`RoonReports`) | `full_report()` returns false if there is nothing new | no report is remembered as `[]` but compared as null, so that it is sent again each time; so is a report with 0/0, the result of mapping a range of a single value | `MCRoonReports` |
| `BestPathIsReported` (`RoonRanking`) | comment in `compute_sorted_result()` | after the store was cleared, the rank of a sink that lived at the same address is taken | `MCRoonRanking` |

The properties of the passing runs state what does hold, with the exception in their
definition: `stale`, `unnoticed`, `cleared`, `FanOut`, `complete`, `failed`, `IsRegular`, `IsShadowed`,
`ChosenText`, "in range". Hazards which these leave open are listed without a property.

Some more, met while writing the models, without a definition of their own:

* The text "on" as value of an on/off control whose neutral setting is "on" is not
  neutral, and a fragment for it is reported; `process_flag_entry` compares a JSON
  boolean with what may be a text (`report_roon.cc:187`).
* A number of 2^63 or more passes the check for INT64, as the negative number with
  the same bits (`configstore.cc:598`).
* A range over all values of a 64 bit type has a width of 0, and counts as one choice
  (`element_controls.hh:223`).
* Enumerating the choices of a range always ends in an exception
  (`element_controls.hh:348`), so that a range cannot select from a table mapping.
* After a batch that changed the path without a trace in the log, the `Get` of one client makes
  the new report the previous one, so that the next signal with it is suppressed and the
  other clients do not hear of it. This is why `unnoticed` lasts until a signal is sent.
* The type code "@" (null) is accepted (`configstore.cc:566`), though it is not in protocol.md's
  "complete list of supported types". A null is stored as a value, and in the log it is equal to
  a value that is not known. `ConfigStore` has no such values.
* Of two equal texts among the choices of a control, the first one has no way to
  be selected (`element_controls.hh:176`).

## Proofs

All proofs are checked by TLAPS; nothing is assumed but the ASSUMEs of the
modules:

| Assumption | Says |
|---|---|
| `ConstantsAssumption` | special values such as `Void` and `None` are not among the ordinary ones, and choices are values |
| `MonitorAssumption` | finitely many monitor objects, a positive bound |
| `RoonAssumption` | the markers `NoPath`, `Empty` and `Unknown` are no paths, and `Empty` is none of the others; bounds are positive |
| `DcpdAssumption` | bounds are natural numbers |
| `GraphAssumption` | finitely many edges, between elements; an element is static or switching; a mapping is a mux, a demux or a table; markers are no pads |
| `CompoundAssumption` | the root is a device, paths in devices are not empty, connections are between elements of devices, `None` is no element |
| `RankingAssumption` | finitely many sinks, `NULL` is no address, no rank is above `INVALID_RANK` |
| `ControlsAssumption` | the number of 64 bit patterns (`Word`) and the greatest `unsigned int` are natural numbers, and the latter is the smaller one: all the proofs know of the widths |
| `PowersAssumption` | a half of the patterns of an integer type is a positive number, two halves are the patterns, and no type has more than `Word`: facts on powers of two, with which provers cannot compute |
| `DatabaseAssumption` | "all" is no property, definitions have properties and a copy instruction, what a device copies from has a name, the marker of an unconnected pad is no pad; elements and mappings have the shape that JSON gives them (arrays are sequences, pads have numbers, numbers are integers), whether or not they make sense |
| `MappingsAssumption` | the marker of a failed computation is not itself a ratio |
| `ReportsAssumption` | paths are sequences of the elements of the definitions, ranks are natural numbers; controls and settings have the shape of JSON, and controls have passed validation, since models without are rejected (`ModelsAreDefined` proves that of `DeviceModels`) |

Otherwise the sets of devices, IDs, elements, controls, values, sinks, inputs, clients,
facts, paths, addresses and databases may be infinite. Where a theorem needs more, it is a
hypothesis of that theorem: two of `SignalPathTrackerProofs` and three of
`CompoundSignalPathProofs` need that there are no cycles; `FlatteningRunsOut` needs that there
are finitely many names; `SuppressedAreSilent` needs
`SelectorsAreNarrow`, that no range which selects the mapping of another control covers all
values of a 64 bit type (its width would be 0, see above).

**ConfigStoreProofs**

* `TypeCorrect`: `Spec => []TypeOK`. Its lemmas say that entries keep a log
  well-formed (`LoggedType` and others); every operation changes logs through
  `Logged` and `Without`.
* `ConnectionsHaveEnds`: `NoDanglingConnections` is inductive together with
  `TypeOK`, because removal takes away connections in both directions, and both
  ways to make one check that the ends exist.
* `ConsistentStore`: `NoLeftovers`, `TrackerFollowsValues` and
  `OnlySelectorsArePositioned` are inductive only together: a device that gets a
  model must not find a position left by its predecessor (`NoLeftovers`), and the
  removal of a device is harmless for the others because it makes all their values
  unknown *and* all their selectors float. `NothingIsLeft`, `TrackersFollow` and
  `SelectorsArePositioned` are its parts.

* `DeviceLogExact`: the strengthening `DeviceLogInv` adds that the logs are empty
  while no batch is applied and that a batch starts with `base` equal to the store.
  `DeviceChangesReported` follows, since `optimize` keeps what
  was there before and is there again; so does `NothingToReportWhenIdle`.
* `ConnectionLogSound`, `LostConnectionsLogged`, `NewConnectionsReported`: from
  `ConnectionLogInv`, relative to `NoDanglingConnections` and `DeviceLogInv`.
  It adds that the connections of `base` had ends (`BaseHasEnds`), needed where
  the loss of a connection is reported through its device only. The lemmas
  `LoggedAppeared` and `LoggedVanished` say what a batch of new entries does to the
  statements "originally there" and "there now"; each operation only has to name the
  connections that come or go.
* `ChangedValuesReported`: the value log has no exact meaning, since callers name values in
  three ways. `ValueLogCorrect` says what can be relied on. An entry for a full name
  remembers the value of `base` and the present one, or its device is in the device log. An
  entry for a name that lacks a part always tells of a loss, never of nothing, so that
  `optimize` does not drop it. A value that differs from `base` has an entry under one of its
  names, or its device has.

**MonitorManagerProofs**

* `WatchersExact`, `CountsSuffice`, `MonitorTypeCorrect`: `CountInv`, by counting
  with the library's theorems on cardinalities. That the reference count covers
  the clients is what makes the decrement in `UnregisterClient` safe, so that
  counts are natural numbers is proved, not assumed.
* `DeathIsComing`: `DeadClientsAreBeingNoticed` is not inductive, since handling an
  old call of a dead client gives it a watcher again. `VanishedIsLast` says that
  behind *every* message of a dead client in the queue comes the news of its death.

**RoonReportingProofs**

* `ClientsNeverMisled`, `JoinedAreRegistered`, `ReportingTypeCorrect`: what a client believes
  lags behind, so the invariant is about what it *will* believe once it has read its
  inbox. A client has one call under way at a time, which is where the reply to `Get`
  and the signals sent meanwhile meet; for each of its states the invariant says which
  messages can still be in front of it. What clients will believe is tied to
  `previous`, so that a suppressed report is one they know, and `previous` is tied to the
  active path, unless DCPD was lost or a batch changed the path unnoticed. After such a batch
  the invariant says nothing about beliefs until the next signal, which puts all clients right.
* `RegistrationImplemented`: `ImplementsRegistration`, step by step. `DeadRoonClientsAreNoticed`
  is a theorem of `MonitorManager` carried over by it.

**DcpdConnectionProofs**

* `CompleteStoreFollows`, `NothingKnown`, `DcpdTypeCorrect`: the properties speak of an
  empty queue, so `DcpdInv` says what the messages in the queue will make of the
  store. For each fact, the *last* message about it behind the last `Vanished` is right
  about what DCPD knows; if there is none, a complete store is right already;
  a complete store, and any batch, needs a handler that is attached. Each action
  only appends to the queue or takes its head; the lemmas on both say which
  message is the last one then.

**DeviceModelsProofs**

* `FlatDevicesResolved`: `FlattenInv` adds what the recursion keeps to itself.
  Active calls are for different devices which all still have their copies to
  make (`CallsInv`), and a source the call has been at is flat, or is the one the next
  call up the stack is for. So the last source of the topmost call is flat when copying
  begins, no device below it on the stack changes, and no flat device ever
  copies again. That cycles end the program is needed here: `Seen` is what makes the
  devices on the stack different.
* `OnlySoundAreServed`: a reference definition says when a database is sound: no device
  copies from itself, directly or not, and each property that is copied is found. The stack
  is a chain of copies, and a device that is flat copies from flat ones only, so no device of
  a cycle can become flat first (`FlatteningIsSound`). That a missing property is noticed
  is shown with the set of flat devices that lack it.
* `FlatteningRunsOut`: if names are finitely many, each step of `flatten()` ends it, or leaves fewer
  devices to visit, fewer devices with copies to make, or fewer sources for a call to visit, and
  never more of any (`LeavesLess`). With the fairness of `FlattenEnds` on top, flattening ends.
* `ModelsAreDefined`: models on demand are made from flat definitions only, and those pass
  `IsModelDefinition`. What is proved next of any model comes from there.
* `SelectorIndicesAreInvertible`: through the casts to 64 bits, the wrapping subtraction and the
  division of `to_selector_index()`, and back through the multiplication, addition and
  cast of `to_choice_value()`. The lemma `RangeIndexFacts` does it for any word size, for all
  ranges whose width is not 0: a value that is accepted lies a whole number of steps
  above the minimum, the subtraction wraps to that distance, and the sum on the way back
  to the value itself. For a text that value is the number it begins with, which is what
  `ChosenText` says: the text itself need not come back (`SelectorTextsAreExact`). All that it knows of `Word` and `UIntMax` is `ControlsAssumption`.
  The provers have no facts about products and quotients of unknowns, so `Division`,
  `ProductOrder` and `QuotientOrder` supply them.
* `SelectorsAreInRange`: a control that is regular (its width is a multiple of its step)
  has as many choices as there are indices it can be asked for (last part of
  `RangeIndexFacts`), and its mapping has that many.
* `ChoicesSelectPads`: `make_switching_element()` turns the table of texts into a table of
  indices, and the parameters of a mux or demux into inputs or outputs by number. A pad
  listed for a text is in the mapping under the index the *selector* would have with that text, or
  the definition was rejected. Duplicated texts select as their last occurrence does.
* `AcceptedValuesSurvive`: the binary search of `type_code_to_type()` is a recursive function
  without a proof that it is one, so `SearchEndsInTable` shows that such a function exists, and that
  it ends within the table or right behind it (both by `SetInduction` on the number of entries left
  to search). Whatever entry it ends at, a type is returned only if the entry has the code that was
  looked for, and `CodesAgree` compares both tables. A number that passes the check is in the range
  of its type, which lies in the range that the casts leave alone (`AcceptedNumbersSurvive`).
* `DatabaseTypeCorrect`: `TypeOK`; `RecordInv` adds to `FlattenInv` that devices remain records of
  properties and a copy instruction. Since active calls are for different devices, there are as
  many of them as there are devices in `Seen`.

**RoonReportsProofs**

* `ReportsAreExact`: by `ReportInv`, the places in `entries` are the lists of the elements
  visited so far, put together in the order of the path (`IsLayout`), and each place holds
  what its control is to report, or nothing while that setting is still to be visited
  (`PlacesFor`). No control has two places (`LayoutIsPrepared`), so that filling one in disturbs
  no other, which is why the order of the hash table does not matter. That there is a list by
  rank at all is `OrderExists`; of controls with equal ranks it has one (`RankedIsFinite` and
  `RankOrder`), and the property does not speak of the others.
* `SuppressedAreSilent`: each way through the mappings by which a fragment could come about is
  followed; none is left for a control in neutral position, or for one whose selecting setting
  is absent, out of range, or stands for "suppress". Here the text of the setting has to lead to
  the index and back (`SelectorFacts`).
* `ReportsAreNews`: `Expected` is the report the present settings would give for the present
  path. `NewsInv` says that it is the previous report unless something relevant was changed.
  Settings off the path, and those that select nothing on it, leave it as it is
  (`IrrelevantSettings`); when all places are filled in, the report is `Expected`
  (`OutputIsExpected`, with `LayoutIsUnique`).
* `RangesAreMappedInOrder`: the differences `map_value_range_to_range()` computes in the types of
  the ranges are exact if they fit (`DifferenceIsExact`), the fraction over the width of the
  range is ordered by the value that is mapped (`ProductsAreOrdered`, `QuotientsAreOrdered`), and is a
  whole number at both ends (`WholeQuotient`). As for selectors, facts about products of unknowns are
  lemmas. The property is about ranges whose ends are numbers of their types and differ, and whose
  widths fit; a range without width yields 0/0 (see above).
* `ReportTypeCorrect`: `TypeOK`, from `NewsInv` and `OutcomeInv`, and from `PlacesAreDifferent`: no control
  has two places in the list.
* `BestPathReported`, `RankingTypeCorrect`: `RankingInv` says that a rank
  remembered under an address is that of the sink which lives there
  (`RanksAreCurrent`). It holds until the store is cleared, and not
  afterwards, as `BestPathIsReported` shows; addresses of loaded sinks are
  different, and `Load` takes none that is in use. `BestSoFar` is the invariant of the
  loop over the paths.

**SignalPathTrackerProofs**

* `SearchIsOrdered`: each active call follows edges of one output, which its element
  passes on to from the edge by which the call below it arrived; the path vector begins with
  the elements of the calls. What is behind them in the vector is a rest of a branch the
  search has left, and is cut before the next element is appended: so the vector remains
  a chain. `PathIsChain`, `OnlyActivePathsAreReported` and `TypeCorrect` follow.
* `AllActivePathsAreReported`: reports name elements, and several edges may join the same
  two, so `LogInv` gives each report its route: a chain of edges. No two reports have the
  same, none of them is still to do, and a route without a report is: its source is yet
  to be visited, or it leads along the edges followed by the calls to one that still has the
  next edge, or the next output, before it. Each step leaves what is to do as it is, but for
  the one route it reports. Graphs may have cycles.
* `PathsAreEnumerated`: `EnumerationIsExact` knows routes by the sets of their edges and counts
  them. In a graph without cycles (a rank that grows along edges), a route is the only one with
  its edges, and each walk is the set of edges of a route: of the longest chain that begins with the
  walk's one first edge. The counts agree by the library's theorems on bijections.
* `RecursionIsBounded`: in a graph without cycles no chain has an element twice, so that
  `DepthFirst::down` is never active twice for one element.

**CompoundSignalPathProofs**

A route is a sequence of hops, each an active path of a device, joined by connections, from
the root to a sink that is connected to nothing.

* `EnumerationIsOrdered`, `ElementsAreNamed`, `TypeCorrect`: the parts of the path vector that
  belong to the active calls get longer from call to call, so a cut never removes a part
  of a call further down. If a sink is connected twice (`FanOut`), the second branch is
  entered with the first one's device name missing on the stack, and the vector is no longer
  made of the parts of the calls; the theorems say what remains true then.
* `OnlyRoutesAreReported`: each report is the elements along a route (with fan-out: it ends where
  a route does).
* `AllRoutesAreReported`: each route has been reported or is still to do: either a call
  has the route's next path left, or the call is on that path with the route's next
  connection pending. When there are no calls, nothing is to do. Connections may form cycles.
* `RoutesAreEnumerated`, `SinksAreReported`: the properties that TLC checks compare with routes
  enumerated by a recursive function. The proof that this function gives all routes needs
  that there are finitely many devices and that connections form no cycle (a rank that
  grows along connections): routes then have no more hops than there are devices.
* `RecursionIsBounded`: under that hypothesis on connections, `DevicesAreEnteredOnce` holds, the
  statement that fails if there are cycles.

**With TLC only:**

* Liveness: `DeadClientsAreForgotten`, `CallsAreAnswered`, `EnumerationEnds` (of both
  searches), `FlattenEnds`, `LossIsNoticed`, `RestartIsCaughtUpWith`. Liveness under fairness is out
  of the prover's reach. Proved is what termination rests on: `FlatteningRunsOut`, and both theorems
  `RecursionIsBounded`.

Those aside, each safety property of a passing run is stated by a theorem.

The theorems of the library on induction take an operator as parameter, for which no
installed prover can put in a definition. Where a proof is by induction, as for the
recursive functions `Routes` and `FlattenSeq` and the binary search for a type, the statement is
about a set of numbers (`SetInduction`, by the least number outside of the set). The lemmas on sets
of numbers and on selectors stand in each module that needs them.

## Not modelled

* JSON: parsing and serializing, and containers. `ConfigStore` distinguishes
  well-typed and malformed values; what types there are is in `ConfigValues`.
* Parsing of names and pads (`model_parsing_utils.hh`), labels, descriptions, scales.
* `configstore_json.hh` and `Impl::json()`, by which only tests look at the store.
* `dbus.cc` and the `tdbus` library (a submodule); what AuPaD relies on is modelled
  in the environment actions. Path requests by clients: their handlers do nothing
  so far.
* The first connections to the bus at startup and command line options.

## Plan

Written, in this order, the behaviour most central to the system first:
`ConfigStore` with its proofs, `MonitorManager` with its proofs, `RoonReporting` as a
refinement of it, `SignalPathTracker`, `CompoundSignalPath`, `DcpdConnection`,
`RoonRanking`; then what these took for given: `ConfigValues`, `SwitchingControls`,
`ModelDefinitions`, `DeviceModels`, and `RoonMappings` with `RoonReports`.

To extend the model:

1. A composition of `DcpdConnection` and `RoonReporting`, with an abstract
   specification of what a client may rely on from DCPD to its view.
2. A compound search over devices with graphs of their own, so that
   `CompoundSignalPath` refines one search over the union graph.

To prove: safety of the two above. `ImplementsRegistration` gives `RoonReporting` the theorems
of `MonitorManager`; the composition with `DcpdConnection` would connect those of both ends.
