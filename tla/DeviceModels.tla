---------------------------- MODULE DeviceModels ----------------------------
(***************************************************************************)
(* The database of device models from startup on: flattening               *)
(* (src/src/device_models.cc), and the models the store asks for           *)
(* (src/src/configstore.cc, get_device_model()).                           *)
(*                                                                         *)
(* A device may copy single properties, or all, from other devices, which  *)
(* may do the same.  flatten() resolves this in place, device by device,   *)
(* by recursion: an entry of frames is an active call of flatten_device(). *)
(* The set "seen" of that call is the set of devices in frames.  JSON      *)
(* objects are visited in the order of their keys; names are arbitrary, so *)
(* that any order is possible here.                                        *)
(*                                                                         *)
(* An exception leaves flatten() and main(): the program ends.             *)
(***************************************************************************)
EXTENDS ModelDefinitions

CONSTANTS
  Names,      \* names of devices, in the database or not
  Databases,  \* databases at startup: device -> [props, copy]
  All,        \* the key "all"
  Probes      \* values the properties of models are tried with

\* What JSON has in these places: arrays, and pads with numbers.
IsArray(s) == s \in Seq(ElementsOf(s))
IsTable(table) ==
  \/ table \in {None, Failed}
  \/ \A key \in DOMAIN table :
       \/ table[key] \in {None, Failed}
       \/ \A i \in DOMAIN table[key] : table[key][i].nr \in Nat
HasShape(props) ==
  /\ "audio_signal_paths" \in DOMAIN props =>
       /\ IsArray(props.audio_signal_paths)
       /\ \A b \in ElementsOf(props.audio_signal_paths) :
            b.io_mapping # None => IsTable(b.io_mapping.mapping_table)
  /\ "elements" \in DOMAIN props =>
       /\ IsArray(props.elements)
       /\ \A e \in ElementsOf(props.elements) :
            \A name \in DOMAIN e.controls : IsControl(e.controls[name])

ASSUME DatabaseAssumption ==
  /\ All \notin PropertyNames
  /\ \A db \in Databases :
       /\ DOMAIN db \subseteq Names
       /\ \A d \in DOMAIN db :
            /\ DOMAIN db[d] = {"props", "copy"}
            /\ DOMAIN db[d].props \subseteq PropertyNames
            /\ HasShape(db[d].props)
            /\ db[d].copy # None =>
                 /\ DOMAIN db[d].copy \subseteq PropertyNames \cup {All}
                 /\ \A key \in DOMAIN db[d].copy : db[d].copy[key] \in Names
  /\ \A v \in Probes : IsValue(v)
  /\ Unconnected \notin Nat

VARIABLES
  original,  \* history: the database as read from file
  devices,   \* config_data_["all_devices"]; copy is "copy_properties" or None
  phase,     \* flattening, ready, or terminated
  todo,      \* devices flatten() has not come to yet
  frames,    \* active calls of flatten_device()
  models     \* models_, None for no entry, Failed for the null pointer

vars == <<original, devices, phase, todo, frames, models>>

HasCopies(d) == devices[d].copy # None
CopiesAll(d) == All \in DOMAIN devices[d].copy
SourcesIn(copy) == {copy[key] : key \in DOMAIN copy}
Seen == {frames[i].device : i \in DOMAIN frames}
Top == frames[Len(frames)]
Below == SubSeq(frames, 1, Len(frames) - 1)

Init ==
  /\ original \in Databases
  /\ devices = original
  /\ phase = "flattening"
  /\ todo = DOMAIN original
  /\ frames = <<>>
  /\ models = [d \in Names |-> None]

Terminate ==
  /\ phase' = "terminated"
  /\ UNCHANGED <<original, devices, todo, frames, models>>

\* flatten_device() starts: "all" goes with nothing else.
CallFlatten(d, below) ==
  IF CopiesAll(d) /\ DOMAIN devices[d].copy # {All}
  THEN Terminate
  ELSE /\ frames' = Append(below, [device |-> d, pending |-> SourcesIn(devices[d].copy)])
       /\ UNCHANGED <<original, devices, phase, models>>

\* The loop of flatten(), outside of any call.
VisitDevice(d) ==
  /\ phase = "flattening" /\ frames = <<>>
  /\ d \in todo
  /\ IF HasCopies(d) THEN CallFlatten(d, <<>>)
                     ELSE UNCHANGED <<original, devices, phase, frames, models>>
  /\ todo' = IF phase' = "terminated" THEN todo ELSE todo \ {d}

\* Seeded fault: cycles which do not start with the device itself are not
\* errors, their devices are done already.
VisitSourceNearby(d) ==
  LET rest == Append(Below, [Top EXCEPT !.pending = @ \ {d}])
  IN /\ phase = "flattening" /\ frames # <<>>
     /\ d \in Top.pending
     /\ IF d = Top.device \/ d \notin DOMAIN devices THEN Terminate
        ELSE IF d \notin Seen /\ HasCopies(d) THEN CallFlatten(d, rest)
        ELSE frames' = rest /\ UNCHANGED <<original, devices, phase, models>>
     /\ UNCHANGED todo

\* Seeded fault: a cycle is started over.
VisitSourceAgain(d) ==
  LET rest == Append(Below, [Top EXCEPT !.pending = @ \ {d}])
  IN /\ phase = "flattening" /\ frames # <<>>
     /\ d \in Top.pending
     /\ IF d \notin DOMAIN devices THEN Terminate
        ELSE IF d \in Seen
             THEN CallFlatten(d, SubSeq(frames, 1, SelectInSeq(frames, LAMBDA f : f.device = d) - 1))
        ELSE IF HasCopies(d) THEN CallFlatten(d, rest)
        ELSE frames' = rest /\ UNCHANGED <<original, devices, phase, models>>
     /\ UNCHANGED todo

\* flatten_device_recursively(): cycles and unknown devices are errors.
VisitCopySource(d) ==
  LET rest == Append(Below, [Top EXCEPT !.pending = @ \ {d}])
  IN /\ phase = "flattening" /\ frames # <<>>
     /\ d \in Top.pending
     /\ IF d \in Seen \/ d \notin DOMAIN devices THEN Terminate
        ELSE IF HasCopies(d) THEN CallFlatten(d, rest)
        ELSE frames' = rest /\ UNCHANGED <<original, devices, phase, models>>
     /\ UNCHANGED todo

\* JSON members of new replace those of old with the same key.
Merge(new, old) ==
  [key \in DOMAIN new \cup DOMAIN old |-> IF key \in DOMAIN new THEN new[key] ELSE old[key]]

\* Seeded fault: properties of the device itself are kept.
CopiedBehind(props, copy) ==
  IF All \in DOMAIN copy
  THEN Merge(props, devices[copy[All]].props)
  ELSE Merge(props, [key \in DOMAIN copy |-> devices[copy[key]].props[key]])

\* Copied properties replace those of the device.
CopiedOver(props, copy) ==
  IF All \in DOMAIN copy
  THEN Merge(devices[copy[All]].props, props)
  ELSE Merge([key \in DOMAIN copy |-> devices[copy[key]].props[key]], props)

\* All sources are flat: the end of flatten_device().  A single property
\* has to be there.
CopyProperties ==
  LET d == Top.device
      copy == devices[d].copy
  IN /\ phase = "flattening" /\ frames # <<>>
     /\ Top.pending = {}
     /\ IF /\ ~CopiesAll(d)
           /\ \E key \in DOMAIN copy : key \notin DOMAIN devices[copy[key]].props
        THEN Terminate
        ELSE /\ devices' = [devices EXCEPT ![d] = [props |-> CopiedOver(@.props, copy),
                                                   copy  |-> None]]
             /\ frames' = Below
             /\ UNCHANGED <<original, phase, todo, models>>

EndFlatten ==
  /\ phase = "flattening" /\ frames = <<>> /\ todo = {}
  /\ phase' = "ready"
  /\ UNCHANGED <<original, devices, todo, frames, models>>

\* get_device_model(): a name without definition is remembered, a model that
\* cannot be made is not.
GetDeviceModel(d) ==
  /\ phase = "ready"
  /\ models[d] = None
  /\ models' = [models EXCEPT ![d] =
                  IF d \notin DOMAIN devices THEN Failed
                  ELSE IF IsModelDefinition(devices[d].props) THEN Model(devices[d].props)
                  ELSE None]
  /\ UNCHANGED <<original, devices, phase, todo, frames>>

\* The store is cleared.
Clear ==
  /\ phase = "ready"
  /\ models' = [d \in Names |-> None]
  /\ UNCHANGED <<original, devices, phase, todo, frames>>

Flatten ==
  \/ \E d \in Names : VisitDevice(d)
  \/ \E d \in Names : VisitCopySource(d)
  \/ CopyProperties
  \/ EndFlatten

Next ==
  \/ Flatten
  \/ \E d \in Names : GetDeviceModel(d)
  \/ Clear

Spec == Init /\ [][Next]_vars
FairSpec == Spec /\ WF_vars(Flatten)
-----------------------------------------------------------------------------
(***************************************************************************)
(* Properties                                                              *)
(***************************************************************************)
\* Devices keep their shape; the stack holds each device once.
TypeOK ==
  /\ original \in Databases
  /\ phase \in {"flattening", "ready", "terminated"}
  /\ todo \subseteq DOMAIN original
  /\ DOMAIN devices = DOMAIN original
  /\ \A d \in DOMAIN devices :
       /\ DOMAIN devices[d] = {"props", "copy"}
       /\ DOMAIN devices[d].props \subseteq PropertyNames
       /\ devices[d].copy \in {None, original[d].copy}
  /\ frames \in Seq([device: DOMAIN original, pending: SUBSET Names])
  /\ Cardinality(Seen) = Len(frames)
  /\ DOMAIN models = Names

\* A device which is flat has the properties its definition asks for, taken
\* from sources which are flat themselves (flatten_device()): nobody copies
\* from a device whose own copies are still to come.
Copied(copy) ==
  IF All \in DOMAIN copy THEN DOMAIN devices[copy[All]].props ELSE DOMAIN copy
CopiedFrom(copy, key) == IF All \in DOMAIN copy THEN copy[All] ELSE copy[key]

FlatDevicesAreResolved ==
  \A d \in DOMAIN devices :
    LET copy == original[d].copy
        props == devices[d].props
    IN IF HasCopies(d) \/ copy = None
       THEN devices[d] = original[d]
       ELSE /\ SourcesIn(copy) \subseteq DOMAIN devices
            /\ \A s \in SourcesIn(copy) : ~HasCopies(s)
            /\ DOMAIN props = DOMAIN original[d].props \cup Copied(copy)
            /\ \A key \in DOMAIN props :
                 props[key] = IF key \in Copied(copy)
                              THEN devices[CopiedFrom(copy, key)].props[key]
                              ELSE original[d].props[key]

\* What is wrong with a database, from the definitions alone.
Copiers(db) == {d \in DOMAIN db : db[d].copy # None}
IsCyclic(db) ==
  \E S \in (SUBSET Copiers(db)) \ {{}} : \A d \in S : SourcesIn(db[d].copy) \cap S # {}
LacksDevices(db) == \E d \in Copiers(db) : ~(SourcesIn(db[d].copy) \subseteq DOMAIN db)
MixesAll(db) == \E d \in Copiers(db) : All \in DOMAIN db[d].copy /\ DOMAIN db[d].copy # {All}
CopiedKeys(db, d) == IF d \in Copiers(db) THEN DOMAIN db[d].copy \ {All} ELSE {}
Has(db, d, key) ==
  \A S \in SUBSET DOMAIN db :
    (/\ d \in S
     /\ \A x \in S \cap Copiers(db) : All \in DOMAIN db[x].copy => db[x].copy[All] \in S)
    => \E x \in S : key \in DOMAIN db[x].props \cup CopiedKeys(db, x)
LacksProperties(db) ==
  \E d \in Copiers(db) : \E key \in CopiedKeys(db, d) : ~Has(db, db[d].copy[key], key)
IsSound(db) ==
  /\ ~IsCyclic(db) /\ ~LacksDevices(db) /\ ~MixesAll(db)
  /\ ~LacksProperties(db)

\* Whether the program survives flatten() depends on the database, not on the
\* order in which it visits devices and properties.
OnlySoundDatabasesAreServed ==
  /\ phase = "ready" => IsSound(original)
  /\ phase = "terminated" => ~IsSound(original)

\* The recursion of flatten_device() comes to an end, for cycles, too.
FlattenEnds == <>(phase # "flattening")

IsModel(d) == models[d] \notin {None, Failed}
SelectorControlOf(d, x) == models[d].controls[x][models[d].selector[x]]

\* A range the choices of which are numbered correctly: the steps fit in, and
\* its width does not overflow.
IsRegular(c) ==
  c.type = "range" => /\ Width(c) # 0
                      /\ ~(ToInt64(c.max.num) < ToInt64(c.min.num))
                      /\ Width(c) % StepOf(c) = 0

\* Each value the selector of an element has an index for selects one of the
\* choices of the mapping (SwitchingElement::is_selector_in_range()), so that
\* the tracker does not stay with the previous selection.
SelectorsFitMappings ==
  \A d \in Names : IsModel(d) =>
    \A x \in DOMAIN models[d].selector : IsRegular(SelectorControlOf(d, x)) =>
      \A v \in Probes :
        LET index == ToSelectorIndex(models[d], x, models[d].selector[x], v)
        IN index # UIntMax => InRange(models[d], x, index)

\* The pads a model definition lists for a choice are those that are connected
\* while the selector has that value, and there are no others that an edge
\* could come in at or go out from: the way from the text over its index to
\* the mapping, as it is taken by report and tracker.  A mux passes the input
\* of the same number if nothing is listed.
ListedPads(io, c, t) ==
  CASE io.mapping_table # None /\ t \in DOMAIN io.mapping_table ->
         IF io.mapping_table[t] = None THEN {} ELSE ConnectedPairs(io.mapping_table[t])
    [] OTHER -> {<<LastIndex(c.choices, t), 0>>}

InputsOf(d, x) == {e.in : e \in {f \in models[d].edges : f.to = x}}
OutputsOf(d, x) == {e.out : e \in {f \in models[d].edges : f.from = x}}

ChoicesSelectTheirPads ==
  \A d \in Names : IsModel(d) =>
    \A x \in DOMAIN models[d].mapping :
      LET c == SelectorControlOf(d, x)
          m == models[d].mapping[x]
          io == IOMappingOf(devices[d].props, x)
          index(t) == SelectorIndex(c, Value("ASCIIZ", Str(t)))
      IN c.type = "choice" /\ m.kind # "demux" =>
           \A t \in ElementsOf(c.choices) :
             /\ \A p \in ListedPads(io, c, t) : IsConnected(m, index(t), p[1], p[2])
             /\ \A in \in InputsOf(d, x), out \in OutputsOf(d, x) :
                  IsConnected(m, index(t), in, out) => <<in, out>> \in ListedPads(io, c, t)

\* The text of an index is the text of the choice asked for by the value it was
\* made from (to_selector_index(), index_to_choice_string()): mapping tables,
\* which are looked up by text, agree with selectors, which are set by index.
\* On a range, the text of a value may be any that begins with the number of
\* the choice, and it is not the one that is looked up.
SelectorIndexIsInvertible ==
  \A d \in Names : IsModel(d) =>
    \A x \in DOMAIN models[d].selector : IsRegular(SelectorControlOf(d, x)) =>
      \A v \in Probes :
        LET c == SelectorControlOf(d, x)
        IN SelectorOf(c, v) # UIntMax => ChoiceText(c, SelectorIndex(c, v)) = ChosenText(c, v)

\* A number that comes under a type code and passes the check for that type
\* (type_code_to_type(), type_check()) is read back as the same number and
\* goes under the same code (type_to_type_code(), get_as()), except for one
\* that needs all bits of the widest unsigned type.
ValuesSurviveTransport ==
  phase = "ready" => \A code \in 0..127 : TypeOfCode(code) # Failed =>
    LET vt == TypeOfCode(code)
    IN /\ TypeCode(vt) = code
       /\ vt \in IntegerTypes =>
            \A n \in -(Word \div 2) .. Word - 1 :
              TypeCheck(IntNum(n), vt) /\ (vt \in SignedTypes => n < Word \div 2) =>
                n \in RangeOf(vt) /\ GetAs(Value(vt, IntNum(n)), vt) = IntNum(n)

(***************************************************************************)
(* Statements the code does not live up to                                 *)
(***************************************************************************)
\* The texts "01" and "1abc" select the choice "1" of a range.
SelectorTextsAreExact ==
  \A d \in Names : IsModel(d) =>
    \A x \in DOMAIN models[d].selector : IsRegular(SelectorControlOf(d, x)) =>
      \A v \in Probes :
        LET c == SelectorControlOf(d, x)
        IN SelectorOf(c, v) # UIntMax => ChoiceText(c, SelectorIndex(c, v)) = TextOf(v)

\* The number of choices of a range whose width is no multiple of its step is
\* too small: its greatest values are valid, but selectors for them are not.
AllSelectorsFitMappings ==
  \A d \in Names : IsModel(d) =>
    \A x \in DOMAIN models[d].selector : \A v \in Probes :
      LET index == ToSelectorIndex(models[d], x, models[d].selector[x], v)
      IN index # UIntMax => InRange(models[d], x, index)
=============================================================================
