-------------------------- MODULE ModelDefinitions --------------------------
(***************************************************************************)
(* From the definition of a device to its model: what                      *)
(* DeviceModel::mk_model() accepts, and what it makes of it                *)
(* (src/src/device_models.cc, src/src/element.hh).                         *)
(*                                                                         *)
(* A definition is a function on a subset of PropertyNames:                *)
(*   audio_sources       set of [id, parent], parent an ID or None         *)
(*   audio_sinks         set of IDs                                        *)
(*   elements            sequence of [id, controls], controls a function   *)
(*                       from names to controls                            *)
(*   audio_signal_paths  sequence of [io_mapping, connections]: either may *)
(*                       be None; connections in the order of processing   *)
(* An io_mapping is [select, control, mapping, mapping_table]; a table,    *)
(* unless None, maps texts to None (null), Failed (malformed), or an array.  *)
(* Names and pads are parsed already; a pad which does not parse is Failed *)
(* The order in which errors are found makes no difference: each is the    *)
(* same exception to the caller.                                           *)
(***************************************************************************)
EXTENDS SwitchingControls, SignalPathMappings, SequencesExt

CONSTANT None

PropertyNames == {"audio_sources", "audio_sinks", "elements", "audio_signal_paths"}

(***************************************************************************)
(* Elements: if names clash, sources come before sinks, sinks before       *)
(* internal elements, and the first internal element before others.        *)
(***************************************************************************)
SourceIds(def) == {s.id : s \in def.audio_sources}
SinkIds(def) == def.audio_sinks \ SourceIds(def)
InternalIds(def) == {e.id : e \in ElementsOf(def.elements)} \ (SourceIds(def) \cup SinkIds(def))
ElementIds(def) == SourceIds(def) \cup SinkIds(def) \cup InternalIds(def)

ControlsOf(def, id) == SelectInSeq(def.elements, LAMBDA e : e.id = id)

\* Each source has one parent at most, which is another source.
ParentsAreSources(def) ==
  \A s \in def.audio_sources : s.parent # None =>
    /\ s.parent \in SourceIds(def) \ {s.id}
    /\ \A t \in def.audio_sources : t.id = s.id /\ t.parent # None => t = s

ControlsAreDefined(def) ==
  \A e \in ElementsOf(def.elements) :
    \A name \in DOMAIN e.controls : name # "" /\ IsDefinition(e.controls[name])

(***************************************************************************)
(* I/O mappings: get_io_mappings_from_model()                              *)
(***************************************************************************)
Blocks(def) == ElementsOf(def.audio_signal_paths)

IOMappingsAreSwitchable(def) ==
  \A b \in Blocks(def) : b.io_mapping # None =>
    /\ b.connections = None
    /\ b.io_mapping.select \in InternalIds(def)
    /\ b.io_mapping.control \in
         DOMAIN def.elements[ControlsOf(def, b.io_mapping.select)].controls

SwitchingIds(def) ==
  {b.io_mapping.select : b \in {c \in Blocks(def) : c.io_mapping # None}}

\* The first mapping of an element is taken.
IOMappingOf(def, id) ==
  def.audio_signal_paths[SelectInSeq(def.audio_signal_paths,
    LAMBDA b : b.io_mapping # None /\ b.io_mapping.select = id)].io_mapping

SelectorControl(def, id) ==
  def.elements[ControlsOf(def, id)].controls[IOMappingOf(def, id).control]

\* process_mapping_table_for_selector(): inputs and outputs take turns.  An
\* empty name is pad 0.
IsPad(token, kinds) == token.pad \in kinds \cup {"empty"}
IsPairs(array) ==
  /\ Len(array) % 2 = 0
  /\ \A i \in DOMAIN array :
       IF i % 2 = 1 THEN IsPad(array[i], {"in"}) ELSE IsPad(array[i], {"out", "null"})
PairAt(array, i) ==
  <<array[i].nr, IF array[i + 1].pad = "null" THEN Unconnected ELSE array[i + 1].nr>>
PairsIn(array) == {PairAt(array, i) : i \in {j \in DOMAIN array : j % 2 = 1}}
ConnectedPairs(array) == {p \in PairsIn(array) : p[2] # Unconnected}

\* Choices by default select the pad of the same number.
Identity(c) == [i \in 0..NumberOfChoices(c)-1 |-> i]

IndexOfKey(c, key) == SelectorIndex(c, Value("ASCIIZ", Str(key)))

\* A mux has one output.  The number of its inputs is checked against the
\* number of choices.
IsMuxEntry(c, entry) ==
  \/ entry = None
  \/ /\ entry \notin {None, Failed}
     /\ IsPairs(entry)
     /\ \A p \in PairsIn(entry) : p[1] < NumberOfChoices(c) /\ p[2] \in {0, Unconnected}
     /\ \A p, q \in ConnectedPairs(entry) : p = q

MuxInput(entry) ==
  IF entry = None \/ ConnectedPairs(entry) = {} THEN Unconnected
  ELSE (CHOOSE p \in ConnectedPairs(entry) : TRUE)[1]

\* Seeded fault: the inputs of exceptions are looked up the other way round.
MuxMappingInverted(c, table) ==
  [i \in 0..NumberOfChoices(c)-1 |->
     IF \E key \in DOMAIN table : MuxInput(table[key]) = i
     THEN IndexOfKey(c, CHOOSE key \in DOMAIN table : MuxInput(table[key]) = i)
     ELSE i]

\* Keys are visited in their order: of several keys for one index, the last
\* one wins.
KeysOf(c, table, i) == {key \in DOMAIN table : IndexOfKey(c, key) = i}
LastKey(keys) == CHOOSE key \in keys : \A k \in keys \ {key} : PlaceOf(k) < PlaceOf(key)

MuxMapping(c, table) ==
  [i \in 0..NumberOfChoices(c)-1 |->
     IF KeysOf(c, table, i) # {} THEN MuxInput(table[LastKey(KeysOf(c, table, i))]) ELSE i]

\* Exceptions which enlarge the mapping make it differ from the choices.
IsMuxTable(c, table) ==
  \A key \in DOMAIN table :
    /\ IndexOfKey(c, key) \in 0..NumberOfChoices(c)-1
    /\ IsMuxEntry(c, table[key])

\* A table needs an entry for each choice, and no others.
IsFullTable(c, table) ==
  /\ Cardinality(DOMAIN table) = NumberOfChoices(c)
  /\ ListedChoices(c) # Failed
  /\ \A t \in ElementsOf(ListedChoices(c)) :
       /\ t \in DOMAIN table
       /\ table[t] # Failed
       /\ table[t] # None => IsPairs(table[t])

TableMapping(c, table) ==
  [i \in 0..NumberOfChoices(c)-1 |->
     LET entry == table[ListedChoices(c)[i + 1]]
     IN IF entry = None THEN {} ELSE ConnectedPairs(entry)]

\* make_switching_element(); mapping tables of demuxes are ignored.
IsMappingDefinition(c, io) ==
  /\ NumberOfChoices(c) # Failed
  /\ io.mapping_table # Failed
  /\ CASE io.mapping = "mux"   -> io.mapping_table # None => IsMuxTable(c, io.mapping_table)
       [] io.mapping = "demux" -> TRUE
       [] io.mapping = "table" -> /\ io.mapping_table # None
                                  /\ IsFullTable(c, io.mapping_table)
       [] OTHER                -> FALSE

Mapping(c, io) ==
  [kind |-> io.mapping,
   by   |-> CASE io.mapping = "mux" /\ io.mapping_table # None -> MuxMapping(c, io.mapping_table)
              [] io.mapping = "mux" /\ io.mapping_table = None -> Identity(c)
              [] io.mapping = "demux"                          -> Identity(c)
              [] io.mapping = "table"                          -> TableMapping(c, io.mapping_table)]

(***************************************************************************)
(* Connections                                                             *)
(***************************************************************************)
Connections(def) ==
  FoldLeft(LAMBDA all, b : IF b.connections = None THEN all ELSE all \o b.connections,
           <<>>, def.audio_signal_paths)

ConnectionsHaveEnds(def) ==
  \A e \in ElementsOf(Connections(def)) :
    /\ {e.from, e.to} \subseteq ElementIds(def)
    /\ Failed \notin {e.out, e.in}

\* PathElement::connect(): unreasonable pads are ignored, and so is another
\* edge from an output to an element it is connected with.
Edges(def) ==
  LET all == Connections(def)
      kept == {i \in DOMAIN all : all[i].out < UNREASONABLE /\ all[i].in < UNREASONABLE}
      Same(i, j) == <<all[i].from, all[i].out, all[i].to>> = <<all[j].from, all[j].out, all[j].to>>
  IN {all[i] : i \in {j \in kept : \A h \in kept : h < j => ~Same(h, j)}}

Parents(def) == {<<s.id, s.parent>> : s \in {t \in def.audio_sources : t.parent # None}}

MappingsFitEdges(def) ==
  \A id \in SwitchingIds(def) :
    FitsEdges(Mapping(SelectorControl(def, id), IOMappingOf(def, id)),
              Cardinality({e.from : e \in {f \in Edges(def) : f.to = id}}),
              Cardinality({e.out : e \in {f \in Edges(def) : f.from = id}}))

(***************************************************************************)
(* DeviceModel                                                             *)
(***************************************************************************)
IsModelDefinition(def) ==
  /\ PropertyNames \subseteq DOMAIN def
  /\ ParentsAreSources(def)
  /\ ControlsAreDefined(def)
  /\ IOMappingsAreSwitchable(def)
  /\ \A id \in SwitchingIds(def) :
       IsMappingDefinition(SelectorControl(def, id), IOMappingOf(def, id))
  /\ ConnectionsHaveEnds(def)
  /\ MappingsFitEdges(def)

Model(def) ==
  [elements  |-> ElementIds(def),
   sinks     |-> SinkIds(def),
   controls  |-> [id \in InternalIds(def) |-> def.elements[ControlsOf(def, id)].controls],
   selector  |-> [id \in SwitchingIds(def) |-> IOMappingOf(def, id).control],
   mapping   |-> [id \in SwitchingIds(def) |->
                    Mapping(SelectorControl(def, id), IOMappingOf(def, id))],
   edges     |-> Edges(def),
   parents   |-> Parents(def)]

mk_model(def) == IF IsModelDefinition(def) THEN Model(def) ELSE Failed

HasSelector(model, element, control) ==
  element \in DOMAIN model.selector /\ model.selector[element] = control

HasControl(model, element, control) ==
  element \in DOMAIN model.controls /\ control \in DOMAIN model.controls[element]

ToSelectorIndex(model, element, control, value) ==
  IF HasSelector(model, element, control)
  THEN SelectorOf(model.controls[element][control], value)
  ELSE UIntMax

\* SwitchingElement::is_selector_in_range()
InRange(model, element, index) ==
  index # UIntMax /\ index < Cardinality(ChoicesOf(model.mapping[element]))
=============================================================================
