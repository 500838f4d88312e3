--------------------------- MODULE MCDeviceModels ---------------------------
(* Databases for TLC: three devices which copy from each other in any way,  *)
(* and single devices whose switch has one of several controls and mappings.*)
(* Words have 4 bits, unsigned int 3.                                       *)
EXTENDS DeviceModels, TLC

CONSTANTS d1, d2, d3, nobody

MCBits == [t \in IntegerTypes |-> IF t \in {"INT64", "UINT64"} THEN 4 ELSE 3]

Source(id) == [id |-> id, parent |-> None]
Block(io, conns) == [io_mapping |-> io, connections |-> conns]
E(from, out, to, in) == [from |-> from, out |-> out, to |-> to, in |-> in]

(* Copies *)
Plain ==
  [audio_sources |-> {Source("i"), [id |-> "j", parent |-> "i"]}, audio_sinks |-> {"o"},
   elements |-> <<>>, audio_signal_paths |-> <<Block(None, <<E("i", 0, "o", 0)>>)>>]

OwnProps ==
  [d \in {d1, d2, d3} |->
     CASE d = d1 -> Plain
       [] d = d2 -> [audio_sources |-> {Source("k")}, audio_sinks |-> {}]
       [] d = d3 -> [audio_sources |-> {}]]

MCNames == {d1, d2, d3, nobody}
Copies ==
  {None, All :> d1 @@ [audio_sinks |-> d1]}
  \cup {All :> s : s \in MCNames}
  \cup {[elements |-> s] : s \in {d1, d2, d3}}
  \cup {[audio_sources |-> s, audio_sinks |-> t] : s \in {d1, d3}, t \in {d1, d2}}

CopyingDatabases ==
  {[d \in {d1, d2, d3} |-> [props |-> OwnProps[d], copy |-> copies[d]]] :
     copies \in [{d1, d2, d3} -> Copies]}

(* Controls *)
a == Name("a")
b == Name("b")
Choice(choices, neutral) == [type |-> "choice", choices |-> choices, neutral |-> neutral]
RangeControl(vt, min, max, step, neutral) ==
  [type |-> "range", vtype |-> vt, min |-> IntNum(min), max |-> IntNum(max),
   step |-> IntNum(step),
   neutral |-> IF neutral = None THEN Void ELSE Value(vt, IntNum(neutral))]

ChoiceControls == {Choice(<<a, b>>, b), Choice(<<a, b, a>>, Empty), Choice(<<a>>, Empty)}
OnOffControls == {[type |-> "on_off", neutral |-> On], [type |-> "on_off", neutral |-> a]}
RangeControls ==
  {RangeControl("INT8", lo, hi, step, None) : lo \in {-4, -1, 0}, hi \in {0, 1, 3}, step \in {0, 1, 2}}
  \cup {RangeControl("INT64", -8, 7, 1, None), RangeControl("INT64", 0, 7, 2, 1), RangeControl("UINT64", 0, 9, 1, None),
        RangeControl("INT64", -8, 2, 5, 4), RangeControl("DOUBLE", 0, 1, 1, None)}

(* Mappings of the control *)
In(n) == [pad |-> "in", nr |-> n]
Out(n) == [pad |-> "out", nr |-> n]
NoOut == [pad |-> "null", nr |-> 0]

Entries ==
  {None, Failed, <<In(0), Out(0)>>, <<In(1), Out(0)>>, <<In(1), NoOut>>, <<In(0), Out(1)>>,
   <<In(0), Out(0), In(1), Out(0)>>, <<In(0)>>, <<[pad |-> "bad", nr |-> 0], Out(0)>>}
TablesOver(keys) == UNION {[k -> Entries] : k \in SUBSET keys}

SpelledTables ==
  UNION {[k -> {None, <<In(0), Out(0)>>}] :
           k \in {{Numeral(1), Spelled(1, 1)}, {Spelled(1, -1), Spelled(1, -2)}, {Spelled(0, 1)}}}

IO(mapping, table) ==
  [select |-> "x", control |-> "sel", mapping |-> mapping, mapping_table |-> table]

MCConnections ==
  {<<E("i", 0, "x", 0), E("j", 0, "x", 1), E("x", 0, "o", 0)>>,
   <<E("i", 0, "x", 0), E("x", 0, "o", 0), E("x", 0, "p", 0), E("x", 1, "p", 0)>>}
OddConnections ==
  {<<E("i", 0, "x", 0), E("i", 0, "x", 1), E("j", 0, "x", 50), E("x", 0, "o", 0)>>,
   <<E("i", 0, "y", 0)>>, <<E("i", Failed, "x", 0)>>}

SwitchDevice(c, io, conns, parent) ==
  d1 :> [copy |-> None,
         props |-> [audio_sources |-> {Source("i"), [id |-> "j", parent |-> parent]},
                    audio_sinks |-> {"o", "p", "i"},
                    elements |-> <<[id |-> "x", controls |-> [sel |-> c]],
                                   [id |-> "x", controls |-> <<>>]>>,
                    audio_signal_paths |-> <<Block(io, None), Block(None, conns)>>]]

SwitchingDatabases ==
  {SwitchDevice(c, IO(m, t), conns, None) :
     c \in ChoiceControls \cup OnOffControls, m \in {"mux", "table"},
     t \in {None, Failed} \cup TablesOver({a, b}), conns \in MCConnections}
  \cup {SwitchDevice(c, IO(m, t), conns, None) :
          c \in RangeControls, m \in {"mux", "demux"},
          t \in {None} \cup TablesOver({Numeral(1)}) \cup SpelledTables, conns \in MCConnections}
  \cup {SwitchDevice(CHOOSE c \in ChoiceControls : c.neutral = b, IO(m, None), conns, parent) :
          m \in {"mux", "demux", "other"}, conns \in OddConnections \cup MCConnections,
          parent \in {None, "i", "j", "o"}}

MCDatabases == CopyingDatabases \cup SwitchingDatabases

MCProbes ==
  {Value("ASCIIZ", Str(t)) : t \in {a, b, On, Off} \cup {Numeral(n) : n \in -9..8} \cup {Spelled(n, 1) : n \in -9..8}}
  \cup {Value("BOOL", Bool(x)) : x \in BOOLEAN}
  \cup {Value("INT8", IntNum(n)) : n \in -4..3}
  \cup {Value("INT64", IntNum(n)) : n \in -8..7}
  \cup {Value("UINT64", IntNum(n)) : n \in 0..15}
=============================================================================
