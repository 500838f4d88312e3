------------------------------ MODULE RoonReports ------------------------------
(***************************************************************************)
(* What a report to Roon consists of, and when it is sent: the report for  *)
(* the path that was chosen (RoonRanking) is put together from the current *)
(* values of the controls along that path (src/src/report_roon.cc,         *)
(* compute_sorted_result() and full_report()).                             *)
(*                                                                         *)
(* A place in the report is prepared for each control along the path, by   *)
(* position of its element and by rank; the places are then filled in from *)
(* the store, the settings of an element coming in any order.  The program *)
(* has one thread: the store does not change in the meantime.              *)
(***************************************************************************)
EXTENDS RoonMappings, SequencesExt

CONSTANTS
  Setups,      \* name -> devices: [controls, roon, order, settings]
  ControlsAt,  \* element -> controls it may have a setting of
  Paths,       \* paths, as sequences of elements
  MethodOf,    \* path -> output method of its sink
  NoReport     \* null, the report before there is one

ValidMethods ==
  {"aes", "alsa", "analog", "analog_digital", "asio", "digital", "headphones", "i2s",
   "other", "speakers", "usb"}

AllControls == UNION {ControlsAt[e] : e \in DOMAIN ControlsAt}

\* A setup has control definitions, their "roon" parts, the order in which the
\* controls of a model are visited, and the values settings may have.
ASSUME ReportsAssumption ==
  /\ \A e, f \in DOMAIN ControlsAt : e # f => ControlsAt[e] \cap ControlsAt[f] = {}
  /\ Paths \subseteq Seq(DOMAIN ControlsAt)
  /\ \A p \in Paths : \A i, j \in DOMAIN p : p[i] = p[j] => i = j
  /\ \A s \in ElementsOf(Setups) :
                       /\ DOMAIN s.controls \subseteq AllControls
                       /\ DOMAIN s.roon \subseteq DOMAIN s.controls
                       /\ \A x \in DOMAIN s.roon : s.roon[x].rank \in Nat
                       /\ s.order \in Seq(DOMAIN s.controls)
                       /\ ElementsOf(s.order) = DOMAIN s.controls
                       /\ DOMAIN s.settings = AllControls
                       /\ \A x \in DOMAIN s.controls : IsControl(s.controls[x]) /\ IsDefinition(s.controls[x])
                       /\ \A x \in AllControls : \A v \in s.settings[x] : IsValue(v)

VARIABLES
  setup,     \* name of the devices
  values,    \* the store: control -> value, or None
  path,      \* Cache::path_, empty without a path
  phase,     \* idle, preparing, or filling
  position,  \* elements of the path that were prepared
  entries,   \* Cache::reported_fragments_, with the names of the controls
  unfilled,  \* settings along the path that are still to be visited
  previous,  \* previous_roon_report_
  relevant,  \* history: a setting that matters to the path was changed
  outcome    \* history: of the last report: none, due, or undue

store == <<setup, values>>
cache == <<path, position, entries, unfilled>>
vars == <<store, cache, phase, previous, relevant, outcome>>

Setup == Setups[setup]

IndexIn(s, x) == CHOOSE i \in DOMAIN s : s[i] = x

(***************************************************************************)
(* The store                                                               *)
(***************************************************************************)
\* Settings that matter to a path: those of its controls, and of the controls
\* which select how these are mapped.
OnPath(p) == UNION {ControlsAt[e] : e \in ElementsOf(p)}
Selectors(x) ==
  IF Setup.controls[x].type = "on_off" \/ Setup.roon[x].mapping = Failed THEN {}
  ELSE {Setup.roon[x].mapping.select}
Matters(x, p) ==
  \E y \in OnPath(p) \cap DOMAIN Setup.roon : x = y \/ x \in Selectors(y)

Set(x, v) ==
  /\ phase = "idle"
  /\ v # values[x]
  /\ values' = [values EXCEPT ![x] = v]
  /\ relevant' = (relevant \/ Matters(x, path))
  /\ UNCHANGED <<setup, cache, phase, previous, outcome>>

(***************************************************************************)
(* Reports                                                                 *)
(***************************************************************************)
\* full_report() starts with an empty cache, and a path is chosen.  The path
\* of the last report is remembered until then, to tell what matters.
BeginReport(p) ==
  /\ phase = "idle"
  /\ path' = p
  /\ phase' = "preparing"
  /\ position' = 0
  /\ entries' = <<>>
  /\ relevant' = (relevant \/ p # path)
  /\ UNCHANGED <<store, unfilled, previous, outcome>>

RankOf(x) == Setup.roon[x].rank

\* add_empty_ranked_entry(): of controls with equal ranks, the first one stays.
Ranked(e) ==
  {x \in ControlsAt[e] \cap DOMAIN Setup.roon :
     \A y \in (ControlsAt[e] \cap DOMAIN Setup.roon) \ {x} :
       RankOf(y) = RankOf(x) => IndexIn(Setup.order, x) < IndexIn(Setup.order, y)}

\* Seeded fault: controls are not sorted by rank.
InOrderOfModel(controls) ==
  SetToSortSeq(controls, LAMBDA x, y : IndexIn(Setup.order, x) < IndexIn(Setup.order, y))

\* A std::map from ranks to controls is visited by growing rank.
InOrderOfRank(controls) ==
  CHOOSE s \in [1..Cardinality(controls) -> controls] :
    \A i, j \in DOMAIN s : i < j => RankOf(s[i]) < RankOf(s[j])

\* collect_ranked_controls() and append_fragment() for one element.
PrepareElement ==
  /\ phase = "preparing"
  /\ position < Len(path)
  /\ LET ranked == InOrderOfRank(Ranked(path[position + 1]))
     IN entries' = entries \o [i \in DOMAIN ranked |-> [control |-> ranked[i], fragment |-> Null]]
  /\ position' = position + 1
  /\ UNCHANGED <<store, path, phase, unfilled, previous, relevant, outcome>>

BeginFilling ==
  /\ phase = "preparing"
  /\ position = Len(path)
  /\ phase' = "filling"
  /\ unfilled' = {x \in OnPath(path) : values[x] # None}
  /\ UNCHANGED <<store, path, position, entries, previous, relevant, outcome>>

\* update_fragment() finds the place by name.
Filled(x, fragment) ==
  [i \in DOMAIN entries |->
     IF entries[i].control = x THEN [entries[i] EXCEPT !.fragment = fragment] ELSE entries[i]]

\* fill_cache_with_values_from_device_context(): settings of one element after
\* the other.  Settings without a control, or without a place, are ignored.
Fill(x) ==
  /\ phase = "filling"
  /\ x \in unfilled
  /\ \E i \in DOMAIN path : /\ x \in ControlsAt[path[i]]
                            /\ \A j \in 1..i-1 : ControlsAt[path[j]] \cap unfilled = {}
  /\ unfilled' = unfilled \ {x}
  /\ entries' = IF x \in DOMAIN Setup.roon
                THEN Filled(x, Fragment(Setup.controls[x], Setup.roon[x], values[x],
                                        Setup.controls, values))
                ELSE entries
  /\ UNCHANGED <<store, path, phase, position, previous, relevant, outcome>>

CheckedMethod(method) == IF method \in ValidMethods THEN method ELSE "other"

\* collect_fragments(), generate_report_from_cache(): the fragments there are,
\* and the output at their end.
FragmentsOf(places) ==
  LET shown == SelectSeq(places, LAMBDA e : e.fragment # Null)
  IN [i \in DOMAIN shown |-> shown[i].fragment]

ReportOf(places) ==
  IF path = <<>> THEN NoReport
  ELSE [fragments |-> FragmentsOf(places), method |-> CheckedMethod(MethodOf[path])]

Output == ReportOf(entries)

EmptyReport == [fragments |-> <<>>, method |-> None]

SameReport(r, s) ==
  IF NoReport \in {r, s} THEN r = s
  ELSE /\ r.method = s.method
       /\ Len(r.fragments) = Len(s.fragments)
       /\ \A i \in DOMAIN r.fragments : SameFragment(r.fragments[i], s.fragments[i])

\* Seeded fault: the report is remembered, but not compared with.
SendAlways ==
  /\ phase = "filling"
  /\ unfilled = {}
  /\ phase' = "idle"
  /\ previous' = IF Output = NoReport THEN EmptyReport ELSE Output
  /\ outcome' = IF relevant THEN "due" ELSE "undue"
  /\ relevant' = FALSE
  /\ position' = 0
  /\ entries' = <<>>
  /\ UNCHANGED <<store, path, unfilled>>

\* The end of full_report(): null is remembered as an empty report.
EndReport ==
  /\ phase = "filling"
  /\ unfilled = {}
  /\ phase' = "idle"
  /\ IF SameReport(Output, previous)
     THEN previous' = previous /\ outcome' = "none"
     ELSE /\ previous' = IF Output = NoReport THEN EmptyReport ELSE Output
          /\ outcome' = IF relevant THEN "due" ELSE "undue"
  /\ relevant' = FALSE
  /\ position' = 0
  /\ entries' = <<>>
  /\ UNCHANGED <<store, path, unfilled>>

Init ==
  /\ setup \in DOMAIN Setups
  /\ values = [x \in AllControls |-> None]
  /\ path = <<>>
  /\ phase = "idle"
  /\ position = 0
  /\ entries = <<>>
  /\ unfilled = {}
  /\ previous = NoReport
  /\ relevant = FALSE
  /\ outcome = "none"

Report ==
  \/ PrepareElement
  \/ BeginFilling
  \/ \E x \in AllControls : Fill(x)
  \/ EndReport

Next ==
  \/ \E x \in AllControls : \E v \in Setup.settings[x] \cup {None} : Set(x, v)
  \/ \E p \in Paths \cup {<<>>} : BeginReport(p)
  \/ Report

Spec == Init /\ [][Next]_vars
-----------------------------------------------------------------------------
(***************************************************************************)
(* Properties                                                              *)
(***************************************************************************)
\* Settings keep their values; places are prepared for controls along the
\* path, each once.
TypeOK ==
  /\ setup \in DOMAIN Setups
  /\ \A x \in AllControls : values[x] \in Setup.settings[x] \cup {None}
  /\ path \in Paths \cup {<<>>}
  /\ phase \in {"idle", "preparing", "filling"}
  /\ position \in 0..Len(path)
  /\ {e.control : e \in ElementsOf(entries)} \subseteq OnPath(path) \cap DOMAIN Setup.roon
  /\ Cardinality({e.control : e \in ElementsOf(entries)}) = Len(entries)
  /\ unfilled \subseteq OnPath(path)
  /\ relevant \in BOOLEAN /\ outcome \in {"none", "due", "undue"}

Computed == phase = "filling" /\ unfilled = {}
PositionOf(x) == CHOOSE i \in DOMAIN path : x \in ControlsAt[path[i]]
IsShadowed(x) ==
  \E y \in ControlsAt[path[PositionOf(x)]] \cap DOMAIN Setup.roon :
    y # x /\ RankOf(y) = RankOf(x)

\* The fragments of a report belong to the controls along the path, in the
\* order of the path, and by rank within an element; a control has the
\* fragment its current value asks for, whatever the order the settings come
\* in, unless another control of its element has the same rank
\* (compute_sorted_result()).
ReportIsExact ==
  Computed =>
    /\ \A i, j \in DOMAIN entries : i < j =>
         LET x == entries[i].control
             y == entries[j].control
         IN \/ PositionOf(x) < PositionOf(y)
            \/ PositionOf(x) = PositionOf(y) /\ RankOf(x) < RankOf(y)
    /\ \A x \in OnPath(path) \cap DOMAIN Setup.roon : ~IsShadowed(x) =>
         [control |-> x,
          fragment |-> IF values[x] = None THEN Null
                       ELSE Fragment(Setup.controls[x], Setup.roon[x], values[x],
                                     Setup.controls, values)] \in ElementsOf(entries)

\* The setting a mapping depends on asks for a choice that is not "suppress".
HasChosen(m) ==
  /\ m.select \in DOMAIN Setup.controls /\ values[m.select] # None
  /\ LET chosen == ChosenText(Setup.controls[m.select], values[m.select])
     IN chosen \in DOMAIN m.table /\ m.table[chosen].type # "suppress"

\* A control the mapping of which depends on another one is only reported
\* while that one has a value, and has not selected "suppress"; neither are
\* controls in neutral position (test_configstore_roon.cc, "Roon report is
\* sent if a switching option makes otherwise suppressed information
\* visible").
SuppressedControlsAreSilent ==
  Computed => \A e \in ElementsOf(entries) :
    LET c == Setup.controls[e.control]
        m == Setup.roon[e.control].mapping
    IN e.fragment # Null =>
         /\ ~IsNeutral(c, values[e.control])
         /\ (c.type # "on_off" /\ m.type = "select") => HasChosen(m)

\* Clients are only bothered if the path is another one, or if a setting that
\* matters to it was changed since the last report (full_report()), except
\* that 0/0 differs from itself, and that an empty report is sent again.
IsNumeric(report) ==
  \A i \in DOMAIN report.fragments :
    "value" \in DOMAIN report.fragments[i] => report.fragments[i].value # NaN

OnlyChangesAreReported ==
  outcome = "undue" => previous = EmptyReport \/ ~IsNumeric(previous)

\* A value within the range of its control is mapped to a number within the
\* target range, the ends to the ends, and the order of values is kept, or
\* reversed for a falling range (map_value_to_range()).  A range of one value
\* has no such number; the ends have to be numbers of their types, and the
\* types wide enough for the widths.
NumberOf(j) == IF j.kind = "fraction" THEN <<j.num, j.den>> ELSE <<j.num, 1>>
LessOrEqual(p, q) == p[1] * q[2] <= q[1] * p[2]

IsWideEnough(vt, width) == vt \in {"INT32", "INT64"} => width \in RangeOf(vt)
IsEnd(j, vt) ==
  /\ vt \in IntegerTypes \cup {"DOUBLE"} /\ IsNumber(j)
  /\ j.num \in IF vt = "DOUBLE" THEN Int ELSE RangeOf(vt)

KeepsOrder(c, m) ==
  LET min == c.min.num
      max == c.max.num
      mapped == [n \in min..max |-> MapToRange(c, Value(c.vtype, IntNum(n)), m)]
      Ordered(i, j) == LessOrEqual(NumberOf(mapped[i]), NumberOf(mapped[j]))
  IN /\ Null \notin {mapped[n] : n \in min..max}
     /\ mapped[min] = RealNum(m.from.num) /\ mapped[max] = RealNum(m.to.num)
     /\ \A i, j \in min..max : i <= j =>
          IF m.from.num <= m.to.num THEN Ordered(i, j) ELSE Ordered(j, i)

AreRanges(c, m) ==
  /\ IsEnd(c.min, c.vtype) /\ IsEnd(c.max, c.vtype) /\ c.min.num < c.max.num
  /\ m.from # Failed /\ m.to # Failed /\ IsEnd(m.from, m.vtype) /\ IsEnd(m.to, m.vtype)
  /\ IsWideEnough(c.vtype, c.max.num - c.min.num)
  /\ IsWideEnough(m.vtype, IF m.from.num <= m.to.num THEN m.to.num - m.from.num
                                                     ELSE m.from.num - m.to.num)

MappedValuesKeepTheirOrder ==
  \A x \in DOMAIN Setup.roon :
    LET c == Setup.controls[x]
        m == Setup.roon[x].mapping
    IN c.type = "range" /\ m # Failed =>
         (m.type = "to_range" /\ AreRanges(c, m) => KeepsOrder(c, m))

(***************************************************************************)
(* A statement the code does not live up to                                *)
(***************************************************************************)
\* full_report() returns false if there is nothing new to tell.
NothingIsSentTwice == outcome # "undue"
=============================================================================
