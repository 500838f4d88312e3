----------------------------- MODULE RoonMappings -----------------------------
(***************************************************************************)
(* From the value of a control to what Roon is told about it               *)
(* (src/src/report_roon.cc, from process_flag_entry() to                   *)
(* patch_entry_for_name()).                                                *)
(*                                                                         *)
(* The "roon" part of the definition of a control is                       *)
(*   [rank, template, name, mapping]                                       *)
(* where template is [kind, id], and template, name, and mapping may be    *)
(* Failed (missing, or malformed).  A mapping is                           *)
(*   [type, vtype, from, to, value, select, table]                         *)
(* with Failed for what is missing or malformed; the table of "select"     *)
(* maps texts to [type, value], the one of "const_table" is a sequence.    *)
(*                                                                         *)
(* Exceptions are caught and leave null in the report, as does everything  *)
(* that is ignored: both are Null here.                                    *)
(***************************************************************************)
EXTENDS SwitchingControls

CONSTANT None  \* a setting without value

(***************************************************************************)
(* Numbers of type double: whole numbers, fractions, and 0/0               *)
(***************************************************************************)
NaN == [kind |-> "nan"]

Fraction(n, d) ==
  IF n % d = 0 THEN RealNum(n \div d) ELSE [kind |-> "fraction", num |-> n, den |-> d]

Quotient(n, d) ==
  CASE d = 0 -> NaN
    [] d > 0 -> Fraction(n, d)
    [] d < 0 -> Fraction(-n, -d)

\* get_range_checked()
RangeChecked(j, vt) ==
  CASE ~IsNumber(j)           -> Failed
    [] IsNumber(j) /\ vt = "DOUBLE" -> j.num
    [] IsNumber(j) /\ vt \in SignedTypes ->
         IF ToInt64(j.num) \in RangeOf(vt) THEN ToInt64(j.num) ELSE Failed
    [] OTHER -> IF ToUInt64(j.num) \in RangeOf(vt) THEN ToUInt64(j.num) ELSE Failed

\* Subtraction in the type of the operands, or in int for the small ones,
\* which are small enough.  The wide signed types overflow; they wrap on the
\* machines this program is built for.
Difference(vt, a, b) ==
  LET span == 2 ^ Bits[vt]
      wrapped == (a - b) % span
  IN IF vt \notin {"INT32", "INT64"} THEN a - b
     ELSE IF wrapped >= span \div 2 THEN wrapped - span ELSE wrapped

(***************************************************************************)
(* Mapping a range to another                                              *)
(***************************************************************************)
ASSUME MappingsAssumption == Failed \notin [offset: Int, width: Int]

\* compute_value_ratio(); the ratio is offset/width.
ValueRatio(c, v) ==
  LET n == RangeChecked(v.json, c.vtype)
      min == RangeChecked(c.min, c.vtype)
      max == RangeChecked(c.max, c.vtype)
  IN IF c.vtype = "FIXPT" \/ Failed \in {n, min, max} THEN Failed
     ELSE IF min <= n /\ n <= max
          THEN [offset |-> Difference(c.vtype, n, min), width |-> Difference(c.vtype, max, min)]
          ELSE Failed

IsProperRatio(r) ==
  IF r.width >= 0 THEN 0 <= r.offset /\ r.offset <= r.width
                  ELSE r.width <= r.offset /\ r.offset <= 0

\* Seeded fault: falling ranges are mapped as if they were rising.
RangePickRising(r, vt, from, to) ==
  IF from <= to
  THEN Quotient(from * r.width + r.offset * Difference(vt, to, from), r.width)
  ELSE Quotient(to * r.width + r.offset * Difference(vt, from, to), r.width)

\* range_pick()
RangePick(r, vt, from, to) ==
  IF from <= to
  THEN Quotient(from * r.width + r.offset * Difference(vt, to, from), r.width)
  ELSE Quotient(to * r.width + (r.width - r.offset) * Difference(vt, from, to), r.width)

MapToRange(c, v, m) ==
  IF \/ c.type # "range" \/ Failed \in {m.from, m.to}
     \/ m.vtype \notin IntegerTypes \cup {"DOUBLE"}
  THEN Null
  ELSE LET r == ValueRatio(c, v)
           from == RangeChecked(m.from, m.vtype)
           to == RangeChecked(m.to, m.vtype)
       IN IF r = Failed \/ from = Failed \/ to = Failed THEN Null
          ELSE IF IsProperRatio(r) THEN RangePick(r, m.vtype, from, to) ELSE Null

(***************************************************************************)
(* The other mappings                                                      *)
(***************************************************************************)
\* map_value_as_balance_slider(): steps to the left, or to the right.
MapAsBalance(v, m) ==
  IF v.type \notin IntegerTypes \/ m.vtype # "ASCIIZ" \/ ~IsNumber(v.json) THEN Null
  ELSE LET n == ToInt64(v.json.num)
       IN CASE n < 0 -> Str(<<"L", ToInt64(-n)>>)
            [] n > 0 -> Str(<<"R", n>>)
            [] n = 0 -> Null

MapDirectly(v, m) ==
  IF m.vtype = Failed \/ GetAs(v, m.vtype) = Failed THEN Null ELSE GetAs(v, m.vtype)

\* map_value_constant()
Constant(j, m) ==
  IF j = Failed \/ m.vtype = Failed THEN Null ELSE IF TypeCheck(j, m.vtype) THEN j ELSE Null

\* map_value_primitive()
MapPrimitive(c, v, m, type) ==
  CASE type = "direct"          -> MapDirectly(v, m)
    [] type = "to_range"        -> MapToRange(c, v, m)
    [] type = "balance_slider"  -> MapAsBalance(v, m)
    [] OTHER                    -> Null

\* Seeded fault: without a value, the first choice is assumed.
SelectedIndexOrFirst(m, controls, values) ==
  IF m.select \in DOMAIN controls
  THEN IF values[m.select] = None THEN 0 ELSE SelectorOf(controls[m.select], values[m.select])
  ELSE UIntMax

\* The index of the current value of the control that selects from a table.
SelectedIndex(m, controls, values) ==
  IF m.select \in DOMAIN controls /\ values[m.select] # None
  THEN SelectorOf(controls[m.select], values[m.select])
  ELSE UIntMax

\* map_value_via_select_table(): an entry takes its parameters from the
\* mapping it is part of, except for constants.
MapBySelection(c, v, m, text) ==
  IF m.table = Failed \/ text = Failed THEN Null
  ELSE IF text \notin DOMAIN m.table THEN Null
  ELSE IF m.table[text].type = "const" THEN Constant(m.table[text].value, m)
  ELSE MapPrimitive(c, v, m, m.table[text].type)

\* map_value_via_const_table()
TableConstant(m, index) ==
  IF m.table = Failed THEN Null
  ELSE IF index < Len(m.table) THEN Constant(m.table[index + 1], m) ELSE Null

\* map_through_mapping_table()
MapByTable(c, v, m, controls, values) ==
  LET index == SelectedIndex(m, controls, values)
  IN CASE index = UIntMax -> Null
       [] index # UIntMax /\ m.type = "select" ->
            MapBySelection(c, v, m, ChoiceText(controls[m.select], index))
       [] index # UIntMax /\ m.type = "const_table" -> TableConstant(m, index)

\* map_value()
MapValue(c, v, m, controls, values) ==
  CASE m.type \in {"select", "const_table"} -> MapByTable(c, v, m, controls, values)
    [] m.type = "const"                     -> Constant(m.value, m)
    [] OTHER                                -> MapPrimitive(c, v, m, m.type)

(***************************************************************************)
(* Fragments of reports: a template with a value, if it is no flag         *)
(***************************************************************************)
\* process_flag_entry()
FlagFragment(c, r, v) ==
  IF JsonEqual(v.json, Bool(c.neutral = On)) \/ r.template = Failed THEN Null
  ELSE [template |-> r.template]

\* process_value_entry()
ValueFragment(c, r, v, controls, values) ==
  IF r.template = Failed \/ r.name = Failed \/ r.mapping = Failed THEN Null
  ELSE IF IsNeutral(c, v) \/ r.template.kind # "object" THEN Null
  ELSE LET mapped == MapValue(c, v, r.mapping, controls, values)
       IN IF mapped = Null THEN Null
          ELSE [template |-> r.template, name |-> r.name, value |-> mapped]

\* process_entry(), patch_entry_for_name()
Fragment(c, r, v, controls, values) ==
  IF c.type = "on_off" THEN FlagFragment(c, r, v)
                       ELSE ValueFragment(c, r, v, controls, values)

\* JSON objects are equal if their values are; 0/0 differs from itself.
SameFragment(f, g) ==
  /\ DOMAIN f = DOMAIN g
  /\ f.template = g.template
  /\ "value" \in DOMAIN f => /\ f.name = g.name
                             /\ f.value # NaN
                             /\ JsonEqual(f.value, g.value)
=============================================================================
