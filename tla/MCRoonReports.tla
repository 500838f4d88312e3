---------------------------- MODULE MCRoonReports ----------------------------
(* Two elements for TLC, one with two controls and one with one; the paths  *)
(* lead through both, or one of them.  Words have 4 bits, unsigned int 3.   *)
EXTENDS RoonReports, TLC

CONSTANTS flag, knob, gain, dsp, amp, nowhere

MCBits == [t \in IntegerTypes |-> IF t \in {"INT64", "UINT64"} THEN 4 ELSE 3]
MCControlsAt == dsp :> {flag, knob} @@ amp :> {gain}
MCPaths == {<<dsp, amp>>, <<amp>>}
MCMethodOf == <<dsp, amp>> :> "speakers" @@ <<amp>> :> "loud"

Choice(choices, neutral) == [type |-> "choice", choices |-> choices, neutral |-> neutral]
OnOff(neutral) == [type |-> "on_off", neutral |-> neutral]
Interval(vt, min, max, step, neutral) ==
  [type |-> "range", vtype |-> vt, min |-> IntNum(min), max |-> IntNum(max),
   step |-> IntNum(step),
   neutral |-> IF neutral = None THEN Void ELSE Value(vt, IntNum(neutral))]

Unmapped == [type |-> "other", vtype |-> Failed, from |-> Failed, to |-> Failed,
             value |-> Failed, select |-> nowhere, table |-> Failed]
Direct(vt) == [Unmapped EXCEPT !.type = "direct", !.vtype = vt]
ToRange(vt, from, to) ==
  [Unmapped EXCEPT !.type = "to_range", !.vtype = vt, !.from = IntNum(from), !.to = IntNum(to)]
Balance == [Unmapped EXCEPT !.type = "balance_slider", !.vtype = "ASCIIZ"]
Const(vt, j) == [Unmapped EXCEPT !.type = "const", !.vtype = vt, !.value = j]
By(select, m, table) == [m EXCEPT !.type = "select", !.select = select, !.table = table]
ByConstants(select, vt, table) ==
  [Unmapped EXCEPT !.type = "const_table", !.vtype = vt, !.select = select, !.table = table]
As(type) == [type |-> type, value |-> Failed]

Object(id) == [kind |-> "object", id |-> id]
Roon(rank, mapping) ==
  [rank |-> rank, template |-> Object("t"), name |-> "gain", mapping |-> mapping]

a == Name("a")
b == Name("b")
T(t) == Value("ASCIIZ", Str(t))
Flag(v) == Value("BOOL", Bool(v))
Int8(n) == Value("INT8", IntNum(n))

Default ==
  [controls |-> flag :> OnOff(Off) @@ knob :> Interval("INT8", -2, 2, 1, 0) @@ gain :> Interval("INT8", -3, 3, 1, 0),
   roon     |-> flag :> [rank |-> 2, template |-> Object("f"), name |-> Failed, mapping |-> Failed]
                @@ knob :> Roon(1, Balance) @@ gain :> Roon(0, ToRange("DOUBLE", -1, 1)),
   order    |-> <<flag, gain, knob>>,
   settings |-> flag :> {Flag(TRUE), Flag(FALSE)} @@ knob :> {Int8(-2), Int8(0), Int8(1)}
                @@ gain :> {Int8(2), Int8(3)}]

(* Tone controls, which are reported while they are switched on. *)
ToneTable == On :> As("direct") @@ Off :> As("suppress")
Tone == [Default EXCEPT !.roon = knob :> Roon(1, By(flag, Direct("DOUBLE"), ToneTable))
                                 @@ gain :> Roon(0, ToRange("INT8", 2, -2)),
                        !.settings[flag] = @ \cup {T(Off)}, !.settings[knob] = {Int8(0), Int8(1)}]

(* Selectors with three choices. *)
Steps == Numeral(-1) :> As("balance_slider") @@ Numeral(0) :> [type |-> "const", value |-> Str(b)]
         @@ Numeral(1) :> As("suppress")
Filters ==
  [Default EXCEPT !.controls[flag] = Interval("INT8", -1, 1, 1, None),
                  !.controls[gain] = Choice(<<a, b, On>>, Empty),
                  !.roon = flag :> Roon(1, Direct("INT8"))
                           @@ knob :> Roon(0, By(flag, [Balance EXCEPT !.vtype = "ASCIIZ"], Steps))
                           @@ gain :> Roon(1, ByConstants(gain, "ASCIIZ", <<Str(a), IntNum(1)>>)),
                  !.settings[flag] = {Int8(-1), Int8(0), Int8(1), T(Numeral(1)), T(Spelled(1, -1)), T(Spelled(0, 1))},
                  !.settings[knob] = {Int8(-2)},
                  !.settings[gain] = {T(a), T(b), T(On)}]

(* Equal ranks, in both orders. *)
Clash(order) == [Default EXCEPT !.roon[flag].rank = 1, !.order = order,
                            !.settings[knob] = {Int8(1)}]

(* Definitions with parts missing, and settings that have no control. *)
Gaps ==
  [Default EXCEPT !.controls = flag :> OnOff(On) @@ gain :> Interval("INT8", -3, 3, 1, None),
                  !.roon = flag :> [rank |-> 0, template |-> Failed, name |-> Failed, mapping |-> Failed]
                           @@ gain :> [Roon(0, Direct(Failed)) EXCEPT !.template.kind = "text"],
                  !.order = <<flag, gain>>]

(* A range of one value, and one that overflows. *)
Odd(c, m) ==
  [Default EXCEPT !.controls[gain] = c, !.roon[gain] = Roon(0, m),
                  !.settings = flag :> {} @@ knob :> {Int8(1)} @@ gain :> {Value(c.vtype, c.min), Value(c.vtype, c.max)}]

OddRanges ==
  [n \in {"INT64", "INT32", "UINT64"} \X {0, 1} \X {"INT8", "INT64"} \X {0, 3} \X {1, 2} |->
     Odd(Interval(n[1], n[2], 3, 1, None), ToRange(n[3], n[4], n[5]))]

MCSetups ==
  <<"default">> :> Default @@ <<"tone">> :> Tone @@ <<"filters">> :> Filters
  @@ <<"clash">> :> Clash(<<flag, knob, gain>>) @@ <<"hsalc">> :> Clash(<<knob, flag, gain>>) @@ <<"gaps">> :> Gaps
  @@ <<"point">> :> Odd(Interval("INT8", 1, 1, 1, None), ToRange("DOUBLE", 0, 1))
  @@ <<"const">> :> Odd(Interval("INT8", 1, 1, 1, None), Const("INT8", IntNum(1)))
  @@ <<"full">> :> Odd(Interval("INT64", -8, 7, 1, None), ToRange("DOUBLE", 0, 1))
  @@ <<"half">> :> Odd(Interval("INT64", -3, 3, 1, None), ToRange("INT64", -4, 3))
  @@ <<"wide">> :> Odd(Interval("INT8", -3, 3, 1, None), ToRange("INT64", -8, 7))
  @@ OddRanges
=============================================================================
