-------------------------- MODULE SwitchingControls --------------------------
(***************************************************************************)
(* The controls of an element (src/src/element_controls.hh): choices,      *)
(* ranges, and on/off controls; their neutral settings, and the selector   *)
(* index of a value.                                                       *)
(*                                                                         *)
(*   [type |-> "choice", choices |-> texts, neutral |-> text or Empty]     *)
(*   [type |-> "range", vtype |-> type, min |-> number, max |-> number,    *)
(*    step |-> number, neutral |-> value or Void]                          *)
(*   [type |-> "on_off", neutral |-> text]                                 *)
(*                                                                         *)
(* Labels and descriptions are left out.  Arithmetic on int64_t wraps: the *)
(* overflows of max - min + 1 and of -min have no other outcome on the     *)
(* machines this program is built for.                                     *)
(***************************************************************************)
EXTENDS ConfigValues, FiniteSets

CONSTANT UIntMax  \* greatest unsigned int

\* Powers are natural numbers: provers do not know.
ASSUME ControlsAssumption == Word \in Nat /\ UIntMax \in Nat /\ UIntMax < Word

Empty == Name("")
On == Name("on")
Off == Name("off")

ElementsOf(s) == {s[i] : i \in DOMAIN s}

\* hash_choices(): of several equal choices, the last one wins.
LastIndex(s, t) == (CHOOSE i \in DOMAIN s :
                      s[i] = t /\ \A j \in DOMAIN s : s[j] = t => j <= i) - 1

(***************************************************************************)
(* Ranges as selectors: struct SelectorSupport                             *)
(***************************************************************************)
StepOf(c) == ToUInt64(c.step.num)
Width(c) == ToUInt64(ToInt64(c.max.num) - ToInt64(c.min.num) + 1)

\* Seeded fault: the number of steps instead of the number of values.
RangeChoicesBetween(c) ==
  IF Width(c) > StepOf(c) THEN (Width(c) - 1) \div StepOf(c) ELSE 1

RangeChoices(c) == IF Width(c) > StepOf(c) THEN Width(c) \div StepOf(c) ELSE 1

IsSelectorRange(c) ==
  /\ c.vtype \in IntegerTypes
  /\ StepOf(c) # 0
  /\ RangeChoices(c) <= UIntMax

\* Seeded fault: values between two steps are rounded down.
RangeIndexRounded(c, n) ==
  IF ToInt64(c.min.num) <= n /\ n <= ToInt64(c.max.num)
  THEN (ToUInt64(n - ToInt64(c.min.num)) \div StepOf(c)) % (UIntMax + 1)
  ELSE Failed

RangeIndex(c, n) ==
  LET offset == ToUInt64(n - ToInt64(c.min.num))
  IN IF /\ ToInt64(c.min.num) <= n /\ n <= ToInt64(c.max.num)
        /\ offset % StepOf(c) = 0
     THEN (offset \div StepOf(c)) % (UIntMax + 1)
     ELSE Failed

\* to_choice_value()
RangeValue(c, i) ==
  LET n == ToInt64(ToInt64(c.min.num) + i * StepOf(c))
  IN IF n > ToInt64(c.max.num) THEN Failed ELSE n

(***************************************************************************)
(* All controls                                                            *)
(***************************************************************************)
ValueTypeOf(c) ==
  CASE c.type = "choice" -> "ASCIIZ"
    [] c.type = "range"  -> c.vtype
    [] c.type = "on_off" -> "BOOL"

\* The constructors throw if a definition makes no sense.
IsChoiceDefinition(c) ==
  /\ Len(c.choices) >= 2
  /\ Empty \notin ElementsOf(c.choices)
  /\ c.neutral # Empty => c.neutral \in ElementsOf(c.choices)

IsRangeDefinition(c) ==
  /\ c.vtype \in NumericTypes
  /\ \A j \in {c.min, c.max, c.step} : TypeCheck(j, c.vtype)
  /\ ~JsonLess(c.max, c.min)
  /\ c.neutral # Void => /\ TypeCheck(c.neutral.json, c.vtype)
                         /\ ~JsonLess(c.neutral.json, c.min)
                         /\ ~JsonLess(c.max, c.neutral.json)

IsOnOffDefinition(c) == c.neutral \in {On, Off}

IsDefinition(c) ==
  CASE c.type = "choice" -> IsChoiceDefinition(c)
    [] c.type = "range"  -> IsRangeDefinition(c)
    [] c.type = "on_off" -> IsOnOffDefinition(c)
    [] OTHER             -> FALSE

IsNeutral(c, v) ==
  CASE c.type = "choice" -> c.neutral # Empty /\ v = Value("ASCIIZ", Str(c.neutral))
    [] c.type = "range"  -> c.neutral # Void /\ SameValue(v, c.neutral)
    [] c.type = "on_off" -> v = Value("BOOL", Bool(c.neutral = On))

NumberOfChoices(c) ==
  CASE c.type = "choice" -> Len(c.choices)
    [] c.type = "range"  -> IF IsSelectorRange(c) THEN RangeChoices(c) ELSE Failed
    [] c.type = "on_off" -> 2

\* for_each_choice(); on a range it throws when it is through.
ListedChoices(c) ==
  CASE c.type = "choice" -> c.choices
    [] c.type = "range"  -> Failed
    [] c.type = "on_off" -> <<Off, On>>

ChoiceIndex(c, v) ==
  IF v.type = "ASCIIZ" /\ v.json.text \in ElementsOf(c.choices)
  THEN LastIndex(c.choices, v.json.text)
  ELSE Failed

OnOffIndex(v) ==
  CASE v = Value("BOOL", Bool(TRUE))  \/ v = Value("ASCIIZ", Str(On))  -> 1
    [] v = Value("BOOL", Bool(FALSE)) \/ v = Value("ASCIIZ", Str(Off)) -> 0
    [] OTHER -> Failed

\* std::stoll() reads the number a text begins with, leaves the rest unread,
\* and throws if there is none, or one that needs more bits.
TextIndex(c, t) ==
  IF HasNumber(t) /\ NumberIn(t) \in RangeOf("INT64") THEN RangeIndex(c, NumberIn(t)) ELSE Failed

NumberIndex(c, v) ==
  CASE ~IsSelectorRange(c)     -> UIntMax
    [] IsSelectorRange(c) /\ v.type \in IntegerTypes -> RangeIndex(c, ToInt64(v.json.num))
    [] IsSelectorRange(c) /\ v.type = "ASCIIZ"       -> TextIndex(c, v.json.text)
    [] OTHER                   -> Failed

\* to_selector_index() of a control
SelectorIndex(c, v) ==
  CASE c.type = "choice" -> ChoiceIndex(c, v)
    [] c.type = "range"  -> NumberIndex(c, v)
    [] c.type = "on_off" -> OnOffIndex(v)

\* index_to_choice_string()
ChoiceText(c, i) ==
  CASE c.type = "choice" -> IF i < Len(c.choices) THEN c.choices[i + 1] ELSE Failed
    [] c.type = "range"  -> IF IsSelectorRange(c) /\ RangeValue(c, i) # Failed
                            THEN Numeral(RangeValue(c, i)) ELSE Failed
    [] c.type = "on_off" -> IF i < 2 THEN <<Off, On>>[i + 1] ELSE Failed

\* The text of a value, as models list it as a choice.
TextOf(v) ==
  CASE v.type = "ASCIIZ"         -> v.json.text
    [] v.type \in IntegerTypes   -> Numeral(ToInt64(v.json.num))
    [] v.type = "BOOL"           -> IF v.json.bool THEN On ELSE Off

\* The text of the choice a value asks for: on a range, that of the number a
\* text begins with.
ChosenText(c, v) ==
  IF c.type = "range" /\ v.type = "ASCIIZ" /\ HasNumber(v.json.text)
  THEN Numeral(NumberIn(v.json.text))
  ELSE TextOf(v)

\* What JSON has in these places: texts, numbers.
IsText(t) == HasNumber(t) => NumberIn(t) \in Int
IsControl(c) ==
  /\ c.type = "choice" => c.choices \in Seq(ElementsOf(c.choices))
  /\ c.type = "range" => \A j \in {c.min, c.max, c.step} : IsNumber(j) => j.num \in Int
IsValue(v) ==
  /\ v.type = "ASCIIZ" => IsText(v.json.text)
  /\ v.type \in IntegerTypes => v.json.num \in Int

(***************************************************************************)
(* What a device model makes of them: DeviceModel::to_selector_index()     *)
(* turns exceptions into the invalid selector, which is UIntMax, too.      *)
(***************************************************************************)
SelectorOf(c, v) == IF SelectorIndex(c, v) = Failed THEN UIntMax ELSE SelectorIndex(c, v)
=============================================================================
