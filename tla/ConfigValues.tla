---------------------------- MODULE ConfigValues ----------------------------
(***************************************************************************)
(* Values of controls: JSON primitives with a type                         *)
(* (src/src/configvalue.hh and the top of src/src/configstore.cc).         *)
(*                                                                         *)
(* Integers keep their width.  The JSON library stores an integer that is  *)
(* not negative as unsigned, all others as signed, in INT64 bits each; it  *)
(* converts by plain casts.  Numbers with a fraction are whole numbers     *)
(* here, only their kind matters.  Text is a name, the numeral of an       *)
(* integer, or another text that begins with a number as std::stoll()      *)
(* reads it: " 1", "01" and "1abc" are all taken for 1.                    *)
(***************************************************************************)
EXTENDS Integers, Sequences

CONSTANTS
  Bits,           \* integer type -> number of bits
  FixPointRange,  \* numbers FixPoint::is_in_range() accepts
  Failed          \* result of a call that throws

SignedTypes == {"INT8", "INT16", "INT32", "INT64"}
UnsignedTypes == {"UINT8", "UINT16", "UINT32", "UINT64"}
IntegerTypes == SignedTypes \cup UnsignedTypes
NumericTypes == IntegerTypes \cup {"DOUBLE", "FIXPT"}
ValueTypes == NumericTypes \cup {"VOID", "ASCIIZ", "BOOL"}

ASSUME ValuesAssumption ==
  /\ Bits \in [IntegerTypes -> Nat \ {0}]
  /\ \A t \in SignedTypes : Bits[t] <= Bits["INT64"]
  /\ \A t \in UnsignedTypes : Bits[t] <= Bits["UINT64"]
  /\ Bits["INT64"] = Bits["UINT64"]
  /\ FixPointRange \subseteq Int
  /\ Failed \notin Int

(***************************************************************************)
(* JSON primitives                                                         *)
(***************************************************************************)
Null == [kind |-> "null"]
Bool(b) == [kind |-> "bool", bool |-> b]
IntNum(n) == [kind |-> "int", num |-> n]
RealNum(n) == [kind |-> "real", num |-> n]
Str(t) == [kind |-> "text", text |-> t]

Name(x) == <<"name", x>>
Numeral(n) == <<"numeral", n>>

\* Of the other texts read as n, the one at place k in the order of strings,
\* counted from the numeral: "01" is before "1", and "1abc" behind it.
Spelled(n, k) == <<"spelled", n, k>>

\* Does it begin with a number?
HasNumber(t) == t[1] \in {"numeral", "spelled"}
NumberIn(t) == t[2]

\* The order of texts read as the same number.
PlaceOf(t) == IF t[1] = "spelled" THEN t[3] ELSE 0

Word == 2 ^ Bits["INT64"]

\* Powers of two, of which provers know nothing.
ASSUME PowersAssumption ==
  \A t \in IntegerTypes :
    /\ 2 ^ (Bits[t] - 1) \in Nat \ {0}
    /\ 2 ^ Bits[t] = 2 * 2 ^ (Bits[t] - 1)
    /\ 2 ^ Bits[t] <= Word

ToUInt64(n) == n % Word
ToInt64(n) == IF n % Word >= Word \div 2 THEN (n % Word) - Word ELSE n % Word

IsNumber(j) == j.kind \in {"int", "real"}
IsUnsigned(j) == j.kind = "int" /\ j.num >= 0

\* operator== of the library: a signed and an unsigned integer are equal if
\* they have the same bits.
JsonEqual(a, b) ==
  IF IsNumber(a) /\ IsNumber(b)
  THEN IF a.kind = "int" /\ b.kind = "int" THEN ToInt64(a.num) = ToInt64(b.num)
                                           ELSE a.num = b.num
  ELSE a = b

\* operator< for numbers.
JsonLess(a, b) ==
  IF a.kind = "int" /\ b.kind = "int" /\ IsUnsigned(a) # IsUnsigned(b)
  THEN ToInt64(a.num) < ToInt64(b.num)
  ELSE a.num < b.num

(***************************************************************************)
(* Types                                                                   *)
(***************************************************************************)
RangeOf(vt) ==
  IF vt \in SignedTypes THEN -(2 ^ (Bits[vt] - 1)) .. 2 ^ (Bits[vt] - 1) - 1
                        ELSE 0 .. 2 ^ Bits[vt] - 1

\* Seeded fault: negative numbers are only rejected by the range check.
TypeCheckWrapped(j, vt) ==
  CASE vt = "VOID"              -> j = Null
    [] vt = "ASCIIZ"            -> j.kind = "text"
    [] vt = "BOOL"              -> j.kind = "bool"
    [] vt \in SignedTypes       -> j.kind = "int" /\ ToInt64(j.num) \in RangeOf(vt)
    [] vt \in UnsignedTypes     -> j.kind = "int" /\ ToUInt64(j.num) \in RangeOf(vt)
    [] vt = "DOUBLE"            -> IsNumber(j)
    [] vt = "FIXPT"             -> IsNumber(j) /\ j.num \in FixPointRange

\* Integers are range checked after a cast to the widest type.
TypeCheck(j, vt) ==
  CASE vt = "VOID"              -> j = Null
    [] vt = "ASCIIZ"            -> j.kind = "text"
    [] vt = "BOOL"              -> j.kind = "bool"
    [] vt \in SignedTypes       -> j.kind = "int" /\ ToInt64(j.num) \in RangeOf(vt)
    [] vt \in UnsignedTypes     -> IsUnsigned(j) /\ j.num \in RangeOf(vt)
    [] vt = "DOUBLE"            -> IsNumber(j)
    [] vt = "FIXPT"             -> IsNumber(j) /\ j.num \in FixPointRange

Value(vt, j) == [type |-> vt, json |-> j]
Void == Value("VOID", Null)

SameValue(v, w) == v.type = w.type /\ JsonEqual(v.json, w.json)
LessValue(v, w) == v.type = w.type /\ JsonLess(v.json, w.json)

\* Value::get_as(); the kinds the library does not convert make it throw.
GetAs(v, vt) ==
  CASE vt = "VOID"                    -> Null
    [] vt = "ASCIIZ"                  -> IF v.json.kind = "text" THEN v.json ELSE Failed
    [] vt = "BOOL"                    -> IF v.json.kind = "bool" THEN v.json ELSE Failed
    [] ~(vt \in {"VOID", "ASCIIZ", "BOOL"} \/ IsNumber(v.json)) -> Failed
    [] vt \in SignedTypes             -> IntNum(ToInt64(v.json.num))
    [] vt \in UnsignedTypes           -> IntNum(ToUInt64(v.json.num))
    [] OTHER                          -> RealNum(v.json.num)

(***************************************************************************)
(* Type codes, by their ASCII codes                                        *)
(***************************************************************************)
TYPE_CODE_TO_VALUE_TYPE ==
  << <<64, "VOID">>, <<68, "FIXPT">>, <<89, "INT8">>, <<98, "BOOL">>, <<100, "DOUBLE">>,
     <<105, "INT32">>, <<110, "INT16">>, <<113, "UINT16">>, <<115, "ASCIIZ">>,
     <<116, "UINT64">>, <<117, "UINT32">>, <<120, "INT64">>, <<121, "UINT8">> >>

\* type_to_type_code(), a table in the order of ValueType.
TypeCode(vt) ==
  LET order == <<"VOID", "ASCIIZ", "BOOL", "INT8", "UINT8", "INT16", "UINT16",
                 "INT32", "UINT32", "INT64", "UINT64", "DOUBLE", "FIXPT">>
      codes == <<64, 115, 98, 89, 121, 110, 113, 105, 117, 120, 116, 100, 68>>
  IN codes[CHOOSE i \in 1..13 : order[i] = vt]

\* std::lower_bound(), then the entry found must have the code.
TypeOfCode(code) ==
  LET table == TYPE_CODE_TO_VALUE_TYPE
      find[n \in 0..13] ==  \* first entry at or after the code, n entries left
        [from \in 1..14 |->
           IF n = 0 THEN from
           ELSE LET half == n \div 2
                IN IF table[from + half][1] < code
                   THEN find[n - half - 1][from + half + 1]
                   ELSE find[half][from]]
      at == find[13][1]
  IN IF at <= 13 /\ table[at][1] = code THEN table[at][2] ELSE Failed
=============================================================================
