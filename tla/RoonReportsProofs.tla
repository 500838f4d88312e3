--------------------------- MODULE RoonReportsProofs ---------------------------
(***************************************************************************)
(* Proofs about reports to Roon: their contents (RoonReports), and the     *)
(* choice of the path they are about (RoonRanking).                        *)
(***************************************************************************)
EXTENDS RoonReports, RoonRanking, FiniteSetTheorems, SequenceTheorems, TLAPS

(***************************************************************************)
(* Induction is over sets of numbers.                                      *)
(***************************************************************************)
LEMMA NatIsWellFounded ==
  \E R : IsWellFoundedOn(R, Nat) /\ \A x, y \in Nat : x < y => <<x, y>> \in R
<1> DEFINE R == {ss \in Nat \X Nat : ss[1] < ss[2]}
<1>1. IsWellFoundedOn(R, Nat)
  BY NatLessThanWellFounded, Zenon DEF OpToRel
<1>2. \A x, y \in Nat : x < y => <<x, y>> \in R
  OBVIOUS
<1> QED BY <1>1, <1>2

LEMMA LeastInRelation ==
  ASSUME NEW R, NEW T, IsWellFoundedOn(R, Nat), T \subseteq Nat, T # {}
  PROVE  \E x \in T : \A y \in T : ~(<<y, x>> \in R)
BY WFMin, Zenon

LEMMA LeastNumber ==
  ASSUME NEW T \in SUBSET Nat, T # {}
  PROVE  \E x \in T : \A y \in T : x <= y
<1>1. PICK R : IsWellFoundedOn(R, Nat) /\ \A x, y \in Nat : x < y => <<x, y>> \in R
  BY NatIsWellFounded
<1>2. PICK x \in T : \A y \in T : ~(<<y, x>> \in R)
  BY ONLY <1>1, T \in SUBSET Nat, T # {}, LeastInRelation
<1>3. \A y \in T : ~(y < x)
  BY <1>1, <1>2, Zenon
<1>4. \A y \in T : x <= y
  BY ONLY <1>3, T \in SUBSET Nat, x \in T
<1> QED BY <1>4

LEMMA SetInduction ==
  ASSUME NEW S \in SUBSET Nat, 0 \in S, \A n \in S : n + 1 \in S
  PROVE  \A n \in Nat : n \in S
<1> SUFFICES ASSUME Nat \ S # {} PROVE FALSE
  OBVIOUS
<1>1. PICK x \in Nat \ S : \A y \in Nat \ S : x <= y
  BY LeastNumber
<1>2. x # 0 /\ x - 1 \in Nat /\ (x - 1) + 1 = x /\ ~(x <= x - 1)
  BY <1>1
<1>3. x - 1 \in S
  BY <1>1, <1>2
<1> QED BY <1>1, <1>2, <1>3

(***************************************************************************)
(* Quotients and casts.                                                    *)
(***************************************************************************)
LEMMA Division ==
  ASSUME NEW a \in Int, NEW b \in Nat \ {0}
  PROVE  \E q \in Int, r \in 0..b - 1 : q = a \div b /\ r = a % b /\ a = b * q + r
<1>1. a \div b \in Int /\ a % b \in 0..b - 1
  OBVIOUS
<1>2. a % b = a - b * (a \div b)
  BY Z3T(30)
<1>3. PICK q, r : q = a \div b /\ r = a % b
  OBVIOUS
<1>4. q \in Int /\ r \in 0..b - 1 /\ b * q \in Int /\ r = a - b * q
  BY <1>1, <1>2, <1>3
<1>5. a = b * q + r
  BY ONLY <1>4, a \in Int, b \in Nat
<1> QED BY <1>3, <1>4, <1>5, Zenon

LEMMA ProductOrder ==
  ASSUME NEW b \in Nat \ {0}, NEW x \in Int, NEW y \in Int, b * x < b * y
  PROVE  x < y
<1> SUFFICES ASSUME y <= x PROVE FALSE
  OBVIOUS
<1>1. PICK k \in Nat : x = y + k
  <2>1. x - y \in Nat /\ x = y + (x - y)
    OBVIOUS
  <2> QED BY <2>1
<1>2. b * x = b * y + b * k
  BY <1>1
<1>3. b * k \in Nat
  OBVIOUS
<1> QED BY <1>2, <1>3

LEMMA QuotientOrder ==
  ASSUME NEW a \in Nat, NEW b \in Nat \ {0}, NEW k \in Int
  PROVE  /\ a \div b \in Nat
         /\ a < b * k => a \div b < k
         /\ b * k <= a => k <= a \div b
<1>1. PICK q \in Int, r \in 0..b - 1 : q = a \div b /\ a = b * q + r
  BY Division
<1>2. b * q \in Int /\ b * k \in Int /\ b * (q + 1) = b * q + b /\ b * (0 - 1) = 0 - b
  OBVIOUS
<1>3. a < b * k => q < k
  <2>1. a < b * k => b * q < b * k
    BY <1>1, <1>2
  <2> QED BY <2>1, ProductOrder
<1>4. b * k <= a => k < q + 1
  <2>1. b * k <= a => b * k < b * (q + 1)
    BY <1>1, <1>2
  <2> QED BY <2>1, ProductOrder
<1>5. 0 - 1 < q
  <2>1. b * (0 - 1) < b * q
    BY <1>1, <1>2
  <2> QED BY <2>1, ProductOrder
<1>6. q \in Nat /\ (a < b * k => q < k) /\ (b * k <= a => k <= q)
  BY <1>3, <1>4, <1>5
<1> QED BY <1>1, <1>6, Zenon

\* Casts
LEMMA CastType ==
  ASSUME NEW n \in Int
  PROVE  /\ ToUInt64(n) \in 0..Word - 1
         /\ ToInt64(n) \in Int
         /\ ToInt64(n) < Word \div 2 /\ Word \div 2 <= ToInt64(n) + Word
<1>1. Word \in Nat \ {0}
  BY ControlsAssumption
<1> HIDE DEF Word
<1>2. PICK h : h = Word \div 2
  OBVIOUS
<1>3. PICK m : m = n % Word
  OBVIOUS
<1>4. m \in 0..Word - 1 /\ h \in Nat /\ h <= Word
  BY <1>1, <1>2, <1>3
<1>5. ToUInt64(n) = m /\ ToInt64(n) = IF m >= h THEN m - Word ELSE m
  BY <1>2, <1>3, Zenon DEF ToUInt64, ToInt64
<1>6. /\ ToUInt64(n) \in 0..Word - 1
      /\ ToInt64(n) \in Int
      /\ ToInt64(n) < h /\ h <= ToInt64(n) + Word
  BY <1>1, <1>4, <1>5
<1> QED BY <1>2, <1>6, Zenon

LEMMA CastKeeps ==
  ASSUME NEW n \in Int
  PROVE  /\ n \in 0..Word - 1 => ToUInt64(n) = n
         /\ n < Word \div 2 /\ Word \div 2 <= n + Word => ToInt64(n) = n
<1>1. Word \in Nat \ {0}
  BY ControlsAssumption
<1> HIDE DEF Word
<1>2. Word \div 2 \in Nat /\ Word \div 2 < Word
  BY <1>1
<1>3. n \in 0..Word - 1 => n % Word = n
  BY <1>1
<1>4. n \in -Word .. -1 => n % Word = n + Word
  BY <1>1
<1> QED BY <1>1, <1>2, <1>3, <1>4 DEF ToUInt64, ToInt64

\* An index leads back to the value it was made from, and is one of the
\* choices unless the last one is incomplete.
LEMMA RangeIndexFacts ==
  ASSUME NEW c, c.min.num \in Int, c.max.num \in Int, c.step.num \in Int,
         IsSelectorRange(c), Width(c) # 0, NEW n \in Int, RangeIndex(c, n) # Failed
  PROVE  /\ RangeIndex(c, n) \in 0..UIntMax
         /\ RangeValue(c, RangeIndex(c, n)) = n
         /\ Width(c) % StepOf(c) = 0 => RangeIndex(c, n) < RangeChoices(c)
<1>1. PICK lo, hi, st, w : lo = ToInt64(c.min.num) /\ hi = ToInt64(c.max.num)
                           /\ st = StepOf(c) /\ w = Width(c)
  OBVIOUS
<1>2. PICK h, size : h = Word \div 2 /\ size = Word
  OBVIOUS
<1>3. PICK d : d = ToUInt64(n - lo)
  OBVIOUS
<1>4. PICK top : top = UIntMax + 1
  OBVIOUS
<1>5. size \in Nat \ {0} /\ top \in Nat \ {0} /\ UIntMax \in Nat /\ h \in Int
  BY ControlsAssumption, <1>2, <1>4
<1>6. lo \in Int /\ hi \in Int /\ h <= lo + size /\ hi < h /\ st \in 1..size - 1
  <2>1. lo \in Int /\ hi \in Int /\ h <= lo + size /\ hi < h
    BY <1>1, <1>2, CastType
  <2>2. st \in 0..size - 1
    BY <1>1, <1>2, CastType DEF StepOf
  <2>3. st # 0
    BY <1>1 DEF IsSelectorRange
  <2> QED BY <1>5, <2>1, <2>2, <2>3
<1>7. /\ lo <= n /\ n <= hi /\ d % st = 0
      /\ RangeIndex(c, n) = (d \div st) % top
  BY <1>1, <1>3, <1>4, Zenon DEF RangeIndex
<1>8. d = n - lo /\ d \in 0..size - 1
  <2>1. n - lo \in 0..size - 1
    BY <1>5, <1>6, <1>7
  <2> QED BY <1>2, <1>3, <2>1, CastKeeps
<1>9. w = hi - lo + 1 /\ w \in 1..size - 1
  <2>1. w = ToUInt64(hi - lo + 1) /\ w # 0
    BY <1>1 DEF Width
  <2>2. hi - lo + 1 \in 1..size
    BY <1>5, <1>6, <1>7
  <2>3. hi - lo + 1 # size
    <3> SUFFICES ASSUME hi - lo + 1 = size PROVE FALSE
      OBVIOUS
    <3>1. w = size % size
      BY <1>2, <2>1 DEF ToUInt64
    <3>2. size % size = 0
      BY ONLY <1>5
    <3> QED BY <2>1, <3>1, <3>2
  <2>4. hi - lo + 1 \in 1..size - 1 /\ hi - lo + 1 \in 0..size - 1
    BY <1>5, <1>6, <2>2, <2>3
  <2>5. ToUInt64(hi - lo + 1) = hi - lo + 1
    BY <1>2, <2>4, CastKeeps
  <2> QED BY <2>1, <2>4, <2>5
<1>10. PICK q \in Int : q = d \div st /\ d = st * q
  <2>1. PICK q \in Int, r \in 0..st - 1 : q = d \div st /\ r = d % st /\ d = st * q + r
    <3>1. d \in Int /\ st \in Nat \ {0}
      BY <1>5, <1>6, <1>8
    <3> QED BY <3>1, Division, Zenon
  <2>2. d = st * q
    BY <1>6, <1>7, <2>1
  <2> QED BY <2>1, <2>2
<1>11. q \in Nat /\ d < w
  <2>1. d \div st \in Nat
    BY <1>6, <1>8, QuotientOrder
  <2> QED BY <1>6, <1>7, <1>8, <1>9, <1>10, <2>1
<1>12. RangeChoices(c) = IF w > st THEN w \div st ELSE 1
  BY <1>1 DEF RangeChoices
<1>13. w <= st => q = 0
  <2>1. st * 1 = st
    BY <1>6
  <2>2. w <= st => d < st * 1
    BY <1>5, <1>6, <1>8, <1>9, <1>11, <2>1
  <2>3. w <= st => d \div st < 1
    BY <1>6, <1>8, <2>2, QuotientOrder
  <2> QED BY <1>10, <1>11, <2>3
<1>14. q <= UIntMax
  <2>1. CASE w > st
    <3>1. w \div st <= UIntMax
      BY <1>12, <2>1 DEF IsSelectorRange
    <3>2. st * q <= w
      <4>1. PICK z : z = st * q
        OBVIOUS
      <4>2. z = d /\ d < w /\ d \in Int /\ w \in Int
        BY <1>6, <1>8, <1>9, <1>10, <1>11, <4>1
      <4>3. z <= w
        BY ONLY <4>2
      <4> QED BY <4>1, <4>3
    <3>3. q <= w \div st /\ w \div st \in Nat
      <4>1. w \in Nat /\ st \in Nat \ {0} /\ q \in Int
        BY <1>5, <1>6, <1>9, <1>11
      <4> QED BY <3>2, <4>1, QuotientOrder, Zenon
    <3> QED BY <1>5, <1>11, <3>1, <3>3
  <2>2. CASE w <= st
    BY <1>5, <1>13, <2>2
  <2> QED BY <1>6, <1>9, <2>1, <2>2
<1>15. RangeIndex(c, n) = q
  <2>1. q \in 0..top - 1
    BY <1>4, <1>5, <1>11, <1>14
  <2>2. q % top = q
    BY ONLY <1>5, <2>1
  <2> QED BY <1>7, <1>10, <2>2, Zenon
<1>16. RangeValue(c, q) = n
  <2>1. q * st = d
    BY <1>6, <1>10
  <2>2. lo + q * st = n
    BY <1>6, <1>8, <2>1
  <2>3. ToInt64(n) = n
    <3>1. n < h /\ h <= n + size
      BY <1>5, <1>6, <1>7
    <3> QED BY <1>2, <3>1, CastKeeps
  <2>4. ~(n > hi)
    BY <1>6, <1>7
  <2>5. RangeValue(c, q) = IF ToInt64(lo + q * st) > hi THEN Failed ELSE ToInt64(lo + q * st)
    BY <1>1, Zenon DEF RangeValue
  <2> QED BY ONLY <2>2, <2>3, <2>4, <2>5
<1>17. w % st = 0 => q < RangeChoices(c)
  <2> SUFFICES ASSUME w % st = 0 PROVE q < RangeChoices(c)
    OBVIOUS
  <2>1. PICK k \in Int : k = w \div st /\ w = st * k
    <3>1. PICK k \in Int, r \in 0..st - 1 : k = w \div st /\ r = w % st /\ w = st * k + r
      <4>1. w \in Int /\ st \in Nat \ {0}
        BY <1>5, <1>6, <1>9
      <4> QED BY <4>1, Division, Zenon
    <3>2. w = st * k
      BY <1>6, <3>1
    <3> QED BY <3>1, <3>2
  <2>2. q < k
    <3>1. d < st * k
      BY <1>11, <2>1
    <3>2. d \div st < k
      BY <1>6, <1>8, <3>1, QuotientOrder
    <3> QED BY <1>10, <3>2, Zenon
  <2>3. CASE w > st
    BY <1>12, <2>1, <2>2, <2>3
  <2>4. CASE w <= st
    BY <1>12, <1>13, <2>4, <1>6, <1>9
  <2> QED BY <1>6, <1>9, <2>3, <2>4
<1>18. q \in 0..UIntMax
  BY <1>5, <1>11, <1>14
<1> QED BY <1>1, <1>15, <1>16, <1>17, <1>18, Zenon

\* The last of equal choices.
LEMMA LastIndexFacts ==
  ASSUME NEW S, NEW s \in Seq(S), NEW t \in ElementsOf(s)
  PROVE  LastIndex(s, t) \in 0..Len(s) - 1 /\ s[LastIndex(s, t) + 1] = t
<1>1. PICK n \in Nat : n = Len(s) /\ DOMAIN s = 1..n
  OBVIOUS
<1>2. PICK i \in 1..n : s[i] = t
  BY <1>1 DEF ElementsOf
<1> DEFINE T == {k \in Nat : \E j \in 1..n : s[j] = t /\ k = n - j}
<1>3. T \in SUBSET Nat /\ n - i \in T
  BY <1>2
<1>4. PICK k \in T : \A l \in T : k <= l
  <2> HIDE DEF T
  <2> QED BY <1>3, LeastNumber
<1>5. PICK j \in 1..n : s[j] = t /\ k = n - j
  BY <1>4
<1>6. \A l \in 1..n : s[l] = t => l <= j
  <2> SUFFICES ASSUME NEW l \in 1..n, s[l] = t PROVE l <= j
    OBVIOUS
  <2>1. n - l \in T
    OBVIOUS
  <2> QED BY <1>4, <1>5, <2>1
<1>7. PICK m : m = CHOOSE x \in DOMAIN s : s[x] = t /\ \A y \in DOMAIN s : s[y] = t => y <= x
  OBVIOUS
<1>8. m \in 1..n /\ s[m] = t
  BY <1>1, <1>5, <1>6, <1>7
<1>9. LastIndex(s, t) = m - 1
  BY <1>7 DEF LastIndex
<1> QED BY <1>1, <1>8, <1>9

LEMMA PlainTexts ==
  ASSUME NEW v
  PROVE  /\ v.type = "ASCIIZ" => TextOf(v) = v.json.text
         /\ v.type = "BOOL" => TextOf(v) = IF v.json.bool THEN On ELSE Off
<1>1. v.type \in {"ASCIIZ", "BOOL"} => v.type \notin IntegerTypes
  BY DEF IntegerTypes, SignedTypes, UnsignedTypes
<1> QED BY <1>1 DEF TextOf

LEMMA IntegersAreNumbers ==
  ASSUME NEW j, NEW vt \in IntegerTypes, TypeCheck(j, vt)
  PROVE  j.kind = "int"
BY DEF TypeCheck, IntegerTypes, SignedTypes, UnsignedTypes, IsUnsigned

\* A value that can be selected by asks for the choice it selects, and
\* selects one of the choices.
LEMMA SelectorFacts ==
  ASSUME NEW c, IsControl(c), IsDefinition(c), NEW v, IsValue(v), SelectorOf(c, v) # UIntMax,
         c.type = "range" => Width(c) # 0
  PROVE  /\ SelectorIndex(c, v) = SelectorOf(c, v)
         /\ SelectorIndex(c, v) \in Nat
         /\ ChoiceText(c, SelectorIndex(c, v)) = ChosenText(c, v)
         /\ (c.type = "range" => Width(c) % StepOf(c) = 0) => SelectorIndex(c, v) < NumberOfChoices(c)
<1>1. SelectorIndex(c, v) = SelectorOf(c, v) /\ SelectorIndex(c, v) # Failed
  BY DEF SelectorOf
<1>2. CASE c.type = "choice"
  <2>1. SelectorIndex(c, v) = ChoiceIndex(c, v)
    BY <1>2 DEF SelectorIndex
  <2>2. v.type = "ASCIIZ" /\ v.json.text \in ElementsOf(c.choices)
        /\ SelectorIndex(c, v) = LastIndex(c.choices, v.json.text)
    BY <1>1, <2>1 DEF ChoiceIndex
  <2>3. c.choices \in Seq(ElementsOf(c.choices))
    BY <1>2 DEF IsControl
  <2>4. PICK i : i = SelectorIndex(c, v)
    OBVIOUS
  <2>5. i \in 0..Len(c.choices) - 1 /\ c.choices[i + 1] = v.json.text
    BY <2>2, <2>3, <2>4, LastIndexFacts
  <2>6. Len(c.choices) \in Nat
    BY <2>3
  <2>7. ChoiceText(c, i) = v.json.text /\ i \in Nat /\ i < NumberOfChoices(c)
    BY <1>2, <2>5, <2>6 DEF ChoiceText, NumberOfChoices
  <2>8. ChosenText(c, v) = v.json.text
    BY <1>2, <2>2, PlainTexts DEF ChosenText
  <2> QED BY <1>1, <2>4, <2>7, <2>8
<1>3. CASE c.type = "on_off"
  <2>1. SelectorIndex(c, v) = OnOffIndex(v)
    BY <1>3 DEF SelectorIndex
  <2>2. CASE v = Value("BOOL", Bool(TRUE)) \/ v = Value("ASCIIZ", Str(On))
    <3>1. v # Value("BOOL", Bool(FALSE)) /\ v # Value("ASCIIZ", Str(Off))
      BY <2>2 DEF Value, Bool, Str, On, Off, Name
    <3>2. OnOffIndex(v) = 1
      BY <2>2, <3>1 DEF OnOffIndex
    <3>3. ChosenText(c, v) = On
      BY <1>3, <2>2, PlainTexts DEF ChosenText, Value, Bool, Str
    <3> QED BY <1>1, <1>3, <2>1, <3>2, <3>3 DEF ChoiceText, NumberOfChoices
  <2>3. CASE v = Value("BOOL", Bool(FALSE)) \/ v = Value("ASCIIZ", Str(Off))
    <3>1. v # Value("BOOL", Bool(TRUE)) /\ v # Value("ASCIIZ", Str(On))
      BY <2>3 DEF Value, Bool, Str, On, Off, Name
    <3>2. OnOffIndex(v) = 0
      BY <2>3, <3>1 DEF OnOffIndex
    <3>3. ChosenText(c, v) = Off
      BY <1>3, <2>3, PlainTexts DEF ChosenText, Value, Bool, Str
    <3> QED BY <1>1, <1>3, <2>1, <3>2, <3>3 DEF ChoiceText, NumberOfChoices
  <2> QED BY <1>1, <2>1, <2>2, <2>3 DEF OnOffIndex
<1>4. CASE c.type = "range"
  <2>1. SelectorIndex(c, v) = NumberIndex(c, v)
    BY <1>4 DEF SelectorIndex
  <2>2. IsSelectorRange(c)
    BY <1>1, <2>1 DEF NumberIndex
  <2>3. PICK n \in Int : SelectorIndex(c, v) = RangeIndex(c, n) /\ ChosenText(c, v) = Numeral(n)
    <3>1. CASE v.type \in IntegerTypes
      <4>1. SelectorIndex(c, v) = RangeIndex(c, ToInt64(v.json.num))
        BY <2>1, <2>2, <3>1 DEF NumberIndex, IntegerTypes, SignedTypes, UnsignedTypes
      <4>2. ChosenText(c, v) = Numeral(ToInt64(v.json.num))
        BY <3>1 DEF ChosenText, TextOf, IntegerTypes, SignedTypes, UnsignedTypes
      <4>3. ToInt64(v.json.num) \in Int
        BY <3>1, CastType DEF IsValue
      <4> QED BY <4>1, <4>2, <4>3
    <3>2. CASE v.type = "ASCIIZ"
      <4>1. SelectorIndex(c, v) = TextIndex(c, v.json.text)
        BY <2>1, <2>2, <3>2 DEF NumberIndex, IntegerTypes, SignedTypes, UnsignedTypes
      <4>2. HasNumber(v.json.text) /\ SelectorIndex(c, v) = RangeIndex(c, NumberIn(v.json.text))
        BY <1>1, <4>1 DEF TextIndex
      <4>3. NumberIn(v.json.text) \in Int
        BY <3>2, <4>2 DEF IsValue, IsText
      <4>4. ChosenText(c, v) = Numeral(NumberIn(v.json.text))
        BY <1>4, <3>2, <4>2 DEF ChosenText
      <4> QED BY <4>2, <4>3, <4>4
    <3> QED BY <1>1, <2>1, <2>2, <3>1, <3>2 DEF NumberIndex
  <2>4. c.min.num \in Int /\ c.max.num \in Int /\ c.step.num \in Int
    <3>1. c.vtype \in IntegerTypes
      BY <2>2 DEF IsSelectorRange
    <3>2. IsRangeDefinition(c)
      BY <1>4 DEF IsDefinition
    <3>3. \A j \in {c.min, c.max, c.step} : j.kind = "int"
      BY <3>1, <3>2, IntegersAreNumbers DEF IsRangeDefinition
    <3> QED BY <1>4, <3>3 DEF IsControl, IsNumber
  <2>5. RangeIndex(c, n) # Failed
    BY <1>1, <2>3
  <2>6. /\ RangeIndex(c, n) \in 0..UIntMax /\ RangeValue(c, RangeIndex(c, n)) = n
        /\ Width(c) % StepOf(c) = 0 => RangeIndex(c, n) < RangeChoices(c)
    BY <1>4, <2>2, <2>4, <2>5, RangeIndexFacts
  <2>7. PICK i : i = RangeIndex(c, n)
    OBVIOUS
  <2>8. ChoiceText(c, i) = Numeral(n)
    <3>1. n # Failed
      BY ValuesAssumption
    <3> QED BY <1>4, <2>2, <2>6, <2>7, <3>1 DEF ChoiceText
  <2>9. NumberOfChoices(c) = RangeChoices(c)
    BY <1>4, <2>2 DEF NumberOfChoices
  <2>10. i \in Nat
    BY <2>6, <2>7, ControlsAssumption
  <2> QED BY <1>1, <1>4, <2>3, <2>6, <2>7, <2>8, <2>9, <2>10, Zenon
<1> QED BY <1>2, <1>3, <1>4 DEF IsDefinition

(***************************************************************************)
(* Sets with different ranks have an order.                                *)
(***************************************************************************)
Increases(s, f) == \A i, j \in DOMAIN s : i < j => f[s[i]] < f[s[j]]

\* Insertion of one more element.
LEMMA Inserted ==
  ASSUME NEW S, NEW f \in [S -> Nat], \A x, y \in S : f[x] = f[y] => x = y,
         NEW x \in S, NEW n \in Nat, NEW s \in [1..n -> S \ {x}], Increases(s, f)
  PROVE  \E t \in [1..n+1 -> S] : Increases(t, f)
<1> DEFINE T == {k \in 1..n+1 : k = n + 1 \/ f[x] < f[s[k]]}
<1>1. PICK k \in T : \A l \in T : k <= l
  <2>1. n + 1 \in T
    OBVIOUS
  <2>2. T \in SUBSET Nat
    OBVIOUS
  <2> HIDE DEF T
  <2> QED BY <2>1, <2>2, LeastNumber
<1>2. k \in 1..n+1 /\ \A l \in 1..n : l < k => f[s[l]] < f[x]
  <2>1. \A l \in 1..n : s[l] \in S /\ s[l] # x /\ f[s[l]] # f[x] /\ f[s[l]] \in Nat /\ f[x] \in Nat
    OBVIOUS
  <2> QED BY <1>1, <2>1
<1>3. \A l \in 1..n : k <= l => f[x] < f[s[l]]
  <2> SUFFICES ASSUME NEW l \in 1..n, k <= l PROVE f[x] < f[s[l]]
    OBVIOUS
  <2>1. k \in 1..n /\ f[x] < f[s[k]]
    BY <1>1, <1>2
  <2>2. k < l => f[s[k]] < f[s[l]]
    BY <2>1 DEF Increases
  <2>3. s[k] \in S /\ s[l] \in S /\ f[x] \in Nat /\ f[s[k]] \in Nat /\ f[s[l]] \in Nat
    BY <2>1
  <2> QED BY <2>1, <2>2, <2>3
<1> DEFINE t == [i \in 1..n+1 |-> IF i < k THEN s[i] ELSE IF i = k THEN x ELSE s[i - 1]]
<1>4. t \in [1..n+1 -> S]
  <2>1. \A i \in 1..n+1 : /\ i < k => i \in 1..n
                          /\ ~(i < k) /\ i # k => i - 1 \in 1..n
    BY <1>2
  <2> QED BY <2>1
<1>5. Increases(t, f)
  <2> SUFFICES ASSUME NEW i \in 1..n+1, NEW j \in 1..n+1, i < j
               PROVE  f[t[i]] < f[t[j]]
    BY DEF Increases
  <2>1. CASE j < k
    <3>1. i \in 1..n /\ j \in 1..n /\ t[i] = s[i] /\ t[j] = s[j]
      BY <2>1, <1>2
    <3> QED BY <3>1 DEF Increases
  <2>2. CASE j = k
    <3>1. i \in 1..n /\ i < k /\ t[i] = s[i] /\ t[j] = x
      BY <2>2, <1>2
    <3> QED BY <3>1, <1>2
  <2>3. CASE k < j
    <3>1. j - 1 \in 1..n /\ t[j] = s[j - 1] /\ k <= j - 1
      BY <2>3, <1>2
    <3>2. CASE i < k
      <4>1. i \in 1..n /\ t[i] = s[i] /\ i < j - 1
        BY <3>2, <2>3, <1>2
      <4> QED BY <3>1, <4>1 DEF Increases
    <3>3. CASE i = k
      <4>1. t[i] = x
        BY <3>3
      <4> QED BY <3>1, <4>1, <1>3
    <3>4. CASE k < i
      <4>1. i - 1 \in 1..n /\ t[i] = s[i - 1] /\ i - 1 < j - 1
        BY <3>4, <1>2
      <4> QED BY <3>1, <4>1 DEF Increases
    <3> QED BY <3>2, <3>3, <3>4, <1>2
  <2> QED BY <2>1, <2>2, <2>3, <1>2
<1> QED BY <1>4, <1>5

LEMMA OrderExists ==
  ASSUME NEW S, IsFiniteSet(S), NEW f \in [S -> Nat], \A x, y \in S : f[x] = f[y] => x = y
  PROVE  \E s \in [1..Cardinality(S) -> S] : Increases(s, f)
<1> DEFINE T == {n \in Nat : \A X \in SUBSET S : Cardinality(X) = n =>
                   \E s \in [1..n -> X] : Increases(s, f)}
<1>1. 0 \in T
  <2> SUFFICES ASSUME NEW X \in SUBSET S, Cardinality(X) = 0
               PROVE  \E s \in [1..0 -> X] : Increases(s, f)
    OBVIOUS
  <2>1. [i \in 1..0 |-> 0] \in [1..0 -> X] /\ Increases([i \in 1..0 |-> 0], f)
    BY DEF Increases
  <2> QED BY <2>1
<1>2. \A n \in T : n + 1 \in T
  <2> SUFFICES ASSUME NEW n \in T, NEW X \in SUBSET S, Cardinality(X) = n + 1
               PROVE  \E s \in [1..n+1 -> X] : Increases(s, f)
    OBVIOUS
  <2>1. IsFiniteSet(X) /\ n \in Nat
    BY FS_Subset
  <2>2. X # {}
    BY <2>1, FS_EmptySet
  <2>3. PICK x \in X : TRUE
    BY <2>2
  <2>4. (X \ {x}) \in SUBSET S /\ Cardinality(X \ {x}) = n
    <3>1. Cardinality(X \ {x}) = Cardinality(X) - 1
      BY <2>1, <2>3, FS_RemoveElement
    <3> QED BY <2>1, <3>1
  <2>5. PICK s \in [1..n -> X \ {x}] : Increases(s, f)
    BY <2>4
  <2> DEFINE g == [y \in X |-> f[y]]
  <2>6. g \in [X -> Nat] /\ \A y, z \in X : g[y] = g[z] => y = z
    OBVIOUS
  <2>7. Increases(s, g)
    BY <2>5 DEF Increases
  <2> HIDE DEF g
  <2>8. PICK t \in [1..n+1 -> X] : Increases(t, g)
    BY <2>1, <2>3, <2>5, <2>6, <2>7, Inserted
  <2>9. Increases(t, f)
    BY <2>8 DEF Increases, g
  <2> QED BY <2>8, <2>9
<1> HIDE DEF T
<1>3. \A n \in Nat : n \in T
  <2>1. T \in SUBSET Nat
    BY DEF T
  <2> QED BY <1>1, <1>2, <2>1, SetInduction
<1>4. Cardinality(S) \in Nat
  BY FS_CardinalityType
<1>5. Cardinality(S) \in T
  BY <1>3, <1>4
<1> QED BY <1>5 DEF T

\* A sequence of growing ranks as long as its set has all elements of the set.
LEMMA OrderIsComplete ==
  ASSUME NEW S, IsFiniteSet(S), NEW f \in [S -> Nat],
         NEW s \in [1..Cardinality(S) -> S], Increases(s, f)
  PROVE  \A x \in S : \E i \in 1..Cardinality(S) : s[i] = x
<1>1. Cardinality(S) \in Nat
  BY FS_CardinalityType
<1>2. PICK n \in Nat : n = Cardinality(S)
  BY <1>1
<1>3. s \in Injection(1..n, S)
  <2> SUFFICES ASSUME NEW i \in 1..n, NEW j \in 1..n, s[i] = s[j] PROVE i = j
    BY <1>2 DEF Injection, IsInjective
  <2>1. i < j => f[s[i]] < f[s[j]]
    BY <1>2 DEF Increases
  <2>2. j < i => f[s[j]] < f[s[i]]
    BY <1>2 DEF Increases
  <2>3. s[i] \in S /\ f[s[i]] \in Nat
    BY <1>2
  <2> QED BY <2>1, <2>2, <2>3
<1>4. IsFiniteSet(1..n) /\ Cardinality(1..n) = n
  BY FS_Interval
<1>5. s \in Surjection(1..n, S)
  BY <1>2, <1>3, <1>4, FS_Injection
<1> QED BY <1>2, <1>5 DEF Surjection

(***************************************************************************)
(* The controls of an element                                              *)
(***************************************************************************)
Controlled(e) == ControlsAt[e] \cap DOMAIN Setup.roon

LEMMA SetupFacts ==
  ASSUME setup \in DOMAIN Setups
  PROVE  /\ DOMAIN Setup.controls \subseteq AllControls
         /\ DOMAIN Setup.roon \subseteq DOMAIN Setup.controls
         /\ \A x \in DOMAIN Setup.roon : RankOf(x) \in Nat
         /\ Setup.order \in Seq(DOMAIN Setup.controls)
         /\ \A x \in DOMAIN Setup.roon : \E i \in DOMAIN Setup.order : Setup.order[i] = x
<1> DEFINE s == Setup
<1>1. s \in ElementsOf(Setups)
  BY DEF Setup, ElementsOf
<1> HIDE DEF s
<1>2. /\ DOMAIN s.controls \subseteq AllControls
      /\ DOMAIN s.roon \subseteq DOMAIN s.controls
      /\ \A x \in DOMAIN s.roon : s.roon[x].rank \in Nat
      /\ s.order \in Seq(DOMAIN s.controls)
      /\ ElementsOf(s.order) = DOMAIN s.controls
  BY <1>1, ReportsAssumption
<1>3. \A x \in DOMAIN s.roon : \E i \in DOMAIN s.order : s.order[i] = x
  BY <1>2 DEF ElementsOf
<1> QED BY <1>2, <1>3 DEF s, RankOf

\* Different controls are at different places in their model.
LEMMA IndexFacts ==
  ASSUME setup \in DOMAIN Setups, NEW x \in DOMAIN Setup.roon, NEW y \in DOMAIN Setup.roon, x # y
  PROVE  /\ IndexIn(Setup.order, x) \in Nat /\ IndexIn(Setup.order, y) \in Nat
         /\ IndexIn(Setup.order, x) # IndexIn(Setup.order, y)
<1> DEFINE s == Setup.order
<1>1. s \in Seq(DOMAIN Setup.controls) /\ (\E i \in DOMAIN s : s[i] = x) /\ (\E i \in DOMAIN s : s[i] = y)
  BY SetupFacts
<1> HIDE DEF s
<1>2. IndexIn(s, x) \in DOMAIN s /\ s[IndexIn(s, x)] = x
  BY <1>1 DEF IndexIn
<1>3. IndexIn(s, y) \in DOMAIN s /\ s[IndexIn(s, y)] = y
  BY <1>1 DEF IndexIn
<1>4. DOMAIN s \subseteq Nat
  BY <1>1
<1> QED BY <1>2, <1>3, <1>4 DEF s

LEMMA RankedIsFinite ==
  ASSUME setup \in DOMAIN Setups, NEW e
  PROVE  /\ Ranked(e) \subseteq Controlled(e)
         /\ IsFiniteSet(Ranked(e))
         /\ \A x, y \in Ranked(e) : RankOf(x) = RankOf(y) => x = y
<1>1. Ranked(e) \subseteq Controlled(e)
  BY DEF Ranked, Controlled
<1>2. IsFiniteSet(Ranked(e))
  <2> DEFINE s == Setup.order
             S == DOMAIN Setup.controls
  <2>1. s \in Seq(S) /\ \A x \in DOMAIN Setup.roon : \E i \in DOMAIN s : s[i] = x
    BY SetupFacts
  <2> HIDE DEF s
  <2>2. PICK n \in Nat : n = Len(s) /\ DOMAIN s = 1..n
    BY <2>1
  <2>3. IsFiniteSet(1..n)
    BY FS_Interval
  <2> DEFINE R == {s[i] : i \in 1..n}
  <2>4. IsFiniteSet(R)
    <3> DEFINE g == [i \in 1..n |-> s[i]]
    <3>1. g \in Surjection(1..n, R)
      BY DEF Surjection
    <3> HIDE DEF g, R
    <3> QED BY <3>1, <2>3, FS_Surjection
  <2>5. Ranked(e) \subseteq R
    BY <1>1, <2>1, <2>2 DEF Controlled
  <2> QED BY <2>4, <2>5, FS_Subset
<1>3. ASSUME NEW x \in Ranked(e), NEW y \in Ranked(e), RankOf(x) = RankOf(y), x # y
      PROVE  FALSE
  <2>1. x \in DOMAIN Setup.roon /\ y \in DOMAIN Setup.roon
    BY DEF Ranked
  <2>2. IndexIn(Setup.order, x) < IndexIn(Setup.order, y) /\ IndexIn(Setup.order, y) < IndexIn(Setup.order, x)
    BY <1>3 DEF Ranked
  <2> QED BY <1>3, <2>1, <2>2, IndexFacts
<1> QED BY <1>1, <1>2, <1>3

\* Places of the controls of one element: all of them, by rank.
LEMMA RankOrder ==
  ASSUME setup \in DOMAIN Setups, NEW e \in DOMAIN ControlsAt
  PROVE  LET s == InOrderOfRank(Ranked(e))
         IN /\ s \in Seq(AllControls)
            /\ \A i \in DOMAIN s : s[i] \in Ranked(e)
            /\ \A x \in Ranked(e) : \E i \in DOMAIN s : s[i] = x
            /\ \A i, j \in DOMAIN s : i < j => RankOf(s[i]) < RankOf(s[j])
<1> DEFINE S == Ranked(e)
           f == [x \in S |-> RankOf(x)]
           s == InOrderOfRank(S)
<1>1. S \subseteq AllControls /\ IsFiniteSet(S)
  BY RankedIsFinite DEF Controlled, AllControls
<1>2. f \in [S -> Nat] /\ \A x, y \in S : f[x] = f[y] => x = y
  <2>1. \A x \in S : RankOf(x) \in Nat
    BY RankedIsFinite, SetupFacts DEF Controlled
  <2> QED BY <2>1, RankedIsFinite
<1>3. \A x \in S : f[x] = RankOf(x)
  OBVIOUS
<1>4. Cardinality(S) \in Nat
  BY <1>1, FS_CardinalityType
<1> HIDE DEF f, S
<1>5. \E t \in [1..Cardinality(S) -> S] : Increases(t, f)
  BY <1>1, <1>2, OrderExists
<1>6. \A t \in [1..Cardinality(S) -> S] :
        Increases(t, f) <=> \A i, j \in DOMAIN t : i < j => RankOf(t[i]) < RankOf(t[j])
  BY <1>3 DEF Increases
<1>7. s \in [1..Cardinality(S) -> S] /\ \A i, j \in DOMAIN s : i < j => RankOf(s[i]) < RankOf(s[j])
  BY <1>5, <1>6 DEF InOrderOfRank
<1> HIDE DEF s
<1>8. Increases(s, f)
  BY <1>6, <1>7
<1>9. \A x \in S : \E i \in 1..Cardinality(S) : s[i] = x
  BY <1>1, <1>2, <1>7, <1>8, OrderIsComplete
<1>10. s \in Seq(AllControls) /\ DOMAIN s = 1..Cardinality(S)
  BY <1>1, <1>4, <1>7
<1>11. /\ s \in Seq(AllControls)
       /\ \A i \in DOMAIN s : s[i] \in S
       /\ \A x \in S : \E i \in DOMAIN s : s[i] = x
       /\ \A i, j \in DOMAIN s : i < j => RankOf(s[i]) < RankOf(s[j])
  BY <1>7, <1>9, <1>10
<1> QED BY <1>11 DEF s, S

(***************************************************************************)
(* The places of a path: those of its elements, one after the other.       *)
(***************************************************************************)
PathInv ==
  /\ setup \in DOMAIN Setups
  /\ path \in Paths \cup {<<>>}

Before(x, y) ==
  \/ PositionOf(x) < PositionOf(y)
  \/ PositionOf(x) = PositionOf(y) /\ RankOf(x) < RankOf(y)

\* The controls at the places for the first n elements.
IsPrepared(s, n) ==
  /\ s \in Seq(AllControls)
  /\ \A i \in DOMAIN s : \E m \in 1..n : s[i] \in Ranked(path[m])
  /\ \A m \in 1..n : \A x \in Ranked(path[m]) : \E i \in DOMAIN s : s[i] = x
  /\ \A i, j \in DOMAIN s : i < j => Before(s[i], s[j])

IsLayout(L, n) ==
  /\ L \in [0..n -> Seq(AllControls)]
  /\ L[0] = <<>>
  /\ \A k \in 1..n : L[k] = L[k - 1] \o InOrderOfRank(Ranked(path[k]))

LEMMA PathIsSequence ==
  ASSUME NEW p \in Paths \cup {<<>>}
  PROVE  p \in Seq(DOMAIN ControlsAt) /\ Len(p) \in Nat
<1>1. Paths \subseteq Seq(DOMAIN ControlsAt)
  BY ReportsAssumption, Zenon
<1>2. <<>> \in Seq(DOMAIN ControlsAt)
  OBVIOUS
<1>3. p \in Seq(DOMAIN ControlsAt)
  BY <1>1, <1>2, Zenon
<1> QED BY <1>3

LEMMA PathFacts ==
  ASSUME PathInv
  PROVE  /\ Len(path) \in Nat /\ DOMAIN path = 1..Len(path)
         /\ \A n \in 1..Len(path) : path[n] \in DOMAIN ControlsAt
         /\ \A m, n \in 1..Len(path) : path[m] = path[n] => m = n
<1>1. path \in Seq(DOMAIN ControlsAt)
  BY PathIsSequence DEF PathInv
<1>2. \A m, n \in DOMAIN path : path[m] = path[n] => m = n
  <2>1. CASE path \in Paths
    BY <2>1, ReportsAssumption, Zenon
  <2>2. CASE path = <<>>
    BY <2>2
  <2> QED BY <2>1, <2>2 DEF PathInv
<1> QED BY <1>1, <1>2

LEMMA PositionIsUnique ==
  ASSUME PathInv, NEW n \in 1..Len(path), NEW x \in ControlsAt[path[n]]
  PROVE  PositionOf(x) = n /\ x \in OnPath(path)
<1>1. /\ DOMAIN path = 1..Len(path)
      /\ \A m \in 1..Len(path) : path[m] \in DOMAIN ControlsAt
      /\ \A m, k \in 1..Len(path) : path[m] = path[k] => m = k
  BY PathFacts
<1>2. \A m \in DOMAIN path : x \in ControlsAt[path[m]] => m = n
  BY <1>1, ReportsAssumption
<1>3. PositionOf(x) = n
  BY <1>1, <1>2 DEF PositionOf
<1>4. x \in OnPath(path)
  BY <1>1 DEF OnPath, ElementsOf
<1> QED BY <1>3, <1>4

LEMMA ElementIsAppended ==
  ASSUME PathInv, NEW n \in 0..Len(path) - 1, NEW s, IsPrepared(s, n)
  PROVE  IsPrepared(s \o InOrderOfRank(Ranked(path[n + 1])), n + 1)
<1> DEFINE e == path[n + 1]
           t == InOrderOfRank(Ranked(e))
           st == s \o t
<1>1. Len(path) \in Nat /\ n \in Nat /\ n + 1 \in 1..Len(path) /\ e \in DOMAIN ControlsAt
  BY PathFacts
<1>2. /\ t \in Seq(AllControls)
      /\ \A i \in DOMAIN t : t[i] \in Ranked(e)
      /\ \A x \in Ranked(e) : \E i \in DOMAIN t : t[i] = x
      /\ \A i, j \in DOMAIN t : i < j => RankOf(t[i]) < RankOf(t[j])
  BY <1>1, RankOrder DEF PathInv
<1> HIDE DEF t
<1>3. s \in Seq(AllControls)
  BY DEF IsPrepared
<1>4. /\ st \in Seq(AllControls) /\ Len(st) = Len(s) + Len(t)
      /\ \A i \in 1..Len(st) : st[i] = IF i <= Len(s) THEN s[i] ELSE t[i - Len(s)]
  BY <1>2, <1>3, ConcatProperties
<1>5. /\ DOMAIN s = 1..Len(s) /\ DOMAIN t = 1..Len(t) /\ DOMAIN st = 1..Len(st)
      /\ Len(s) \in Nat /\ Len(t) \in Nat
  BY <1>2, <1>3, <1>4
<1> HIDE DEF st
<1>6. \A i \in DOMAIN st : \/ i \in DOMAIN s /\ st[i] = s[i]
                           \/ ~(i <= Len(s)) /\ i - Len(s) \in DOMAIN t /\ st[i] = t[i - Len(s)]
  BY <1>4, <1>5
<1>7. \A i \in DOMAIN st : \E m \in 1..n+1 : st[i] \in Ranked(path[m])
  <2> SUFFICES ASSUME NEW i \in DOMAIN st PROVE \E m \in 1..n+1 : st[i] \in Ranked(path[m])
    OBVIOUS
  <2>1. CASE i \in DOMAIN s /\ st[i] = s[i]
    <3>1. PICK m \in 1..n : s[i] \in Ranked(path[m])
      BY <2>1 DEF IsPrepared
    <3> QED BY <2>1, <3>1
  <2>2. CASE i - Len(s) \in DOMAIN t /\ st[i] = t[i - Len(s)]
    <3>1. st[i] \in Ranked(path[n + 1])
      BY <2>2, <1>2
    <3> QED BY <3>1, <1>1
  <2> QED BY <2>1, <2>2, <1>6
<1>8. \A m \in 1..n+1 : \A x \in Ranked(path[m]) : \E i \in DOMAIN st : st[i] = x
  <2> SUFFICES ASSUME NEW m \in 1..n+1, NEW x \in Ranked(path[m]) PROVE \E i \in DOMAIN st : st[i] = x
    OBVIOUS
  <2>1. CASE m \in 1..n
    <3>1. PICK i \in DOMAIN s : s[i] = x
      BY <2>1 DEF IsPrepared
    <3>2. i \in DOMAIN st /\ st[i] = x
      BY <3>1, <1>4, <1>5
    <3> QED BY <3>2
  <2>2. CASE m = n + 1
    <3>1. PICK i \in DOMAIN t : t[i] = x
      BY <2>2, <1>2
    <3>2. i + Len(s) \in 1..Len(st) /\ ~(i + Len(s) <= Len(s)) /\ (i + Len(s)) - Len(s) = i
      BY <1>4, <1>5
    <3>3. st[i + Len(s)] = x
      BY <3>1, <3>2, <1>4
    <3> QED BY <3>2, <3>3, <1>5
  <2> QED BY <2>1, <2>2, <1>1
<1>9. \A i, j \in DOMAIN st : i < j => Before(st[i], st[j])
  <2> SUFFICES ASSUME NEW i \in DOMAIN st, NEW j \in DOMAIN st, i < j
               PROVE  Before(st[i], st[j])
    OBVIOUS
  <2>1. i \in Nat /\ j \in Nat
    BY <1>5
  <2>2. CASE i \in DOMAIN s /\ st[i] = s[i] /\ j \in DOMAIN s /\ st[j] = s[j]
    BY <2>2 DEF IsPrepared
  <2>3. CASE /\ i \in DOMAIN s /\ st[i] = s[i]
             /\ j - Len(s) \in DOMAIN t /\ st[j] = t[j - Len(s)]
    <3>1. PICK m \in 1..n : s[i] \in Ranked(path[m])
      BY <2>3 DEF IsPrepared
    <3>2. st[i] \in ControlsAt[path[m]] /\ m \in 1..Len(path) /\ m < n + 1
      BY <2>3, <3>1, <1>1 DEF Ranked
    <3>3. st[j] \in ControlsAt[path[n + 1]]
      BY <2>3, <1>2 DEF Ranked
    <3>4. PositionOf(st[i]) = m /\ PositionOf(st[j]) = n + 1
      BY <3>2, <3>3, <1>1, PositionIsUnique
    <3> QED BY <3>2, <3>4 DEF Before
  <2>4. CASE /\ i - Len(s) \in DOMAIN t /\ st[i] = t[i - Len(s)]
             /\ j - Len(s) \in DOMAIN t /\ st[j] = t[j - Len(s)]
    <3>1. st[i] \in ControlsAt[path[n + 1]] /\ st[j] \in ControlsAt[path[n + 1]]
      BY <2>4, <1>2 DEF Ranked
    <3>2. PositionOf(st[i]) = n + 1 /\ PositionOf(st[j]) = n + 1
      BY <3>1, <1>1, PositionIsUnique
    <3>3. i - Len(s) < j - Len(s)
      BY <1>5, <2>1
    <3>4. RankOf(st[i]) < RankOf(st[j])
      BY <2>4, <3>3, <1>2
    <3> QED BY <3>2, <3>4 DEF Before
  <2>5. ~(~(i <= Len(s)) /\ j \in DOMAIN s)
    BY <1>5, <2>1
  <2> QED BY <2>2, <2>3, <2>4, <2>5, <1>6
<1> QED BY <1>4, <1>7, <1>8, <1>9 DEF IsPrepared, st, t

LEMMA LayoutIsPrepared ==
  ASSUME PathInv, NEW n \in 0..Len(path), NEW L, IsLayout(L, n)
  PROVE  IsPrepared(L[n], n)
<1> DEFINE T == {k \in Nat : k <= n => IsPrepared(L[k], k)}
<1>1. Len(path) \in Nat /\ n \in Nat
  BY PathFacts
<1>2. 0 \in T
  <2>1. L[0] = <<>>
    BY DEF IsLayout
  <2>2. IsPrepared(<<>>, 0)
    BY DEF IsPrepared
  <2> QED BY <2>1, <2>2
<1>3. \A k \in T : k + 1 \in T
  <2> SUFFICES ASSUME NEW k \in T, k + 1 <= n PROVE IsPrepared(L[k + 1], k + 1)
    OBVIOUS
  <2>1. k \in Nat /\ k <= n /\ k \in 0..Len(path) - 1 /\ k + 1 \in 1..n /\ (k + 1) - 1 = k
    BY <1>1
  <2>2. IsPrepared(L[k], k)
    BY <2>1
  <2>3. L[k + 1] = L[k] \o InOrderOfRank(Ranked(path[k + 1]))
    BY <2>1 DEF IsLayout
  <2> QED BY <2>1, <2>2, <2>3, ElementIsAppended
<1> HIDE DEF T
<1>4. n \in T
  <2>1. T \in SUBSET Nat
    BY DEF T
  <2> QED BY <1>1, <1>2, <1>3, <2>1, SetInduction
<1> QED BY <1>1, <1>4 DEF T

LEMMA LayoutIsUnique ==
  ASSUME NEW n \in Nat, NEW L, IsLayout(L, n), NEW M, IsLayout(M, n)
  PROVE  L = M
<1> DEFINE T == {k \in Nat : k <= n => L[k] = M[k]}
<1>1. 0 \in T
  BY DEF IsLayout
<1>2. \A k \in T : k + 1 \in T
  <2> SUFFICES ASSUME NEW k \in T, k + 1 <= n PROVE L[k + 1] = M[k + 1]
    OBVIOUS
  <2>1. k \in Nat /\ k <= n /\ k + 1 \in 1..n /\ (k + 1) - 1 = k
    OBVIOUS
  <2>2. L[k] = M[k]
    BY <2>1
  <2>3. /\ L[k + 1] = L[k] \o InOrderOfRank(Ranked(path[k + 1]))
        /\ M[k + 1] = M[k] \o InOrderOfRank(Ranked(path[k + 1]))
    BY <2>1 DEF IsLayout
  <2> QED BY <2>2, <2>3
<1> HIDE DEF T
<1>3. \A k \in Nat : k \in T
  <2>1. T \in SUBSET Nat
    BY DEF T
  <2> QED BY <1>1, <1>2, <2>1, SetInduction
<1>4. \A k \in 0..n : L[k] = M[k]
  <2> SUFFICES ASSUME NEW k \in 0..n PROVE L[k] = M[k]
    OBVIOUS
  <2>1. k \in T /\ k <= n
    BY <1>3
  <2> QED BY <2>1 DEF T
<1> QED BY <1>4 DEF IsLayout

(***************************************************************************)
(* Reports                                                                 *)
(***************************************************************************)
\* What is to be reported of a control, and what its place holds up to now.
CurrentFragment(x) ==
  IF values[x] = None THEN Null
  ELSE Fragment(Setup.controls[x], Setup.roon[x], values[x], Setup.controls, values)
FragmentNow(x) == IF phase = "preparing" \/ x \in unfilled THEN Null ELSE CurrentFragment(x)
PlacesFor(s) == [i \in DOMAIN s |-> [control |-> s[i], fragment |-> FragmentNow(s[i])]]

ReportInv ==
  /\ PathInv
  /\ DOMAIN values = AllControls
  /\ \A x \in AllControls : values[x] \in Setup.settings[x] \cup {None}
  /\ phase \in {"idle", "preparing", "filling"}
  /\ position \in 0..Len(path)
  /\ phase = "filling" => position = Len(path)
  /\ phase # "filling" => unfilled = {}
  /\ unfilled \subseteq OnPath(path)
  /\ \A x \in unfilled : values[x] # None
  /\ phase = "idle" => entries = <<>>
  /\ phase # "idle" => \E L : IsLayout(L, position) /\ entries = PlacesFor(L[position])

LEMMA SameSetup ==
  ASSUME UNCHANGED setup
  PROVE  /\ UNCHANGED Setup
         /\ \A e : Ranked(e)' = Ranked(e)
         /\ \A S : InOrderOfRank(S)' = InOrderOfRank(S)
<1>1. UNCHANGED Setup
  BY DEF Setup
<1>2. \A e : Ranked(e)' = Ranked(e)
  BY <1>1 DEF Ranked, RankOf
<1>3. \A S : InOrderOfRank(S)' = InOrderOfRank(S)
  BY <1>1, Zenon DEF InOrderOfRank, RankOf
<1> QED BY <1>1, <1>2, <1>3

LEMMA SamePathSameLayout ==
  ASSUME UNCHANGED <<setup, path>>
  PROVE  \A L, n : IsLayout(L, n)' <=> IsLayout(L, n)
BY SameSetup DEF IsLayout

LEMMA LayoutFacts ==
  ASSUME ReportInv, NEW L, IsLayout(L, position)
  PROVE  /\ IsPrepared(L[position], position)
         /\ \A i \in DOMAIN L[position] : L[position][i] \in OnPath(path) \cap DOMAIN Setup.roon
<1>1. IsPrepared(L[position], position) /\ PathInv
  BY LayoutIsPrepared DEF ReportInv
<1>2. ASSUME NEW i \in DOMAIN L[position]
      PROVE  L[position][i] \in OnPath(path) \cap DOMAIN Setup.roon
  <2>1. PICK m \in 1..position : L[position][i] \in Ranked(path[m])
    BY <1>1 DEF IsPrepared
  <2>2. m \in 1..Len(path)
    <3>1. Len(path) \in Nat
      BY <1>1, PathFacts
    <3>2. position \in 0..Len(path)
      BY DEF ReportInv
    <3> QED BY <3>1, <3>2
  <2>3. L[position][i] \in ControlsAt[path[m]] /\ L[position][i] \in DOMAIN Setup.roon
    BY <2>1 DEF Ranked
  <2> QED BY <1>1, <2>2, <2>3, PositionIsUnique
<1> QED BY <1>1, <1>2

LEMMA InitReportInv == Init => ReportInv
<1> SUFFICES ASSUME Init PROVE ReportInv
  OBVIOUS
<1>1. /\ setup \in DOMAIN Setups /\ path = <<>> /\ phase = "idle" /\ position = 0
      /\ entries = <<>> /\ unfilled = {} /\ values = [x \in AllControls |-> None]
  BY DEF Init
<1>2. 0 \in 0..Len(<<>>)
  OBVIOUS
<1> QED BY <1>1, <1>2 DEF ReportInv, PathInv

LEMMA SetKeepsInv ==
  ASSUME ReportInv, NEW x \in AllControls, NEW v \in Setup.settings[x] \cup {None}, Set(x, v)
  PROVE  ReportInv'
<1>1. /\ phase = "idle" /\ phase' = "idle" /\ values' = [values EXCEPT ![x] = v]
      /\ UNCHANGED <<setup, path, position, entries, unfilled>>
  BY DEF Set, cache
<1>2. Setup' = Setup
  BY <1>1 DEF Setup
<1>3. DOMAIN values' = AllControls /\ \A y \in AllControls : values'[y] \in Setup.settings[y] \cup {None}
  BY <1>1 DEF ReportInv
<1>4. PathInv' /\ unfilled = {}
  BY <1>1 DEF ReportInv, PathInv
<1> QED BY <1>1, <1>2, <1>3, <1>4 DEF ReportInv

LEMMA BeginReportKeepsInv ==
  ASSUME ReportInv, NEW p \in Paths \cup {<<>>}, BeginReport(p)
  PROVE  ReportInv'
<1>1. /\ phase = "idle" /\ phase' = "preparing" /\ path' = p /\ position' = 0 /\ entries' = <<>>
      /\ UNCHANGED <<setup, values, unfilled>>
  BY DEF BeginReport, store
<1>2. Setup' = Setup
  BY <1>1 DEF Setup
<1>3. PathInv' /\ unfilled = {}
  BY <1>1 DEF ReportInv, PathInv
<1>4. Len(path') \in Nat
  BY <1>1, PathIsSequence
<1>5. \E L : IsLayout(L, 0)' /\ entries' = PlacesFor(L[0])'
  <2> DEFINE L == [k \in 0..0 |-> <<>>]
  <2>1. L \in [0..0 -> Seq(AllControls)] /\ L[0] = <<>>
    OBVIOUS
  <2>2. IsLayout(L, 0)'
    BY <2>1 DEF IsLayout
  <2>3. PlacesFor(L[0])' = <<>>
    BY <2>1 DEF PlacesFor
  <2> QED BY <1>1, <2>2, <2>3
<1>6. \E L : IsLayout(L, position)' /\ entries' = PlacesFor(L[position])'
  BY <1>1, <1>5
<1>7. unfilled' = {} /\ phase' # "filling" /\ phase' # "idle" /\ position' \in 0..Len(path')
  BY <1>1, <1>3, <1>4
<1>8. DOMAIN values' = AllControls /\ \A x \in AllControls : values'[x] \in Setup'.settings[x] \cup {None}
  BY <1>1, <1>2 DEF ReportInv
<1> QED BY <1>1, <1>3, <1>6, <1>7, <1>8 DEF ReportInv

LEMMA PrepareKeepsInv ==
  ASSUME ReportInv, PrepareElement
  PROVE  ReportInv'
<1> DEFINE t == InOrderOfRank(Ranked(path[position + 1]))
           te == [i \in DOMAIN t |-> [control |-> t[i], fragment |-> Null]]
<1>1. /\ phase = "preparing" /\ position < Len(path) /\ entries' = entries \o te
      /\ position' = position + 1 /\ UNCHANGED <<setup, values, path, phase, unfilled>>
  BY DEF PrepareElement, store
<1>2. PathInv /\ Len(path) \in Nat /\ position \in Nat /\ position \in 0..Len(path)
  <2>1. PathInv /\ position \in 0..Len(path)
    BY DEF ReportInv
  <2>2. Len(path) \in Nat
    BY <2>1, PathFacts
  <2> QED BY <2>1, <2>2
<1>3. PICK L : IsLayout(L, position) /\ entries = PlacesFor(L[position])
  BY <1>1 DEF ReportInv
<1>4. L \in [0..position -> Seq(AllControls)] /\ L[0] = <<>>
      /\ \A k \in 1..position : L[k] = L[k - 1] \o InOrderOfRank(Ranked(path[k]))
  BY <1>3 DEF IsLayout
<1>5. t \in Seq(AllControls)
  <2>1. path[position + 1] \in DOMAIN ControlsAt /\ setup \in DOMAIN Setups
    BY <1>1, <1>2, PathFacts DEF PathInv
  <2> QED BY <2>1, RankOrder
<1> HIDE DEF t
<1> DEFINE n == position + 1
           M == [k \in 0..n |-> IF k = n THEN L[position] \o t ELSE L[k]]
<1>6. M \in [0..n -> Seq(AllControls)] /\ M[0] = <<>> /\ M[n] = L[position] \o t
  <2>1. L[position] \o t \in Seq(AllControls)
    BY <1>2, <1>4, <1>5
  <2>2. \A k \in 0..n : k # n => k \in 0..position
    BY <1>2
  <2>3. 0 \in 0..n /\ n \in 0..n /\ 0 # n
    BY <1>2
  <2> QED BY <1>4, <2>1, <2>2, <2>3
<1>7. \A k \in 1..n : M[k] = M[k - 1] \o InOrderOfRank(Ranked(path[k]))
  <2> SUFFICES ASSUME NEW k \in 1..n PROVE M[k] = M[k - 1] \o InOrderOfRank(Ranked(path[k]))
    OBVIOUS
  <2>1. CASE k = n
    <3>1. k - 1 = position /\ k - 1 \in 0..n /\ k - 1 # n /\ k \in 0..n
      BY <2>1, <1>2
    <3> QED BY <2>1, <3>1 DEF t
  <2>2. CASE k # n
    <3>1. k \in 1..position /\ k - 1 \in 0..n /\ k - 1 # n /\ k \in 0..n
      BY <2>2, <1>2
    <3> QED BY <2>2, <3>1, <1>4
  <2> QED BY <2>1, <2>2
<1> HIDE DEF M
<1>8. IsLayout(M, n)
  BY <1>6, <1>7 DEF IsLayout
<1>9. PICK K, m : IsLayout(K, m) /\ m = position + 1 /\ K[m] = L[position] \o t
  BY <1>6, <1>8
<1>10. entries' = PlacesFor(K[m])'
  <2> DEFINE Places == [control: AllControls, fragment: {Null}]
  <2>1. PICK s : s = L[position]
    OBVIOUS
  <2>2. PICK r : r = t
    OBVIOUS
  <2> DEFINE se == [i \in DOMAIN s |-> [control |-> s[i], fragment |-> Null]]
             re == [i \in DOMAIN r |-> [control |-> r[i], fragment |-> Null]]
             st == s \o r
  <2>3. s \in Seq(AllControls) /\ r \in Seq(AllControls) /\ K[m] = st /\ te = re
    BY <1>2, <1>4, <1>5, <1>9, <2>1, <2>2
  <2>4. entries = se /\ entries' = se \o re
    BY <1>1, <1>3, <2>1, <2>3 DEF PlacesFor, FragmentNow
  <2>5. PlacesFor(K[m])' = [i \in DOMAIN st |-> [control |-> st[i], fragment |-> Null]]
    BY <1>1, <2>3 DEF PlacesFor, FragmentNow
  <2>6. Len(s) \in Nat /\ Len(r) \in Nat /\ DOMAIN s = 1..Len(s) /\ DOMAIN r = 1..Len(r)
        /\ (\A i \in 1..Len(s) : s[i] \in AllControls) /\ (\A i \in 1..Len(r) : r[i] \in AllControls)
    BY <2>3
  <2>7. se \in [1..Len(s) -> Places] /\ re \in [1..Len(r) -> Places]
    BY <2>6
  <2>8. /\ st \in Seq(AllControls) /\ Len(st) = Len(s) + Len(r)
        /\ \A i \in 1..Len(s) + Len(r) : st[i] = IF i <= Len(s) THEN s[i] ELSE r[i - Len(s)]
    BY <2>3, ConcatProperties
  <2>9. \A i \in 1..Len(s) : se[i] = [control |-> s[i], fragment |-> Null]
    BY <2>6
  <2>10. \A i \in 1..Len(r) : re[i] = [control |-> r[i], fragment |-> Null]
    BY <2>6
  <2> HIDE DEF se, re, st, Places
  <2>11. se \in Seq(Places) /\ re \in Seq(Places) /\ Len(se) = Len(s) /\ Len(re) = Len(r)
    BY <2>6, <2>7
  <2>12. /\ se \o re \in Seq(Places) /\ Len(se \o re) = Len(s) + Len(r)
         /\ \A i \in 1..Len(s) + Len(r) : (se \o re)[i] = IF i <= Len(s) THEN se[i] ELSE re[i - Len(s)]
    <3>1. /\ se \o re \in Seq(Places) /\ Len(se \o re) = Len(se) + Len(re)
          /\ \A i \in 1..Len(se) + Len(re) : (se \o re)[i] = IF i <= Len(se) THEN se[i] ELSE re[i - Len(se)]
      BY <2>11, ConcatProperties
    <3> QED BY <2>11, <3>1
  <2>13. \A i \in 1..Len(s) + Len(r) : (se \o re)[i] = [control |-> st[i], fragment |-> Null]
    <3> SUFFICES ASSUME NEW i \in 1..Len(s) + Len(r)
                 PROVE  (se \o re)[i] = [control |-> st[i], fragment |-> Null]
      OBVIOUS
    <3>1. CASE i <= Len(s)
      <4>1. i \in 1..Len(s)
        BY <3>1, <2>6
      <4> QED BY <3>1, <4>1, <2>8, <2>9, <2>12
    <3>2. CASE ~(i <= Len(s))
      <4>1. i - Len(s) \in 1..Len(r)
        BY <3>2, <2>6
      <4> QED BY <3>2, <4>1, <2>8, <2>10, <2>12
    <3> QED BY <3>1, <3>2
  <2>14. DOMAIN st = 1..Len(s) + Len(r) /\ DOMAIN (se \o re) = 1..Len(s) + Len(r)
    BY <2>8, <2>12
  <2>15. PICK u : u = se \o re
    OBVIOUS
  <2>16. u \in Seq(Places) /\ DOMAIN u = 1..Len(s) + Len(r)
         /\ \A i \in 1..Len(s) + Len(r) : u[i] = [control |-> st[i], fragment |-> Null]
    BY <2>12, <2>13, <2>14, <2>15
  <2>17. u = [i \in DOMAIN st |-> [control |-> st[i], fragment |-> Null]]
    BY ONLY <2>14, <2>16
  <2> QED BY <2>4, <2>5, <2>15, <2>17
<1>11. \E H : IsLayout(H, position)' /\ entries' = PlacesFor(H[position])'
  <2>1. IsLayout(K, m)' /\ m = position'
    BY <1>1, <1>9, SamePathSameLayout
  <2> QED BY <1>10, <2>1
<1>12. position' \in 0..Len(path)
  BY <1>1, <1>2
<1>13. /\ Setup' = Setup /\ PathInv' /\ OnPath(path)' = OnPath(path)
  BY <1>1, <1>2 DEF Setup, PathInv, OnPath
<1> QED BY <1>1, <1>11, <1>12, <1>13 DEF ReportInv

LEMMA BeginFillingKeepsInv ==
  ASSUME ReportInv, BeginFilling
  PROVE  ReportInv'
<1>1. /\ phase = "preparing" /\ position = Len(path) /\ phase' = "filling"
      /\ unfilled' = {x \in OnPath(path) : values[x] # None}
      /\ UNCHANGED <<setup, values, path, position, entries>>
  BY DEF BeginFilling, store
<1>2. PICK L : IsLayout(L, position) /\ entries = PlacesFor(L[position])
  BY <1>1 DEF ReportInv
<1>3. PICK s : s = L[position]
  OBVIOUS
<1>4. \A i \in DOMAIN s : s[i] \in OnPath(path)
  BY <1>2, <1>3, LayoutFacts
<1>5. entries = [i \in DOMAIN s |-> [control |-> s[i], fragment |-> Null]]
  BY <1>1, <1>2, <1>3 DEF PlacesFor, FragmentNow
<1>6. \A i \in DOMAIN s : FragmentNow(s[i])' = Null
  BY <1>1, <1>4 DEF FragmentNow, CurrentFragment
<1>7. PlacesFor(s)' = [i \in DOMAIN s |-> [control |-> s[i], fragment |-> Null]]
  BY <1>6 DEF PlacesFor
<1>8. PICK n : n = position
  OBVIOUS
<1>9. IsLayout(L, n)' /\ n = position'
  BY <1>1, <1>2, <1>8, SamePathSameLayout
<1>10. \E H : IsLayout(H, position)' /\ entries' = PlacesFor(H[position])'
  BY <1>1, <1>3, <1>5, <1>7, <1>8, <1>9
<1>11. Setup' = Setup /\ PathInv' /\ OnPath(path)' = OnPath(path)
  BY <1>1 DEF Setup, PathInv, OnPath, ReportInv
<1> QED BY <1>1, <1>10, <1>11 DEF ReportInv

LEMMA FillKeepsInv ==
  ASSUME ReportInv, NEW x \in AllControls, Fill(x)
  PROVE  ReportInv'
<1>1. /\ phase = "filling" /\ x \in unfilled /\ unfilled' = unfilled \ {x}
      /\ entries' = IF x \in DOMAIN Setup.roon THEN Filled(x, CurrentFragment(x)) ELSE entries
      /\ UNCHANGED <<setup, values, path, phase, position>>
  BY DEF Fill, store, CurrentFragment, ReportInv
<1>2. PICK L : IsLayout(L, position) /\ entries = PlacesFor(L[position])
  BY <1>1 DEF ReportInv
<1>3. PICK s : s = L[position]
  OBVIOUS
<1>4. \A i \in DOMAIN s : s[i] \in DOMAIN Setup.roon
  BY <1>2, <1>3, LayoutFacts
<1>5. Setup' = Setup /\ PathInv' /\ OnPath(path)' = OnPath(path) /\ \A y : CurrentFragment(y)' = CurrentFragment(y)
  BY <1>1 DEF Setup, PathInv, OnPath, ReportInv, CurrentFragment
<1>6. \A y : FragmentNow(y)' = IF y = x THEN CurrentFragment(x) ELSE FragmentNow(y)
  BY <1>1, <1>5 DEF FragmentNow
<1>7. PlacesFor(s)' = [i \in DOMAIN s |-> [control |-> s[i], fragment |-> FragmentNow(s[i])']]
  BY DEF PlacesFor
<1>8. entries = [i \in DOMAIN s |-> [control |-> s[i], fragment |-> FragmentNow(s[i])]]
  BY <1>2, <1>3 DEF PlacesFor
<1>9. entries' = PlacesFor(s)'
  <2>1. CASE x \in DOMAIN Setup.roon
    <3> DEFINE f(y) == IF y = x THEN CurrentFragment(x) ELSE FragmentNow(y)
    <3>1. entries' = [i \in DOMAIN s |-> [control |-> s[i], fragment |-> f(s[i])]]
      BY <1>1, <1>8, <2>1 DEF Filled
    <3>2. PlacesFor(s)' = [i \in DOMAIN s |-> [control |-> s[i], fragment |-> f(s[i])]]
      BY <1>6, <1>7
    <3> QED BY <3>1, <3>2
  <2>2. CASE x \notin DOMAIN Setup.roon
    <3>1. \A i \in DOMAIN s : s[i] # x
      BY <1>4, <2>2
    <3>2. \A i \in DOMAIN s : FragmentNow(s[i])' = FragmentNow(s[i])
      BY <3>1, <1>6
    <3>3. PlacesFor(s)' = [i \in DOMAIN s |-> [control |-> s[i], fragment |-> FragmentNow(s[i])]]
      BY <3>2, <1>7
    <3> QED BY <1>1, <1>8, <2>2, <3>3
  <2> QED BY <2>1, <2>2
<1>10. PICK n : n = position
  OBVIOUS
<1>11. IsLayout(L, n)' /\ n = position'
  BY <1>1, <1>2, <1>10, SamePathSameLayout
<1>12. \E H : IsLayout(H, position)' /\ entries' = PlacesFor(H[position])'
  BY <1>3, <1>9, <1>10, <1>11
<1> QED BY <1>1, <1>5, <1>12 DEF ReportInv

LEMMA OtherStepsKeepReportInv ==
  ASSUME ReportInv, EndReport \/ UNCHANGED vars
  PROVE  ReportInv'
<1>1. UNCHANGED <<setup, values, path>>
  BY DEF EndReport, vars, store, cache
<1>2. Setup' = Setup /\ PathInv' /\ OnPath(path)' = OnPath(path) /\ \A y : CurrentFragment(y)' = CurrentFragment(y)
  BY <1>1 DEF Setup, PathInv, OnPath, ReportInv, CurrentFragment
<1>3. CASE EndReport
  <2>1. phase' = "idle" /\ position' = 0 /\ entries' = <<>> /\ unfilled = {} /\ unfilled' = {}
    BY <1>3 DEF EndReport
  <2>2. 0 \in 0..Len(path)
    <3>1. PathInv
      BY DEF ReportInv
    <3> QED BY <3>1, PathFacts
  <2> QED BY <1>1, <1>2, <2>1, <2>2 DEF ReportInv
<1>4. CASE UNCHANGED vars
  <2>1. UNCHANGED <<phase, position, entries, unfilled>>
    BY <1>4 DEF vars, cache
  <2>2. ASSUME phase # "idle"
        PROVE  \E H : IsLayout(H, position)' /\ entries' = PlacesFor(H[position])'
    <3>1. PICK L : IsLayout(L, position) /\ entries = PlacesFor(L[position])
      BY <2>2 DEF ReportInv
    <3>2. PICK n, s : n = position /\ s = L[n]
      OBVIOUS
    <3>3. IsLayout(L, n)' /\ n = position'
      BY <1>1, <2>1, <3>1, <3>2, SamePathSameLayout
    <3>4. PlacesFor(s)' = PlacesFor(s)
      BY <1>2, <2>1 DEF PlacesFor, FragmentNow
    <3> QED BY <2>1, <3>1, <3>2, <3>3, <3>4
  <2> QED BY <1>1, <1>2, <2>1, <2>2 DEF ReportInv
<1> QED BY <1>3, <1>4

LEMMA NextKeepsReportInv == ReportInv /\ [Next]_vars => ReportInv'
<1> SUFFICES ASSUME ReportInv, [Next]_vars PROVE ReportInv'
  OBVIOUS
<1>1. CASE \E x \in AllControls : \E v \in Setup.settings[x] \cup {None} : Set(x, v)
  BY <1>1, SetKeepsInv
<1>2. CASE \E p \in Paths \cup {<<>>} : BeginReport(p)
  BY <1>2, BeginReportKeepsInv
<1>3. CASE PrepareElement
  BY <1>3, PrepareKeepsInv
<1>4. CASE BeginFilling
  BY <1>4, BeginFillingKeepsInv
<1>5. CASE \E x \in AllControls : Fill(x)
  BY <1>5, FillKeepsInv
<1> QED BY <1>1, <1>2, <1>3, <1>4, <1>5, OtherStepsKeepReportInv DEF Next, Report

\* The inductive invariant of reports.
THEOREM ReportsArePrepared == Spec => []ReportInv
BY InitReportInv, NextKeepsReportInv, PTL DEF Spec

\* A report has the fragments the current settings ask for, in the order of
\* the path and by rank, whatever the order the settings come in
\* (compute_sorted_result()).
THEOREM ReportsAreExact == Spec => []ReportIsExact
<1>1. ReportInv => ReportIsExact
  <2> SUFFICES ASSUME ReportInv, Computed PROVE ReportIsExact
    BY DEF ReportIsExact
  <2>1. phase = "filling" /\ unfilled = {} /\ position = Len(path) /\ PathInv
    BY DEF Computed, ReportInv
  <2>2. PICK L : IsLayout(L, position) /\ entries = PlacesFor(L[position])
    BY <2>1 DEF ReportInv
  <2>3. PICK s : s = L[position]
    OBVIOUS
  <2>4. IsPrepared(s, Len(path)) /\ Len(path) \in Nat /\ DOMAIN path = 1..Len(path)
    BY <2>1, <2>2, <2>3, LayoutFacts, PathFacts
  <2>5. DOMAIN entries = DOMAIN s
        /\ \A i \in DOMAIN s : entries[i] = [control |-> s[i], fragment |-> CurrentFragment(s[i])]
    BY <2>1, <2>2, <2>3 DEF PlacesFor, FragmentNow
  <2>6. \A i, j \in DOMAIN entries : i < j => Before(entries[i].control, entries[j].control)
    BY <2>4, <2>5 DEF IsPrepared
  <2>7. ASSUME NEW x \in OnPath(path) \cap DOMAIN Setup.roon, ~IsShadowed(x)
        PROVE  [control |-> x, fragment |-> CurrentFragment(x)] \in ElementsOf(entries)
    <3>1. PICK n \in 1..Len(path) : x \in ControlsAt[path[n]]
      BY <2>4 DEF OnPath, ElementsOf
    <3>2. PositionOf(x) = n
      BY <2>1, <3>1, PositionIsUnique
    <3>3. x \in Ranked(path[n])
      BY <2>7, <3>1, <3>2 DEF IsShadowed, Ranked
    <3>4. PICK i \in DOMAIN s : s[i] = x
      BY <2>4, <3>3 DEF IsPrepared
    <3> QED BY <2>5, <3>4 DEF ElementsOf
  <2> QED BY <2>6, <2>7 DEF ReportIsExact, Before, CurrentFragment
<1> QED BY <1>1, ReportsArePrepared, PTL

(***************************************************************************)
(* Suppression: the entry of a mapping that is used is the one for the     *)
(* text of the setting that selects it.  The hypothesis is about selectors *)
(* whose values are all numbers of int64_t: their width overflows.         *)
(***************************************************************************)
SelectorsAreNarrow ==
  \A s \in ElementsOf(Setups) : \A x \in DOMAIN s.roon :
    LET m == s.roon[x].mapping
    IN /\ s.controls[x].type # "on_off" /\ m # Failed /\ m.type = "select"
       /\ m.select \in DOMAIN s.controls
       /\ s.controls[m.select].type = "range"
       => Width(s.controls[m.select]) # 0

LEMMA SetupTypes ==
  ASSUME setup \in DOMAIN Setups
  PROVE  /\ Setup \in ElementsOf(Setups)
         /\ \A x \in DOMAIN Setup.controls : IsControl(Setup.controls[x]) /\ IsDefinition(Setup.controls[x])
         /\ \A x \in AllControls : \A v \in Setup.settings[x] : IsValue(v)
<1> DEFINE s == Setup
<1>1. s \in ElementsOf(Setups)
  BY DEF Setup, ElementsOf
<1> HIDE DEF s
<1>2. /\ \A x \in DOMAIN s.controls : IsControl(s.controls[x]) /\ IsDefinition(s.controls[x])
      /\ \A x \in AllControls : \A v \in s.settings[x] : IsValue(v)
  BY <1>1, ReportsAssumption, Zenon
<1> QED BY <1>1, <1>2, Zenon DEF s

\* Nothing is reported of a control in neutral position.
LEMMA NeutralIsSilent ==
  ASSUME NEW c, NEW r, NEW v, NEW controls, NEW f, Fragment(c, r, v, controls, f) # Null
  PROVE  ~(c.type \in {"choice", "range", "on_off"} /\ IsNeutral(c, v))
<1> SUFFICES ASSUME c.type \in {"choice", "range", "on_off"}, IsNeutral(c, v) PROVE FALSE
  OBVIOUS
<1>1. CASE c.type = "on_off"
  <2>1. PICK b \in BOOLEAN : b = (c.neutral = On)
    OBVIOUS
  <2>2. v = Value("BOOL", Bool(b))
    BY <1>1, <2>1 DEF IsNeutral
  <2>3. JsonEqual(v.json, Bool(b))
    BY <2>2 DEF JsonEqual, IsNumber, Value, Bool
  <2>4. Fragment(c, r, v, controls, f) = Null
    BY <1>1, <2>1, <2>3 DEF Fragment, FlagFragment
  <2> QED BY <2>4
<1>2. CASE c.type # "on_off"
  BY <1>2 DEF Fragment, ValueFragment
<1> QED BY <1>1, <1>2

\* What is reported through a table of "select" has an entry of that table.
LEMMA SelectedEntry ==
  ASSUME NEW c, NEW r, NEW v, NEW controls, NEW f, Fragment(c, r, v, controls, f) # Null,
         c.type # "on_off", r.mapping.type = "select"
  PROVE  LET m == r.mapping
             index == SelectorOf(controls[m.select], f[m.select])
             text == ChoiceText(controls[m.select], index)
         IN /\ m # Failed /\ m.select \in DOMAIN controls /\ f[m.select] # None
            /\ index # UIntMax
            /\ text \in DOMAIN m.table /\ m.table[text].type # "suppress"
<1> DEFINE m == r.mapping
           index == SelectorOf(controls[m.select], f[m.select])
           text == ChoiceText(controls[m.select], index)
<1>1. m # Failed /\ MapValue(c, v, m, controls, f) # Null
  BY DEF Fragment, ValueFragment
<1>2. MapValue(c, v, m, controls, f) = MapByTable(c, v, m, controls, f)
  BY DEF MapValue
<1>3. SelectedIndex(m, controls, f) # UIntMax
  BY <1>1, <1>2 DEF MapByTable
<1>4. m.select \in DOMAIN controls /\ f[m.select] # None /\ SelectedIndex(m, controls, f) = index
  BY <1>3 DEF SelectedIndex
<1>5. MapByTable(c, v, m, controls, f) = MapBySelection(c, v, m, text)
  BY <1>3, <1>4 DEF MapByTable
<1>6. MapBySelection(c, v, m, text) # Null
  BY <1>1, <1>2, <1>5
<1>7. text \in DOMAIN m.table
  BY <1>6 DEF MapBySelection
<1>8. m.table[text].type # "suppress"
  BY <1>6, <1>7 DEF MapBySelection, MapPrimitive
<1> QED BY <1>1, <1>3, <1>4, <1>7, <1>8

\* A control is silent in neutral position, and while the setting it depends
\* on is missing or has selected "suppress" (map_value_via_select_table()).
THEOREM SuppressedAreSilent == SelectorsAreNarrow => (Spec => []SuppressedControlsAreSilent)
<1> SUFFICES ASSUME SelectorsAreNarrow PROVE Spec => []SuppressedControlsAreSilent
  OBVIOUS
<1>1. ReportInv => SuppressedControlsAreSilent
  <2> SUFFICES ASSUME ReportInv, Computed, NEW e \in ElementsOf(entries), e.fragment # Null
               PROVE  LET c == Setup.controls[e.control]
                          m == Setup.roon[e.control].mapping
                      IN /\ ~IsNeutral(c, values[e.control])
                         /\ (c.type # "on_off" /\ m.type = "select") => HasChosen(m)
    BY DEF SuppressedControlsAreSilent, HasChosen
  <2>1. phase = "filling" /\ unfilled = {} /\ PathInv /\ setup \in DOMAIN Setups
    BY DEF Computed, ReportInv, PathInv
  <2>2. PICK L : IsLayout(L, position) /\ entries = PlacesFor(L[position])
    BY <2>1 DEF ReportInv
  <2>3. PICK s : s = L[position]
    OBVIOUS
  <2>4. PICK i \in DOMAIN s : e = [control |-> s[i], fragment |-> CurrentFragment(s[i])]
    BY <2>1, <2>2, <2>3 DEF PlacesFor, FragmentNow, ElementsOf
  <2>5. PICK x : x = e.control
    OBVIOUS
  <2>6. x \in DOMAIN Setup.roon /\ x \in DOMAIN Setup.controls /\ e.fragment = CurrentFragment(x)
    BY <2>1, <2>2, <2>3, <2>4, <2>5, LayoutFacts, SetupFacts
  <2>7. PICK c, r, v : c = Setup.controls[x] /\ r = Setup.roon[x] /\ v = values[x]
    OBVIOUS
  <2>8. Fragment(c, r, v, Setup.controls, values) # Null
    BY <2>6, <2>7 DEF CurrentFragment
  <2>9. c.type \in {"choice", "range", "on_off"}
    BY <2>1, <2>6, <2>7, SetupTypes DEF IsDefinition
  <2>10. ~IsNeutral(c, v)
    BY <2>8, <2>9, NeutralIsSilent
  <2>11. ASSUME c.type # "on_off", r.mapping.type = "select"
         PROVE  HasChosen(r.mapping)
    <3>1. PICK m, d, w : m = r.mapping /\ d = Setup.controls[m.select] /\ w = values[m.select]
      OBVIOUS
    <3>2. /\ m # Failed /\ m.select \in DOMAIN Setup.controls /\ w # None
          /\ SelectorOf(d, w) # UIntMax
          /\ ChoiceText(d, SelectorOf(d, w)) \in DOMAIN m.table
          /\ m.table[ChoiceText(d, SelectorOf(d, w))].type # "suppress"
      BY <2>8, <2>11, <3>1, SelectedEntry
    <3>3. m.select \in AllControls /\ w \in Setup.settings[m.select]
      BY <2>1, <3>1, <3>2, SetupFacts DEF ReportInv
    <3>4. IsControl(d) /\ IsDefinition(d) /\ IsValue(w)
      BY <2>1, <3>1, <3>2, <3>3, SetupTypes
    <3>5. d.type = "range" => Width(d) # 0
      BY <2>1, <2>6, <2>7, <2>11, <3>1, <3>2, SetupTypes DEF SelectorsAreNarrow
    <3>6. ChoiceText(d, SelectorOf(d, w)) = ChosenText(d, w)
      BY <3>2, <3>4, <3>5, SelectorFacts
    <3> QED BY <3>1, <3>2, <3>6 DEF HasChosen
  <2> QED BY <2>5, <2>7, <2>10, <2>11
<1> QED BY <1>1, ReportsArePrepared, PTL

(***************************************************************************)
(* Reports and changes: what is to be reported depends on the path and on  *)
(* the settings that matter to it.                                         *)
(***************************************************************************)
Reportable == OnPath(path) \cap DOMAIN Setup.roon
Layout == (CHOOSE L : IsLayout(L, Len(path)))[Len(path)]
ExpectedPlaces ==
  [i \in DOMAIN Layout |->
     [control  |-> Layout[i],
      fragment |-> IF Layout[i] \in Reportable THEN CurrentFragment(Layout[i]) ELSE Null]]
Expected == ReportOf(ExpectedPlaces)
AsRemembered(r) == IF r = NoReport THEN EmptyReport ELSE r

\* As long as nothing relevant changed, the last report is the current one,
\* as far as clients can tell, or exactly.
NewsInv ==
  /\ ReportInv
  /\ relevant \in BOOLEAN
  /\ ~relevant => SameReport(Expected, previous) \/ previous = AsRemembered(Expected)
  /\ OnlyChangesAreReported

LEMMA SameReportable ==
  ASSUME UNCHANGED <<setup, path>>, \A y \in Reportable : UNCHANGED CurrentFragment(y)
  PROVE  UNCHANGED Expected
<1>1. Reportable' = Reportable
  BY DEF Reportable, OnPath, Setup
<1>2. \A L : IsLayout(L, Len(path))' <=> IsLayout(L, Len(path))
  <2> SUFFICES ASSUME NEW L PROVE IsLayout(L, Len(path))' <=> IsLayout(L, Len(path))
    OBVIOUS
  <2>1. PICK n : n = Len(path)
    OBVIOUS
  <2>2. IsLayout(L, n)' <=> IsLayout(L, n)
    BY SamePathSameLayout
  <2> QED BY <2>1, <2>2
<1>3. Layout' = Layout
  BY <1>2 DEF Layout
<1>4. ExpectedPlaces' = ExpectedPlaces
  BY <1>1, <1>3 DEF ExpectedPlaces
<1> QED BY <1>4 DEF Expected, ReportOf

\* A control is reported by its own setting and by the one that selects from
\* its mapping.
LEMMA FragmentDependsOnSelector ==
  ASSUME NEW c, NEW r, NEW v, NEW controls, NEW f, NEW g,
         c.type # "on_off" /\ r.mapping # Failed /\ r.mapping.select \in DOMAIN controls =>
           f[r.mapping.select] = g[r.mapping.select]
  PROVE  Fragment(c, r, v, controls, f) = Fragment(c, r, v, controls, g)
<1>1. CASE c.type = "on_off"
  BY <1>1 DEF Fragment
<1>2. CASE c.type # "on_off" /\ r.mapping = Failed
  BY <1>2 DEF Fragment, ValueFragment
<1>3. CASE c.type # "on_off" /\ r.mapping # Failed
  <2>1. SelectedIndex(r.mapping, controls, f) = SelectedIndex(r.mapping, controls, g)
    BY <1>3 DEF SelectedIndex
  <2>2. MapByTable(c, v, r.mapping, controls, f) = MapByTable(c, v, r.mapping, controls, g)
    BY <2>1 DEF MapByTable
  <2>3. MapValue(c, v, r.mapping, controls, f) = MapValue(c, v, r.mapping, controls, g)
    BY <2>2 DEF MapValue
  <2> QED BY <1>3, <2>3 DEF Fragment, ValueFragment
<1> QED BY <1>1, <1>2, <1>3

LEMMA IrrelevantSettings ==
  ASSUME ReportInv, NEW x \in AllControls, NEW v, values' = [values EXCEPT ![x] = v],
         UNCHANGED <<setup, path>>, ~Matters(x, path)
  PROVE  UNCHANGED Expected
<1>1. Setup' = Setup /\ DOMAIN values = AllControls /\ DOMAIN Setup.controls \subseteq AllControls
  BY SetupFacts DEF Setup, ReportInv, PathInv
<1>2. ASSUME NEW y \in Reportable
      PROVE  UNCHANGED CurrentFragment(y)
  <2> DEFINE m == Setup.roon[y].mapping
  <2>1. x # y /\ x \notin Selectors(y)
    BY DEF Matters, Reportable
  <2>2. y \in AllControls
    BY <1>1, SetupFacts DEF Reportable, ReportInv, PathInv
  <2>3. values'[y] = values[y]
    BY <1>1, <2>1, <2>2
  <2>4. PICK c, r, controls, f, g : /\ c = Setup.controls[y] /\ r = Setup.roon[y]
                                    /\ controls = Setup.controls /\ f = values' /\ g = values
    OBVIOUS
  <2>5. ASSUME c.type # "on_off", r.mapping # Failed, r.mapping.select \in DOMAIN controls
        PROVE  f[r.mapping.select] = g[r.mapping.select]
    <3>1. x # m.select
      BY <2>1, <2>4, <2>5 DEF Selectors
    <3> QED BY <1>1, <2>4, <2>5, <3>1
  <2>6. \A v2 : Fragment(c, r, v2, controls, f) = Fragment(c, r, v2, controls, g)
    BY ONLY <2>5, FragmentDependsOnSelector
  <2>7. Fragment(Setup.controls[y], Setup.roon[y], values[y], Setup.controls, values')
        = Fragment(Setup.controls[y], Setup.roon[y], values[y], Setup.controls, values)
    BY <2>4, <2>6
  <2> QED BY <1>1, <2>3, <2>7 DEF CurrentFragment
<1> QED BY <1>2, SameReportable

LEMMA OutputIsExpected ==
  ASSUME ReportInv, phase = "filling", unfilled = {}
  PROVE  Output = Expected
<1>1. position = Len(path) /\ PathInv
  BY DEF ReportInv
<1>2. PICK L : IsLayout(L, position) /\ entries = PlacesFor(L[position])
  BY DEF ReportInv
<1>3. PICK n : n = Len(path)
  OBVIOUS
<1>4. n \in Nat /\ IsLayout(L, n) /\ n = position
  BY <1>1, <1>2, <1>3, PathFacts
<1>5. Layout = L[n]
  <2>1. PICK M : M = CHOOSE K : IsLayout(K, n)
    OBVIOUS
  <2>2. IsLayout(M, n)
    BY <1>4, <2>1
  <2>3. M = L
    BY <1>4, <2>2, LayoutIsUnique
  <2> QED BY <1>3, <2>1, <2>3 DEF Layout
<1>6. \A i \in DOMAIN Layout : Layout[i] \in Reportable
  BY <1>2, <1>4, <1>5, LayoutFacts DEF Reportable
<1>7. entries = ExpectedPlaces
  BY <1>2, <1>4, <1>5, <1>6 DEF PlacesFor, ExpectedPlaces, FragmentNow
<1> QED BY <1>7 DEF Output, Expected

LEMMA NumericReportIsItself ==
  ASSUME NEW r, r = NoReport \/ IsNumeric(r)
  PROVE  SameReport(r, r)
<1>1. CASE r = NoReport
  BY <1>1 DEF SameReport
<1>2. CASE r # NoReport
  <2>1. ASSUME NEW i \in DOMAIN r.fragments
        PROVE  SameFragment(r.fragments[i], r.fragments[i])
    <3> DEFINE f == r.fragments[i]
    <3>1. "value" \in DOMAIN f => f.value # NaN
      BY <1>2 DEF IsNumeric
    <3>2. JsonEqual(f.value, f.value)
      BY DEF JsonEqual
    <3> QED BY <3>1, <3>2 DEF SameFragment
  <2> QED BY <1>2, <2>1 DEF SameReport
<1> QED BY <1>1, <1>2

LEMMA InitNewsInv == Init => NewsInv
<1> SUFFICES ASSUME Init PROVE NewsInv
  OBVIOUS
<1>1. path = <<>> /\ previous = NoReport /\ relevant = FALSE /\ outcome = "none"
  BY DEF Init
<1>2. Expected = NoReport
  BY <1>1 DEF Expected, ReportOf
<1> QED BY <1>1, <1>2, InitReportInv, NumericReportIsItself DEF NewsInv, OnlyChangesAreReported

LEMMA EndReportKeepsNews ==
  ASSUME NewsInv, EndReport
  PROVE  NewsInv'
<1>1. ReportInv /\ ReportInv'
  BY NextKeepsReportInv DEF NewsInv, Next, Report
<1>2. /\ phase = "filling" /\ unfilled = {} /\ relevant' = FALSE
      /\ IF SameReport(Output, previous)
         THEN previous' = previous /\ outcome' = "none"
         ELSE /\ previous' = AsRemembered(Output)
              /\ outcome' = IF relevant THEN "due" ELSE "undue"
      /\ UNCHANGED <<setup, values, path>>
  BY DEF EndReport, store, AsRemembered
<1>3. Output = Expected
  BY <1>1, <1>2, OutputIsExpected
<1>4. Expected' = Expected
  <2>1. \A y : UNCHANGED CurrentFragment(y)
    BY <1>2 DEF CurrentFragment, Setup
  <2> QED BY <1>2, <2>1, SameReportable
<1>5. CASE SameReport(Output, previous)
  <2>1. SameReport(Expected', previous')
    BY <1>2, <1>3, <1>4, <1>5
  <2>2. SameReport(Expected, previous)'
    BY <2>1
  <2> QED BY <1>1, <1>2, <1>5, <2>2 DEF NewsInv, OnlyChangesAreReported
<1>6. CASE ~SameReport(Output, previous)
  <2>1. previous' = AsRemembered(Expected)'
    BY <1>2, <1>3, <1>4, <1>6 DEF AsRemembered
  <2>2. ASSUME ~relevant
        PROVE  previous' = EmptyReport \/ ~IsNumeric(previous')
    <3>1. previous = AsRemembered(Output)
      BY <1>3, <1>6, <2>2 DEF NewsInv
    <3>2. Output # NoReport => ~IsNumeric(Output)
      BY <1>6, <3>1, NumericReportIsItself DEF AsRemembered
    <3> QED BY <1>2, <1>6, <3>2 DEF AsRemembered
  <2>3. OnlyChangesAreReported'
    BY <1>2, <1>6, <2>2 DEF OnlyChangesAreReported, IsNumeric, EmptyReport
  <2> QED BY <1>1, <1>2, <2>1, <2>3 DEF NewsInv
<1> QED BY <1>5, <1>6

LEMMA NextKeepsNewsInv == NewsInv /\ [Next]_vars => NewsInv'
<1> SUFFICES ASSUME NewsInv, [Next]_vars PROVE NewsInv'
  OBVIOUS
<1>1. ReportInv /\ ReportInv'
  BY NextKeepsReportInv DEF NewsInv
<1>2. ASSUME UNCHANGED <<setup, path, values, relevant, previous, outcome>>
      PROVE  NewsInv'
  <2>1. \A y : UNCHANGED CurrentFragment(y)
    BY <1>2 DEF CurrentFragment, Setup
  <2>2. Expected' = Expected
    BY <1>2, <2>1, SameReportable
  <2>3. OnlyChangesAreReported' /\ (~relevant => (SameReport(Expected, previous) \/ previous = AsRemembered(Expected))')
    BY <1>2, <2>2 DEF NewsInv, OnlyChangesAreReported, IsNumeric, SameReport, AsRemembered, EmptyReport
  <2> QED BY <1>1, <1>2, <2>3 DEF NewsInv
<1>3. ASSUME NEW x \in AllControls, NEW v, Set(x, v)
      PROVE  NewsInv'
  <2>1. /\ values' = [values EXCEPT ![x] = v] /\ relevant' = (relevant \/ Matters(x, path))
        /\ UNCHANGED <<setup, path, previous, outcome>>
    BY <1>3 DEF Set, cache
  <2>2. relevant' \in BOOLEAN
    BY <2>1
  <2>3. OnlyChangesAreReported'
    BY <2>1 DEF NewsInv, OnlyChangesAreReported, IsNumeric, EmptyReport
  <2>4. ASSUME ~relevant'
        PROVE  (SameReport(Expected, previous) \/ previous = AsRemembered(Expected))'
    <3>1. ~relevant /\ ~Matters(x, path)
      BY <2>1, <2>4
    <3>2. Expected' = Expected
      BY <1>1, <2>1, <3>1, IrrelevantSettings
    <3> QED BY <2>1, <3>1, <3>2 DEF NewsInv, SameReport, AsRemembered, EmptyReport
  <2> QED BY <1>1, <2>2, <2>3, <2>4 DEF NewsInv
<1>4. ASSUME NEW p, BeginReport(p)
      PROVE  NewsInv'
  <2>1. path' = p /\ relevant' = (relevant \/ p # path) /\ UNCHANGED <<setup, values, previous, outcome>>
    BY <1>4 DEF BeginReport, store
  <2>2. relevant' \in BOOLEAN
    BY <2>1
  <2>3. OnlyChangesAreReported'
    BY <2>1 DEF NewsInv, OnlyChangesAreReported, IsNumeric, EmptyReport
  <2>4. ASSUME ~relevant'
        PROVE  (SameReport(Expected, previous) \/ previous = AsRemembered(Expected))'
    <3>1. ~relevant /\ path' = path
      BY <2>1, <2>4
    <3>2. \A y : UNCHANGED CurrentFragment(y)
      BY <2>1 DEF CurrentFragment, Setup
    <3>3. Expected' = Expected
      BY <2>1, <3>1, <3>2, SameReportable
    <3> QED BY <2>1, <3>1, <3>3 DEF NewsInv, SameReport, AsRemembered, EmptyReport
  <2> QED BY <1>1, <2>2, <2>3, <2>4 DEF NewsInv
<1>5. CASE PrepareElement \/ BeginFilling \/ (\E x \in AllControls : Fill(x)) \/ UNCHANGED vars
  <2>1. UNCHANGED <<setup, path, values, relevant, previous, outcome>>
    BY <1>5 DEF PrepareElement, BeginFilling, Fill, vars, store, cache
  <2> QED BY <1>2, <2>1
<1> QED BY <1>3, <1>4, <1>5, EndReportKeepsNews DEF Next, Report

\* Clients are only bothered if the path is another one, or if a setting that
\* matters to it was changed (full_report()), whatever else is changed in
\* between, except for empty reports and for 0/0.
THEOREM ReportsAreNews == Spec => []OnlyChangesAreReported
<1>1. NewsInv => OnlyChangesAreReported
  BY DEF NewsInv
<1> QED BY <1>1, InitNewsInv, NextKeepsNewsInv, PTL DEF Spec

\* Places belong to different controls along the path.
LEMMA PlacesAreDifferent ==
  ASSUME ReportInv
  PROVE  /\ {e.control : e \in ElementsOf(entries)} \subseteq OnPath(path) \cap DOMAIN Setup.roon
         /\ Cardinality({e.control : e \in ElementsOf(entries)}) = Len(entries)
<1>1. CASE phase = "idle"
  <2>1. entries = <<>>
    BY <1>1 DEF ReportInv
  <2>2. ElementsOf(entries) = {} /\ {e.control : e \in ElementsOf(entries)} = {} /\ Len(entries) = 0
    BY <2>1 DEF ElementsOf
  <2> QED BY <2>2, FS_EmptySet
<1>2. CASE phase # "idle"
  <2>1. PICK L : IsLayout(L, position) /\ entries = PlacesFor(L[position])
    BY <1>2 DEF ReportInv
  <2>2. PICK s : s = L[position]
    OBVIOUS
  <2>3. IsPrepared(s, position) /\ \A i \in DOMAIN s : s[i] \in OnPath(path) \cap DOMAIN Setup.roon
    BY <2>1, <2>2, LayoutFacts
  <2>4. PICK n \in Nat : n = Len(s) /\ DOMAIN s = 1..n
    BY <2>3 DEF IsPrepared
  <2>5. DOMAIN entries = 1..n /\ \A i \in 1..n : entries[i].control = s[i]
    BY <2>1, <2>2, <2>4 DEF PlacesFor
  <2>6. Len(entries) = n
    <3>1. entries = [i \in 1..n |-> entries[i]]
      BY <2>1, <2>2, <2>4 DEF PlacesFor
    <3> QED BY <2>4, <2>5, <3>1
  <2> DEFINE C == {e.control : e \in ElementsOf(entries)}
             f == [i \in 1..n |-> s[i]]
  <2>7. C = {s[i] : i \in 1..n}
    BY <2>5 DEF ElementsOf
  <2>8. \A i, j \in 1..n : i < j => s[i] # s[j]
    <3> SUFFICES ASSUME NEW i \in 1..n, NEW j \in 1..n, i < j, s[i] = s[j] PROVE FALSE
      OBVIOUS
    <3>1. Before(s[i], s[i])
      BY <2>3, <2>4 DEF IsPrepared
    <3>2. PICK m \in 1..position : s[i] \in Ranked(path[m])
      BY <2>3, <2>4 DEF IsPrepared
    <3>3. PathInv /\ position \in 0..Len(path) /\ Len(path) \in Nat
      <4>1. PathInv /\ position \in 0..Len(path)
        BY DEF ReportInv
      <4> QED BY <4>1, PathFacts
    <3>4. m \in 1..Len(path) /\ s[i] \in ControlsAt[path[m]]
      BY <3>2, <3>3 DEF Ranked
    <3>5. PositionOf(s[i]) \in Nat
      <4>1. PositionOf(s[i]) = m
        BY <3>3, <3>4, PositionIsUnique
      <4> QED BY <4>1
    <3>6. RankOf(s[i]) \in Nat
      <4>1. s[i] \in DOMAIN Setup.roon
        BY <2>3, <2>4
      <4> QED BY <4>1, <3>3, SetupFacts DEF RankOf, PathInv
    <3> QED BY <3>1, <3>5, <3>6 DEF Before
  <2> HIDE DEF C
  <2>9. f \in Bijection(1..n, C)
    <3>1. f \in [1..n -> C] /\ \A y \in C : \E i \in 1..n : f[i] = y
      BY <2>7
    <3>2. \A i, j \in 1..n : f[i] = f[j] => i = j
      BY <2>8
    <3> HIDE DEF f
    <3> QED BY <3>1, <3>2 DEF Bijection, Injection, Surjection, IsInjective
  <2>10. Cardinality(C) = n
    BY <2>9, FS_CountingElements DEF ExistsBijection
  <2>11. C \subseteq OnPath(path) \cap DOMAIN Setup.roon
    BY <2>3, <2>4, <2>7
  <2> QED BY <2>6, <2>10, <2>11 DEF C
<1> QED BY <1>1, <1>2

OutcomeInv == outcome \in {"none", "due", "undue"}

\* Type correctness: each control along the path has at most one place, and
\* no other has one.
THEOREM ReportTypeCorrect == Spec => []TypeOK
<1>1. Init => OutcomeInv
  BY DEF Init, OutcomeInv
<1>2. OutcomeInv /\ [Next]_vars => OutcomeInv'
  BY DEF OutcomeInv, Next, Report, Set, BeginReport, PrepareElement, BeginFilling, Fill, EndReport, vars
<1>3. NewsInv /\ OutcomeInv => TypeOK
  <2> SUFFICES ASSUME NewsInv, OutcomeInv PROVE TypeOK
    OBVIOUS
  <2>1. ReportInv /\ PathInv /\ relevant \in BOOLEAN
    BY DEF NewsInv, ReportInv
  <2> QED BY <2>1, PlacesAreDifferent DEF OutcomeInv, ReportInv, PathInv, TypeOK
<1> QED BY <1>1, <1>2, <1>3, InitNewsInv, NextKeepsNewsInv, PTL DEF Spec

(***************************************************************************)
(* Mapping a range to another: the numbers that come up are what they are  *)
(* without casts and overflows, and fractions are ordered by their         *)
(* numerators.                                                             *)
(***************************************************************************)
LEMMA NumbersFit ==
  ASSUME NEW vt, NEW j, IsEnd(j, vt)
  PROVE  RangeChecked(j, vt) = j.num /\ j.num \in Int
<1>1. PICK n : n = j.num
  OBVIOUS
<1>2. vt \in IntegerTypes \cup {"DOUBLE"} /\ IsNumber(j)
      /\ n \in IF vt = "DOUBLE" THEN Int ELSE RangeOf(vt)
  BY <1>1 DEF IsEnd
<1>3. CASE vt = "DOUBLE"
  <2>1. vt \notin SignedTypes
    BY <1>3 DEF SignedTypes
  <2> QED BY <1>1, <1>2, <1>3, <2>1 DEF RangeChecked
<1>4. CASE vt # "DOUBLE"
  <2>1. PICK h, span : h = 2 ^ (Bits[vt] - 1) /\ span = 2 ^ Bits[vt]
    OBVIOUS
  <2>2. h \in Nat \ {0} /\ span = 2 * h /\ span <= Word
    BY <1>2, <1>4, <2>1, PowersAssumption
  <2>3. PICK g : Word = 2 * g /\ g \in Nat
    <3>1. "INT64" \in IntegerTypes
      BY DEF IntegerTypes, SignedTypes
    <3> QED BY <3>1, PowersAssumption DEF Word
  <2>4. PICK size : size = Word
    OBVIOUS
  <2>5. CASE vt \in SignedTypes
    <3>1. n \in -h .. h - 1
      BY <1>2, <1>4, <2>1, <2>5 DEF RangeOf
    <3>2. size \div 2 = g
      BY <2>3, <2>4
    <3>3. n \in Int /\ n < size \div 2 /\ size \div 2 <= n + size
      BY <2>2, <2>3, <2>4, <3>1, <3>2
    <3>4. ToInt64(n) = n
      BY <2>4, <3>3, CastKeeps
    <3>5. n \in RangeOf(vt)
      BY <1>2, <1>4
    <3> QED BY <1>1, <1>2, <1>4, <2>5, <3>3, <3>4, <3>5 DEF RangeChecked
  <2>6. CASE vt \notin SignedTypes
    <3>1. n \in 0 .. span - 1
      BY <1>2, <1>4, <2>1, <2>6 DEF RangeOf
    <3>2. n \in Int /\ n \in 0 .. size - 1
      BY <2>2, <2>3, <2>4, <3>1
    <3>3. ToUInt64(n) = n
      BY <2>4, <3>2, CastKeeps
    <3>4. n \in RangeOf(vt)
      BY <1>2, <1>4
    <3> QED BY <1>1, <1>2, <1>4, <2>6, <3>2, <3>3, <3>4 DEF RangeChecked
  <2> QED BY <2>5, <2>6
<1> QED BY <1>3, <1>4

LEMMA NumbersBetweenFit ==
  ASSUME NEW vt, NEW i, NEW k, IsEnd(i, vt), IsEnd(k, vt), NEW n \in i.num .. k.num
  PROVE  IsEnd(IntNum(n), vt)
<1>1. i.num \in Int /\ k.num \in Int /\ n \in Int
  BY NumbersFit
<1>2. vt \in IntegerTypes \cup {"DOUBLE"} /\ IsNumber(IntNum(n)) /\ IntNum(n).num = n
  BY DEF IsEnd, IsNumber, IntNum
<1>3. CASE vt = "DOUBLE"
  BY <1>1, <1>2, <1>3 DEF IsEnd
<1>4. CASE vt # "DOUBLE"
  <2>1. i.num \in RangeOf(vt) /\ k.num \in RangeOf(vt)
    BY <1>4 DEF IsEnd
  <2>2. PICK h, span : h = 2 ^ (Bits[vt] - 1) /\ span = 2 ^ Bits[vt]
    OBVIOUS
  <2>3. h \in Nat /\ span \in Nat
    BY <1>2, <1>4, <2>2, PowersAssumption
  <2>4. RangeOf(vt) = -h .. h - 1 \/ RangeOf(vt) = 0 .. span - 1
    BY <2>2 DEF RangeOf
  <2>5. n \in RangeOf(vt)
    BY <1>1, <2>1, <2>3, <2>4
  <2> QED BY <1>2, <1>4, <2>5 DEF IsEnd
<1> QED BY <1>3, <1>4

LEMMA DifferenceIsExact ==
  ASSUME NEW vt \in IntegerTypes \cup {"DOUBLE"}, NEW a \in Int, NEW b \in Int, NEW width \in Int,
         b <= a, a - b <= width, IsWideEnough(vt, width)
  PROVE  Difference(vt, a, b) = a - b
<1>1. CASE vt \notin {"INT32", "INT64"}
  BY <1>1 DEF Difference
<1>2. CASE vt \in {"INT32", "INT64"}
  <2>1. PICK h, span : h = 2 ^ (Bits[vt] - 1) /\ span = 2 ^ Bits[vt]
    OBVIOUS
  <2>2. h \in Nat \ {0} /\ span = 2 * h /\ vt \in SignedTypes
    BY <1>2, <2>1, PowersAssumption DEF IntegerTypes, SignedTypes
  <2>3. width \in -h .. h - 1
    BY <1>2, <2>1, <2>2 DEF IsWideEnough, RangeOf
  <2>4. PICK d : d = a - b
    OBVIOUS
  <2>5. d \in 0 .. h - 1
    BY <2>2, <2>3, <2>4
  <2>6. d % span = d /\ span \div 2 = h
    BY <2>2, <2>5
  <2> QED BY <1>2, <2>1, <2>2, <2>4, <2>5, <2>6 DEF Difference
<1> QED BY <1>1, <1>2

\* A number over d is a whole number or a fraction of the same value.
LEMMA QuotientValue ==
  ASSUME NEW n \in Int, NEW d \in Nat \ {0}
  PROVE  \E num \in Int, den \in {1, d} :
           /\ NumberOf(Quotient(n, d)) = <<num, den>>
           /\ IF den = 1 THEN n = d * num ELSE num = n
<1>1. PICK q \in Int, r \in 0..d - 1 : q = n \div d /\ r = n % d /\ n = d * q + r
  BY Division
<1>2. Quotient(n, d) = IF r = 0 THEN RealNum(q) ELSE [kind |-> "fraction", num |-> n, den |-> d]
  <2>1. d > 0 /\ ~(d = 0) /\ ~(d < 0)
    OBVIOUS
  <2>2. Quotient(n, d) = Fraction(n, d)
    BY <2>1, Zenon DEF Quotient
  <2> QED BY <1>1, <2>2, Zenon DEF Fraction
<1>3. CASE r = 0
  <2>1. NumberOf(Quotient(n, d)) = <<q, 1>>
    BY <1>2, <1>3 DEF NumberOf, RealNum
  <2>2. n = d * q
    BY <1>1, <1>3
  <2> QED BY <2>1, <2>2
<1>4. CASE r # 0
  <2>1. NumberOf(Quotient(n, d)) = <<n, d>>
    BY <1>2, <1>4 DEF NumberOf
  <2>2. d # 1
    BY <1>1, <1>4
  <2> QED BY <2>1, <2>2
<1> QED BY <1>3, <1>4

LEMMA QuotientsAreOrdered ==
  ASSUME NEW m \in Int, NEW n \in Int, NEW d \in Nat \ {0}, m <= n
  PROVE  LessOrEqual(NumberOf(Quotient(m, d)), NumberOf(Quotient(n, d)))
<1>1. PICK p \in Int, e \in {1, d} : /\ NumberOf(Quotient(m, d)) = <<p, e>>
                                     /\ IF e = 1 THEN m = d * p ELSE p = m
  BY QuotientValue
<1>2. PICK q \in Int, f \in {1, d} : /\ NumberOf(Quotient(n, d)) = <<q, f>>
                                     /\ IF f = 1 THEN n = d * q ELSE q = n
  BY QuotientValue
<1>3. p * f <= q * e
  <2>1. CASE e = 1 /\ f = 1
    <3>1. ~(d * q < d * p)
      BY <1>1, <1>2, <2>1
    <3>2. ~(q < p)
      <4> SUFFICES ASSUME q < p PROVE FALSE
        OBVIOUS
      <4>1. PICK k \in Nat \ {0} : p = q + k
        <5>1. p - q \in Nat \ {0} /\ p = q + (p - q)
          OBVIOUS
        <5> QED BY <5>1
      <4>2. d * p = d * q + d * k /\ d * k \in Nat \ {0}
        BY <4>1
      <4>3. d * q \in Int /\ d * p \in Int
        OBVIOUS
      <4> QED BY <3>1, <4>2, <4>3
    <3> QED BY <2>1, <3>2
  <2>2. CASE e = 1 /\ f # 1
    <3>1. p * f = m /\ q * e = n
      BY <1>1, <1>2, <2>2
    <3> QED BY <3>1
  <2>3. CASE e # 1 /\ f = 1
    <3>1. p * f = m /\ q * e = n
      BY <1>1, <1>2, <2>3
    <3> QED BY <3>1
  <2>4. CASE e # 1 /\ f # 1
    <3>1. p = m /\ q = n /\ e = d /\ f = d
      BY <1>1, <1>2, <2>4
    <3>2. PICK k \in Nat : n = m + k
      <4>1. n - m \in Nat /\ n = m + (n - m)
        OBVIOUS
      <4> QED BY <4>1
    <3>3. n * d = m * d + k * d /\ k * d \in Nat /\ m * d \in Int
      BY <3>2
    <3> QED BY <3>1, <3>3
  <2> QED BY <2>1, <2>2, <2>3, <2>4
<1> QED BY <1>1, <1>2, <1>3 DEF LessOrEqual

LEMMA WholeQuotient ==
  ASSUME NEW a \in Int, NEW d \in Nat \ {0}
  PROVE  Quotient(a * d, d) = RealNum(a)
<1>1. a * d \in Int
  OBVIOUS
<1>2. PICK q \in Int, r \in 0..d - 1 :
        q = (a * d) \div d /\ r = (a * d) % d /\ a * d = d * q + r
  BY <1>1, Division
<1>3. d * (q + 1) = d * q + d /\ d * a = a * d /\ d * q \in Int /\ d * (a + 1) = d * a + d
  OBVIOUS
<1>4. d * a < d * (q + 1) /\ d * q < d * (a + 1)
  BY <1>1, <1>2, <1>3
<1>5. a < q + 1 /\ q < a + 1
  BY <1>4, ProductOrder
<1>6. q = a
  BY <1>5
<1>7. r = 0
  BY <1>2, <1>3, <1>6
<1> QED BY <1>2, <1>6, <1>7 DEF Quotient, Fraction

LEMMA ProductsAreOrdered ==
  ASSUME NEW a \in Int, NEW b \in Int, a <= b, NEW d \in Nat
  PROVE  a * d <= b * d
<1>1. PICK k \in Nat : b = a + k
  <2>1. b - a \in Nat /\ b = a + (b - a)
    OBVIOUS
  <2> QED BY <2>1
<1>2. b * d = a * d + k * d
  BY <1>1
<1>3. k * d \in Nat /\ a * d \in Int
  OBVIOUS
<1> QED BY <1>2, <1>3

LEMMA MappedNumber ==
  ASSUME NEW c, c.type = "range", NEW m, AreRanges(c, m), NEW n \in c.min.num .. c.max.num
  PROVE  LET width == c.max.num - c.min.num
             offset == n - c.min.num
             from == m.from.num
             to == m.to.num
         IN MapToRange(c, Value(c.vtype, IntNum(n)), m)
            = IF from <= to THEN Quotient(from * width + offset * (to - from), width)
                            ELSE Quotient(to * width + (width - offset) * (from - to), width)
<1>1. PICK min, max, from, to : min = c.min.num /\ max = c.max.num /\ from = m.from.num /\ to = m.to.num
  OBVIOUS
<1>2. /\ min \in Int /\ max \in Int /\ from \in Int /\ to \in Int /\ n \in Int
      /\ min <= n /\ n <= max /\ min < max
      /\ c.vtype \in IntegerTypes \cup {"DOUBLE"} /\ m.vtype \in IntegerTypes \cup {"DOUBLE"}
  <2>1. min \in Int /\ max \in Int /\ from \in Int /\ to \in Int
    BY <1>1, NumbersFit DEF AreRanges
  <2> QED BY <1>1, <2>1 DEF AreRanges, IsEnd
<1>3. PICK v : v = Value(c.vtype, IntNum(n))
  OBVIOUS
<1>4. RangeChecked(v.json, c.vtype) = n
  <2>1. IsEnd(IntNum(n), c.vtype)
    BY NumbersBetweenFit DEF AreRanges
  <2>2. v.json = IntNum(n) /\ IntNum(n).num = n
    BY <1>3 DEF Value, IntNum
  <2> QED BY <2>1, <2>2, NumbersFit
<1>5. /\ RangeChecked(c.min, c.vtype) = min /\ RangeChecked(c.max, c.vtype) = max
      /\ RangeChecked(m.from, m.vtype) = from /\ RangeChecked(m.to, m.vtype) = to
  BY <1>1, NumbersFit DEF AreRanges
<1>6. /\ Difference(c.vtype, n, min) = n - min
      /\ Difference(c.vtype, max, min) = max - min
  <2>1. PICK w \in Int : w = max - min
    BY <1>2
  <2>2. IsWideEnough(c.vtype, w)
    BY <1>1, <2>1 DEF AreRanges
  <2>3. n - min <= w /\ max - min <= w /\ min <= max
    BY <1>2, <2>1
  <2> QED BY <1>2, <2>2, <2>3, DifferenceIsExact
<1>7. PICK r : r = [offset |-> n - min, width |-> max - min]
  OBVIOUS
<1>8. Failed \notin {n, min, max} /\ from # Failed /\ to # Failed
  BY <1>2, ValuesAssumption
<1>9. ValueRatio(c, v) = r
  <2>1. c.vtype # "FIXPT"
    BY <1>2 DEF IntegerTypes, SignedTypes, UnsignedTypes
  <2> QED BY <1>2, <1>4, <1>5, <1>6, <1>7, <1>8, <2>1 DEF ValueRatio
<1>10. r # Failed
  <2>1. r \in [offset: Int, width: Int]
    BY <1>2, <1>7
  <2> QED BY <2>1, MappingsAssumption
<1>11. IsProperRatio(r)
  BY <1>2, <1>7 DEF IsProperRatio
<1>12. MapToRange(c, v, m) = RangePick(r, m.vtype, from, to)
  <2>1. m.from # Failed /\ m.to # Failed
    BY DEF AreRanges
  <2> QED BY <1>2, <1>5, <1>8, <1>9, <1>10, <1>11, <2>1 DEF MapToRange
<1>13. CASE from <= to
  <2>1. PICK w \in Int : w = to - from
    BY <1>2
  <2>2. IsWideEnough(m.vtype, w)
    BY <1>1, <1>13, <2>1 DEF AreRanges
  <2>3. Difference(m.vtype, to, from) = to - from
    <3>1. to - from <= w
      BY <1>2, <2>1
    <3> QED BY <1>2, <1>13, <2>2, <3>1, DifferenceIsExact
  <2> QED BY <1>1, <1>3, <1>7, <1>12, <1>13, <2>3 DEF RangePick
<1>14. CASE ~(from <= to)
  <2>1. PICK w \in Int : w = from - to
    BY <1>2
  <2>2. IsWideEnough(m.vtype, w)
    BY <1>1, <1>14, <2>1 DEF AreRanges
  <2>3. Difference(m.vtype, from, to) = from - to
    <3>1. from - to <= w /\ to <= from
      BY <1>2, <1>14, <2>1
    <3> QED BY <1>2, <2>2, <3>1, DifferenceIsExact
  <2> QED BY <1>1, <1>3, <1>7, <1>12, <1>14, <2>3 DEF RangePick
<1> QED BY <1>13, <1>14

\* Numerators grow, or fall, with the values; they are whole at the ends.
LEMMA RangesKeepOrder ==
  ASSUME NEW c, c.type = "range", NEW m, AreRanges(c, m)
  PROVE  KeepsOrder(c, m)
<1>1. PICK min, max, from, to : min = c.min.num /\ max = c.max.num /\ from = m.from.num /\ to = m.to.num
  OBVIOUS
<1>2. min \in Int /\ max \in Int /\ from \in Int /\ to \in Int /\ min < max
  BY <1>1, NumbersFit DEF AreRanges
<1>3. PICK w \in Nat \ {0} : w = max - min
  BY <1>2
<1> DEFINE N(n) == IF from <= to THEN from * w + (n - min) * (to - from)
                                 ELSE to * w + (w - (n - min)) * (from - to)
<1>4. \A n \in min..max : N(n) \in Int
  BY <1>2
<1>5. ASSUME NEW n \in min..max
      PROVE  MapToRange(c, Value(c.vtype, IntNum(n)), m) = Quotient(N(n), w)
  BY <1>1, <1>3, <1>5, MappedNumber
<1>6. N(min) = from * w /\ N(max) = to * w
  <2>1. CASE from <= to
    <3>1. PICK d \in Nat : d = to - from
      BY <1>2, <2>1
    <3>2. N(min) = from * w + 0 * d /\ N(max) = from * w + w * d
      BY <1>2, <1>3, <2>1, <3>1
    <3>3. w * d = to * w - from * w /\ 0 * d = 0 /\ from * w \in Int /\ to * w \in Int
      BY <1>2, <3>1
    <3> QED BY <3>2, <3>3
  <2>2. CASE ~(from <= to)
    <3>1. PICK d \in Nat : d = from - to
      BY <1>2, <2>2
    <3>2. N(min) = to * w + w * d /\ N(max) = to * w + 0 * d
      BY <1>2, <1>3, <2>2, <3>1
    <3>3. w * d = from * w - to * w /\ 0 * d = 0 /\ from * w \in Int /\ to * w \in Int
      BY <1>2, <3>1
    <3> QED BY <3>2, <3>3
  <2> QED BY <2>1, <2>2
<1>7. ASSUME NEW i \in min..max, NEW j \in min..max, i <= j
      PROVE  IF from <= to THEN N(i) <= N(j) ELSE N(j) <= N(i)
  <2>1. CASE from <= to
    <3>1. PICK d \in Nat : d = to - from
      BY <1>2, <2>1
    <3>2. PICK a \in Int, b \in Int : a = i - min /\ b = j - min /\ a <= b
      BY <1>2, <1>7
    <3>3. a * d <= b * d /\ a * d \in Int /\ b * d \in Int
      BY <3>2, ProductsAreOrdered
    <3>4. PICK e \in Int : e = from * w
      BY <1>2
    <3>5. N(i) = e + a * d /\ N(j) = e + b * d
      BY <2>1, <3>1, <3>2, <3>4
    <3> QED BY <2>1, <3>3, <3>5
  <2>2. CASE ~(from <= to)
    <3>1. PICK d \in Nat : d = from - to
      BY <1>2, <2>2
    <3>2. PICK a \in Int, b \in Int : a = w - (i - min) /\ b = w - (j - min) /\ b <= a
      BY <1>2, <1>7
    <3>3. b * d <= a * d /\ a * d \in Int /\ b * d \in Int
      BY <3>2, ProductsAreOrdered
    <3>4. PICK e \in Int : e = to * w
      BY <1>2
    <3>5. N(i) = e + a * d /\ N(j) = e + b * d
      BY <2>2, <3>1, <3>2, <3>4
    <3> QED BY <2>2, <3>3, <3>5
  <2> QED BY <2>1, <2>2
<1> DEFINE mapped == [n \in min..max |-> MapToRange(c, Value(c.vtype, IntNum(n)), m)]
<1>8. \A n \in min..max : mapped[n] = Quotient(N(n), w)
  BY <1>5
<1> HIDE DEF N, mapped
<1>9. Null \notin {mapped[n] : n \in min..max}
  <2> SUFFICES ASSUME NEW n \in min..max, mapped[n] = Null PROVE FALSE
    OBVIOUS
  <2>1. PICK k \in Int : k = N(n)
    BY <1>4
  <2>2. Quotient(k, w) = Null
    BY <1>8, <2>1
  <2>3. Quotient(k, w) = Fraction(k, w)
    <3>1. w > 0 /\ ~(w = 0) /\ ~(w < 0)
      OBVIOUS
    <3> QED BY <3>1, Zenon DEF Quotient
  <2> QED BY <2>2, <2>3 DEF Fraction, RealNum, Null
<1>10. mapped[min] = RealNum(from) /\ mapped[max] = RealNum(to)
  <2>1. min \in min..max /\ max \in min..max
    BY <1>2
  <2> QED BY <1>2, <1>6, <1>8, <2>1, WholeQuotient
<1>11. ASSUME NEW i \in min..max, NEW j \in min..max, i <= j
       PROVE  IF from <= to THEN LessOrEqual(NumberOf(mapped[i]), NumberOf(mapped[j]))
                            ELSE LessOrEqual(NumberOf(mapped[j]), NumberOf(mapped[i]))
  BY <1>4, <1>7, <1>8, <1>11, QuotientsAreOrdered
<1> QED BY <1>1, <1>9, <1>10, <1>11 DEF KeepsOrder, mapped

\* Within a range, the numbers reported for the values of a control keep the
\* order of the values and the ends of the target range
\* (map_value_to_range()), for any types and ranges wide enough.
THEOREM RangesAreMappedInOrder == Spec => []MappedValuesKeepTheirOrder
<1>1. MappedValuesKeepTheirOrder
  BY RangesKeepOrder DEF MappedValuesKeepTheirOrder
<1> QED BY <1>1, PTL

(***************************************************************************)
(* The path with the lowest rank is reported, for any sets of sinks and    *)
(* addresses, and any ranks (RoonRanking).                                 *)
(***************************************************************************)
\* Sinks of paths the enumeration has been at already.
Visited == active \ todo
RankedIn(S) == {s \in S \cap Sinks : SinkRank[s] < INVALID_RANK}

\* The cache of the enumeration holds the best of the paths visited so far.
BestSoFar ==
  IF RankedIn(Visited) = {}
  THEN best = EmptyCache
  ELSE /\ best.sink \in RankedIn(Visited)
       /\ \A s \in RankedIn(Visited) : SinkRank[best.sink] <= SinkRank[s]
       /\ best = [rank |-> SinkRank[best.sink], sink |-> best.sink,
                  method |-> SinkMethod[best.sink]]

\* What is remembered under an address belongs to the sink that lives there.
RanksAreCurrent ==
  \A a \in DOMAIN ranks :
    \/ a \in Addresses /\ sinkAt[a] \in Sinks /\ ranks[a] = DefinedEntry(sinkAt[a])
    \/ a = NULL /\ ranks[a] = UndefinedEntry

AddressesAreUnique ==
  \A a, b \in Addresses : sinkAt[a] = sinkAt[b] /\ sinkAt[a] # Free => a = b

RankingInv ==
  /\ RankingTypeOK
  /\ AddressesAreUnique
  /\ stage # "idle" => active \cap Sinks \subseteq Loaded
  /\ stage = "done" => todo = {}
  /\ ~cleared => RanksAreCurrent
  /\ ~cleared /\ stage # "idle" => BestSoFar

\* All that matters about the rank of what has none.
LEMMA InvalidRank == INVALID_RANK \in Nat
BY DEF INVALID_RANK

\* The address of a sink leads back to it.
LEMMA AddressFindsSink ==
  ASSUME RankingTypeOK, NEW s \in Loaded
  PROVE  AddressOf(s) \in Addresses /\ sinkAt[AddressOf(s)] = s /\ s \in Sinks
BY DEF RankingTypeOK, AddressOf, Loaded

\* The entry used for the end of a path is the one of its definition, be it
\* remembered or not.
LEMMA RankEntryIsDefined ==
  ASSUME RankingTypeOK, RanksAreCurrent, NEW e \in Ends, e \in Sinks => e \in Loaded
  PROVE  RankEntry(e) = IF e \in Sinks THEN DefinedEntry(e) ELSE UndefinedEntry
<1>1. CASE e \in Sinks
  <2>1. AddressOf(e) \in Addresses /\ sinkAt[AddressOf(e)] = e
    BY <1>1, AddressFindsSink
  <2> QED BY <1>1, <2>1, RankingAssumption DEF RankEntry, RanksAreCurrent
<1>2. CASE e \notin Sinks
  <2>1. e \notin Loaded
    BY <1>2 DEF Loaded, RankingTypeOK
  <2>2. AddressOf(e) = NULL
    BY <2>1 DEF AddressOf
  <2> QED BY <1>2, <2>1, <2>2, RankingAssumption DEF RankEntry, RanksAreCurrent
<1> QED BY <1>1, <1>2

\* An entry, new or remembered, is well-formed.
LEMMA RankEntryType ==
  ASSUME RankingTypeOK, NEW e \in Ends
  PROVE  /\ RankEntry(e) \in Entry
         /\ AddressOf(e) \in Addresses \cup {NULL}
<1>1. AddressOf(e) \in Addresses \cup {NULL}
  BY DEF AddressOf, Loaded
<1>2. CASE AddressOf(e) \in DOMAIN ranks
  BY <1>2, <1>1 DEF RankEntry, RankingTypeOK
<1>3. CASE AddressOf(e) \notin DOMAIN ranks /\ e \in Loaded
  <2>1. e \in Sinks
    BY <1>3, AddressFindsSink
  <2> QED BY <1>1, <1>3, <2>1, RankingAssumption DEF RankEntry, DefinedEntry, Entry
<1>4. CASE AddressOf(e) \notin DOMAIN ranks /\ e \notin Loaded
  BY <1>1, <1>4, InvalidRank DEF RankEntry, UndefinedEntry, Entry
<1> QED BY <1>2, <1>3, <1>4, <1>1
LEMMA InitRankingInv == RankingInit => RankingInv
<1> SUFFICES ASSUME RankingInit PROVE RankingInv
  OBVIOUS
<1>1. /\ sinkAt = [a \in Addresses |-> Free] /\ DOMAIN ranks = {}
      /\ cleared = FALSE /\ todo = {} /\ active = {} /\ stage = "idle"
      /\ best.rank = INVALID_RANK /\ best.sink = Free
  BY DEF RankingInit, EmptyCache
<1>2. RankingTypeOK
  <2>1. best.rank \in 0..INVALID_RANK
    BY <1>1, InvalidRank
  <2>2. sinkAt \in [Addresses -> Sinks \cup {Free}]
    BY <1>1
  <2> QED BY <1>1, <2>1, <2>2, Zenon DEF RankingTypeOK
<1>3. AddressesAreUnique /\ RanksAreCurrent
  BY <1>1 DEF AddressesAreUnique, RanksAreCurrent
<1> QED BY <1>1, <1>2, <1>3 DEF RankingInv

\* A new sink comes to lie where there is none: nothing remembered is about
\* that address.
LEMMA LoadKeepsInv ==
  ASSUME RankingInv, NEW s \in Sinks, NEW a \in Addresses, LoadModel(s, a)
  PROVE  RankingInv'
<1>1. /\ sinkAt' = [sinkAt EXCEPT ![a] = s] /\ sinkAt[a] = Free /\ s \notin Loaded
      /\ stage = "idle" /\ stage' = "idle"
      /\ UNCHANGED <<ranks, cleared, todo, active, best>>
  BY DEF LoadModel, cacheVars
<1>2. RankingTypeOK'
  BY <1>1 DEF RankingInv, RankingTypeOK
<1>3. \A b \in Addresses : sinkAt[b] # s
  BY <1>1, RankingAssumption DEF Loaded
<1>4. AddressesAreUnique'
  BY <1>1, <1>3 DEF RankingInv, RankingTypeOK, AddressesAreUnique
<1>5. ~cleared => RanksAreCurrent'
  BY <1>1, RankingAssumption DEF RankingInv, RankingTypeOK, RanksAreCurrent, DefinedEntry, UndefinedEntry
<1> QED BY <1>1, <1>2, <1>4, <1>5 DEF RankingInv

LEMMA ClearKeepsInv ==
  ASSUME RankingInv, ClearStore
  PROVE  RankingInv'
<1>1. /\ sinkAt' = [b \in Addresses |-> Free]
      /\ cleared' = (cleared \/ DOMAIN ranks # {})
      /\ stage = "idle" /\ stage' = "idle"
      /\ UNCHANGED <<ranks, todo, active, best>>
  BY DEF ClearStore, cacheVars
<1>2. RankingTypeOK' /\ AddressesAreUnique'
  BY <1>1 DEF RankingInv, RankingTypeOK, AddressesAreUnique
<1>3. ~cleared' => RanksAreCurrent'
  BY <1>1 DEF RanksAreCurrent
<1> QED BY <1>1, <1>2, <1>3 DEF RankingInv

LEMMA BeginKeepsInv ==
  ASSUME RankingInv, NEW S \in SUBSET Ends, BeginEnumeration(S)
  PROVE  RankingInv'
<1>1. /\ S \cap Sinks \subseteq Loaded
      /\ stage' = "enumerating" /\ todo' = S /\ active' = S /\ best' = EmptyCache
      /\ UNCHANGED <<sinkAt, ranks, cleared>>
  BY DEF BeginEnumeration
<1>2. RankingTypeOK'
  BY <1>1, InvalidRank DEF RankingInv, RankingTypeOK, EmptyCache
<1>3. AddressesAreUnique' /\ Loaded' = Loaded
  BY <1>1 DEF RankingInv, AddressesAreUnique, Loaded
<1>4. RanksAreCurrent => RanksAreCurrent'
  BY <1>1 DEF RanksAreCurrent, DefinedEntry, UndefinedEntry
<1>5. BestSoFar'
  BY <1>1 DEF BestSoFar, RankedIn, Visited
<1> QED BY <1>1, <1>2, <1>3, <1>4, <1>5 DEF RankingInv

\* One more path: its rank is remembered, and it is kept if it is better than
\* those before.
LEMMA EnumerateKeepsInv ==
  ASSUME RankingInv, NEW e \in Ends, EnumeratePath(e)
  PROVE  RankingInv'
<1> DEFINE entry == RankEntry(e)
           a == AddressOf(e)
<1>1. /\ stage = "enumerating" /\ e \in todo /\ todo' = todo \ {e}
      /\ ranks' = Remembered(a, entry)
      /\ best' = IF entry.rank >= best.rank THEN best
                 ELSE [rank |-> entry.rank, sink |-> e, method |-> entry.method]
      /\ UNCHANGED <<sinkAt, cleared, active, stage>>
  BY DEF EnumeratePath, PutPath
<1>2. entry \in Entry /\ a \in Addresses \cup {NULL} /\ RankingTypeOK
  BY RankEntryType DEF RankingInv
<1> HIDE DEF entry, a
<1>3. DOMAIN ranks' = DOMAIN ranks \cup {a}
      /\ \A b \in DOMAIN ranks' : ranks'[b] = IF b \in DOMAIN ranks THEN ranks[b] ELSE entry
  BY <1>1 DEF Remembered
<1>4. RankingTypeOK'
  <2>1. best'.rank \in 0..INVALID_RANK /\ best'.sink \in Ends \cup {Free}
    BY <1>1, <1>2 DEF RankingTypeOK, Entry
  <2>2. DOMAIN ranks' \subseteq Addresses \cup {NULL} /\ \A b \in DOMAIN ranks' : ranks'[b] \in Entry
    BY <1>2, <1>3 DEF RankingTypeOK
  <2> QED BY <1>1, <1>2, <2>1, <2>2 DEF RankingTypeOK
<1>5. AddressesAreUnique' /\ Loaded' = Loaded
  BY <1>1 DEF RankingInv, AddressesAreUnique, Loaded
<1>6. ASSUME ~cleared
      PROVE  RanksAreCurrent' /\ BestSoFar'
  <2>1. RanksAreCurrent /\ BestSoFar /\ active \cap Sinks \subseteq Loaded /\ e \in active
    BY <1>1, <1>2, <1>6 DEF RankingInv, RankingTypeOK
  <2>2. entry = IF e \in Sinks THEN DefinedEntry(e) ELSE UndefinedEntry
    BY <1>2, <2>1, RankEntryIsDefined DEF entry
  <2>3. RanksAreCurrent'
    <3>1. e \in Sinks => a \in Addresses /\ sinkAt[a] = e
      BY <1>2, <2>1, AddressFindsSink DEF a
    <3>2. e \notin Sinks => a = NULL
      BY <1>2, RankingAssumption DEF a, AddressOf, Loaded, RankingTypeOK
    <3>3. ASSUME NEW b \in DOMAIN ranks'
          PROVE  \/ b \in Addresses /\ sinkAt[b] \in Sinks /\ ranks'[b] = DefinedEntry(sinkAt[b])
                 \/ b = NULL /\ ranks'[b] = UndefinedEntry
      <4>1. CASE b \in DOMAIN ranks
        BY <4>1, <1>3, <2>1 DEF RanksAreCurrent
      <4>2. CASE b \notin DOMAIN ranks
        BY <4>2, <1>3, <2>2, <3>1, <3>2
      <4> QED BY <4>1, <4>2
    <3> QED BY <1>1, <3>3 DEF RanksAreCurrent, DefinedEntry, UndefinedEntry
  <2>4. Visited' = Visited \cup {e}
    BY <1>1, <1>2 DEF Visited, RankingTypeOK
  <2>5. BestSoFar'
    <3>1. CASE e \in Sinks /\ SinkRank[e] < INVALID_RANK
      <4>1. RankedIn(Visited)' = RankedIn(Visited) \cup {e}
        BY <3>1, <2>4 DEF RankedIn
      <4>2. entry.rank = SinkRank[e] /\ entry.method = SinkMethod[e] /\ SinkRank[e] \in Nat
        BY <3>1, <2>2, RankingAssumption, InvalidRank DEF DefinedEntry
      <4>3. CASE RankedIn(Visited) = {}
        <5>1. best.rank = INVALID_RANK
          BY <2>1, <4>3 DEF BestSoFar, EmptyCache
        <5>2. best' = [rank |-> SinkRank[e], sink |-> e, method |-> SinkMethod[e]]
          BY <1>1, <3>1, <4>2, <5>1, InvalidRank
        <5> QED BY <4>1, <4>2, <4>3, <5>2 DEF BestSoFar
      <4>4. CASE RankedIn(Visited) # {}
        <5>1. /\ best.sink \in RankedIn(Visited)
              /\ \A s \in RankedIn(Visited) : SinkRank[best.sink] <= SinkRank[s] /\ SinkRank[s] \in Nat
              /\ best = [rank |-> SinkRank[best.sink], sink |-> best.sink,
                         method |-> SinkMethod[best.sink]]
          BY <2>1, <4>4, RankingAssumption, InvalidRank DEF BestSoFar, RankedIn
        <5>2. CASE SinkRank[e] >= best.rank
          BY <1>1, <4>1, <4>2, <5>1, <5>2 DEF BestSoFar
        <5>3. CASE ~(SinkRank[e] >= best.rank)
          <6>1. best' = [rank |-> SinkRank[e], sink |-> e, method |-> SinkMethod[e]]
            BY <1>1, <4>2, <5>3
          <6>2. \A s \in RankedIn(Visited) : SinkRank[e] <= SinkRank[s]
            BY <4>2, <5>1, <5>3
          <6> QED BY <4>1, <4>2, <6>1, <6>2 DEF BestSoFar
        <5> QED BY <5>2, <5>3
      <4> QED BY <4>3, <4>4
    <3>2. CASE ~(e \in Sinks /\ SinkRank[e] < INVALID_RANK)
      <4>1. RankedIn(Visited)' = RankedIn(Visited)
        BY <3>2, <2>4 DEF RankedIn
      <4>2. entry.rank >= INVALID_RANK
        BY <3>2, <2>2, RankingAssumption, InvalidRank DEF DefinedEntry, UndefinedEntry
      <4>3. best' = best
        BY <1>1, <1>2, <4>2, InvalidRank DEF RankingTypeOK, Entry
      <4> QED BY <2>1, <4>1, <4>3 DEF BestSoFar
    <3> QED BY <3>1, <3>2
  <2> QED BY <2>3, <2>5
<1> QED BY <1>1, <1>4, <1>5, <1>6 DEF RankingInv

\* The end of an enumeration, and of a report.
LEMMA EndKeepsInv ==
  ASSUME RankingInv, EndEnumeration \/ Emit \/ UNCHANGED rankingVars
  PROVE  RankingInv'
<1>1. UNCHANGED <<sinkAt, ranks, cleared, todo>>
  BY DEF EndEnumeration, Emit, rankingVars, cacheVars
<1>2. AddressesAreUnique' /\ Loaded' = Loaded /\ (~cleared => RanksAreCurrent')
  BY <1>1 DEF RankingInv, AddressesAreUnique, Loaded, RanksAreCurrent, DefinedEntry, UndefinedEntry
<1>3. CASE Emit
  <2>1. todo = {}
    BY <1>3 DEF Emit, RankingInv
  <2>2. RankingTypeOK'
    BY <1>1, <1>3, <2>1, InvalidRank DEF Emit, RankingInv, RankingTypeOK, EmptyCache
  <2> QED BY <1>1, <1>2, <1>3, <2>2 DEF Emit, RankingInv
<1>4. CASE EndEnumeration \/ UNCHANGED rankingVars
  <2>1. UNCHANGED <<active, best>>
    BY <1>4 DEF EndEnumeration, rankingVars, cacheVars
  <2>2. RankingTypeOK' /\ (BestSoFar => BestSoFar')
    BY <1>1, <1>4, <2>1 DEF EndEnumeration, rankingVars, cacheVars, RankingInv, RankingTypeOK, BestSoFar, RankedIn, Visited
  <2> QED BY <1>1, <1>2, <1>4, <2>1, <2>2 DEF EndEnumeration, rankingVars, cacheVars, RankingInv
<1> QED BY <1>3, <1>4

\* The inductive invariant.
THEOREM RanksRemembered == RankingSpec => []RankingInv
<1>1. RankingInit => RankingInv
  BY InitRankingInv
<1>2. RankingInv /\ [RankingNext]_rankingVars => RankingInv'
  BY LoadKeepsInv, ClearKeepsInv, BeginKeepsInv, EnumerateKeepsInv, EndKeepsInv DEF RankingNext
<1> QED BY <1>1, <1>2, PTL DEF RankingSpec

\* Type correctness.
THEOREM RankingTypeCorrect == RankingSpec => []RankingTypeOK
<1>1. RankingInv => RankingTypeOK
  BY DEF RankingInv
<1> QED BY <1>1, RanksRemembered, PTL

\* The reported path is one of the lowest rank, with its own output method,
\* for any order of enumeration, as long as the store is not cleared after
\* ranks were remembered (compute_sorted_result()).
THEOREM BestPathReported == RankingSpec => []BestPathIsReportedUntilClear
<1>1. RankingInv => BestPathIsReportedUntilClear
  <2> SUFFICES ASSUME RankingInv, stage = "done", ~cleared
               PROVE  BestPath
    BY DEF BestPathIsReportedUntilClear
  <2>1. BestSoFar /\ Visited = active
    BY DEF RankingInv, Visited
  <2>2. RankedIn(Visited) = RankedSinks
    BY <2>1 DEF RankedIn, RankedSinks
  <2> QED BY <2>1, <2>2 DEF BestSoFar, BestPath
<1> QED BY <1>1, RanksRemembered, PTL
=============================================================================
