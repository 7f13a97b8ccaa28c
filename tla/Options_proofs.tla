---------------------------- MODULE Options_proofs ----------------------------
(***************************************************************************)
(* The properties of Options for every command line, every size of an int, *)
(* every precision of a double, and every default.  OptionsInv is inductive: a word replaces the last   *)
(* value of its option and leaves those of the others, and the             *)
(* calculations carry a mark in bytes over a fraction of the buffer and    *)
(* back: their error is less than half a byte.                             *)
(***************************************************************************)
EXTENDS Options, TLAPS

Half == IntSize \div 2

LEMMA HalfFacts ==
  /\ Half \in Nat \ {0} /\ IntSize = 2 * Half
  /\ Ints = (-Half)..(Half - 1) /\ SizeT = 0..(2 * Half - 1)
BY OptionsAssumption DEF Half, Ints, SizeT

\* An int is the number itself where that fits.
LEMMA WrapFacts ==
  ASSUME NEW n \in Int
  PROVE  /\ Wrap(n) \in Ints
         /\ n \in Ints => Wrap(n) = n
<1>1. n % IntSize \in 0..(IntSize - 1)
  BY OptionsAssumption
<1>2. n \in 0..(IntSize - 1) => n % IntSize = n
  BY OptionsAssumption
<1>3. n \in (-IntSize)..-1 => n % IntSize = n + IntSize
  BY OptionsAssumption
<1> QED BY <1>1, <1>2, <1>3, HalfFacts DEF Wrap, Half

LEMMA ParseintFacts ==
  ASSUME NEW v \in Values, IsInt(v)
  PROVE  parseint(v) \in Ints /\ AsAsked(parseint(v), v)
<1>1. v.number \in Int /\ v.unit \in Units
  BY HalfFacts DEF IsInt, Values
<1>2. Factor(v.unit) \in Int
  <2>1. Kilo * Kilo \in Int /\ Kilo * Kilo * Kilo \in Int
    BY OptionsAssumption
  <2>2. Factor(v.unit) \in {1, Kilo, Kilo * Kilo, Kilo * Kilo * Kilo}
    BY <1>1 DEF Factor, Units
  <2> QED BY <2>1, <2>2, OptionsAssumption
<1>3. Asked(v) \in Int /\ parseint(v) = Wrap(Asked(v))
  BY <1>1, <1>2 DEF Asked, parseint
<1> QED BY <1>3, WrapFacts DEF AsAsked

LEMMA BytesFacts ==
  ASSUME NEW n \in 0..(Half - 1)
  PROVE  Bytes(n) \in Values /\ IsInt(Bytes(n)) /\ ~IsPercent(Bytes(n)) /\ AsAsked(n, Bytes(n))
<1>0. n \in Int /\ n * 1 = n
  BY HalfFacts
<1>1. /\ Bytes(n).number = n /\ Bytes(n).unit = "" /\ Bytes(n).kind = "int"
      /\ Bytes(n) \in [kind : {"int"}, number : Ints, unit : Units \cup {"x"}]
  <2>1. Bytes(n).number = n /\ Bytes(n).unit = "" /\ Bytes(n).kind = "int"
    BY DEF Bytes
  <2>2. Bytes(n) \in [kind : {"int"}, number : Ints, unit : Units \cup {"x"}]
    BY HalfFacts DEF Bytes, Units
  <2> QED BY <2>1, <2>2
<1>2. Factor("") = 1
  BY DEF Factor
<1>3. parseint(Bytes(n)) = Wrap(n)
  BY <1>0, <1>1, <1>2 DEF parseint
<1>4. Wrap(n) = n
  BY <1>0, WrapFacts, HalfFacts
<1>5. Bytes(n) \in Values /\ IsInt(Bytes(n)) /\ ~IsPercent(Bytes(n))
  BY <1>1 DEF Values, IsInt, IsPercent, Units
<1> QED BY <1>3, <1>4, <1>5, ParseintFacts

\* Reading a word gives its option a new last value.
LEMMA GivenStep ==
  ASSUME argv \in Seq(Arguments), pos \in 1..Len(argv), NextWord, NEW name, NEW default
  PROVE  /\ Before(name)' = IF Word.option = name THEN Before(name) \cup {pos} ELSE Before(name)
         /\ GivenBefore(name, default)' =
              IF Word.option = name THEN Word.value ELSE GivenBefore(name, default)
<1>0. argv' = argv /\ pos' = pos + 1 /\ pos \in Nat
  BY DEF NextWord
<1>1. Before(name)' = IF Word.option = name THEN Before(name) \cup {pos} ELSE Before(name)
  BY <1>0 DEF Before, Word
<1>2. CASE Word.option = name
  <2>1. pos \in Before(name)' /\ \A j \in Before(name)' : j \in Int /\ j <= pos
    BY <1>0, <1>1, <1>2 DEF Before
  <2>2. \A i \in Before(name)' : (\A j \in Before(name)' : j <= i) => i = pos
    BY <2>1
  <2>3. LastBefore(name)' = pos
    BY <2>1, <2>2 DEF LastBefore
  <2> QED BY <1>0, <1>1, <1>2, <2>1, <2>3 DEF GivenBefore, Word
<1>3. CASE Word.option # name
  BY <1>0, <1>1, <1>3 DEF GivenBefore, LastBefore
<1> QED BY <1>1, <1>2, <1>3

LEMMA GivenKept ==
  ASSUME UNCHANGED <<argv, pos>>, NEW name, NEW default
  PROVE  /\ Before(name)' = Before(name)
         /\ GivenBefore(name, default)' = GivenBefore(name, default)
         /\ Given(name, default)' = Given(name, default)
BY DEF Before, GivenBefore, LastBefore, Given

\* When all words have been read, the values so far are those of the command line.
LEMMA GivenAll ==
  ASSUME argv \in Seq(Arguments), pos = Len(argv) + 1, NEW name, NEW default
  PROVE  /\ GivenBefore(name, default) = Given(name, default)
         /\ Before(name) = {} <=> ~ \E i \in DOMAIN argv : argv[i].option = name
<1>1. Before(name) = {i \in DOMAIN argv : argv[i].option = name}
  BY DEF Before
<1> QED BY <1>1 DEF GivenBefore, LastBefore, Given
-----------------------------------------------------------------------------
(* parseoption *)

LEMMA OptionsInit ==
  ASSUME Init
  PROVE  OptionsInv
<1> USE DEF Init
<1>0. argv \in Seq(Arguments) /\ Len(argv) \in Nat
  BY OptionsAssumption
<1>1. \A name, default : Before(name) = {} /\ GivenBefore(name, default) = default
  BY DEF Before, GivenBefore
<1>2. DefaultBuffer \in 0..(Half - 1) /\ DefaultPipe \in 0..(Half - 1) /\ 0 \in 0..(Half - 1)
  BY OptionsAssumption, HalfFacts DEF Half
<1>3. TypeOK
  BY <1>0, <1>2, HalfFacts DEF TypeOK
<1>4. SizesParsed /\ RequestParsed
  BY <1>1, <1>2, BytesFacts, OptionsAssumption DEF SizesParsed, RequestParsed
<1>5. MarkParsed(iHighWaterMark, dHighWaterMark, HighGiven)
  BY <1>1, <1>2, BytesFacts DEF MarkParsed, HighGiven
<1>6. MarkParsed(iLowWaterMark, dLowWaterMark, LowGiven)
  <2>1. LowGiven = Whole
    BY <1>1 DEF LowGiven
  <2>2. IsPercent(Whole) /\ Whole.part = <<1, 1>> /\ <<1, 1>> \in Int \X Nat
    BY DEF Whole, Percent, IsPercent
  <2> QED BY <2>1, <2>2 DEF MarkParsed, PercentAccepted
<1> QED BY <1>0, <1>3, <1>4, <1>5, <1>6
        DEF OptionsInv, ParsedInv, CalculatedInv, ConstructedLegal, LastOptionDecides, RequestSizeRule

\* An option sets what its word says, and no other setting.
LEMMA WordStep ==
  ASSUME OptionsInv, stage = "parsing", pos <= Len(argv), NextWord, objects' \in 0..2,
         IF Word.option = "b" THEN Positive(Word.value) /\ BufferSize' = parseint(Word.value)
                              ELSE BufferSize' = BufferSize,
         IF Word.option = "p" THEN Positive(Word.value) /\ PipeSize' = parseint(Word.value)
                              ELSE PipeSize' = PipeSize,
         IF Word.option = "r" THEN Positive(Word.value) /\ RequestSize' = parseint(Word.value)
                              ELSE RequestSize' = RequestSize,
         IF Word.option = "h"
         THEN iHighWaterMark' \in Ints /\ MarkParsed(iHighWaterMark', dHighWaterMark', Word.value)
         ELSE UNCHANGED <<iHighWaterMark, dHighWaterMark>>,
         IF Word.option = "l"
         THEN iLowWaterMark' \in Ints /\ MarkParsed(iLowWaterMark', dLowWaterMark', Word.value)
         ELSE UNCHANGED <<iLowWaterMark, dLowWaterMark>>
  PROVE  OptionsInv'
<1>0. /\ argv \in Seq(Arguments) /\ pos \in 1..Len(argv) /\ argv' = argv /\ pos' = pos + 1
      /\ stage' = "parsing" /\ UNCHANGED <<members, exitCode>>
  BY DEF OptionsInv, TypeOK, NextWord
<1>1. Word \in Arguments
  BY <1>0 DEF Word
<1>2. Word.option \in {"b", "p", "r"} => Word.value \in Values
  BY <1>1 DEF Arguments
<1>3. TypeOK'
  BY <1>0, <1>2, ParseintFacts DEF OptionsInv, TypeOK, Positive, members
<1>4. SizesParsed'
  <2>1. Word.option \in {"b", "p"} =>
          parseint(Word.value) >= 1 /\ AsAsked(parseint(Word.value), Word.value)
    BY <1>2, ParseintFacts DEF Positive
  <2> QED BY <1>0, <2>1, GivenStep DEF OptionsInv, ParsedInv, SizesParsed
<1>5. RequestParsed'
  <2>1. /\ Before("r")' = IF Word.option = "r" THEN Before("r") \cup {pos} ELSE Before("r")
        /\ GivenBefore("r", Bytes(0))' =
             IF Word.option = "r" THEN Word.value ELSE GivenBefore("r", Bytes(0))
    BY <1>0, GivenStep
  <2>2. CASE Word.option = "r"
    BY <1>2, <2>1, <2>2, ParseintFacts DEF RequestParsed, Positive
  <2>3. CASE Word.option # "r"
    BY <2>1, <2>3 DEF OptionsInv, ParsedInv, RequestParsed
  <2> QED BY <2>2, <2>3
<1>6. MarkParsed(iHighWaterMark, dHighWaterMark, HighGiven)'
  <2>1. HighGiven' = IF Word.option = "h" THEN Word.value ELSE HighGiven
    BY <1>0, GivenStep DEF HighGiven
  <2> QED BY <2>1 DEF OptionsInv, ParsedInv
<1>7. MarkParsed(iLowWaterMark, dLowWaterMark, LowGiven)'
  <2>1. LowGiven' = IF Word.option = "l" THEN Word.value ELSE LowGiven
    BY <1>0, GivenStep DEF LowGiven
  <2> QED BY <2>1 DEF OptionsInv, ParsedInv
<1> QED BY <1>0, <1>3, <1>4, <1>5, <1>6, <1>7
        DEF OptionsInv, ParsedInv, CalculatedInv, ConstructedLegal, LastOptionDecides, RequestSizeRule

\* main ends before it constructs anything.
LEMMA ExitStep ==
  ASSUME OptionsInv, NEW code \in {19, 48, 49}, Exit(code),
         UNCHANGED <<argv, pos, objects, settings, members>>
  PROVE  OptionsInv'
BY DEF OptionsInv, TypeOK, ParsedInv, CalculatedInv, ConstructedLegal, LastOptionDecides,
       RequestSizeRule, Exit, settings, members

LEMMA SizeOptionSteps ==
  ASSUME OptionsInv, ParseBufferSize \/ ParseRequestSize \/ ParsePipeSize
  PROVE  OptionsInv'
<1>1. ASSUME AtOption("b") \/ AtOption("r") \/ AtOption("p"), SyntaxError PROVE OptionsInv'
  BY <1>1, ExitStep DEF SyntaxError
<1>2. objects \in 0..2
  BY DEF OptionsInv, TypeOK
<1>3. CASE ParseBufferSize
  BY <1>1, <1>2, <1>3, WordStep DEF ParseBufferSize, AtOption, marks
<1>4. CASE ParseRequestSize
  BY <1>1, <1>2, <1>4, WordStep DEF ParseRequestSize, AtOption, marks
<1>5. CASE ParsePipeSize
  BY <1>1, <1>2, <1>5, WordStep DEF ParsePipeSize, AtOption, marks
<1> QED BY <1>3, <1>4, <1>5

\* An accepted percentage, and a number of bytes.
LEMMA PercentValue ==
  ASSUME NEW v \in Values, IsPercent(v), PercentAccepted(v), NEW i
  PROVE  MarkParsed(i, v.part, v)
<1>1. v.part \in Int \X Nat
  BY DEF IsPercent, Values
<1> QED BY <1>1 DEF MarkParsed

LEMMA BytesValue ==
  ASSUME NEW v \in Values, IsInt(v)
  PROVE  parseint(v) \in Ints /\ MarkParsed(parseint(v), Unset, v)
BY ParseintFacts DEF MarkParsed, IsPercent, IsInt

LEMMA HighWaterMarkStep ==
  ASSUME OptionsInv, ParseHighWaterMark
  PROVE  OptionsInv'
<1>0. /\ AtOption("h") /\ objects \in 0..2 /\ iHighWaterMark \in Ints
      /\ UNCHANGED <<objects, BufferSize, RequestSize, PipeSize, iLowWaterMark, dLowWaterMark>>
  BY DEF ParseHighWaterMark, OptionsInv, TypeOK
<1>1. Word.value \in Values
  BY <1>0 DEF AtOption, Word, OptionsInv, TypeOK, Arguments
<1>2. ASSUME NextWord,
             \/ /\ IsPercent(Word.value) /\ PercentAccepted(Word.value)
                /\ dHighWaterMark' = Word.value.part /\ iHighWaterMark' = iHighWaterMark
             \/ /\ IsInt(Word.value)
                /\ iHighWaterMark' = parseint(Word.value) /\ dHighWaterMark' = Unset
      PROVE  OptionsInv'
  <2>1. iHighWaterMark' \in Ints /\ MarkParsed(iHighWaterMark', dHighWaterMark', Word.value)
    BY <1>0, <1>1, <1>2, PercentValue, BytesValue
  <2> QED BY <1>0, <1>2, <2>1, WordStep DEF AtOption
<1>3. ASSUME Exit(49), UNCHANGED <<argv, pos, members, iHighWaterMark, dHighWaterMark>>
      PROVE  OptionsInv'
  BY <1>0, <1>3, ExitStep DEF settings
<1> QED BY <1>2, <1>3 DEF ParseHighWaterMark

LEMMA LowWaterMarkStep ==
  ASSUME OptionsInv, ParseLowWaterMark
  PROVE  OptionsInv'
<1>0. /\ AtOption("l") /\ objects \in 0..2 /\ iLowWaterMark \in Ints
      /\ UNCHANGED <<objects, BufferSize, RequestSize, PipeSize, iHighWaterMark, dHighWaterMark>>
  BY DEF ParseLowWaterMark, OptionsInv, TypeOK
<1>1. Word.value \in Values
  BY <1>0 DEF AtOption, Word, OptionsInv, TypeOK, Arguments
<1>2. ASSUME NextWord,
             \/ /\ IsPercent(Word.value) /\ PercentAccepted(Word.value)
                /\ dLowWaterMark' = Word.value.part /\ iLowWaterMark' = iLowWaterMark
             \/ /\ IsInt(Word.value)
                /\ iLowWaterMark' = parseint(Word.value) /\ dLowWaterMark' = Unset
      PROVE  OptionsInv'
  <2>1. iLowWaterMark' \in Ints /\ MarkParsed(iLowWaterMark', dLowWaterMark', Word.value)
    BY <1>0, <1>1, <1>2, PercentValue, BytesValue
  <2> QED BY <1>0, <1>2, <2>1, WordStep DEF AtOption
<1>3. ASSUME Exit(49), UNCHANGED <<argv, pos, members, iLowWaterMark, dLowWaterMark>>
      PROVE  OptionsInv'
  BY <1>0, <1>3, ExitStep DEF settings
<1> QED BY <1>2, <1>3 DEF ParseLowWaterMark

LEMMA OtherWordSteps ==
  ASSUME OptionsInv, ParseFlag \/ RejectOption \/ ParseObject
  PROVE  OptionsInv'
<1>1. objects \in 0..2
  BY DEF OptionsInv, TypeOK
<1>2. CASE ParseFlag
  BY <1>1, <1>2, WordStep DEF ParseFlag, AtOption, settings
<1>3. CASE RejectOption
  BY <1>3, ExitStep DEF RejectOption, SyntaxError
<1>4. CASE ParseObject
  <2>1. CASE objects < 2
    <3>1. objects' \in 0..2 /\ AtOption("object") /\ NextWord /\ UNCHANGED settings
      BY <1>1, <1>4, <2>1 DEF ParseObject
    <3> QED BY <3>1, WordStep DEF AtOption, settings
  <2>2. CASE ~(objects < 2)
    BY <1>4, <2>2, ExitStep DEF ParseObject, SyntaxError
  <2> QED BY <2>1, <2>2
<1> QED BY <1>2, <1>3, <1>4
-----------------------------------------------------------------------------
(* The calculations *)

LEMMA MulMono ==
  ASSUME NEW a \in Int, NEW b \in Int, NEW d \in Nat, a <= b
  PROVE  a * d <= b * d
<1>1. (b - a) * d >= 0
  OBVIOUS
<1>2. (b - a) * d = b * d - a * d /\ a * d \in Int /\ b * d \in Int
  OBVIOUS
<1> QED BY <1>1, <1>2

\* Half a byte and the error of a double are less than a byte.
LEMMA LessThanAByte ==
  ASSUME NEW k \in Int, NEW d \in Nat \ {0}, 2 * Precision * (k * d) <= (Precision + 2) * d
  PROVE  k <= 0
<1> DEFINE P == Precision
<1>1. P \in Nat /\ P + 2 < 2 * P
  BY OptionsAssumption
<1> HIDE DEF P
<1>2. ASSUME k >= 1 PROVE FALSE
  <2>1. 1 * d <= k * d /\ k * d \in Nat
    BY <1>2, MulMono
  <2>2. d * (2 * P) <= (k * d) * (2 * P)
    BY <1>1, <2>1, MulMono
  <2>3. (P + 3) * d <= (2 * P) * d
    BY <1>1, MulMono
  <2>4. (P + 3) * d = (P + 2) * d + d /\ (P + 2) * d \in Int
    BY <1>1
  <2>5. 2 * P * (k * d) = (k * d) * (2 * P) /\ (2 * P) * d = d * (2 * P)
    BY <1>1, <2>1
  <2>6. 2 * P * (k * d) <= (P + 2) * d
    BY DEF P
  <2>7. 2 * P * (k * d) \in Int /\ d * (2 * P) \in Int
    BY <1>1, <2>1
  <2> QED BY <2>2, <2>3, <2>4, <2>5, <2>6, <2>7
<1> QED BY <1>2

\* Part2Bytes gives back the bytes that Calculate divided by the buffer size.
LEMMA BytesMark ==
  ASSUME BufferSize \in Nat \ {0}, NEW i \in Int, NEW m \in Int, Rounds(m, <<i, BufferSize>>)
  PROVE  m = i
<1> DEFINE B == BufferSize
<1>0. Precision \in Nat /\ <<i, B>>[1] = i /\ <<i, B>>[2] = B
  BY OptionsAssumption
<1>1. (m - i) * B = m * B - B * i /\ (i - m) * B = B * i - m * B
  OBVIOUS
<1>2. m - i <= 0
  BY <1>0, <1>1, LessThanAByte DEF Rounds
<1>3. i - m <= 0
  BY <1>0, <1>1, LessThanAByte DEF Rounds
<1> QED BY <1>2, <1>3

\* A part of the buffer stays within the buffer.
LEMMA PartMark ==
  ASSUME BufferSize \in Nat \ {0}, NEW m \in Nat, NEW part \in Int \X Nat,
         ~Part2BytesThrows(part), part # NaN, Rounds(m, part)
  PROVE  m \in 0..BufferSize
<1> DEFINE B == BufferSize  n == part[1]  d == part[2]  P == Precision
<1>0. n \in Nat /\ d \in Nat /\ n <= d /\ P \in Nat /\ part = <<n, d>>
  BY OptionsAssumption DEF Part2BytesThrows
<1>1. d # 0
  BY <1>0 DEF NaN
<1>2. 2 * P * (m * d - B * n) <= (P + 2) * d
  BY DEF Rounds
<1> HIDE DEF n, d, P
<1>3. n * B <= d * B
  BY <1>0, MulMono
<1>4. (m - B) * d <= m * d - B * n
  <2>1. (m - B) * d = m * d - d * B /\ n * B = B * n /\ d * B \in Int /\ m * d \in Int /\ B * n \in Int
    BY <1>0
  <2> QED BY <1>3, <2>1
<1>5. 2 * P * ((m - B) * d) <= (P + 2) * d
  <2> DEFINE x == (m - B) * d  y == m * d - B * n
  <2>1. x \in Int /\ y \in Int /\ 2 * P \in Nat /\ (P + 2) * d \in Int
    BY <1>0
  <2>2. x <= y /\ 2 * P * y <= (P + 2) * d
    BY <1>2, <1>4
  <2> HIDE DEF x, y
  <2>3. x * (2 * P) <= y * (2 * P)
    BY <2>1, <2>2, MulMono
  <2>4. x * (2 * P) = 2 * P * x /\ y * (2 * P) = 2 * P * y /\ x * (2 * P) \in Int /\ y * (2 * P) \in Int
    BY <1>0, <2>1
  <2>5. 2 * P * x <= (P + 2) * d
    BY <2>1, <2>2, <2>3, <2>4
  <2> QED BY <2>5 DEF x
<1>6. m - B <= 0
  BY <1>0, <1>1, <1>5, LessThanAByte DEF P
<1> QED BY <1>6

\* What Calculate makes of a mark.
LEMMA FractionFacts ==
  ASSUME NEW i \in Ints, NEW d, NEW v, MarkParsed(i, d, v)
  PROVE  MarkCalculated(Fraction(i, d), v)
<1>1. CASE IsPercent(v)
  BY <1>1 DEF MarkParsed, PercentAccepted, MarkCalculated, Fraction, IsInvalid
<1>2. CASE ~IsPercent(v)
  <2>1. d = Unset /\ AsAsked(i, v)
    BY <1>2 DEF MarkParsed
  <2>2. IsInvalid(d)
    BY <2>1 DEF IsInvalid, Unset
  <2> QED BY <1>2, <2>1, <2>2 DEF MarkCalculated, Fraction
<1> QED BY <1>1, <1>2

\* And what Part2Bytes makes of that.
LEMMA MarkFacts ==
  ASSUME BufferSize \in Nat \ {0}, NEW d, NEW v, MarkCalculated(d, v),
         ~Part2BytesThrows(d), NEW m \in Part2Bytes(d)
  PROVE  m \in SizeT /\ (IsNaN(v) \/ m \in 0..BufferSize) /\ IsMark(m, v)
<1>1. m \in SizeT /\ SizeT \subseteq Nat
  BY HalfFacts DEF Part2Bytes, NaNCasts
<1>2. d # NaN => Rounds(m, d)
  BY DEF Part2Bytes
<1>3. CASE IsPercent(v)
  <2>1. d \in Int \X Nat /\ d = v.part
    BY <1>3 DEF MarkCalculated
  <2>2. d # NaN => m \in 0..BufferSize
    BY <1>1, <1>2, <2>1, PartMark
  <2> QED BY <1>1, <1>2, <1>3, <2>1, <2>2 DEF IsNaN, IsMark
<1>4. CASE ~IsPercent(v)
  <2>1. PICK i \in Ints : AsAsked(i, v) /\ d = <<i, BufferSize>>
    BY <1>4 DEF MarkCalculated
  <2>2. i \in Int /\ d[1] = i /\ d[2] = BufferSize /\ d # NaN
    BY <2>1, HalfFacts DEF NaN
  <2>3. i \in 0..BufferSize
    BY <2>2 DEF Part2BytesThrows
  <2>4. m = i
    BY <1>1, <1>2, <2>1, <2>2, BytesMark
  <2> QED BY <1>1, <1>4, <2>1, <2>3, <2>4 DEF IsMark
<1> QED BY <1>3, <1>4

LEMMA CalculateStep ==
  ASSUME OptionsInv, Calculate
  PROVE  OptionsInv'
<1>1. CASE TooLarge(iHighWaterMark, dHighWaterMark) \/ TooLarge(iLowWaterMark, dLowWaterMark)
  BY <1>1, ExitStep DEF Calculate, settings
<1>2. CASE ~(TooLarge(iHighWaterMark, dHighWaterMark) \/ TooLarge(iLowWaterMark, dLowWaterMark))
  <2>1. /\ dHighWaterMark' = Fraction(iHighWaterMark, dHighWaterMark)
        /\ dLowWaterMark' = Fraction(iLowWaterMark, dLowWaterMark)
        /\ RequestSize' = IF RequestSize < 0 THEN AutoRequestSize ELSE RequestSize
        /\ stage = "calculating" /\ stage' = "constructing"
        /\ UNCHANGED <<argv, pos, objects, members, BufferSize, PipeSize,
                       iHighWaterMark, iLowWaterMark, exitCode>>
    BY <1>2 DEF Calculate
  <2>2. pos = Len(argv) + 1 /\ argv \in Seq(Arguments) /\ SizesParsed /\ RequestParsed
    BY <2>1 DEF OptionsInv, ParsedInv
  <2>3. BufferSize \in Ints /\ BufferSize >= 1 /\ RequestSize \in Ints
    BY <2>2 DEF OptionsInv, TypeOK, SizesParsed
  <2>4. HighGiven' = HighGiven /\ LowGiven' = LowGiven /\ SizesParsed'
    BY <2>1, <2>2 DEF HighGiven, LowGiven, GivenBefore, Before, LastBefore, SizesParsed
  <2>5. MarkCalculated(dHighWaterMark, HighGiven)' /\ MarkCalculated(dLowWaterMark, LowGiven)'
    <3>1. /\ MarkCalculated(Fraction(iHighWaterMark, dHighWaterMark), HighGiven)
          /\ MarkCalculated(Fraction(iLowWaterMark, dLowWaterMark), LowGiven)
      BY <2>1, FractionFacts DEF OptionsInv, ParsedInv, TypeOK
    <3> QED BY <2>1, <2>4, <3>1 DEF MarkCalculated
  <2>6. RequestChosen' /\ RequestSize' \in Ints
    <3>1. CASE \E i \in DOMAIN argv : argv[i].option = "r"
      <4>0. GivenBefore("r", Bytes(0)) = Given("r", Bytes(0)) /\ Before("r") # {}
        BY <2>2, <3>1, GivenAll
      <4>1. RequestSize' = RequestSize /\ AsAsked(RequestSize, Given("r", Bytes(0)))
        BY <2>1, <2>2, <2>3, <4>0, HalfFacts DEF RequestParsed
      <4> QED BY <2>1, <2>3, <3>1, <4>1 DEF RequestChosen, Given
    <3>2. CASE ~ \E i \in DOMAIN argv : argv[i].option = "r"
      <4>1. RequestSize' = AutoRequestSize
        BY <2>1, <2>2, <3>2, GivenAll DEF RequestParsed
      <4>2. BufferSize \in Nat \ {0}
        BY <2>3, HalfFacts
      <4>3. \A parts \in {4, 8} :
              /\ BufferSize \div parts \in 0..BufferSize
              /\ (BufferSize \div parts) * parts <= BufferSize
              /\ BufferSize < (BufferSize \div parts + 1) * parts
        BY <4>2
      <4>4. RequestSize' \in 0..BufferSize
        BY <4>1, <4>3 DEF AutoRequestSize
      <4>5. LET parts == IF BufferSize >= LargeBuffer THEN 8 ELSE 4
            IN  RequestSize' * parts <= BufferSize /\ BufferSize < (RequestSize' + 1) * parts
        BY <4>1, <4>3 DEF AutoRequestSize
      <4>6. RequestSize' \in Ints
        BY <2>3, <4>4, HalfFacts
      <4> QED BY <2>1, <3>2, <4>5, <4>6 DEF RequestChosen
    <3> QED BY <3>1, <3>2
  <2>7. TypeOK'
    BY <2>1, <2>6 DEF OptionsInv, TypeOK, members
  <2> QED BY <2>1, <2>2, <2>4, <2>5, <2>6, <2>7
          DEF OptionsInv, ParsedInv, CalculatedInv, ConstructedLegal, LastOptionDecides, RequestSizeRule
<1> QED BY <1>1, <1>2

LEMMA ConstructStep ==
  ASSUME OptionsInv, Construct
  PROVE  OptionsInv'
<1>1. CASE Part2BytesThrows(dLowWaterMark) \/ Part2BytesThrows(dHighWaterMark)
  BY <1>1, ExitStep DEF Construct
<1>2. CASE ~(Part2BytesThrows(dLowWaterMark) \/ Part2BytesThrows(dHighWaterMark))
  <2>1. /\ LowWaterMark' \in Part2Bytes(dLowWaterMark)
        /\ HighWaterMark' \in Part2Bytes(dHighWaterMark)
        /\ stage = "constructing" /\ stage' = "constructed"
        /\ UNCHANGED <<argv, pos, objects, settings, exitCode>>
    BY <1>2 DEF Construct
  <2>2. pos = Len(argv) + 1 /\ argv \in Seq(Arguments) /\ SizesParsed /\ CalculatedInv
    BY <2>1 DEF OptionsInv, ParsedInv
  <2>3. BufferSize \in Nat \ {0}
    BY <2>2, HalfFacts DEF OptionsInv, TypeOK, SizesParsed
  <2>4. /\ LowWaterMark' \in SizeT /\ IsMark(LowWaterMark', LowGiven)
        /\ HighWaterMark' \in SizeT /\ IsMark(HighWaterMark', HighGiven)
        /\ IsNaN(LowGiven) \/ LowWaterMark' \in 0..BufferSize
        /\ IsNaN(HighGiven) \/ HighWaterMark' \in 0..BufferSize
    BY <1>2, <2>1, <2>2, <2>3, MarkFacts DEF CalculatedInv
  <2>5. /\ HighGiven = Given("h", Bytes(0)) /\ LowGiven = Given("l", Whole)
        /\ AsAsked(BufferSize, Given("b", Bytes(DefaultBuffer)))
        /\ AsAsked(PipeSize, Given("p", Bytes(DefaultPipe)))
    BY <2>2, GivenAll DEF HighGiven, LowGiven, SizesParsed
  <2>6. TypeOK'
    BY <2>1, <2>4 DEF OptionsInv, TypeOK, settings
  <2>7. ConstructedLegal'
    BY <2>1, <2>3, <2>4, <2>5, GivenKept DEF ConstructedLegal, settings
  <2>8. LastOptionDecides'
    <3>1. \A mark, v : IsMark(mark, v) <=> IF IsPercent(v)
                           THEN v.part = NaN \/ Rounds(mark, v.part)' ELSE AsAsked(mark, v)
      BY <2>1 DEF IsMark, Rounds, settings
    <3>2. /\ IsMark(HighWaterMark, Given("h", Bytes(0)))'
          /\ IsMark(LowWaterMark, Given("l", Whole))'
      BY <2>1, <2>4, <2>5, <3>1, GivenKept DEF IsMark
    <3>3. UNCHANGED <<BufferSize, PipeSize>>
      BY <2>1 DEF settings
    <3> QED BY <2>1, <2>5, <3>2, <3>3, GivenKept DEF LastOptionDecides
  <2>9. RequestSizeRule'
    BY <2>1, <2>2 DEF CalculatedInv, RequestSizeRule, RequestChosen, Given, settings
  <2>10. SizesParsed'
    BY <2>1, <2>2 DEF SizesParsed, GivenBefore, Before, LastBefore, settings
  <2> QED BY <2>1, <2>2, <2>6, <2>7, <2>8, <2>9, <2>10 DEF OptionsInv, ParsedInv, CalculatedInv
<1> QED BY <1>1, <1>2

LEMMA EndOfArgumentsStep ==
  ASSUME OptionsInv, EndOfArguments
  PROVE  OptionsInv'
<1>1. CASE objects < 2
  BY <1>1, ExitStep DEF EndOfArguments
<1>2. CASE ~(objects < 2)
  <2>1. /\ stage = "parsing" /\ pos > Len(argv) /\ stage' = "calculating"
        /\ UNCHANGED <<argv, pos, objects, settings, members, exitCode>>
    BY <1>2 DEF EndOfArguments
  <2>2. argv \in Seq(Arguments) /\ pos \in 1..(Len(argv) + 1) /\ Len(argv) \in Nat
    BY DEF OptionsInv, TypeOK
  <2>3. pos = Len(argv) + 1
    BY <2>1, <2>2
  <2>4. TypeOK'
    BY <2>1 DEF OptionsInv, TypeOK, settings, members
  <2>5. ParsedInv'
    <3>1. SizesParsed' /\ RequestParsed'
      BY <2>1, GivenKept DEF OptionsInv, ParsedInv, SizesParsed, RequestParsed, settings
    <3>2. HighGiven' = HighGiven /\ LowGiven' = LowGiven
      BY <2>1, GivenKept DEF HighGiven, LowGiven
    <3>3. /\ MarkParsed(iHighWaterMark, dHighWaterMark, HighGiven)'
          /\ MarkParsed(iLowWaterMark, dLowWaterMark, LowGiven)'
      BY <2>1, <3>2 DEF OptionsInv, ParsedInv, settings
    <3> QED BY <2>1, <2>3, <3>1, <3>3 DEF ParsedInv
  <2> QED BY <2>1, <2>4, <2>5
          DEF OptionsInv, CalculatedInv, ConstructedLegal, LastOptionDecides, RequestSizeRule
<1> QED BY <1>1, <1>2
-----------------------------------------------------------------------------
(* Theorems *)

LEMMA OptionsStep ==
  ASSUME OptionsInv, [Next]_vars
  PROVE  OptionsInv'
<1>1. CASE UNCHANGED vars
  <2> USE <1>1 DEF vars, settings, members
  <2>1. TypeOK' /\ ConstructedLegal' /\ argv' \in Seq(Arguments)
    BY GivenKept DEF OptionsInv, TypeOK, ConstructedLegal
  <2>2. HighGiven' = HighGiven /\ LowGiven' = LowGiven
    BY GivenKept DEF HighGiven, LowGiven
  <2>3. ParsedInv'
    <3>1. SizesParsed => SizesParsed'
      BY GivenKept DEF SizesParsed
    <3>2. RequestParsed => RequestParsed'
      BY GivenKept DEF RequestParsed
    <3> QED BY <2>2, <3>1, <3>2 DEF OptionsInv, ParsedInv
  <2>4. RequestChosen => RequestChosen'
    BY GivenKept DEF RequestChosen
  <2>5. CalculatedInv'
    BY <2>2, <2>4 DEF OptionsInv, CalculatedInv, MarkCalculated
  <2>6. LastOptionDecides'
    BY GivenKept DEF OptionsInv, LastOptionDecides, IsMark, Rounds
  <2>7. RequestSizeRule'
    BY <2>4 DEF OptionsInv, RequestSizeRule
  <2> QED BY <2>1, <2>3, <2>5, <2>6, <2>7 DEF OptionsInv
<1> QED BY <1>1, SizeOptionSteps, HighWaterMarkStep, LowWaterMarkStep, OtherWordSteps,
           EndOfArgumentsStep, CalculateStep, ConstructStep DEF Next, Done

\* At every word the settings are what the last options so far ask for.
THEOREM OptionsCorrect == Spec => []OptionsInv
<1> QED BY OptionsInit, OptionsStep, PTL DEF Spec

\* The settings are ints, whatever number and unit an option gives: parseint may
\* lose the high bits, but what is kept is an int.
THEOREM TypeCorrect == Spec => []TypeOK
<1>1. OptionsInv => TypeOK
  BY DEF OptionsInv
<1> QED BY <1>1, OptionsCorrect, PTL

\* What main passes to the constructor of StaticFIFO satisfies the assumption
\* under which the theorems about the FIFO are proved (FIFOAssumption), unless the
\* last -h or -l is not a number.
THEOREM FIFOAssumptionHolds == Spec => []ConstructedLegal
<1>1. OptionsInv => ConstructedLegal
  BY DEF OptionsInv
<1> QED BY <1>1, OptionsCorrect, PTL

\* Order and repetition of the options do not matter but for the last of each,
\* and a mark in bytes survives the detour over a fraction of the buffer with its
\* rounding errors.  A part of the buffer becomes the nearest number of bytes.
THEOREM LastOptionWins == Spec => []LastOptionDecides
<1>1. OptionsInv => LastOptionDecides
  BY DEF OptionsInv
<1> QED BY <1>1, OptionsCorrect, PTL

\* Without -r a request is a quarter of the buffer, or an eighth of a large one.
THEOREM RequestSizeChosen == Spec => []RequestSizeRule
<1>1. OptionsInv => RequestSizeRule
  BY DEF OptionsInv
<1> QED BY <1>1, OptionsCorrect, PTL
=============================================================================
