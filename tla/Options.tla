------------------------------- MODULE Options -------------------------------
(***************************************************************************)
(* The command line of src/buffer2.cpp: main's loop over argv, parseoption *)
(* with parseint and parsedouble, the calculations that follow, and the    *)
(* constructor of StaticFIFO up to its water marks.                        *)
(*                                                                         *)
(* An argument is a record: an I/O object, a flag, an invalid option, or   *)
(* an option with its value.  A value is what sscanf makes of the text: a  *)
(* long and a unit, a percentage, or nothing.                              *)
(*                                                                         *)
(* A double is a pair <<numerator, denominator>>; with the denominator 0   *)
(* it is an infinity or, as <<0, 0>>, not a number, which %lf accepts too. *)
(* A percentage is the double that is left of it after the division by     *)
(* 100.  Later operations on doubles round: a product of a size and a part *)
(* is only known up to 1/Precision bytes, which decides a tie either way.  *)
(***************************************************************************)
EXTENDS Integers, Sequences

CONSTANTS
  Kilo,            \* 1024
  IntSize,         \* number of values of an int, which is as wide as a long
  Precision,       \* 2^20 for sizes of 31 bits and parts of 53 bits
  LargeBuffer,     \* from this size on a request is an eighth of the buffer
  DefaultBuffer,   \* initial BufferSize
  DefaultPipe,     \* initial PipeSize
  CommandLines     \* the sequences of arguments to look at

Ints  == (-(IntSize \div 2))..(IntSize \div 2 - 1)
SizeT == 0..(IntSize - 1)

\* "x" is any other letter after a number.
Units  == {"", "k", "m", "g"}
Values == [kind : {"int"}, number : Ints, unit : Units \cup {"x"}] \cup
          [kind : {"percent"}, part : Int \X Nat] \cup [kind : {"none"}]
Arguments == [option : {"b", "r", "p", "h", "l"}, value : Values] \cup
             [option : {"object", "flag", "invalid"}]

ASSUME OptionsAssumption ==
  /\ CommandLines \subseteq Seq(Arguments)
  /\ Kilo \in Nat \ {0}
  /\ IntSize \in Nat \ {0} /\ IntSize % 2 = 0
  /\ DefaultBuffer \in 1..(IntSize \div 2 - 1)
  /\ DefaultPipe \in 1..(IntSize \div 2 - 1)
  /\ Precision \in Nat /\ Precision >= 3
  /\ LargeBuffer \in Nat

VARIABLES
  argv, pos,                       \* the command line and main's place in it
  objects,                         \* how many of input and output are set
  BufferSize, RequestSize, PipeSize,
  iHighWaterMark, dHighWaterMark,
  iLowWaterMark, dLowWaterMark,
  HighWaterMark, LowWaterMark,     \* the members of the StaticFIFO
  stage,                           \* parsing, calculating, constructing, ...
  exitCode

settings == <<BufferSize, RequestSize, PipeSize,
              iHighWaterMark, dHighWaterMark, iLowWaterMark, dLowWaterMark>>
members  == <<HighWaterMark, LowWaterMark>>
vars     == <<argv, pos, objects, settings, members, stage, exitCode>>

NoCode     == -1
Unset      == <<-1, 1>>
NaN        == <<0, 0>>
IsInvalid(d) == d[1] < 0

\* MUTANT of Wrap: an int without a width.
WrapNever(n) == n
\* Signed arithmetic as the processor does it.
Wrap(n) == LET m == n % IntSize IN IF m < IntSize \div 2 THEN m ELSE m - IntSize

Factor(unit) == CASE unit = ""  -> 1
                  [] unit = "k" -> Kilo
                  [] unit = "m" -> Kilo * Kilo
                  [] unit = "g" -> Kilo * Kilo * Kilo

\* parseint and parsedouble throw a syntax_error for any other value.
IsInt(value)     == value.kind = "int" /\ value.unit \in Units
IsPercent(value) == value.kind = "percent"
parseint(value)  == Wrap(value.number * Factor(value.unit))

\* MUTANT of Part2BytesThrows: no upper bound.
Part2BytesThrowsBelow(part) == part[1] < 0
\* Both comparisons with a NaN are false.
Part2BytesThrows(part) == part[1] < 0 \/ part[1] > part[2]

\* mark is BufferSize * part + .5, computed with doubles and truncated.
Rounds(mark, part) ==
  LET product == BufferSize * part[1]
      multiple == mark * part[2]
      limit == (Precision + 2) * part[2]
  IN  /\ 2 * Precision * (multiple - product) <= limit
      /\ 2 * Precision * (product - multiple) <= limit

\* The cast of a NaN is undefined: a processor's "indefinite" integer, 0x80000000,
\* or the lower half of one with 64 bits.
NaNCasts == {0, IntSize \div 2}
Part2Bytes(part) == IF part = NaN THEN NaNCasts ELSE {mark \in SizeT : Rounds(mark, part)}

Init ==
  /\ argv \in CommandLines
  /\ pos = 1
  /\ objects = 0
  /\ BufferSize = DefaultBuffer /\ RequestSize = -1 /\ PipeSize = DefaultPipe
  /\ iHighWaterMark = 0 /\ dHighWaterMark = Unset
  /\ iLowWaterMark = -1 /\ dLowWaterMark = <<1, 1>>
  /\ HighWaterMark = 0 /\ LowWaterMark = 0
  /\ stage = "parsing"
  /\ exitCode = NoCode

\* An exception, or the usage message, ends main with an exit code.
Exit(code) ==
  /\ stage' = "exited"
  /\ exitCode' = code
-----------------------------------------------------------------------------
(* parseoption, one action per option *)

Word == argv[pos]
AtOption(name) == stage = "parsing" /\ pos <= Len(argv) /\ Word.option = name

NextWord == pos' = pos + 1 /\ UNCHANGED <<argv, members, stage, exitCode>>
SyntaxError == Exit(49) /\ UNCHANGED <<argv, pos, objects, settings, members>>

\* A size has to be positive after its unit has been applied.
Positive(value) == IsInt(value) /\ parseint(value) >= 1
marks == <<iHighWaterMark, dHighWaterMark, iLowWaterMark, dLowWaterMark>>

ParseBufferSize ==
  /\ AtOption("b")
  /\ IF Positive(Word.value)
     THEN /\ BufferSize' = parseint(Word.value)
          /\ NextWord
          /\ UNCHANGED <<objects, RequestSize, PipeSize, marks>>
     ELSE SyntaxError

ParseRequestSize ==
  /\ AtOption("r")
  /\ IF Positive(Word.value)
     THEN /\ RequestSize' = parseint(Word.value)
          /\ NextWord
          /\ UNCHANGED <<objects, BufferSize, PipeSize, marks>>
     ELSE SyntaxError

ParsePipeSize ==
  /\ AtOption("p")
  /\ IF Positive(Word.value)
     THEN /\ PipeSize' = parseint(Word.value)
          /\ NextWord
          /\ UNCHANGED <<objects, BufferSize, RequestSize, marks>>
     ELSE SyntaxError

\* The range test comes after the division by 100 and is against 100 all the same.
\* A NaN passes it.
PercentAccepted(value) == ~(value.part[1] < 0 \/ value.part[1] > 100 * value.part[2])

ParseHighWaterMark ==
  /\ AtOption("h")
  /\ \/ /\ IsPercent(Word.value) /\ PercentAccepted(Word.value)
        /\ dHighWaterMark' = Word.value.part
        /\ UNCHANGED iHighWaterMark
        /\ NextWord
     \/ /\ IsInt(Word.value)
        /\ iHighWaterMark' = parseint(Word.value)
        /\ dHighWaterMark' = Unset
        /\ NextWord
     \/ /\ IF IsPercent(Word.value) THEN ~PercentAccepted(Word.value)
                                    ELSE ~IsInt(Word.value)
        /\ Exit(49)
        /\ UNCHANGED <<argv, pos, members, iHighWaterMark, dHighWaterMark>>
  /\ UNCHANGED <<objects, BufferSize, RequestSize, PipeSize, iLowWaterMark, dLowWaterMark>>

\* MUTANT of ParseLowWaterMark: an earlier percentage is not withdrawn.
ParseLowWaterMarkKeeping ==
  /\ AtOption("l")
  /\ \/ /\ IsPercent(Word.value) /\ PercentAccepted(Word.value)
        /\ dLowWaterMark' = Word.value.part
        /\ UNCHANGED iLowWaterMark
        /\ NextWord
     \/ /\ IsInt(Word.value)
        /\ iLowWaterMark' = parseint(Word.value)
        /\ UNCHANGED dLowWaterMark
        /\ NextWord
     \/ /\ IF IsPercent(Word.value) THEN ~PercentAccepted(Word.value)
                                    ELSE ~IsInt(Word.value)
        /\ Exit(49)
        /\ UNCHANGED <<argv, pos, members, iLowWaterMark, dLowWaterMark>>
  /\ UNCHANGED <<objects, BufferSize, RequestSize, PipeSize, iHighWaterMark, dHighWaterMark>>
ParseLowWaterMark ==
  /\ AtOption("l")
  /\ \/ /\ IsPercent(Word.value) /\ PercentAccepted(Word.value)
        /\ dLowWaterMark' = Word.value.part
        /\ UNCHANGED iLowWaterMark
        /\ NextWord
     \/ /\ IsInt(Word.value)
        /\ iLowWaterMark' = parseint(Word.value)
        /\ dLowWaterMark' = Unset
        /\ NextWord
     \/ /\ IF IsPercent(Word.value) THEN ~PercentAccepted(Word.value)
                                    ELSE ~IsInt(Word.value)
        /\ Exit(49)
        /\ UNCHANGED <<argv, pos, members, iLowWaterMark, dLowWaterMark>>
  /\ UNCHANGED <<objects, BufferSize, RequestSize, PipeSize, iHighWaterMark, dHighWaterMark>>

\* -c, -s, -si and -so touch nothing that is modelled here.
ParseFlag == AtOption("flag") /\ NextWord /\ UNCHANGED <<objects, settings>>

RejectOption == AtOption("invalid") /\ SyntaxError

\* Anything without a leading dash, and the dash itself, is an I/O object.
ParseObject ==
  /\ AtOption("object")
  /\ IF objects < 2
     THEN objects' = objects + 1 /\ NextWord /\ UNCHANGED settings
     ELSE SyntaxError
-----------------------------------------------------------------------------
(* The rest of main's preparations *)

\* Without two objects main prints the usage.
EndOfArguments ==
  /\ stage = "parsing"
  /\ pos > Len(argv)
  /\ IF objects < 2 THEN Exit(48) ELSE stage' = "calculating" /\ UNCHANGED exitCode
  /\ UNCHANGED <<argv, pos, objects, settings, members>>

\* The marks become fractions of the buffer, and -r gets its value.
Fraction(i, d) == IF IsInvalid(d) THEN <<i, BufferSize>> ELSE d
TooLarge(i, d) == IsInvalid(d) /\ i > BufferSize

\* MUTANT of AutoRequestSize: the divisors are exchanged.
AutoRequestSizeSwapped ==
  IF BufferSize >= LargeBuffer THEN BufferSize \div 4 ELSE BufferSize \div 8
AutoRequestSize ==
  IF BufferSize >= LargeBuffer THEN BufferSize \div 8 ELSE BufferSize \div 4

Calculate ==
  /\ stage = "calculating"
  /\ IF TooLarge(iHighWaterMark, dHighWaterMark) \/ TooLarge(iLowWaterMark, dLowWaterMark)
     THEN Exit(49) /\ UNCHANGED settings
     ELSE /\ dHighWaterMark' = Fraction(iHighWaterMark, dHighWaterMark)
          /\ dLowWaterMark' = Fraction(iLowWaterMark, dLowWaterMark)
          /\ RequestSize' = IF RequestSize < 0 THEN AutoRequestSize ELSE RequestSize
          /\ stage' = "constructing"
          /\ UNCHANGED <<BufferSize, PipeSize, iHighWaterMark, iLowWaterMark, exitCode>>
  /\ UNCHANGED <<argv, pos, objects, members>>

\* Part2Bytes throws an invalid_argument, which is a logic_error.
Construct ==
  /\ stage = "constructing"
  /\ IF Part2BytesThrows(dLowWaterMark) \/ Part2BytesThrows(dHighWaterMark)
     THEN Exit(19) /\ UNCHANGED members
     ELSE /\ LowWaterMark' \in Part2Bytes(dLowWaterMark)
          /\ HighWaterMark' \in Part2Bytes(dHighWaterMark)
          /\ stage' = "constructed"
          /\ UNCHANGED exitCode
  /\ UNCHANGED <<argv, pos, objects, settings>>

Done == stage \in {"constructed", "exited"} /\ UNCHANGED vars

Next ==
  \/ ParseBufferSize \/ ParseRequestSize \/ ParsePipeSize
  \/ ParseHighWaterMark \/ ParseLowWaterMark
  \/ ParseFlag \/ RejectOption \/ ParseObject
  \/ EndOfArguments \/ Calculate \/ Construct \/ Done

Spec == Init /\ [][Next]_vars
-----------------------------------------------------------------------------
(* Properties *)

\* Settings are ints, whatever product of number and unit was asked for.
TypeOK ==
  /\ pos \in 1..(Len(argv) + 1)
  /\ objects \in 0..2
  /\ BufferSize \in Ints /\ RequestSize \in Ints /\ PipeSize \in Ints
  /\ iHighWaterMark \in Ints /\ iLowWaterMark \in Ints
  /\ HighWaterMark \in SizeT /\ LowWaterMark \in SizeT
  /\ stage \in {"parsing", "calculating", "constructing", "constructed", "exited"}
  /\ exitCode \in {NoCode, 19, 48, 49}

\* The value of the last option of a name, or the given default.
Given(name, default) ==
  LET places == {i \in DOMAIN argv : argv[i].option = name}
  IN  IF places = {} THEN default
      ELSE argv[CHOOSE i \in places : \A j \in places : j <= i].value

Bytes(number) == [kind |-> "int", number |-> number, unit |-> ""]
Percent(part) == [kind |-> "percent", part |-> part]
Whole         == Percent(<<1, 1>>)
IsNaN(value)  == IsPercent(value) /\ value.part = NaN

\* The FIFO is constructed only with what StaticFIFO assumes of its constants:
\* whatever is out of range on the command line is caught on the way, except for
\* a mark that is not a number.
ConstructedLegal ==
  stage = "constructed" =>
    /\ BufferSize >= 1
    /\ IsNaN(Given("l", Whole)) \/ LowWaterMark \in 0..BufferSize
    /\ IsNaN(Given("h", Bytes(0))) \/ HighWaterMark \in 0..BufferSize

\* The number of bytes that a value asks for by the usage text (buffer2.cpp:369-371).
\* It may be more than an int holds; the code then departs from the text and takes
\* the lower bits.
Asked(value) == value.number * Factor(value.unit)
AsAsked(size, value) ==
  size = IF Asked(value) \in Ints THEN Asked(value) ELSE parseint(value)

\* The mark a value stands for in a buffer of the final size: the bytes themselves,
\* or the whole number next to the part, at a tie one of the two.
IsMark(mark, value) ==
  IF IsPercent(value) THEN value.part = NaN \/ Rounds(mark, value.part)
                      ELSE AsAsked(mark, value)

\* The last option of each kind decides: a size that fits an int is the one asked
\* for, any other is what the overflow leaves of it.  Options of different kinds may
\* come in any order, and -h and -l in bytes reach the FIFO unchanged by their
\* detour over a fraction and its rounding errors.
LastOptionDecides ==
  stage = "constructed" =>
    /\ AsAsked(BufferSize, Given("b", Bytes(DefaultBuffer)))
    /\ AsAsked(PipeSize, Given("p", Bytes(DefaultPipe)))
    /\ IsMark(HighWaterMark, Given("h", Bytes(0)))
    /\ IsMark(LowWaterMark, Given("l", Whole))

\* A request size that was not given is a quarter of the buffer, an eighth of a
\* large one, as buffer2.html:111-113 says; a given one stays.  The usage text
\* (buffer2.cpp:372) differs: "As much as possible by default".
RequestChosen ==
  IF \E i \in DOMAIN argv : argv[i].option = "r"
  THEN AsAsked(RequestSize, Given("r", Bytes(0)))
  ELSE LET parts == IF BufferSize >= LargeBuffer THEN 8 ELSE 4
       IN  RequestSize * parts <= BufferSize /\ BufferSize < (RequestSize + 1) * parts
RequestSizeRule == stage = "constructed" => RequestChosen

\* What the texts say and the code does not keep: "The relative buffer level ... is
\* not in the range 0-100%" (buffer2.cpp:261) and "The level must be less than or
\* equal to the buffer size" (382-383).  A level out of range is a syntax error: it
\* neither becomes a mark nor ends as an internal error of the FIFO's constructor.
RangeErrorsAreSyntaxErrors ==
  /\ exitCode # 19
  /\ stage = "constructed" => HighWaterMark <= BufferSize /\ LowWaterMark <= BufferSize
-----------------------------------------------------------------------------
(* The inductive invariant: the settings are what the words read so far make  *)
(* of the defaults.                                                           *)

Before(name) == {i \in 1..(pos - 1) : argv[i].option = name}
LastBefore(name) == CHOOSE i \in Before(name) : \A j \in Before(name) : j <= i
GivenBefore(name, default) ==
  IF Before(name) = {} THEN default ELSE argv[LastBefore(name)].value

SizesParsed ==
  /\ AsAsked(BufferSize, GivenBefore("b", Bytes(DefaultBuffer))) /\ BufferSize >= 1
  /\ AsAsked(PipeSize, GivenBefore("p", Bytes(DefaultPipe)))

RequestParsed ==
  IF Before("r") = {} THEN RequestSize = -1
  ELSE AsAsked(RequestSize, GivenBefore("r", Bytes(0))) /\ RequestSize >= 1

MarkParsed(i, d, value) ==
  IF IsPercent(value) THEN PercentAccepted(value) /\ d \in Int \X Nat /\ d = value.part
  ELSE d = Unset /\ AsAsked(i, value)
MarkCalculated(d, value) ==
  IF IsPercent(value) THEN d \in Int \X Nat /\ d = value.part
  ELSE \E i \in Ints : AsAsked(i, value) /\ d = <<i, BufferSize>>

HighGiven == GivenBefore("h", Bytes(0))
LowGiven  == GivenBefore("l", Whole)

ParsedInv ==
  /\ stage # "exited" => SizesParsed
  /\ stage \in {"parsing", "calculating"} =>
       /\ RequestParsed
       /\ MarkParsed(iHighWaterMark, dHighWaterMark, HighGiven)
       /\ MarkParsed(iLowWaterMark, dLowWaterMark, LowGiven)
  /\ stage \notin {"parsing", "exited"} => pos = Len(argv) + 1

CalculatedInv ==
  stage = "constructing" =>
    /\ RequestChosen
    /\ MarkCalculated(dHighWaterMark, HighGiven)
    /\ MarkCalculated(dLowWaterMark, LowGiven)

OptionsInv ==
  /\ argv \in Seq(Arguments) /\ TypeOK /\ ParsedInv /\ CalculatedInv
  /\ ConstructedLegal /\ LastOptionDecides /\ RequestSizeRule
=============================================================================
