----------------------------- MODULE MCOptions -----------------------------
(***************************************************************************)
(* Options for TLC.  Kilo is 4 instead of 1024, and an int has 4 * Kilo^3  *)
(* values as it has 4 * 1024^3 in a 32-bit program, so that the products   *)
(* overflow at the same units.                                             *)
(***************************************************************************)
EXTENDS Options

MCKilo == 4
MCIntSize == 4 * MCKilo * MCKilo * MCKilo

Size(n, u) == [kind |-> "int", number |-> n, unit |-> u]
Malformed == [kind |-> "none"]
Half      == Percent(<<1, 2>>)
Third     == Percent(<<33, 100>>)
Excess    == Percent(<<3, 2>>)
Infinite  == Percent(<<1, 0>>)

Valued(name, values) == {[option |-> name, value |-> v] : v \in values}

\* 2g is the most negative int, 5g is 1g once the high bits are lost; 16 bytes
\* and more count as large.  Half of 7 or 3 bytes is a tie.
MCOptionWords ==
  Valued("b", {Size(3, ""), Size(4, "k"), Size(2, "g"), Size(5, "g"), Size(1, "x")}) \cup
  Valued("r", {Size(2, ""), Malformed}) \cup
  Valued("p", {Size(2, "k")}) \cup
  Valued("h", {Size(2, ""), Size(5, "k"), Half, Excess, Percent(NaN)}) \cup
  Valued("l", {Size(0, ""), Third, Percent(NaN), Infinite, Size(-5, "")}) \cup
  {[option |-> "flag"]}

Object == [option |-> "object"]
MCWords == MCOptionWords \cup {Object, [option |-> "invalid"]}

\* Up to two words of any kind, and up to three options around two objects.
UpTo(n, S) == UNION {[1..k -> S] : k \in 0..n}
MCCommandLines ==
  UpTo(2, MCWords) \cup {opts \o <<Object, Object>> : opts \in UpTo(3, MCOptionWords)}
                   \cup {<<Object>> \o opts \o <<Object, Object>> : opts \in UpTo(1, MCOptionWords)}
=============================================================================
