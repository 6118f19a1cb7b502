------------------------------ MODULE CompareUnits ------------------------------
(***************************************************************************)
(* The compare-to-unit pass: integer comparisons are split, >= and <= into *)
(* a strict one and an equality, signed ones into one of the sign bits and *)
(* an unsigned one, wide ones into comparisons of halves, and the          *)
(* constants they compare with become words of the dictionary.  A program  *)
(* is one comparison of x with y and what the pass makes of it: a          *)
(* comparison of w bits from bit lo on, or a branch on a comparison whose  *)
(* two ends meet in a phi.  A branch to No or to Yes is a constant that    *)
(* comes into the phi.                                                     *)
(***************************************************************************)
EXTENDS Integers, Sequences, FiniteSets

CONSTANTS
  Unit,         \* bits of a byte
  CompareWidths, \* widths of the comparison, in bits
  Constants(_)  \* the constants of a width

ASSUME CompareAssumption ==
  /\ Unit \in Nat \ {0}
  /\ CompareWidths \subseteq {Unit, 2 * Unit, 4 * Unit, 8 * Unit}

\* 2 to the power of n.
Power2[n \in 0 .. 8 * Unit] == IF n = 0 THEN 1 ELSE 2 * Power2[n - 1]

\* A constant is a number of its width.
ASSUME ConstantsAssumption ==
  \A w \in CompareWidths : Constants(w) \subseteq 0 .. Power2[w] - 1

VARIABLES
  compare,      \* the comparison: width, predicate, operands
  convert,      \* AFL_CONVERT_COMPARISON_TYPE
  program,
  todo,         \* icomps, what is left of it
  c2u_phase

compareVars == <<compare, convert, program, todo, c2u_phase>>

Equalities == {"eq", "ne"}
Signed  == {"sgt", "sge", "slt", "sle"}
Strict  == {"ugt", "sgt", "ult", "slt"}
Loose   == {"uge", "sge", "ule", "sle"}
Predicates == Equalities \cup Strict \cup Loose

No  == 0
Yes == -1

ICmp(pred, lo, w) == [op |-> "icmp", pred |-> pred, lo |-> lo, w |-> w, dict |-> FALSE, flagged |-> FALSE]
Branch(test, yes, no) == [op |-> "branch", test |-> test, yes |-> yes, no |-> no]

\* The width of an i1; no comparison of bytes has it.
SignBit == 0
IsWhole(c) == c.lo = 0 /\ c.w = compare.w

\* isStandardMagicValue(): only an operand that is not cut down can be a
\* ConstantInt (lshr and trunc are instructions, also those of a constant).
IsMagic(c) ==
  /\ IsWhole(c) /\ compare.side # "none"
  /\ LET k == compare.const  minusOne == Power2[compare.w] - 1
     IN IF c.pred \in Equalities /\ ~compare.call THEN k \in {0, 1} ELSE k \in {0, 1, minusOne}

-----------------------------------------------------------------------------
(* What is put in place of comparison n; what is new goes to the end. *)

Next1 == Len(program) + 1
Next2 == Len(program) + 2

\* simplifyCompares()
StrictOf(pred) == CASE pred = "uge" -> "ugt" [] pred = "sge" -> "sgt" [] pred = "ule" -> "ult" [] pred = "sle" -> "slt"

Simplified(n) ==
  [program EXCEPT ![n] = Branch(Next1, Yes, Next2)]
    \o <<ICmp(StrictOf(program[n].pred), 0, compare.w), ICmp("eq", 0, compare.w)>>

\* (faulty) the sign bits are compared like the numbers.
UnsignedSame(n) ==
  LET pred == IF program[n].pred = "sgt" THEN "ugt" ELSE "ult"
  IN [program EXCEPT ![n] = Branch(Next1, Next2, Next2 + 1)]
       \o <<ICmp("eq", 0, SignBit), ICmp(pred, 0, compare.w), ICmp(pred, 0, SignBit)>>

\* simplifySignedness(): a set sign bit is the smaller number.
Unsigned(n) ==
  LET gt == program[n].pred = "sgt"
  IN [program EXCEPT ![n] = Branch(Next1, Next2, Next2 + 1)]
       \o <<ICmp("eq", 0, SignBit), ICmp(IF gt THEN "ugt" ELSE "ult", 0, compare.w),
            ICmp(IF gt THEN "ult" ELSE "ugt", 0, SignBit)>>

Inverse1(pred) == IF pred = "ugt" THEN "ult" ELSE "ugt"

\* halfComparesAndRecord(): the high halves decide, the low ones only if they
\* leave it open; the word goes with the comparison of the high halves.
Halved(n) ==
  LET c == program[n]
      h == c.w \div 2
      high == [ICmp(c.pred, c.lo + h, h) EXCEPT !.flagged = c.pred \in Equalities, !.dict = c.dict]
      low  == [ICmp(c.pred, c.lo, h) EXCEPT !.flagged = c.pred \in Equalities]
  IN CASE c.pred = "eq" -> [program EXCEPT ![n] = Branch(Next1, Next2, No)] \o <<high, low>>
       [] c.pred = "ne" -> [program EXCEPT ![n] = Branch(Next1, Yes, Next2)] \o <<high, low>>
       [] OTHER -> [program EXCEPT ![n] = Branch(Next1, Yes, Next2 + 1)]
                     \o <<high, low, Branch(Next2 + 2, No, Next2), ICmp(Inverse1(c.pred), c.lo + h, h)>>

-----------------------------------------------------------------------------
(* The pass. *)

\* runOnModule(): simplifyCompares is -1 and simplifySignedness -2, the others
\* are widths in bytes.
Phases == IF convert = "NONE" THEN <<8, 4, 2, 1>> ELSE <<-1, -2, 8, 4, 2, 1>>
Phase  == Phases[c2u_phase]

Candidate(c) ==
  /\ c.op = "icmp" /\ c.w # SignBit
  /\ CASE Phase = -1 -> c.pred \in Loose
       [] Phase = -2 -> c.pred \in {"sgt", "slt"}
       [] OTHER -> c.pred \in {"eq", "ne", "ugt", "ult"} /\ c.w = Phase * Unit
  /\ ~IsMagic(c)

CollectCompares ==
  /\ c2u_phase \in 1 .. Len(Phases) /\ todo = {0}
  /\ todo' = {n \in 1 .. Len(program) : Candidate(program[n])}
  /\ UNCHANGED <<compare, convert, program, c2u_phase>>

NextPhase ==
  /\ todo = {}
  /\ c2u_phase' = c2u_phase + 1
  /\ todo' = {0}
  /\ UNCHANGED <<compare, convert, program>>

Simplify(n) == Phase = -1 /\ program' = Simplified(n)
Unsign(n)   == Phase = -2 /\ program' = Unsigned(n)

\* recordToDictionary(): an equality with a constant, once.
Records(c) == ~c.flagged /\ c.pred \in Equalities /\ compare.side # "none" /\ IsWhole(c)

Half(n) ==
  LET c == program[n]
      recorded == [program EXCEPT ![n].dict = @ \/ Records(c)]
      stays == \/ Records(c) /\ convert # "ALL"
               \/ convert = "NONE"
               \/ c.w <= Unit
  IN /\ Phase > 0
     /\ IF stays THEN program' = recorded
        ELSE program' = [Halved(n) EXCEPT ![Next1].dict = @ \/ Records(c)]

\* Each of icomps, in the order of the code.
Transform ==
  /\ c2u_phase \in 1 .. Len(Phases)
  /\ \E n \in todo \ {0} :
       /\ \A m \in todo : n <= m
       /\ todo' = todo \ {n}
       /\ Simplify(n) \/ Unsign(n) \/ Half(n)
  /\ UNCHANGED <<compare, convert, c2u_phase>>

CompareInit ==
  /\ compare \in [w : CompareWidths, pred : Predicates, side : {"none", "left", "right"},
                  const : UNION {Constants(w) : w \in CompareWidths}, call : BOOLEAN]
  /\ compare.const \in Constants(compare.w)
  /\ compare.side = "none" => compare.const = 0 /\ ~compare.call
  /\ convert \in {"ALL", "NONE", "NOT_DICT"}
  /\ program = <<ICmp(compare.pred, 0, compare.w)>>
  /\ todo = {0} /\ c2u_phase = 1

CompareNext == CollectCompares \/ Transform \/ NextPhase

CompareSpec == CompareInit /\ [][CompareNext]_compareVars

-----------------------------------------------------------------------------
(* What programs do. *)

SignedValue(x, w) == IF x >= Power2[w - 1] THEN x - Power2[w] ELSE x

Holds(pred, a, b, w) ==
  LET sa == SignedValue(a, w)  sb == SignedValue(b, w)
  IN CASE pred = "eq"  -> a = b   [] pred = "ne"  -> a # b
       [] pred = "ugt" -> a > b   [] pred = "uge" -> a >= b
       [] pred = "ult" -> a < b   [] pred = "ule" -> a <= b
       [] pred = "sgt" -> sa > sb [] pred = "sge" -> sa >= sb
       [] pred = "slt" -> sa < sb [] pred = "sle" -> sa <= sb

Field(x, c) == IF c.w = SignBit THEN x \div Power2[compare.w - 1] ELSE (x \div Power2[c.lo]) % Power2[c.w]

\* What c says of x and y.
Says(c, x, y) == Holds(c.pred, Field(x, c), Field(y, c), IF c.w = SignBit THEN 1 ELSE c.w)

\* The value of the comparison for x and y, and the comparisons executed for it.
Outcome(x, y) ==
  LET run[n \in Yes .. Len(program)] ==
        IF n <= 0 THEN [value |-> n, executed |-> {}]
        ELSE LET c == program[n]
             IN IF c.op = "icmp"
                  THEN [value |-> IF Says(c, x, y) THEN Yes ELSE No, executed |-> {n}]
                  ELSE LET test == run[c.test]
                           rest == run[IF test.value = Yes THEN c.yes ELSE c.no]
                       IN [value |-> rest.value, executed |-> test.executed \cup rest.executed]
  IN run[1]

Operands ==
  LET values(side) == IF compare.side = side THEN {compare.const} ELSE 0 .. Power2[compare.w] - 1
  IN values("left") \X values("right")

C2UDone == c2u_phase > Len(Phases)

-----------------------------------------------------------------------------
(* Properties. *)

\* "transforms signed compares to equivalent unsigned compares", "splits icmps of
\* size bitw into two nested icmps": after every step the program says of any
\* two operands what the comparison of the source said.
SameResult ==
  \A p \in Operands : Outcome(p[1], p[2]).value = Yes <=> Holds(compare.pred, p[1], p[2], compare.w)

\* The word a comparison waits for: of an equality, or of the equality in a
\* loose comparison once that is split.
WordWanted ==
  /\ compare.side # "none"
  /\ compare.pred \in Equalities \/ (compare.pred \in Loose /\ convert # "NONE")
  /\ ~IsMagic(ICmp(compare.pred, 0, compare.w))

\* "so as to keep the top-most instruction": a word is in the dictionary once, at
\* a comparison that is executed whenever the operands are equal; nothing else
\* is; and unless all are converted, a comparison with a word stays whole.
WordAtTheTop ==
  LET words == {n \in 1 .. Len(program) : program[n].op = "icmp" /\ program[n].dict}
  IN C2UDone =>
       /\ Cardinality(words) = IF WordWanted THEN 1 ELSE 0
       /\ \A p \in Operands : p[1] = p[2] => words \subseteq Outcome(p[1], p[2]).executed
       /\ convert # "ALL" => \A n \in words : IsWhole(program[n])

\* "if the other two functions were executed only these four predicates should
\* exist": with ALL nothing wider than a byte is compared any more, other than
\* with the values that are refused.
OnlyBytesCompared ==
  C2UDone /\ convert = "ALL" =>
    \A n \in 1 .. Len(program) :
      LET c == program[n]
      IN c.op = "icmp" => c.w \in {SignBit, Unit} \/ IsMagic(c)

\* Splitting loses nothing: not the result, not the word, and nothing is left
\* to split.
ComparesReplaced == SameResult /\ WordAtTheTop /\ OnlyBytesCompared
=============================================================================
