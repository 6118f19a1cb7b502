------------------------------- MODULE StringUnits -------------------------------
(***************************************************************************)
(* The strcompare-to-unit pass: a call of strcmp, strncmp or memcmp        *)
(* becomes a chain of blocks that subtract one character from the other,   *)
(* and its literal a word of the dictionary, kept at the comparisons and   *)
(* PHIs of the call's result.  A literal is the constant itself: the zero  *)
(* at its end is one of the characters.                                    *)
(***************************************************************************)
EXTENDS Integers, Sequences

CONSTANTS
  CharHalf,     \* 128, half of the values of a character
  MaxAutoExtra, \* MAX_AUTO_EXTRA, the longest word of a dictionary
  Literals,     \* constant arguments
  Buffers,      \* what the other arguments point to, up to the end of the object
  EarlyWords,   \* words that can be at a result before the pass looks at its call
  CmpLengths    \* third arguments

ASSUME StringAssumption ==
  /\ CharHalf \in Nat \ {0}
  /\ MaxAutoExtra \in Nat \ {0}
  /\ 0 \in CmpLengths /\ CmpLengths \subseteq Nat

Char == 0 .. 2 * CharHalf - 1
ASSUME LiteralsAssumption == Literals \cup Buffers \cup EarlyWords \subseteq Seq(Char) \ {<<>>}

VARIABLES
  call,          \* the call: function, arguments, length
  compared,      \* a comparison or a PHI uses its result
  s2u_convert,   \* AFL_CONVERT_COMPARISON_TYPE
  word,          \* the word at the result, then at the first branch, <<>> for none
  chain,         \* the characters of the literal by block, <<>> for two variables
  blocks,
  pos,           \* the block that runs, from 1
  s2u_result,
  s2u_step

stringVars == <<call, compared, s2u_convert, word, chain, blocks, pos, s2u_result, s2u_step>>

NoLiteral == <<>>
HasStr(k) == call.literal[k] # NoLiteral
BothVariable == ~HasStr(1) /\ ~HasStr(2)
UseLengthArg == call.fn # "strcmp"
ConstStr == IF HasStr(1) THEN call.literal[1] ELSE call.literal[2]
VarStr   == IF HasStr(1) THEN call.buffer[2] ELSE call.buffer[1]

\* getConstantStringInfo() answers "" for a constant of zeros only.
ZerosOnly == \A k \in 1 .. Len(ConstStr) : ConstStr[k] = 0
Known == IF ZerosOnly THEN <<0>> ELSE ConstStr

\* Two literals, or nothing known of either argument and of the length.
Unsuitable == (HasStr(1) /\ HasStr(2)) \/ (BothVariable /\ call.fn = "strcmp")

\* (faulty) the literal without its zero.
ConstLenTrimmed ==
  IF UseLengthArg THEN call.n ELSE IF ZerosOnly THEN 0 ELSE Len(ConstStr) - 1

\* "This happens with empty string": zero.
ConstLen == IF UseLengthArg THEN call.n ELSE IF ZerosOnly THEN 0 ELSE Len(ConstStr)

\* Behind its end a literal is read like any memory.
ConstChars ==
  {[k \in 1 .. ConstLen |-> IF k <= Len(Known) THEN Known[k] ELSE behind[k]] :
     behind \in [Len(Known) + 1 .. ConstLen -> Char]}

\* Stringify() of a text: nothing when too long, and without a zero at its end.
Text(chars) ==
  IF Len(chars) > MaxAutoExtra THEN <<>>
  ELSE IF chars[Len(chars)] = 0 THEN SubSeq(chars, 1, Len(chars) - 1) ELSE chars

\* addToDictionary(): the word goes to what compares the result, if anything does.
WordLeft(chars) == IF compared THEN Text(chars) ELSE <<>>

Untouched ==
  /\ s2u_step' = "kept"
  /\ UNCHANGED <<chain, blocks>>

\* ASSERT(), which ends the compiler.
Abort ==
  /\ s2u_step' = "failed"
  /\ UNCHANGED <<chain, blocks>>

\* The word is taken off the result and given to the first branch: a chain of
\* one block has none and loses it.
MakeChain(chars, taken) ==
  /\ chain' = chars
  /\ blocks' = ConstLen
  /\ word' = IF ConstLen > 1 THEN taken ELSE <<>>
  /\ s2u_step' = "run"

KeepCall ==
  /\ Unsuitable \/ ConstLen = 0
  /\ Untouched
  /\ UNCHANGED word

\* Two variables: there may be a word from harvestConstantStores() and the like.
TransformVariables ==
  /\ ~Unsuitable /\ ConstLen # 0 /\ BothVariable
  /\ IF s2u_convert = "NONE" \/ (s2u_convert = "NOT_DICT" /\ word # <<>>)
       THEN Untouched /\ UNCHANGED word
       ELSE MakeChain(<<>>, word)

\* A literal: a word that is at its result already (harvested, or of another call
\* with the same PHI) is an error, and so is none when the chain is to be made.
TransformLiteral ==
  /\ ~Unsuitable /\ ConstLen # 0 /\ ~BothVariable
  /\ \/ word # <<>> /\ Abort /\ UNCHANGED word
     \/ /\ word = <<>>
        /\ \E chars \in ConstChars :
             \/ s2u_convert # "ALL" /\ Untouched /\ word' = WordLeft(chars)
             \/ s2u_convert = "ALL" /\ WordLeft(chars) = <<>> /\ Abort /\ word' = <<>>
             \/ s2u_convert = "ALL" /\ WordLeft(chars) # <<>> /\ MakeChain(chars, WordLeft(chars))

\* transformCmps() for the call.
TransformCall ==
  /\ s2u_step = "select"
  /\ KeepCall \/ TransformVariables \/ TransformLiteral
  /\ UNCHANGED <<call, compared, s2u_convert, pos, s2u_result>>

\* An i8, extended with its sign.
SignExtended(d) == IF d >= CharHalf THEN d - 2 * CharHalf ELSE d

Inside == pos <= Len(VarStr) /\ (BothVariable => pos <= Len(call.buffer[2]))

Difference ==
  ((IF BothVariable THEN call.buffer[1][pos] - call.buffer[2][pos] ELSE chain[pos] - VarStr[pos])
     + 2 * CharHalf) % (2 * CharHalf)

\* One block of the chain, in the program under test.
RunBlock ==
  /\ s2u_step = "run"
  /\ IF ~Inside
       THEN s2u_step' = "overread" /\ UNCHANGED <<pos, s2u_result>>
       ELSE IF Difference = 0 /\ pos < blocks
              THEN pos' = pos + 1 /\ UNCHANGED <<s2u_result, s2u_step>>
              ELSE /\ s2u_result' = SignExtended(Difference)
                   /\ s2u_step' = "done"
                   /\ UNCHANGED pos
  /\ UNCHANGED <<call, compared, s2u_convert, word, chain, blocks>>

StringInit ==
  /\ call \in [fn : {"strcmp", "strncmp", "memcmp"}, nocase : BOOLEAN,
               literal : {<<l, NoLiteral>> : l \in Literals} \cup {<<NoLiteral, l>> : l \in Literals}
                         \cup {<<NoLiteral, NoLiteral>>} \cup {<<l, l>> : l \in Literals},
               buffer : (Buffers \cup {<<>>}) \X (Buffers \cup {<<>>}), n : CmpLengths]
  /\ \A k \in {1, 2} : (call.buffer[k] = <<>>) <=> HasStr(k)
  /\ call.fn = "strcmp" => call.n = 0
  /\ call.fn = "memcmp" => ~call.nocase
  /\ s2u_convert \in {"ALL", "NONE", "NOT_DICT"}
  /\ compared \in BOOLEAN
  /\ word \in {<<>>} \cup IF compared THEN EarlyWords ELSE {}
  /\ chain = <<>> /\ blocks = 0
  /\ pos = 1 /\ s2u_result = 0 /\ s2u_step = "select"

StringNext == TransformCall \/ RunBlock

StringSpec == StringInit /\ [][StringNext]_stringVars

-----------------------------------------------------------------------------
(* Properties. *)

Argument(k) == IF HasStr(k) THEN call.literal[k] ELSE call.buffer[k]

\* The first position that decides, if any: a difference or the end of both.
Decides(k) ==
  Argument(1)[k] # Argument(2)[k] \/ (call.fn # "memcmp" /\ Argument(1)[k] = 0)

\* What the C library says: the arguments are equal.
ArgumentsEqual ==
  ~\E k \in 1 .. Len(Argument(1)) :
     /\ k <= Len(Argument(2)) /\ (UseLengthArg => k <= call.n)
     /\ Argument(1)[k] # Argument(2)[k]
     /\ \A m \in 1 .. k - 1 : ~Decides(m)

\* A call without undefined behaviour: strings end, memory is as long as said.
Defined(k) ==
  IF call.fn = "memcmp" THEN call.n <= Len(Argument(k))
  ELSE (\E m \in 1 .. Len(Argument(k)) : Argument(k)[m] = 0)
       \/ (UseLengthArg /\ call.n <= Len(Argument(k)))

\* Both strings end, at the same place, before the last character the chain has.
EndsEarly ==
  /\ call.fn # "memcmp"
  /\ \E k \in 1 .. ConstLen - 1 :
       /\ k <= Len(Argument(1)) /\ k <= Len(Argument(2))
       /\ Argument(1)[k] = 0
       /\ \A m \in 1 .. k : Argument(1)[m] = Argument(2)[m]

\* The chain of blocks says "equal" when the call did and reads nothing behind
\* the end of an argument, though it knows nothing of the end of a string: the
\* zero is compared like any other character.  It is so for every defined call,
\* but for three kinds: where case does not matter, where the literal is not seen
\* whole (zeros only), and where both strings end early, because the chain goes
\* on behind their end.
SameEquality ==
  /\ ~call.nocase /\ Defined(1) /\ Defined(2) /\ ~EndsEarly
  /\ ~BothVariable => Known = ConstStr
  => /\ s2u_step # "overread"
     /\ s2u_step = "done" => ((s2u_result = 0) <=> ArgumentsEqual)

\* "it's OK for strcmp and strncmp as tailing '\0' will not match": a length
\* beyond the literal does no harm.
TailingZeroStops ==
  /\ call.fn = "strncmp" /\ ~call.nocase /\ Defined(1) /\ Defined(2)
  /\ ~BothVariable /\ ~ZerosOnly /\ call.n > Len(ConstStr)
  => /\ s2u_step # "overread"
     /\ s2u_step = "done" => ((s2u_result = 0) <=> ArgumentsEqual)
=============================================================================
