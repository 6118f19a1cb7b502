------------------------------- MODULE DetStages -------------------------------
(***************************************************************************)
(* The deterministic stages of fuzz_one(): bit flips, arithmetics and      *)
(* interesting values, the effector map the flips of whole bytes leave for *)
(* the later stages, and could_be_bitflip / could_be_arith /               *)
(* could_be_interest, by which a stage refuses what an earlier one tried.  *)
(* out_buf equals in_buf before and after every run; one step is one       *)
(* stage.                                                                  *)
(***************************************************************************)
EXTENDS Entry, FiniteSets, FiniteSetsExt

CONSTANTS
  ArithMax,       \* ARITH_MAX
  EffMinLen,      \* EFF_MIN_LEN
  EffMaxPerc      \* EFF_MAX_PERC

ASSUME StagesAssumption ==
  /\ ArithMax \in 1 .. 127
  /\ EffMinLen \in Nat /\ EffMaxPerc \in 0 .. 100

VARIABLES
  no_arith,   \* AFL_NO_ARITH
  tried,      \* the inputs the stages so far have run
  stage       \* the next stage, or "abandoned"

stageVars == <<in_buf, no_arith, eff_map, tried, stage>>

Offsets(n) == 1 .. len - n + 1                \* where n bytes fit
Get(i, n) == SubSeq(in_buf, i, i + n - 1)     \* the n-byte value at i
Put(i, v) == Over(in_buf, i, v)

\* v + j in w bytes of v, which wraps around.
Plus(v, j) ==
  LET carry[k \in 0 .. Len(v)] == IF k = 0 THEN j ELSE (v[k] + carry[k - 1]) \div 256
  IN [k \in 1 .. Len(v) |-> (v[k] + carry[k - 1]) % 256]

PlusBE(v, j) == Swap(Plus(Swap(v), j))  \* SWAP(SWAP(v) + j)

Sums == {j \in -ArithMax .. ArithMax : j # 0}

\* The bits in which a and b differ, numbered as in a little-endian integer.
Xor(a, b) ==
  {x \in 0 .. 8 * Len(a) - 1 :
     LET k == x \div 8 + 1  p == 2 ^ (x % 8) IN (a[k] \div p) % 2 # (b[k] \div p) % 2}

-----------------------------------------------------------------------------
(* What a later stage takes for tried. *)

\* x is the set of bits to flip.
CouldBeBitflip(x) ==
  x # {} =>
    LET sh == Min(x)
        pattern == {b - sh : b \in x}
    IN \/ pattern \in {0 .. 0, 0 .. 1, 0 .. 3}
       \/ sh % 8 = 0 /\ pattern \in {0 .. 7, 0 .. 15, 0 .. 31}

\* The n-byte parts of v, at multiples of n, in which old and new differ.
Differing(old, new, n) ==
  {i \in 0 .. Len(old) \div n - 1 :
     SubSeq(old, n * i + 1, n * i + n) # SubSeq(new, n * i + 1, n * i + n)}

\* (faulty) any one word that differs is close enough.
CouldBeArithAnyWord(old, new) ==
  LET near(n) ==
        \E i \in Differing(old, new, n) :
          /\ Differing(old, new, n) = {i}
          /\ LET a == SubSeq(old, n * i + 1, n * i + n)
                 b == SubSeq(new, n * i + 1, n * i + n)
             IN n = 2 \/ \E j \in Sums : b \in {Plus(a, j), PlusBE(a, j)}
  IN old = new \/ near(1) \/ (Len(old) > 1 /\ near(2)) \/ (Len(old) = 4 /\ near(4))

\* One byte, one word or the whole dword is off by at most ArithMax.
CouldBeArith(old, new) ==
  LET near(n) ==
        \E i \in Differing(old, new, n) :
          /\ Differing(old, new, n) = {i}
          /\ LET a == SubSeq(old, n * i + 1, n * i + n)
                 b == SubSeq(new, n * i + 1, n * i + n)
             IN \E j \in Sums : b \in {Plus(a, j), PlusBE(a, j)}
  IN old = new \/ near(1) \/ (Len(old) > 1 /\ near(2)) \/ (Len(old) = 4 /\ near(4))

CouldBeInterest(old, new, check_le) ==
  LET n == Len(old)
  IN \/ old = new
     \/ \E i \in 1 .. n, v \in Interesting8 : new = Over(old, i, v)
     \/ /\ n = 4 \/ check_le
        /\ \E i \in 1 .. n - 1, v \in Interesting16 :
             new = Over(old, i, v) \/ (n = 4 /\ new = Over(old, i, Swap(v)))
     \/ n = 4 /\ check_le /\ new \in Interesting32

-----------------------------------------------------------------------------
(* The stages. *)

\* Bit s counts from the highest of its byte, as FLIP_BIT does.
FlipBits(s, n) ==
  [k \in 1 .. len |->
     LET flipped == {7 - (t % 8) : t \in {t \in s .. s + n - 1 : t \div 8 = k - 1}}
         value(p) == LET b == (in_buf[k] \div 2 ^ p) % 2 IN (IF p \in flipped THEN 1 - b ELSE b) * 2 ^ p
     IN value(0) + value(1) + value(2) + value(3) + value(4) + value(5) + value(6) + value(7)]

FlipBytes(i, n) == Put(i, [k \in 1 .. n |-> 255 - in_buf[i + k - 1]])

\* The inputs of the stage that flips n bits with a stepover of one.
WalkingBits(n) == {FlipBits(s, n) : s \in 0 .. 8 * len - n}

\* The inputs of the stage that flips n bytes, those with no effect excepted.
WalkingBytes(n) == {FlipBytes(i, n) : i \in {i \in Offsets(n) : n = 1 \/ Effective(i, n)}}

\* The low half of v as a number; a sum that does not carry out of it was
\* made by the stage for the half width.
LowHalf(v) == IF Len(v) = 4 THEN v[1] + 256 * v[2] ELSE v[1]

Carries(v, j) ==
  Len(v) = 1 \/ LowHalf(v) + j > (IF Len(v) = 4 THEN 65535 ELSE 255) \/ LowHalf(v) + j < 0

\* The values "arith 8n" writes over v.
ArithTried(v) ==
  {w \in {Plus(v, j) : j \in {j \in Sums : Carries(v, j)}}
         \cup {PlusBE(v, j) : j \in {j \in Sums : Len(v) > 1 /\ Carries(Swap(v), j)}} :
     ~CouldBeBitflip(Xor(v, w))}

Interesting(n) == CASE n = 1 -> Interesting8 [] n = 2 -> Interesting16 [] n = 4 -> Interesting32

\* The values "interest 8n" writes over v.
InterestTried(v) ==
  LET n == Len(v)
      unique(w, check_le) ==
        /\ ~CouldBeBitflip(Xor(v, w)) /\ ~CouldBeArith(v, w)
        /\ n > 1 => ~CouldBeInterest(v, w, check_le)
  IN {w \in Interesting(n) : unique(w, FALSE)}
     \cup IF n = 1 THEN {}
          ELSE {w \in {Swap(u) : u \in {u \in Interesting(n) : u # Swap(u)}} : unique(w, TRUE)}

ArithStage(n) == UNION {{Put(i, w) : w \in ArithTried(Get(i, n))} : i \in {i \in Offsets(n) : Effective(i, n)}}
InterestStage(n) == UNION {{Put(i, w) : w \in InterestTried(Get(i, n))} : i \in {i \in Offsets(n) : Effective(i, n)}}

-----------------------------------------------------------------------------
(* The order of the stages. *)

\* The entry is abandoned at any run: stopped, skipped by the user, or with
\* too many timeouts in a row.
Abandon ==
  /\ stage \notin {"done", "abandoned"}
  /\ stage' = "abandoned"
  /\ UNCHANGED <<in_buf, no_arith, eff_map, tried>>

Runs(name, inputs, next) ==
  /\ stage = name
  /\ tried' = tried \cup inputs
  /\ stage' = next
  /\ UNCHANGED <<in_buf, no_arith>>

Flip1 == Runs("flip1", WalkingBits(1), "flip2") /\ UNCHANGED eff_map
Flip2 == Runs("flip2", WalkingBits(2), "flip4") /\ UNCHANGED eff_map
Flip4 == Runs("flip4", WalkingBits(4), "flip8") /\ UNCHANGED eff_map

\* The first and the last entry are always set, others when flipping a byte
\* changes the checksum (or without asking, in a short file); a map that is
\* dense is set altogether.
Flip8 ==
  /\ Runs("flip8", WalkingBytes(1),
          IF len < 2 THEN (IF no_arith THEN "int8" ELSE "arith8") ELSE "flip16")
  /\ \E changed \in SUBSET (0 .. EffLen - 1) :
       LET marked == {0, EffLen - 1} \cup IF len >= EffMinLen THEN changed ELSE 0 .. EffLen - 1
       IN eff_map' = IF (Cardinality(marked) * 100) \div EffLen > EffMaxPerc
                       THEN 0 .. EffLen - 1 ELSE marked

Flip16 ==
  /\ Runs("flip16", WalkingBytes(2),
          IF len >= 4 THEN "flip32" ELSE IF no_arith THEN "int8" ELSE "arith8")
  /\ UNCHANGED eff_map

Flip32 == Runs("flip32", WalkingBytes(4), IF no_arith THEN "int8" ELSE "arith8") /\ UNCHANGED eff_map

Arith8  == Runs("arith8", ArithStage(1), IF len < 2 THEN "int8" ELSE "arith16") /\ UNCHANGED eff_map
Arith16 == Runs("arith16", ArithStage(2), IF len < 4 THEN "int8" ELSE "arith32") /\ UNCHANGED eff_map
Arith32 == Runs("arith32", ArithStage(4), "int8") /\ UNCHANGED eff_map

Int8  == Runs("int8", InterestStage(1), IF no_arith \/ len < 2 THEN "done" ELSE "int16") /\ UNCHANGED eff_map
Int16 == Runs("int16", InterestStage(2), IF len < 4 THEN "done" ELSE "int32") /\ UNCHANGED eff_map
Int32 == Runs("int32", InterestStage(4), "done") /\ UNCHANGED eff_map

StagesStart(input, na) ==
  /\ in_buf = input /\ no_arith = na
  /\ eff_map = {} /\ tried = {} /\ stage = "flip1"

StagesInit == \E input \in Inputs, na \in BOOLEAN : StagesStart(input, na)

StagesNext ==
  \/ Flip1 \/ Flip2 \/ Flip4 \/ Flip8 \/ Flip16 \/ Flip32
  \/ Arith8 \/ Arith16 \/ Arith32 \/ Int8 \/ Int16 \/ Int32 \/ Abandon

StagesSpec == StagesInit /\ [][StagesNext]_stageVars

-----------------------------------------------------------------------------
(* Properties. *)

\* The values the stages promise for the n bytes v.
Promised(v) ==
  {Plus(v, j) : j \in Sums} \cup {PlusBE(v, j) : j \in Sums}
  \cup Interesting(Len(v)) \cup {Swap(w) : w \in Interesting(Len(v))}

\* A change confined to bytes that are flagged as having no effect.
NoEffect(b) == \A k \in 1 .. len : b[k] # in_buf[k] => EffPos(k) \notin eff_map

\* "This is used to avoid dupes": what the stages leave out of their programme,
\* every sum up to ARITH_MAX and every interesting value of each width, at each
\* offset and in both byte orders, has been run by an earlier stage, or changes
\* bytes without effect only, or is taken for a bit flip.
EveryValueTried ==
  stage = "done" /\ ~no_arith =>
    \A n \in {1, 2, 4} : \A i \in Offsets(n) : \A v \in Promised(Get(i, n)) :
      \/ Put(i, v) = in_buf \/ Put(i, v) \in tried
      \/ NoEffect(Put(i, v)) \/ CouldBeBitflip(Xor(Get(i, n), v))

\* "could be a product of deterministic bit flips with the lengths and
\* stepovers attempted by afl-fuzz": a value refused for this was run.
ClaimedFlipsWereTried ==
  stage = "done" =>
    \A n \in {1, 2, 4} : \A i \in Offsets(n) : \A v \in Promised(Get(i, n)) :
      CouldBeBitflip(Xor(Get(i, n), v)) =>
        Put(i, v) = in_buf \/ Put(i, v) \in tried \/ NoEffect(Put(i, v))
=============================================================================
