---------------------------------- MODULE Entry ----------------------------------
(***************************************************************************)
(* The test case at hand and its effector map, which flips of whole bytes  *)
(* leave for the stages that follow: fuzz_one() keeps both from stage to   *)
(* stage.  Position 1 of a buffer is its offset 0.                         *)
(***************************************************************************)
EXTENDS Values

CONSTANTS
  Inputs,     \* test cases, sequences of bytes
  EffScale    \* bytes per entry of the effector map (2^EFF_MAP_SCALE2)

ASSUME InputsAssumption == Inputs \subseteq (Seq(Byte) \ {<<>>})
ASSUME ScaleAssumption == EffScale \in Nat \ {0}

VARIABLES
  in_buf,
  eff_map     \* the entries of the effector map that are set

len == Len(in_buf)

EffPos(i) == (i - 1) \div EffScale
EffLen == EffPos(len) + 1

\* One of the n bytes from i has an effect.
Effective(i, n) == \E k \in i .. i + n - 1 : EffPos(k) \in eff_map
=============================================================================
