------------------------------- MODULE HavocBounds -------------------------------
(***************************************************************************)
(* What the random half of fuzz_one() is given: the test cases and scores  *)
(* it meets, and the limits config.h sets it.                              *)
(***************************************************************************)
EXTENDS Integers, Sequences

CONSTANTS
  Contents,         \* test cases, sequences of bytes
  ExtraLens,        \* lengths of tokens with -d and a plain dictionary, if any
  Times, Sizes,     \* execution times and bitmap sizes of an entry
  AvgTime, AvgSize, \* and their averages
  Depths, Handicaps,
  HavocCycles, HavocCyclesInit, SpliceHavoc, HavocMin,  \* HAVOC_CYCLES ...
  HavocDiv,         \* havoc_div
  HavocMaxMult,     \* HAVOC_MAX_MULT
  StackPow2,        \* HAVOC_STACK_POW2
  BlkSmall, BlkMedium, BlkLarge, BlkXL,  \* HAVOC_BLK_SMALL ...
  MaxFileLen,       \* MAX_FILE
  SpliceCycles,     \* SPLICE_CYCLES
  Stride,           \* 100, the distance next_100 is for
  MaxPaths          \* bound on queued_paths

ASSUME ContentsAssumption ==
  \A d \in Contents : d \in Seq(Nat) /\ Len(d) \in 1 .. MaxFileLen
ASSUME BlocksAssumption ==
  /\ BlkSmall \in Nat \ {0} /\ BlkMedium \in Nat \ {0} /\ BlkLarge \in Nat \ {0} /\ BlkXL \in Nat \ {0}
  /\ BlkSmall <= BlkMedium /\ BlkMedium <= BlkLarge /\ BlkLarge <= BlkXL
  /\ MaxFileLen \in Nat /\ ExtraLens \subseteq Nat \ {0}
ASSUME EnergyAssumption ==
  /\ HavocCycles \in Nat /\ HavocCyclesInit \in Nat /\ SpliceHavoc \in Nat /\ HavocMin \in Nat \ {0}
  /\ HavocDiv \in Nat \ {0} /\ HavocMaxMult \in Nat \ {0} /\ StackPow2 \in Nat \ {0}
  /\ Times \subseteq Nat /\ Sizes \subseteq Nat /\ AvgTime \in Nat /\ AvgSize \in Nat
  /\ Depths \subseteq Nat /\ Handicaps \subseteq Nat /\ SpliceCycles \in Nat
ASSUME StrideAssumption == Stride \in Nat /\ Stride > 1 /\ MaxPaths \in Nat \ {0}
=============================================================================
