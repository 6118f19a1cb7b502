--------------------------------- MODULE Values ---------------------------------
(***************************************************************************)
(* Bytes, values of one, two and four bytes, and the interesting values of *)
(* config.h.  A value is the sequence of its bytes in memory order, on a   *)
(* little-endian machine (the code reads and writes values through casts   *)
(* of the buffer).                                                         *)
(***************************************************************************)
EXTENDS Integers, Sequences

CONSTANTS
  Interesting8,    \* interesting_8, interesting_16 and interesting_32:
  Interesting16,   \* sets of values of the width
  Interesting32

Byte == 0 .. 255

ASSUME InterestingAssumption ==
  /\ \A v \in Interesting8 : v \in [1 .. 1 -> Byte]
  /\ \A v \in Interesting16 : v \in [1 .. 2 -> Byte]
  /\ \A v \in Interesting32 : v \in [1 .. 4 -> Byte]

\* SWAP16 and SWAP32.
Swap(v) == [k \in 1 .. Len(v) |-> v[Len(v) + 1 - k]]

\* old with v written over it at i.
Over(old, i, v) == [k \in 1 .. Len(old) |-> IF k \in i .. i + Len(v) - 1 THEN v[k - i + 1] ELSE old[k]]
=============================================================================
