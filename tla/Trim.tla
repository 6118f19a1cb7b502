----------------------------------- MODULE Trim -----------------------------------
(***************************************************************************)
(* trim_case(): blocks of a test case are left out, smaller and smaller    *)
(* ones, and stay out when the checksum of the run is the entry's own.  It *)
(* works on the buffer of fuzz_one(), shortens q->len with every block and *)
(* writes the file anew in the end.                                        *)
(***************************************************************************)
EXTENDS Entry

CONSTANTS
  TrimInputs,   \* test cases of the length this takes
  TrimMinLen,   \* 5, the least length that is trimmed
  TrimMinBytes, \* TRIM_MIN_BYTES
  TrimStart,    \* TRIM_START_STEPS and TRIM_END_STEPS
  TrimEnd,
  PowersOfTwo   \* as many of them as the lengths ask for

ASSUME TrimInputsAssumption ==
  \A t \in TrimInputs :
    /\ t \in Seq(Byte) \ {<<>>}
    /\ \A n \in 1 .. Len(t) : \E p \in PowersOfTwo : p >= n /\ (p = 1 \/ p \div 2 < n)
ASSUME TrimAssumption ==
  /\ TrimMinBytes \in Nat \ {0} /\ TrimStart \in Nat \ {0} /\ TrimEnd \in Nat \ {0}
  /\ TrimMinLen \in Nat /\ TrimMinLen > TrimMinBytes /\ PowersOfTwo \subseteq Nat

VARIABLES
  q_len,                    \* q->len
  len_p2, remove_len, remove_pos,
  needs_write,
  stage_cur, stage_max,
  disk,                     \* the file of the entry; <<>> for none
  same,                     \* the inputs that had the checksum of the entry
  trim_step

trimVars == <<in_buf, eff_map, q_len, len_p2, remove_len, remove_pos, needs_write,
              stage_cur, stage_max, disk, same, trim_step>>

Larger(x, y) == IF x >= y THEN x ELSE y

\* next_p2()
NextP2(n) == CHOOSE p \in PowersOfTwo : p >= n /\ (p = 1 \/ p \div 2 < n)

Least == Larger(len_p2 \div TrimEnd, TrimMinBytes)

\* The case as it stands, and what is left of it without the block at remove_pos
\* (write_with_gap() and memmove()).
Current == SubSeq(in_buf, 1, q_len)
TrimAvail == IF remove_len <= q_len - remove_pos THEN remove_len ELSE q_len - remove_pos
WithGap == SubSeq(in_buf, 1, remove_pos) \o SubSeq(in_buf, remove_pos + TrimAvail + 1, q_len)

StartTrim ==
  /\ trim_step = "start"
  /\ IF q_len < TrimMinLen
       THEN /\ trim_step' = "done"
            /\ UNCHANGED <<len_p2, remove_len>>
       ELSE /\ len_p2' = NextP2(q_len)
            /\ remove_len' = Larger(len_p2' \div TrimStart, TrimMinBytes)
            /\ trim_step' = "pass"
  /\ UNCHANGED <<in_buf, eff_map, q_len, remove_pos, needs_write, stage_cur, stage_max, disk, same>>

GoesOn == remove_len >= Least

\* The next stage, or the end.
Pass ==
  /\ trim_step = "pass"
  /\ IF GoesOn
       THEN /\ remove_pos' = remove_len
            /\ stage_cur' = 0 /\ stage_max' = q_len \div remove_len
            /\ trim_step' = "run"
       ELSE /\ trim_step' = IF needs_write THEN "unlink" ELSE "done"
            /\ UNCHANGED <<remove_pos, stage_cur, stage_max>>
  /\ UNCHANGED <<in_buf, eff_map, q_len, len_p2, remove_len, needs_write, disk, same>>

\* memmove(): what is behind the new end stays there.
Moved == [k \in 1 .. Len(in_buf) |-> IF k <= Len(WithGap) THEN WithGap[k] ELSE in_buf[k]]

\* (faulty) a last block that is cut short counts as whole.
ShrunkWhole == IF q_len > remove_len THEN q_len - remove_len ELSE 1

Shrunk == q_len - TrimAvail

\* The run without the block; how it ended does not matter, except when
\* the target could not be executed.
TryGap ==
  /\ trim_step = "run" /\ remove_pos < q_len
  /\ \E kept \in BOOLEAN :
       /\ IF kept
            THEN /\ in_buf' = Moved
                 /\ q_len' = Shrunk
                 /\ len_p2' = NextP2(q_len')
                 /\ needs_write' = TRUE
                 /\ same' = same \cup {WithGap}
            ELSE UNCHANGED <<in_buf, q_len, len_p2, needs_write, same>>
       /\ remove_pos' = IF kept THEN remove_pos ELSE remove_pos + remove_len
  /\ stage_cur' = stage_cur + 1
  /\ UNCHANGED <<eff_map, remove_len, stage_max, disk, trim_step>>

Halved == remove_len \div 2

Halve ==
  /\ trim_step = "run" /\ remove_pos >= q_len
  /\ remove_len' = Halved
  /\ trim_step' = "pass"
  /\ UNCHANGED <<in_buf, eff_map, q_len, len_p2, remove_pos, needs_write, stage_cur, stage_max, disk, same>>

\* Stopped, or not to be executed: the session ends with the file as it was.
AbortTrim ==
  /\ trim_step = "run" /\ remove_pos < q_len
  /\ trim_step' = "aborted"
  /\ UNCHANGED <<in_buf, eff_map, q_len, len_p2, remove_len, remove_pos, needs_write,
                 stage_cur, stage_max, disk, same>>

Unlink ==
  /\ trim_step = "unlink"
  /\ disk' = <<>>
  /\ trim_step' = "write"
  /\ UNCHANGED <<in_buf, eff_map, q_len, len_p2, remove_len, remove_pos, needs_write,
                 stage_cur, stage_max, same>>

Written == SubSeq(in_buf, 1, q_len)

WriteTrimmed ==
  /\ trim_step = "write"
  /\ disk' = Written
  /\ trim_step' = "done"
  /\ UNCHANGED <<in_buf, eff_map, q_len, len_p2, remove_len, remove_pos, needs_write,
                 stage_cur, stage_max, same>>

TrimStartState(input) ==
  /\ in_buf = input /\ eff_map = {}
  /\ q_len = Len(input)
  /\ len_p2 = 0 /\ remove_len = 0 /\ remove_pos = 0
  /\ needs_write = FALSE
  /\ stage_cur = 0 /\ stage_max = 0
  /\ disk = input
  /\ same = {input}
  /\ trim_step = "start"

TrimInit == \E input \in TrimInputs : TrimStartState(input)

TrimNext == StartTrim \/ Pass \/ TryGap \/ Halve \/ AbortTrim \/ Unlink \/ WriteTrimmed

\* Sequential code; every run ends.
TrimSpec == TrimInit /\ [][TrimNext]_trimVars /\ WF_trimVars(TrimNext)

-----------------------------------------------------------------------------
(* Properties. *)

\* "If the deletion had no impact on the trace, make it permanent": the entry in
\* memory is at any time one that was run and had the checksum, and something is
\* left of it.  The file is missing only between the two calls, is otherwise a
\* case that had the checksum, and is the entry in memory when trimming is over:
\* an entry read again is the one calibrated and scored.
TrimmedIsKnown ==
  /\ Current \in same
  /\ trim_step # "start" => q_len >= 1
  /\ trim_step # "write" => disk \in same
  /\ trim_step = "done" => disk = Current

\* "to keep the stage short and sweet": no stage has more runs than it
\* announces, nor than TRIM_END_STEPS, though the case shrinks meanwhile.
TrimIsShort ==
  trim_step = "run" => stage_cur <= stage_max /\ stage_max <= TrimEnd

\* Trimming ends, however many blocks go or stay, and no stage of it is long.
TrimEnds == []TrimIsShort /\ (trim_step = "pass" ~> trim_step \in {"done", "aborted"})
=============================================================================
