----------------------------------- MODULE Tmin -----------------------------------
(***************************************************************************)
(* afl-tmin: a test case is made smaller and simpler as long as the target *)
(* behaves as it did in the dry run.  minimize() leaves out blocks and     *)
(* replaces bytes by '0', run_target() judges each attempt.  The target is *)
(* deterministic: an attempt that was rejected is rejected again.          *)
(***************************************************************************)
EXTENDS Integers, Sequences, FiniteSets

CONSTANTS
  TminInputs,     \* the test cases
  AlphaSize,      \* bytes are 0 .. AlphaSize - 1
  Zero,           \* '0'
  TminSetSteps,   \* TMIN_SET_STEPS, TMIN_SET_MIN_SIZE, TRIM_START_STEPS
  TminSetMin,
  TminDelSteps

\* Bound on what next_p2() is asked for.
LongestP2 == 2 ^ 20

ASSUME TminAssumption ==
  /\ AlphaSize \in Nat \ {0} /\ Zero \in 0 .. AlphaSize - 1
  /\ TminSetSteps \in Nat \ {0} /\ TminSetMin \in Nat \ {0} /\ TminDelSteps \in Nat \ {0}
  /\ TminInputs \subseteq (Seq(0 .. AlphaSize - 1) \ {<<>>})
  \* read_initial_file() refuses larger ones, TMIN_MAX_FILE.
  /\ \A input \in TminInputs :
       Len(input) \div TminSetSteps <= LongestP2 /\ Len(input) \div TminDelSteps <= LongestP2

VARIABLES
  in_data,
  crash_mode, exact_mode,
  at,             \* set_pos, del_pos, or i, from 0
  block,          \* set_len or del_len
  prev_del, changed_any,
  cur_pass,       \* 0, 1, or 2 for any later one
  alpha_map,      \* the bytes that occur
  outcome,        \* of the run of in_data
  rejected,       \* attempts that were
  out_file,       \* <<>> until it is written, else <<contents>>
  tmin_step

tminVars == <<in_data, crash_mode, exact_mode, at, block, prev_del, changed_any, cur_pass,
              alpha_map, outcome, rejected, out_file, tmin_step>>
cursorVars == <<at, block, prev_del, cur_pass, alpha_map>>

in_len == Len(in_data)
TminP2(n) == CHOOSE p \in {2 ^ k : k \in 0 .. 20} : p >= n /\ (p = 1 \/ p \div 2 < n)

\* How a run can end: killed after the time limit, crashed or not, with the
\* map of the dry run or another one.
Outcomes == {"hang", "crash", "exit"} \X {"same", "other"}

\* run_target(), what it returns.
Keeps(o) ==
  /\ o[1] # "hang"
  /\ (o[1] = "crash") <=> crash_mode
  /\ (exact_mode \/ ~crash_mode) => o[2] = "same"

\* The dry run decides what is looked for; one that hangs is an error, and a
\* user who stops it gets the test case back.
DryRunFails ==
  /\ tmin_step = "dry"
  /\ \/ tmin_step' = "failed" /\ UNCHANGED out_file
     \/ tmin_step' = "stopped" /\ out_file' = <<in_data>>
  /\ UNCHANGED <<in_data, crash_mode, exact_mode, cursorVars, changed_any, outcome, rejected>>

DryRun ==
  /\ tmin_step = "dry"
  /\ \E end \in {"crash", "exit"} :
       /\ outcome' = <<end, "same">>
       /\ crash_mode' = (end = "crash")
  /\ tmin_step' = "normalize"
  /\ block' = LET p == TminP2(in_len \div TminSetSteps) IN IF p < TminSetMin THEN TminSetMin ELSE p
  /\ UNCHANGED <<in_data, exact_mode, at, prev_del, changed_any, cur_pass, alpha_map, rejected, out_file>>

\* A run of `attempt', which takes the place of in_data when it is kept.
Kept(attempt) ==
  /\ attempt \notin rejected
  /\ \E o \in Outcomes : Keeps(o) /\ outcome' = o
  /\ in_data' = attempt
  /\ changed_any' = TRUE
  /\ UNCHANGED rejected

Dropped(attempt) ==
  /\ \E o \in Outcomes : ~Keeps(o)
  /\ rejected' = rejected \cup {attempt}
  /\ UNCHANGED <<in_data, outcome, changed_any>>

NoRun == UNCHANGED <<in_data, outcome, changed_any, rejected>>

InBlock(k) == at < k /\ k <= at + block
Zeroed == [k \in 1 .. in_len |-> IF InBlock(k) THEN Zero ELSE in_data[k]]

\* BLOCK NORMALIZATION
NormalizeBlock ==
  /\ tmin_step = "normalize" /\ at < in_len
  /\ IF Zeroed = in_data THEN NoRun ELSE Kept(Zeroed) \/ Dropped(Zeroed)
  /\ at' = at + block
  /\ UNCHANGED <<crash_mode, exact_mode, block, prev_del, cur_pass, alpha_map, out_file, tmin_step>>

\* next_pass
DeletionBlock == TminP2(in_len \div TminDelSteps)
NextPass ==
  /\ \/ tmin_step = "normalize" /\ at >= in_len
     \/ tmin_step = "characters" /\ at >= in_len /\ changed_any
  /\ cur_pass' = IF cur_pass = 0 THEN 1 ELSE 2
  /\ changed_any' = FALSE
  /\ tmin_step' = "delete"
  /\ block' = DeletionBlock /\ at' = 0 /\ prev_del' = TRUE
  /\ UNCHANGED <<in_data, crash_mode, exact_mode, alpha_map, outcome, rejected, out_file>>

TailLen == IF in_len > at + block THEN in_len - at - block ELSE 0
Gap == SubSeq(in_data, 1, at) \o SubSeq(in_data, in_len - TailLen + 1, in_len)

\* The block is the one before, which had to stay.  (The source compares with
\* what is behind the end, too, when the last block is cut short: there
\* tail_len is 0 and nothing is skipped.)
NoOp ==
  /\ ~prev_del /\ TailLen > 0
  /\ \A k \in 1 .. block : in_data[at - block + k] = in_data[at + k]

\* BLOCK DELETION
DeleteBlock ==
  /\ tmin_step = "delete" /\ at < in_len
  /\ IF NoOp
       THEN NoRun /\ at' = at + block /\ UNCHANGED prev_del
       ELSE \/ Kept(Gap) /\ prev_del' = TRUE /\ UNCHANGED at
            \/ Dropped(Gap) /\ prev_del' = FALSE /\ at' = at + block
  /\ UNCHANGED <<crash_mode, exact_mode, block, cur_pass, alpha_map, out_file, tmin_step>>

\* (faulty) the second pass is always the last one.
LastPassSecond == cur_pass > 1

LastPass == cur_pass > 1 /\ ~changed_any

\* (faulty) blocks of one byte are halved, too.
SmallerAlways == in_len >= 1

SmallerNext == block > 1 /\ in_len >= 1

\* Smaller blocks, the stages on characters, or the end.
DeletionDone ==
  /\ tmin_step = "delete" /\ at >= in_len
  /\ at' = 0
  /\ IF SmallerNext
       THEN /\ block' = IF block \div 2 = 0 THEN 1 ELSE block \div 2
            /\ prev_del' = TRUE
            /\ UNCHANGED <<alpha_map, tmin_step>>
       ELSE /\ tmin_step' = IF LastPass THEN "write" ELSE "alphabet"
            /\ alpha_map' = IF LastPass THEN alpha_map ELSE {in_data[k] : k \in 1 .. in_len}
            /\ UNCHANGED <<block, prev_del>>
  /\ UNCHANGED <<in_data, crash_mode, exact_mode, changed_any, cur_pass, outcome, rejected, out_file>>

Replaced == [k \in 1 .. in_len |-> IF in_data[k] = at THEN Zero ELSE in_data[k]]

\* ALPHABET MINIMIZATION: all occurrences of one byte.
ReplaceSymbol ==
  /\ tmin_step = "alphabet"
  /\ IF at < AlphaSize
       THEN /\ IF at = Zero \/ at \notin alpha_map THEN NoRun ELSE Kept(Replaced) \/ Dropped(Replaced)
            /\ at' = at + 1
            /\ UNCHANGED tmin_step
       ELSE NoRun /\ at' = 0 /\ tmin_step' = "characters"
  /\ UNCHANGED <<crash_mode, exact_mode, block, prev_del, cur_pass, alpha_map, out_file>>

\* CHARACTER MINIMIZATION: one byte.
ReplaceCharacter ==
  /\ tmin_step = "characters" /\ at < in_len
  /\ LET attempt == [in_data EXCEPT ![at + 1] = Zero] IN
       IF in_data[at + 1] = Zero THEN NoRun ELSE Kept(attempt) \/ Dropped(attempt)
  /\ at' = at + 1
  /\ UNCHANGED <<crash_mode, exact_mode, block, prev_del, cur_pass, alpha_map, out_file, tmin_step>>

Finalize ==
  /\ tmin_step = "characters" /\ at >= in_len /\ ~changed_any
  /\ tmin_step' = "write"
  /\ UNCHANGED <<in_data, crash_mode, exact_mode, cursorVars, changed_any, outcome, rejected, out_file>>

WriteOutput ==
  /\ tmin_step = "write"
  /\ out_file' = <<in_data>>
  /\ tmin_step' = "done"
  /\ UNCHANGED <<in_data, crash_mode, exact_mode, cursorVars, changed_any, outcome, rejected>>

\* stop_soon, looked at after a run: what there is is written.
StopTmin ==
  /\ tmin_step \in {"normalize", "delete", "alphabet", "characters"}
  /\ out_file' = <<in_data>>
  /\ tmin_step' = "stopped"
  /\ UNCHANGED <<in_data, crash_mode, exact_mode, cursorVars, changed_any, outcome, rejected>>

TminStart(input) ==
  /\ in_data = input
  /\ crash_mode = FALSE
  /\ at = 0 /\ block = 0 /\ prev_del = TRUE /\ changed_any = FALSE /\ cur_pass = 0
  /\ alpha_map = {} /\ outcome = <<"none", "other">> /\ rejected = {} /\ out_file = <<>>
  /\ tmin_step = "dry"

TminInit == exact_mode \in BOOLEAN /\ \E input \in TminInputs : TminStart(input)

TminNext ==
  \/ DryRun \/ DryRunFails \/ NormalizeBlock \/ NextPass \/ DeleteBlock \/ DeletionDone
  \/ ReplaceSymbol \/ ReplaceCharacter \/ Finalize \/ WriteOutput \/ StopTmin

\* Sequential code.
TminSpec == TminInit /\ [][TminNext]_tminVars /\ WF_tminVars(TminNext)

-----------------------------------------------------------------------------
(* Properties. *)

\* What afl-tmin is for, whenever it is stopped: the test case written behaves
\* as the one read did, with the exact map when AFL_TMIN_EXACT is set.
BehaviourKept ==
  out_file # <<>> =>
    /\ out_file = <<in_data>>
    /\ outcome[1] # "none" =>
         /\ outcome[1] = (IF crash_mode THEN "crash" ELSE "exit")
         /\ (exact_mode \/ ~crash_mode) => outcome[2] = "same"

Leave(s, k) == SubSeq(s, 1, k - 1) \o SubSeq(s, k + 1, Len(s))

\* A case that was minimized to the end has no byte that could be left out:
\* each of its deletions was rejected, though blocks equal to the one before
\* them are skipped as no-ops and the stages on characters change the case
\* after bytes were tried.
NoByteToSpare ==
  tmin_step = "done" => \A k \in 1 .. in_len : Leave(in_data, k) \in rejected

\* The passes come to an end, whatever the target accepts.
TminEnds == tmin_step = "normalize" ~> tmin_step \in {"done", "stopped"}

\* What is written still behaves, and nothing can be left out of it.
TminKept == BehaviourKept /\ NoByteToSpare
=============================================================================
