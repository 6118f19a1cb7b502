--------------------------------- MODULE Queue ---------------------------------
(***************************************************************************)
(* The queue of test cases and its bookkeeping: add_to_queue, the outcome  *)
(* of calibrate_case, trim_case, update_bitmap_score with its reference    *)
(* counts, cull_queue with its greedy sweep, and the flags and counters    *)
(* fuzz_one keeps.  A run of the target is its trace, a set of map bytes   *)
(* (see TargetRun); a deterministic target gives one trace per input, a    *)
(* variable one any trace each time.  exec_us * len is one number, the     *)
(* cost.  Which queue entry comes next is left open here.                  *)
(***************************************************************************)
EXTENDS Integers, FiniteSets

CONSTANTS
  MaxEntries,  \* bound on queued_paths
  MapSize,     \* map_size
  Costs,       \* values of exec_us * len
  Seeds,       \* queued_at_start
  CalChances,  \* CAL_CHANCES
  SkipMin,     \* a queue longer than this lets fuzz_one skip non-favored entries (10)
  Variable,    \* the target's trace may differ from run to run
  NoEntry      \* a null top_rated[i] or queue_cur

ASSUME BoundsAssumption ==
  /\ MaxEntries \in Nat \ {0} /\ MapSize \in Nat \ {0}
  /\ Seeds \in 1 .. MaxEntries
  /\ CalChances \in Nat \ {0} /\ SkipMin \in Nat
ASSUME CostsAssumption == Costs \subseteq Nat \ {0}
ASSUME VariableAssumption == Variable \in BOOLEAN

Entries == 1 .. MaxEntries
ASSUME NoEntryAssumption == NoEntry \notin Entries

Bytes   == 0 .. MapSize - 1
Traces  == (SUBSET Bytes) \ {{}}
NoTrace == {}     \* a null trace_mini, or exec_cksum = 0

VARIABLES
  queued_paths,
  exec_cksum,      \* the trace the entry is known by
  cost,            \* exec_us * len, 0 before calibration
  cal_failed, trim_done, was_fuzzed, favored,
  tc_ref, trace_mini,
  top_rated,
  score_changed,
  fs_redundant,    \* the files of .state/redundant_edges
  queued_favored, pending_favored, pending_not_fuzzed,
  virgin_bits,     \* map bytes never seen
  queue_cur,
  pc

entries  == <<queued_paths, exec_cksum, cal_failed, was_fuzzed>>
scoring  == <<tc_ref, trace_mini, top_rated, score_changed>>
culling  == <<favored, fs_redundant, queued_favored, pending_favored>>
vars == <<entries, cost, trim_done, scoring, culling, pending_not_fuzzed,
          virgin_bits, queue_cur, pc>>

Queued == 1 .. queued_paths

\* read_testcases() has added the seeds; perform_dry_run() is at the first.
Init ==
  /\ queued_paths = Seeds
  /\ exec_cksum = [q \in Entries |-> NoTrace]
  /\ cost = [q \in Entries |-> 0]
  /\ cal_failed = [q \in Entries |-> 0]
  /\ trim_done = [q \in Entries |-> FALSE]
  /\ was_fuzzed = [q \in Entries |-> FALSE]
  /\ favored = [q \in Entries |-> FALSE]
  /\ fs_redundant = [q \in Entries |-> FALSE]
  /\ tc_ref = [q \in Entries |-> 0]
  /\ trace_mini = [q \in Entries |-> NoTrace]
  /\ top_rated = [i \in Bytes |-> NoEntry]
  /\ score_changed = FALSE
  /\ queued_favored = 0 /\ pending_favored = 0 /\ pending_not_fuzzed = Seeds
  /\ virgin_bits = Bytes
  /\ queue_cur = 1
  /\ pc = "dryrun"

-----------------------------------------------------------------------------
(* update_bitmap_score(): q has just run with trace t at cost c. *)

\* (faulty) the comparison the wrong way round.
WinsDearest(q, t, c) ==
  {i \in t : top_rated[i] \in {NoEntry, q} \/ c >= cost[top_rated[i]]}

\* The slots q takes: free ones, its own, and those of entries not cheaper.
Wins(q, t, c) ==
  {i \in t : top_rated[i] \in {NoEntry, q} \/ c <= cost[top_rated[i]]}

\* The slots among w that r gives up.
Lost(r, w) == {i \in w : top_rated[i] = r}

\* (faulty) the trace dropped on the way is forgotten.
DropsNever(q, w) ==
  FALSE

\* While the loop goes through the slots of w in order, the reference count of
\* q itself drops to zero when its only slot is the first one won again.
DropsOwnTrace(q, w) ==
  tc_ref[q] = 1 /\ \E i \in Lost(q, w) : \A j \in w : i <= j

\* (faulty) a slot won again is counted again.
NewRefCountsTwice(q, w, r) ==
  tc_ref[r] - (IF r = q THEN 0 ELSE Cardinality(Lost(r, w))) + IF r = q THEN Cardinality(w) ELSE 0

\* The references after the loop ...
NewRef(q, w, r) ==
  tc_ref[r] - Cardinality(Lost(r, w)) + IF r = q THEN Cardinality(w) ELSE 0

\* ... and the compressed traces.
NewMini(q, t, w, r) ==
  IF r = q
    THEN IF w # {} /\ (trace_mini[q] = NoTrace \/ DropsOwnTrace(q, w)) THEN t ELSE trace_mini[q]
    ELSE IF Lost(r, w) # {} /\ NewRef(q, w, r) = 0 THEN NoTrace ELSE trace_mini[r]

\* ... which is what one call does to the tables.
UpdateScore(q, t, c) ==
  LET w == Wins(q, t, c)
  IN /\ top_rated' = [i \in Bytes |-> IF i \in w THEN q ELSE top_rated[i]]
     /\ tc_ref' = [r \in Entries |-> NewRef(q, w, r)]
     /\ trace_mini' = [r \in Entries |-> NewMini(q, t, w, r)]
     /\ score_changed' = (score_changed \/ w # {})

\* The same as the loop over the map that the code runs, byte by byte: each
\* step is one iteration on the tables the previous one left.
ScoreLoop(q, t, c) ==
  LET iteration(s, i) ==
        LET r == s.top[i]
            ref1 == IF r = NoEntry THEN s.ref ELSE [s.ref EXCEPT ![r] = @ - 1]
            mini1 == IF r # NoEntry /\ ref1[r] = 0 THEN [s.mini EXCEPT ![r] = NoTrace] ELSE s.mini
        IN IF i \notin t \/ (r # NoEntry /\ c > (IF r = q THEN c ELSE cost[r])) THEN s
           ELSE [top |-> [s.top EXCEPT ![i] = q], ref |-> [ref1 EXCEPT ![q] = @ + 1],
                 mini |-> IF mini1[q] = NoTrace THEN [mini1 EXCEPT ![q] = t] ELSE mini1]
      loop[n \in 0 .. MapSize] ==
        IF n = 0 THEN [top |-> top_rated, ref |-> tc_ref, mini |-> trace_mini]
        ELSE iteration(loop[n - 1], n - 1)
  IN loop[MapSize]

-----------------------------------------------------------------------------
(* calibrate_case() *)

\* The traces a run of q's input may leave, given the trace it is known by.
RunsOf(t) == IF Variable THEN Traces ELSE {t}

\* What the runs before the last one may have touched besides.
Others == IF Variable THEN SUBSET Bytes ELSE {{}}

\* All runs end as expected: q is known by the trace of its first run (unless
\* it already was by another), the last run's trace is scored.
Calibrates(q, first, last, c) ==
  /\ exec_cksum' = [exec_cksum EXCEPT ![q] = first]
  /\ cost' = [cost EXCEPT ![q] = c]
  /\ cal_failed' = [cal_failed EXCEPT ![q] = 0]
  /\ \E others \in Others : virgin_bits' = virgin_bits \ (first \cup last \cup others)
  /\ UpdateScore(q, last, c)

\* A run ends otherwise: the attempt is counted, the runs before it (if any)
\* leave their mark, nothing is scored.
CalibrationFails(q, chances) ==
  /\ cal_failed' = [cal_failed EXCEPT ![q] = chances]
  /\ \E first \in IF exec_cksum[q] = NoTrace THEN Traces \cup {NoTrace} ELSE {exec_cksum[q]} :
       /\ exec_cksum' = [exec_cksum EXCEPT ![q] = first]
       /\ \E others \in IF first = NoTrace THEN {{}} ELSE Others :
            virgin_bits' = virgin_bits \ (first \cup others)
  /\ UNCHANGED <<cost, scoring>>

\* perform_dry_run(), one seed: calibrated, or tolerated and never tried again
\* (-t nn+ and a timeout, AFL_SKIP_CRASHES and a crash).
DryRunCalibrates ==
  /\ pc = "dryrun" /\ queue_cur <= queued_paths
  /\ \E first \in Traces, c \in Costs : \E last \in RunsOf(first) :
       Calibrates(queue_cur, first, last, c)
  /\ queue_cur' = queue_cur + 1
  /\ UNCHANGED <<queued_paths, was_fuzzed, trim_done, culling, pending_not_fuzzed, pc>>

DryRunSkips ==
  /\ pc = "dryrun" /\ queue_cur <= queued_paths
  /\ CalibrationFails(queue_cur, CalChances)
  /\ queue_cur' = queue_cur + 1
  /\ UNCHANGED <<queued_paths, was_fuzzed, trim_done, culling, pending_not_fuzzed, pc>>

\* Any other outcome is fatal.
DryRunFatal ==
  /\ pc = "dryrun" /\ queue_cur <= queued_paths
  /\ pc' = "fatal"
  /\ UNCHANGED <<entries, cost, trim_done, scoring, culling, pending_not_fuzzed,
                 virgin_bits, queue_cur>>

\* The end of perform_dry_run(): give up when every seed was skipped.
DryRunDone ==
  /\ pc = "dryrun" /\ queue_cur > queued_paths
  /\ pc' = IF \A q \in Queued : cal_failed[q] = CalChances THEN "fatal" ELSE "cull"
  /\ queue_cur' = NoEntry
  /\ UNCHANGED <<entries, cost, trim_done, scoring, culling, pending_not_fuzzed, virgin_bits>>

-----------------------------------------------------------------------------
(* cull_queue() *)

\* (faulty) the last byte of the map is not looked at.
SweepMissesLast ==
  LET grab(s, i) ==
        LET r == top_rated[i]
        IN IF r = NoEntry \/ i \notin s.left THEN s
           ELSE [left    |-> s.left \ trace_mini[r],
                 grabbed |-> s.grabbed \cup {r},
                 count   |-> s.count + 1,
                 pending |-> s.pending + IF was_fuzzed[r] THEN 0 ELSE 1]
      sweep[n \in 0 .. MapSize] ==
        IF n = 0 THEN [left |-> Bytes, grabbed |-> {}, count |-> 0, pending |-> 0]
        ELSE grab(sweep[n - 1], n - 1)
  IN sweep[MapSize - 1]

\* The sweep over top_rated[]: left is what temp_v still holds, grabbed the
\* entries marked as favored, count and pending the two counters.
Sweep ==
  LET grab(s, i) ==
        LET r == top_rated[i]
        IN IF r = NoEntry \/ i \notin s.left THEN s
           ELSE [left    |-> s.left \ trace_mini[r],
                 grabbed |-> s.grabbed \cup {r},
                 count   |-> s.count + 1,
                 pending |-> s.pending + IF was_fuzzed[r] THEN 0 ELSE 1]
      sweep[n \in 0 .. MapSize] ==
        IF n = 0 THEN [left |-> Bytes, grabbed |-> {}, count |-> 0, pending |-> 0]
        ELSE grab(sweep[n - 1], n - 1)
  IN sweep[MapSize]

CullQueue ==
  /\ pc = "cull"
  /\ IF score_changed
       THEN /\ favored' = [q \in Entries |-> q \in Sweep.grabbed]
            /\ fs_redundant' = [q \in Entries |-> q \in Queued \ Sweep.grabbed]
            /\ queued_favored' = Sweep.count
            /\ pending_favored' = Sweep.pending
       ELSE UNCHANGED culling
  /\ score_changed' = FALSE
  /\ pc' = "pick"
  /\ UNCHANGED <<entries, cost, trim_done, tc_ref, trace_mini, top_rated,
                 pending_not_fuzzed, virgin_bits, queue_cur>>

-----------------------------------------------------------------------------
(* fuzz_one() *)

\* The entry is skipped, with a probability that depends on the flags.
Skip ==
  /\ pc = "pick"
  /\ \E q \in Queued :
       IF pending_favored > 0
         THEN was_fuzzed[q] \/ ~favored[q]
         ELSE ~favored[q] /\ queued_paths > SkipMin
  /\ pc' = "cull"
  /\ UNCHANGED <<entries, cost, trim_done, scoring, culling, pending_not_fuzzed,
                 virgin_bits, queue_cur>>

\* The entry is taken; one that was calibrated goes on to trimming.
Take ==
  /\ pc = "pick"
  /\ \E q \in Queued :
       /\ queue_cur' = q
       /\ pc' = IF cal_failed[q] > 0 THEN "calibrate" ELSE "trim"
  /\ UNCHANGED <<entries, cost, trim_done, scoring, culling, pending_not_fuzzed, virgin_bits>>

\* Another attempt to calibrate, while there are chances left.
Recalibrates ==
  /\ pc = "calibrate" /\ cal_failed[queue_cur] < CalChances
  /\ \E last \in RunsOf(exec_cksum[queue_cur]), c \in Costs :
       Calibrates(queue_cur, exec_cksum[queue_cur], last, c)
  /\ pc' = "trim"
  /\ UNCHANGED <<queued_paths, was_fuzzed, trim_done, culling, pending_not_fuzzed, queue_cur>>

RecalibrationFails ==
  /\ pc = "calibrate" /\ cal_failed[queue_cur] < CalChances
  /\ CalibrationFails(queue_cur, cal_failed[queue_cur] + 1)
  /\ pc' = "abandon"
  /\ UNCHANGED <<queued_paths, was_fuzzed, trim_done, culling, pending_not_fuzzed, queue_cur>>

OutOfChances ==
  /\ pc = "calibrate" /\ cal_failed[queue_cur] >= CalChances
  /\ pc' = "abandon"
  /\ UNCHANGED <<entries, cost, trim_done, scoring, culling, pending_not_fuzzed,
                 virgin_bits, queue_cur>>

\* trim_case(): nothing could be removed (or it was done before) ...
TrimNothing ==
  /\ pc = "trim"
  /\ trim_done' = [trim_done EXCEPT ![queue_cur] = TRUE]
  /\ pc' = "fuzz"
  /\ UNCHANGED <<entries, cost, scoring, culling, pending_not_fuzzed, virgin_bits, queue_cur>>

\* ... or blocks went away without changing the checksum, and the shorter
\* entry is scored again with the trace the removals preserved.
TrimShortens ==
  /\ pc = "trim" /\ ~trim_done[queue_cur]
  /\ \E c \in Costs :
       /\ c < cost[queue_cur]
       /\ cost' = [cost EXCEPT ![queue_cur] = c]
       /\ UpdateScore(queue_cur, exec_cksum[queue_cur], c)
  /\ trim_done' = [trim_done EXCEPT ![queue_cur] = TRUE]
  /\ pc' = "fuzz"
  /\ UNCHANGED <<entries, culling, pending_not_fuzzed, virgin_bits, queue_cur>>

\* (faulty) the new entry is not pending.
FindsDone ==
  /\ queued_paths < MaxEntries
  /\ queued_paths' = queued_paths + 1
  /\ UNCHANGED pending_not_fuzzed

\* save_if_interesting() on a mutated or imported input: add_to_queue(), then
\* the calibration of the new entry at the end of the queue.
Finds ==
  /\ queued_paths < MaxEntries
  /\ queued_paths' = queued_paths + 1
  /\ pending_not_fuzzed' = pending_not_fuzzed + 1

FindCalibrates ==
  /\ pc \in {"fuzz", "sync"}
  /\ Finds
  /\ \E t \in Traces, c \in Costs :
       \E last \in RunsOf(t) : Calibrates(queued_paths + 1, t, last, c)
  /\ UNCHANGED <<was_fuzzed, trim_done, culling, queue_cur, pc>>

FindFails ==
  /\ pc \in {"fuzz", "sync"}
  /\ Finds
  /\ \E t \in Traces :
       /\ exec_cksum' = [exec_cksum EXCEPT ![queued_paths + 1] = t]
       /\ \E others \in Others : virgin_bits' = virgin_bits \ (t \cup others)
  /\ cal_failed' = [cal_failed EXCEPT ![queued_paths + 1] = 1]
  /\ UNCHANGED <<cost, was_fuzzed, trim_done, scoring, culling, queue_cur, pc>>

FuzzDone ==
  /\ pc = "fuzz"
  /\ pc' = "abandon"
  /\ UNCHANGED <<entries, cost, trim_done, scoring, culling, pending_not_fuzzed,
                 virgin_bits, queue_cur>>

\* (faulty) whether it was fuzzed before is not asked.
AbandonAgain ==
  /\ pc = "abandon"
  /\ IF cal_failed[queue_cur] = 0
       THEN /\ was_fuzzed' = [was_fuzzed EXCEPT ![queue_cur] = TRUE]
            /\ pending_not_fuzzed' = pending_not_fuzzed - 1
            /\ pending_favored' = pending_favored - IF favored[queue_cur] THEN 1 ELSE 0
       ELSE UNCHANGED <<was_fuzzed, pending_not_fuzzed, pending_favored>>
  /\ pc' = "sync"
  /\ UNCHANGED <<queued_paths, exec_cksum, cal_failed, cost, trim_done, scoring,
                 favored, fs_redundant, queued_favored, virgin_bits, queue_cur>>

\* abandon_entry: (Ctrl-C, which leaves the counters alone, is Stop).
Abandon ==
  /\ pc = "abandon"
  /\ IF cal_failed[queue_cur] = 0 /\ ~was_fuzzed[queue_cur]
       THEN /\ was_fuzzed' = [was_fuzzed EXCEPT ![queue_cur] = TRUE]
            /\ pending_not_fuzzed' = pending_not_fuzzed - 1
            /\ pending_favored' = pending_favored - IF favored[queue_cur] THEN 1 ELSE 0
       ELSE UNCHANGED <<was_fuzzed, pending_not_fuzzed, pending_favored>>
  /\ pc' = "sync"
  /\ UNCHANGED <<queued_paths, exec_cksum, cal_failed, cost, trim_done, scoring,
                 favored, fs_redundant, queued_favored, virgin_bits, queue_cur>>

\* After sync_fuzzers(), or without it, the main loop culls again.
SyncDone ==
  /\ pc = "sync"
  /\ queue_cur' = NoEntry
  /\ pc' = "cull"
  /\ UNCHANGED <<entries, cost, trim_done, scoring, culling, pending_not_fuzzed, virgin_bits>>

\* Ctrl-C while trimming: q->len is already shorter, the score is not redone.
StopInTrim ==
  /\ pc = "trim" /\ ~trim_done[queue_cur]
  /\ \E c \in Costs : c < cost[queue_cur] /\ cost' = [cost EXCEPT ![queue_cur] = c]
  /\ pc' = "stopped"
  /\ UNCHANGED <<entries, trim_done, scoring, culling, pending_not_fuzzed, virgin_bits, queue_cur>>

\* Ctrl-C anywhere else, or a target that can no longer be run.
Stop ==
  /\ pc \notin {"fatal", "stopped"}
  /\ pc' = "stopped"
  /\ UNCHANGED <<entries, cost, trim_done, scoring, culling, pending_not_fuzzed,
                 virgin_bits, queue_cur>>

Next ==
  \/ DryRunCalibrates \/ DryRunSkips \/ DryRunFatal \/ DryRunDone
  \/ CullQueue \/ Skip \/ Take
  \/ Recalibrates \/ RecalibrationFails \/ OutOfChances
  \/ TrimNothing \/ TrimShortens
  \/ FindCalibrates \/ FindFails \/ FuzzDone \/ Abandon \/ SyncDone
  \/ StopInTrim \/ Stop

Spec == Init /\ [][Next]_vars

-----------------------------------------------------------------------------
(* Properties. *)

TypeOK ==
  /\ queued_paths \in Entries
  /\ exec_cksum \in [Entries -> SUBSET Bytes]
  /\ cost \in [Entries -> Costs \cup {0}]
  /\ cal_failed \in [Entries -> 0 .. CalChances]
  /\ trim_done \in [Entries -> BOOLEAN]
  /\ was_fuzzed \in [Entries -> BOOLEAN]
  /\ favored \in [Entries -> BOOLEAN] /\ fs_redundant \in [Entries -> BOOLEAN]
  /\ tc_ref \in [Entries -> Nat]
  /\ trace_mini \in [Entries -> SUBSET Bytes]
  /\ top_rated \in [Bytes -> Queued \cup {NoEntry}]
  /\ score_changed \in BOOLEAN
  /\ queued_favored \in Nat /\ pending_favored \in Nat /\ pending_not_fuzzed \in Nat
  /\ virgin_bits \subseteq Bytes
  /\ queue_cur \in Queued \cup {queued_paths + 1, NoEntry}
  /\ pc \in {"dryrun", "cull", "pick", "calibrate", "trim", "fuzz", "abandon", "sync",
             "fatal", "stopped"}

\* The reference count of an entry is the number of map bytes it is rated top
\* for, through every replacement, its own included.
RefCountExact ==
  \A q \in Entries : tc_ref[q] = Cardinality({i \in Bytes : top_rated[i] = q})

\* A compressed trace is kept exactly as long as the entry is rated top for
\* something: cull_queue() never follows a null trace_mini, and none leaks.
TraceKeptWhileNeeded ==
  \A q \in Entries : trace_mini[q] # NoTrace <=> tc_ref[q] > 0

\* Nothing is freed while cull_queue() may read it and nothing is kept longer.
ReferencesExact == RefCountExact /\ TraceKeptWhileNeeded

\* One pass over the loser and winner sets equals the loop over the map.
ScoreIsLoop ==
  \A q \in Queued, t \in Traces, c \in Costs :
    LET w == Wins(q, t, c)
    IN ScoreLoop(q, t, c) =
         [top  |-> [i \in Bytes |-> IF i \in w THEN q ELSE top_rated[i]],
          ref  |-> [r \in Entries |-> NewRef(q, w, r)],
          mini |-> [r \in Entries |-> NewMini(q, t, w, r)]]

\* "number of inputs that have not gone through any fuzzing yet"
\* (docs/status_screen.txt): the counter the exit condition looks at agrees with
\* the flags, whatever was added, failed, stopped or fuzzed in between.
PendingNotFuzzedExact ==
  pending_not_fuzzed = Cardinality({q \in Queued : ~was_fuzzed[q]})

\* The same for favored entries, the counter fuzz_one decides to skip by:
\* exact even when a cull counts an entry twice in queued_favored.
PendingFavoredExact ==
  pending_favored = Cardinality({q \in Queued : favored[q] /\ ~was_fuzzed[q]})

\* queued_favored is the number of entries marked as favored.
QueuedFavoredExact == queued_favored = Cardinality({q \in Queued : favored[q]})

Scored(q) == cal_failed[q] = 0 /\ cost[q] > 0

\* The favored entries "still cover every tuple": after a cull, whatever the
\* trace of a scored entry contains is in the trace of a favored one.
FavoredCover ==
  ~score_changed =>
    \A q \in Queued : Scored(q) =>
      exec_cksum[q] \subseteq UNION {exec_cksum[r] : r \in {r \in Queued : favored[r]}}

\* The favored set is a cover, and is counted as large as it is.
FavoredSetExact == FavoredCover /\ QueuedFavoredExact

\* The winner of a byte is the cheapest of all scored entries that reach it,
\* although costs change after slots were given away.
TopRatedCheapest ==
  pc # "stopped" =>
    \A q \in Queued : Scored(q) =>
      \A i \in exec_cksum[q] : top_rated[i] # NoEntry /\ cost[top_rated[i]] <= cost[q]

\* Only entries that were calibrated count as fuzzed or favored.
OnlyScoredServe == \A q \in Queued : was_fuzzed[q] \/ favored[q] => Scored(q)

\* What skipping goes by, through failed calibrations and abandoned entries.
FavoredExact == TypeOK /\ PendingFavoredExact /\ OnlyScoredServe

\* "a smaller subset of test cases that still cover every tuple seen so far"
\* (docs/technical_details.txt, section 4): after a cull, with no entry waiting
\* for another calibration, a favored entry covers every byte ever seen.
EveryTupleSeenCovered ==
  /\ pc = "pick" /\ ~score_changed
  /\ \A q \in Queued : cal_failed[q] \in {0, CalChances}
  => Bytes \ virgin_bits \subseteq UNION {exec_cksum[r] : r \in {r \in Queued : favored[r]}}
=============================================================================
