--------------------------------- MODULE FuzzLoop ---------------------------------
(***************************************************************************)
(* The main loop: cycle after cycle it takes the entries of the queue in   *)
(* order, leaves most out that promise little, fuzzes the others, imports  *)
(* from other instances every SYNC_INTERVAL entries, starts to splice when *)
(* a cycle finds nothing, and ends on a signal or, when asked to, after    *)
(* enough cycles without a find.  What an entry is fuzzed with is left to  *)
(* DetStages, TokenStages and Havoc, which entries are favored to Queue.   *)
(***************************************************************************)
EXTENDS Integers, FiniteSets

CONSTANTS
  MaxEntries,    \* bound on queued_paths
  CalChances,    \* CAL_CHANCES
  SkipAbove,     \* 10, the entries above which non-favored ones are left out
  SyncInterval,  \* SYNC_INTERVAL
  DoneAfter      \* 100, the cycles without finds AFL_EXIT_WHEN_DONE waits for

ASSUME LoopAssumption ==
  /\ MaxEntries \in Nat \ {0} /\ CalChances \in Nat \ {0} /\ SkipAbove \in Nat
  /\ SyncInterval \in Nat \ {0} /\ DoneAfter \in Nat

VARIABLES
  exit_when_done, just_one, import_first, sync_id,  \* options
  queued_paths,
  cal_failed,       \* for each entry
  favored,          \* entries
  was_fuzzed,       \* entries
  queue_cur,        \* 0 for none, entries count from 1
  current_entry,    \* counts from 0
  seek_to,
  queue_cycle,      \* up to 2, for "first" and "later"
  prev_queued,
  cycles_wo_finds,  \* up to DoneAfter + 1
  use_splicing,
  sync_interval_cnt,\* modulo SYNC_INTERVAL
  skipped_fuzz,
  stop_soon,        \* 0, 1 by a signal, 2 by the program
  visits,           \* for each entry, how often fuzz_one() took it since the
                    \* last find, up to DoneAfter + 1
  step

optionVars == <<exit_when_done, just_one, import_first, sync_id>>
entryVars  == <<queued_paths, cal_failed, favored, was_fuzzed>>
cycleVars  == <<queue_cur, current_entry, seek_to, queue_cycle, prev_queued, use_splicing>>
loopVars == <<optionVars, entryVars, cycleVars, cycles_wo_finds, sync_interval_cnt,
              skipped_fuzz, stop_soon, visits, step>>

Entries == 1 .. queued_paths
CalibratedEntries == {k \in Entries : cal_failed[k] = 0}
pending_not_fuzzed == queued_paths - Cardinality(was_fuzzed)
pending_favored == Cardinality(favored \ was_fuzzed)

UpTo(bound, n) == IF n <= bound THEN n ELSE bound

-----------------------------------------------------------------------------
(* Finds and imports: the entry is calibrated at once, which may fail.       *)

\* (faulty) that is left to the next cycle.
FindsLate == cycles_wo_finds

\* cycles_wo_finds after a find.
FindsCount == 0

AddEntry ==
  /\ queued_paths < MaxEntries
  /\ stop_soon # 2                 \* set by show_stats() only, after a run
  /\ queued_paths' = queued_paths + 1
  /\ \E f \in {0, 1} : cal_failed' = [cal_failed EXCEPT ![queued_paths'] = f]
  /\ cycles_wo_finds' = FindsCount
  /\ visits' = [k \in DOMAIN visits |-> 0]

-----------------------------------------------------------------------------
(* The loop. *)

\* cull_queue() may choose others whenever a slot has changed hands.
Cull ==
  /\ step = "top"
  /\ favored' \in SUBSET CalibratedEntries
  /\ step' = IF queue_cur = 0 THEN "cycle" ELSE "fuzz"
  /\ UNCHANGED <<optionVars, queued_paths, cal_failed, was_fuzzed, cycleVars,
                 cycles_wo_finds, sync_interval_cnt, skipped_fuzz, stop_soon, visits>>

\* A cycle without finds counts once splicing is on.
WithoutFinds(n) ==
  IF queued_paths = prev_queued
    THEN IF use_splicing THEN UpTo(DoneAfter + 1, n + 1) ELSE n
    ELSE 0

\* (faulty) every cycle starts there.
SeekKept == seek_to

\* seek_to counts down to 0.
SeekLeft == 0

\* A new cycle, the first from the position of the session resumed.
NewCycle ==
  /\ step = "cycle"
  /\ queue_cycle' = UpTo(2, queue_cycle + 1)
  /\ queue_cur' = 1 + seek_to /\ current_entry' = seek_to
  /\ seek_to' = SeekLeft
  /\ cycles_wo_finds' = WithoutFinds(cycles_wo_finds)
  /\ use_splicing' = (use_splicing \/ queued_paths = prev_queued)
  /\ prev_queued' = queued_paths
  /\ step' = IF sync_id /\ queue_cycle = 0 /\ import_first THEN "import" ELSE "fuzz"
  /\ UNCHANGED <<optionVars, entryVars, sync_interval_cnt, skipped_fuzz, stop_soon, visits>>

MayBeLeftOut ==
  \/ pending_favored > 0 /\ (queue_cur \in was_fuzzed \/ queue_cur \notin favored)
  \/ pending_favored = 0 /\ queue_cur \notin favored /\ queued_paths > SkipAbove

Visited == visits' = [visits EXCEPT ![queue_cur] = UpTo(DoneAfter + 1, @ + 1)]

LeaveOut ==
  /\ step = "fuzz" /\ MayBeLeftOut
  /\ skipped_fuzz' = TRUE
  /\ step' = "after"
  /\ Visited
  /\ UNCHANGED <<optionVars, entryVars, cycleVars, cycles_wo_finds, sync_interval_cnt, stop_soon>>

\* An entry that has failed is calibrated again, CalChances times in all; it is
\* fuzzed if that goes well.
FuzzOne ==
  /\ step = "fuzz"
  /\ \/ cal_failed[queue_cur] = 0 /\ step' = "stages" /\ UNCHANGED cal_failed
     \/ /\ cal_failed[queue_cur] \in 1 .. CalChances - 1
        /\ \/ cal_failed' = [cal_failed EXCEPT ![queue_cur] = 0] /\ step' = "stages"
           \/ cal_failed' = [cal_failed EXCEPT ![queue_cur] = @ + 1] /\ step' = "after"
     \/ cal_failed[queue_cur] = CalChances /\ step' = "after" /\ UNCHANGED cal_failed
  /\ skipped_fuzz' = TRUE
  /\ IF step' = "after" THEN Visited ELSE UNCHANGED visits
  /\ UNCHANGED <<optionVars, queued_paths, favored, was_fuzzed, cycleVars, cycles_wo_finds,
                 sync_interval_cnt, stop_soon>>

Find ==
  /\ step = "stages" /\ AddEntry
  /\ UNCHANGED <<optionVars, favored, was_fuzzed, cycleVars, sync_interval_cnt,
                 skipped_fuzz, stop_soon, step>>

\* (faulty) an entry that was abandoned is still to be fuzzed.
FuzzedIfFinished(skipped) == IF stop_soon = 0 /\ ~skipped THEN {queue_cur} ELSE {}

FuzzedNow(skipped) == IF stop_soon = 0 THEN {queue_cur} ELSE {}

\* The last stage ends, or the entry is abandoned: stopped, skipped by the user
\* or with too many timeouts.
EndOfEntry ==
  /\ step = "stages"
  /\ skipped_fuzz' \in IF stop_soon = 0 THEN BOOLEAN ELSE {TRUE}
  /\ was_fuzzed' = was_fuzzed \cup FuzzedNow(skipped_fuzz')
  /\ step' = "after"
  /\ Visited
  /\ UNCHANGED <<optionVars, queued_paths, cal_failed, favored, cycleVars,
                 cycles_wo_finds, sync_interval_cnt, stop_soon>>

\* sync_fuzzers() after every SyncInterval entries that were fuzzed.
After ==
  /\ step = "after"
  /\ IF stop_soon = 0 /\ sync_id /\ ~skipped_fuzz
       THEN /\ sync_interval_cnt' = (sync_interval_cnt + 1) % SyncInterval
            /\ step' = IF sync_interval_cnt = 0 THEN "sync" ELSE "next"
       ELSE step' = "next" /\ UNCHANGED sync_interval_cnt
  /\ UNCHANGED <<optionVars, entryVars, cycleVars, cycles_wo_finds, skipped_fuzz, stop_soon, visits>>

Import ==
  /\ step \in {"import", "sync"} /\ AddEntry
  /\ UNCHANGED <<optionVars, favored, was_fuzzed, cycleVars, sync_interval_cnt,
                 skipped_fuzz, stop_soon, step>>

SyncDone ==
  /\ step \in {"import", "sync"}
  /\ step' = IF step = "import" THEN "fuzz" ELSE "next"
  /\ UNCHANGED <<optionVars, entryVars, cycleVars, cycles_wo_finds, sync_interval_cnt,
                 skipped_fuzz, stop_soon, visits>>

NextEntry ==
  /\ step = "next"
  /\ IF stop_soon # 0 \/ just_one
       THEN /\ stop_soon' = (IF stop_soon = 0 THEN 2 ELSE stop_soon)
            /\ step' = "down"
            /\ UNCHANGED <<queue_cur, current_entry>>
       ELSE /\ queue_cur' = IF queue_cur = queued_paths THEN 0 ELSE queue_cur + 1
            /\ current_entry' = current_entry + 1
            /\ step' = "top"
            /\ UNCHANGED stop_soon
  /\ UNCHANGED <<optionVars, entryVars, seek_to, queue_cycle, prev_queued, use_splicing,
                 cycles_wo_finds, sync_interval_cnt, skipped_fuzz, visits>>

\* show_stats(), at the start of a cycle and between runs.
StopWhenDone ==
  /\ step \in {"fuzz", "stages", "import", "sync"} /\ stop_soon = 0
  /\ exit_when_done /\ cycles_wo_finds > DoneAfter /\ pending_not_fuzzed = 0
  /\ stop_soon' = 2
  /\ UNCHANGED <<optionVars, entryVars, cycleVars, cycles_wo_finds, sync_interval_cnt,
                 skipped_fuzz, visits, step>>

Signal ==
  /\ step # "down" /\ stop_soon' = 1
  /\ UNCHANGED <<optionVars, entryVars, cycleVars, cycles_wo_finds, sync_interval_cnt,
                 skipped_fuzz, visits, step>>

\* (faulty) the position of the old session is taken as it is.
StartAnywhere(ret) == ret

\* find_start_position(): a position the queue does not have any more is not used.
StartPosition(ret) == IF ret >= queued_paths THEN 0 ELSE ret

LoopInit ==
  /\ exit_when_done \in BOOLEAN /\ just_one \in BOOLEAN
  /\ sync_id \in BOOLEAN /\ import_first \in BOOLEAN
  /\ queued_paths \in 1 .. MaxEntries
  /\ \E bad \in SUBSET (2 .. queued_paths) :
       cal_failed = [k \in 1 .. MaxEntries |-> IF k \in bad THEN 1 ELSE 0]
  /\ favored = {} /\ was_fuzzed = {}
  /\ queue_cur = 0 /\ current_entry = 0
  /\ \E ret \in 0 .. MaxEntries : seek_to = StartPosition(ret)
  /\ queue_cycle = 0 /\ prev_queued = 0 /\ cycles_wo_finds = 0
  /\ use_splicing \in BOOLEAN
  /\ sync_interval_cnt = 0 /\ skipped_fuzz = FALSE /\ stop_soon = 0
  /\ visits = [k \in 1 .. MaxEntries |-> 0]
  /\ step = "top"

Loop ==
  \/ Cull \/ NewCycle \/ LeaveOut \/ FuzzOne \/ Find \/ EndOfEntry
  \/ After \/ Import \/ SyncDone \/ NextEntry

LoopNext == Loop \/ StopWhenDone \/ Signal

\* The loop goes on; UR() does not leave an entry out for ever, nor does a
\* visit to another instance or an entry last for ever; show_stats() gets past
\* its clock now and then.
LoopFairness ==
  /\ WF_loopVars(Loop)
  /\ \A k \in 1 .. MaxEntries : SF_loopVars(FuzzOne /\ queue_cur = k)
  /\ SF_loopVars(EndOfEntry) /\ SF_loopVars(SyncDone)
  /\ SF_loopVars(StopWhenDone)

LoopSpec == LoopInit /\ [][LoopNext]_loopVars /\ LoopFairness

-----------------------------------------------------------------------------
(* Properties. *)

\* The entry at hand is the one whose number the names of the files it leads to
\* and fuzzer_stats give, whatever is added to the queue and wherever the
\* first cycle starts.
PositionIsRight ==
  /\ step \notin {"top", "cycle", "down"} => queue_cur \in Entries
  /\ queue_cur # 0 => current_entry = queue_cur - 1

\* "terminate when all existing paths have been fuzzed and there were no new
\* finds for a while": then each entry was fuzzed, and was at hand DoneAfter
\* times since anything was added to the queue, by a find or an import.
DoneMeansDone ==
  stop_soon = 2 /\ ~just_one =>
    \A k \in Entries : k \in was_fuzzed /\ visits[k] >= DoneAfter

\* No entry is starved: what calibrates is fuzzed, unless the session stops,
\* although most of the time it may be left out in favor of others.
EveryEntryFuzzed ==
  \A k \in 1 .. MaxEntries :
    k \in CalibratedEntries ~> k \in was_fuzzed \/ step = "down"

\* A session that is to stop when it is done does, if each entry calibrates.
DoneInTheEnd ==
  []<>(exit_when_done => step = "down" \/ CalibratedEntries # Entries)
=============================================================================
