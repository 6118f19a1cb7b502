------------------------------ MODULE Calibration ------------------------------
(***************************************************************************)
(* What becomes of one run of the target: calibrate_case run by run,       *)
(* save_if_interesting with the second run of a suspected hang, and the    *)
(* verdicts of perform_dry_run.  Any run may time out or be stopped, the   *)
(* trace of a variable target differs from run to run.  A trace gives each *)
(* map byte 0 or the bucket of its hit count; a virgin map the buckets not *)
(* seen yet.  What Queue takes as one step is many here.                   *)
(***************************************************************************)
EXTENDS Integers, FiniteSets

CONSTANTS
  MapSize,          \* map_size
  Traces,           \* what runs of the target can leave in the map
  MaxEntries,       \* bound on queued_paths
  Seeds,            \* bound on the entries of the input directory
  CalCycles, CalCyclesLong, CalChances,
  KeepCrash, KeepHang  \* KEEP_UNIQUE_CRASH, KEEP_UNIQUE_HANG

ASSUME BoundsAssumption ==
  /\ MapSize \in Nat \ {0}
  /\ Traces \subseteq [0 .. MapSize - 1 -> {0, 1, 128}] /\ [b \in 0 .. MapSize - 1 |-> 0] \in Traces
  /\ MaxEntries \in Nat \ {0} /\ Seeds \in 1 .. MaxEntries
  /\ CalCycles \in Nat \ {0} /\ CalCyclesLong \in Nat \ {0} /\ CalCycles <= CalCyclesLong
  /\ CalChances \in Nat \ {0} /\ KeepCrash \in Nat /\ KeepHang \in Nat

VARIABLES
  setting,          \* what the target and the command line are like
  queued_paths, entry,
  queued_with_cov, queued_variable,
  virgin_bits, virgin_tmout, virgin_crash,
  trace_bits, first_trace, var_bytes,
  unique_crashes, unique_hangs,
  pc,
  cal,              \* the locals of calibrate_case
  known, differed,  \* ghosts: what entries were seen to hit, and those whose runs differed
  crashes, hangs    \* ghosts: what the traces of the saved ones hit and miss

queueing == <<queued_paths, entry, queued_with_cov, queued_variable>>
tracing  == <<virgin_bits, trace_bits, first_trace, var_bytes>>
faulting == <<virgin_tmout, virgin_crash, unique_crashes, unique_hangs, crashes, hangs>>
ghosts   == <<known, differed>>
vars     == <<setting, queueing, tracing, faulting, pc, cal, ghosts>>

Bytes   == 0 .. MapSize - 1
Buckets == {1, 128}
Maps    == [Bytes -> {0} \cup Buckets]
NoTrace == [b \in Bytes |-> 0]     \* no block was hit; also exec_cksum = 0
Entries == 1 .. MaxEntries
Queued  == 1 .. queued_paths

Settings == [variable  : BOOLEAN,  \* runs on one input differ
             crash_mode : {"none", "crash"},
             generous  : BOOLEAN]  \* exec_tmout >= hang_tmout

NewEntry(t) == [cksum |-> t, cal_failed |-> 0, has_new_cov |-> FALSE, var_behavior |-> FALSE,
                extras |-> FALSE]
NoCal == [q |-> 1, cur |-> 0, max |-> 0, new_bits |-> 0, var_detected |-> FALSE, from |-> "dryrun"]

Init ==
  /\ setting \in Settings
  /\ queued_paths \in 1 .. Seeds /\ entry = [q \in Entries |-> NewEntry(NoTrace)]
  /\ queued_with_cov = 0 /\ queued_variable = 0
  /\ virgin_bits = [b \in Bytes |-> Buckets]
  /\ virgin_tmout = virgin_bits /\ virgin_crash = virgin_bits
  /\ trace_bits = NoTrace /\ first_trace = NoTrace
  /\ var_bytes = {}
  /\ unique_crashes = 0 /\ unique_hangs = 0
  /\ pc = "dryrun" /\ cal = NoCal
  /\ known = {} /\ differed = {} /\ crashes = {} /\ hangs = {}

-----------------------------------------------------------------------------
(* Maps. *)

Hits(t) == {<<b, t[b]>> : b \in {b \in Bytes : t[b] # 0}}

\* has_new_bits(): 2 for a byte never hit, 1 for a new count; and the update.
HasNewBits(virgin, t) ==
  IF \E b \in Bytes : t[b] # 0 /\ virgin[b] = Buckets THEN 2
  ELSE IF \E b \in Bytes : t[b] \in virgin[b] THEN 1
  ELSE 0

Cleared(virgin, t) == [b \in Bytes |-> virgin[b] \ {t[b]}]

\* simplify_trace(), in place: hit or not.
Simplified(t) == [b \in Bytes |-> IF t[b] = 0 THEN 1 ELSE 128]

Larger(a, b) == IF a >= b THEN a ELSE b

-----------------------------------------------------------------------------
(* calibrate_case() of q, whose entry is e. *)

Begin(q, e, last, from) ==
  /\ entry' = [entry EXCEPT ![q] = [e EXCEPT !.cal_failed = @ + 1]]
  /\ first_trace' = IF e.cksum # NoTrace THEN last ELSE first_trace
  /\ cal' = [q |-> q, cur |-> 0, max |-> CalCycles, new_bits |-> 0, var_detected |-> FALSE,
             from |-> from]
  /\ pc' = "calibrate"

Stage == pc = "calibrate" /\ cal.cur < cal.max

\* The traces a run of the entry can have.
RunsOf(q) ==
  IF setting.variable \/ entry[q].cksum = NoTrace THEN Traces ELSE {entry[q].cksum}

NoInstrumentation(t) == cal.cur = 0 /\ t = NoTrace

Differs(e, t) == e.cksum # NoTrace /\ e.cksum # t

\* A run with the verdict that is wanted.
CalRun ==
  /\ Stage
  /\ \E t \in RunsOf(cal.q) :
       LET e      == entry[cal.q]
           first  == e.cksum = NoTrace
           differ == Differs(e, t)
           varied == {b \in Bytes \ var_bytes : differ /\ first_trace[b] # t[b]}
       IN  /\ ~NoInstrumentation(t)
           /\ trace_bits' = t
           /\ entry' = [entry EXCEPT ![cal.q].cksum = IF first THEN t ELSE @]
           /\ first_trace' = IF first THEN t ELSE first_trace
           /\ virgin_bits' = IF first \/ differ THEN Cleared(virgin_bits, t) ELSE virgin_bits
           /\ var_bytes' = var_bytes \cup varied
           /\ cal' = [cal EXCEPT !.cur = @ + 1,
                        !.max = IF varied # {} THEN CalCyclesLong ELSE @,
                        !.new_bits = IF first \/ differ THEN Larger(@, HasNewBits(virgin_bits, t)) ELSE @,
                        !.var_detected = @ \/ differ]
           /\ known' = known \cup Hits(t)
           /\ differed' = IF differ THEN differed \cup {cal.q} ELSE differed
  /\ UNCHANGED <<setting, queued_paths, queued_with_cov, queued_variable,
                 faulting, pc>>

\* (faulty) the marks are set only when the calibration completes.
LeaveUnmarked(e) ==
  /\ entry' = [entry EXCEPT ![cal.q] = e]
  /\ UNCHANGED <<queued_with_cov, queued_variable>>

\* (faulty) an entry that has the mark is counted again.
LeaveTwice(e) ==
  /\ entry' = [entry EXCEPT ![cal.q] = [e EXCEPT !.has_new_cov = @ \/ cal.new_bits = 2,
                                                !.var_behavior = @ \/ cal.var_detected]]
  /\ queued_with_cov' = queued_with_cov + (IF cal.new_bits = 2 THEN 1 ELSE 0)
  /\ queued_variable' = queued_variable + (IF cal.var_detected THEN 1 ELSE 0)

\* From abort_calibration to the end; e is the entry so far.
Leave(e) ==
  LET cov == cal.new_bits = 2 /\ ~e.has_new_cov
      var == cal.var_detected /\ ~e.var_behavior
  IN  /\ entry' = [entry EXCEPT ![cal.q] =
                     [e EXCEPT !.has_new_cov = @ \/ cov, !.var_behavior = @ \/ var]]
      /\ queued_with_cov' = queued_with_cov + (IF cov THEN 1 ELSE 0)
      /\ queued_variable' = queued_variable + (IF var THEN 1 ELSE 0)

-----------------------------------------------------------------------------
(* save_if_interesting(): faults. *)

\* keep_as_crash: t is in trace_bits.
KeepAsCrash(t) ==
  LET s == Simplified(t)
  IN  /\ IF unique_crashes < KeepCrash /\ HasNewBits(virgin_crash, s) # 0
           THEN /\ unique_crashes' = unique_crashes + 1
                /\ crashes' = crashes \cup Hits(s)
                /\ virgin_crash' = Cleared(virgin_crash, s)
           ELSE UNCHANGED <<unique_crashes, crashes, virgin_crash>>
      /\ trace_bits' = IF unique_crashes < KeepCrash THEN s ELSE t
      /\ UNCHANGED <<virgin_tmout, unique_hangs, hangs>>

KeepAsHang(s) ==
  /\ unique_hangs' = unique_hangs + 1
  /\ hangs' = hangs \cup Hits(s)
  /\ UNCHANGED <<virgin_crash, unique_crashes, crashes>>

-----------------------------------------------------------------------------
(* The end of a calibration, and what its caller does then. *)

\* The caller is save_if_interesting: in crash mode the find is a crash, too.
Saved(t) ==
  IF setting.crash_mode = "crash" THEN KeepAsCrash(t) ELSE trace_bits' = t /\ UNCHANGED faulting

Returned(t) ==
  IF cal.from = "save" THEN Saved(t) ELSE trace_bits' = t /\ UNCHANGED faulting

Completed(e) == [e EXCEPT !.cal_failed = 0, !.extras = TRUE]

CalDone ==
  /\ pc = "calibrate" /\ cal.cur = cal.max
  /\ Leave(Completed(entry[cal.q]))
  /\ Returned(trace_bits)
  /\ pc' = IF cal.from = "dryrun" THEN "dryrun" ELSE "fuzz"
  /\ UNCHANGED <<setting, queued_paths, virgin_bits, first_trace, var_bytes, cal, ghosts>>

\* (faulty) the map is looked at before the verdict is.
AnotherVerdictLooks(t, fault) ==
  /\ Stage
  /\ t \in Traces /\ fault \in {"none", "crash", "tmout"} \ {setting.crash_mode}
  /\ fault # "tmout" => setting.variable \/ entry[cal.q].cksum = NoTrace
  /\ Returned(t)
  /\ virgin_bits' = Cleared(virgin_bits, t)
  /\ UNCHANGED <<setting, queued_paths, first_trace, var_bytes, cal, ghosts>>

\* A run with another verdict than the one that is wanted.
AnotherVerdict(t, fault) ==
  /\ Stage
  /\ t \in Traces /\ fault \in {"none", "crash", "tmout"} \ {setting.crash_mode}
  /\ fault # "tmout" => setting.variable \/ entry[cal.q].cksum = NoTrace
  /\ Returned(t)
  /\ UNCHANGED <<setting, queued_paths, virgin_bits, first_trace, var_bytes, cal, ghosts>>

CalFails ==
  /\ cal.from # "dryrun"
  /\ \E t \in Traces, fault \in {"none", "crash", "tmout"} : AnotherVerdict(t, fault)
  /\ Leave(entry[cal.q])
  /\ pc' = "fuzz"

\* In the dry run the entry is skipped ("-t nn+", AFL_SKIP_CRASHES), or that is all.
DryRunFails ==
  /\ cal.from = "dryrun"
  /\ \E t \in Traces, fault \in {"none", "crash", "tmout"} :
       /\ AnotherVerdict(t, fault)
       /\ \/ fault # "none" /\ pc' = "dryrun" /\ Leave([entry[cal.q] EXCEPT !.cal_failed = CalChances])
          \/ pc' = "over" /\ Leave(entry[cal.q])

NotInstrumented ==
  /\ Stage
  /\ \E t \in RunsOf(cal.q) : NoInstrumentation(t) /\ Returned(t)
  /\ Leave(entry[cal.q])
  /\ pc' = IF cal.from = "dryrun" THEN "over" ELSE "fuzz"
  /\ UNCHANGED <<setting, queued_paths, virgin_bits, first_trace, var_bytes,
                 cal, ghosts>>

\* Ctrl-C: the calibration is aborted; what comes after it in save_if_interesting
\* is still done.
StopInCal ==
  /\ Stage
  /\ \E t \in Traces : Returned(t)
  /\ Leave(entry[cal.q])
  /\ pc' = "over"
  /\ UNCHANGED <<setting, queued_paths, virgin_bits, first_trace, var_bytes,
                 cal, ghosts>>

-----------------------------------------------------------------------------
(* perform_dry_run(), common_fuzz_stuff() and the begin of fuzz_one(). *)

\* The first entry with nothing known of it.
DryRun ==
  /\ pc = "dryrun"
  /\ \E q \in Queued :
       /\ entry[q] = NewEntry(NoTrace) /\ \A r \in 1 .. q - 1 : entry[r] # NewEntry(NoTrace)
       /\ Begin(q, entry[q], trace_bits, "dryrun")
  /\ UNCHANGED <<setting, queued_paths, queued_with_cov, queued_variable, virgin_bits, trace_bits,
                 var_bytes, faulting, ghosts>>

DryRunDone ==
  /\ pc = "dryrun"
  /\ \A q \in Queued : entry[q] # NewEntry(NoTrace)
  /\ pc' = IF \A q \in Queued : entry[q].cal_failed = CalChances THEN "over" ELSE "fuzz"
  /\ UNCHANGED <<setting, queueing, tracing, faulting, cal, ghosts>>

\* A run that brings nothing new, or was not looked at (skip_requested, TMOUT_LIMIT).
Nothing ==
  /\ pc = "fuzz"
  /\ \E t \in Traces : trace_bits' = t
  /\ UNCHANGED <<setting, queueing, virgin_bits, first_trace, var_bytes,
                 faulting, pc, cal, ghosts>>

\* The run is interesting: it is queued and calibrated at once.
Find ==
  /\ pc = "fuzz" /\ queued_paths < MaxEntries
  /\ \E t \in Traces :
       LET q   == queued_paths + 1
           hnb == HasNewBits(virgin_bits, t)
       IN  /\ hnb # 0
           /\ Begin(q, [NewEntry(t) EXCEPT !.has_new_cov = (hnb = 2)], t, "save")
           /\ queued_paths' = q
           /\ queued_with_cov' = queued_with_cov + (IF hnb = 2 THEN 1 ELSE 0)
           /\ virgin_bits' = Cleared(virgin_bits, t)
           /\ trace_bits' = t
           /\ known' = known \cup Hits(t)
  /\ UNCHANGED <<setting, queued_variable, var_bytes, faulting, differed>>

Crash ==
  /\ pc = "fuzz" /\ setting.crash_mode = "none"
  /\ \E t \in Traces : KeepAsCrash(t)
  /\ UNCHANGED <<setting, queueing, virgin_bits, first_trace, var_bytes,
                 pc, cal, ghosts>>

\* A timeout with something new for virgin_tmout.
Timeout ==
  /\ pc = "fuzz" /\ unique_hangs < KeepHang
  /\ \E t \in Traces :
       LET s == Simplified(t)
       IN  /\ HasNewBits(virgin_tmout, s) # 0
           /\ virgin_tmout' = Cleared(virgin_tmout, s)
           /\ trace_bits' = s
           /\ IF setting.generous
                THEN KeepAsHang(s) /\ UNCHANGED pc
                ELSE UNCHANGED <<virgin_crash, unique_crashes, unique_hangs, crashes, hangs>>
                     /\ pc' = "confirm"
  /\ UNCHANGED <<setting, queueing, virgin_bits, first_trace, var_bytes,
                 cal, ghosts>>

\* The second run, with hang_tmout: still a hang, a crash, or nothing after all.
Confirm ==
  /\ pc = "confirm"
  /\ \E t \in Traces :
       \/ trace_bits' = t /\ KeepAsHang(trace_bits) /\ UNCHANGED virgin_tmout /\ pc' = "fuzz"
       \/ KeepAsCrash(t) /\ pc' = "fuzz"
       \/ trace_bits' = t /\ UNCHANGED faulting /\ pc' \in {"fuzz", "over"}
  /\ UNCHANGED <<setting, queueing, virgin_bits, first_trace, var_bytes,
                 cal, ghosts>>

\* fuzz_one() gives an entry that could not be calibrated another chance.
Recalibrate ==
  /\ pc = "fuzz"
  /\ \E q \in Queued :
       /\ entry[q].cal_failed \in 1 .. CalChances - 1
       /\ Begin(q, entry[q], trace_bits, "fuzz")
  /\ UNCHANGED <<setting, queued_paths, queued_with_cov, queued_variable, virgin_bits, trace_bits,
                 var_bytes, faulting, ghosts>>

Next ==
  \/ DryRun \/ DryRunDone
  \/ CalRun \/ CalDone \/ CalFails \/ DryRunFails \/ NotInstrumented \/ StopInCal
  \/ Nothing \/ Find \/ Crash \/ Timeout \/ Confirm \/ Recalibrate

Spec == Init /\ [][Next]_vars

-----------------------------------------------------------------------------
(* Properties. *)

EntryRecords == [cksum : Maps, cal_failed : 0 .. CalChances, has_new_cov : BOOLEAN,
                 var_behavior : BOOLEAN, extras : BOOLEAN]

TypeOK ==
  /\ setting \in Settings
  /\ queued_paths \in Entries /\ entry \in [Entries -> EntryRecords]
  /\ queued_with_cov \in 0 .. MaxEntries /\ queued_variable \in 0 .. MaxEntries
  /\ {virgin_bits, virgin_tmout, virgin_crash} \subseteq [Bytes -> SUBSET Buckets]
  /\ trace_bits \in Maps /\ first_trace \in Maps
  /\ var_bytes \subseteq Bytes
  /\ unique_crashes \in 0 .. KeepCrash /\ unique_hangs \in 0 .. KeepHang
  /\ pc \in {"dryrun", "calibrate", "fuzz", "confirm", "over"}
  /\ cal \in [q : Queued, cur : 0 .. CalCyclesLong, max : 0 .. CalCyclesLong, new_bits : 0 .. 2,
              var_detected : BOOLEAN, from : {"dryrun", "save", "fuzz"}]

Missing(virgin) == {p \in Bytes \X Buckets : p[2] \notin virgin[p[1]]}

\* A bucket is gone from virgin_bits exactly when an entry of the queue was seen
\* to hit it: no run that timed out, crashed, was stopped or thrown away uses up
\* what a later input could be kept for, and nothing an entry does, in whichever
\* run, is new again.
VirginExact == Missing(virgin_bits) = known

\* queued_with_cov and queued_variable count the marks, although an entry may be
\* marked when it is found, in a calibration or in an aborted one.
MarksCounted ==
  /\ queued_with_cov = Cardinality({q \in Queued : entry[q].has_new_cov})
  /\ queued_variable = Cardinality({q \in Queued : entry[q].var_behavior})

\* An entry is marked as variable exactly when one of its runs differed from the
\* trace it is known by, an aborted calibration included.
VariableMarked ==
  \A q \in Queued : (pc = "calibrate" /\ cal.q = q) \/ (entry[q].var_behavior <=> q \in differed)

\* "If a program always behaves the same for the same input data, it will earn a
\* score of 100%" (docs/status_screen.txt): timeouts and stale traces never make
\* a deterministic target look variable.
DeterministicIsStable == ~setting.variable => var_bytes = {} /\ queued_variable = 0

\* ASSERT(q->extras == 0): no entry completes two calibrations.
CalibratedOnce == pc = "calibrate" => ~entry[cal.q].extras

\* What calibrations leave in the counters and marks, completed once and aborted
\* any number of times.
CalibrationsCounted == MarksCounted /\ CalibratedOnce

\* Exactly what varies is marked, whatever run showed it.
VariableExact == TypeOK /\ VariableMarked /\ DeterministicIsStable

\* "Crashes and hangs are considered unique if the associated execution paths
\* involve any state transitions not seen in previously-recorded faults"
\* (docs/README), for crashes both ways: virgin_crash has lost exactly what the
\* saved crashes hit and miss.
CrashMapExact == Missing(virgin_crash) = crashes

\* Nothing that was thrown away is lost for good, nothing kept is kept twice.
MapsExact == VirginExact /\ CrashMapExact
=============================================================================
