-------------------------- MODULE Calibration_proofs ---------------------------
(* For any map, any target, any number of entries, cycles and chances: the     *)
(* maps of what is not yet seen are exact, no entry is calibrated twice, and   *)
(* just the entries and bytes that were seen to vary are marked as variable.   *)
EXTENDS Calibration, FiniteSetTheorems, TLAPS

Records == [cksum : Maps, cal_failed : Nat, has_new_cov : BOOLEAN, var_behavior : BOOLEAN,
            extras : BOOLEAN]
Locals  == [q : Entries, cur : Int, max : Int, new_bits : Int, var_detected : BOOLEAN,
            from : {"dryrun", "save", "fuzz"}]
Virgin  == [Bytes -> SUBSET Buckets]

\* The part of TypeOK that does not depend on the counters.
Types ==
  /\ queued_paths \in Entries
  /\ entry \in [Entries -> Records]
  /\ virgin_bits \in Virgin /\ virgin_crash \in Virgin
  /\ trace_bits \in Maps
  /\ cal \in Locals /\ cal.q \in Queued

\* What an entry is known by has been taken off virgin_bits.
TracesKnown == \A q \in Queued : Hits(entry[q].cksum) \subseteq known

\* An entry that completed a calibration asks for no other one.
DoneIsDone ==
  \A q \in Entries : entry[q].extras => entry[q].cal_failed = 0 /\ ~(pc = "calibrate" /\ cal.q = q)

-----------------------------------------------------------------------------
(* The maps. *)

\* Every trace of the target is one of the map.
LEMMA TracesAreMaps == Traces \subseteq Maps /\ NoTrace \in Traces
BY BoundsAssumption DEF Maps, Bytes, Buckets, NoTrace

\* has_new_bits() takes off a virgin map exactly what the trace hits.
LEMMA ClearedExact ==
  ASSUME NEW v \in Virgin, NEW t \in Maps
  PROVE  Cleared(v, t) \in Virgin /\ Missing(Cleared(v, t)) = Missing(v) \cup Hits(t)
<1>1. Cleared(v, t) \in Virgin
  BY DEF Cleared, Virgin
<1>2. ASSUME NEW b \in Bytes, NEW n \in Buckets
      PROVE  <<b, n>> \in Hits(t) <=> n = t[b]
  <2>1. n # 0  BY DEF Buckets
  <2> QED  BY <2>1 DEF Hits
<1>3. ASSUME NEW b \in Bytes, NEW n \in Buckets
      PROVE  n \notin Cleared(v, t)[b] <=> n \notin v[b] \/ n = t[b]
  BY DEF Cleared, Virgin
<1>4. Hits(t) \subseteq Bytes \X Buckets
  BY DEF Hits, Maps
<1> QED  BY <1>1, <1>2, <1>3, <1>4 DEF Missing

\* A virgin map has nothing missing, and an empty trace hits nothing.
LEMMA NothingYet ==
  /\ [b \in Bytes |-> Buckets] \in Virgin
  /\ Missing([b \in Bytes |-> Buckets]) = {}
  /\ Hits(NoTrace) = {}
BY DEF Virgin, Missing, Hits, NoTrace

LEMMA SimplifiedIsMap == ASSUME NEW t \in Maps PROVE Simplified(t) \in Maps
BY DEF Simplified, Maps, Buckets

LEMMA HasNewBitsType == ASSUME NEW v, NEW t PROVE HasNewBits(v, t) \in 0 .. 2
BY DEF HasNewBits

-----------------------------------------------------------------------------
(* What the parts of actions do to the maps of faults. *)

CrashMap == virgin_crash \in Virgin /\ CrashMapExact

LEMMA KeepAsCrashStep ==
  ASSUME CrashMap, NEW t \in Maps, KeepAsCrash(t)
  PROVE  CrashMap' /\ trace_bits' \in Maps
<1> DEFINE s == Simplified(t)
<1>1. s \in Maps  BY SimplifiedIsMap
<1>2. trace_bits' \in Maps  BY <1>1 DEF KeepAsCrash
<1>3. CASE UNCHANGED <<crashes, virgin_crash>>
  BY <1>2, <1>3 DEF CrashMap, CrashMapExact, Missing
<1>4. CASE crashes' = crashes \cup Hits(s) /\ virgin_crash' = Cleared(virgin_crash, s)
  <2>1. virgin_crash \in Virgin /\ Missing(virgin_crash) = crashes
    BY DEF CrashMap, CrashMapExact
  <2>2. Cleared(virgin_crash, s) \in Virgin
        /\ Missing(Cleared(virgin_crash, s)) = Missing(virgin_crash) \cup Hits(s)
    BY <1>1, <2>1, ClearedExact
  <2>3. Missing(virgin_crash)' = Missing(virgin_crash')  BY DEF Missing
  <2> QED  BY <1>2, <1>4, <2>1, <2>2, <2>3 DEF CrashMap, CrashMapExact
<1> QED  BY <1>3, <1>4 DEF KeepAsCrash

LEMMA CrashMapUnchanged ==
  ASSUME CrashMap, UNCHANGED <<crashes, virgin_crash>>
  PROVE  CrashMap'
BY DEF CrashMap, CrashMapExact, Missing

LEMMA ReturnedStep ==
  ASSUME CrashMap, NEW t \in Maps, Returned(t)
  PROVE  CrashMap' /\ trace_bits' \in Maps
<1>1. CASE KeepAsCrash(t)  BY <1>1, KeepAsCrashStep
<1>2. CASE trace_bits' = t /\ UNCHANGED faulting
  BY <1>2, CrashMapUnchanged DEF faulting
<1> QED  BY <1>1, <1>2 DEF Returned, Saved
-----------------------------------------------------------------------------
(* Types. *)

LEMMA TypesInit == Init => Types
<1> SUFFICES ASSUME Init PROVE Types  OBVIOUS
<1>1. Seeds \in Entries /\ 1 .. Seeds \subseteq Entries /\ 1 \in Entries
  BY BoundsAssumption DEF Entries
<1>2. NoTrace \in Maps  BY TracesAreMaps
<1>3. NewEntry(NoTrace) \in Records  BY <1>2 DEF NewEntry, Records
<1>4. cal \in Locals /\ cal.q = 1  BY <1>1 DEF Init, NoCal, Locals
<1>5. virgin_bits \in Virgin /\ virgin_crash \in Virgin  BY NothingYet DEF Init
<1>6. queued_paths \in Entries /\ cal.q \in Queued  BY <1>1, <1>4 DEF Init, Queued, Entries
<1> QED  BY <1>2, <1>3, <1>4, <1>5, <1>6 DEF Init, Types

\* The fields of an entry and of the locals that actions read.
LEMMA FieldTypes ==
  ASSUME Types, NEW q \in Queued
  PROVE  /\ q \in Entries /\ cal.q \in Entries /\ cal.q \in Queued
         /\ entry[q] \in Records /\ entry[q].cksum \in Maps
         /\ entry[q].cal_failed \in Nat /\ entry[q].extras \in BOOLEAN
         /\ entry[q].has_new_cov \in BOOLEAN
<1>1. q \in Entries
  <2>1. queued_paths \in 1 .. MaxEntries /\ q \in 1 .. queued_paths  BY DEF Types, Queued, Entries
  <2>2. MaxEntries \in Nat  BY BoundsAssumption
  <2> QED  BY <2>1, <2>2 DEF Entries
<1>2. entry[q] \in Records  BY <1>1 DEF Types
<1>3. cal.q \in Entries /\ cal.q \in Queued  BY DEF Types, Locals
<1> QED  BY <1>1, <1>2, <1>3 DEF Records

LEMMA BeginStep ==
  ASSUME Types, NEW q \in Entries, NEW e \in Records, NEW last, NEW from \in {"dryrun", "save", "fuzz"},
         Begin(q, e, last, from)
  PROVE  /\ entry' \in [Entries -> Records] /\ cal' \in Locals /\ cal'.q = q /\ pc' = "calibrate"
         /\ entry' = [entry EXCEPT ![q] = [e EXCEPT !.cal_failed = @ + 1]]
<1>1. [e EXCEPT !.cal_failed = @ + 1] \in Records  BY DEF Records
<1>2. CalCycles \in Int  BY BoundsAssumption
<1> QED  BY <1>1, <1>2 DEF Begin, Types, Locals

LEMMA LeaveStep ==
  ASSUME Types, NEW e \in Records, Leave(e)
  PROVE  /\ entry' \in [Entries -> Records]
         /\ entry' = [entry EXCEPT ![cal.q] = [e EXCEPT
               !.has_new_cov = @ \/ (cal.new_bits = 2 /\ ~e.has_new_cov),
               !.var_behavior = @ \/ (cal.var_detected /\ ~e.var_behavior)]]
         /\ queued_with_cov' = queued_with_cov + (IF cal.new_bits = 2 /\ ~e.has_new_cov THEN 1 ELSE 0)
         /\ queued_variable' = queued_variable + (IF cal.var_detected /\ ~e.var_behavior THEN 1 ELSE 0)
<1> DEFINE cov == cal.new_bits = 2 /\ ~e.has_new_cov
           var == cal.var_detected /\ ~e.var_behavior
<1>1. (e.has_new_cov \/ cov) \in BOOLEAN /\ (e.var_behavior \/ var) \in BOOLEAN
  BY DEF Records, Types, Locals
<1>2. [e EXCEPT !.has_new_cov = @ \/ cov, !.var_behavior = @ \/ var] \in Records
  BY <1>1 DEF Records
<1> QED  BY <1>2 DEF Leave, Types

LEMMA CompletedType == ASSUME NEW e \in Records PROVE Completed(e) \in Records
BY DEF Completed, Records
\* What CalRun does to the entry and to what is known, by what the run showed.
LEMMA CalRunStep ==
  ASSUME Types, CalRun
  PROVE  \E t \in Maps :
           /\ trace_bits' = t /\ known' = known \cup Hits(t)
           /\ \/ /\ virgin_bits' = Cleared(virgin_bits, t)
                 /\ entry' \in {entry, [entry EXCEPT ![cal.q].cksum = t]}
              \/ virgin_bits' = virgin_bits /\ entry' = entry /\ t = entry[cal.q].cksum
           /\ cal' \in Locals /\ cal'.q = cal.q
<1> DEFINE e == entry[cal.q]
           new(t) == e.cksum = NoTrace \/ Differs(e, t)
<1>1. e \in Records /\ e.cksum \in Maps /\ cal \in Locals /\ cal.q \in Entries
  BY FieldTypes DEF Types
<1>2. PICK t \in RunsOf(cal.q), max \in {CalCyclesLong, cal.max} :
        /\ trace_bits' = t /\ known' = known \cup Hits(t)
        /\ entry' = [entry EXCEPT ![cal.q].cksum = IF e.cksum = NoTrace THEN t ELSE @]
        /\ virgin_bits' = IF new(t) THEN Cleared(virgin_bits, t) ELSE virgin_bits
        /\ cal' = [cal EXCEPT !.cur = @ + 1, !.max = max,
               !.new_bits = IF new(t) THEN Larger(@, HasNewBits(virgin_bits, t)) ELSE @,
               !.var_detected = @ \/ Differs(e, t)]
  BY DEF CalRun
<1>3. t \in Maps
  BY <1>1, TracesAreMaps DEF RunsOf
<1>4. cal' \in Locals /\ cal'.q = cal.q
  <2>1. cal.new_bits \in Int /\ cal.cur + 1 \in Int /\ max \in Int /\ cal.var_detected \in BOOLEAN
    BY <1>1, BoundsAssumption DEF Locals
  <2>2. HasNewBits(virgin_bits, t) \in Int  BY HasNewBitsType
  <2>3. Larger(cal.new_bits, HasNewBits(virgin_bits, t)) \in Int
    BY <2>1, <2>2 DEF Larger
  <2>4. (cal.var_detected \/ Differs(e, t)) \in BOOLEAN  BY <2>1 DEF Differs
  <2> QED  BY <1>1, <1>2, <2>1, <2>3, <2>4 DEF Locals
<1>5. [entry EXCEPT ![cal.q].cksum = @] = entry
  BY <1>1 DEF Types, Records
<1>6. CASE e.cksum = NoTrace
  BY <1>2, <1>3, <1>4, <1>6
<1>7. CASE e.cksum # NoTrace
  <2>1. entry' = entry  BY <1>2, <1>5, <1>7
  <2>2. CASE Differs(e, t)  BY <1>2, <1>3, <1>4, <2>1, <2>2
  <2>3. CASE ~Differs(e, t)
    <3>1. t = e.cksum  BY <1>7, <2>3 DEF Differs
    <3> QED  BY <1>2, <1>3, <1>4, <1>7, <2>1, <2>3, <3>1
  <2> QED  BY <2>2, <2>3
<1> QED  BY <1>6, <1>7
-----------------------------------------------------------------------------
(* The five things a step can do to the queue, by action. *)

\* Nothing: no calibration begins or ends.
Idles ==
  /\ UNCHANGED <<setting, queueing, virgin_bits, var_bytes, ghosts, cal>>
  /\ pc' = pc \/ (pc # "calibrate" /\ pc' # "calibrate")

\* A calibration of an entry of the queue begins.
Begins ==
  /\ pc # "calibrate"
  /\ \E q \in Queued, last \in Maps, from \in {"dryrun", "fuzz"} :
       Begin(q, entry[q], last, from) /\ (entry[q] = NewEntry(NoTrace) \/ entry[q].cal_failed \in 1 .. CalChances - 1)
  /\ UNCHANGED <<setting, queued_paths, queued_with_cov, queued_variable, virgin_bits, var_bytes, ghosts>>

\* A calibration ends, completed or not.
Ends ==
  /\ pc = "calibrate" /\ pc' # "calibrate"
  /\ \E e \in Records :
       /\ Leave(e)
       /\ e.cksum = entry[cal.q].cksum
       /\ e.has_new_cov = entry[cal.q].has_new_cov /\ e.var_behavior = entry[cal.q].var_behavior
       /\ e.extras = entry[cal.q].extras \/ e.cal_failed = 0
       /\ e.cal_failed \in {entry[cal.q].cal_failed, 0, CalChances}
  /\ UNCHANGED <<setting, queued_paths, virgin_bits, var_bytes, ghosts, cal>>

LEMMA StepShapes ==
  ASSUME Types, [Next]_vars
  PROVE  Idles \/ Begins \/ Ends \/ CalRun \/ Find
<1> DEFINE e == entry[cal.q]
<1>1. /\ cal.q \in Entries /\ cal.q \in Queued /\ e \in Records /\ trace_bits \in Maps
  BY FieldTypes DEF Types
<1>2. ASSUME Leave(e), pc = "calibrate", pc' # "calibrate",
             UNCHANGED <<setting, queued_paths, virgin_bits, var_bytes, ghosts, cal>>
      PROVE  Ends
  BY <1>1, <1>2 DEF Ends
<1>3. CASE UNCHANGED vars
  BY <1>3 DEF Idles, vars, queueing, tracing, ghosts
<1>4. CASE DryRun
  <2>1. PICK q \in Queued : entry[q] = NewEntry(NoTrace) /\ Begin(q, entry[q], trace_bits, "dryrun")
    BY <1>4 DEF DryRun
  <2> QED  BY <1>1, <1>4, <2>1 DEF DryRun, Begins, ghosts
<1>5. CASE DryRunDone
  BY <1>5 DEF DryRunDone, Idles, queueing, tracing, ghosts
<1>6. CASE CalRun
  BY <1>6
<1>7. CASE CalDone
  <2> DEFINE done == Completed(e)
  <2>1. done \in Records  BY <1>1, CompletedType
  <2>2. done.cksum = e.cksum /\ done.has_new_cov = e.has_new_cov
        /\ done.var_behavior = e.var_behavior /\ done.cal_failed = 0
    BY <1>1 DEF Completed, Records
  <2>3. Leave(done) /\ pc = "calibrate" /\ pc' # "calibrate"
        /\ UNCHANGED <<setting, queued_paths, virgin_bits, var_bytes, ghosts, cal>>
    BY <1>7 DEF CalDone, ghosts
  <2> QED  BY <2>1, <2>2, <2>3 DEF Ends
<1>8. CASE CalFails
  BY <1>2, <1>8 DEF CalFails, AnotherVerdict, Stage, ghosts
<1>9. CASE DryRunFails
  <2> DEFINE out == [e EXCEPT !.cal_failed = CalChances]
  <2>1. out \in Records  BY <1>1, BoundsAssumption DEF Records
  <2>2. out.cksum = e.cksum /\ out.has_new_cov = e.has_new_cov
        /\ out.var_behavior = e.var_behavior /\ out.extras = e.extras /\ out.cal_failed = CalChances
    BY <1>1 DEF Records
  <2>3. pc = "calibrate" /\ pc' # "calibrate" /\ UNCHANGED <<setting, queued_paths, virgin_bits, var_bytes, ghosts, cal>>
    BY <1>9 DEF DryRunFails, AnotherVerdict, Stage, ghosts
  <2>4. Leave(out) \/ Leave(e)
    BY <1>9 DEF DryRunFails
  <2> QED  BY <1>2, <2>1, <2>2, <2>3, <2>4 DEF Ends
<1>10. CASE NotInstrumented
  BY <1>2, <1>10 DEF NotInstrumented, Stage, ghosts
<1>11. CASE StopInCal
  BY <1>2, <1>11 DEF StopInCal, Stage, ghosts
<1>12. CASE Nothing
  BY <1>12 DEF Nothing, Idles, queueing, ghosts
<1>13. CASE Find
  BY <1>13
<1>14. CASE Crash
  BY <1>14 DEF Crash, Idles, queueing, ghosts
<1>15. CASE Timeout
  BY <1>15 DEF Timeout, Idles, queueing, ghosts
<1>16. CASE Confirm
  BY <1>16 DEF Confirm, Idles, queueing, ghosts
<1>17. CASE Recalibrate
  <2>1. PICK q \in Queued :
          entry[q].cal_failed \in 1 .. CalChances - 1 /\ Begin(q, entry[q], trace_bits, "fuzz")
    BY <1>17 DEF Recalibrate
  <2> QED  BY <1>1, <1>17, <2>1 DEF Recalibrate, Begins, ghosts
<1> QED
  BY <1>3, <1>4, <1>5, <1>6, <1>7, <1>8, <1>9, <1>10, <1>11, <1>12, <1>13, <1>14, <1>15, <1>16,
     <1>17 DEF Next
\* What Find adds.
LEMMA FindStep ==
  ASSUME Types, Find
  PROVE  \E t \in Maps, e \in Records :
           /\ Begin(queued_paths + 1, e, t, "save")
           /\ e.cksum = t /\ e.cal_failed = 0 /\ ~e.extras /\ ~e.var_behavior
           /\ queued_paths' = queued_paths + 1 /\ queued_paths + 1 \in Entries
           /\ queued_with_cov' = queued_with_cov + (IF e.has_new_cov THEN 1 ELSE 0)
           /\ virgin_bits' = Cleared(virgin_bits, t) /\ known' = known \cup Hits(t)
           /\ trace_bits' = t /\ queued_variable' = queued_variable
<1>1. PICK t \in Traces, hnb \in {HasNewBits(virgin_bits, u) : u \in Traces} :
        /\ Begin(queued_paths + 1, [NewEntry(t) EXCEPT !.has_new_cov = (hnb = 2)], t, "save")
        /\ queued_paths' = queued_paths + 1
        /\ queued_with_cov' = queued_with_cov + (IF hnb = 2 THEN 1 ELSE 0)
        /\ virgin_bits' = Cleared(virgin_bits, t) /\ known' = known \cup Hits(t)
        /\ trace_bits' = t
  BY DEF Find
<1>2. t \in Maps  BY TracesAreMaps
<1> DEFINE e == [NewEntry(t) EXCEPT !.has_new_cov = (hnb = 2)]
<1>3. e \in Records /\ e.cksum = t /\ e.extras = FALSE /\ e.var_behavior = FALSE
      /\ e.has_new_cov = (hnb = 2) /\ e.cal_failed = 0
  BY <1>2 DEF NewEntry, Records
<1>4. queued_paths + 1 \in Entries
  <2>1. queued_paths \in 1 .. MaxEntries /\ queued_paths < MaxEntries /\ MaxEntries \in Nat
    BY BoundsAssumption DEF Types, Entries, Find
  <2> QED  BY <2>1 DEF Entries
<1>5. queued_variable' = queued_variable  BY DEF Find
<1> HIDE DEF e
<1> QED  BY <1>1, <1>2, <1>3, <1>4, <1>5 DEF e

LEMMA CrashStep ==
  ASSUME Types, CrashMap, [Next]_vars
  PROVE  CrashMap' /\ trace_bits' \in Maps
<1>1. trace_bits \in Maps /\ Traces \subseteq Maps  BY TracesAreMaps DEF Types
<1>2. CASE UNCHANGED <<trace_bits, faulting>>
  BY <1>1, <1>2, CrashMapUnchanged DEF faulting
<1>3. ASSUME \E t \in Maps : Returned(t)
      PROVE  CrashMap' /\ trace_bits' \in Maps
  BY <1>3, ReturnedStep
<1>4. CASE UNCHANGED vars
  BY <1>2, <1>4 DEF vars, tracing
<1>5. CASE DryRun \/ DryRunDone \/ Recalibrate
  BY <1>2, <1>5 DEF DryRun, DryRunDone, Recalibrate, tracing
<1>6. CASE CalRun
  <2>1. trace_bits' \in Maps  BY <1>6, CalRunStep
  <2>2. UNCHANGED <<crashes, virgin_crash>>  BY <1>6 DEF CalRun, faulting
  <2> QED  BY <2>1, <2>2, CrashMapUnchanged
<1>7. CASE CalDone
  BY <1>1, <1>3, <1>7 DEF CalDone
<1>8. CASE CalFails \/ DryRunFails
  BY <1>1, <1>3, <1>8 DEF CalFails, DryRunFails, AnotherVerdict
<1>9. CASE NotInstrumented
  <2>1. PICK t \in RunsOf(cal.q) : NoInstrumentation(t) /\ Returned(t)
    BY <1>9 DEF NotInstrumented
  <2>2. t = NoTrace  BY <2>1 DEF NoInstrumentation
  <2> QED  BY <1>3, <2>1, <2>2, TracesAreMaps
<1>10. CASE StopInCal
  BY <1>1, <1>3, <1>10 DEF StopInCal
<1>11. CASE Nothing
  BY <1>1, <1>11, CrashMapUnchanged DEF Nothing, faulting
<1>12. CASE Find
  <2>1. trace_bits' \in Maps  BY <1>12, FindStep
  <2>2. UNCHANGED <<crashes, virgin_crash>>  BY <1>12 DEF Find, faulting
  <2> QED  BY <2>1, <2>2, CrashMapUnchanged
<1>13. CASE Crash
  BY <1>1, <1>13, KeepAsCrashStep DEF Crash
<1>14. CASE Timeout
  <2>1. PICK t \in Traces : trace_bits' = Simplified(t)  BY <1>14 DEF Timeout
  <2>2. trace_bits' \in Maps  BY <1>1, <2>1, SimplifiedIsMap
  <2>3. UNCHANGED <<crashes, virgin_crash>>  BY <1>14 DEF Timeout, KeepAsHang
  <2> QED  BY <2>2, <2>3, CrashMapUnchanged
<1>15. CASE Confirm
  <2>1. PICK t \in Traces :
          KeepAsCrash(t) \/ (trace_bits' = t /\ UNCHANGED <<crashes, virgin_crash>>)
    BY <1>15 DEF Confirm, KeepAsHang, faulting
  <2> QED  BY <1>1, <2>1, KeepAsCrashStep, CrashMapUnchanged
<1> QED
  BY <1>4, <1>5, <1>6, <1>7, <1>8, <1>9, <1>10, <1>11, <1>12, <1>13, <1>14, <1>15 DEF Next

LEMMA TypesStep ==
  ASSUME Types, CrashMap, [Next]_vars
  PROVE  Types'
<1>1. trace_bits' \in Maps /\ virgin_crash' \in Virgin  BY CrashStep DEF CrashMap
<1>2. queued_paths \in Entries /\ cal.q \in Entries /\ cal.q \in Queued /\ Queued \subseteq Entries
      /\ entry \in [Entries -> Records] /\ cal \in Locals /\ virgin_bits \in Virgin
  <2>1. Queued \subseteq Entries  BY FieldTypes
  <2> QED  BY <2>1, FieldTypes DEF Types
<1>3. CASE Idles
  BY <1>1, <1>2, <1>3 DEF Idles, Types, queueing, Queued
<1>4. CASE Begins
  <2>1. PICK q \in Queued, last \in Maps, from \in {"dryrun", "fuzz"} : Begin(q, entry[q], last, from)
    BY <1>4 DEF Begins
  <2>2. entry[q] \in Records  BY FieldTypes
  <2>3. entry' \in [Entries -> Records] /\ cal' \in Locals /\ cal'.q = q
    BY <1>2, <2>1, <2>2, BeginStep
  <2> QED  BY <1>1, <1>2, <1>4, <2>1, <2>3 DEF Begins, Types, Queued
<1>5. CASE Ends
  <2>1. PICK e \in Records : Leave(e)  BY <1>5 DEF Ends
  <2>2. entry' \in [Entries -> Records]  BY <2>1, LeaveStep
  <2> QED  BY <1>1, <1>2, <1>5, <2>2 DEF Ends, Types, Queued
<1>6. CASE CalRun
  <2>1. PICK t \in Maps :
          /\ virgin_bits' \in {Cleared(virgin_bits, t), virgin_bits}
          /\ entry' \in {entry, [entry EXCEPT ![cal.q].cksum = t]}
          /\ cal' \in Locals /\ cal'.q = cal.q
    BY <1>6, CalRunStep
  <2>2. virgin_bits' \in Virgin  BY <1>2, <2>1, ClearedExact
  <2>3. entry' \in [Entries -> Records]  BY <1>2, <2>1 DEF Records
  <2>4. queued_paths' = queued_paths  BY <1>6 DEF CalRun
  <2> QED  BY <1>1, <1>2, <2>1, <2>2, <2>3, <2>4 DEF Types, Queued
<1>7. CASE Find
  <2>1. PICK t \in Maps, e \in Records :
          /\ Begin(queued_paths + 1, e, t, "save")
          /\ queued_paths' = queued_paths + 1 /\ queued_paths + 1 \in Entries
          /\ virgin_bits' = Cleared(virgin_bits, t)
    BY <1>7, FindStep
  <2>2. entry' \in [Entries -> Records] /\ cal' \in Locals /\ cal'.q = queued_paths + 1
    BY <2>1, BeginStep
  <2>3. virgin_bits' \in Virgin  BY <1>2, <2>1, ClearedExact
  <2>4. (cal.q \in Queued)'
    <3>1. queued_paths + 1 \in 1 .. queued_paths + 1  BY <1>2 DEF Entries
    <3> QED  BY <2>1, <2>2, <3>1 DEF Queued
  <2> QED  BY <1>1, <2>1, <2>2, <2>3, <2>4 DEF Types
<1> QED  BY <1>3, <1>4, <1>5, <1>6, <1>7, StepShapes
-----------------------------------------------------------------------------
(* No entry completes two calibrations. *)

LEMMA DoneStep ==
  ASSUME Types, DoneIsDone, [Next]_vars
  PROVE  DoneIsDone'
<1> SUFFICES ASSUME NEW q \in Entries, entry'[q].extras
             PROVE  entry'[q].cal_failed = 0 /\ ~(pc' = "calibrate" /\ cal'.q = q)
  BY DEF DoneIsDone
<1>1. cal.q \in Entries /\ entry \in [Entries -> Records]  BY DEF Types, Locals
<1>2. ASSUME NEW r \in Entries, NEW e \in Records, ~e.extras,
             entry' = [entry EXCEPT ![r] = [e EXCEPT !.cal_failed = @ + 1]], cal'.q = r
      PROVE  entry'[q].cal_failed = 0 /\ ~(pc' = "calibrate" /\ cal'.q = q)
  <2>1. q # r  BY <1>1, <1>2 DEF Records
  <2> QED  BY <1>1, <1>2, <2>1 DEF DoneIsDone
<1>3. CASE Idles
  BY <1>3 DEF Idles, queueing, DoneIsDone
<1>4. CASE Begins
  <2>1. PICK r \in Queued, last \in Maps, from \in {"dryrun", "fuzz"} :
          Begin(r, entry[r], last, from) /\ (entry[r] = NewEntry(NoTrace) \/ entry[r].cal_failed # 0)
    BY <1>4 DEF Begins
  <2>2. r \in Entries /\ entry[r] \in Records  BY FieldTypes
  <2>3. ~entry[r].extras  BY <2>1, <2>2 DEF NewEntry, DoneIsDone
  <2>4. cal'.q = r /\ entry' = [entry EXCEPT ![r] = [entry[r] EXCEPT !.cal_failed = @ + 1]]
    BY <2>1, <2>2, BeginStep
  <2> QED  BY <1>2, <2>2, <2>3, <2>4
<1>5. CASE Ends
  <2>1. PICK e \in Records :
          Leave(e) /\ (e.extras = entry[cal.q].extras \/ e.cal_failed = 0)
    BY <1>5 DEF Ends
  <2>2. ~entry[cal.q].extras  BY <1>1, <1>5 DEF Ends, DoneIsDone
  <2> DEFINE cov == e.has_new_cov \/ (cal.new_bits = 2 /\ ~e.has_new_cov)
             var == e.var_behavior \/ (cal.var_detected /\ ~e.var_behavior)
  <2>3. entry' = [entry EXCEPT ![cal.q] = [e EXCEPT !.has_new_cov = cov, !.var_behavior = var]]
    BY <2>1, LeaveStep
  <2> HIDE DEF cov, var
  <2>4. CASE q = cal.q
    <3>1. entry'[q].extras = e.extras /\ entry'[q].cal_failed = e.cal_failed
      BY <1>1, <2>3, <2>4 DEF Records
    <3> QED  BY <1>5, <2>1, <2>2, <3>1 DEF Ends
  <2>5. CASE q # cal.q
    <3>1. entry'[q] = entry[q]  BY <1>1, <2>3, <2>5
    <3> QED  BY <1>5, <3>1 DEF Ends, DoneIsDone
  <2> QED  BY <2>4, <2>5
<1>6. CASE CalRun
  <2>1. PICK t \in Maps : entry' \in {entry, [entry EXCEPT ![cal.q].cksum = t]} /\ cal'.q = cal.q
    BY <1>6, CalRunStep
  <2>2. \A r \in Entries : entry'[r].extras = entry[r].extras /\ entry'[r].cal_failed = entry[r].cal_failed
    BY <1>1, <2>1 DEF Records
  <2>3. pc' = pc  BY <1>6 DEF CalRun
  <2> QED  BY <2>1, <2>2, <2>3 DEF DoneIsDone
<1>7. CASE Find
  <2>1. PICK t \in Maps, e \in Records :
          /\ Begin(queued_paths + 1, e, t, "save") /\ ~e.extras /\ queued_paths + 1 \in Entries
    BY <1>7, FindStep
  <2>2. cal'.q = queued_paths + 1
        /\ entry' = [entry EXCEPT ![queued_paths + 1] = [e EXCEPT !.cal_failed = @ + 1]]
    BY <2>1, BeginStep
  <2> QED  BY <1>2, <2>1, <2>2
<1> QED  BY <1>3, <1>4, <1>5, <1>6, <1>7, StepShapes

-----------------------------------------------------------------------------
(* virgin_bits is exact. *)

VirginMap == VirginExact /\ TracesKnown

LEMMA VirginStep ==
  ASSUME Types, VirginMap, [Next]_vars
  PROVE  VirginMap'
<1>1. cal.q \in Entries /\ cal.q \in Queued /\ entry \in [Entries -> Records] /\ Queued \subseteq Entries
      /\ virgin_bits \in Virgin /\ Missing(virgin_bits) = known
  <2>1. Queued \subseteq Entries  BY FieldTypes
  <2> QED  BY <2>1, FieldTypes DEF Types, VirginMap, VirginExact
<1>2. Missing(virgin_bits)' = Missing(virgin_bits')  BY DEF Missing
\* The map does not change, nor does a trace.
<1>3. ASSUME UNCHANGED <<queued_paths, virgin_bits, known>>,
             \A q \in Queued : entry'[q].cksum = entry[q].cksum
      PROVE  VirginMap'
  BY <1>1, <1>2, <1>3 DEF VirginMap, VirginExact, TracesKnown, Queued
\* A trace is taken off the map and becomes what an entry is known by.
<1>4. ASSUME NEW t \in Maps, virgin_bits' = Cleared(virgin_bits, t), known' = known \cup Hits(t),
             \A q \in Queued' : (q \in Queued /\ entry'[q].cksum = entry[q].cksum) \/ entry'[q].cksum = t
      PROVE  VirginMap'
  <2>1. Missing(virgin_bits') = known'  BY <1>1, <1>4, ClearedExact
  <2>2. ASSUME NEW q \in Queued'  PROVE Hits(entry'[q].cksum) \subseteq known'
    BY <1>4, <2>2 DEF VirginMap, TracesKnown
  <2>3. TracesKnown'
    <3>1. ASSUME NEW q \in Queued'  PROVE Hits(entry[q].cksum)' \subseteq known'
      BY <2>2, <3>1 DEF Hits
    <3> QED  BY <3>1 DEF TracesKnown
  <2> QED  BY <1>2, <2>1, <2>3 DEF VirginMap, VirginExact
<1>5. CASE Idles
  BY <1>3, <1>5 DEF Idles, queueing, ghosts
<1>6. CASE Begins
  <2>1. PICK r \in Queued, last \in Maps, from \in {"dryrun", "fuzz"} : Begin(r, entry[r], last, from)
    BY <1>6 DEF Begins
  <2>2. r \in Entries /\ entry[r] \in Records  BY FieldTypes
  <2>3. entry' = [entry EXCEPT ![r] = [entry[r] EXCEPT !.cal_failed = @ + 1]]
    BY <2>1, <2>2, BeginStep
  <2>4. \A q \in Queued : entry'[q].cksum = entry[q].cksum
    BY <1>1, <2>2, <2>3 DEF Records
  <2> QED  BY <1>3, <1>6, <2>4 DEF Begins, ghosts
<1>7. CASE Ends
  <2>1. PICK e \in Records : Leave(e) /\ e.cksum = entry[cal.q].cksum
    BY <1>7 DEF Ends
  <2> DEFINE cov == e.has_new_cov \/ (cal.new_bits = 2 /\ ~e.has_new_cov)
             var == e.var_behavior \/ (cal.var_detected /\ ~e.var_behavior)
  <2>2. entry' = [entry EXCEPT ![cal.q] = [e EXCEPT !.has_new_cov = cov, !.var_behavior = var]]
    BY <2>1, LeaveStep
  <2> HIDE DEF cov, var
  <2>3. \A q \in Queued : entry'[q].cksum = entry[q].cksum
    BY <1>1, <2>1, <2>2 DEF Records
  <2> QED  BY <1>3, <1>7, <2>3 DEF Ends, ghosts
<1>8. CASE CalRun
  <2>1. PICK t \in Maps :
          /\ known' = known \cup Hits(t)
          /\ \/ /\ virgin_bits' = Cleared(virgin_bits, t)
                /\ entry' \in {entry, [entry EXCEPT ![cal.q].cksum = t]}
             \/ virgin_bits' = virgin_bits /\ entry' = entry /\ t = entry[cal.q].cksum
    BY <1>8, CalRunStep
  <2>2. queued_paths' = queued_paths /\ Queued' = Queued  BY <1>8 DEF CalRun, Queued
  <2>3. CASE virgin_bits' = virgin_bits /\ entry' = entry /\ t = entry[cal.q].cksum
    <3>1. known' = known  BY <1>1, <2>1, <2>3 DEF VirginMap, TracesKnown
    <3> QED  BY <1>3, <2>2, <2>3, <3>1
  <2>4. CASE /\ virgin_bits' = Cleared(virgin_bits, t)
             /\ entry' \in {entry, [entry EXCEPT ![cal.q].cksum = t]}
    <3>1. \A q \in Queued : entry'[q].cksum = entry[q].cksum \/ entry'[q].cksum = t
      BY <1>1, <2>4 DEF Records
    <3> QED  BY <1>4, <2>1, <2>2, <2>4, <3>1
  <2> QED  BY <2>1, <2>3, <2>4
<1>9. CASE Find
  <2>1. PICK t \in Maps, e \in Records :
          /\ Begin(queued_paths + 1, e, t, "save") /\ e.cksum = t
          /\ queued_paths' = queued_paths + 1 /\ queued_paths + 1 \in Entries
          /\ virgin_bits' = Cleared(virgin_bits, t) /\ known' = known \cup Hits(t)
    BY <1>9, FindStep
  <2>2. entry' = [entry EXCEPT ![queued_paths + 1] = [e EXCEPT !.cal_failed = @ + 1]]
    BY <2>1, BeginStep
  <2>3. ASSUME NEW q \in Queued'
        PROVE  (q \in Queued /\ entry'[q].cksum = entry[q].cksum) \/ entry'[q].cksum = t
    <3>1. q \in 1 .. queued_paths + 1 /\ queued_paths \in Nat  BY <2>1, <2>3 DEF Queued, Types, Entries
    <3>2. CASE q = queued_paths + 1
      BY <1>1, <2>1, <2>2, <3>2 DEF Records
    <3>3. CASE q # queued_paths + 1
      <4>1. q \in Queued  BY <3>1, <3>3 DEF Queued
      <4> QED  BY <1>1, <2>2, <3>3, <4>1
    <3> QED  BY <3>2, <3>3
  <2> QED  BY <1>4, <2>1, <2>3
<1> QED  BY <1>5, <1>6, <1>7, <1>8, <1>9, StepShapes
-----------------------------------------------------------------------------
(* The counters. *)

WithCov == {q \in Queued : entry[q].has_new_cov}
WithVar == {q \in Queued : entry[q].var_behavior}

\* MarksCounted with the marks named.
Counted == queued_with_cov = Cardinality(WithCov) /\ queued_variable = Cardinality(WithVar)

LEMMA CountedMarks == Counted <=> MarksCounted
BY DEF Counted, MarksCounted, WithCov, WithVar

LEMMA MarksFinite ==
  ASSUME Types
  PROVE  IsFiniteSet(WithCov) /\ IsFiniteSet(WithVar)
<1>1. IsFiniteSet(Queued)
  BY FS_Interval, BoundsAssumption DEF Queued, Types, Entries
<1>2. WithCov \subseteq Queued /\ WithVar \subseteq Queued  BY DEF WithCov, WithVar
<1> QED  BY <1>1, <1>2, FS_Subset

\* One more mark, or none.
LEMMA OneMore ==
  ASSUME NEW S, IsFiniteSet(S), NEW q, NEW b \in BOOLEAN, b => q \notin S
  PROVE  Cardinality(IF b THEN S \cup {q} ELSE S) = Cardinality(S) + (IF b THEN 1 ELSE 0)
<1>1. Cardinality(S) \in Nat  BY FS_CardinalityType
<1>2. q \notin S => Cardinality(S \cup {q}) = Cardinality(S) + 1  BY FS_AddElement
<1> QED  BY <1>1, <1>2

LEMMA CountedStep ==
  ASSUME Types, Counted, [Next]_vars
  PROVE  Counted'
<1>1. cal.q \in Entries /\ cal.q \in Queued /\ entry \in [Entries -> Records] /\ Queued \subseteq Entries
  <2>1. Queued \subseteq Entries  BY FieldTypes
  <2> QED  BY <2>1, FieldTypes DEF Types
\* No mark changes.
<1>2. ASSUME UNCHANGED <<queued_paths, queued_with_cov, queued_variable>>,
             \A q \in Queued : entry'[q].has_new_cov = entry[q].has_new_cov
                                /\ entry'[q].var_behavior = entry[q].var_behavior
      PROVE  Counted'
  <2>1. WithCov' = WithCov /\ WithVar' = WithVar
    BY <1>2 DEF WithCov, WithVar, Queued
  <2> QED  BY <1>2, <2>1 DEF Counted
\* At most one entry gets marks, and they are counted.
<1>3. ASSUME NEW q \in Entries, NEW cov \in BOOLEAN, NEW var \in BOOLEAN,
             cov => q \notin WithCov, var => q \notin WithVar,
             WithCov' = IF cov THEN WithCov \cup {q} ELSE WithCov,
             WithVar' = IF var THEN WithVar \cup {q} ELSE WithVar,
             queued_with_cov' = queued_with_cov + (IF cov THEN 1 ELSE 0),
             queued_variable' = queued_variable + (IF var THEN 1 ELSE 0)
      PROVE  Counted'
  <2>1. Cardinality(WithCov') = Cardinality(WithCov) + (IF cov THEN 1 ELSE 0)
    BY <1>3, MarksFinite, OneMore
  <2>2. Cardinality(WithVar') = Cardinality(WithVar) + (IF var THEN 1 ELSE 0)
    BY <1>3, MarksFinite, OneMore
  <2> QED  BY <1>3, <2>1, <2>2 DEF Counted
<1>4. CASE Idles
  BY <1>2, <1>4 DEF Idles, queueing
<1>5. CASE Begins
  <2>1. PICK r \in Queued, last \in Maps, from \in {"dryrun", "fuzz"} : Begin(r, entry[r], last, from)
    BY <1>5 DEF Begins
  <2>2. r \in Entries /\ entry[r] \in Records  BY FieldTypes
  <2>3. entry' = [entry EXCEPT ![r] = [entry[r] EXCEPT !.cal_failed = @ + 1]]
    BY <2>1, <2>2, BeginStep
  <2>4. \A q \in Queued : entry'[q].has_new_cov = entry[q].has_new_cov
                           /\ entry'[q].var_behavior = entry[q].var_behavior
    BY <1>1, <2>2, <2>3 DEF Records
  <2> QED  BY <1>2, <1>5, <2>4 DEF Begins
<1>6. CASE Ends
  <2>1. PICK e \in Records :
          /\ Leave(e) /\ e.has_new_cov = entry[cal.q].has_new_cov
          /\ e.var_behavior = entry[cal.q].var_behavior
    BY <1>6 DEF Ends
  <2> DEFINE cov == cal.new_bits = 2 /\ ~e.has_new_cov
             var == cal.var_detected /\ ~e.var_behavior
  <2>2. /\ entry' = [entry EXCEPT ![cal.q] = [e EXCEPT !.has_new_cov = @ \/ cov, !.var_behavior = @ \/ var]]
        /\ queued_with_cov' = queued_with_cov + (IF cov THEN 1 ELSE 0)
        /\ queued_variable' = queued_variable + (IF var THEN 1 ELSE 0)
    BY <2>1, LeaveStep
  <2>3. cov \in BOOLEAN /\ var \in BOOLEAN  BY <1>1 DEF Types, Locals, Records
  <2>4. Queued' = Queued  BY <1>6 DEF Ends, Queued
  <2>5. (cov => cal.q \notin WithCov) /\ (var => cal.q \notin WithVar)
    BY <2>1 DEF WithCov, WithVar
  <2> HIDE DEF cov, var
  <2>6. \A q \in Queued :
          /\ entry'[q].has_new_cov <=> entry[q].has_new_cov \/ (cov /\ q = cal.q)
          /\ entry'[q].var_behavior <=> entry[q].var_behavior \/ (var /\ q = cal.q)
    <3>1. ASSUME NEW q \in Queued, q # cal.q  PROVE entry'[q] = entry[q]
      BY <1>1, <2>2, <3>1
    <3>2. entry'[cal.q].has_new_cov = (e.has_new_cov \/ cov)
          /\ entry'[cal.q].var_behavior = (e.var_behavior \/ var)
      BY <1>1, <2>2 DEF Records
    <3> QED  BY <2>1, <3>1, <3>2
  <2>7. WithCov' = (IF cov THEN WithCov \cup {cal.q} ELSE WithCov)
        /\ WithVar' = (IF var THEN WithVar \cup {cal.q} ELSE WithVar)
    BY <1>1, <2>4, <2>6 DEF WithCov, WithVar
  <2> QED  BY <1>1, <1>3, <2>2, <2>3, <2>5, <2>7
<1>7. CASE CalRun
  <2>1. PICK t \in Maps : entry' \in {entry, [entry EXCEPT ![cal.q].cksum = t]}
    BY <1>7, CalRunStep
  <2>2. \A q \in Queued : entry'[q].has_new_cov = entry[q].has_new_cov
                           /\ entry'[q].var_behavior = entry[q].var_behavior
    BY <1>1, <2>1 DEF Records
  <2> QED  BY <1>2, <1>7, <2>2 DEF CalRun
<1>8. CASE Find
  <2>1. PICK t \in Maps, e \in Records :
          /\ Begin(queued_paths + 1, e, t, "save") /\ ~e.var_behavior
          /\ queued_paths' = queued_paths + 1 /\ queued_paths + 1 \in Entries
          /\ queued_with_cov' = queued_with_cov + (IF e.has_new_cov THEN 1 ELSE 0)
          /\ queued_variable' = queued_variable
    BY <1>8, FindStep
  <2> DEFINE n == queued_paths + 1
  <2>2. entry' = [entry EXCEPT ![n] = [e EXCEPT !.cal_failed = @ + 1]]
    BY <2>1, BeginStep
  <2>3. queued_paths \in Nat  BY DEF Types, Entries
  <2>4. Queued' = Queued \cup {n} /\ n \notin Queued
    BY <2>1, <2>3 DEF Queued
  <2>5. entry'[n].has_new_cov = e.has_new_cov /\ ~entry'[n].var_behavior
    BY <1>1, <2>1, <2>2 DEF Records
  <2>6. \A q \in Queued : entry'[q] = entry[q]
    BY <1>1, <2>2, <2>4
  <2>7. e.has_new_cov \in BOOLEAN /\ n \notin WithCov /\ n \in Entries
    BY <2>1, <2>4 DEF Records, WithCov
  <2> HIDE DEF n
  <2>8. WithCov' = (IF e.has_new_cov THEN WithCov \cup {n} ELSE WithCov) /\ WithVar' = WithVar
    BY <2>4, <2>5, <2>6 DEF WithCov, WithVar
  <2>9. queued_with_cov' = queued_with_cov + (IF e.has_new_cov THEN 1 ELSE 0)
        /\ queued_variable' = queued_variable
    BY <2>1
  <2>10. Cardinality(WithCov') = Cardinality(WithCov) + (IF e.has_new_cov THEN 1 ELSE 0)
    BY <2>7, <2>8, MarksFinite, OneMore
  <2> QED  BY <2>8, <2>9, <2>10 DEF Counted
<1> QED  BY <1>4, <1>5, <1>6, <1>7, <1>8, StepShapes
-----------------------------------------------------------------------------
(* What varies. *)

\* What a calibration has seen to vary is marked when it is left.
Varied ==
  /\ differed \subseteq Queued
  /\ \A q \in Queued :
       q \in differed <=> entry[q].var_behavior \/ (pc = "calibrate" /\ cal.q = q /\ cal.var_detected)

\* Nothing does in a deterministic target.
Steady == ~setting.variable => var_bytes = {} /\ differed = {}

\* What CalRun does to them, and to the locals.
LEMMA CalRunLocals ==
  ASSUME Types, CalRun
  PROVE  \E differ \in BOOLEAN :
           /\ differed' = IF differ THEN differed \cup {cal.q} ELSE differed
           /\ cal'.var_detected = (cal.var_detected \/ differ)
           /\ setting.variable \/ (~differ /\ var_bytes' = var_bytes)
           /\ cal'.cur = cal.cur + 1 /\ cal'.max \in {CalCyclesLong, cal.max}
           /\ cal'.new_bits \in {cal.new_bits} \cup 0 .. 2
<1> DEFINE e == entry[cal.q]
           varied(t) == {b \in Bytes \ var_bytes : Differs(e, t) /\ first_trace[b] # t[b]}
           max(t) == IF varied(t) # {} THEN CalCyclesLong ELSE cal.max
           bits(t) == IF e.cksum = NoTrace \/ Differs(e, t)
                        THEN Larger(cal.new_bits, HasNewBits(virgin_bits, t)) ELSE cal.new_bits
<1>1. cal \in Locals  BY DEF Types
<1>2. PICK t \in RunsOf(cal.q) :
        /\ differed' = IF Differs(e, t) THEN differed \cup {cal.q} ELSE differed
        /\ cal' = [cal EXCEPT !.cur = @ + 1, !.max = max(t), !.new_bits = bits(t),
                              !.var_detected = @ \/ Differs(e, t)]
        /\ var_bytes' = var_bytes \cup varied(t)
  BY DEF CalRun
<1>3. Differs(e, t) \in BOOLEAN  BY DEF Differs
<1>6. max(t) \in {CalCyclesLong, cal.max} /\ bits(t) \in {cal.new_bits} \cup 0 .. 2
  BY HasNewBitsType DEF Larger
<1> HIDE DEF max, bits
<1>4. /\ cal'.var_detected = (cal.var_detected \/ Differs(e, t))
      /\ cal'.cur = cal.cur + 1 /\ cal'.max = max(t) /\ cal'.new_bits = bits(t)
  BY <1>1, <1>2 DEF Locals
<1>5. setting.variable \/ ~Differs(e, t)  BY DEF RunsOf, Differs
<1> QED  BY <1>2, <1>3, <1>4, <1>5, <1>6

LEMMA VariedStep ==
  ASSUME Types, Varied, [Next]_vars
  PROVE  Varied'
<1>1. cal.q \in Entries /\ cal.q \in Queued /\ entry \in [Entries -> Records] /\ Queued \subseteq Entries
      /\ cal \in Locals
  <2>1. Queued \subseteq Entries  BY FieldTypes
  <2> QED  BY <2>1, FieldTypes DEF Types
<1>2. CASE Idles
  BY <1>2 DEF Idles, Varied, queueing, ghosts, Queued
<1>3. CASE Begins
  <2>1. PICK r \in Queued, last \in Maps, from \in {"dryrun", "fuzz"} : Begin(r, entry[r], last, from)
    BY <1>3 DEF Begins
  <2>2. r \in Entries /\ entry[r] \in Records  BY FieldTypes
  <2>3. entry' = [entry EXCEPT ![r] = [entry[r] EXCEPT !.cal_failed = @ + 1]]
    BY <2>1, <2>2, BeginStep
  <2>4. \A q \in Queued : entry'[q].var_behavior = entry[q].var_behavior
    BY <1>1, <2>2, <2>3 DEF Records
  <2>5. ~cal'.var_detected  BY <2>1 DEF Begin
  <2> QED  BY <1>3, <2>4, <2>5 DEF Begins, Varied, ghosts, Queued
<1>4. CASE Ends
  <2>1. PICK e \in Records : Leave(e) /\ e.var_behavior = entry[cal.q].var_behavior
    BY <1>4 DEF Ends
  <2> DEFINE cov == e.has_new_cov \/ (cal.new_bits = 2 /\ ~e.has_new_cov)
             var == e.var_behavior \/ (cal.var_detected /\ ~e.var_behavior)
  <2>2. entry' = [entry EXCEPT ![cal.q] = [e EXCEPT !.has_new_cov = cov, !.var_behavior = var]]
    BY <2>1, LeaveStep
  <2>3. var <=> entry[cal.q].var_behavior \/ cal.var_detected
    BY <2>1
  <2> HIDE DEF cov, var
  <2>4. \A q \in Queued : q # cal.q => entry'[q] = entry[q]
    BY <1>1, <2>2
  <2>5. entry'[cal.q].var_behavior = var
    BY <1>1, <2>2 DEF Records
  <2> QED  BY <1>4, <2>3, <2>4, <2>5 DEF Ends, Varied, ghosts, Queued
<1>5. CASE CalRun
  <2>1. PICK t \in Maps : entry' \in {entry, [entry EXCEPT ![cal.q].cksum = t]} /\ cal'.q = cal.q
    BY <1>5, CalRunStep
  <2>2. \A q \in Queued : entry'[q].var_behavior = entry[q].var_behavior
    BY <1>1, <2>1 DEF Records
  <2>3. PICK differ \in BOOLEAN :
          /\ differed' = IF differ THEN differed \cup {cal.q} ELSE differed
          /\ cal'.var_detected = (cal.var_detected \/ differ)
    BY <1>5, CalRunLocals
  <2>4. pc = "calibrate" /\ pc' = pc /\ Queued' = Queued  BY <1>5 DEF CalRun, Stage, Queued
  <2> QED  BY <1>1, <2>1, <2>2, <2>3, <2>4 DEF Varied
<1>6. CASE Find
  <2>1. PICK t \in Maps, e \in Records :
          /\ Begin(queued_paths + 1, e, t, "save") /\ ~e.var_behavior
          /\ queued_paths' = queued_paths + 1 /\ queued_paths + 1 \in Entries
    BY <1>6, FindStep
  <2> DEFINE n == queued_paths + 1
  <2>2. entry' = [entry EXCEPT ![n] = [e EXCEPT !.cal_failed = @ + 1]]
    BY <2>1, BeginStep
  <2>3. queued_paths \in Nat  BY DEF Types, Entries
  <2>4. Queued' = Queued \cup {n} /\ n \notin Queued
    BY <2>1, <2>3 DEF Queued
  <2>5. ~entry'[n].var_behavior
    BY <1>1, <2>1, <2>2 DEF Records
  <2>6. \A q \in Queued : entry'[q] = entry[q]
    BY <1>1, <2>2, <2>4
  <2>7. ~cal'.var_detected  BY <2>1 DEF Begin
  <2>8. differed' = differed /\ pc # "calibrate"  BY <1>6 DEF Find
  <2> HIDE DEF n
  <2> QED  BY <2>4, <2>5, <2>6, <2>7, <2>8 DEF Varied
<1> QED  BY <1>2, <1>3, <1>4, <1>5, <1>6, StepShapes

LEMMA SteadyStep ==
  ASSUME Types, Steady, [Next]_vars
  PROVE  Steady'
<1>1. CASE UNCHANGED <<setting, var_bytes, differed>>
  BY <1>1 DEF Steady
<1>2. CASE CalRun
  <2>1. setting' = setting  BY <1>2 DEF CalRun
  <2> QED  BY <1>2, <2>1, CalRunLocals DEF Steady
<1>3. CASE Find
  BY <1>1, <1>3 DEF Find
<1> QED  BY <1>1, <1>2, <1>3, StepShapes DEF Idles, Begins, Ends, ghosts
-----------------------------------------------------------------------------
(* The rest of TypeOK: every counter stays below its limit. *)

\* A hang is confirmed only when there is room for it.
Room == unique_crashes \in 0 .. KeepCrash /\ unique_hangs \in 0 .. KeepHang
        /\ (pc = "confirm" => unique_hangs < KeepHang)

LEMMA RoomStep ==
  ASSUME Room, [Next]_vars
  PROVE  Room'
<1>1. KeepCrash \in Nat /\ KeepHang \in Nat  BY BoundsAssumption
<1>2. ASSUME UNCHANGED <<unique_crashes, unique_hangs>>, pc' = pc \/ pc' # "confirm"
      PROVE  Room'
  BY <1>2 DEF Room
<1>3. ASSUME NEW t, KeepAsCrash(t)
      PROVE  unique_crashes' \in 0 .. KeepCrash /\ unique_hangs' = unique_hangs
  BY <1>1, <1>3 DEF KeepAsCrash, Room
<1>4. ASSUME NEW t, Returned(t), pc' # "confirm"
      PROVE  Room'
  BY <1>2, <1>3, <1>4 DEF Returned, Saved, faulting, Room
<1>5. CASE UNCHANGED vars \/ DryRun \/ DryRunDone \/ CalRun \/ Nothing \/ Find \/ Recalibrate
  BY <1>2, <1>5 DEF vars, DryRun, DryRunDone, CalRun, Nothing, Find, Recalibrate, Begin, faulting
<1>6. CASE CalDone
  BY <1>4, <1>6 DEF CalDone
<1>7. CASE CalFails \/ DryRunFails
  BY <1>4, <1>7 DEF CalFails, DryRunFails, AnotherVerdict
<1>8. CASE NotInstrumented \/ StopInCal
  BY <1>4, <1>8 DEF NotInstrumented, StopInCal
<1>9. CASE Crash
  BY <1>3, <1>9 DEF Crash, Room
<1>10. CASE Timeout
  BY <1>1, <1>10 DEF Timeout, KeepAsHang, Room
<1>11. CASE Confirm
  <2>1. PICK t \in Traces :
          \/ KeepAsHang(trace_bits) \/ KeepAsCrash(t)
          \/ UNCHANGED <<unique_crashes, unique_hangs>>
    BY <1>11 DEF Confirm, faulting
  <2>2. pc = "confirm" /\ pc' # "confirm"  BY <1>11 DEF Confirm
  <2> QED  BY <1>1, <1>3, <2>1, <2>2 DEF KeepAsHang, Room
<1> QED
  BY <1>5, <1>6, <1>7, <1>8, <1>9, <1>10, <1>11 DEF Next

\* No calibration is longer than CalCyclesLong, and cal_failed stops at CalChances.
Limits ==
  /\ cal.cur \in 0 .. CalCyclesLong /\ cal.max \in 0 .. CalCyclesLong /\ cal.new_bits \in 0 .. 2
  /\ \A q \in Entries : entry[q].cal_failed \in 0 .. CalChances

LEMMA LimitsStep ==
  ASSUME Types, Limits, [Next]_vars
  PROVE  Limits'
<1>1. cal.q \in Entries /\ entry \in [Entries -> Records] /\ cal \in Locals /\ Queued \subseteq Entries
  <2>1. Queued \subseteq Entries  BY FieldTypes
  <2> QED  BY <2>1, FieldTypes DEF Types
<1>2. /\ CalCycles \in 0 .. CalCyclesLong /\ CalCyclesLong \in Nat
      /\ CalChances \in Nat /\ 1 \in 0 .. CalChances
  BY BoundsAssumption
<1>3. ASSUME NEW q \in Entries, NEW e \in Records, NEW last, NEW from \in {"dryrun", "save", "fuzz"},
             Begin(q, e, last, from), e.cal_failed < CalChances
      PROVE  Limits'
  <2>1. entry' = [entry EXCEPT ![q] = [e EXCEPT !.cal_failed = @ + 1]]
    BY <1>3 DEF Begin
  <2>2. entry'[q].cal_failed = e.cal_failed + 1 /\ e.cal_failed \in Nat
    BY <1>1, <1>3, <2>1 DEF Records
  <2>3. \A r \in Entries : r # q => entry'[r] = entry[r]
    BY <1>1, <2>1
  <2>4. cal'.cur = 0 /\ cal'.max = CalCycles /\ cal'.new_bits = 0  BY <1>3 DEF Begin
  <2>5. e.cal_failed + 1 \in 0 .. CalChances  BY <1>2, <1>3, <2>2
  <2> QED  BY <1>2, <2>2, <2>3, <2>4, <2>5 DEF Limits
<1>4. ASSUME UNCHANGED cal, \A q \in Entries : entry'[q].cal_failed \in {entry[q].cal_failed, 0, CalChances}
      PROVE  Limits'
  BY <1>2, <1>4 DEF Limits
<1>5. CASE Idles
  BY <1>4, <1>5 DEF Idles, queueing
<1>6. CASE Begins
  <2>1. PICK r \in Queued, last \in Maps, from \in {"dryrun", "fuzz"} :
          /\ Begin(r, entry[r], last, from)
          /\ entry[r] = NewEntry(NoTrace) \/ entry[r].cal_failed \in 1 .. CalChances - 1
    BY <1>6 DEF Begins
  <2>2. r \in Entries /\ entry[r] \in Records  BY FieldTypes
  <2>3. entry[r].cal_failed < CalChances
    BY <1>2, <2>1 DEF NewEntry
  <2> QED  BY <1>3, <2>1, <2>2, <2>3
<1>7. CASE Ends
  <2>1. PICK e \in Records : Leave(e) /\ e.cal_failed \in {entry[cal.q].cal_failed, 0, CalChances}
    BY <1>7 DEF Ends
  <2> DEFINE cov == e.has_new_cov \/ (cal.new_bits = 2 /\ ~e.has_new_cov)
             var == e.var_behavior \/ (cal.var_detected /\ ~e.var_behavior)
  <2>2. entry' = [entry EXCEPT ![cal.q] = [e EXCEPT !.has_new_cov = cov, !.var_behavior = var]]
    BY <2>1, LeaveStep
  <2> HIDE DEF cov, var
  <2>3. \A q \in Entries : q # cal.q => entry'[q] = entry[q]
    BY <1>1, <2>2
  <2>4. entry'[cal.q].cal_failed = e.cal_failed
    BY <1>1, <2>2 DEF Records
  <2> QED  BY <1>4, <1>7, <2>1, <2>3, <2>4 DEF Ends
<1>8. CASE CalRun
  <2>1. PICK t \in Maps : entry' \in {entry, [entry EXCEPT ![cal.q].cksum = t]}
    BY <1>8, CalRunStep
  <2>2. \A q \in Entries : entry'[q].cal_failed = entry[q].cal_failed
    BY <1>1, <2>1 DEF Records
  <2>3. /\ cal'.cur = cal.cur + 1 /\ cal'.max \in {CalCyclesLong, cal.max}
        /\ cal'.new_bits \in {cal.new_bits} \cup 0 .. 2
    BY <1>8, CalRunLocals
  <2>4. cal.cur < cal.max  BY <1>8 DEF CalRun, Stage
  <2> QED  BY <1>2, <2>2, <2>3, <2>4 DEF Limits
<1>9. CASE Find
  <2>1. PICK t \in Maps, e \in Records :
          /\ Begin(queued_paths + 1, e, t, "save") /\ e.cal_failed = 0 /\ queued_paths + 1 \in Entries
    BY <1>9, FindStep
  <2> QED  BY <1>2, <1>3, <2>1
<1> QED  BY <1>5, <1>6, <1>7, <1>8, <1>9, StepShapes

\* The other variables that no counter bounds.
Others ==
  /\ setting \in Settings /\ virgin_tmout \in Virgin /\ first_trace \in Maps /\ var_bytes \subseteq Bytes
  /\ pc \in {"dryrun", "calibrate", "fuzz", "confirm", "over"}

LEMMA OthersStep ==
  ASSUME Types, CrashMap, Others, [Next]_vars
  PROVE  Others'
<1>1. Traces \subseteq Maps /\ trace_bits \in Maps /\ cal.q \in Entries
  BY TracesAreMaps, FieldTypes DEF Types
<1>2. setting' = setting
  BY DEF Next, vars, DryRun, DryRunDone, CalRun, CalDone, CalFails, DryRunFails, AnotherVerdict,
         NotInstrumented, StopInCal, Nothing, Find, Crash, Timeout, Confirm, Recalibrate
<1>3. pc' \in {pc, "dryrun", "calibrate", "fuzz", "confirm", "over"}
  BY DEF Next, vars, DryRun, DryRunDone, CalRun, CalDone, CalFails, DryRunFails,
         NotInstrumented, StopInCal, Nothing, Find, Crash, Timeout, Confirm, Recalibrate, Begin
<1>4. first_trace' \in Maps
  <2>1. CASE UNCHANGED first_trace
    BY <2>1 DEF Others
  <2>2. CASE DryRun \/ Recalibrate
    BY <1>1, <2>2 DEF DryRun, Recalibrate, Begin, Others
  <2>3. CASE CalRun
    BY <1>1, <2>3 DEF CalRun, RunsOf, Others, Types, Records
  <2>4. CASE Find
    BY <1>1, <2>4 DEF Find, Begin, Others
  <2> QED
    BY <2>1, <2>2, <2>3, <2>4
    DEF Next, vars, tracing, DryRunDone, CalDone, CalFails, DryRunFails, AnotherVerdict,
        NotInstrumented, StopInCal, Nothing, Crash, Timeout, Confirm
<1>5. var_bytes' \subseteq Bytes
  <2>1. CASE UNCHANGED var_bytes
    BY <2>1 DEF Others
  <2>2. CASE CalRun
    BY <2>2 DEF CalRun, Others
  <2> QED
    BY <2>1, <2>2
    DEF Next, vars, tracing, DryRun, DryRunDone, CalDone, CalFails, DryRunFails, AnotherVerdict,
        NotInstrumented, StopInCal, Nothing, Find, Crash, Timeout, Confirm, Recalibrate
<1>6. virgin_tmout' \in Virgin
  <2>1. CASE UNCHANGED virgin_tmout
    BY <2>1 DEF Others
  <2>2. ASSUME NEW t, Returned(t)  PROVE UNCHANGED virgin_tmout
    BY <2>2 DEF Returned, Saved, KeepAsCrash, faulting
  <2>3. CASE Timeout
    BY <1>1, <2>3, SimplifiedIsMap, ClearedExact DEF Timeout, Others
  <2>4. CASE CalDone \/ CalFails \/ DryRunFails \/ NotInstrumented \/ StopInCal
    BY <2>1, <2>2, <2>4 DEF CalDone, CalFails, DryRunFails, AnotherVerdict, NotInstrumented, StopInCal
  <2>5. CASE Crash \/ Confirm
    BY <2>1, <2>5 DEF Crash, Confirm, KeepAsCrash, faulting
  <2> QED
    BY <2>1, <2>3, <2>4, <2>5
    DEF Next, vars, faulting, DryRun, DryRunDone, CalRun, Nothing, Find, Recalibrate
<1> QED  BY <1>2, <1>3, <1>4, <1>5, <1>6 DEF Others
-----------------------------------------------------------------------------
(* The theorems. *)

Inv ==
  /\ Types /\ CrashMap /\ VirginMap /\ Counted /\ DoneIsDone
  /\ Varied /\ Steady /\ Room /\ Limits /\ Others

LEMMA InvInit == Init => Inv
<1> SUFFICES ASSUME Init PROVE Inv  OBVIOUS
<1>1. Types  BY TypesInit
<1>2. CrashMap
  BY NothingYet DEF Init, CrashMap, CrashMapExact
<1>3. \A q \in Queued : entry[q] = NewEntry(NoTrace)
  BY <1>1, FieldTypes DEF Init
<1>4. VirginMap
  <2>1. NewEntry(NoTrace).cksum = NoTrace  BY DEF NewEntry
  <2>2. TracesKnown
    <3>1. ASSUME NEW q \in Queued  PROVE Hits(entry[q].cksum) = {}
      BY <1>3, <2>1, NothingYet
    <3> QED  BY <3>1 DEF TracesKnown
  <2>3. VirginExact  BY NothingYet DEF Init, VirginExact
  <2> QED  BY <2>2, <2>3 DEF VirginMap
<1>5. WithCov = {} /\ WithVar = {}
  BY <1>3 DEF WithCov, WithVar, NewEntry
<1>6. Counted
  BY <1>5, FS_EmptySet DEF Init, Counted
<1>7. DoneIsDone
  <2>1. \A q \in Entries : entry[q] = NewEntry(NoTrace)  BY DEF Init
  <2> QED  BY <2>1 DEF DoneIsDone, NewEntry
<1>8. Varied /\ Steady
  <2>1. differed = {} /\ var_bytes = {} /\ pc # "calibrate"  BY DEF Init
  <2>2. \A q \in Queued : ~entry[q].var_behavior  BY <1>3 DEF NewEntry
  <2> QED  BY <2>1, <2>2 DEF Varied, Steady
<1>9. Room /\ Limits
  BY BoundsAssumption DEF Init, Room, Limits, NoCal, NewEntry
<1>10. Others
  BY NothingYet, TracesAreMaps DEF Init, Others
<1> QED  BY <1>1, <1>2, <1>4, <1>6, <1>7, <1>8, <1>9, <1>10 DEF Inv

LEMMA InvStep == Inv /\ [Next]_vars => Inv'
<1> SUFFICES ASSUME Inv, [Next]_vars PROVE Inv'  OBVIOUS
<1>1. Types'  BY TypesStep DEF Inv
<1>2. CrashMap'  BY CrashStep DEF Inv
<1>3. VirginMap'  BY VirginStep DEF Inv
<1>4. Counted'  BY CountedStep DEF Inv
<1>5. DoneIsDone'  BY DoneStep DEF Inv
<1>6. Varied' /\ Steady'  BY VariedStep, SteadyStep DEF Inv
<1>7. Room' /\ Limits' /\ Others'  BY RoomStep, LimitsStep, OthersStep DEF Inv
<1> QED  BY <1>1, <1>2, <1>3, <1>4, <1>5, <1>6, <1>7 DEF Inv

LEMMA Invariance == Spec => []Inv
BY InvInit, InvStep, PTL DEF Spec

\* Whatever calibrations and runs fail, time out or are stopped, virgin_bits has
\* lost exactly what entries of the queue were seen to hit, and virgin_crash what
\* the saved crashes hit and miss, also when they come from the second run of a
\* hang or from crash mode.
THEOREM MapsAreExact == Spec => []MapsExact
<1>1. Inv => MapsExact  BY DEF Inv, VirginMap, CrashMap, MapsExact
<1> QED  BY <1>1, Invariance, PTL

\* The two counters are the numbers of marks, and the assertion of
\* calibrate_case() about the tokens of an entry holds: none is calibrated twice.
THEOREM CalibrationsAreCounted == Spec => []CalibrationsCounted
<1>1. Inv => MarksCounted  BY CountedMarks DEF Inv
<1>2. Inv => CalibratedOnce  BY DEF Inv, DoneIsDone, CalibratedOnce, Types, Locals
<1>3. Inv => CalibrationsCounted  BY <1>1, <1>2 DEF CalibrationsCounted
<1> QED  BY <1>3, Invariance, PTL

\* No more marks than entries.
LEMMA MarksBounded ==
  ASSUME Types, Counted
  PROVE  queued_with_cov \in 0 .. MaxEntries /\ queued_variable \in 0 .. MaxEntries
<1>1. queued_paths \in 1 .. MaxEntries /\ MaxEntries \in Nat
  BY BoundsAssumption DEF Types, Entries
<1>2. IsFiniteSet(Queued) /\ Cardinality(Queued) = queued_paths
  BY <1>1, FS_Interval DEF Queued
<1>3. WithCov \subseteq Queued /\ WithVar \subseteq Queued  BY DEF WithCov, WithVar
<1>4. /\ Cardinality(WithCov) \in Nat /\ Cardinality(WithCov) <= queued_paths
      /\ Cardinality(WithVar) \in Nat /\ Cardinality(WithVar) <= queued_paths
  BY <1>2, <1>3, FS_Subset, FS_CardinalityType
<1> QED  BY <1>1, <1>4 DEF Counted

LEMMA Typed == Inv => TypeOK
<1> SUFFICES ASSUME Inv PROVE TypeOK  OBVIOUS
<1>1. entry \in [Entries -> EntryRecords]
  BY DEF Inv, Types, Limits, Records, EntryRecords
<1>2. cal \in [q : Queued, cur : 0 .. CalCyclesLong, max : 0 .. CalCyclesLong, new_bits : 0 .. 2,
                var_detected : BOOLEAN, from : {"dryrun", "save", "fuzz"}]
  BY DEF Inv, Types, Limits, Locals
<1>3. queued_with_cov \in 0 .. MaxEntries /\ queued_variable \in 0 .. MaxEntries
  BY MarksBounded DEF Inv
<1> QED  BY <1>1, <1>2, <1>3 DEF Inv, Types, Room, Others, Virgin, TypeOK

\* An entry is marked as variable exactly when a run of it differed from the
\* trace it is known by, whether the calibration that saw it was completed or
\* not, and a target that is deterministic has neither such entries nor variable
\* bytes, however often its runs time out or are stopped.
THEOREM VariableIsExact == Spec => []VariableExact
<1>1. Inv => VariableMarked
  BY DEF Inv, Varied, VariableMarked
<1>2. Inv => DeterministicIsStable
  <2> SUFFICES ASSUME Inv, ~setting.variable PROVE var_bytes = {} /\ queued_variable = 0
    BY DEF DeterministicIsStable
  <2>1. var_bytes = {} /\ differed = {}  BY DEF Inv, Steady
  <2>2. WithVar = {}  BY <2>1 DEF Inv, Varied, WithVar
  <2> QED  BY <2>1, <2>2, FS_EmptySet DEF Inv, Counted
<1>3. Inv => VariableExact  BY <1>1, <1>2, Typed DEF VariableExact
<1> QED  BY <1>3, Invariance, PTL
=============================================================================
