------------------------------ MODULE Queue_proofs ------------------------------
(***************************************************************************)
(* Proofs about Queue, for any queue length, map size, costs and target:   *)
(* the reference counts of update_bitmap_score are exact and a compressed  *)
(* trace is kept exactly while it is needed; its loop over the map is the  *)
(* one pass the actions use; the counts of entries not yet fuzzed, and of  *)
(* favored ones among them, are exact; and, for a deterministic target,    *)
(* the entry rated top for a map byte is the cheapest one that reaches it, *)
(* and the favored entries cover whatever the scored ones reach.           *)
(***************************************************************************)
EXTENDS Queue, Arithmetic_proofs, FiniteSetTheorems, TLAPS

-----------------------------------------------------------------------------
(* The inductive invariant. *)

ScoreTypeOK ==
  /\ tc_ref \in [Entries -> Nat]
  /\ trace_mini \in [Entries -> SUBSET Bytes]
  /\ top_rated \in [Bytes -> Entries \cup {NoEntry}]

EntryTypeOK ==
  /\ queued_paths \in Entries
  /\ exec_cksum \in [Entries -> SUBSET Bytes]
  /\ cost \in [Entries -> Nat]
  /\ cal_failed \in [Entries -> Nat]
  /\ was_fuzzed \in [Entries -> BOOLEAN]

\* Where queue_cur points to, and what fuzz_one knows of the entry.
CurOK ==
  /\ pc = "dryrun" => queue_cur \in Nat \ {0}
  /\ pc \in {"calibrate", "trim", "fuzz", "abandon", "sync"} => queue_cur \in Queued
  /\ pc = "calibrate" => cal_failed[queue_cur] > 0
  /\ pc = "trim" => cal_failed[queue_cur] = 0

\* The entries the dry run, or a find, has not reached yet.
Unreached == {q \in Entries : q > queued_paths \/ (pc = "dryrun" /\ q >= queue_cur)}

\* An unreached entry is blank; a reached one is known by a trace, unless all
\* its chances are used up or the session is over.
ReachedOK ==
  \A q \in Entries :
    IF q \in Unreached
      THEN cost[q] = 0 /\ ~was_fuzzed[q]
      ELSE cal_failed[q] < CalChances /\ pc \notin {"fatal", "stopped"}
             => exec_cksum[q] \in Traces

\* What TopRatedCheapest leaves out: a slot is held by a scored entry.
RatedScored == \A i \in Bytes : top_rated[i] # NoEntry => Scored(top_rated[i])

Inv ==
  /\ ScoreTypeOK /\ EntryTypeOK /\ CurOK /\ ReachedOK
  /\ RefCountExact /\ TraceKeptWhileNeeded
  /\ PendingNotFuzzedExact

-----------------------------------------------------------------------------
(* update_bitmap_score() *)

LEMMA FiniteBytes == \A S \in SUBSET Bytes : IsFiniteSet(S) /\ Cardinality(S) \in Nat
<1>1. IsFiniteSet(Bytes)
  BY FS_Interval, BoundsAssumption DEF Bytes
<1> QED BY <1>1, FS_Subset, FS_CardinalityType

\* One pass of update_bitmap_score leaves exact reference counts and the
\* traces they call for.
LEMMA ScoreStep ==
  ASSUME ScoreTypeOK, RefCountExact, TraceKeptWhileNeeded,
         NEW q \in Entries, NEW t \in Traces, NEW c, UpdateScore(q, t, c)
  PROVE  ScoreTypeOK' /\ RefCountExact' /\ TraceKeptWhileNeeded'
<1> DEFINE w == Wins(q, t, c)
           T(r) == {i \in Bytes : top_rated[i] = r}
<1>w. w \subseteq t /\ t \subseteq Bytes /\ t # {}
  BY DEF Wins, Traces
<1>u. /\ top_rated' = [i \in Bytes |-> IF i \in w THEN q ELSE top_rated[i]]
      /\ tc_ref' = [r \in Entries |-> NewRef(q, w, r)]
      /\ trace_mini' = [r \in Entries |-> NewMini(q, t, w, r)]
  BY DEF UpdateScore
<1>l. \A r \in Entries : Lost(r, w) = T(r) \cap w
  BY <1>w DEF Lost
<1> HIDE DEF w
<1>f. \A r \in Entries :
        /\ IsFiniteSet(T(r)) /\ Cardinality(T(r)) \in Nat
        /\ IsFiniteSet(w) /\ Cardinality(w) \in Nat
        /\ Cardinality(T(r) \cap w) \in Nat
  <2> TAKE r \in Entries
  <2>1. T(r) \subseteq Bytes /\ w \subseteq Bytes /\ T(r) \cap w \subseteq Bytes
    BY <1>w
  <2> HIDE DEF T
  <2> QED BY <2>1, FiniteBytes
<1>r. \A r \in Entries : tc_ref[r] = Cardinality(T(r)) /\ (trace_mini[r] # {} <=> T(r) # {})
  <2> TAKE r \in Entries
  <2>1. tc_ref[r] = Cardinality(T(r)) /\ (trace_mini[r] # {} <=> tc_ref[r] > 0)
    BY DEF RefCountExact, TraceKeptWhileNeeded, NoTrace
  <2>2. Cardinality(T(r)) = 0 <=> T(r) = {}
    <3> HIDE DEF T
    <3> QED BY <1>f, FS_EmptySet
  <2>3. Cardinality(T(r)) \in Nat
    BY <1>f
  <2> HIDE DEF T
  <2>4. tc_ref[r] \in Nat /\ (tc_ref[r] > 0 <=> T(r) # {})
    BY <2>1, <2>2, <2>3
  <2> QED BY <2>1, <2>4
<1>t. \A r \in Entries :
        {i \in Bytes : top_rated'[i] = r} = IF r = q THEN T(r) \cup w ELSE T(r) \ w
  BY <1>u, <1>w
<1>c. \A r \in Entries :
        Cardinality(IF r = q THEN T(r) \cup w ELSE T(r) \ w) = NewRef(q, w, r)
  <2> TAKE r \in Entries
  <2>1. NewRef(q, w, r) = tc_ref[r] - Cardinality(T(r) \cap w)
                            + IF r = q THEN Cardinality(w) ELSE 0
    BY <1>l DEF NewRef
  <2> HIDE DEF T
  <2>2. Cardinality(T(r) \cup w) = Cardinality(T(r)) + Cardinality(w) - Cardinality(T(r) \cap w)
    BY <1>f, FS_Union
  <2>3. Cardinality(T(r) \ w) = Cardinality(T(r)) - Cardinality(T(r) \cap w)
    BY <1>f, FS_Difference
  <2> QED BY <2>1, <2>2, <2>3, <1>r, <1>f
<1>n. \A r \in Entries :
        /\ NewRef(q, w, r) \in Nat
        /\ NewRef(q, w, r) = 0 <=> (IF r = q THEN T(r) \cup w ELSE T(r) \ w) = {}
  <2> TAKE r \in Entries
  <2> DEFINE S == IF r = q THEN T(r) \cup w ELSE T(r) \ w
  <2>1. S \subseteq Bytes
    BY <1>w
  <2>2. NewRef(q, w, r) = Cardinality(S)
    BY <1>c
  <2> HIDE DEF S
  <2>3. IsFiniteSet(S) /\ Cardinality(S) \in Nat
    BY <2>1, FiniteBytes
  <2>4. NewRef(q, w, r) \in Nat /\ (NewRef(q, w, r) = 0 <=> S = {})
    BY <2>2, <2>3, FS_EmptySet
  <2> QED BY <2>4 DEF S
<1>m. \A r \in Entries :
        /\ NewMini(q, t, w, r) \in SUBSET Bytes
        /\ NewMini(q, t, w, r) # {} <=> NewRef(q, w, r) > 0
  <2> TAKE r \in Entries
  <2>0. trace_mini[r] \in SUBSET Bytes /\ trace_mini[q] \in SUBSET Bytes
    BY DEF ScoreTypeOK
  <2>9. NewRef(q, w, r) > 0 <=> ~ ((IF r = q THEN T(r) \cup w ELSE T(r) \ w) = {})
    BY <1>n
  <2>1. CASE r = q
    <3>1. NewMini(q, t, w, r) = IF w # {} /\ (trace_mini[q] = {} \/ DropsOwnTrace(q, w)) THEN t
                                ELSE trace_mini[q]
      BY <2>1 DEF NewMini, NoTrace
    <3>2. trace_mini[q] # {} <=> T(q) # {}
      BY <1>r
    <3> HIDE DEF T
    <3> QED BY <2>0, <2>1, <2>9, <3>1, <3>2, <1>w
  <2>2. CASE r # q
    <3>1. NewMini(q, t, w, r) = IF T(r) \cap w # {} /\ NewRef(q, w, r) = 0 THEN {} ELSE trace_mini[r]
      BY <2>2, <1>l DEF NewMini, NoTrace
    <3>2. trace_mini[r] # {} <=> T(r) # {}
      BY <1>r
    <3>3. NewRef(q, w, r) \in Nat
      BY <1>n
    <3> HIDE DEF T
    <3> QED BY <2>0, <2>2, <2>9, <3>1, <3>2, <3>3
  <2> QED BY <2>1, <2>2
<1>1. ScoreTypeOK'
  <2>1. tc_ref' \in [Entries -> Nat]
    BY <1>u, <1>n
  <2>2. trace_mini' \in [Entries -> SUBSET Bytes]
    BY <1>u, <1>m
  <2>3. top_rated' \in [Bytes -> Entries \cup {NoEntry}]
    BY <1>u DEF ScoreTypeOK
  <2> QED BY <2>1, <2>2, <2>3 DEF ScoreTypeOK
<1>2. RefCountExact'
  <2>1. \A r \in Entries : tc_ref'[r] = Cardinality({i \in Bytes : top_rated'[i] = r})
    <3> TAKE r \in Entries
    <3>1. tc_ref'[r] = NewRef(q, w, r)
      BY <1>u
    <3> QED BY <3>1, <1>t, <1>c
  <2> QED BY <2>1 DEF RefCountExact
<1>3. TraceKeptWhileNeeded'
  <2>1. \A r \in Entries : tc_ref'[r] = NewRef(q, w, r) /\ trace_mini'[r] = NewMini(q, t, w, r)
    BY <1>u
  <2> QED BY <2>1, <1>m DEF TraceKeptWhileNeeded, NoTrace
<1> QED BY <1>1, <1>2, <1>3

-----------------------------------------------------------------------------
(* The invariant: every action keeps it. *)

LEMMA InitInv == Init => Inv
<1> SUFFICES ASSUME Init PROVE Inv
  OBVIOUS
<1>1. ScoreTypeOK /\ EntryTypeOK /\ CurOK
  BY BoundsAssumption DEF Init, ScoreTypeOK, EntryTypeOK, CurOK, NoTrace, Entries
<1>2. ReachedOK
  BY BoundsAssumption DEF Init, ReachedOK, Unreached, Entries
<1>3. \A q \in Entries : {i \in Bytes : top_rated[i] = q} = {}
  BY NoEntryAssumption DEF Init
<1>4. RefCountExact
  BY <1>3, FS_EmptySet DEF Init, RefCountExact
<1>5. TraceKeptWhileNeeded
  BY DEF Init, TraceKeptWhileNeeded, NoTrace
<1>6. PendingNotFuzzedExact
  <2>1. {q \in Queued : ~was_fuzzed[q]} = 1 .. Seeds
    BY BoundsAssumption DEF Init, Queued, Entries
  <2>2. Cardinality(1 .. Seeds) = Seeds
    BY FS_Interval, BoundsAssumption
  <2> QED BY <2>1, <2>2 DEF Init, PendingNotFuzzedExact
<1> QED BY <1>1, <1>2, <1>4, <1>5, <1>6 DEF Inv

\* An action that leaves the tables of update_bitmap_score alone.
LEMMA ScoreUnchanged ==
  ASSUME ScoreTypeOK, RefCountExact, TraceKeptWhileNeeded,
         UNCHANGED <<tc_ref, trace_mini, top_rated>>
  PROVE  ScoreTypeOK' /\ RefCountExact' /\ TraceKeptWhileNeeded'
  BY DEF ScoreTypeOK, RefCountExact, TraceKeptWhileNeeded

LEMMA FiniteQueued ==
  ASSUME EntryTypeOK
  PROVE  IsFiniteSet({q \in Queued : ~was_fuzzed[q]})
<1>1. IsFiniteSet(1 .. queued_paths)
  BY FS_Interval DEF EntryTypeOK, Entries
<1> QED BY <1>1, FS_Subset DEF Queued

LEMMA DryRunCalibratesInv == Inv /\ DryRunCalibrates => Inv'
<1> SUFFICES ASSUME Inv, DryRunCalibrates PROVE Inv'
  OBVIOUS
<1> USE DEF Inv
<1>1. ScoreTypeOK' /\ RefCountExact' /\ TraceKeptWhileNeeded'
  <2>1. PICK first \in Traces, c \in Costs : \E last \in RunsOf(first) :
               Calibrates(queue_cur, first, last, c)
    BY DEF DryRunCalibrates
  <2>2. PICK last \in RunsOf(first) : Calibrates(queue_cur, first, last, c)
    BY <2>1
  <2>3. last \in Traces
    BY DEF RunsOf
  <2>4. queue_cur \in Entries
    BY BoundsAssumption DEF DryRunCalibrates, CurOK, EntryTypeOK, Entries
  <2> QED BY <2>2, <2>3, <2>4, ScoreStep DEF Calibrates
<1>2. EntryTypeOK'
  BY BoundsAssumption, CostsAssumption DEF EntryTypeOK, entries, DryRunCalibrates, Calibrates, Entries, Traces, NoTrace, CurOK, Queued
<1>3. CurOK'
  BY BoundsAssumption, CostsAssumption DEF CurOK, EntryTypeOK, entries, Queued, DryRunCalibrates, Calibrates, Entries
<1>4. ReachedOK'
  <2>1. queue_cur \in Entries /\ pc' = pc /\ pc = "dryrun" /\ Entries \subseteq Nat
    BY BoundsAssumption DEF DryRunCalibrates, CurOK, EntryTypeOK, Entries
  <2>2. PICK first \in Traces, c \in Costs : \E last \in RunsOf(first) :
               Calibrates(queue_cur, first, last, c)
    BY DEF DryRunCalibrates
  <2>3. \A q \in Entries :
          /\ was_fuzzed'[q] = was_fuzzed[q]
          /\ q = queue_cur => exec_cksum'[q] \in Traces
          /\ q # queue_cur => UNCHANGED <<cost[q], cal_failed[q], exec_cksum[q]>>
    BY <2>2 DEF Calibrates, DryRunCalibrates, EntryTypeOK
  <2>4. /\ queued_paths \in Nat /\ queue_cur \in Nat /\ queue_cur <= queued_paths
        /\ queue_cur' = queue_cur + 1 /\ queued_paths' = queued_paths
    BY <2>1 DEF DryRunCalibrates, EntryTypeOK
  <2>5. \A q \in Entries : q \in Unreached' <=> q \in Unreached /\ q # queue_cur
    BY <2>1, <2>4 DEF Unreached
  <2> QED BY <2>1, <2>3, <2>5 DEF ReachedOK
<1>5. PendingNotFuzzedExact'
  BY DEF PendingNotFuzzedExact, Queued, entries, DryRunCalibrates, Calibrates
<1> QED BY <1>1, <1>2, <1>3, <1>4, <1>5

LEMMA DryRunSkipsInv == Inv /\ DryRunSkips => Inv'
<1> SUFFICES ASSUME Inv, DryRunSkips PROVE Inv'
  OBVIOUS
<1> USE DEF Inv
<1>1. ScoreTypeOK' /\ RefCountExact' /\ TraceKeptWhileNeeded'
  BY ScoreUnchanged DEF DryRunSkips, scoring, CalibrationFails
<1>2. EntryTypeOK'
  BY BoundsAssumption, CostsAssumption DEF EntryTypeOK, entries, DryRunSkips, CalibrationFails, Entries, Traces, NoTrace, CurOK, Queued
<1>3. CurOK'
  BY BoundsAssumption, CostsAssumption DEF CurOK, EntryTypeOK, entries, Queued, DryRunSkips, CalibrationFails, Entries
<1>4. ReachedOK'
  BY BoundsAssumption, CostsAssumption DEF ReachedOK, Unreached, CurOK, EntryTypeOK, entries, Queued, DryRunSkips, CalibrationFails, Entries, Traces, NoTrace
<1>5. PendingNotFuzzedExact'
  BY DEF PendingNotFuzzedExact, Queued, entries, DryRunSkips, CalibrationFails
<1> QED BY <1>1, <1>2, <1>3, <1>4, <1>5

LEMMA DryRunFatalInv == Inv /\ DryRunFatal => Inv'
<1> SUFFICES ASSUME Inv, DryRunFatal PROVE Inv'
  OBVIOUS
<1> USE DEF Inv
<1>1. ScoreTypeOK' /\ RefCountExact' /\ TraceKeptWhileNeeded'
  BY ScoreUnchanged DEF DryRunFatal, scoring
<1>2. EntryTypeOK'
  BY BoundsAssumption, CostsAssumption DEF EntryTypeOK, entries, DryRunFatal, Entries, Traces, NoTrace
<1>3. CurOK'
  BY BoundsAssumption, CostsAssumption DEF CurOK, EntryTypeOK, entries, Queued, DryRunFatal, Entries
<1>4. ReachedOK'
  BY BoundsAssumption, CostsAssumption DEF ReachedOK, Unreached, CurOK, EntryTypeOK, entries, Queued, DryRunFatal, Entries, Traces, NoTrace
<1>5. PendingNotFuzzedExact'
  BY DEF PendingNotFuzzedExact, Queued, entries, DryRunFatal
<1> QED BY <1>1, <1>2, <1>3, <1>4, <1>5

LEMMA DryRunDoneInv == Inv /\ DryRunDone => Inv'
<1> SUFFICES ASSUME Inv, DryRunDone PROVE Inv'
  OBVIOUS
<1> USE DEF Inv
<1>1. ScoreTypeOK' /\ RefCountExact' /\ TraceKeptWhileNeeded'
  BY ScoreUnchanged DEF DryRunDone, scoring
<1>2. EntryTypeOK'
  BY BoundsAssumption, CostsAssumption DEF EntryTypeOK, entries, DryRunDone, Entries, Traces, NoTrace
<1>3. CurOK'
  BY BoundsAssumption, CostsAssumption DEF CurOK, EntryTypeOK, entries, Queued, DryRunDone, Entries
<1>4. ReachedOK'
  <2>1. Unreached' = Unreached
    BY DEF DryRunDone, Unreached, CurOK, EntryTypeOK, Entries, entries
  <2> QED BY <2>1 DEF DryRunDone, ReachedOK, entries
<1>5. PendingNotFuzzedExact'
  BY DEF PendingNotFuzzedExact, Queued, entries, DryRunDone
<1> QED BY <1>1, <1>2, <1>3, <1>4, <1>5

LEMMA CullQueueInv == Inv /\ CullQueue => Inv'
<1> SUFFICES ASSUME Inv, CullQueue PROVE Inv'
  OBVIOUS
<1> USE DEF Inv
<1>1. ScoreTypeOK' /\ RefCountExact' /\ TraceKeptWhileNeeded'
  BY ScoreUnchanged DEF CullQueue, scoring
<1>2. EntryTypeOK'
  BY BoundsAssumption, CostsAssumption DEF EntryTypeOK, entries, CullQueue, Entries, Traces, NoTrace
<1>3. CurOK'
  BY BoundsAssumption, CostsAssumption DEF CurOK, EntryTypeOK, entries, Queued, CullQueue, Entries
<1>4. ReachedOK'
  BY BoundsAssumption, CostsAssumption DEF ReachedOK, Unreached, CurOK, EntryTypeOK, entries, Queued, CullQueue, Entries, Traces, NoTrace
<1>5. PendingNotFuzzedExact'
  BY DEF PendingNotFuzzedExact, Queued, entries, CullQueue
<1> QED BY <1>1, <1>2, <1>3, <1>4, <1>5

LEMMA SkipInv == Inv /\ Skip => Inv'
<1> SUFFICES ASSUME Inv, Skip PROVE Inv'
  OBVIOUS
<1> USE DEF Inv
<1>1. ScoreTypeOK' /\ RefCountExact' /\ TraceKeptWhileNeeded'
  BY ScoreUnchanged DEF Skip, scoring
<1>2. EntryTypeOK'
  BY BoundsAssumption, CostsAssumption DEF EntryTypeOK, entries, Skip, Entries, Traces, NoTrace
<1>3. CurOK'
  BY BoundsAssumption, CostsAssumption DEF CurOK, EntryTypeOK, entries, Queued, Skip, Entries
<1>4. ReachedOK'
  BY BoundsAssumption, CostsAssumption DEF ReachedOK, Unreached, CurOK, EntryTypeOK, entries, Queued, Skip, Entries, Traces, NoTrace
<1>5. PendingNotFuzzedExact'
  BY DEF PendingNotFuzzedExact, Queued, entries, Skip
<1> QED BY <1>1, <1>2, <1>3, <1>4, <1>5

LEMMA TakeInv == Inv /\ Take => Inv'
<1> SUFFICES ASSUME Inv, Take PROVE Inv'
  OBVIOUS
<1> USE DEF Inv
<1>1. ScoreTypeOK' /\ RefCountExact' /\ TraceKeptWhileNeeded'
  BY ScoreUnchanged DEF Take, scoring
<1>2. EntryTypeOK'
  BY BoundsAssumption, CostsAssumption DEF EntryTypeOK, entries, Take, Entries, Traces, NoTrace
<1>3. CurOK'
  BY BoundsAssumption, CostsAssumption DEF CurOK, EntryTypeOK, entries, Queued, Take, Entries
<1>4. ReachedOK'
  BY BoundsAssumption, CostsAssumption DEF ReachedOK, Unreached, CurOK, EntryTypeOK, entries, Queued, Take, Entries, Traces, NoTrace
<1>5. PendingNotFuzzedExact'
  BY DEF PendingNotFuzzedExact, Queued, entries, Take
<1> QED BY <1>1, <1>2, <1>3, <1>4, <1>5

LEMMA RecalibratesInv == Inv /\ Recalibrates => Inv'
<1> SUFFICES ASSUME Inv, Recalibrates PROVE Inv'
  OBVIOUS
<1> USE DEF Inv
<1>1. ScoreTypeOK' /\ RefCountExact' /\ TraceKeptWhileNeeded'
  <2>0. queue_cur \in Entries /\ exec_cksum[queue_cur] \in Traces
    BY BoundsAssumption DEF Recalibrates, CurOK, EntryTypeOK, Entries, ReachedOK, Unreached, Queued
  <2>1. PICK last \in RunsOf(exec_cksum[queue_cur]), c \in Costs :
               Calibrates(queue_cur, exec_cksum[queue_cur], last, c)
    BY DEF Recalibrates
  <2>2. last \in Traces
    BY <2>0 DEF RunsOf
  <2> QED BY <2>0, <2>1, <2>2, ScoreStep DEF Calibrates
<1>2. EntryTypeOK'
  BY BoundsAssumption, CostsAssumption DEF EntryTypeOK, entries, Recalibrates, Calibrates, Entries, Traces, NoTrace, CurOK, Queued
<1>3. CurOK'
  BY BoundsAssumption, CostsAssumption DEF CurOK, EntryTypeOK, entries, Queued, Recalibrates, Calibrates, Entries
<1>4. ReachedOK'
  BY BoundsAssumption, CostsAssumption DEF ReachedOK, Unreached, CurOK, EntryTypeOK, entries, Queued, Recalibrates, Calibrates, Entries, Traces, NoTrace
<1>5. PendingNotFuzzedExact'
  BY DEF PendingNotFuzzedExact, Queued, entries, Recalibrates, Calibrates
<1> QED BY <1>1, <1>2, <1>3, <1>4, <1>5

LEMMA RecalibrationFailsInv == Inv /\ RecalibrationFails => Inv'
<1> SUFFICES ASSUME Inv, RecalibrationFails PROVE Inv'
  OBVIOUS
<1> USE DEF Inv
<1>1. ScoreTypeOK' /\ RefCountExact' /\ TraceKeptWhileNeeded'
  BY ScoreUnchanged DEF RecalibrationFails, scoring, CalibrationFails
<1>2. EntryTypeOK'
  BY BoundsAssumption, CostsAssumption, SMTT(30) DEF EntryTypeOK, entries, RecalibrationFails, CalibrationFails, Entries, Traces, NoTrace, CurOK, Queued
<1>3. CurOK'
  BY BoundsAssumption, CostsAssumption DEF CurOK, EntryTypeOK, entries, Queued, RecalibrationFails, CalibrationFails, Entries
<1>4. ReachedOK'
  BY BoundsAssumption, CostsAssumption DEF ReachedOK, Unreached, CurOK, EntryTypeOK, entries, Queued, RecalibrationFails, CalibrationFails, Entries, Traces, NoTrace
<1>5. PendingNotFuzzedExact'
  BY DEF PendingNotFuzzedExact, Queued, entries, RecalibrationFails, CalibrationFails
<1> QED BY <1>1, <1>2, <1>3, <1>4, <1>5

LEMMA OutOfChancesInv == Inv /\ OutOfChances => Inv'
<1> SUFFICES ASSUME Inv, OutOfChances PROVE Inv'
  OBVIOUS
<1> USE DEF Inv
<1>1. ScoreTypeOK' /\ RefCountExact' /\ TraceKeptWhileNeeded'
  BY ScoreUnchanged DEF OutOfChances, scoring
<1>2. EntryTypeOK'
  BY BoundsAssumption, CostsAssumption DEF EntryTypeOK, entries, OutOfChances, Entries, Traces, NoTrace
<1>3. CurOK'
  BY BoundsAssumption, CostsAssumption DEF CurOK, EntryTypeOK, entries, Queued, OutOfChances, Entries
<1>4. ReachedOK'
  BY BoundsAssumption, CostsAssumption DEF ReachedOK, Unreached, CurOK, EntryTypeOK, entries, Queued, OutOfChances, Entries, Traces, NoTrace
<1>5. PendingNotFuzzedExact'
  BY DEF PendingNotFuzzedExact, Queued, entries, OutOfChances
<1> QED BY <1>1, <1>2, <1>3, <1>4, <1>5

LEMMA TrimNothingInv == Inv /\ TrimNothing => Inv'
<1> SUFFICES ASSUME Inv, TrimNothing PROVE Inv'
  OBVIOUS
<1> USE DEF Inv
<1>1. ScoreTypeOK' /\ RefCountExact' /\ TraceKeptWhileNeeded'
  BY ScoreUnchanged DEF TrimNothing, scoring
<1>2. EntryTypeOK'
  BY BoundsAssumption, CostsAssumption DEF EntryTypeOK, entries, TrimNothing, Entries, Traces, NoTrace
<1>3. CurOK'
  BY BoundsAssumption, CostsAssumption DEF CurOK, EntryTypeOK, entries, Queued, TrimNothing, Entries
<1>4. ReachedOK'
  BY BoundsAssumption, CostsAssumption DEF ReachedOK, Unreached, CurOK, EntryTypeOK, entries, Queued, TrimNothing, Entries, Traces, NoTrace
<1>5. PendingNotFuzzedExact'
  BY DEF PendingNotFuzzedExact, Queued, entries, TrimNothing
<1> QED BY <1>1, <1>2, <1>3, <1>4, <1>5

LEMMA TrimShortensInv == Inv /\ TrimShortens => Inv'
<1> SUFFICES ASSUME Inv, TrimShortens PROVE Inv'
  OBVIOUS
<1> USE DEF Inv
<1>1. ScoreTypeOK' /\ RefCountExact' /\ TraceKeptWhileNeeded'
  <2>0. queue_cur \in Entries /\ exec_cksum[queue_cur] \in Traces
    BY BoundsAssumption DEF TrimShortens, CurOK, EntryTypeOK, Entries, ReachedOK, Unreached, Queued
  <2>1. PICK c \in Costs : UpdateScore(queue_cur, exec_cksum[queue_cur], c)
    BY DEF TrimShortens
  <2> QED BY <2>0, <2>1, ScoreStep
<1>2. EntryTypeOK'
  BY BoundsAssumption, CostsAssumption DEF EntryTypeOK, entries, TrimShortens, Entries, Traces, NoTrace, CurOK, Queued
<1>3. CurOK'
  BY BoundsAssumption, CostsAssumption DEF CurOK, EntryTypeOK, entries, Queued, TrimShortens, Entries
<1>4. ReachedOK'
  BY BoundsAssumption, CostsAssumption DEF ReachedOK, Unreached, CurOK, EntryTypeOK, entries, Queued, TrimShortens, Entries, Traces, NoTrace
<1>5. PendingNotFuzzedExact'
  BY DEF PendingNotFuzzedExact, Queued, entries, TrimShortens
<1> QED BY <1>1, <1>2, <1>3, <1>4, <1>5

LEMMA FindCalibratesInv == Inv /\ FindCalibrates => Inv'
<1> SUFFICES ASSUME Inv, FindCalibrates PROVE Inv'
  OBVIOUS
<1> USE DEF Inv
<1>1. ScoreTypeOK' /\ RefCountExact' /\ TraceKeptWhileNeeded'
  <2>1. PICK t \in Traces, c \in Costs : \E last \in RunsOf(t) :
               Calibrates(queued_paths + 1, t, last, c)
    BY DEF FindCalibrates
  <2>2. PICK last \in RunsOf(t) : Calibrates(queued_paths + 1, t, last, c)
    BY <2>1
  <2>3. last \in Traces
    BY DEF RunsOf
  <2>4. queued_paths + 1 \in Entries
    BY BoundsAssumption DEF FindCalibrates, Finds, EntryTypeOK, Entries
  <2> QED BY <2>2, <2>3, <2>4, ScoreStep DEF Calibrates
<1>2. EntryTypeOK'
  BY BoundsAssumption, CostsAssumption, SMTT(30) DEF EntryTypeOK, entries, FindCalibrates, Calibrates, Finds, Entries, Traces, NoTrace, CurOK, Queued
<1>3. CurOK'
  BY BoundsAssumption, CostsAssumption DEF CurOK, EntryTypeOK, entries, Queued, FindCalibrates, Calibrates, Finds, Entries
<1>4. ReachedOK'
  BY BoundsAssumption, CostsAssumption DEF ReachedOK, Unreached, CurOK, EntryTypeOK, entries, Queued, FindCalibrates, Calibrates, Finds, Entries, Traces, NoTrace
<1>5. PendingNotFuzzedExact'
  <2> DEFINE P == {q \in Queued : ~was_fuzzed[q]}
  <2>1. /\ queued_paths + 1 \in Entries /\ ~was_fuzzed[queued_paths + 1]
        /\ queued_paths \in Nat
    BY BoundsAssumption DEF FindCalibrates, Finds, EntryTypeOK, Entries, ReachedOK, Unreached
  <2>2. {q \in Queued' : ~was_fuzzed'[q]} = P \cup {queued_paths + 1}
    BY <2>1 DEF FindCalibrates, Finds, Queued
  <2>3. queued_paths + 1 \notin P
    BY <2>1 DEF Queued
  <2>4. Cardinality(P \cup {queued_paths + 1}) = Cardinality(P) + 1
    BY <2>3, FiniteQueued, FS_AddElement
  <2> QED BY <2>2, <2>4 DEF FindCalibrates, Finds, PendingNotFuzzedExact
<1> QED BY <1>1, <1>2, <1>3, <1>4, <1>5

LEMMA FindFailsInv == Inv /\ FindFails => Inv'
<1> SUFFICES ASSUME Inv, FindFails PROVE Inv'
  OBVIOUS
<1> USE DEF Inv
<1>1. ScoreTypeOK' /\ RefCountExact' /\ TraceKeptWhileNeeded'
  BY ScoreUnchanged DEF FindFails, scoring
<1>2. EntryTypeOK'
  BY BoundsAssumption, CostsAssumption, SMTT(30) DEF EntryTypeOK, entries, FindFails, Finds, Entries, Traces, NoTrace, CurOK, Queued
<1>3. CurOK'
  BY BoundsAssumption, CostsAssumption DEF CurOK, EntryTypeOK, entries, Queued, FindFails, Finds, Entries
<1>4. ReachedOK'
  BY BoundsAssumption, CostsAssumption DEF ReachedOK, Unreached, CurOK, EntryTypeOK, entries, Queued, FindFails, Finds, Entries, Traces, NoTrace
<1>5. PendingNotFuzzedExact'
  <2> DEFINE P == {q \in Queued : ~was_fuzzed[q]}
  <2>1. /\ queued_paths + 1 \in Entries /\ ~was_fuzzed[queued_paths + 1]
        /\ queued_paths \in Nat
    BY BoundsAssumption DEF FindFails, Finds, EntryTypeOK, Entries, ReachedOK, Unreached
  <2>2. {q \in Queued' : ~was_fuzzed'[q]} = P \cup {queued_paths + 1}
    BY <2>1 DEF FindFails, Finds, Queued
  <2>3. queued_paths + 1 \notin P
    BY <2>1 DEF Queued
  <2>4. Cardinality(P \cup {queued_paths + 1}) = Cardinality(P) + 1
    BY <2>3, FiniteQueued, FS_AddElement
  <2> QED BY <2>2, <2>4 DEF FindFails, Finds, PendingNotFuzzedExact
<1> QED BY <1>1, <1>2, <1>3, <1>4, <1>5

LEMMA FuzzDoneInv == Inv /\ FuzzDone => Inv'
<1> SUFFICES ASSUME Inv, FuzzDone PROVE Inv'
  OBVIOUS
<1> USE DEF Inv
<1>1. ScoreTypeOK' /\ RefCountExact' /\ TraceKeptWhileNeeded'
  BY ScoreUnchanged DEF FuzzDone, scoring
<1>2. EntryTypeOK'
  BY BoundsAssumption, CostsAssumption DEF EntryTypeOK, entries, FuzzDone, Entries, Traces, NoTrace
<1>3. CurOK'
  BY BoundsAssumption, CostsAssumption DEF CurOK, EntryTypeOK, entries, Queued, FuzzDone, Entries
<1>4. ReachedOK'
  BY BoundsAssumption, CostsAssumption DEF ReachedOK, Unreached, CurOK, EntryTypeOK, entries, Queued, FuzzDone, Entries, Traces, NoTrace
<1>5. PendingNotFuzzedExact'
  BY DEF PendingNotFuzzedExact, Queued, entries, FuzzDone
<1> QED BY <1>1, <1>2, <1>3, <1>4, <1>5

LEMMA AbandonInv == Inv /\ Abandon => Inv'
<1> SUFFICES ASSUME Inv, Abandon PROVE Inv'
  OBVIOUS
<1> USE DEF Inv
<1>1. ScoreTypeOK' /\ RefCountExact' /\ TraceKeptWhileNeeded'
  BY ScoreUnchanged DEF Abandon, scoring
<1>2. EntryTypeOK'
  BY BoundsAssumption, CostsAssumption DEF EntryTypeOK, entries, Abandon, Entries, Traces, NoTrace
<1>3. CurOK'
  BY BoundsAssumption, CostsAssumption DEF CurOK, EntryTypeOK, entries, Queued, Abandon, Entries
<1>4. ReachedOK'
  <2>1. queue_cur \in Queued /\ pc = "abandon" /\ pc' = "sync"
    BY DEF Abandon, CurOK
  <2>2. \A q \in Entries : q # queue_cur => was_fuzzed'[q] = was_fuzzed[q]
    BY DEF Abandon, EntryTypeOK
  <2>3. UNCHANGED <<queued_paths, exec_cksum, cal_failed, cost, queue_cur>>
    BY DEF Abandon
  <2>4. queued_paths \in Nat /\ Entries \subseteq Nat
    BY DEF EntryTypeOK, Entries
  <2>5. queue_cur \notin Unreached /\ Unreached' = Unreached
    BY <2>1, <2>3, <2>4 DEF Unreached, Queued
  <2> QED BY <2>1, <2>2, <2>3, <2>5 DEF ReachedOK
<1>5. PendingNotFuzzedExact'
  <2> DEFINE P == {q \in Queued : ~was_fuzzed[q]}
  <2>1. CASE cal_failed[queue_cur] = 0 /\ ~was_fuzzed[queue_cur]
    <3>1. queue_cur \in P
      BY <2>1 DEF Abandon, CurOK
    <3>2. {q \in Queued' : ~was_fuzzed'[q]} = P \ {queue_cur}
      <4>1. Queued' = Queued /\ Queued \subseteq Entries
        BY BoundsAssumption DEF Abandon, Queued, EntryTypeOK, Entries
      <4>2. \A q \in Queued : was_fuzzed'[q] = (q = queue_cur \/ was_fuzzed[q])
        BY <2>1, <3>1, <4>1 DEF Abandon, EntryTypeOK
      <4> QED BY <3>1, <4>1, <4>2
    <3>3. Cardinality(P \ {queue_cur}) = Cardinality(P) - 1
      BY <3>1, FiniteQueued, FS_RemoveElement
    <3> QED BY <2>1, <3>2, <3>3 DEF Abandon, PendingNotFuzzedExact
  <2>2. CASE ~(cal_failed[queue_cur] = 0 /\ ~was_fuzzed[queue_cur])
    BY <2>2 DEF Abandon, PendingNotFuzzedExact, Queued
  <2> QED BY <2>1, <2>2
<1> QED BY <1>1, <1>2, <1>3, <1>4, <1>5

LEMMA SyncDoneInv == Inv /\ SyncDone => Inv'
<1> SUFFICES ASSUME Inv, SyncDone PROVE Inv'
  OBVIOUS
<1> USE DEF Inv
<1>1. ScoreTypeOK' /\ RefCountExact' /\ TraceKeptWhileNeeded'
  BY ScoreUnchanged DEF SyncDone, scoring
<1>2. EntryTypeOK'
  BY BoundsAssumption, CostsAssumption DEF EntryTypeOK, entries, SyncDone, Entries, Traces, NoTrace
<1>3. CurOK'
  BY BoundsAssumption, CostsAssumption DEF CurOK, EntryTypeOK, entries, Queued, SyncDone, Entries
<1>4. ReachedOK'
  BY BoundsAssumption, CostsAssumption DEF ReachedOK, Unreached, CurOK, EntryTypeOK, entries, Queued, SyncDone, Entries, Traces, NoTrace
<1>5. PendingNotFuzzedExact'
  BY DEF PendingNotFuzzedExact, Queued, entries, SyncDone
<1> QED BY <1>1, <1>2, <1>3, <1>4, <1>5

LEMMA StopInTrimInv == Inv /\ StopInTrim => Inv'
<1> SUFFICES ASSUME Inv, StopInTrim PROVE Inv'
  OBVIOUS
<1> USE DEF Inv
<1>1. ScoreTypeOK' /\ RefCountExact' /\ TraceKeptWhileNeeded'
  BY ScoreUnchanged DEF StopInTrim, scoring
<1>2. EntryTypeOK'
  BY BoundsAssumption, CostsAssumption DEF EntryTypeOK, entries, StopInTrim, Entries, Traces, NoTrace, CurOK, Queued
<1>3. CurOK'
  BY BoundsAssumption, CostsAssumption DEF CurOK, EntryTypeOK, entries, Queued, StopInTrim, Entries
<1>4. ReachedOK'
  BY BoundsAssumption, CostsAssumption DEF ReachedOK, Unreached, CurOK, EntryTypeOK, entries, Queued, StopInTrim, Entries, Traces, NoTrace
<1>5. PendingNotFuzzedExact'
  BY DEF PendingNotFuzzedExact, Queued, entries, StopInTrim
<1> QED BY <1>1, <1>2, <1>3, <1>4, <1>5

LEMMA StopInv == Inv /\ Stop => Inv'
<1> SUFFICES ASSUME Inv, Stop PROVE Inv'
  OBVIOUS
<1> USE DEF Inv
<1>1. ScoreTypeOK' /\ RefCountExact' /\ TraceKeptWhileNeeded'
  BY ScoreUnchanged DEF Stop, scoring
<1>2. EntryTypeOK'
  BY BoundsAssumption, CostsAssumption DEF EntryTypeOK, entries, Stop, Entries, Traces, NoTrace
<1>3. CurOK'
  BY BoundsAssumption, CostsAssumption DEF CurOK, EntryTypeOK, entries, Queued, Stop, Entries
<1>4. ReachedOK'
  BY BoundsAssumption, CostsAssumption DEF ReachedOK, Unreached, CurOK, EntryTypeOK, entries, Queued, Stop, Entries, Traces, NoTrace
<1>5. PendingNotFuzzedExact'
  BY DEF PendingNotFuzzedExact, Queued, entries, Stop
<1> QED BY <1>1, <1>2, <1>3, <1>4, <1>5

LEMMA NextInv == Inv /\ [Next]_vars => Inv'
<1> SUFFICES ASSUME Inv, [Next]_vars PROVE Inv'
  OBVIOUS
<1>1. CASE DryRunCalibrates
  BY <1>1, DryRunCalibratesInv
<1>2. CASE DryRunSkips
  BY <1>2, DryRunSkipsInv
<1>3. CASE DryRunFatal
  BY <1>3, DryRunFatalInv
<1>4. CASE DryRunDone
  BY <1>4, DryRunDoneInv
<1>5. CASE CullQueue
  BY <1>5, CullQueueInv
<1>6. CASE Skip
  BY <1>6, SkipInv
<1>7. CASE Take
  BY <1>7, TakeInv
<1>8. CASE Recalibrates
  BY <1>8, RecalibratesInv
<1>9. CASE RecalibrationFails
  BY <1>9, RecalibrationFailsInv
<1>10. CASE OutOfChances
  BY <1>10, OutOfChancesInv
<1>11. CASE TrimNothing
  BY <1>11, TrimNothingInv
<1>12. CASE TrimShortens
  BY <1>12, TrimShortensInv
<1>13. CASE FindCalibrates
  BY <1>13, FindCalibratesInv
<1>14. CASE FindFails
  BY <1>14, FindFailsInv
<1>15. CASE FuzzDone
  BY <1>15, FuzzDoneInv
<1>16. CASE Abandon
  BY <1>16, AbandonInv
<1>17. CASE SyncDone
  BY <1>17, SyncDoneInv
<1>18. CASE StopInTrim
  BY <1>18, StopInTrimInv
<1>19. CASE Stop
  BY <1>19, StopInv
<1>20. CASE UNCHANGED vars
  <2>1. ScoreTypeOK' /\ RefCountExact' /\ TraceKeptWhileNeeded'
    BY <1>20, ScoreUnchanged DEF Inv, vars, scoring
  <2>2. EntryTypeOK' /\ CurOK' /\ ReachedOK' /\ PendingNotFuzzedExact'
    BY <1>20 DEF Inv, vars, entries, EntryTypeOK, CurOK, ReachedOK, Unreached, Queued,
                 PendingNotFuzzedExact
  <2> QED BY <2>1, <2>2 DEF Inv
<1> QED BY <1>1, <1>2, <1>3, <1>4, <1>5, <1>6, <1>7, <1>8, <1>9, <1>10, <1>11, <1>12, <1>13, <1>14, <1>15, <1>16, <1>17, <1>18, <1>19, <1>20 DEF Next

\* At every moment of a session the reference count of an entry is the number
\* of map bytes it is rated top for, and its compressed trace is there exactly
\* when that is not zero: cull_queue() never reads through a null trace_mini.
THEOREM RefCounts == Spec => []ReferencesExact
<1>1. Inv => ReferencesExact
  BY DEF Inv, ReferencesExact
<1> QED BY <1>1, InitInv, NextInv, PTL DEF Spec

\* pending_not_fuzzed, which decides when a session is done, always is the
\* number of entries that have not been fuzzed.
THEOREM PendingCount == Spec => []PendingNotFuzzedExact
<1>1. Inv => PendingNotFuzzedExact
  BY DEF Inv
<1> QED BY <1>1, InitInv, NextInv, PTL DEF Spec

-----------------------------------------------------------------------------
(* The winner of a slot, for a target whose trace does not vary. *)

\* TopRatedCheapest without its exception for a session that is over.
Cheapest ==
  \A q \in Queued : Scored(q) =>
    \A i \in exec_cksum[q] : top_rated[i] # NoEntry /\ cost[top_rated[i]] <= cost[q]

DetInv == Inv /\ RatedScored /\ (pc # "stopped" => Cheapest)

\* Scoring q, for the first time or at a lower cost than before, keeps the
\* winners the cheapest.
LEMMA CheapStep ==
  ASSUME ScoreTypeOK, EntryTypeOK, RatedScored, Cheapest,
         NEW q \in Entries, NEW t \in Traces, NEW c \in Nat \ {0},
         ~Scored(q) \/ c < cost[q],
         UpdateScore(q, t, c), cost' = [cost EXCEPT ![q] = c],
         exec_cksum'[q] = t, cal_failed'[q] = 0,
         \A r \in Entries \ {q} :
           exec_cksum'[r] = exec_cksum[r] /\ cal_failed'[r] = cal_failed[r],
         Queued' \subseteq Queued \cup {q}, Queued' \subseteq Entries
  PROVE  RatedScored' /\ Cheapest'
<1> DEFINE w == Wins(q, t, c)
<1>1. \A i \in Bytes : top_rated'[i] = IF i \in w THEN q ELSE top_rated[i]
  BY DEF UpdateScore
<1>2. w = {i \in t : top_rated[i] \in {NoEntry, q} \/ c <= cost[top_rated[i]]} /\ t \subseteq Bytes
  BY DEF Wins, Traces
<1> HIDE DEF w
<1>3. /\ \A r \in Entries : cost[r] \in Nat
      /\ cost'[q] = c /\ \A r \in Entries \ {q} : cost'[r] = cost[r]
  BY DEF EntryTypeOK
<1>4. \A r \in Entries \ {q} : Scored(r)' = Scored(r)
  BY <1>3 DEF Scored
<1>5. Scored(q)'
  BY <1>3 DEF Scored
<1>6. \A i \in Bytes : top_rated[i] \in Entries \cup {NoEntry}
  BY DEF ScoreTypeOK
<1>7. \A i \in Bytes : top_rated[i] = q => c < cost[q]
  BY NoEntryAssumption DEF RatedScored
<1>8. RatedScored'
  BY <1>1, <1>4, <1>5, <1>6 DEF RatedScored
<1>9. ASSUME NEW r \in Queued', Scored(r)', NEW i \in exec_cksum'[r]
      PROVE  top_rated'[i] # NoEntry /\ cost'[top_rated'[i]] <= cost'[r]
  <2>1. CASE r = q
    <3>1. i \in t /\ i \in Bytes
      BY <2>1, <1>2
    <3>2. CASE i \in w
      BY <2>1, <3>1, <3>2, <1>1, <1>3, NoEntryAssumption
    <3>3. CASE i \notin w
      <4>1. top_rated[i] \in Entries \ {q} /\ ~(c <= cost[top_rated[i]])
        BY <3>1, <3>3, <1>2, <1>6
      <4> QED BY <4>1, <2>1, <3>1, <3>3, <1>1, <1>3, NoEntryAssumption
    <3> QED BY <3>2, <3>3
  <2>2. CASE r # q
    <3>1. r \in Queued /\ r \in Entries /\ Scored(r) /\ i \in exec_cksum[r] /\ i \in Bytes
      BY <2>2, <1>9, <1>4 DEF EntryTypeOK
    <3>2. top_rated[i] \in Entries /\ cost[top_rated[i]] <= cost[r] /\ cost'[r] = cost[r]
      BY <3>1, <2>2, <1>3, <1>6 DEF Cheapest
    <3>3. CASE i \in w
      <4>1. c <= cost[top_rated[i]]
        BY <3>1, <3>2, <3>3, <1>2, <1>3, <1>7, NoEntryAssumption
      <4> QED BY <4>1, <3>1, <3>2, <3>3, <1>1, <1>3, NoEntryAssumption
    <3>4. CASE i \notin w
      <4>1. CASE top_rated[i] = q
        BY <4>1, <3>1, <3>2, <3>4, <1>1, <1>3, <1>7, NoEntryAssumption
      <4>2. CASE top_rated[i] # q
        BY <4>2, <3>1, <3>2, <3>4, <1>1, <1>3, NoEntryAssumption
      <4> QED BY <4>1, <4>2
    <3> QED BY <3>3, <3>4
  <2> QED BY <2>1, <2>2
<1> QED BY <1>8, <1>9 DEF Cheapest

\* What does not touch scored entries keeps their winners.
LEMMA CheapKeep ==
  ASSUME ScoreTypeOK, RatedScored, Cheapest, UNCHANGED <<top_rated, cost>>,
         Queued' \subseteq Entries,
         \A r \in Entries :
           /\ Scored(r)' = Scored(r)
           /\ Scored(r) => exec_cksum'[r] = exec_cksum[r]
           /\ r \in Queued' /\ Scored(r) => r \in Queued
  PROVE  RatedScored' /\ Cheapest'
<1>1. RatedScored'
  BY DEF RatedScored, ScoreTypeOK
<1>2. ASSUME NEW r \in Queued', Scored(r)', NEW i \in exec_cksum'[r]
      PROVE  top_rated'[i] # NoEntry /\ cost'[top_rated'[i]] <= cost'[r]
  BY <1>2 DEF Cheapest
<1> QED BY <1>1, <1>2 DEF Cheapest

LEMMA CheapInit == Init => RatedScored /\ Cheapest
  BY BoundsAssumption DEF Init, RatedScored, Cheapest, Scored, Queued, Entries

LEMMA CheapDryRunCalibrates ==
  ASSUME ~Variable, DetInv, DryRunCalibrates
  PROVE  RatedScored' /\ Cheapest'
<1>1. PICK t \in Traces, c \in Costs : Calibrates(queue_cur, t, t, c)
  BY DEF DryRunCalibrates, RunsOf
<1>2. /\ queue_cur \in Entries /\ queue_cur \in Unreached
      /\ Queued' = Queued /\ Queued \subseteq Entries
  BY BoundsAssumption
  DEF DetInv, Inv, DryRunCalibrates, CurOK, EntryTypeOK, Entries, Unreached, Queued
<1>3. ~Scored(queue_cur)
  BY <1>2 DEF DetInv, Inv, ReachedOK, Scored
<1>4. ScoreTypeOK /\ EntryTypeOK /\ RatedScored /\ Cheapest
  BY DEF DetInv, Inv, DryRunCalibrates
<1>5. /\ exec_cksum'[queue_cur] = t /\ cal_failed'[queue_cur] = 0
      /\ \A r \in Entries \ {queue_cur} :
           exec_cksum'[r] = exec_cksum[r] /\ cal_failed'[r] = cal_failed[r]
      /\ cost' = [cost EXCEPT ![queue_cur] = c] /\ UpdateScore(queue_cur, t, c)
  BY <1>1, <1>2, <1>4 DEF Calibrates, EntryTypeOK
<1>6. c \in Nat \ {0}
  BY CostsAssumption
<1> QED BY <1>2, <1>3, <1>4, <1>5, <1>6, CheapStep

LEMMA CheapFindCalibrates ==
  ASSUME ~Variable, DetInv, FindCalibrates
  PROVE  RatedScored' /\ Cheapest'
<1> DEFINE q == queued_paths + 1
<1>1. PICK t \in Traces, c \in Costs : Calibrates(q, t, t, c)
  BY DEF FindCalibrates, RunsOf
<1>2. /\ q \in Entries /\ q \in Unreached
      /\ Queued' = Queued \cup {q} /\ Queued' \subseteq Entries
  BY BoundsAssumption
  DEF DetInv, Inv, FindCalibrates, Finds, EntryTypeOK, Entries, Unreached, Queued
<1> HIDE DEF q
<1>3. ~Scored(q)
  BY <1>2 DEF DetInv, Inv, ReachedOK, Scored
<1>4. ScoreTypeOK /\ EntryTypeOK /\ RatedScored /\ Cheapest
  BY DEF DetInv, Inv, FindCalibrates
<1>5. /\ exec_cksum'[q] = t /\ cal_failed'[q] = 0
      /\ \A r \in Entries \ {q} :
           exec_cksum'[r] = exec_cksum[r] /\ cal_failed'[r] = cal_failed[r]
      /\ cost' = [cost EXCEPT ![q] = c] /\ UpdateScore(q, t, c)
  BY <1>1, <1>2, <1>4 DEF Calibrates, EntryTypeOK
<1>6. c \in Nat \ {0}
  BY CostsAssumption
<1> QED BY <1>2, <1>3, <1>4, <1>5, <1>6, CheapStep

LEMMA CheapRecalibrates ==
  ASSUME ~Variable, DetInv, Recalibrates
  PROVE  RatedScored' /\ Cheapest'
<1> DEFINE q == queue_cur
           t == exec_cksum[queue_cur]
<1>1. PICK c \in Costs : Calibrates(q, t, t, c)
  BY DEF Recalibrates, RunsOf
<1>2. /\ q \in Entries /\ t \in Traces
      /\ Queued' = Queued /\ Queued \subseteq Entries
  BY BoundsAssumption
  DEF DetInv, Inv, Recalibrates, CurOK, ReachedOK, EntryTypeOK, Entries, Unreached, Queued
<1>3. ~Scored(q)
  BY DEF DetInv, Inv, Recalibrates, CurOK, Scored
<1>4. ScoreTypeOK /\ EntryTypeOK /\ RatedScored /\ Cheapest
  BY DEF DetInv, Inv, Recalibrates
<1> HIDE DEF q, t
<1>5. /\ exec_cksum'[q] = t /\ cal_failed'[q] = 0
      /\ \A r \in Entries \ {q} :
           exec_cksum'[r] = exec_cksum[r] /\ cal_failed'[r] = cal_failed[r]
      /\ cost' = [cost EXCEPT ![q] = c] /\ UpdateScore(q, t, c)
  BY <1>1, <1>2, <1>4 DEF Calibrates, EntryTypeOK
<1>6. c \in Nat \ {0}
  BY CostsAssumption
<1> QED BY <1>2, <1>3, <1>4, <1>5, <1>6, CheapStep

LEMMA CheapTrimShortens ==
  ASSUME DetInv, TrimShortens
  PROVE  RatedScored' /\ Cheapest'
<1> DEFINE q == queue_cur
           t == exec_cksum[queue_cur]
<1>1. PICK c \in Costs : c < cost[q] /\ cost' = [cost EXCEPT ![q] = c] /\ UpdateScore(q, t, c)
  BY DEF TrimShortens
<1>2. /\ q \in Entries /\ t \in Traces /\ cal_failed[q] = 0
      /\ Queued' = Queued /\ Queued \subseteq Entries
  BY BoundsAssumption
  DEF DetInv, Inv, TrimShortens, CurOK, ReachedOK, EntryTypeOK, Entries, Unreached, Queued, entries
<1>4. ScoreTypeOK /\ EntryTypeOK /\ RatedScored /\ Cheapest
  BY DEF DetInv, Inv, TrimShortens
<1>5. exec_cksum' = exec_cksum /\ cal_failed' = cal_failed
  BY DEF TrimShortens, entries
<1>6. c \in Nat \ {0} /\ t = exec_cksum[q]
  BY CostsAssumption
<1> HIDE DEF q, t
<1> QED BY <1>1, <1>2, <1>4, <1>5, <1>6, CheapStep

LEMMA CheapFails ==
  ASSUME DetInv, DryRunSkips \/ RecalibrationFails \/ FindFails
  PROVE  RatedScored' /\ Cheapest'
<1>0. ScoreTypeOK /\ EntryTypeOK /\ RatedScored /\ Cheapest
  BY DEF DetInv, Inv, DryRunSkips, RecalibrationFails, FindFails
<1>1. UNCHANGED <<top_rated, cost>>
  BY DEF DryRunSkips, RecalibrationFails, FindFails, CalibrationFails, scoring
<1>2. PICK q \in Entries :
        /\ ~Scored(q) /\ cal_failed'[q] # 0
        /\ \A r \in Entries \ {q} :
             exec_cksum'[r] = exec_cksum[r] /\ cal_failed'[r] = cal_failed[r]
        /\ Queued' \subseteq Queued \cup {q}
  <2>1. CASE DryRunSkips
    <3>1. queue_cur \in Entries /\ queue_cur \in Unreached /\ Queued' = Queued
      BY <2>1, BoundsAssumption
      DEF DetInv, Inv, DryRunSkips, CurOK, EntryTypeOK, Entries, Unreached, Queued
    <3>2. ~Scored(queue_cur)
      BY <3>1 DEF DetInv, Inv, ReachedOK, Scored
    <3> QED BY <2>1, <3>1, <3>2, <1>0, BoundsAssumption
            DEF DryRunSkips, CalibrationFails, EntryTypeOK
  <2>2. CASE RecalibrationFails
    <3>1. /\ queue_cur \in Entries /\ Queued' = Queued /\ ~Scored(queue_cur)
          /\ cal_failed[queue_cur] \in Nat
      BY <2>2, BoundsAssumption
      DEF DetInv, Inv, RecalibrationFails, CurOK, EntryTypeOK, Entries, Queued, Scored
    <3> QED BY <2>2, <3>1, <1>0 DEF RecalibrationFails, CalibrationFails, EntryTypeOK
  <2>3. CASE FindFails
    <3> DEFINE q == queued_paths + 1
    <3>1. q \in Entries /\ q \in Unreached /\ Queued' = Queued \cup {q}
      BY <2>3, BoundsAssumption
      DEF DetInv, Inv, FindFails, Finds, EntryTypeOK, Entries, Unreached, Queued
    <3>2. ~Scored(q)
      BY <3>1 DEF DetInv, Inv, ReachedOK, Scored
    <3>3. /\ cal_failed' = [cal_failed EXCEPT ![q] = 1]
          /\ \E t \in Traces : exec_cksum' = [exec_cksum EXCEPT ![q] = t]
      BY <2>3 DEF FindFails
    <3> HIDE DEF q
    <3> QED BY <3>1, <3>2, <3>3, <1>0 DEF EntryTypeOK
  <2> QED BY <2>1, <2>2, <2>3
<1>3. Queued \subseteq Entries /\ Queued' \subseteq Entries
  BY <1>0, <1>2, BoundsAssumption, SMTT(30) DEF EntryTypeOK, Entries, Queued
<1>4. \A r \in Entries :
        /\ Scored(r)' = Scored(r)
        /\ Scored(r) => exec_cksum'[r] = exec_cksum[r]
        /\ r \in Queued' /\ Scored(r) => r \in Queued
  BY <1>1, <1>2 DEF Scored
<1> QED BY <1>0, <1>1, <1>3, <1>4, CheapKeep

LEMMA CheapQuiet ==
  ASSUME DetInv,
         UNCHANGED <<queued_paths, exec_cksum, cal_failed, cost, top_rated>>,
         pc = "stopped" => pc' = "stopped"
  PROVE  RatedScored' /\ (pc' # "stopped" => Cheapest')
  BY DEF DetInv, RatedScored, Cheapest, Scored, Queued

\* A trim cut short leaves the slots as they are: the session is over.
LEMMA CheapStopInTrim ==
  ASSUME DetInv, StopInTrim
  PROVE  RatedScored' /\ pc' = "stopped"
<1>1. PICK c \in Costs : cost' = [cost EXCEPT ![queue_cur] = c]
  BY DEF StopInTrim
<1>2. \A r \in Entries : Scored(r) => Scored(r)'
  BY <1>1, CostsAssumption DEF StopInTrim, entries, Scored, DetInv, Inv, EntryTypeOK
<1> QED BY <1>2 DEF StopInTrim, scoring, RatedScored, DetInv, Inv, ScoreTypeOK

\* For a deterministic target the entry rated top for a map byte is a scored
\* one, and no scored entry that reaches the byte is cheaper, however often
\* entries are found, calibrated again or trimmed.
THEOREM CheapestWins == ~Variable /\ Spec => []TopRatedCheapest
<1>1. ASSUME ~Variable, DetInv, [Next]_vars
      PROVE  DetInv'
  <2> USE <1>1
  <2>1. Inv'
    BY NextInv DEF DetInv
  <2>2. RatedScored' /\ (pc' # "stopped" => Cheapest')
    <3>1. CASE DryRunCalibrates
      BY <3>1, CheapDryRunCalibrates
    <3>2. CASE FindCalibrates
      BY <3>2, CheapFindCalibrates
    <3>3. CASE Recalibrates
      BY <3>3, CheapRecalibrates
    <3>4. CASE TrimShortens
      BY <3>4, CheapTrimShortens
    <3>5. CASE DryRunSkips \/ RecalibrationFails \/ FindFails
      BY <3>5, CheapFails
    <3>6. CASE StopInTrim
      BY <3>6, CheapStopInTrim
    <3>7. CASE DryRunFatal \/ DryRunDone \/ CullQueue \/ Skip \/ Take
      BY <3>7, CheapQuiet
      DEF DryRunFatal, DryRunDone, CullQueue, Skip, Take, entries, scoring
    <3>8. CASE OutOfChances \/ TrimNothing \/ FuzzDone \/ Abandon \/ SyncDone \/ Stop
      BY <3>8, CheapQuiet
      DEF OutOfChances, TrimNothing, FuzzDone, Abandon, SyncDone, Stop, entries, scoring
    <3>9. CASE UNCHANGED vars
      BY <3>9, CheapQuiet DEF vars, entries, scoring
    <3> QED BY <3>1, <3>2, <3>3, <3>4, <3>5, <3>6, <3>7, <3>8, <3>9 DEF Next
  <2> QED BY <2>1, <2>2 DEF DetInv
<1>2. Init => DetInv
  BY InitInv, CheapInit DEF DetInv
<1>3. DetInv => TopRatedCheapest
  BY DEF DetInv, Cheapest, TopRatedCheapest
<1>4. CASE Variable
  BY <1>4
<1>5. CASE ~Variable
  <2>1. DetInv /\ [Next]_vars => DetInv'
    BY <1>1, <1>5
  <2> QED BY <2>1, <1>2, <1>3, PTL DEF Spec
<1> QED BY <1>4, <1>5

-----------------------------------------------------------------------------
(* The loop of update_bitmap_score() and its closed form. *)

Tables == [top : [Bytes -> Entries \cup {NoEntry}], ref : [Entries -> Int], mini : [Entries -> SUBSET Bytes]]

\* What the loop has done to the tables when the slots of v are won.
After(q, t, v) ==
  [top  |-> [i \in Bytes |-> IF i \in v THEN q ELSE top_rated[i]],
   ref  |-> [r \in Entries |-> NewRef(q, v, r)],
   mini |-> [r \in Entries |-> NewMini(q, t, v, r)]]

\* The body of the loop.
Iteration(q, t, c, s, i) ==
  LET r == s.top[i]
      ref1 == IF r = NoEntry THEN s.ref ELSE [s.ref EXCEPT ![r] = @ - 1]
      mini1 == IF r # NoEntry /\ ref1[r] = 0 THEN [s.mini EXCEPT ![r] = NoTrace] ELSE s.mini
  IN IF i \notin t \/ (r # NoEntry /\ c > (IF r = q THEN c ELSE cost[r])) THEN s
     ELSE [top |-> [s.top EXCEPT ![i] = q], ref |-> [ref1 EXCEPT ![q] = @ + 1],
           mini |-> IF mini1[q] = NoTrace THEN [mini1 EXCEPT ![q] = t] ELSE mini1]

LEMMA IterationTyped ==
  ASSUME NEW q \in Entries, NEW t \in Traces, NEW c \in Costs, NEW s \in Tables, NEW i \in Bytes
  PROVE  Iteration(q, t, c, s, i) \in Tables
  <1>0. t \in SUBSET Bytes
    BY DEF Traces
  <1> DEFINE r == s.top[i]
             ref1 == IF r = NoEntry THEN s.ref ELSE [s.ref EXCEPT ![r] = @ - 1]
             mini1 == IF r # NoEntry /\ ref1[r] = 0 THEN [s.mini EXCEPT ![r] = NoTrace] ELSE s.mini
             new == [top |-> [s.top EXCEPT ![i] = q], ref |-> [ref1 EXCEPT ![q] = @ + 1],
                     mini |-> IF mini1[q] = NoTrace THEN [mini1 EXCEPT ![q] = t] ELSE mini1]
  <1>1. ref1 \in [Entries -> Int] /\ mini1 \in [Entries -> SUBSET Bytes]
    BY DEF Tables, NoTrace
  <1>2. new \in Tables
    <2> HIDE DEF ref1, mini1
    <2>1. [s.top EXCEPT ![i] = q] \in [Bytes -> Entries \cup {NoEntry}]
      BY DEF Tables
    <2>2. [ref1 EXCEPT ![q] = @ + 1] \in [Entries -> Int]
      BY <1>1
    <2>3. (IF mini1[q] = NoTrace THEN [mini1 EXCEPT ![q] = t] ELSE mini1) \in [Entries -> SUBSET Bytes]
      BY <1>0, <1>1
    <2> QED BY <2>1, <2>2, <2>3 DEF Tables
  <1>3. Iteration(q, t, c, s, i) = s \/ Iteration(q, t, c, s, i) = new
    BY DEF Iteration
  <1> QED BY <1>2, <1>3

\* ScoreLoop is MapSize iterations from the tables as they are.
LEMMA ScoreLoopUnfolds ==
  ASSUME ScoreTypeOK, NEW q \in Entries, NEW t \in Traces, NEW c \in Costs
  PROVE  \E loop \in [0 .. MapSize -> Tables] :
           /\ ScoreLoop(q, t, c) = loop[MapSize]
           /\ loop[0] = [top |-> top_rated, ref |-> tc_ref, mini |-> trace_mini]
           /\ \A n \in 1 .. MapSize : loop[n] = Iteration(q, t, c, loop[n - 1], n - 1)
  <1> DEFINE start == [top |-> top_rated, ref |-> tc_ref, mini |-> trace_mini]
             step == [n \in 1 .. MapSize |-> [s \in Tables |-> Iteration(q, t, c, s, n - 1)]]
             L == CHOOSE f : f = [n \in 0 .. MapSize |->
                                    IF n = 0 THEN start ELSE Iteration(q, t, c, f[n - 1], n - 1)]
  <1>1. MapSize \in Nat /\ \A n \in 1 .. MapSize : n - 1 \in Bytes /\ n - 1 \in 0 .. MapSize
    BY BoundsAssumption DEF Bytes
  <1>2. step \in StepsOf(MapSize, Tables)
    BY <1>1, IterationTyped DEF StepsOf
  <1>3. start \in Tables
    BY DEF ScoreTypeOK, Tables
  <1> HIDE DEF start
  <1>4. PICK f : RunsThrough(f, MapSize, Tables, start, step)
    <2> HIDE DEF step
    <2> QED BY <1>1, <1>2, <1>3, Recursion
  <1>5. \A n \in 1 .. MapSize : step[n][f[n - 1]] = Iteration(q, t, c, f[n - 1], n - 1)
    BY <1>1, <1>4 DEF RunsThrough
  <1>6. f = [n \in 0 .. MapSize |-> IF n = 0 THEN start ELSE Iteration(q, t, c, f[n - 1], n - 1)]
    <2> HIDE DEF step
    <2>2. \A n \in 0 .. MapSize : f[n] = IF n = 0 THEN start ELSE Iteration(q, t, c, f[n - 1], n - 1)
      BY <1>4, <1>5, <1>1 DEF RunsThrough
    <2> DEFINE g == [n \in 0 .. MapSize |-> IF n = 0 THEN start ELSE Iteration(q, t, c, f[n - 1], n - 1)]
    <2>3. \A n \in 0 .. MapSize : f[n] = g[n]
      BY <2>2
    <2>4. g = [n \in 0 .. MapSize |-> g[n]] /\ f = [n \in 0 .. MapSize |-> f[n]]
      BY <1>4 DEF RunsThrough
    <2> HIDE DEF g
    <2>5. f = g
      BY <2>3, <2>4
    <2> QED BY <2>5 DEF g
  <1>7. L = [n \in 0 .. MapSize |-> IF n = 0 THEN start ELSE Iteration(q, t, c, L[n - 1], n - 1)]
    BY <1>6
  <1>8. ScoreLoop(q, t, c) = L[MapSize]
    BY DEF ScoreLoop, Iteration, start
  <1> HIDE DEF L, step
  <1>9. /\ L[0] = start
        /\ \A n \in 1 .. MapSize : L[n] = Iteration(q, t, c, L[n - 1], n - 1)
    BY <1>1, <1>7
  <1>10. \A n \in 0 .. MapSize : L[n] \in Tables
    <2> DEFINE T == {n \in 0 .. MapSize : L[n] \in Tables}
    <2>1. 0 \in T
      BY <1>1, <1>3, <1>9
    <2>2. ASSUME NEW n \in 0 .. MapSize - 1, n \in T PROVE n + 1 \in T
      <3>1. n + 1 \in 1 .. MapSize /\ (n + 1) - 1 = n /\ n \in Bytes
        BY <1>1 DEF Bytes
      <3>2. L[n + 1] = Iteration(q, t, c, L[n], n)
        BY <3>1, <1>9
      <3> QED BY <2>2, <3>1, <3>2, IterationTyped
    <2> HIDE DEF T
    <2>3. \A n \in 0 .. MapSize : n \in T
      BY <1>1, <2>1, <2>2, UpTo
    <2> QED BY <2>3 DEF T
  <1>11. L \in [0 .. MapSize -> Tables]
    BY <1>7, <1>10
  <1> QED BY <1>8, <1>9, <1>11 DEF start

Held(r) == {i \in Bytes : top_rated[i] = r}

\* The references while the slots of v are won: q holds its own and those, the
\* others what is left of theirs.
HeldAfter(q, v, r) == IF r = q THEN Held(r) \cup v ELSE Held(r) \ v

LEMMA RefsCount ==
  ASSUME ScoreTypeOK, RefCountExact, NEW q \in Entries, NEW v \in SUBSET Bytes, NEW r \in Entries
  PROVE  /\ NewRef(q, v, r) = Cardinality(HeldAfter(q, v, r)) /\ NewRef(q, v, r) \in Nat
         /\ NewRef(q, v, r) = 0 <=> HeldAfter(q, v, r) = {}
  <1> DEFINE rest == HeldAfter(q, v, r)
  <1>1. /\ IsFiniteSet(Held(r)) /\ Cardinality(Held(r)) \in Nat
        /\ IsFiniteSet(v) /\ Cardinality(v) \in Nat
        /\ Cardinality(Held(r) \cap v) \in Nat
        /\ IsFiniteSet(rest) /\ Cardinality(rest) \in Nat
    <2>1. Held(r) \in SUBSET Bytes /\ Held(r) \cap v \in SUBSET Bytes /\ rest \in SUBSET Bytes
      BY DEF Held, HeldAfter
    <2> HIDE DEF rest
    <2> QED BY <2>1, FiniteBytes
  <1>2. Lost(r, v) = Held(r) \cap v
    BY DEF Lost, Held
  <1>3. NewRef(q, v, r) = Cardinality(Held(r)) - Cardinality(Held(r) \cap v)
                            + IF r = q THEN Cardinality(v) ELSE 0
    BY <1>2 DEF NewRef, RefCountExact, Held
  <1>4. Cardinality(Held(r) \cup v) = Cardinality(Held(r)) + Cardinality(v) - Cardinality(Held(r) \cap v)
    BY <1>1, FS_Union
  <1>5. Cardinality(Held(r) \ v) = Cardinality(Held(r)) - Cardinality(Held(r) \cap v)
    BY <1>1, FS_Difference
  <1>6. NewRef(q, v, r) = Cardinality(rest)
    BY <1>1, <1>3, <1>4, <1>5 DEF HeldAfter
  <1>7. Cardinality(rest) = 0 <=> rest = {}
    <2> HIDE DEF rest
    <2> QED BY <1>1, FS_EmptySet
  <1> QED BY <1>1, <1>6, <1>7

\* The references after one slot more.
LEMMA RefsStep ==
  ASSUME ScoreTypeOK, RefCountExact, NEW q \in Entries, NEW v \in SUBSET Bytes,
         NEW i \in Bytes, i \notin v, NEW u, u = v \cup {i}, NEW r \in Entries
  PROVE  NewRef(q, u, r) = NewRef(q, v, r) - (IF top_rated[i] = r THEN 1 ELSE 0) + (IF r = q THEN 1 ELSE 0)
  <1>1. Lost(r, u) = IF top_rated[i] = r THEN Lost(r, v) \cup {i} ELSE Lost(r, v)
    BY DEF Lost
  <1>2. i \notin Lost(r, v) /\ Lost(r, v) \in SUBSET Bytes
    BY DEF Lost
  <1>3. /\ Cardinality(u) = Cardinality(v) + 1
        /\ Cardinality(Lost(r, v) \cup {i}) = Cardinality(Lost(r, v)) + 1
        /\ Cardinality(v) \in Nat /\ Cardinality(Lost(r, v)) \in Nat /\ tc_ref[r] \in Nat
    BY <1>2, FiniteBytes, FS_AddElement DEF ScoreTypeOK
  <1> QED BY <1>1, <1>3 DEF NewRef

\* A trace is there exactly when a slot is held.
LEMMA TraceIffHeld ==
  ASSUME ScoreTypeOK, RefCountExact, TraceKeptWhileNeeded, NEW x \in Entries
  PROVE  trace_mini[x] = NoTrace <=> {k \in Bytes : top_rated[k] = x} = {}
  <1> DEFINE H == {k \in Bytes : top_rated[k] = x}
  <1>1. tc_ref[x] = Cardinality(H) /\ tc_ref[x] \in Nat
    BY DEF RefCountExact, ScoreTypeOK
  <1>2. H \in SUBSET Bytes
    OBVIOUS
  <1> HIDE DEF H
  <1>3. Cardinality(H) = 0 <=> H = {}
    BY <1>2, FiniteBytes, FS_EmptySet
  <1>4. trace_mini[x] # NoTrace <=> tc_ref[x] > 0
    BY DEF TraceKeptWhileNeeded
  <1> QED BY <1>1, <1>3, <1>4 DEF H

\* The compressed trace of an entry other than q after one slot more.
LEMMA MiniStepOther ==
  ASSUME ScoreTypeOK, RefCountExact, TraceKeptWhileNeeded,
         NEW q \in Entries, NEW t \in Traces, NEW v \in SUBSET Bytes, NEW i \in Bytes \ v,
         NEW x \in Entries, x # q
  PROVE  NewMini(q, t, v \cup {i}, x) =
           IF x = top_rated[i] /\ NewRef(q, v, x) = 1 THEN NoTrace ELSE NewMini(q, t, v, x)
  <1> DEFINE u == v \cup {i}
  <1>1. /\ NewMini(q, t, u, x) = IF Lost(x, u) # {} /\ NewRef(q, u, x) = 0 THEN NoTrace ELSE trace_mini[x]
        /\ NewMini(q, t, v, x) = IF Lost(x, v) # {} /\ NewRef(q, v, x) = 0 THEN NoTrace ELSE trace_mini[x]
    BY DEF NewMini
  <1>2. /\ Lost(x, u) = IF top_rated[i] = x THEN Lost(x, v) \cup {i} ELSE Lost(x, v)
        /\ NewRef(q, u, x) = NewRef(q, v, x) - IF top_rated[i] = x THEN 1 ELSE 0
        /\ NewRef(q, v, x) \in Nat
    <2>1. NewRef(q, v, x) \in Nat
      BY RefsCount
    <2>2. /\ Lost(x, u) = IF top_rated[i] = x THEN Lost(x, v) \cup {i} ELSE Lost(x, v)
          /\ NewRef(q, u, x) = NewRef(q, v, x) - (IF top_rated[i] = x THEN 1 ELSE 0) + IF x = q THEN 1 ELSE 0
      <3> HIDE DEF u
      <3>1. u = v \cup {i} /\ i \in Bytes /\ i \notin v
        BY DEF u
      <3>2. NewRef(q, u, x) = NewRef(q, v, x) - (IF top_rated[i] = x THEN 1 ELSE 0) + (IF x = q THEN 1 ELSE 0)
        BY <3>1, RefsStep
      <3>3. Lost(x, u) = IF top_rated[i] = x THEN Lost(x, v) \cup {i} ELSE Lost(x, v)
        BY <3>1 DEF Lost
      <3> QED BY <3>2, <3>3
    <2> QED BY <2>1, <2>2
  <1>3. CASE x = top_rated[i]
    <2>1. HeldAfter(q, v, x) # {}
      BY <1>3 DEF HeldAfter, Held
    <2>2. NewRef(q, v, x) # 0
      BY <2>1, RefsCount
    <2> HIDE DEF u
    <2>3. Lost(x, u) # {}
      BY <1>2, <1>3
    <2>4. NewRef(q, u, x) = 0 <=> NewRef(q, v, x) = 1
      BY <1>2, <1>3
    <2>5. NewMini(q, t, u, x) = IF NewRef(q, v, x) = 1 THEN NoTrace ELSE NewMini(q, t, v, x)
      BY <1>1, <2>2, <2>3, <2>4
    <2> QED BY <1>3, <2>5 DEF u
  <1>4. CASE x # top_rated[i]
    <2> HIDE DEF u
    <2>1. NewMini(q, t, u, x) = NewMini(q, t, v, x)
      BY <1>1, <1>2, <1>4
    <2> QED BY <2>1, <1>4 DEF u
  <1> QED BY <1>3, <1>4

\* The one of q itself: it may be dropped on the way, and is taken again.
LEMMA MiniStepOwn ==
  ASSUME ScoreTypeOK, RefCountExact, TraceKeptWhileNeeded,
         NEW q \in Entries, NEW t \in Traces, NEW v \in SUBSET Bytes, NEW i \in Bytes,
         \A j \in v : j < i
  PROVE  NewMini(q, t, v \cup {i}, q) =
           LET m == IF q = top_rated[i] /\ NewRef(q, v, q) = 1 THEN NoTrace ELSE NewMini(q, t, v, q)
           IN IF m = NoTrace THEN t ELSE m
  <1> DEFINE u == v \cup {i}
             r == top_rated[i]
  <1>0. t # NoTrace /\ Bytes \subseteq Nat /\ i \in Nat /\ v \subseteq Nat /\ i \notin v
    <2>1. Bytes \subseteq Nat
      BY DEF Bytes
    <2> QED BY <2>1 DEF Traces, NoTrace
  <1>1. /\ NewMini(q, t, u, q) = IF trace_mini[q] = NoTrace \/ DropsOwnTrace(q, u) THEN t ELSE trace_mini[q]
        /\ NewMini(q, t, v, q) = IF v # {} /\ (trace_mini[q] = NoTrace \/ DropsOwnTrace(q, v)) THEN t ELSE trace_mini[q]
    BY DEF NewMini
  <1>2. /\ Lost(q, u) = IF r = q THEN Lost(q, v) \cup {i} ELSE Lost(q, v)
        /\ Lost(q, v) \subseteq v
    BY <1>0 DEF Lost
  <1>3. CASE q # r
    <2>1. DropsOwnTrace(q, u) <=> DropsOwnTrace(q, v)
      <3>1. \A k \in v : (\A j \in u : k <= j) <=> (\A j \in v : k <= j)
        BY <1>0
      <3> QED BY <1>2, <1>3, <3>1 DEF DropsOwnTrace
    <2>2. DropsOwnTrace(q, v) => v # {}
      BY <1>2 DEF DropsOwnTrace
    <2> HIDE DEF u
    <2>3. NewMini(q, t, u, q) = IF NewMini(q, t, v, q) = NoTrace THEN t ELSE NewMini(q, t, v, q)
      BY <1>0, <1>1, <2>1, <2>2
    <2> QED BY <2>3, <1>3 DEF u
  <1>4. CASE q = r
    <2>1. trace_mini[q] # NoTrace
      BY <1>4, TraceIffHeld
    <2>2. NewRef(q, v, q) = 1 <=> v = {} /\ tc_ref[q] = 1
      <3> DEFINE held == {k \in Bytes : top_rated[k] = q}
      <3>1. NewRef(q, v, q) = Cardinality(held \cup v) /\ tc_ref[q] = Cardinality(held)
        BY RefsCount DEF RefCountExact, HeldAfter, Held
      <3>2. i \in held /\ held \in SUBSET Bytes
        BY <1>4
      <3> HIDE DEF held
      <3>3. CASE v = {}
        <4>1. held \cup v = held
          BY <3>3
        <4> QED BY <3>1, <4>1, <3>3
      <3>4. CASE v # {}
        <4>1. PICK k \in v : TRUE
          BY <3>4
        <4>2. {i, k} \subseteq held \cup v /\ i # k
          BY <3>2, <4>1, <1>0
        <4>3. Cardinality({i, k}) = 2
          <5>1. IsFiniteSet({i}) /\ Cardinality({i}) = 1
            BY FS_Singleton
          <5>2. Cardinality({i} \cup {k}) = 2
            <6>1. k \notin {i}
              BY <4>2
            <6> DEFINE S == {i}
            <6>2. IsFiniteSet(S) /\ Cardinality(S) = 1 /\ k \notin S
              BY <5>1, <6>1
            <6> HIDE DEF S
            <6>3. Cardinality(S \cup {k}) = Cardinality(S) + 1
              BY <6>2, FS_AddElement, Zenon
            <6>4. Cardinality(S \cup {k}) = 2
              BY <6>2, <6>3
            <6> QED BY <6>4 DEF S
          <5>3. {i, k} = {i} \cup {k}
            OBVIOUS
          <5> QED BY <5>2, <5>3
        <4>4. held \cup v \in SUBSET Bytes
          BY <3>2
        <4>5. IsFiniteSet(held \cup v) /\ Cardinality(held \cup v) \in Nat
          BY <4>4, FiniteBytes
        <4>6. Cardinality({i, k}) <= Cardinality(held \cup v)
          BY <4>2, <4>5, FS_Subset
        <4> QED BY <3>1, <3>4, <4>3, <4>5, <4>6
      <3> QED BY <3>3, <3>4
    <2>3. v = {} => (DropsOwnTrace(q, u) <=> tc_ref[q] = 1)
      BY <1>2, <1>4, <1>0 DEF DropsOwnTrace
    <2>4. v # {} => (DropsOwnTrace(q, u) <=> DropsOwnTrace(q, v))
      <3>1. \A k \in v : (\A j \in u : k <= j) <=> (\A j \in v : k <= j)
        BY <1>0
      <3>2. v # {} => ~ \A j \in u : i <= j
        <4>1. \A j \in v : j \in u /\ j \in Nat /\ ~(i <= j)
          BY <1>0
        <4> QED BY <4>1
      <3> QED BY <1>2, <1>4, <3>1, <3>2 DEF DropsOwnTrace
    <2> HIDE DEF u
    <2>5. NewMini(q, t, u, q) =
            LET m == IF NewRef(q, v, q) = 1 THEN NoTrace ELSE NewMini(q, t, v, q)
            IN IF m = NoTrace THEN t ELSE m
      <3>1. CASE v = {}
        BY <1>0, <1>1, <2>1, <2>2, <2>3, <3>1
      <3>2. CASE v # {}
        BY <1>0, <1>1, <2>1, <2>2, <2>4, <3>2
      <3> QED BY <3>1, <3>2
    <2> QED BY <2>5, <1>4 DEF u
  <1> QED BY <1>3, <1>4

\* A slot that is not won is left.
LEMMA SlotLeft ==
  ASSUME ScoreTypeOK, cost \in [Entries -> Nat], Costs \subseteq Nat,
         NEW q \in Entries, NEW t \in Traces, NEW c \in Costs, NEW i \in Bytes \ Wins(q, t, c), NEW v \in SUBSET Wins(q, t, c)
  PROVE  Iteration(q, t, c, After(q, t, v), i) = After(q, t, v)
  <1>1. After(q, t, v).top[i] = top_rated[i]
    BY DEF After
  <1>2. top_rated[i] \in Entries \cup {NoEntry} /\ c \in Nat
    BY DEF ScoreTypeOK
  <1>3. i \notin t \/ (top_rated[i] # NoEntry /\ c > (IF top_rated[i] = q THEN c ELSE cost[top_rated[i]]))
    BY <1>2 DEF Wins
  <1> HIDE DEF After
  <1> QED BY <1>1, <1>3 DEF Iteration

\* A slot that is won goes to q, with its reference.
LEMMA SlotWon ==
  ASSUME ScoreTypeOK, RefCountExact, TraceKeptWhileNeeded, cost \in [Entries -> Nat], Costs \subseteq Nat,
         NEW q \in Entries, NEW t \in Traces, NEW c \in Costs, NEW i \in Wins(q, t, c),
         NEW v \in SUBSET Wins(q, t, c), \A j \in v : j < i
  PROVE  Iteration(q, t, c, After(q, t, v), i) = After(q, t, v \cup {i})
  <1> DEFINE s == After(q, t, v)
             r == top_rated[i]
             ref1 == IF r = NoEntry THEN s.ref ELSE [s.ref EXCEPT ![r] = @ - 1]
             mini1 == IF r # NoEntry /\ ref1[r] = 0 THEN [s.mini EXCEPT ![r] = NoTrace] ELSE s.mini
             mini2 == IF mini1[q] = NoTrace THEN [mini1 EXCEPT ![q] = t] ELSE mini1
  <1>0. i \in Bytes /\ v \in SUBSET Bytes /\ i \notin v /\ t \in SUBSET Bytes /\ Bytes \subseteq Nat
    <2>1. Bytes \subseteq Nat
      BY DEF Bytes
    <2> QED BY <2>1 DEF Wins, Traces
  <1>1. r \in Entries \cup {NoEntry} /\ NoEntry \notin Entries /\ c \in Nat
    BY <1>0, NoEntryAssumption DEF ScoreTypeOK
  <1>2. ~(i \notin t \/ (r # NoEntry /\ c > (IF r = q THEN c ELSE cost[r])))
    BY <1>1 DEF Wins
  <1>3. s.top[i] = r
    BY <1>0 DEF After
  <1>4. Iteration(q, t, c, s, i) = [top |-> [s.top EXCEPT ![i] = q], ref |-> [ref1 EXCEPT ![q] = @ + 1], mini |-> mini2]
    <2> HIDE DEF s
    <2> QED BY <1>2, <1>3 DEF Iteration
  <1>5. [s.top EXCEPT ![i] = q] = [k \in Bytes |-> IF k \in v \cup {i} THEN q ELSE top_rated[k]]
    BY <1>0 DEF After
  <1>6. \A x \in Entries :
          /\ NewRef(q, v, x) \in Nat
          /\ NewRef(q, v \cup {i}, x) = NewRef(q, v, x) - (IF r = x THEN 1 ELSE 0) + IF x = q THEN 1 ELSE 0
    <2> TAKE x \in Entries
    <2>1. NewRef(q, v, x) \in Nat
      BY <1>0, RefsCount
    <2>2. NewRef(q, v \cup {i}, x) = NewRef(q, v, x) - (IF r = x THEN 1 ELSE 0) + IF x = q THEN 1 ELSE 0
      <3> DEFINE u == v \cup {i}
      <3>1. u = v \cup {i}
        OBVIOUS
      <3> HIDE DEF u
      <3>2. NewRef(q, u, x) = NewRef(q, v, x) - (IF r = x THEN 1 ELSE 0) + IF x = q THEN 1 ELSE 0
        BY <1>0, <2>1, <3>1, RefsStep
      <3> QED BY <3>1, <3>2
    <2> QED BY <2>1, <2>2
  <1>7. s.ref = [x \in Entries |-> NewRef(q, v, x)] /\ s.mini = [x \in Entries |-> NewMini(q, t, v, x)]
    BY DEF After
  <1>8. \A x \in Entries : NewMini(q, t, v, x) \in SUBSET Bytes
    BY <1>0 DEF NewMini, ScoreTypeOK, NoTrace
  <1> HIDE DEF s
  <1>9. ref1 = [x \in Entries |-> NewRef(q, v, x) - IF r = x THEN 1 ELSE 0]
    BY <1>1, <1>6, <1>7
  <1>10. mini1 = [x \in Entries |-> IF x = r /\ NewRef(q, v, x) = 1 THEN NoTrace ELSE NewMini(q, t, v, x)]
    <2> HIDE DEF ref1
    <2> QED BY <1>1, <1>6, <1>7, <1>9
  <1> HIDE DEF ref1, mini1, r
  <1>11. [ref1 EXCEPT ![q] = @ + 1] = [x \in Entries |-> NewRef(q, v \cup {i}, x)]
    <2>1. [ref1 EXCEPT ![q] = @ + 1] = [x \in Entries |-> ref1[x] + IF x = q THEN 1 ELSE 0]
      BY <1>6, <1>9
    <2> QED BY <1>6, <1>9, <2>1
  <1>12. \A x \in Entries : NewMini(q, t, v \cup {i}, x) = IF x = q /\ mini1[x] = NoTrace THEN t ELSE mini1[x]
    <2> TAKE x \in Entries
    <2>1. mini1[x] = IF x = r /\ NewRef(q, v, x) = 1 THEN NoTrace ELSE NewMini(q, t, v, x)
      BY <1>10
    <2>2. CASE x # q
      BY <1>0, <2>1, <2>2, MiniStepOther DEF r
    <2>3. CASE x = q
      BY <1>0, <2>1, <2>3, MiniStepOwn DEF r
    <2> QED BY <2>2, <2>3
  <1>13. mini2 = [x \in Entries |-> NewMini(q, t, v \cup {i}, x)]
    BY <1>10, <1>12
  <1> HIDE DEF mini2
  <1> QED BY <1>4, <1>5, <1>11, <1>13 DEF After, s

\* The loop over the map does what UpdateScore says, in every state of the tables.
LEMMA LoopIsClosedForm ==
  ASSUME ScoreTypeOK, RefCountExact, TraceKeptWhileNeeded, cost \in [Entries -> Nat],
         NEW q \in Entries, NEW t \in Traces, NEW c \in Costs
  PROVE  ScoreLoop(q, t, c) = After(q, t, Wins(q, t, c))
  <1> DEFINE w == Wins(q, t, c)
             upto(n) == {j \in w : j < n}
  <1>0. Costs \subseteq Nat /\ MapSize \in Nat /\ w \subseteq Bytes /\ Bytes \subseteq Nat
    <2>1. w \subseteq Bytes
      BY DEF Wins, Traces
    <2> HIDE DEF w
    <2> QED BY <2>1, CostsAssumption, BoundsAssumption DEF Bytes
  <1>1. PICK loop \in [0 .. MapSize -> Tables] :
           /\ ScoreLoop(q, t, c) = loop[MapSize]
           /\ loop[0] = [top |-> top_rated, ref |-> tc_ref, mini |-> trace_mini]
           /\ \A n \in 1 .. MapSize : loop[n] = Iteration(q, t, c, loop[n - 1], n - 1)
    BY ScoreLoopUnfolds
  <1> HIDE DEF w
  <1> DEFINE T == {n \in 0 .. MapSize : loop[n] = After(q, t, upto(n))}
  <1>2. 0 \in T
    <2>1. upto(0) = {}
      <3>1. \A j \in w : ~(j < 0)
        BY <1>0
      <3> QED BY <3>1
    <2>2. \A r \in Entries : Lost(r, {}) = {} /\ NewRef(q, {}, r) = tc_ref[r] /\ NewMini(q, t, {}, r) = trace_mini[r]
      <3>1. \A r : Lost(r, {}) = {}
        BY DEF Lost
      <3>2. \A r \in Entries : NewRef(q, {}, r) = tc_ref[r]
        <4>1. \A r \in Entries : tc_ref[r] \in Nat
          BY DEF ScoreTypeOK
        <4>2. Cardinality({}) = 0
          BY FS_EmptySet
        <4> TAKE r \in Entries
        <4>3. NewRef(q, {}, r) = tc_ref[r] - 0 + IF r = q THEN 0 ELSE 0
          BY <3>1, <4>2 DEF NewRef
        <4> QED BY <4>1, <4>3
      <3> QED BY <3>1, <3>2 DEF NewMini
    <2>3. After(q, t, {}) = loop[0]
      <3>1. [i \in Bytes |-> IF i \in {} THEN q ELSE top_rated[i]] = top_rated
        BY DEF ScoreTypeOK
      <3>2. [r \in Entries |-> NewRef(q, {}, r)] = tc_ref
        BY <2>2 DEF ScoreTypeOK
      <3>3. [r \in Entries |-> NewMini(q, t, {}, r)] = trace_mini
        BY <2>2 DEF ScoreTypeOK
      <3> QED BY <1>1, <3>1, <3>2, <3>3 DEF After
    <2>4. After(q, t, upto(0)) = loop[0]
      BY <2>1, <2>3
    <2> HIDE DEF upto
    <2> QED BY <1>0, <2>4
  <1>3. ASSUME NEW n \in 0 .. MapSize - 1, n \in T PROVE n + 1 \in T
    <2>1. n \in Bytes /\ n + 1 \in 1 .. MapSize /\ n + 1 \in 0 .. MapSize /\ (n + 1) - 1 = n /\ n \in Nat
      BY <1>0 DEF Bytes
    <2>2. loop[n + 1] = Iteration(q, t, c, loop[n], n) /\ loop[n] = After(q, t, upto(n))
      BY <1>1, <1>3, <2>1
    <2>3. upto(n) \in SUBSET w /\ \A j \in upto(n) : j < n
      OBVIOUS
    <2>4. upto(n + 1) = IF n \in w THEN upto(n) \cup {n} ELSE upto(n)
      <3>1. \A j \in w : j < n + 1 <=> j < n \/ j = n
        BY <1>0, <2>1
      <3>2. \A j \in w : j \in upto(n + 1) <=> j \in upto(n) \/ j = n
        BY <3>1
      <3> QED BY <3>2
    <2> HIDE DEF upto
    <2>5. CASE n \in w
      <3>1. Iteration(q, t, c, After(q, t, upto(n)), n) = After(q, t, upto(n) \cup {n})
        BY <1>0, <2>3, <2>5, SlotWon DEF w
      <3> QED BY <2>1, <2>2, <2>4, <2>5, <3>1
    <2>6. CASE n \notin w
      <3>1. Iteration(q, t, c, After(q, t, upto(n)), n) = After(q, t, upto(n))
        BY <1>0, <2>1, <2>3, <2>6, SlotLeft DEF w
      <3> QED BY <2>1, <2>2, <2>4, <2>6, <3>1
    <2> QED BY <2>5, <2>6
  <1>4. MapSize \in T
    <2> HIDE DEF T
    <2>1. \A n \in 0 .. MapSize : n \in T
      BY <1>0, <1>2, <1>3, UpTo
    <2> QED BY <1>0, <2>1
  <1>5. upto(MapSize) = w
    <2>1. \A j \in w : j < MapSize
      BY <1>0 DEF Bytes
    <2> QED BY <2>1
  <1> HIDE DEF upto
  <1>6. ScoreLoop(q, t, c) = After(q, t, upto(MapSize))
    BY <1>1, <1>4
  <1> QED BY <1>5, <1>6 DEF w

\* The two descriptions of update_bitmap_score agree in every reachable state:
\* the loop over the map, byte by byte with its references dropped and taken on
\* the way, and the one pass over the slots won that the actions use.
THEOREM ScoreIsTheLoop == Spec => []ScoreIsLoop
  <1>1. Inv => ScoreIsLoop
    <2> SUFFICES ASSUME Inv, NEW q \in Queued, NEW t \in Traces, NEW c \in Costs
                 PROVE  ScoreLoop(q, t, c) = After(q, t, Wins(q, t, c))
      BY DEF ScoreIsLoop, After
    <2>1. q \in Entries /\ cost \in [Entries -> Nat]
      BY BoundsAssumption DEF Inv, EntryTypeOK, Queued, Entries
    <2> QED BY <2>1, LoopIsClosedForm DEF Inv
  <1>2. Init => Inv
    BY InitInv
  <1>3. Inv /\ [Next]_vars => Inv'
    BY NextInv
  <1> QED BY <1>1, <1>2, <1>3, PTL DEF Spec

-----------------------------------------------------------------------------
(* The sweep of cull_queue(). *)

Sweeps == [left : SUBSET Bytes, grabbed : SUBSET Entries, count : Nat, pending : Nat]

\* The body of the sweep.
Grab(s, i) ==
  LET r == top_rated[i]
  IN IF r = NoEntry \/ i \notin s.left THEN s
     ELSE [left    |-> s.left \ trace_mini[r],
           grabbed |-> s.grabbed \cup {r},
           count   |-> s.count + 1,
           pending |-> s.pending + IF was_fuzzed[r] THEN 0 ELSE 1]

LEMMA GrabTyped ==
  ASSUME ScoreTypeOK, NEW s \in Sweeps, NEW i \in Bytes
  PROVE  Grab(s, i) \in Sweeps
  <1>1. CASE top_rated[i] = NoEntry \/ i \notin s.left
    BY <1>1 DEF Grab
  <1>2. CASE ~(top_rated[i] = NoEntry \/ i \notin s.left)
    <2>1. Grab(s, i) = [left    |-> s.left \ trace_mini[top_rated[i]],
                        grabbed |-> s.grabbed \cup {top_rated[i]},
                        count   |-> s.count + 1,
                        pending |-> s.pending + IF was_fuzzed[top_rated[i]] THEN 0 ELSE 1]
      BY <1>2 DEF Grab
    <2>2. top_rated[i] \in Entries
      BY <1>2 DEF ScoreTypeOK
    <2>3. /\ s.left \ trace_mini[top_rated[i]] \in SUBSET Bytes
          /\ s.grabbed \cup {top_rated[i]} \in SUBSET Entries
          /\ s.count + 1 \in Nat
          /\ s.pending + (IF was_fuzzed[top_rated[i]] THEN 0 ELSE 1) \in Nat
      BY <2>2 DEF Sweeps
    <2> QED BY <2>1, <2>3 DEF Sweeps
  <1> QED BY <1>1, <1>2

\* Sweep is MapSize steps from an empty choice.
LEMMA SweepUnfolds ==
  ASSUME ScoreTypeOK
  PROVE  \E sweep \in [0 .. MapSize -> Sweeps] :
           /\ Sweep = sweep[MapSize]
           /\ sweep[0] = [left |-> Bytes, grabbed |-> {}, count |-> 0, pending |-> 0]
           /\ \A n \in 1 .. MapSize : sweep[n] = Grab(sweep[n - 1], n - 1)
  <1> DEFINE start == [left |-> Bytes, grabbed |-> {}, count |-> 0, pending |-> 0]
             step == [n \in 1 .. MapSize |-> [s \in Sweeps |-> Grab(s, n - 1)]]
             L == CHOOSE f : f = [n \in 0 .. MapSize |->
                                    IF n = 0 THEN start ELSE Grab(f[n - 1], n - 1)]
  <1>1. MapSize \in Nat /\ \A n \in 1 .. MapSize : n - 1 \in Bytes /\ n - 1 \in 0 .. MapSize
    BY BoundsAssumption DEF Bytes
  <1>2. step \in StepsOf(MapSize, Sweeps)
    BY <1>1, GrabTyped DEF StepsOf
  <1>3. start \in Sweeps
    BY DEF Sweeps
  <1> HIDE DEF start
  <1>4. PICK f : RunsThrough(f, MapSize, Sweeps, start, step)
    <2> HIDE DEF step
    <2> QED BY <1>1, <1>2, <1>3, Recursion
  <1>5. \A n \in 1 .. MapSize : step[n][f[n - 1]] = Grab(f[n - 1], n - 1)
    BY <1>1, <1>4 DEF RunsThrough
  <1>6. f = [n \in 0 .. MapSize |-> IF n = 0 THEN start ELSE Grab(f[n - 1], n - 1)]
    <2> HIDE DEF step
    <2>2. \A n \in 0 .. MapSize : f[n] = IF n = 0 THEN start ELSE Grab(f[n - 1], n - 1)
      BY <1>4, <1>5, <1>1 DEF RunsThrough
    <2> DEFINE g == [n \in 0 .. MapSize |-> IF n = 0 THEN start ELSE Grab(f[n - 1], n - 1)]
    <2>3. \A n \in 0 .. MapSize : f[n] = g[n]
      BY <2>2
    <2>4. g = [n \in 0 .. MapSize |-> g[n]] /\ f = [n \in 0 .. MapSize |-> f[n]]
      BY <1>4 DEF RunsThrough
    <2> HIDE DEF g
    <2>5. f = g
      BY <2>3, <2>4
    <2> QED BY <2>5 DEF g
  <1>7. L = [n \in 0 .. MapSize |-> IF n = 0 THEN start ELSE Grab(L[n - 1], n - 1)]
    BY <1>6
  <1>8. Sweep = L[MapSize]
    BY DEF Sweep, Grab, start
  <1> HIDE DEF L, step
  <1>9. /\ L[0] = start
        /\ \A n \in 1 .. MapSize : L[n] = Grab(L[n - 1], n - 1)
    BY <1>1, <1>7
  <1>10. \A n \in 0 .. MapSize : L[n] \in Sweeps
    <2> DEFINE T == {n \in 0 .. MapSize : L[n] \in Sweeps}
    <2>1. 0 \in T
      BY <1>1, <1>3, <1>9
    <2>2. ASSUME NEW n \in 0 .. MapSize - 1, n \in T PROVE n + 1 \in T
      <3>1. n + 1 \in 1 .. MapSize /\ (n + 1) - 1 = n /\ n \in Bytes
        BY <1>1 DEF Bytes
      <3>2. L[n + 1] = Grab(L[n], n)
        BY <3>1, <1>9
      <3> QED BY <2>2, <3>1, <3>2, GrabTyped
    <2> HIDE DEF T
    <2>3. \A n \in 0 .. MapSize : n \in T
      BY <1>1, <2>1, <2>2, UpTo
    <2> QED BY <2>3 DEF T
  <1>11. L \in [0 .. MapSize -> Sweeps]
    BY <1>7, <1>10
  <1> QED BY <1>8, <1>9, <1>11 DEF start

\* Every slot of r is a byte of its compressed trace.
Fits(r) == Held(r) \subseteq trace_mini[r]

Waiting(S) == {r \in S : ~was_fuzzed[r]}

\* What the sweep knows after the bytes below n.
SweptUpTo(n, s) ==
  /\ \A r \in s.grabbed : Held(r) # {} /\ trace_mini[r] \cap s.left = {}
  /\ \A i \in Bytes \ s.left : \E r \in s.grabbed : i \in trace_mini[r]
  /\ \A i \in Bytes : i < n /\ top_rated[i] # NoEntry => top_rated[i] \in s.grabbed \/ i \notin s.left
  /\ (\A r \in Entries : Fits(r)) => s.count = Cardinality(s.grabbed)
  /\ (\A r \in Entries : ~was_fuzzed[r] => Fits(r)) => s.pending = Cardinality(Waiting(s.grabbed))

LEMMA FiniteEntries == \A S \in SUBSET Entries : IsFiniteSet(S) /\ Cardinality(S) \in Nat
  <1>1. IsFiniteSet(Entries)
    BY FS_Interval, BoundsAssumption DEF Entries
  <1> QED BY <1>1, FS_Subset, FS_CardinalityType

\* One more entry in a set of entries.
LEMMA OneMore ==
  ASSUME NEW S \in SUBSET Entries, NEW r \in Entries, r \notin S
  PROVE  Cardinality(S \cup {r}) = Cardinality(S) + 1
  BY FiniteEntries, FS_AddElement

LEMMA GrabStep ==
  ASSUME ScoreTypeOK, NEW s \in Sweeps, NEW n \in Bytes, SweptUpTo(n, s)
  PROVE  SweptUpTo(n + 1, Grab(s, n))
  <1> DEFINE r == top_rated[n]
  <1>0. /\ \A i \in Bytes : i < n + 1 <=> i < n \/ i = n
        /\ s.left \subseteq Bytes /\ s.grabbed \in SUBSET Entries /\ s.count \in Nat /\ s.pending \in Nat
    BY DEF Bytes, Sweeps
  <1>1. CASE r = NoEntry \/ n \notin s.left
    <2>1. Grab(s, n) = s
      BY <1>1 DEF Grab
    <2>2. \A i \in Bytes : i < n + 1 /\ top_rated[i] # NoEntry => top_rated[i] \in s.grabbed \/ i \notin s.left
      BY <1>0, <1>1 DEF SweptUpTo
    <2> QED BY <2>1, <2>2 DEF SweptUpTo
  <1>2. CASE r # NoEntry /\ n \in s.left
    <2> DEFINE z == Grab(s, n)
    <2>1. /\ z.left = s.left \ trace_mini[r] /\ z.grabbed = s.grabbed \cup {r}
          /\ z.count = s.count + 1 /\ z.pending = s.pending + IF was_fuzzed[r] THEN 0 ELSE 1
      BY <1>2 DEF Grab
    <2>2. r \in Entries /\ n \in Held(r)
      BY <1>2 DEF ScoreTypeOK, Held
    <2> HIDE DEF z, r
    <2>3. Fits(r) => r \notin s.grabbed
      BY <1>2, <2>2 DEF Fits, SweptUpTo
    <2>4. \A x \in z.grabbed : Held(x) # {} /\ trace_mini[x] \cap z.left = {}
      BY <2>1, <2>2 DEF SweptUpTo
    <2>5. \A i \in Bytes \ z.left : \E x \in z.grabbed : i \in trace_mini[x]
      <3> TAKE i \in Bytes \ z.left
      <3>1. i \notin s.left \/ i \in trace_mini[r]
        BY <2>1
      <3> QED BY <2>1, <3>1 DEF SweptUpTo
    <2>6. \A i \in Bytes : i < n + 1 /\ top_rated[i] # NoEntry => top_rated[i] \in z.grabbed \/ i \notin z.left
      <3> TAKE i \in Bytes
      <3>1. CASE i = n
        BY <2>1, <3>1 DEF r
      <3>2. CASE i # n
        <4>1. i < n /\ top_rated[i] # NoEntry => top_rated[i] \in s.grabbed \/ i \notin s.left
          BY DEF SweptUpTo
        <4> QED BY <1>0, <2>1, <3>2, <4>1
      <3> QED BY <3>1, <3>2
    <2>7. ASSUME \A x \in Entries : Fits(x) PROVE z.count = Cardinality(z.grabbed)
      <3>1. s.count = Cardinality(s.grabbed) /\ r \notin s.grabbed
        BY <2>2, <2>3, <2>7 DEF SweptUpTo
      <3> QED BY <1>0, <2>1, <2>2, <3>1, OneMore
    <2>8. ASSUME \A x \in Entries : ~was_fuzzed[x] => Fits(x) PROVE z.pending = Cardinality(Waiting(z.grabbed))
      <3>1. s.pending = Cardinality(Waiting(s.grabbed))
        BY <2>8 DEF SweptUpTo
      <3>2. CASE was_fuzzed[r]
        <4>1. Waiting(z.grabbed) = Waiting(s.grabbed)
          BY <2>1, <3>2 DEF Waiting
        <4> QED BY <1>0, <2>1, <3>1, <3>2, <4>1
      <3>3. CASE ~was_fuzzed[r]
        <4>1. Waiting(z.grabbed) = Waiting(s.grabbed) \cup {r}
          BY <2>1, <3>3 DEF Waiting
        <4>2. r \notin Waiting(s.grabbed) /\ Waiting(s.grabbed) \in SUBSET Entries
          BY <1>0, <2>2, <2>3, <2>8, <3>3 DEF Waiting
        <4>3. Cardinality(Waiting(z.grabbed)) = Cardinality(Waiting(s.grabbed)) + 1
          BY <2>2, <4>1, <4>2, OneMore
        <4> QED BY <2>1, <3>1, <3>3, <4>3
      <3> QED BY <3>2, <3>3
    <2> QED BY <2>4, <2>5, <2>6, <2>7, <2>8 DEF SweptUpTo, z
  <1> QED BY <1>1, <1>2

LEMMA SweepSwept ==
  ASSUME ScoreTypeOK
  PROVE  Sweep \in Sweeps /\ SweptUpTo(MapSize, Sweep)
  <1>0. MapSize \in Nat
    BY BoundsAssumption
  <1>1. PICK sweep \in [0 .. MapSize -> Sweeps] :
           /\ Sweep = sweep[MapSize]
           /\ sweep[0] = [left |-> Bytes, grabbed |-> {}, count |-> 0, pending |-> 0]
           /\ \A n \in 1 .. MapSize : sweep[n] = Grab(sweep[n - 1], n - 1)
    BY SweepUnfolds
  <1> DEFINE T == {n \in 0 .. MapSize : SweptUpTo(n, sweep[n])}
  <1>2. 0 \in T
    <2>1. SweptUpTo(0, [left |-> Bytes, grabbed |-> {}, count |-> 0, pending |-> 0])
      <3>1. Waiting({}) = {} /\ Cardinality({}) = 0
        BY FS_EmptySet DEF Waiting
      <3>2. \A i \in Bytes : ~(i < 0)
        BY DEF Bytes
      <3> QED BY <3>1, <3>2 DEF SweptUpTo
    <2>2. SweptUpTo(0, sweep[0])
      BY <1>1, <2>1
    <2> QED BY <1>0, <2>2
  <1>3. ASSUME NEW n \in 0 .. MapSize - 1, n \in T PROVE n + 1 \in T
    <2>1. n \in Bytes /\ n + 1 \in 1 .. MapSize /\ n + 1 \in 0 .. MapSize /\ n \in 0 .. MapSize /\ (n + 1) - 1 = n
      BY <1>0 DEF Bytes
    <2>2. sweep[n + 1] = Grab(sweep[n], n) /\ sweep[n] \in Sweeps
      BY <1>1, <2>1
    <2>3. SweptUpTo(n + 1, Grab(sweep[n], n))
      BY <1>3, <2>1, <2>2, GrabStep
    <2> QED BY <2>1, <2>2, <2>3
  <1>4. MapSize \in T
    <2> HIDE DEF T
    <2>1. \A n \in 0 .. MapSize : n \in T
      BY <1>0, <1>2, <1>3, UpTo
    <2> QED BY <1>0, <2>1
  <1> QED BY <1>0, <1>1, <1>4

-----------------------------------------------------------------------------
(* What a step does to the entries, to their scores and to the favored set. *)

EntryBounds ==
  /\ cost \in [Entries -> Costs \cup {0}]
  /\ cal_failed \in [Entries -> 0 .. CalChances]
  /\ trim_done \in [Entries -> BOOLEAN]
  /\ virgin_bits \subseteq Bytes
  /\ queue_cur \in Queued \cup {queued_paths + 1, NoEntry}
  /\ pc \in {"dryrun", "cull", "pick", "calibrate", "trim", "fuzz", "abandon", "sync",
             "fatal", "stopped"}
  /\ pc = "dryrun" => queue_cur \in 1 .. queued_paths + 1

ScoreBounds == top_rated \in [Bytes -> Queued \cup {NoEntry}] /\ score_changed \in BOOLEAN

CullBounds ==
  favored \in [Entries -> BOOLEAN] /\ fs_redundant \in [Entries -> BOOLEAN] /\ queued_favored \in Nat

\* An entry that was reached, and is not waiting for another calibration, has
\* a score; only such entries were fuzzed, are favored, or hold a slot.
ServingOK ==
  /\ pc \notin {"fatal", "stopped"} =>
       \A q \in Entries \ Unreached : cal_failed[q] = 0 => cost[q] # 0
  /\ pc = "fuzz" => cal_failed[queue_cur] = 0
  /\ \A q \in Entries : was_fuzzed[q] \/ favored[q] => Scored(q)

\* A step on which q is scored with trace t: for the first time, or again when
\* it was trimmed.
Scores(q, t) ==
  /\ \E c \in Costs : UpdateScore(q, t, c)
  /\ q \in Queued' /\ Scored(q)'
  /\ UNCHANGED <<culling, was_fuzzed>>
  /\ ~Scored(q) \/ (pc = "trim" /\ pc' = "fuzz" /\ UNCHANGED queue_cur /\ q = queue_cur)
  /\ pc \in {"fuzz", "abandon"} => UNCHANGED <<pc, queue_cur>>
  /\ ~Variable => t = exec_cksum'[q]
  /\ \A r \in Entries \ {q} : r \in Queued' /\ Scored(r)' => r \in Queued /\ Scored(r)

\* A step that scores nothing and leaves the favored set alone.
LeavesScores ==
  /\ UNCHANGED <<scoring, favored, fs_redundant, queued_favored>>
  /\ \A r \in Entries : r \in Queued' /\ Scored(r)' => r \in Queued /\ Scored(r)

\* Entries stay queued; scored ones keep their score and the trace they are known by.
KeepsScored ==
  /\ Queued \subseteq Queued' /\ Queued' \subseteq Entries
  /\ \A q \in Entries : Scored(q) => Scored(q)' /\ exec_cksum'[q] = exec_cksum[q]

EntriesInv == Inv /\ EntryBounds /\ ServingOK

\* Scoring an entry that had no score.
LEMMA FirstScore ==
  ASSUME EntriesInv, NEW q \in Entries, ~Scored(q), NEW first, NEW last, NEW c \in Costs,
         Calibrates(q, first, last, c)
  PROVE  /\ Scored(q)'
         /\ exec_cksum'[q] = first
         /\ \A r \in Entries : Scored(r) => Scored(r)' /\ exec_cksum'[r] = exec_cksum[r]
        /\ \A r \in Entries \ {q} : Scored(r)' => Scored(r)
  <1>1. /\ exec_cksum' = [exec_cksum EXCEPT ![q] = first]
        /\ cost' = [cost EXCEPT ![q] = c]
        /\ cal_failed' = [cal_failed EXCEPT ![q] = 0]
    BY DEF Calibrates
  <1>2. c > 0 /\ c \in Nat
    BY CostsAssumption
  <1> QED BY <1>1, <1>2 DEF EntriesInv, Inv, EntryTypeOK, Scored

LEMMA DryRunCalibratesScores ==
  ASSUME EntriesInv, DryRunCalibrates
  PROVE  KeepsScored /\ \E q \in Entries, t \in Traces : Scores(q, t)
  <1>1. /\ queue_cur \in Entries /\ queue_cur \in Queued /\ queue_cur \in Unreached
        /\ queued_paths' = queued_paths /\ Queued \subseteq Entries /\ pc' = pc /\ pc = "dryrun"
        /\ UNCHANGED <<culling, was_fuzzed>>
    BY BoundsAssumption DEF DryRunCalibrates, EntriesInv, Inv, CurOK, EntryTypeOK, Entries, Queued, Unreached
  <1>2. PICK z \in Entries : z = queue_cur
    BY <1>1
  <1>3. PICK first \in Traces, c \in Costs : \E last \in RunsOf(first) : Calibrates(z, first, last, c)
    BY <1>2 DEF DryRunCalibrates
  <1>4. PICK last \in RunsOf(first) : Calibrates(z, first, last, c)
    BY <1>3
  <1>5. last \in Traces /\ (~Variable => last = first)
    BY DEF RunsOf
  <1>6. ~Scored(z)
    BY <1>1, <1>2 DEF EntriesInv, Inv, ReachedOK, Scored
  <1>7. /\ Scored(z)' /\ exec_cksum'[z] = first
        /\ \A r \in Entries : Scored(r) => Scored(r)' /\ exec_cksum'[r] = exec_cksum[r]
        /\ \A r \in Entries \ {z} : Scored(r)' => Scored(r)
    BY <1>4, <1>6, FirstScore
  <1>8. Queued' = Queued
    BY <1>1 DEF Queued
  <1>9. Scores(z, last)
    BY <1>1, <1>2, <1>4, <1>5, <1>6, <1>7, <1>8 DEF Scores, Calibrates
  <1> QED BY <1>1, <1>5, <1>7, <1>8, <1>9 DEF KeepsScored

LEMMA RecalibratesScores ==
  ASSUME EntriesInv, Recalibrates
  PROVE  KeepsScored /\ \E q \in Entries, t \in Traces : Scores(q, t)
  <1>1. /\ queue_cur \in Entries /\ queue_cur \in Queued /\ exec_cksum[queue_cur] \in Traces
        /\ cal_failed[queue_cur] > 0
        /\ queued_paths' = queued_paths /\ Queued \subseteq Entries /\ pc = "calibrate" /\ pc' = "trim"
        /\ UNCHANGED <<culling, was_fuzzed>>
    BY BoundsAssumption DEF Recalibrates, EntriesInv, Inv, CurOK, EntryTypeOK, Entries, Queued, Unreached, ReachedOK
  <1>2. PICK z \in Entries : z = queue_cur
    BY <1>1
  <1>3. PICK last \in RunsOf(exec_cksum[z]), c \in Costs : Calibrates(z, exec_cksum[z], last, c)
    BY <1>2 DEF Recalibrates
  <1>4. last \in Traces /\ (~Variable => last = exec_cksum[z])
    BY <1>1, <1>2 DEF RunsOf
  <1>5. ~Scored(z)
    BY <1>1, <1>2 DEF Scored
  <1>6. PICK first : first = exec_cksum[z]
    OBVIOUS
  <1>7. /\ Scored(z)' /\ exec_cksum'[z] = first
        /\ \A r \in Entries : Scored(r) => Scored(r)' /\ exec_cksum'[r] = exec_cksum[r]
        /\ \A r \in Entries \ {z} : Scored(r)' => Scored(r)
    BY <1>3, <1>5, <1>6, FirstScore
  <1>8. Queued' = Queued
    BY <1>1 DEF Queued
  <1>9. Scores(z, last)
    BY <1>1, <1>2, <1>3, <1>4, <1>5, <1>6, <1>7, <1>8 DEF Scores, Calibrates
  <1> QED BY <1>1, <1>4, <1>7, <1>8, <1>9 DEF KeepsScored

LEMMA FindCalibratesScores ==
  ASSUME EntriesInv, FindCalibrates
  PROVE  KeepsScored /\ \E q \in Entries, t \in Traces : Scores(q, t)
  <1>1. /\ queued_paths + 1 \in Entries /\ queued_paths + 1 \in Unreached
        /\ queued_paths' = queued_paths + 1 /\ pc \in {"fuzz", "sync"} /\ pc' = pc
        /\ UNCHANGED <<culling, was_fuzzed, queue_cur>>
    BY BoundsAssumption DEF FindCalibrates, Finds, EntriesInv, Inv, EntryTypeOK, Entries, Unreached
  <1>2. PICK z \in Entries : z = queued_paths + 1
    BY <1>1
  <1>3. PICK t \in Traces, c \in Costs : \E last \in RunsOf(t) : Calibrates(z, t, last, c)
    BY <1>2 DEF FindCalibrates
  <1>4. PICK last \in RunsOf(t) : Calibrates(z, t, last, c)
    BY <1>3
  <1>5. last \in Traces /\ (~Variable => last = t)
    BY DEF RunsOf
  <1>6. ~Scored(z)
    BY <1>1, <1>2 DEF EntriesInv, Inv, ReachedOK, Scored
  <1>7. /\ Scored(z)' /\ exec_cksum'[z] = t
        /\ \A r \in Entries : Scored(r) => Scored(r)' /\ exec_cksum'[r] = exec_cksum[r]
        /\ \A r \in Entries \ {z} : Scored(r)' => Scored(r)
    BY <1>4, <1>6, FirstScore
  <1>8. z \in Queued' /\ Queued \subseteq Queued' /\ Queued' \subseteq Entries /\ Queued' \subseteq Queued \cup {z}
    BY <1>1, <1>2, BoundsAssumption DEF Queued, EntriesInv, Inv, EntryTypeOK, Entries
  <1>9. Scores(z, last)
    BY <1>1, <1>4, <1>5, <1>6, <1>7, <1>8 DEF Scores, Calibrates
  <1> QED BY <1>5, <1>7, <1>8, <1>9 DEF KeepsScored

LEMMA TrimShortensScores ==
  ASSUME EntriesInv, TrimShortens
  PROVE  KeepsScored /\ \E q \in Entries, t \in Traces : Scores(q, t)
  <1>1. /\ queue_cur \in Entries /\ queue_cur \in Queued /\ exec_cksum[queue_cur] \in Traces
        /\ cal_failed[queue_cur] = 0
        /\ queued_paths' = queued_paths /\ Queued \subseteq Entries /\ pc = "trim" /\ pc' = "fuzz"
        /\ UNCHANGED <<culling, was_fuzzed, cal_failed, exec_cksum, queue_cur>>
    BY BoundsAssumption DEF TrimShortens, entries, EntriesInv, Inv, CurOK, EntryTypeOK, Entries, Queued, Unreached, ReachedOK
  <1>2. PICK z \in Entries : z = queue_cur
    BY <1>1
  <1>3. PICK c \in Costs : UpdateScore(z, exec_cksum[z], c) /\ cost' = [cost EXCEPT ![z] = c]
    BY <1>2 DEF TrimShortens
  <1>4. c > 0 /\ c \in Nat
    BY CostsAssumption
  <1>5. /\ Scored(z)' /\ \A r \in Entries : Scored(r) => Scored(r)' /\ exec_cksum'[r] = exec_cksum[r]
        /\ \A r \in Entries \ {z} : Scored(r)' => Scored(r)
    BY <1>1, <1>2, <1>3, <1>4 DEF EntriesInv, Inv, EntryTypeOK, Scored
  <1>6. Queued' = Queued
    BY <1>1 DEF Queued
  <1>7. PICK t \in Traces : t = exec_cksum[z]
    BY <1>1, <1>2
  <1>8. Scores(z, t)
    BY <1>1, <1>2, <1>3, <1>5, <1>6, <1>7 DEF Scores
  <1> QED BY <1>1, <1>5, <1>6, <1>8 DEF KeepsScored

\* Failed calibrations are those of entries without a score.
LEMMA FailsKeep ==
  ASSUME EntriesInv, DryRunSkips \/ RecalibrationFails \/ FindFails
  PROVE  KeepsScored /\ LeavesScores
  <1>1. CASE DryRunSkips
    <2>1. /\ queue_cur \in Entries /\ queue_cur \in Unreached /\ queued_paths' = queued_paths
      BY <1>1, BoundsAssumption DEF DryRunSkips, EntriesInv, Inv, CurOK, EntryTypeOK, Entries, Queued, Unreached
    <2>2. ~Scored(queue_cur)
      BY <2>1 DEF EntriesInv, Inv, ReachedOK, Scored
    <2>3. /\ UNCHANGED <<cost, scoring, favored, fs_redundant, queued_favored>>
          /\ \A r \in Entries : r # queue_cur => cal_failed'[r] = cal_failed[r] /\ exec_cksum'[r] = exec_cksum[r]
      BY <1>1 DEF DryRunSkips, CalibrationFails, culling, EntriesInv, Inv, EntryTypeOK
    <2>4. Queued \subseteq Queued' /\ Queued' \subseteq Entries
      BY <2>1, BoundsAssumption DEF Queued, EntriesInv, Inv, EntryTypeOK, Entries
    <2>5. Queued' \subseteq Queued \cup {queue_cur} /\ cal_failed'[queue_cur] # 0
      BY <1>1, <2>1, BoundsAssumption DEF DryRunSkips, CalibrationFails, Queued, EntriesInv, Inv, EntryTypeOK, Entries
    <2> QED BY <2>1, <2>2, <2>3, <2>4, <2>5 DEF KeepsScored, LeavesScores, Scored
  <1>2. CASE RecalibrationFails
    <2>1. queue_cur \in Entries /\ cal_failed[queue_cur] > 0 /\ queued_paths' = queued_paths
      BY <1>2, BoundsAssumption DEF RecalibrationFails, EntriesInv, Inv, CurOK, EntryTypeOK, Entries, Queued
    <2>2. ~Scored(queue_cur)
      BY <2>1 DEF Scored
    <2>3. /\ UNCHANGED <<cost, scoring, favored, fs_redundant, queued_favored>>
          /\ \A r \in Entries : r # queue_cur => cal_failed'[r] = cal_failed[r] /\ exec_cksum'[r] = exec_cksum[r]
      BY <1>2 DEF RecalibrationFails, CalibrationFails, culling, EntriesInv, Inv, EntryTypeOK
    <2>4. Queued \subseteq Queued' /\ Queued' \subseteq Entries
      BY <2>1, BoundsAssumption DEF Queued, EntriesInv, Inv, EntryTypeOK, Entries
    <2>5. Queued' \subseteq Queued \cup {queue_cur} /\ cal_failed'[queue_cur] # 0
      BY <1>2, <2>1, BoundsAssumption DEF RecalibrationFails, CalibrationFails, Queued, EntriesInv, Inv, EntryTypeOK, Entries
    <2> QED BY <2>1, <2>2, <2>3, <2>4, <2>5 DEF KeepsScored, LeavesScores, Scored
  <1>3. CASE FindFails
    <2>1. /\ queued_paths + 1 \in Entries /\ queued_paths + 1 \in Unreached
          /\ queued_paths' = queued_paths + 1 /\ queued_paths \in Nat
      BY <1>3, BoundsAssumption DEF FindFails, Finds, EntriesInv, Inv, EntryTypeOK, Entries, Unreached
    <2>2. ~Scored(queued_paths + 1)
      BY <2>1 DEF EntriesInv, Inv, ReachedOK, Scored
    <2>3. /\ UNCHANGED <<cost, scoring, favored, fs_redundant, queued_favored>>
          /\ \A r \in Entries : r # queued_paths + 1 => cal_failed'[r] = cal_failed[r] /\ exec_cksum'[r] = exec_cksum[r]
      BY <1>3 DEF FindFails, culling, EntriesInv, Inv, EntryTypeOK
    <2>4. Queued \subseteq Queued' /\ Queued' \subseteq Entries
      BY <2>1, BoundsAssumption DEF Queued, EntriesInv, Inv, EntryTypeOK, Entries
    <2>5. Queued' \subseteq Queued \cup {queued_paths + 1} /\ cal_failed'[queued_paths + 1] # 0
      BY <1>3, <2>1, BoundsAssumption DEF FindFails, Queued, EntriesInv, Inv, EntryTypeOK, Entries
    <2> QED BY <2>1, <2>2, <2>3, <2>4, <2>5 DEF KeepsScored, LeavesScores, Scored
  <1> QED BY <1>1, <1>2, <1>3

\* The other actions leave the entries as they are, or give one a lower cost.
LEMMA OthersKeep ==
  ASSUME EntriesInv,
         \/ DryRunFatal \/ DryRunDone \/ Skip \/ Take \/ OutOfChances \/ TrimNothing
         \/ FuzzDone \/ Abandon \/ SyncDone \/ StopInTrim \/ Stop
  PROVE  KeepsScored /\ LeavesScores
  <1>0. Queued \subseteq Entries
    BY BoundsAssumption DEF EntriesInv, Inv, EntryTypeOK, Entries, Queued
  <1>1. CASE Abandon
    BY <1>0, <1>1 DEF Abandon, KeepsScored, LeavesScores, scoring, Scored, Queued
  <1>2. CASE StopInTrim
    <2>1. PICK c \in Costs : c < cost[queue_cur] /\ cost' = [cost EXCEPT ![queue_cur] = c]
      BY <1>2 DEF StopInTrim
    <2>2. c > 0 /\ cost[queue_cur] > 0
      <3>1. queue_cur \in Entries
        BY <1>0, <1>2 DEF StopInTrim, EntriesInv, Inv, CurOK
      <3>2. cost[queue_cur] \in Nat /\ c \in Nat \ {0}
        BY <3>1, CostsAssumption DEF EntriesInv, Inv, EntryTypeOK
      <3> QED BY <2>1, <3>2
    <2>3. UNCHANGED <<entries, scoring, culling>>
      BY <1>2 DEF StopInTrim
    <2> QED BY <1>0, <2>1, <2>2, <2>3
        DEF KeepsScored, LeavesScores, Scored, Queued, entries, culling, EntriesInv, Inv, EntryTypeOK
  <1>3. CASE \/ DryRunFatal \/ DryRunDone \/ Skip \/ Take \/ OutOfChances \/ TrimNothing
             \/ FuzzDone \/ SyncDone \/ Stop
    <2>1. UNCHANGED <<entries, cost, scoring, culling>>
      BY <1>3 DEF DryRunFatal, DryRunDone, Skip, Take, OutOfChances, TrimNothing, FuzzDone, SyncDone, Stop
    <2> QED BY <1>0, <2>1 DEF KeepsScored, LeavesScores, Scored, Queued, entries, culling
  <1> QED BY <1>1, <1>2, <1>3

LEMMA CullKeeps ==
  ASSUME EntriesInv, CullQueue
  PROVE  /\ KeepsScored /\ UNCHANGED <<tc_ref, trace_mini, top_rated>>
         /\ \A r \in Entries : r \in Queued' /\ Scored(r)' => r \in Queued /\ Scored(r)
  <1>0. Queued \subseteq Entries
    BY BoundsAssumption DEF EntriesInv, Inv, EntryTypeOK, Entries, Queued
  <1> QED BY <1>0 DEF CullQueue, KeepsScored, Scored, Queued, entries

\* Every step keeps what was scored, and scores one entry, culls or leaves the scores.
LEMMA StepKinds ==
  ASSUME EntriesInv, Next
  PROVE  /\ KeepsScored
         /\ (\E q \in Entries, t \in Traces : Scores(q, t)) \/ CullQueue \/ LeavesScores
  BY DryRunCalibratesScores, RecalibratesScores, FindCalibratesScores, TrimShortensScores,
     FailsKeep, OthersKeep, CullKeeps DEF Next

-----------------------------------------------------------------------------
(* The bounds of the entries' fields. *)

LEMMA QueuedEntries ==
  ASSUME EntryTypeOK
  PROVE  Queued \subseteq Entries /\ Entries \subseteq Nat /\ queued_paths \in Nat
  BY BoundsAssumption DEF EntryTypeOK, Queued, Entries

\* Where queue_cur points when nothing is queued and pc is not "dryrun" after.
LEMMA QuietBounds ==
  ASSUME EntriesInv,
         \/ DryRunFatal \/ DryRunDone \/ CullQueue \/ Skip \/ Take \/ OutOfChances
         \/ FuzzDone \/ Abandon \/ SyncDone \/ Stop
  PROVE  EntryBounds'
  <1>1. /\ UNCHANGED <<queued_paths, cost, cal_failed, trim_done, virgin_bits>>
        /\ queue_cur' \in Queued \cup {queue_cur, NoEntry}
        /\ pc' \in {"fatal", "cull", "pick", "calibrate", "trim", "abandon", "sync", "stopped"}
    BY DEF DryRunFatal, DryRunDone, CullQueue, Skip, Take, OutOfChances, FuzzDone, Abandon, SyncDone, Stop, entries
  <1> QED BY <1>1 DEF EntriesInv, EntryBounds, Queued

LEMMA CalibratedBounds ==
  ASSUME EntryBounds, NEW q \in Entries, NEW first, NEW last, NEW c \in Costs, Calibrates(q, first, last, c)
  PROVE  /\ cost' \in [Entries -> Costs \cup {0}]
         /\ cal_failed' \in [Entries -> 0 .. CalChances]
         /\ virgin_bits' \subseteq Bytes
  <1>1. /\ cost' = [cost EXCEPT ![q] = c] /\ cal_failed' = [cal_failed EXCEPT ![q] = 0]
        /\ virgin_bits' \subseteq virgin_bits
    BY DEF Calibrates
  <1>2. 0 \in 0 .. CalChances
    BY BoundsAssumption
  <1> QED BY <1>1, <1>2 DEF EntryBounds

LEMMA EntryBoundsKept ==
  ASSUME EntriesInv, Next
  PROVE  EntryBounds'
  <1>0. /\ Queued \subseteq Entries /\ Entries \subseteq Nat /\ queued_paths \in Nat
        /\ CalChances \in Nat \ {0} /\ MaxEntries \in Nat /\ EntryBounds
    BY QueuedEntries, BoundsAssumption DEF EntriesInv, Inv
  <1>1. CASE DryRunCalibrates
    <2>1. queue_cur \in Entries /\ queue_cur \in Nat /\ queue_cur <= queued_paths
      BY <1>0, <1>1 DEF DryRunCalibrates, EntryBounds, Queued
    <2>2. PICK z \in Entries : z = queue_cur
      BY <2>1
    <2>3. PICK first \in Traces, c \in Costs : \E last \in RunsOf(first) : Calibrates(z, first, last, c)
      BY <1>1, <2>2 DEF DryRunCalibrates
    <2>4. /\ cost' \in [Entries -> Costs \cup {0}] /\ cal_failed' \in [Entries -> 0 .. CalChances]
          /\ virgin_bits' \subseteq Bytes
      BY <1>0, <2>3, CalibratedBounds
    <2> QED BY <1>0, <1>1, <2>1, <2>4 DEF DryRunCalibrates, EntryBounds, Queued
  <1>2. CASE Recalibrates
    <2>1. queue_cur \in Entries /\ queue_cur \in Queued
      BY <1>0, <1>2 DEF Recalibrates, EntriesInv, Inv, CurOK
    <2>2. PICK z \in Entries : z = queue_cur
      BY <2>1
    <2>3. PICK last \in RunsOf(exec_cksum[z]), c \in Costs : Calibrates(z, exec_cksum[z], last, c)
      BY <1>2, <2>2 DEF Recalibrates
    <2>4. /\ cost' \in [Entries -> Costs \cup {0}] /\ cal_failed' \in [Entries -> 0 .. CalChances]
          /\ virgin_bits' \subseteq Bytes
      BY <1>0, <2>3, CalibratedBounds
    <2> QED BY <1>0, <1>2, <2>1, <2>4 DEF Recalibrates, EntryBounds, Queued
  <1>3. CASE FindCalibrates
    <2>1. queued_paths + 1 \in Entries /\ queue_cur \in Queued
      BY <1>0, <1>3 DEF FindCalibrates, Finds, EntriesInv, Inv, CurOK, Entries
    <2>2. PICK z \in Entries : z = queued_paths + 1
      BY <2>1
    <2>3. PICK first \in Traces, c \in Costs : \E last \in RunsOf(first) : Calibrates(z, first, last, c)
      BY <1>3, <2>2 DEF FindCalibrates
    <2>4. /\ cost' \in [Entries -> Costs \cup {0}] /\ cal_failed' \in [Entries -> 0 .. CalChances]
          /\ virgin_bits' \subseteq Bytes
      BY <1>0, <2>3, CalibratedBounds
    <2> QED BY <1>0, <1>3, <2>1, <2>4 DEF FindCalibrates, Finds, EntryBounds, Queued
  <1>4. CASE TrimShortens \/ StopInTrim
    <2>1. queue_cur \in Entries
      BY <1>0, <1>4 DEF TrimShortens, StopInTrim, EntriesInv, Inv, CurOK
    <2>2. /\ UNCHANGED <<queued_paths, cal_failed, virgin_bits, queue_cur>> /\ pc' \in {"fuzz", "stopped"}
          /\ trim_done' \in [Entries -> BOOLEAN] /\ cost' \in [Entries -> Costs \cup {0}]
      BY <1>0, <1>4, <2>1 DEF TrimShortens, StopInTrim, EntryBounds, entries
    <2> QED BY <1>0, <2>2 DEF EntryBounds, Queued
  <1>5. CASE TrimNothing
    <2>1. /\ UNCHANGED <<queued_paths, cost, cal_failed, virgin_bits, queue_cur>> /\ pc' = "fuzz"
          /\ trim_done' \in [Entries -> BOOLEAN]
      BY <1>0, <1>5 DEF TrimNothing, EntryBounds, entries
    <2> QED BY <1>0, <2>1 DEF EntryBounds, Queued
  <1>6. CASE DryRunSkips
    <2>1. queue_cur \in Nat /\ queue_cur <= queued_paths /\ queue_cur \in 1 .. queued_paths + 1
      BY <1>0, <1>6 DEF DryRunSkips, EntryBounds, Queued
    <2>2. /\ cal_failed' = [cal_failed EXCEPT ![queue_cur] = CalChances] /\ virgin_bits' \subseteq virgin_bits
          /\ UNCHANGED <<queued_paths, cost, trim_done, pc>> /\ pc = "dryrun" /\ queue_cur' = queue_cur + 1
      BY <1>6 DEF DryRunSkips, CalibrationFails
    <2>3. cal_failed' \in [Entries -> 0 .. CalChances] /\ virgin_bits' \subseteq Bytes
      <3>1. 1 \in 0 .. CalChances /\ CalChances \in 0 .. CalChances
        BY <1>0
      <3>2. cal_failed \in [Entries -> 0 .. CalChances] /\ virgin_bits \subseteq Bytes
        BY <1>0 DEF EntryBounds
      <3> QED BY <2>2, <3>1, <3>2
    <2> QED BY <1>0, <2>1, <2>2, <2>3 DEF EntryBounds, Queued
  <1>7. CASE RecalibrationFails
    <2>1. queue_cur \in Entries
      BY <1>0, <1>7 DEF RecalibrationFails, EntriesInv, Inv, CurOK
    <2>2. cal_failed[queue_cur] + 1 \in 0 .. CalChances
      BY <1>0, <1>7, <2>1 DEF RecalibrationFails, EntryBounds
    <2>3. /\ cal_failed' \in [Entries -> 0 .. CalChances] /\ virgin_bits' \subseteq Bytes
          /\ UNCHANGED <<queued_paths, cost, trim_done, queue_cur>> /\ pc' = "abandon"
      BY <1>0, <1>7, <2>2 DEF RecalibrationFails, CalibrationFails, EntryBounds
    <2> QED BY <1>0, <2>3 DEF EntryBounds, Queued
  <1>8. CASE FindFails
    <2>1. queue_cur \in Queued
      BY <1>8 DEF FindFails, EntriesInv, Inv, CurOK
    <2>2. /\ cal_failed' = [cal_failed EXCEPT ![queued_paths + 1] = 1] /\ virgin_bits' \subseteq virgin_bits
          /\ UNCHANGED <<cost, trim_done, queue_cur, pc>> /\ queued_paths' = queued_paths + 1
          /\ pc \in {"fuzz", "sync"}
      BY <1>8 DEF FindFails, Finds
    <2>3. cal_failed' \in [Entries -> 0 .. CalChances] /\ virgin_bits' \subseteq Bytes
      <3>1. 1 \in 0 .. CalChances /\ CalChances \in 0 .. CalChances
        BY <1>0
      <3>2. cal_failed \in [Entries -> 0 .. CalChances] /\ virgin_bits \subseteq Bytes
        BY <1>0 DEF EntryBounds
      <3> QED BY <2>2, <3>1, <3>2
    <2> QED BY <1>0, <2>1, <2>2, <2>3 DEF EntryBounds, Queued
  <1> QED BY <1>1, <1>2, <1>3, <1>4, <1>5, <1>6, <1>7, <1>8, QuietBounds DEF Next

-----------------------------------------------------------------------------
(* Which entries serve. *)

Reached == Entries \ Unreached

\* Entries come within reach only when they are calibrated, or fail to be.
LEMMA ServingKept ==
  ASSUME EntriesInv, RatedScored, ScoreTypeOK, Next
  PROVE  ServingOK'
  <1>0. /\ Queued \subseteq Entries /\ Entries \subseteq Nat /\ queued_paths \in Nat
        /\ CalChances \in Nat \ {0} /\ MaxEntries \in Nat /\ EntryBounds /\ EntryTypeOK /\ CurOK
    BY QueuedEntries, BoundsAssumption DEF EntriesInv, Inv
  <1>1. KeepsScored
    BY StepKinds
  <1>2. ASSUME NEW q \in Entries, was_fuzzed'[q] \/ favored'[q] PROVE Scored(q)'
    <2>1. CASE was_fuzzed[q] \/ favored[q]
      BY <1>1, <2>1 DEF EntriesInv, ServingOK, KeepsScored
    <2>2. CASE ~(was_fuzzed[q] \/ favored[q])
      <3>1. CASE Abandon
        <4>1. q = queue_cur /\ cal_failed[q] = 0 /\ pc = "abandon"
          BY <1>0, <1>2, <2>2, <3>1 DEF Abandon, EntryTypeOK
        <4>2. q \notin Unreached
          BY <1>0, <4>1 DEF CurOK, Unreached, Queued
        <4>3. cost[q] > 0 /\ cal_failed[q] = 0
          BY <1>0, <4>1, <4>2 DEF EntriesInv, ServingOK, EntryTypeOK
        <4> QED BY <1>1, <4>3 DEF KeepsScored, Scored
      <3>2. CASE CullQueue
        <4>1. was_fuzzed' = was_fuzzed /\ favored'[q]
          BY <1>2, <2>2, <3>2 DEF CullQueue, entries
        <4>2. q \in Sweep.grabbed
          BY <2>2, <3>2, <4>1 DEF CullQueue, culling
        <4>3. Held(q) # {}
          BY <4>2, SweepSwept DEF SweptUpTo
        <4>4. Scored(q)
          BY <4>3, NoEntryAssumption DEF Held, RatedScored
        <4> QED BY <1>1, <4>4 DEF KeepsScored
      <3>3. CASE ~Abandon /\ ~CullQueue
        <4>1. UNCHANGED <<was_fuzzed, favored>>
          BY <3>3 DEF Next, DryRunCalibrates, DryRunSkips, DryRunFatal, DryRunDone, Skip, Take, Recalibrates,
                      RecalibrationFails, OutOfChances, TrimNothing, TrimShortens, FindCalibrates, FindFails,
                      FuzzDone, SyncDone, StopInTrim, Stop, entries, culling
        <4> QED BY <1>2, <2>2, <4>1
      <3> QED BY <3>1, <3>2, <3>3
    <2> QED BY <2>1, <2>2
  <1>3. ASSUME pc' = "fuzz" PROVE cal_failed'[queue_cur'] = 0
    <2>1. CASE TrimNothing \/ TrimShortens
      <3>1. cal_failed[queue_cur] = 0
        BY <1>0, <2>1 DEF CurOK, TrimNothing, TrimShortens
      <3> QED BY <2>1, <3>1 DEF TrimNothing, TrimShortens, entries
    <2>2. CASE FindCalibrates \/ FindFails
      <3>1. pc = "fuzz" /\ queue_cur' = queue_cur
        BY <1>3, <2>2 DEF FindCalibrates, FindFails
      <3>2. cal_failed[queue_cur] = 0 /\ queue_cur \in Queued /\ queue_cur # queued_paths + 1
        BY <1>0, <3>1 DEF EntriesInv, ServingOK, CurOK, Queued
      <3>3. \A q \in Entries : q # queued_paths + 1 => cal_failed'[q] = cal_failed[q]
        BY <1>0, <2>2 DEF FindCalibrates, FindFails, Calibrates, EntryTypeOK
      <3> QED BY <1>0, <3>1, <3>2, <3>3
    <2>3. CASE ~TrimNothing /\ ~TrimShortens /\ ~FindCalibrates /\ ~FindFails
      <3>1. pc' # "fuzz"
        BY <2>3 DEF Next, DryRunCalibrates, DryRunSkips, DryRunFatal, DryRunDone, CullQueue, Skip, Take, Recalibrates,
                    RecalibrationFails, OutOfChances, FuzzDone, Abandon, SyncDone, StopInTrim, Stop
      <3> QED BY <1>3, <3>1
    <2> QED BY <2>1, <2>2, <2>3
  <1>4. ASSUME pc' \notin {"fatal", "stopped"}, NEW q \in Entries, q \notin Unreached', cal_failed'[q] = 0
        PROVE  cost'[q] # 0
    <2>0. pc \notin {"fatal", "stopped"} /\ \A r \in Entries : cost[r] \in Nat
      BY <1>0, <1>4 DEF Next, DryRunCalibrates, DryRunSkips, DryRunFatal, DryRunDone, CullQueue, Skip, Take, Recalibrates,
                  RecalibrationFails, OutOfChances, TrimNothing, TrimShortens, FindCalibrates, FindFails,
                  FuzzDone, Abandon, SyncDone, StopInTrim, Stop, EntryTypeOK
    <2>1. q \notin Unreached /\ cal_failed[q] = 0 => cost'[q] # 0
      <3> HAVE q \notin Unreached /\ cal_failed[q] = 0
      <3>1. Scored(q)
        BY <2>0 DEF EntriesInv, ServingOK, Scored
      <3> QED BY <1>1, <3>1 DEF KeepsScored, Scored
    <2>2. (\E r \in Entries, c \in Costs : \E first, last : Calibrates(r, first, last, c)) => cal_failed[q] = 0 \/ cost'[q] # 0
      <3> SUFFICES ASSUME NEW r \in Entries, NEW first, NEW last, NEW c \in Costs, Calibrates(r, first, last, c),
                          cal_failed[q] # 0
                   PROVE  cost'[q] # 0
        OBVIOUS
      <3>1. cal_failed' = [cal_failed EXCEPT ![r] = 0] /\ cost' = [cost EXCEPT ![r] = c] /\ c # 0
        BY CostsAssumption DEF Calibrates
      <3>2. q = r
        BY <1>0, <1>4, <3>1 DEF EntryTypeOK
      <3> QED BY <1>0, <3>1, <3>2 DEF EntryTypeOK
    <2>3. CASE DryRunCalibrates
      <3>1. queue_cur \in Entries
        BY <1>0, <2>3 DEF DryRunCalibrates, EntryBounds, Queued
      <3>2. PICK z \in Entries : z = queue_cur
        BY <3>1
      <3>3. PICK first \in Traces, c \in Costs : \E last \in RunsOf(first) : Calibrates(z, first, last, c)
        BY <2>3, <3>2 DEF DryRunCalibrates
      <3>4. q # z => q \notin Unreached
        <4>1. UNCHANGED <<queued_paths, pc>> /\ queue_cur' = queue_cur + 1 /\ queue_cur \in Nat /\ q \in Nat
          BY <1>0, <2>3, <3>1 DEF DryRunCalibrates
        <4> QED BY <1>0, <1>4, <3>2, <4>1 DEF Unreached
      <3>5. q = z => cost'[q] # 0
        BY <1>0, <3>3, CostsAssumption DEF Calibrates, EntryTypeOK
      <3> QED BY <1>0, <2>1, <2>2, <3>3, <3>4, <3>5
    <2>4. CASE FindCalibrates
      <3>1. queued_paths + 1 \in Entries
        BY <1>0, <2>4 DEF FindCalibrates, Finds, Entries
      <3>2. PICK z \in Entries : z = queued_paths + 1
        BY <3>1
      <3>3. PICK first \in Traces, c \in Costs : \E last \in RunsOf(first) : Calibrates(z, first, last, c)
        BY <2>4, <3>2 DEF FindCalibrates
      <3>4. q # z => q \notin Unreached
        <4>1. queued_paths' = queued_paths + 1 /\ UNCHANGED <<queue_cur, pc>> /\ pc # "dryrun" /\ q \in Nat
          BY <1>0, <2>4 DEF FindCalibrates, Finds
        <4> QED BY <1>0, <1>4, <3>2, <4>1 DEF Unreached
      <3>5. q = z => cost'[q] # 0
        BY <1>0, <3>3, CostsAssumption DEF Calibrates, EntryTypeOK
      <3> QED BY <1>0, <2>1, <2>2, <3>3, <3>4, <3>5
    <2>5. CASE Recalibrates
      <3>1. queue_cur \in Entries /\ pc # "dryrun" /\ pc' # "dryrun" /\ queued_paths' = queued_paths
        BY <1>0, <2>5 DEF Recalibrates, CurOK
      <3>2. PICK z \in Entries : z = queue_cur
        BY <3>1
      <3>3. PICK last \in RunsOf(exec_cksum[z]), c \in Costs : Calibrates(z, exec_cksum[z], last, c)
        BY <2>5, <3>2 DEF Recalibrates
      <3>4. q \notin Unreached
        BY <1>4, <3>1 DEF Unreached
      <3> QED BY <2>1, <2>2, <3>3, <3>4
    <2>6. CASE DryRunSkips
      <3>1. /\ queue_cur \in Entries /\ pc = "dryrun" /\ queue_cur' = queue_cur + 1 /\ UNCHANGED <<pc, queued_paths>>
            /\ cal_failed' = [cal_failed EXCEPT ![queue_cur] = CalChances]
        BY <1>0, <2>6 DEF DryRunSkips, CalibrationFails, EntryBounds, Queued
      <3>2. q # queue_cur
        BY <1>0, <1>4, <3>1 DEF EntryTypeOK
      <3>3. q \notin Unreached /\ cal_failed[q] = 0
        BY <1>0, <1>4, <3>1, <3>2 DEF Unreached, EntryTypeOK
      <3> QED BY <2>1, <3>3
    <2>7. CASE RecalibrationFails
      <3>1. /\ queue_cur \in Entries /\ pc # "dryrun" /\ pc' # "dryrun" /\ queued_paths' = queued_paths
            /\ cal_failed' = [cal_failed EXCEPT ![queue_cur] = cal_failed[queue_cur] + 1]
            /\ cal_failed[queue_cur] \in Nat
        BY <1>0, <2>7 DEF RecalibrationFails, CalibrationFails, CurOK, EntryTypeOK
      <3>2. q \notin Unreached /\ cal_failed[q] = 0
        BY <1>0, <1>4, <3>1 DEF Unreached, EntryTypeOK
      <3> QED BY <2>1, <3>2
    <2>8. CASE FindFails
      <3>1. /\ queued_paths + 1 \in Entries /\ pc # "dryrun" /\ pc' = pc /\ queued_paths' = queued_paths + 1
            /\ cal_failed' = [cal_failed EXCEPT ![queued_paths + 1] = 1]
        BY <1>0, <2>8 DEF FindFails, Finds, Entries
      <3>2. q # queued_paths + 1 /\ cal_failed[q] = 0
        BY <1>0, <1>4, <3>1 DEF EntryTypeOK
      <3>3. q \notin Unreached
        BY <1>0, <1>4, <3>1, <3>2 DEF Unreached
      <3> QED BY <2>1, <3>2, <3>3
    <2>9. CASE \/ DryRunFatal \/ DryRunDone \/ CullQueue \/ Skip \/ Take \/ OutOfChances \/ TrimNothing \/ TrimShortens
               \/ FuzzDone \/ Abandon \/ SyncDone \/ StopInTrim \/ Stop
      <3>1. cal_failed' = cal_failed /\ queued_paths' = queued_paths /\ pc' # "dryrun"
        BY <1>4, <2>9 DEF DryRunFatal, DryRunDone, CullQueue, Skip, Take, OutOfChances, TrimNothing, TrimShortens,
                   FuzzDone, Abandon, SyncDone, StopInTrim, Stop, entries
      <3>2. q \notin Unreached
        <4>1. q <= queued_paths
          BY <1>0, <1>4, <3>1 DEF Unreached
        <4>2. pc = "dryrun" => queue_cur > queued_paths
          BY <1>4, <2>9 DEF DryRunFatal, DryRunDone, CullQueue, Skip, Take, OutOfChances, TrimNothing, TrimShortens,
                   FuzzDone, Abandon, SyncDone, StopInTrim, Stop
        <4>3. pc = "dryrun" => queue_cur \in Nat
          BY <1>0 DEF EntryBounds
        <4> QED BY <1>0, <4>1, <4>2, <4>3 DEF Unreached
      <3> QED BY <1>4, <2>1, <3>1, <3>2
    <2> QED BY <2>3, <2>4, <2>5, <2>6, <2>7, <2>8, <2>9 DEF Next
  <1> QED BY <1>2, <1>3, <1>4 DEF ServingOK

-----------------------------------------------------------------------------
(* Slots, compressed traces, and the favored set. *)

\* fuzz_one is done with the trim of r, and has not marked it as fuzzed yet.
InHand(r) == pc \in {"fuzz", "abandon"} /\ queue_cur = r

\* The slots of an entry nobody fuzzed yet are bytes of its compressed trace.
SlotsFit == pc # "stopped" => \A r \in Entries : was_fuzzed[r] \/ InHand(r) \/ Fits(r)

ServeInv == EntriesInv /\ ScoreBounds /\ CullBounds /\ RatedScored /\ SlotsFit /\ PendingFavoredExact

\* Scoring q: its slots and those of the others.
LEMMA ScoresSlots ==
  ASSUME Inv, NEW q \in Entries, NEW t \in Traces, NEW c \in Costs, UpdateScore(q, t, c)
  PROVE  /\ \A i \in Bytes : top_rated'[i] \in {q, top_rated[i]} /\ (top_rated'[i] # top_rated[i] => i \in t)
         /\ \A i \in t : top_rated[i] = NoEntry => top_rated'[i] = q
         /\ ~score_changed' => ~score_changed /\ top_rated' = top_rated
         /\ \A r \in Entries \ {q} : Held(r)' \subseteq Held(r) /\ trace_mini'[r] \in {NoTrace, trace_mini[r]}
         /\ trace_mini'[q] \in {t, trace_mini[q]}
         /\ Held(q) = {} /\ Held(q)' # {} => trace_mini'[q] = t
  <1> DEFINE w == Wins(q, t, c)
  <1>1. /\ top_rated' = [i \in Bytes |-> IF i \in w THEN q ELSE top_rated[i]]
        /\ trace_mini' = [r \in Entries |-> NewMini(q, t, w, r)]
        /\ score_changed' = (score_changed \/ w # {})
    BY DEF UpdateScore
  <1>2. w \subseteq t /\ t \subseteq Bytes /\ \A i \in t : top_rated[i] = NoEntry => i \in w
    BY DEF Wins, Traces
  <1>3. top_rated = [i \in Bytes |-> top_rated[i]]
    BY DEF Inv, ScoreTypeOK
  <1> HIDE DEF w
  <1>4. ~score_changed' => ~score_changed /\ top_rated' = top_rated
    <2> HAVE ~score_changed'
    <2>1. ~score_changed /\ w = {}
      BY <1>1
    <2> QED BY <1>1, <1>3, <2>1
  <1>5. \A r \in Entries \ {q} : Held(r)' \subseteq Held(r) /\ trace_mini'[r] \in {NoTrace, trace_mini[r]}
    BY <1>1 DEF Held, NewMini
  <1>6. trace_mini'[q] = IF w # {} /\ (trace_mini[q] = NoTrace \/ DropsOwnTrace(q, w)) THEN t ELSE trace_mini[q]
    BY <1>1 DEF NewMini
  <1>7. ASSUME Held(q) = {}, Held(q)' # {} PROVE trace_mini'[q] = t
    <2>1. w # {}
      BY <1>1, <1>7 DEF Held
    <2>2. trace_mini[q] = NoTrace
      BY <1>7, TraceIffHeld DEF Held, Inv
    <2> QED BY <1>6, <2>1, <2>2
  <1> QED BY <1>1, <1>2, <1>4, <1>5, <1>6, <1>7

LEMMA ScoreBoundsKept ==
  ASSUME ServeInv, Next
  PROVE  ScoreBounds' /\ RatedScored'
  <1>1. KeepsScored /\ ((\E q \in Entries, t \in Traces : Scores(q, t)) \/ CullQueue \/ LeavesScores)
    BY StepKinds DEF ServeInv
  <1>2. CASE \E q \in Entries, t \in Traces : Scores(q, t)
    <2>1. PICK q \in Entries, t \in Traces : Scores(q, t)
      BY <1>2
    <2>2. PICK c \in Costs : UpdateScore(q, t, c)
      BY <2>1 DEF Scores
    <2>3. \A i \in Bytes : top_rated'[i] \in {q, top_rated[i]}
      BY <2>2, ScoresSlots DEF ServeInv, EntriesInv
    <2>4. top_rated' \in [Bytes -> Entries \cup {NoEntry}] /\ score_changed' \in BOOLEAN
      BY <2>2 DEF UpdateScore, ServeInv, ScoreBounds, EntriesInv, Inv, ScoreTypeOK
    <2>5. top_rated' \in [Bytes -> Queued' \cup {NoEntry}]
      BY <1>1, <2>1, <2>3, <2>4 DEF Scores, KeepsScored, ServeInv, ScoreBounds
    <2>6. RatedScored'
      BY <1>1, <2>1, <2>3, <2>4 DEF RatedScored, Scores, KeepsScored, ServeInv
    <2> QED BY <2>4, <2>5, <2>6 DEF ScoreBounds
  <1>3. CASE CullQueue \/ LeavesScores
    <2>1. top_rated' = top_rated /\ score_changed' \in BOOLEAN
      BY <1>3 DEF CullQueue, LeavesScores, scoring, ServeInv, ScoreBounds
    <2> QED BY <1>1, <2>1 DEF RatedScored, KeepsScored, ServeInv, ScoreBounds, EntriesInv, Inv, ScoreTypeOK
  <1> QED BY <1>1, <1>2, <1>3

LEMMA CullBoundsKept ==
  ASSUME ServeInv, Next
  PROVE  CullBounds'
  <1>1. (\E q \in Entries, t \in Traces : Scores(q, t)) \/ CullQueue \/ LeavesScores
    BY StepKinds DEF ServeInv
  <1>2. CASE (\E q \in Entries, t \in Traces : Scores(q, t)) \/ LeavesScores
    BY <1>2 DEF Scores, LeavesScores, culling, ServeInv, CullBounds
  <1>3. CASE CullQueue
    <2>1. Sweep.count \in Nat
      BY SweepSwept DEF Sweeps, ServeInv, EntriesInv, Inv
    <2>2. CASE score_changed
      <3>1. /\ favored' = [q \in Entries |-> q \in Sweep.grabbed]
            /\ fs_redundant' = [q \in Entries |-> q \in Queued \ Sweep.grabbed]
            /\ queued_favored' = Sweep.count
        BY <1>3, <2>2 DEF CullQueue
      <3>2. favored' \in [Entries -> BOOLEAN] /\ fs_redundant' \in [Entries -> BOOLEAN]
        <4>1. \A S : [q \in Entries |-> q \in S] \in [Entries -> BOOLEAN]
          OBVIOUS
        <4> QED BY <3>1, <4>1, Zenon
      <3> QED BY <2>1, <3>1, <3>2 DEF CullBounds
    <2>3. CASE ~score_changed
      BY <1>3, <2>3 DEF CullQueue, culling, ServeInv, CullBounds
    <2> QED BY <2>2, <2>3
  <1> QED BY <1>1, <1>2, <1>3

LEMMA SlotsFitKept ==
  ASSUME ServeInv, Next
  PROVE  SlotsFit'
  <1> SUFFICES ASSUME pc' # "stopped", NEW r \in Entries, ~was_fuzzed'[r], ~InHand(r)'
               PROVE  Fits(r)'
    BY DEF SlotsFit
  <1>0. pc # "stopped" /\ pc # "fatal"
    <2>1. pc = "fatal" => FALSE
      BY DEF Next, DryRunCalibrates, DryRunSkips, DryRunFatal, DryRunDone, CullQueue, Skip, Take, Recalibrates,
             RecalibrationFails, OutOfChances, TrimNothing, TrimShortens, FindCalibrates, FindFails,
             FuzzDone, Abandon, SyncDone, StopInTrim, Stop
    <2>2. pc = "stopped" => FALSE
      BY DEF Next, DryRunCalibrates, DryRunSkips, DryRunFatal, DryRunDone, CullQueue, Skip, Take, Recalibrates,
             RecalibrationFails, OutOfChances, TrimNothing, TrimShortens, FindCalibrates, FindFails,
             FuzzDone, Abandon, SyncDone, StopInTrim, Stop
    <2> QED BY <2>1, <2>2
  <1>1. (\E q \in Entries, t \in Traces : Scores(q, t)) \/ CullQueue \/ LeavesScores
    BY StepKinds DEF ServeInv
  <1>2. CASE \E q \in Entries, t \in Traces : Scores(q, t)
    <2>1. PICK q \in Entries, t \in Traces : Scores(q, t)
      BY <1>2
    <2>2. PICK c \in Costs : UpdateScore(q, t, c)
      BY <2>1 DEF Scores
    <2>3. /\ \A i \in Bytes : top_rated'[i] \in {q, top_rated[i]} /\ (top_rated'[i] # top_rated[i] => i \in t)
          /\ \A x \in Entries \ {q} : Held(x)' \subseteq Held(x) /\ trace_mini'[x] \in {NoTrace, trace_mini[x]}
          /\ Held(q) = {} /\ Held(q)' # {} => trace_mini'[q] = t
      BY <2>2, ScoresSlots DEF ServeInv, EntriesInv
    <2>4. CASE r = q
      <3>1. ~Scored(q)
        BY <1>0, <2>1, <2>4 DEF Scores, InHand
      <3>2. Held(q) = {}
        BY <3>1, NoEntryAssumption DEF Held, ServeInv, RatedScored
      <3>3. Held(q)' \subseteq t
        BY <2>3, <3>2 DEF Held
      <3> QED BY <2>3, <2>4, <3>2, <3>3 DEF Fits
    <2>5. CASE r # q
      <3>1. was_fuzzed[r] \/ InHand(r) \/ Fits(r)
        BY <1>0 DEF ServeInv, SlotsFit
      <3>2. ~was_fuzzed[r] /\ ~InHand(r)
        BY <2>1, <2>5 DEF Scores, InHand
      <3>3. Held(r)' \subseteq Held(r) /\ (Held(r)' # {} => trace_mini'[r] # NoTrace)
        <4>1. RefCountExact' /\ TraceKeptWhileNeeded'
          BY <2>2, ScoreStep DEF ServeInv, EntriesInv, Inv
        <4>2. ASSUME trace_mini'[r] = NoTrace PROVE Held(r)' = {}
          <5>1. ~(tc_ref'[r] > 0)
            BY <4>1, <4>2 DEF TraceKeptWhileNeeded
          <5>2. tc_ref'[r] = Cardinality(Held(r)')
            BY <4>1 DEF RefCountExact, Held
          <5>3. Held(r)' \in SUBSET Bytes
            BY DEF Held
          <5>4. IsFiniteSet(Held(r)') /\ Cardinality(Held(r)') \in Nat
            BY <5>3, FiniteBytes
          <5> QED BY <5>1, <5>2, <5>4, FS_EmptySet
        <4> QED BY <2>3, <2>5, <4>2
      <3> QED BY <2>3, <2>5, <3>1, <3>2, <3>3 DEF Fits
    <2> QED BY <2>4, <2>5
  <1>3. CASE CullQueue
    BY <1>0, <1>3 DEF CullQueue, ServeInv, SlotsFit, InHand, Fits, Held, entries
  <1>4. CASE LeavesScores
    <2>1. Fits(r) => Fits(r)'
      BY <1>4 DEF LeavesScores, scoring, Fits, Held
    <2>2. ~was_fuzzed[r] /\ (InHand(r) => cal_failed[r] # 0)
      BY <1>0 DEF Next, DryRunCalibrates, DryRunSkips, DryRunFatal, DryRunDone, CullQueue, Skip, Take, Recalibrates,
             RecalibrationFails, OutOfChances, TrimNothing, TrimShortens, FindCalibrates, FindFails,
             FuzzDone, Abandon, SyncDone, StopInTrim, Stop, InHand, entries, ServeInv, EntriesInv, Inv, EntryTypeOK
    <2>3. CASE InHand(r)
      <3>1. Held(r) = {}
        BY <2>2, <2>3, NoEntryAssumption DEF Held, ServeInv, RatedScored, Scored
      <3> QED BY <2>1, <3>1 DEF Fits
    <2>4. CASE ~InHand(r)
      BY <1>0, <2>1, <2>2, <2>4 DEF ServeInv, SlotsFit
    <2> QED BY <2>3, <2>4
  <1> QED BY <1>1, <1>2, <1>3, <1>4

\* Entries that are queued and wait, of those favored.
LEMMA WaitingFavored ==
  ASSUME Queued \subseteq Entries
  PROVE  /\ {q \in Queued : favored[q] /\ ~was_fuzzed[q]} \in SUBSET Entries
         /\ IsFiniteSet({q \in Queued : favored[q] /\ ~was_fuzzed[q]})
  <1>1. {q \in Queued : favored[q] /\ ~was_fuzzed[q]} \in SUBSET Entries
    OBVIOUS
  <1> QED BY <1>1, FiniteEntries

LEMMA PendingFavoredKept ==
  ASSUME ServeInv, Next
  PROVE  PendingFavoredExact'
  <1>0. Queued \subseteq Entries /\ EntryTypeOK /\ CurOK
    BY QueuedEntries DEF ServeInv, EntriesInv, Inv
  <1>1. CASE CullQueue
    <2>1. UNCHANGED <<queued_paths, was_fuzzed>> /\ pc = "cull"
      BY <1>1 DEF CullQueue, entries
    <2>2. CASE score_changed
      <3>1. /\ favored' = [q \in Entries |-> q \in Sweep.grabbed]
            /\ pending_favored' = Sweep.pending
        BY <1>1, <2>2 DEF CullQueue
      <3>2. \A r \in Entries : ~was_fuzzed[r] => Fits(r)
        BY <2>1 DEF ServeInv, SlotsFit, InHand
      <3>3. Sweep.grabbed \subseteq Queued /\ Sweep.pending = Cardinality(Waiting(Sweep.grabbed))
        <4>1. \A r \in Sweep.grabbed : r \in Entries /\ Held(r) # {}
          BY SweepSwept DEF Sweeps, SweptUpTo, ServeInv, EntriesInv, Inv
        <4>2. \A r \in Entries : Held(r) # {} => r \in Queued
          BY NoEntryAssumption DEF Held, ServeInv, ScoreBounds
        <4>3. Sweep.pending = Cardinality(Waiting(Sweep.grabbed))
          BY <3>2, SweepSwept DEF SweptUpTo, ServeInv, EntriesInv, Inv
        <4> QED BY <4>1, <4>2, <4>3
      <3>4. {q \in Queued' : favored'[q] /\ ~was_fuzzed'[q]} = Waiting(Sweep.grabbed)
        BY <1>0, <2>1, <3>1, <3>3 DEF Waiting, Queued
      <3> QED BY <3>1, <3>3, <3>4 DEF PendingFavoredExact
    <2>3. CASE ~score_changed
      <3>1. UNCHANGED <<favored, pending_favored>>
        BY <1>1, <2>3 DEF CullQueue, culling
      <3> QED BY <2>1, <3>1 DEF PendingFavoredExact, Queued, ServeInv
    <2> QED BY <2>2, <2>3
  <1>2. CASE Abandon
    <2>1. /\ UNCHANGED <<queued_paths, favored>> /\ queue_cur \in Queued /\ Queued' = Queued
          /\ was_fuzzed \in [Entries -> BOOLEAN] /\ favored \in [Entries -> BOOLEAN]
      BY <1>0, <1>2 DEF Abandon, CurOK, EntryTypeOK, Queued, ServeInv, CullBounds
    <2> DEFINE W == {q \in Queued : favored[q] /\ ~was_fuzzed[q]}
               V == {q \in Queued' : favored'[q] /\ ~was_fuzzed'[q]}
    <2>2. pending_favored = Cardinality(W) /\ IsFiniteSet(W)
      BY <1>0, WaitingFavored DEF PendingFavoredExact, ServeInv
    <2>3. CASE cal_failed[queue_cur] = 0 /\ ~was_fuzzed[queue_cur]
      <3>1. /\ was_fuzzed' = [was_fuzzed EXCEPT ![queue_cur] = TRUE]
            /\ pending_favored' = pending_favored - IF favored[queue_cur] THEN 1 ELSE 0
        BY <1>2, <2>3 DEF Abandon
      <3>2. V = W \ {queue_cur}
        BY <1>0, <2>1, <3>1
      <3>3. queue_cur \in W <=> favored[queue_cur]
        BY <2>1, <2>3
      <3> HIDE DEF V, W
      <3>4. CASE favored[queue_cur]
        <4>1. Cardinality(V) = Cardinality(W) - 1
          BY <2>2, <3>2, <3>3, <3>4, FS_RemoveElement
        <4>2. pending_favored' = Cardinality(V)
          BY <2>2, <3>1, <3>4, <4>1
        <4> QED BY <4>2 DEF V, PendingFavoredExact
      <3>5. CASE ~favored[queue_cur]
        <4>1. V = W
          BY <3>2, <3>3, <3>5
        <4>2. Cardinality(W) \in Nat
          BY <2>2, FS_CardinalityType
        <4>3. pending_favored' = Cardinality(V)
          BY <2>2, <3>1, <3>5, <4>1, <4>2
        <4> QED BY <4>3 DEF V, PendingFavoredExact
      <3> QED BY <3>4, <3>5
    <2>4. CASE ~(cal_failed[queue_cur] = 0 /\ ~was_fuzzed[queue_cur])
      <3>1. UNCHANGED <<was_fuzzed, pending_favored>>
        BY <1>2, <2>4 DEF Abandon
      <3> QED BY <2>1, <2>2, <3>1 DEF PendingFavoredExact
    <2> QED BY <2>3, <2>4
  <1>3. CASE FindCalibrates \/ FindFails
    <2>1. UNCHANGED <<favored, was_fuzzed, pending_favored>> /\ queued_paths' = queued_paths + 1
      BY <1>3 DEF FindCalibrates, FindFails, Finds, culling
    <2>2. queued_paths + 1 \in Entries /\ queued_paths \in Nat
      BY <1>3, BoundsAssumption DEF FindCalibrates, FindFails, Finds, ServeInv, EntriesInv, Inv, EntryTypeOK, Entries
    <2>3. ~favored[queued_paths + 1]
      <3>1. queued_paths + 1 \in Unreached
        BY <2>2 DEF Unreached
      <3>2. ~Scored(queued_paths + 1)
        BY <2>2, <3>1 DEF ServeInv, EntriesInv, Inv, ReachedOK, Scored
      <3> QED BY <2>2, <3>2 DEF ServeInv, EntriesInv, ServingOK
    <2>4. {q \in Queued' : favored'[q] /\ ~was_fuzzed'[q]} = {q \in Queued : favored[q] /\ ~was_fuzzed[q]}
      BY <2>1, <2>2, <2>3 DEF Queued
    <2> QED BY <2>1, <2>4 DEF PendingFavoredExact, ServeInv
  <1>4. CASE ~CullQueue /\ ~Abandon /\ ~FindCalibrates /\ ~FindFails
    <2>1. UNCHANGED <<favored, was_fuzzed, pending_favored, queued_paths>>
      BY <1>4 DEF Next, DryRunCalibrates, DryRunSkips, DryRunFatal, DryRunDone, Skip, Take, Recalibrates,
             RecalibrationFails, OutOfChances, TrimNothing, TrimShortens, FuzzDone, SyncDone, StopInTrim, Stop,
             entries, culling
    <2> QED BY <2>1 DEF PendingFavoredExact, Queued, ServeInv
  <1> QED BY <1>1, <1>2, <1>3, <1>4

LEMMA ServeInit == Init => ServeInv
  <1> SUFFICES ASSUME Init PROVE ServeInv
    OBVIOUS
  <1>1. Inv
    BY InitInv
  <1>2. EntryBounds
    BY BoundsAssumption DEF Init, EntryBounds, Queued, Entries
  <1>3. ServingOK /\ RatedScored /\ CullBounds
    BY BoundsAssumption DEF Init, ServingOK, RatedScored, CullBounds, Unreached, Entries
  <1>4. ScoreBounds
    BY DEF Init, ScoreBounds
  <1>5. SlotsFit
    BY NoEntryAssumption DEF Init, SlotsFit, Fits, Held
  <1>6. PendingFavoredExact
    <2>1. {q \in Queued : favored[q] /\ ~was_fuzzed[q]} = {}
      BY BoundsAssumption DEF Init, Queued, Entries
    <2> QED BY <2>1, FS_EmptySet DEF Init, PendingFavoredExact
  <1> QED BY <1>1, <1>2, <1>3, <1>4, <1>5, <1>6 DEF ServeInv, EntriesInv

LEMMA ServeNext == ServeInv /\ [Next]_vars => ServeInv'
  <1>1. ASSUME ServeInv, Next PROVE ServeInv'
    <2>1. Inv'
      BY <1>1, NextInv DEF ServeInv, EntriesInv
    <2>2. EntryBounds' /\ ServingOK'
      BY <1>1, EntryBoundsKept, ServingKept DEF ServeInv, EntriesInv, Inv
    <2> QED BY <1>1, <2>1, <2>2, ScoreBoundsKept, CullBoundsKept, SlotsFitKept, PendingFavoredKept
        DEF ServeInv, EntriesInv
  <1>2. ASSUME ServeInv, UNCHANGED vars PROVE ServeInv'
    <2>1. Inv'
      BY <1>2, NextInv DEF ServeInv, EntriesInv
    <2>2. EntryBounds' /\ ServingOK' /\ ScoreBounds' /\ CullBounds' /\ RatedScored'
      BY <1>2 DEF ServeInv, EntriesInv, EntryBounds, ServingOK, ScoreBounds, CullBounds, RatedScored, Scored, Unreached,
                  Queued, vars, entries, scoring, culling
    <2>3. SlotsFit' /\ PendingFavoredExact'
      BY <1>2 DEF ServeInv, SlotsFit, InHand, Fits, Held, PendingFavoredExact, Queued, vars, entries, scoring, culling
    <2> QED BY <2>1, <2>2, <2>3 DEF ServeInv, EntriesInv
  <1> QED BY <1>1, <1>2

\* What skipping goes by is exact, for any target: every field has its type,
\* pending_favored is the number of favored entries nobody fuzzed, and only
\* calibrated entries were fuzzed or are favored.
THEOREM FavoredCounts == Spec => []FavoredExact
  <1>1. ServeInv => FavoredExact
    <2> SUFFICES ASSUME ServeInv PROVE FavoredExact
      OBVIOUS
    <2>0. Queued \subseteq Entries
      BY QueuedEntries DEF ServeInv, EntriesInv, Inv
    <2>1. pending_favored \in Nat
      BY <2>0, WaitingFavored, FS_CardinalityType DEF ServeInv, PendingFavoredExact
    <2>2. pending_not_fuzzed \in Nat
      BY FiniteQueued, FS_CardinalityType DEF ServeInv, EntriesInv, Inv, PendingNotFuzzedExact
    <2>3. TypeOK
      BY <2>1, <2>2 DEF TypeOK, ServeInv, EntriesInv, EntryBounds, ScoreBounds, CullBounds, Inv, ScoreTypeOK, EntryTypeOK
    <2>4. OnlyScoredServe
      BY <2>0 DEF OnlyScoredServe, ServeInv, EntriesInv, ServingOK
    <2> QED BY <2>3, <2>4 DEF FavoredExact, ServeInv
  <1> QED BY <1>1, ServeInit, ServeNext, PTL DEF Spec

-----------------------------------------------------------------------------
(* The favored set, for a target whose trace does not vary. *)

\* An entry's slots and its compressed trace are those of the trace it is known by.
OneTrace ==
  \A r \in Entries : Held(r) \subseteq exec_cksum[r] /\ trace_mini[r] \in {NoTrace, exec_cksum[r]}

\* Every byte of a scored entry has a winner.
Won == \A q \in Queued : Scored(q) => \A i \in exec_cksum[q] : top_rated[i] # NoEntry

\* While no score changes, every byte with a winner is in the trace of a favored entry.
WinnersCovered ==
  ~score_changed =>
    \A i \in Bytes : top_rated[i] # NoEntry => \E r \in Queued : favored[r] /\ i \in exec_cksum[r]

FavoredInv == ServeInv /\ OneTrace /\ Won /\ WinnersCovered /\ QueuedFavoredExact

LEMMA UnscoredHoldsNothing ==
  ASSUME ServeInv, NEW r \in Entries, ~Scored(r)
  PROVE  Held(r) = {} /\ trace_mini[r] = NoTrace
  <1>1. Held(r) = {}
    BY NoEntryAssumption DEF Held, ServeInv, RatedScored
  <1> QED BY <1>1, TraceIffHeld DEF Held, ServeInv, EntriesInv, Inv

LEMMA OneTraceKept ==
  ASSUME FavoredInv, Next, ~Variable
  PROVE  OneTrace'
  <1> SUFFICES ASSUME NEW r \in Entries
               PROVE  Held(r)' \subseteq exec_cksum'[r] /\ trace_mini'[r] \in {NoTrace, exec_cksum'[r]}
    BY DEF OneTrace, NoTrace
  <1>0. Held(r) \subseteq exec_cksum[r] /\ trace_mini[r] \in {NoTrace, exec_cksum[r]}
    BY DEF FavoredInv, OneTrace
  <1>1. /\ KeepsScored
        /\ (\E q \in Entries, t \in Traces : Scores(q, t)) \/ CullQueue \/ LeavesScores
    BY StepKinds DEF FavoredInv, ServeInv
  <1>2. \/ exec_cksum'[r] = exec_cksum[r]
        \/ Held(r) = {} /\ trace_mini[r] = NoTrace
    BY <1>1, UnscoredHoldsNothing DEF KeepsScored, FavoredInv
  <1>3. CASE \E q \in Entries, t \in Traces : Scores(q, t)
    <2>1. PICK q \in Entries, t \in Traces : Scores(q, t)
      BY <1>3
    <2>2. PICK c \in Costs : UpdateScore(q, t, c)
      BY <2>1 DEF Scores
    <2>3. /\ \A i \in Bytes : top_rated'[i] \in {q, top_rated[i]} /\ (top_rated'[i] # top_rated[i] => i \in t)
          /\ \A x \in Entries \ {q} : Held(x)' \subseteq Held(x) /\ trace_mini'[x] \in {NoTrace, trace_mini[x]}
          /\ trace_mini'[q] \in {t, trace_mini[q]}
      BY <2>2, ScoresSlots DEF FavoredInv, ServeInv, EntriesInv
    <2>4. t = exec_cksum'[q]
      BY <2>1 DEF Scores
    <2>5. CASE r = q
      <3>1. Held(q)' \subseteq Held(q) \cup t
        BY <2>3 DEF Held
      <3> QED BY <1>0, <1>2, <2>3, <2>4, <2>5, <3>1
    <2>6. CASE r # q
      BY <1>0, <1>2, <2>3, <2>6
    <2> QED BY <2>5, <2>6
  <1>4. CASE CullQueue \/ LeavesScores
    <2>1. UNCHANGED <<trace_mini, top_rated>>
      BY <1>4 DEF CullQueue, LeavesScores, scoring
    <2>2. Held(r)' = Held(r)
      BY <2>1 DEF Held
    <2> QED BY <1>0, <1>2, <2>1, <2>2
  <1> QED BY <1>1, <1>3, <1>4

LEMMA WonKept ==
  ASSUME FavoredInv, Next, ~Variable
  PROVE  Won'
  <1> SUFFICES ASSUME NEW r \in Queued', Scored(r)', NEW i \in exec_cksum'[r]
               PROVE  top_rated'[i] # NoEntry
    BY DEF Won
  <1>1. /\ KeepsScored
        /\ (\E q \in Entries, t \in Traces : Scores(q, t)) \/ CullQueue \/ LeavesScores
    BY StepKinds DEF FavoredInv, ServeInv
  <1>2. r \in Entries
    BY <1>1 DEF KeepsScored
  <1>3. r \in Queued /\ Scored(r) => top_rated[i] # NoEntry /\ i \in Bytes
    BY <1>1, <1>2 DEF KeepsScored, FavoredInv, Won, ServeInv, EntriesInv, Inv, EntryTypeOK
  <1>4. CASE \E q \in Entries, t \in Traces : Scores(q, t)
    <2>1. PICK q \in Entries, t \in Traces : Scores(q, t)
      BY <1>4
    <2>2. PICK c \in Costs : UpdateScore(q, t, c)
      BY <2>1 DEF Scores
    <2>3. /\ \A j \in Bytes : top_rated'[j] \in {q, top_rated[j]}
          /\ \A j \in t : top_rated[j] = NoEntry => top_rated'[j] = q
      BY <2>2, ScoresSlots DEF FavoredInv, ServeInv, EntriesInv
    <2>4. t = exec_cksum'[q] /\ t \subseteq Bytes
      BY <2>1 DEF Scores, Traces
    <2>5. CASE r = q
      BY <2>3, <2>4, <2>5, NoEntryAssumption
    <2>6. CASE r # q
      <3>1. r \in Queued /\ Scored(r)
        BY <1>2, <2>1, <2>6 DEF Scores
      <3> QED BY <1>3, <2>3, <3>1, NoEntryAssumption
    <2> QED BY <2>5, <2>6
  <1>5. CASE CullQueue \/ LeavesScores
    <2>1. top_rated' = top_rated
      BY <1>5 DEF CullQueue, LeavesScores, scoring
    <2>2. r \in Queued /\ Scored(r)
      BY <1>2, <1>5, CullKeeps DEF LeavesScores, FavoredInv, ServeInv
    <2> QED BY <1>3, <2>1, <2>2
  <1> QED BY <1>1, <1>4, <1>5

\* The favored entries after the sweep.
LEMMA SweptFavored ==
  ASSUME FavoredInv, ~Variable, CullQueue, score_changed
  PROVE  /\ \A q \in Entries : favored'[q] <=> q \in Sweep.grabbed
         /\ Sweep.grabbed \subseteq Queued /\ queued_favored' = Cardinality(Sweep.grabbed)
         /\ \A i \in Bytes : top_rated[i] # NoEntry => \E r \in Sweep.grabbed : i \in exec_cksum[r]
  <1>0. ScoreTypeOK
    BY DEF FavoredInv, ServeInv, EntriesInv, Inv
  <1>1. /\ favored' = [q \in Entries |-> q \in Sweep.grabbed]
        /\ queued_favored' = Sweep.count
    BY DEF CullQueue
  <1>2. \A r \in Entries : Fits(r)
    <2> TAKE r \in Entries
    <2>1. trace_mini[r] = NoTrace => Held(r) = {}
      BY TraceIffHeld DEF Held, FavoredInv, ServeInv, EntriesInv, Inv
    <2> QED BY <2>1 DEF Fits, FavoredInv, OneTrace
  <1>3. Sweep.count = Cardinality(Sweep.grabbed)
    BY <1>0, <1>2, SweepSwept DEF SweptUpTo
  <1>4. /\ \A r \in Sweep.grabbed : r \in Entries /\ Held(r) # {}
        /\ \A i \in Bytes \ Sweep.left : \E r \in Sweep.grabbed : i \in trace_mini[r]
        /\ \A i \in Bytes : i < MapSize /\ top_rated[i] # NoEntry => top_rated[i] \in Sweep.grabbed \/ i \notin Sweep.left
    BY <1>0, SweepSwept DEF SweptUpTo, Sweeps
  <1>5. Sweep.grabbed \subseteq Queued
    <2>1. \A r \in Entries : Held(r) # {} => r \in Queued
      BY NoEntryAssumption DEF Held, FavoredInv, ServeInv, ScoreBounds
    <2> QED BY <1>4, <2>1
  <1>6. ASSUME NEW i \in Bytes, top_rated[i] # NoEntry
        PROVE  \E r \in Sweep.grabbed : i \in exec_cksum[r]
    <2>1. i < MapSize
      BY BoundsAssumption DEF Bytes
    <2>2. CASE top_rated[i] \in Sweep.grabbed
      <3>1. i \in Held(top_rated[i])
        BY DEF Held
      <3> QED BY <1>4, <2>2, <3>1 DEF FavoredInv, OneTrace
    <2>3. CASE i \notin Sweep.left
      <3>1. PICK r \in Sweep.grabbed : i \in trace_mini[r]
        BY <1>4, <2>3
      <3>2. trace_mini[r] \in {NoTrace, exec_cksum[r]}
        BY <1>4 DEF FavoredInv, OneTrace
      <3> QED BY <3>1, <3>2 DEF NoTrace
    <2> QED BY <1>4, <1>6, <2>1, <2>2, <2>3
  <1> QED BY <1>1, <1>3, <1>5, <1>6

LEMMA CoveredKept ==
  ASSUME FavoredInv, Next, ~Variable
  PROVE  WinnersCovered' /\ QueuedFavoredExact'
  <1>0. Queued \subseteq Entries
    BY QueuedEntries DEF FavoredInv, ServeInv, EntriesInv, Inv
  <1>1. /\ KeepsScored
        /\ (\E q \in Entries, t \in Traces : Scores(q, t)) \/ CullQueue \/ LeavesScores
    BY StepKinds DEF FavoredInv, ServeInv
  <1>2. CASE CullQueue /\ score_changed
    <2>1. /\ \A q \in Entries : favored'[q] <=> q \in Sweep.grabbed
          /\ Sweep.grabbed \subseteq Queued /\ queued_favored' = Cardinality(Sweep.grabbed)
          /\ \A i \in Bytes : top_rated[i] # NoEntry => \E r \in Sweep.grabbed : i \in exec_cksum[r]
      BY <1>2, SweptFavored
    <2>2. UNCHANGED <<queued_paths, exec_cksum, top_rated>>
      BY <1>2 DEF CullQueue, entries
    <2>3. {q \in Queued' : favored'[q]} = Sweep.grabbed
      BY <1>0, <2>1, <2>2 DEF Queued
    <2>4. QueuedFavoredExact'
      BY <2>1, <2>3 DEF QueuedFavoredExact
    <2>5. WinnersCovered'
      BY <1>0, <2>1, <2>2 DEF WinnersCovered, Queued
    <2> QED BY <2>4, <2>5
  <1>3. CASE ~(CullQueue /\ score_changed)
    <2>1. UNCHANGED <<favored, queued_favored>> /\ (~score_changed' => ~score_changed /\ top_rated' = top_rated)
      <3>1. CASE \E q \in Entries, t \in Traces : Scores(q, t)
        <4>1. PICK q \in Entries, t \in Traces : Scores(q, t)
          BY <3>1
        <4>2. PICK c \in Costs : UpdateScore(q, t, c)
          BY <4>1 DEF Scores
        <4> QED BY <4>1, <4>2, ScoresSlots DEF Scores, culling, FavoredInv, ServeInv, EntriesInv
      <3>2. CASE CullQueue
        BY <1>3, <3>2 DEF CullQueue, culling
      <3>3. CASE LeavesScores
        BY <3>3 DEF LeavesScores, scoring
      <3> QED BY <1>1, <3>1, <3>2, <3>3
    <2>2. \A r \in Entries : favored[r] => exec_cksum'[r] = exec_cksum[r] /\ Scored(r)
      BY <1>1 DEF KeepsScored, FavoredInv, ServeInv, EntriesInv, ServingOK
    <2>3. WinnersCovered'
      BY <1>0, <1>1, <2>1, <2>2 DEF WinnersCovered, FavoredInv, KeepsScored
    <2>4. {q \in Queued' : favored'[q]} = {q \in Queued : favored[q]}
      <3>1. \A r \in Queued' : favored[r] => r \in Queued
        <4> TAKE r \in Queued'
        <4>1. r \in Entries /\ Queued \subseteq Queued'
          BY <1>1 DEF KeepsScored
        <4>2. favored[r] => Scored(r)
          BY <2>2, <4>1
        <4>3. Scored(r) => r \in Queued
          <5>1. r \in Unreached => ~Scored(r)
            BY <4>1 DEF FavoredInv, ServeInv, EntriesInv, Inv, ReachedOK, Scored
          <5>2. r \notin Queued => r \in Unreached
            BY <4>1, QueuedEntries DEF Unreached, Queued, Entries, FavoredInv, ServeInv, EntriesInv, Inv
          <5> QED BY <5>1, <5>2
        <4> QED BY <4>2, <4>3
      <3> QED BY <1>1, <2>1, <3>1 DEF KeepsScored
    <2>5. QueuedFavoredExact'
      BY <2>1, <2>4 DEF QueuedFavoredExact, FavoredInv
    <2> QED BY <2>3, <2>5
  <1> QED BY <1>2, <1>3

LEMMA FavoredInit == Init => FavoredInv
  <1> SUFFICES ASSUME Init PROVE FavoredInv
    OBVIOUS
  <1>1. ServeInv
    BY ServeInit
  <1>2. OneTrace /\ WinnersCovered
    BY NoEntryAssumption DEF Init, OneTrace, WinnersCovered, Held, NoTrace
  <1>3. Won
    BY QueuedEntries, <1>1 DEF Init, Won, Scored, ServeInv, EntriesInv, Inv
  <1>4. QueuedFavoredExact
    <2>1. {q \in Queued : favored[q]} = {}
      BY QueuedEntries, <1>1 DEF Init, ServeInv, EntriesInv, Inv
    <2> QED BY <2>1, FS_EmptySet DEF Init, QueuedFavoredExact
  <1> QED BY <1>1, <1>2, <1>3, <1>4 DEF FavoredInv

LEMMA FavoredNext == ~Variable /\ FavoredInv /\ [Next]_vars => FavoredInv'
  <1>1. ASSUME ~Variable, FavoredInv, Next PROVE FavoredInv'
    BY <1>1, ServeNext, OneTraceKept, WonKept, CoveredKept DEF FavoredInv
  <1>2. ASSUME FavoredInv, UNCHANGED vars PROVE FavoredInv'
    <2>1. ServeInv'
      BY <1>2, ServeNext DEF FavoredInv
    <2>2. OneTrace' /\ Won' /\ WinnersCovered' /\ QueuedFavoredExact'
      BY <1>2 DEF FavoredInv, OneTrace, Won, WinnersCovered, QueuedFavoredExact, Held, Scored, Queued,
                  vars, entries, scoring, culling
    <2> QED BY <2>1, <2>2 DEF FavoredInv
  <1> QED BY <1>1, <1>2

\* For a deterministic target the greedy sweep does what it is for: whatever a
\* scored entry reaches, a favored one reaches, from one cull until a score
\* changes; and queued_favored counts the favored entries, each once.
THEOREM FavoredSet == ~Variable /\ Spec => []FavoredSetExact
  <1>1. FavoredInv => FavoredSetExact
    <2> SUFFICES ASSUME FavoredInv PROVE FavoredSetExact
      OBVIOUS
    <2>1. ASSUME ~score_changed, NEW q \in Queued, Scored(q), NEW i \in exec_cksum[q]
          PROVE  i \in UNION {exec_cksum[r] : r \in {r \in Queued : favored[r]}}
      <3>1. q \in Entries
        BY QueuedEntries DEF FavoredInv, ServeInv, EntriesInv, Inv
      <3>2. i \in Bytes /\ top_rated[i] # NoEntry
        BY <2>1, <3>1 DEF FavoredInv, Won, ServeInv, EntriesInv, Inv, EntryTypeOK
      <3>3. PICK r \in Queued : favored[r] /\ i \in exec_cksum[r]
        BY <2>1, <3>2 DEF FavoredInv, WinnersCovered
      <3> QED BY <3>3
    <2>2. FavoredCover
      BY <2>1 DEF FavoredCover
    <2> QED BY <2>2 DEF FavoredSetExact, FavoredInv
  <1>2. CASE ~Variable
    <2>1. FavoredInv /\ [Next]_vars => FavoredInv'
      BY <1>2, FavoredNext
    <2>2. Spec => []FavoredSetExact
      BY <1>1, <2>1, FavoredInit, PTL DEF Spec
    <2> QED BY <2>2
  <1>3. CASE Variable
    BY <1>3
  <1> QED BY <1>2, <1>3, VariableAssumption
=============================================================================
