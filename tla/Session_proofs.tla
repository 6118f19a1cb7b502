------------------------------ MODULE Session_proofs ------------------------------
(***************************************************************************)
(* The main loop: it and fuzz_one() agree on which entry is at hand,       *)
(* however many entries there are, whatever is added to the queue while it *)
(* is walked and wherever the first cycle starts.  The output directory,   *)
(* for any sets of cases and crashes and any number of sessions: as long   *)
(* as a process is not killed while it deletes _resume or rewrites a       *)
(* trimmed file, and no new session is started over an old directory, the  *)
(* session survives being killed and resumed; its crashes survive anyhow.  *)
(***************************************************************************)
EXTENDS FuzzLoop, Resume, FiniteSetTheorems, TLAPS

-----------------------------------------------------------------------------
(* The main loop. *)

Steps == {"top", "cycle", "import", "fuzz", "stages", "after", "sync", "next", "down"}

\* The place the first cycle starts from is in the queue, and stays in it since
\* the queue only grows; at the ends of the list there is no current entry.
LoopInv ==
  /\ queued_paths \in Nat \ {0}
  /\ seek_to \in Nat /\ seek_to < queued_paths
  /\ queue_cur \in Nat /\ queue_cur <= queued_paths
  /\ current_entry \in Nat
  /\ step \in Steps
  /\ step \notin {"top", "cycle", "down"} => queue_cur # 0
  /\ queue_cur # 0 => current_entry = queue_cur - 1

LEMMA LoopInitInv == LoopInit => LoopInv
<1> SUFFICES ASSUME LoopInit PROVE LoopInv
  OBVIOUS
<1>1. queued_paths \in Nat \ {0}
  BY LoopAssumption DEF LoopInit
<1>2. seek_to \in Nat /\ seek_to < queued_paths
  BY <1>1, LoopAssumption DEF LoopInit, StartPosition
<1> QED BY <1>1, <1>2 DEF LoopInit, LoopInv, Steps

\* An entry is added behind the current one.
LEMMA AddKeepsInv ==
  ASSUME LoopInv, AddEntry, step' = step,
         UNCHANGED <<seek_to, queue_cur, current_entry>>
  PROVE  LoopInv'
BY DEF LoopInv, AddEntry

LEMMA LoopNextInv == LoopInv /\ [LoopNext]_loopVars => LoopInv'
<1> SUFFICES ASSUME LoopInv, [LoopNext]_loopVars PROVE LoopInv'
  OBVIOUS
<1> USE DEF LoopInv, Steps
<1>1. CASE Cull
  BY <1>1 DEF Cull, cycleVars
<1>2. CASE NewCycle
  BY <1>2 DEF NewCycle, SeekLeft, entryVars
<1>3. CASE LeaveOut
  BY <1>3 DEF LeaveOut, entryVars, cycleVars
<1>4. CASE FuzzOne
  BY <1>4 DEF FuzzOne, cycleVars
<1>5. CASE Find
  BY <1>5, AddKeepsInv DEF Find, cycleVars
<1>6. CASE EndOfEntry
  BY <1>6 DEF EndOfEntry, cycleVars
<1>7. CASE After
  BY <1>7 DEF After, entryVars, cycleVars
<1>8. CASE Import
  BY <1>8, AddKeepsInv DEF Import, cycleVars
<1>9. CASE SyncDone
  BY <1>9 DEF SyncDone, entryVars, cycleVars
<1>10. CASE NextEntry
  BY <1>10 DEF NextEntry, entryVars
<1>11. CASE StopWhenDone
  BY <1>11 DEF StopWhenDone, entryVars, cycleVars
<1>12. CASE Signal
  BY <1>12 DEF Signal, entryVars, cycleVars
<1>13. CASE UNCHANGED loopVars
  BY <1>13 DEF loopVars, entryVars, cycleVars
<1> QED
  BY <1>1, <1>2, <1>3, <1>4, <1>5, <1>6, <1>7, <1>8, <1>9, <1>10, <1>11, <1>12, <1>13
  DEF LoopNext, Loop

\* The number an entry has in file names and in fuzzer_stats is its place in the
\* queue at every step of every cycle, the first one of a resumed session
\* included.
THEOREM PositionsAreRight == LoopSpec => []PositionIsRight
<1>1. LoopInv => PositionIsRight
  BY DEF LoopInv, PositionIsRight, Entries
<1> QED BY <1>1, LoopInitInv, LoopNextInv, PTL DEF LoopSpec
-----------------------------------------------------------------------------
(* AFL_EXIT_WHEN_DONE. *)

\* The entry was at hand in this cycle (or would have been, had the first cycle
\* not started behind it).
Seen(k) ==
  queue_cur = 0 \/ k < queue_cur \/ (k = queue_cur /\ step \in {"after", "sync", "next"})

\* Each cycle without finds saw each entry once, and the one under way sees
\* them in order.  The first one, which may start anywhere, does not count.
VisitsInv ==
  /\ queued_paths <= MaxEntries
  /\ cycles_wo_finds \in 0 .. DoneAfter + 1
  /\ visits \in [1 .. MaxEntries -> Nat]
  /\ was_fuzzed \subseteq Entries
  /\ seek_to # 0 => prev_queued = 0
  /\ step = "cycle" => queue_cur = 0
  /\ \A k \in Entries : cycles_wo_finds <= visits[k] + IF Seen(k) THEN 0 ELSE 1
  /\ DoneMeansDone

LEMMA InitVisits == LoopInit => VisitsInv
<1> SUFFICES ASSUME LoopInit PROVE VisitsInv
  OBVIOUS
<1> QED BY LoopAssumption DEF LoopInit, VisitsInv, DoneMeansDone, Entries, Seen

\* All counts start again with a find.
LEMMA AddKeepsVisits ==
  ASSUME LoopInv, VisitsInv, AddEntry, step' = step,
         UNCHANGED <<optionVars, was_fuzzed, seek_to, prev_queued, queue_cur, stop_soon>>
  PROVE  VisitsInv'
<1> USE LoopAssumption DEF LoopInv, Entries
<1>1. queued_paths' = queued_paths + 1 /\ queued_paths' <= MaxEntries /\ cycles_wo_finds' = 0
  BY DEF VisitsInv, AddEntry, FindsCount
<1>2. visits' \in [1 .. MaxEntries -> Nat] /\ \A k \in 1 .. MaxEntries : visits'[k] = 0
  BY DEF VisitsInv, AddEntry
<1>3. DoneMeansDone'
  BY DEF AddEntry, DoneMeansDone
<1> QED BY <1>1, <1>2, <1>3 DEF VisitsInv, Seen

\* The entry at hand is seen.
LEMMA VisitedIsSeen ==
  ASSUME LoopInv, VisitsInv, queue_cur # 0, Visited, queue_cur' = queue_cur, step' = "after",
         cycles_wo_finds' = cycles_wo_finds, queued_paths' = queued_paths
  PROVE  /\ visits' \in [1 .. MaxEntries -> Nat]
         /\ \A k \in Entries : visits'[k] >= visits[k] \/ visits'[k] = DoneAfter + 1
         /\ (\A k \in Entries : cycles_wo_finds <= visits[k] + IF Seen(k) THEN 0 ELSE 1)'
<1> USE LoopAssumption DEF LoopInv, VisitsInv, Entries
<1>1. queue_cur \in 1 .. MaxEntries
  OBVIOUS
<1>2. \A k \in 1 .. MaxEntries :
        visits'[k] = IF k = queue_cur THEN UpTo(DoneAfter + 1, visits[k] + 1) ELSE visits[k]
  BY <1>1 DEF Visited
<1>3. visits' \in [1 .. MaxEntries -> Nat]
  BY <1>1 DEF Visited, UpTo
<1>4. \A k \in Entries : visits'[k] >= visits[k] \/ visits'[k] = DoneAfter + 1
  BY <1>1, <1>2 DEF UpTo
<1>5. ASSUME NEW k \in Entries
      PROVE  cycles_wo_finds <= visits'[k] + IF Seen(k)' THEN 0 ELSE 1
  <2>1. CASE k = queue_cur
    BY <1>1, <1>2, <2>1 DEF UpTo, Seen
  <2>2. CASE k # queue_cur
    BY <1>1, <1>2, <2>2 DEF Seen
  <2> QED BY <2>1, <2>2
<1> QED BY <1>3, <1>4, <1>5

\* With that the invariant holds on, and so does an exit that was decided on.
LEMMA VisitedKeepsInv ==
  ASSUME LoopInv, VisitsInv, queue_cur # 0, Visited, queue_cur' = queue_cur, step' = "after",
         was_fuzzed \subseteq was_fuzzed', was_fuzzed' \subseteq Entries,
         UNCHANGED <<just_one, queued_paths, cycles_wo_finds, seek_to, prev_queued, stop_soon>>
  PROVE  VisitsInv'
<1>1. /\ visits' \in [1 .. MaxEntries -> Nat]
      /\ \A k \in Entries : visits'[k] >= visits[k] \/ visits'[k] = DoneAfter + 1
      /\ (\A k \in Entries : cycles_wo_finds <= visits[k] + IF Seen(k) THEN 0 ELSE 1)'
  BY VisitedIsSeen
<1>2. Entries \subseteq 1 .. MaxEntries
  BY LoopAssumption DEF LoopInv, VisitsInv, Entries
<1>3. \A k \in Entries : visits[k] \in Nat /\ visits'[k] \in Nat
  BY <1>1, <1>2 DEF VisitsInv
<1>4. DoneMeansDone'
  BY <1>1, <1>3, LoopAssumption DEF VisitsInv, DoneMeansDone, Entries
<1> QED BY <1>1, <1>4 DEF VisitsInv, Entries

LEMMA NextVisits == LoopInv /\ VisitsInv /\ [LoopNext]_loopVars => VisitsInv'
<1> SUFFICES ASSUME LoopInv, VisitsInv, [LoopNext]_loopVars PROVE VisitsInv'
  OBVIOUS
<1> USE LoopAssumption
<1>1. CASE Cull
  BY <1>1 DEF Cull, LoopInv, VisitsInv, DoneMeansDone, Entries, Seen, cycleVars, optionVars
<1>2. CASE NewCycle
  <2> USE <1>2 DEF NewCycle, SeekLeft, entryVars, optionVars
  <2>1. queue_cur = 0 /\ \A k \in Entries : cycles_wo_finds <= visits[k]
    BY DEF LoopInv, VisitsInv, Seen, Entries
  <2>2. cycles_wo_finds' \in 0 .. DoneAfter + 1 /\ cycles_wo_finds' <= cycles_wo_finds + 1
    BY DEF VisitsInv, WithoutFinds, UpTo
  <2>3. seek_to # 0 => cycles_wo_finds' = 0
    BY DEF LoopInv, VisitsInv, WithoutFinds
  <2>4. \A k \in Entries : (cycles_wo_finds <= visits[k] + IF Seen(k) THEN 0 ELSE 1)'
    BY <2>1, <2>2, <2>3 DEF LoopInv, VisitsInv, Entries, Seen
  <2>5. DoneMeansDone'
    BY DEF VisitsInv, DoneMeansDone, Entries
  <2> QED BY <2>2, <2>4, <2>5 DEF VisitsInv, Entries
<1>3. CASE LeaveOut
  BY <1>3, VisitedKeepsInv DEF LeaveOut, LoopInv, VisitsInv, Entries, entryVars, cycleVars, optionVars
<1>4. CASE FuzzOne
  <2> USE <1>4 DEF FuzzOne, cycleVars, optionVars
  <2>1. CASE step' = "after"
    BY <2>1, VisitedKeepsInv DEF LoopInv, VisitsInv, Entries
  <2>2. CASE step' # "after"
    BY <2>2 DEF VisitsInv, DoneMeansDone, Entries, Seen
  <2> QED BY <2>1, <2>2
<1>5. CASE Find
  BY <1>5, AddKeepsVisits DEF Find, cycleVars
<1>6. CASE EndOfEntry
  <2>1. was_fuzzed \subseteq was_fuzzed' /\ was_fuzzed' \subseteq Entries
    BY <1>6 DEF EndOfEntry, FuzzedNow, LoopInv, VisitsInv, Entries
  <2> QED BY <1>6, <2>1, VisitedKeepsInv DEF EndOfEntry, LoopInv, cycleVars, optionVars
<1>7. CASE After
  BY <1>7 DEF After, LoopInv, VisitsInv, DoneMeansDone, Entries, Seen, entryVars, cycleVars, optionVars
<1>8. CASE Import
  BY <1>8, AddKeepsVisits DEF Import, cycleVars
<1>9. CASE SyncDone
  <2> USE <1>9 DEF SyncDone, entryVars, cycleVars, optionVars
  <2>1. \A k \in Entries : Seen(k)' => Seen(k) \/ (k = queue_cur /\ step = "import")
    BY DEF Seen
  <2> QED BY <2>1 DEF LoopInv, VisitsInv, DoneMeansDone, Entries, Seen
<1>10. CASE NextEntry
  BY <1>10 DEF NextEntry, LoopInv, VisitsInv, DoneMeansDone, Entries, Seen, entryVars, optionVars
<1>11. CASE StopWhenDone
  <2> USE <1>11 DEF StopWhenDone, entryVars, cycleVars, optionVars
  <2>1. IsFiniteSet(Entries) /\ Cardinality(Entries) = queued_paths
    BY FS_Interval DEF Entries, LoopInv
  <2>2. Cardinality(was_fuzzed) = queued_paths
    <3>1. IsFiniteSet(was_fuzzed)
      BY <2>1, FS_Subset DEF VisitsInv
    <3>2. Cardinality(was_fuzzed) \in Nat
      BY <3>1, FS_CardinalityType
    <3> QED BY <3>2 DEF pending_not_fuzzed, LoopInv
  <2>3. was_fuzzed = Entries
    BY <2>1, <2>2, FS_Subset DEF VisitsInv
  <2>4. ASSUME NEW k \in Entries PROVE visits[k] >= DoneAfter
    <3>1. visits[k] \in Nat
      BY DEF LoopInv, VisitsInv, Entries
    <3>2. cycles_wo_finds \in Nat /\ cycles_wo_finds >= DoneAfter + 1
      BY DEF VisitsInv
    <3>3. cycles_wo_finds <= visits[k] + 1
      <4>1. cycles_wo_finds <= visits[k] + IF Seen(k) THEN 0 ELSE 1
        BY DEF VisitsInv
      <4> QED BY <3>1, <3>2, <4>1
    <3> QED BY <3>1, <3>2, <3>3
  <2>5. DoneMeansDone'
    BY <2>3, <2>4 DEF DoneMeansDone, Entries
  <2> QED BY <2>5 DEF VisitsInv, Entries, Seen
<1>12. CASE Signal
  BY <1>12 DEF Signal, VisitsInv, DoneMeansDone, Entries, Seen, entryVars, cycleVars, optionVars
<1>13. CASE UNCHANGED loopVars
  BY <1>13 DEF loopVars, VisitsInv, DoneMeansDone, Entries, Seen, entryVars, cycleVars, optionVars
<1> QED
  BY <1>1, <1>2, <1>3, <1>4, <1>5, <1>6, <1>7, <1>8, <1>9, <1>10, <1>11, <1>12, <1>13
  DEF LoopNext, Loop

\* When the fuzzer ends because it is done, each entry was fuzzed, and looked at
\* DoneAfter times since the last find.
THEOREM DoneIsDone == LoopSpec => []DoneMeansDone
<1>1. VisitsInv => DoneMeansDone
  BY DEF VisitsInv
<1> QED BY <1>1, LoopInitInv, LoopNextInv, InitVisits, NextVisits, PTL DEF LoopSpec

-----------------------------------------------------------------------------
(* The output directory across sessions. *)

\* What the proofs assume of the constants, beyond their types.
CarefulUse == ~Restart /\ KilledIn \cap {"nuke", "trim"} = {}

-----------------------------------------------------------------------------
(* The inductive invariant. *)

DirsOK ==
  /\ queue \in Dirs /\ resume \in Dirs
  /\ ~queue.there => queue.cases = {} /\ queue.det = {} /\ ~queue.state
  /\ ~resume.there => resume.cases = {} /\ resume.det = {} /\ ~resume.state
  /\ pc \in {"read", "pivot", "nuke", "dryrun", "stats", "fuzz", "trim"} => queue.there

\* A new session finds nothing of an old one.
FirstOK ==
  /\ started \in Nat
  /\ started = 0 =>
       /\ pc = "idle" /\ work = {} /\ done = {} /\ found = {}
       /\ ~queue.there /\ ~resume.there
  /\ pc \in {"rename", "delete"} => in_place_resume
  /\ pc \in {"mkdir", "read", "pivot", "nuke"} /\ ~in_place_resume => ~resume.there /\ done = {}

MemOK ==
  /\ pc \in {"idle", "rename", "delete", "mkdir", "read", "pivot", "nuke", "dryrun", "stats",
             "fuzz", "trim", "fatal", "malformed"}
  /\ pc = "trim" => trimmed \subseteq mem
  /\ mem \subseteq Cases /\ passed_det \subseteq mem
  /\ pc \in {"mkdir", "read"} => queue.cases = {}
  /\ pc \in {"pivot", "nuke", "dryrun", "stats", "fuzz", "trim"} => queue.cases \subseteq work
  /\ pc \in {"nuke", "dryrun", "stats", "fuzz", "trim"} => mem \subseteq work
  /\ done \subseteq work

\* Where the saved cases are.
WorkOK ==
  /\ pc \in {"idle", "rename", "malformed"} => work \subseteq NextImport.cases
  /\ pc \in {"delete", "mkdir", "read", "fatal"} => work \subseteq resume.cases
  /\ pc = "pivot" =>
       IF in_place_resume THEN mem = resume.cases /\ mem # {} /\ work \subseteq mem
       ELSE work \subseteq queue.cases
  /\ pc \in {"nuke", "dryrun", "stats", "fuzz"} => work \subseteq queue.cases
  /\ pc = "trim" => work \subseteq queue.cases \cup trimmed
  /\ pc \in {"dryrun", "stats", "fuzz", "trim"} => ~resume.there

\* Where the marks of the finished deterministic stages are.
DoneOK ==
  /\ pc \in {"idle", "rename", "malformed"} => done \subseteq NextImport.det
  /\ pc \in {"delete", "mkdir", "read", "fatal"} => done \subseteq resume.det
  /\ pc = "pivot" /\ in_place_resume => done \subseteq resume.det
  /\ pc \in {"pivot", "nuke", "dryrun", "stats", "fuzz", "trim"} => done \subseteq passed_det
  /\ pc \in {"nuke", "dryrun", "stats", "fuzz", "trim"} => passed_det \subseteq queue.det

FoundOK == found \subseteq crashes \cup backups

Inv == DirsOK /\ FirstOK /\ MemOK /\ WorkOK /\ DoneOK /\ FoundOK

-----------------------------------------------------------------------------
(* Deleting, one system call at a time, keeps a directory well formed. *)

LEMMA DeletesDir ==
  ASSUME NEW d \in Dirs, NEW e, Deletes(d, e),
         ~d.there => d.cases = {} /\ d.det = {} /\ ~d.state
  PROVE  /\ e \in Dirs
         /\ e.cases \subseteq d.cases
         /\ ~e.there => e.cases = {} /\ e.det = {} /\ ~e.state
<1>1. CASE \E c \in d.det : e = [d EXCEPT !.det = @ \ {c}]
  BY <1>1 DEF Dirs
<1>2. CASE d.det = {} /\ d.state /\ e = [d EXCEPT !.state = FALSE]
  BY <1>2 DEF Dirs
<1>3. CASE ~d.state /\ \E c \in d.cases : e = [d EXCEPT !.cases = @ \ {c}]
  BY <1>3 DEF Dirs
<1>4. CASE EmptyDir(d) /\ e = NoDir
  BY <1>4 DEF Dirs, NoDir
<1> QED BY <1>1, <1>2, <1>3, <1>4 DEF Deletes

LEMMA InitInv == Init => Inv
  BY DEF Init, Inv, DirsOK, FirstOK, MemOK, WorkOK, DoneOK, FoundOK, Dirs, NoDir, NextImport, EmptyDir

-----------------------------------------------------------------------------
(* Every action keeps the invariant. *)

LEMMA StartNewInv == CarefulUse /\ Inv /\ StartNew => Inv'
<1> SUFFICES ASSUME CarefulUse, Inv, StartNew PROVE Inv'
  OBVIOUS
<1> USE DEF Inv
<1>1. DirsOK'
  BY DEF DirsOK, StartNew, disk, proc, ghosts, MemOK, Dirs, NoDir, EmptyDir
<1>2. FirstOK'
  BY SessionsAssumption DEF FirstOK, DirsOK, StartNew, disk, proc, ghosts, CarefulUse, NoDir, EmptyDir
<1>3. MemOK'
  BY DEF MemOK, FirstOK, WorkOK, DirsOK, StartNew, disk, proc, ghosts, CarefulUse, Dirs, NoDir
<1>4. WorkOK'
  BY DEF WorkOK, MemOK, FirstOK, DirsOK, StartNew, disk, proc, ghosts, CarefulUse, Dirs, NextImport, EmptyDir, NoDir
<1>5. DoneOK'
  BY DEF DoneOK, WorkOK, MemOK, FirstOK, DirsOK, StartNew, disk, proc, ghosts, CarefulUse, Dirs, NextImport, EmptyDir, NoDir
<1>6. FoundOK'
  BY DEF FoundOK, FirstOK, StartNew, disk, proc, ghosts, CarefulUse
<1> QED BY <1>1, <1>2, <1>3, <1>4, <1>5, <1>6

LEMMA StartResumeInv == Inv /\ StartResume => Inv'
<1> SUFFICES ASSUME Inv, StartResume PROVE Inv'
  OBVIOUS
<1> USE DEF Inv
<1>1. DirsOK'
  BY DEF DirsOK, StartResume, disk, proc, ghosts, MemOK, Dirs, NoDir, EmptyDir
<1>2. FirstOK'
  BY SessionsAssumption DEF FirstOK, DirsOK, StartResume, disk, proc, ghosts, NoDir, EmptyDir
<1>3. MemOK'
  BY DEF MemOK, FirstOK, WorkOK, DirsOK, StartResume, disk, proc, ghosts, Dirs, NoDir
<1>4. WorkOK'
  BY DEF WorkOK, MemOK, FirstOK, DirsOK, StartResume, disk, proc, ghosts, Dirs, NextImport, EmptyDir, NoDir
<1>5. DoneOK'
  BY DEF DoneOK, WorkOK, MemOK, FirstOK, DirsOK, StartResume, disk, proc, ghosts, Dirs, NextImport, EmptyDir, NoDir
<1>6. FoundOK'
  BY DEF FoundOK, FirstOK, StartResume, disk, proc, ghosts
<1> QED BY <1>1, <1>2, <1>3, <1>4, <1>5, <1>6

LEMMA RenameInv == Inv /\ Rename => Inv'
<1> SUFFICES ASSUME Inv, Rename PROVE Inv'
  OBVIOUS
<1> USE DEF Inv
<1>0. NoDir \in Dirs /\ ~NoDir.there /\ NoDir.cases = {} /\ NoDir.det = {} /\ ~NoDir.state
  BY DEF NoDir, Dirs
<1>1. DirsOK'
  BY <1>0 DEF DirsOK, Rename, disk, proc, ghosts, EmptyDir
<1>2. FirstOK'
  BY <1>0 DEF FirstOK, DirsOK, Rename, disk, proc, ghosts, NoDir, EmptyDir
<1>3. MemOK'
  BY <1>0 DEF MemOK, FirstOK, WorkOK, DirsOK, Rename, disk, proc, ghosts, Dirs, NoDir
<1>4. WorkOK'
  BY <1>0 DEF WorkOK, MemOK, FirstOK, DirsOK, Rename, disk, proc, ghosts, Dirs, NextImport, EmptyDir, NoDir
<1>5. DoneOK'
  BY <1>0 DEF DoneOK, WorkOK, MemOK, FirstOK, DirsOK, Rename, disk, proc, ghosts, Dirs, NextImport, EmptyDir, NoDir
<1>6. FoundOK'
  BY DEF FoundOK, FirstOK, Rename, disk, proc, ghosts
<1> QED BY <1>1, <1>2, <1>3, <1>4, <1>5, <1>6

LEMMA DeleteQueueInv == Inv /\ DeleteQueue => Inv'
<1> SUFFICES ASSUME Inv, DeleteQueue PROVE Inv'
  OBVIOUS
<1> USE DEF Inv
<1>0. queue' \in Dirs /\ queue'.cases \subseteq queue.cases
        /\ (~queue'.there => queue'.cases = {} /\ queue'.det = {} /\ ~queue'.state)
  BY DeletesDir DEF DeleteQueue, DirsOK
<1>1. DirsOK'
  BY <1>0 DEF DirsOK, DeleteQueue, disk, proc, ghosts, MemOK, Dirs, NoDir, EmptyDir
<1>2. FirstOK'
  BY <1>0 DEF FirstOK, DirsOK, DeleteQueue, disk, proc, ghosts, NoDir, EmptyDir
<1>3. MemOK'
  BY <1>0 DEF MemOK, FirstOK, WorkOK, DirsOK, DeleteQueue, disk, proc, ghosts, Dirs, NoDir
<1>4. WorkOK'
  BY <1>0 DEF WorkOK, MemOK, FirstOK, DirsOK, DeleteQueue, disk, proc, ghosts, Dirs, NextImport, EmptyDir, NoDir
<1>5. DoneOK'
  BY <1>0 DEF DoneOK, WorkOK, MemOK, FirstOK, DirsOK, DeleteQueue, disk, proc, ghosts, Dirs, NextImport, EmptyDir, NoDir
<1>6. FoundOK'
  BY DEF FoundOK, FirstOK, DeleteQueue, disk, proc, ghosts
<1> QED BY <1>1, <1>2, <1>3, <1>4, <1>5, <1>6

LEMMA BackupInv == Inv /\ Backup => Inv'
<1> SUFFICES ASSUME Inv, Backup PROVE Inv'
  OBVIOUS
<1> USE DEF Inv
<1>1. DirsOK'
  BY DEF DirsOK, Backup, disk, proc, ghosts, MemOK, Dirs, NoDir, EmptyDir
<1>2. FirstOK'
  BY DEF FirstOK, DirsOK, Backup, disk, proc, ghosts, NoDir, EmptyDir
<1>3. MemOK'
  BY DEF MemOK, FirstOK, WorkOK, DirsOK, Backup, disk, proc, ghosts, Dirs, NoDir
<1>4. WorkOK'
  BY DEF WorkOK, MemOK, FirstOK, DirsOK, Backup, disk, proc, ghosts, Dirs, NextImport, EmptyDir, NoDir
<1>5. DoneOK'
  BY DEF DoneOK, WorkOK, MemOK, FirstOK, DirsOK, Backup, disk, proc, ghosts, Dirs, NextImport, EmptyDir, NoDir
<1>6. FoundOK'
  BY DEF FoundOK, FirstOK, Backup, disk, proc, ghosts
<1> QED BY <1>1, <1>2, <1>3, <1>4, <1>5, <1>6

LEMMA MakeQueueInv == Inv /\ MakeQueue => Inv'
<1> SUFFICES ASSUME Inv, MakeQueue PROVE Inv'
  OBVIOUS
<1> USE DEF Inv
<1>1. DirsOK'
  BY DEF DirsOK, MakeQueue, disk, proc, ghosts, MemOK, Dirs, NoDir, EmptyDir
<1>2. FirstOK'
  BY DEF FirstOK, DirsOK, MakeQueue, disk, proc, ghosts, NoDir, EmptyDir
<1>3. MemOK'
  BY DEF MemOK, FirstOK, WorkOK, DirsOK, MakeQueue, disk, proc, ghosts, Dirs, NoDir
<1>4. WorkOK'
  BY DEF WorkOK, MemOK, FirstOK, DirsOK, MakeQueue, disk, proc, ghosts, Dirs, NextImport, EmptyDir, NoDir
<1>5. DoneOK'
  BY DEF DoneOK, WorkOK, MemOK, FirstOK, DirsOK, MakeQueue, disk, proc, ghosts, Dirs, NextImport, EmptyDir, NoDir
<1>6. FoundOK'
  BY DEF FoundOK, FirstOK, MakeQueue, disk, proc, ghosts
<1> QED BY <1>1, <1>2, <1>3, <1>4, <1>5, <1>6

LEMMA ReadTestcasesInv == Inv /\ ReadTestcases => Inv'
<1> SUFFICES ASSUME Inv, ReadTestcases PROVE Inv'
  OBVIOUS
<1> USE DEF Inv
<1>1. DirsOK'
  BY DEF DirsOK, ReadTestcases, disk, proc, ghosts, MemOK, Dirs, NoDir, EmptyDir
<1>2. FirstOK'
  BY DEF FirstOK, DirsOK, ReadTestcases, disk, proc, ghosts, NoDir, EmptyDir
<1>3. MemOK'
  BY SeedsAssumption DEF MemOK, FirstOK, WorkOK, DirsOK, ReadTestcases, disk, proc, ghosts, Dirs, NoDir
<1>4. WorkOK'
  BY SeedsAssumption DEF WorkOK, MemOK, FirstOK, DirsOK, ReadTestcases, disk, proc, ghosts, Dirs, NextImport, EmptyDir, NoDir
<1>5. DoneOK'
  BY DEF DoneOK, WorkOK, MemOK, FirstOK, DirsOK, ReadTestcases, disk, proc, ghosts, Dirs, NextImport, EmptyDir, NoDir
<1>6. FoundOK'
  BY DEF FoundOK, FirstOK, ReadTestcases, disk, proc, ghosts
<1> QED BY <1>1, <1>2, <1>3, <1>4, <1>5, <1>6

LEMMA PivotLinkInv == Inv /\ PivotLink => Inv'
<1> SUFFICES ASSUME Inv, PivotLink PROVE Inv'
  OBVIOUS
<1> USE DEF Inv
<1>1. DirsOK'
  BY DEF DirsOK, PivotLink, Unmarked, disk, proc, ghosts, MemOK, Dirs, NoDir, EmptyDir
<1>2. FirstOK'
  BY DEF FirstOK, DirsOK, PivotLink, Unmarked, disk, proc, ghosts, NoDir, EmptyDir
<1>3. MemOK'
  BY DEF MemOK, FirstOK, WorkOK, DirsOK, PivotLink, Unmarked, disk, proc, ghosts, Dirs, NoDir
<1>4. WorkOK'
  BY DEF WorkOK, MemOK, FirstOK, DirsOK, PivotLink, Unmarked, disk, proc, ghosts, Dirs, NextImport, EmptyDir, NoDir
<1>5. DoneOK'
  BY DEF DoneOK, WorkOK, MemOK, FirstOK, DirsOK, PivotLink, Unmarked, disk, proc, ghosts, Dirs, NextImport, EmptyDir, NoDir
<1>6. FoundOK'
  BY DEF FoundOK, FirstOK, PivotLink, Unmarked, disk, proc, ghosts
<1> QED BY <1>1, <1>2, <1>3, <1>4, <1>5, <1>6

LEMMA PivotMarkInv == Inv /\ PivotMark => Inv'
<1> SUFFICES ASSUME Inv, PivotMark PROVE Inv'
  OBVIOUS
<1> USE DEF Inv
<1>1. DirsOK'
  BY DEF DirsOK, PivotMark, Unmarked, disk, proc, ghosts, MemOK, Dirs, NoDir, EmptyDir
<1>2. FirstOK'
  BY DEF FirstOK, DirsOK, PivotMark, Unmarked, disk, proc, ghosts, NoDir, EmptyDir
<1>3. MemOK'
  BY DEF MemOK, FirstOK, WorkOK, DirsOK, PivotMark, Unmarked, disk, proc, ghosts, Dirs, NoDir
<1>4. WorkOK'
  BY DEF WorkOK, MemOK, FirstOK, DirsOK, PivotMark, Unmarked, disk, proc, ghosts, Dirs, NextImport, EmptyDir, NoDir
<1>5. DoneOK'
  BY DEF DoneOK, WorkOK, MemOK, FirstOK, DirsOK, PivotMark, Unmarked, disk, proc, ghosts, Dirs, NextImport, EmptyDir, NoDir
<1>6. FoundOK'
  BY DEF FoundOK, FirstOK, PivotMark, Unmarked, disk, proc, ghosts
<1> QED BY <1>1, <1>2, <1>3, <1>4, <1>5, <1>6

LEMMA PivotDoneInv == Inv /\ PivotDone => Inv'
<1> SUFFICES ASSUME Inv, PivotDone PROVE Inv'
  OBVIOUS
<1> USE DEF Inv
<1>1. DirsOK'
  BY DEF DirsOK, PivotDone, Unmarked, disk, proc, ghosts, MemOK, Dirs, NoDir, EmptyDir
<1>2. FirstOK'
  BY DEF FirstOK, DirsOK, PivotDone, Unmarked, disk, proc, ghosts, NoDir, EmptyDir
<1>3. MemOK'
  BY DEF MemOK, FirstOK, WorkOK, DirsOK, PivotDone, Unmarked, disk, proc, ghosts, Dirs, NoDir
<1>4. WorkOK'
  BY DEF WorkOK, MemOK, FirstOK, DirsOK, PivotDone, Unmarked, disk, proc, ghosts, Dirs, NextImport, EmptyDir, NoDir
<1>5. DoneOK'
  BY DEF DoneOK, WorkOK, MemOK, FirstOK, DirsOK, PivotDone, Unmarked, disk, proc, ghosts, Dirs, NextImport, EmptyDir, NoDir
<1>6. FoundOK'
  BY DEF FoundOK, FirstOK, PivotDone, Unmarked, disk, proc, ghosts
<1> QED BY <1>1, <1>2, <1>3, <1>4, <1>5, <1>6

LEMMA NukeInv == Inv /\ Nuke => Inv'
<1> SUFFICES ASSUME Inv, Nuke PROVE Inv'
  OBVIOUS
<1> USE DEF Inv
<1>0. resume' \in Dirs /\ (~resume'.there => resume'.cases = {} /\ resume'.det = {} /\ ~resume'.state)
  BY DeletesDir DEF Nuke, DirsOK
<1>1. DirsOK'
  BY <1>0 DEF DirsOK, Nuke, disk, proc, ghosts, MemOK, Dirs, NoDir, EmptyDir
<1>2. FirstOK'
  BY <1>0 DEF FirstOK, DirsOK, Nuke, disk, proc, ghosts, NoDir, EmptyDir
<1>3. MemOK'
  BY <1>0 DEF MemOK, FirstOK, WorkOK, DirsOK, Nuke, disk, proc, ghosts, Dirs, NoDir
<1>4. WorkOK'
  BY <1>0 DEF WorkOK, MemOK, FirstOK, DirsOK, Nuke, disk, proc, ghosts, Dirs, NextImport, EmptyDir, NoDir
<1>5. DoneOK'
  BY <1>0 DEF DoneOK, WorkOK, MemOK, FirstOK, DirsOK, Nuke, disk, proc, ghosts, Dirs, NextImport, EmptyDir, NoDir
<1>6. FoundOK'
  BY DEF FoundOK, FirstOK, Nuke, disk, proc, ghosts
<1> QED BY <1>1, <1>2, <1>3, <1>4, <1>5, <1>6

LEMMA DryRunInv == Inv /\ DryRun => Inv'
<1> SUFFICES ASSUME Inv, DryRun PROVE Inv'
  OBVIOUS
<1> USE DEF Inv
<1>1. DirsOK'
  BY DEF DirsOK, DryRun, disk, proc, ghosts, MemOK, Dirs, NoDir, EmptyDir
<1>2. FirstOK'
  BY DEF FirstOK, DirsOK, DryRun, disk, proc, ghosts, NoDir, EmptyDir
<1>3. MemOK'
  BY DEF MemOK, FirstOK, WorkOK, DirsOK, DryRun, disk, proc, ghosts, Dirs, NoDir
<1>4. WorkOK'
  BY DEF WorkOK, MemOK, FirstOK, DirsOK, DryRun, disk, proc, ghosts, Dirs, NextImport, EmptyDir, NoDir
<1>5. DoneOK'
  BY DEF DoneOK, WorkOK, MemOK, FirstOK, DirsOK, DryRun, disk, proc, ghosts, Dirs, NextImport, EmptyDir, NoDir
<1>6. FoundOK'
  BY DEF FoundOK, FirstOK, DryRun, disk, proc, ghosts
<1> QED BY <1>1, <1>2, <1>3, <1>4, <1>5, <1>6

LEMMA WriteStatsInv == Inv /\ WriteStats => Inv'
<1> SUFFICES ASSUME Inv, WriteStats PROVE Inv'
  OBVIOUS
<1> USE DEF Inv
<1>1. DirsOK'
  BY DEF DirsOK, WriteStats, disk, proc, ghosts, MemOK, Dirs, NoDir, EmptyDir
<1>2. FirstOK'
  BY DEF FirstOK, DirsOK, WriteStats, disk, proc, ghosts, NoDir, EmptyDir
<1>3. MemOK'
  BY DEF MemOK, FirstOK, WorkOK, DirsOK, WriteStats, disk, proc, ghosts, Dirs, NoDir
<1>4. WorkOK'
  BY DEF WorkOK, MemOK, FirstOK, DirsOK, WriteStats, disk, proc, ghosts, Dirs, NextImport, EmptyDir, NoDir
<1>5. DoneOK'
  BY DEF DoneOK, WorkOK, MemOK, FirstOK, DirsOK, WriteStats, disk, proc, ghosts, Dirs, NextImport, EmptyDir, NoDir
<1>6. FoundOK'
  BY DEF FoundOK, FirstOK, WriteStats, disk, proc, ghosts
<1> QED BY <1>1, <1>2, <1>3, <1>4, <1>5, <1>6

LEMMA UpdateStatsInv == Inv /\ UpdateStats => Inv'
<1> SUFFICES ASSUME Inv, UpdateStats PROVE Inv'
  OBVIOUS
<1> USE DEF Inv
<1>1. DirsOK'
  BY DEF DirsOK, UpdateStats, disk, proc, ghosts, MemOK, Dirs, NoDir, EmptyDir
<1>2. FirstOK'
  BY DEF FirstOK, DirsOK, UpdateStats, disk, proc, ghosts, NoDir, EmptyDir
<1>3. MemOK'
  BY DEF MemOK, FirstOK, WorkOK, DirsOK, UpdateStats, disk, proc, ghosts, Dirs, NoDir
<1>4. WorkOK'
  BY DEF WorkOK, MemOK, FirstOK, DirsOK, UpdateStats, disk, proc, ghosts, Dirs, NextImport, EmptyDir, NoDir
<1>5. DoneOK'
  BY DEF DoneOK, WorkOK, MemOK, FirstOK, DirsOK, UpdateStats, disk, proc, ghosts, Dirs, NextImport, EmptyDir, NoDir
<1>6. FoundOK'
  BY DEF FoundOK, FirstOK, UpdateStats, disk, proc, ghosts
<1> QED BY <1>1, <1>2, <1>3, <1>4, <1>5, <1>6

LEMMA FindCaseInv == Inv /\ FindCase => Inv'
<1> SUFFICES ASSUME Inv, FindCase PROVE Inv'
  OBVIOUS
<1> USE DEF Inv
<1>1. DirsOK'
  BY DEF DirsOK, FindCase, disk, proc, ghosts, MemOK, Dirs, NoDir, EmptyDir
<1>2. FirstOK'
  BY DEF FirstOK, DirsOK, FindCase, disk, proc, ghosts, NoDir, EmptyDir
<1>3. MemOK'
  BY DEF MemOK, FirstOK, WorkOK, DirsOK, FindCase, disk, proc, ghosts, Dirs, NoDir
<1>4. WorkOK'
  BY DEF WorkOK, MemOK, FirstOK, DirsOK, FindCase, disk, proc, ghosts, Dirs, NextImport, EmptyDir, NoDir
<1>5. DoneOK'
  BY DEF DoneOK, WorkOK, MemOK, FirstOK, DirsOK, FindCase, disk, proc, ghosts, Dirs, NextImport, EmptyDir, NoDir
<1>6. FoundOK'
  BY DEF FoundOK, FirstOK, FindCase, disk, proc, ghosts
<1> QED BY <1>1, <1>2, <1>3, <1>4, <1>5, <1>6

LEMMA FindCrashInv == Inv /\ FindCrash => Inv'
<1> SUFFICES ASSUME Inv, FindCrash PROVE Inv'
  OBVIOUS
<1> USE DEF Inv
<1>1. DirsOK'
  BY DEF DirsOK, FindCrash, disk, proc, ghosts, MemOK, Dirs, NoDir, EmptyDir
<1>2. FirstOK'
  BY DEF FirstOK, DirsOK, FindCrash, disk, proc, ghosts, NoDir, EmptyDir
<1>3. MemOK'
  BY DEF MemOK, FirstOK, WorkOK, DirsOK, FindCrash, disk, proc, ghosts, Dirs, NoDir
<1>4. WorkOK'
  BY DEF WorkOK, MemOK, FirstOK, DirsOK, FindCrash, disk, proc, ghosts, Dirs, NextImport, EmptyDir, NoDir
<1>5. DoneOK'
  BY DEF DoneOK, WorkOK, MemOK, FirstOK, DirsOK, FindCrash, disk, proc, ghosts, Dirs, NextImport, EmptyDir, NoDir
<1>6. FoundOK'
  BY DEF FoundOK, FirstOK, FindCrash, disk, proc, ghosts
<1> QED BY <1>1, <1>2, <1>3, <1>4, <1>5, <1>6

LEMMA DetDoneInv == Inv /\ DetDone => Inv'
<1> SUFFICES ASSUME Inv, DetDone PROVE Inv'
  OBVIOUS
<1> USE DEF Inv
<1>1. DirsOK'
  BY DEF DirsOK, DetDone, disk, proc, ghosts, MemOK, Dirs, NoDir, EmptyDir
<1>2. FirstOK'
  BY DEF FirstOK, DirsOK, DetDone, disk, proc, ghosts, NoDir, EmptyDir
<1>3. MemOK'
  BY DEF MemOK, FirstOK, WorkOK, DirsOK, DetDone, disk, proc, ghosts, Dirs, NoDir
<1>4. WorkOK'
  BY DEF WorkOK, MemOK, FirstOK, DirsOK, DetDone, disk, proc, ghosts, Dirs, NextImport, EmptyDir, NoDir
<1>5. DoneOK'
  BY DEF DoneOK, WorkOK, MemOK, FirstOK, DirsOK, DetDone, disk, proc, ghosts, Dirs, NextImport, EmptyDir, NoDir
<1>6. FoundOK'
  BY DEF FoundOK, FirstOK, DetDone, disk, proc, ghosts
<1> QED BY <1>1, <1>2, <1>3, <1>4, <1>5, <1>6

LEMMA TrimUnlinkInv == Inv /\ TrimUnlink => Inv'
<1> SUFFICES ASSUME Inv, TrimUnlink PROVE Inv'
  OBVIOUS
<1> USE DEF Inv
<1>1. DirsOK'
  BY DEF DirsOK, TrimUnlink, disk, proc, ghosts, MemOK, Dirs, NoDir, EmptyDir
<1>2. FirstOK'
  BY DEF FirstOK, DirsOK, TrimUnlink, disk, proc, ghosts, NoDir, EmptyDir
<1>3. MemOK'
  BY DEF MemOK, FirstOK, WorkOK, DirsOK, TrimUnlink, disk, proc, ghosts, Dirs, NoDir
<1>4. WorkOK'
  BY DEF WorkOK, MemOK, FirstOK, DirsOK, TrimUnlink, disk, proc, ghosts, Dirs, NextImport, EmptyDir, NoDir
<1>5. DoneOK'
  BY DEF DoneOK, WorkOK, MemOK, FirstOK, DirsOK, TrimUnlink, disk, proc, ghosts, Dirs, NextImport, EmptyDir, NoDir
<1>6. FoundOK'
  BY DEF FoundOK, FirstOK, TrimUnlink, disk, proc, ghosts
<1> QED BY <1>1, <1>2, <1>3, <1>4, <1>5, <1>6

LEMMA TrimWriteInv == Inv /\ TrimWrite => Inv'
<1> SUFFICES ASSUME Inv, TrimWrite PROVE Inv'
  OBVIOUS
<1> USE DEF Inv
<1>1. DirsOK'
  BY DEF DirsOK, TrimWrite, disk, proc, ghosts, MemOK, Dirs, NoDir, EmptyDir
<1>2. FirstOK'
  BY DEF FirstOK, DirsOK, TrimWrite, disk, proc, ghosts, NoDir, EmptyDir
<1>3. MemOK'
  BY DEF MemOK, FirstOK, WorkOK, DirsOK, TrimWrite, disk, proc, ghosts, Dirs, NoDir
<1>4. WorkOK'
  BY DEF WorkOK, MemOK, FirstOK, DirsOK, TrimWrite, disk, proc, ghosts, Dirs, NextImport, EmptyDir, NoDir
<1>5. DoneOK'
  BY DEF DoneOK, WorkOK, MemOK, FirstOK, DirsOK, TrimWrite, disk, proc, ghosts, Dirs, NextImport, EmptyDir, NoDir
<1>6. FoundOK'
  BY DEF FoundOK, FirstOK, TrimWrite, disk, proc, ghosts
<1> QED BY <1>1, <1>2, <1>3, <1>4, <1>5, <1>6

LEMMA EndsInv == CarefulUse /\ Inv /\ Ends => Inv'
<1> SUFFICES ASSUME CarefulUse, Inv, Ends PROVE Inv'
  OBVIOUS
<1> USE DEF Inv
<1>0. pc \notin {"nuke", "trim"}
  BY DEF Ends, Phase, CarefulUse
<1>1. DirsOK'
  BY <1>0 DEF DirsOK, Ends, Phase, disk, proc, ghosts, MemOK, Dirs, NoDir, EmptyDir
<1>2. FirstOK'
  BY <1>0 DEF FirstOK, DirsOK, Ends, Phase, disk, proc, ghosts, CarefulUse, NoDir, EmptyDir
<1>3. MemOK'
  BY <1>0 DEF MemOK, FirstOK, WorkOK, DirsOK, Ends, Phase, disk, proc, ghosts, CarefulUse, Dirs, NoDir
<1>4. WorkOK'
  BY <1>0 DEF WorkOK, MemOK, FirstOK, DirsOK, Ends, Phase, disk, proc, ghosts, CarefulUse, Dirs, NextImport, EmptyDir, NoDir
<1>5. DoneOK'
  BY <1>0 DEF DoneOK, WorkOK, MemOK, FirstOK, DirsOK, Ends, Phase, disk, proc, ghosts, CarefulUse, Dirs, NextImport, EmptyDir, NoDir
<1>6. FoundOK'
  BY DEF FoundOK, FirstOK, Ends, Phase, disk, proc, ghosts, CarefulUse
<1> QED BY <1>1, <1>2, <1>3, <1>4, <1>5, <1>6

LEMMA NextInv == CarefulUse /\ Inv /\ [Next]_vars => Inv'
<1> SUFFICES ASSUME CarefulUse, Inv, [Next]_vars PROVE Inv'
  OBVIOUS
<1>1. CASE StartNew
  BY <1>1, StartNewInv
<1>2. CASE StartResume
  BY <1>2, StartResumeInv
<1>3. CASE Rename
  BY <1>3, RenameInv
<1>4. CASE DeleteQueue
  BY <1>4, DeleteQueueInv
<1>5. CASE Backup
  BY <1>5, BackupInv
<1>6. CASE MakeQueue
  BY <1>6, MakeQueueInv
<1>7. CASE ReadTestcases
  BY <1>7, ReadTestcasesInv
<1>8. CASE PivotLink
  BY <1>8, PivotLinkInv
<1>9. CASE PivotMark
  BY <1>9, PivotMarkInv
<1>10. CASE PivotDone
  BY <1>10, PivotDoneInv
<1>11. CASE Nuke
  BY <1>11, NukeInv
<1>12. CASE DryRun
  BY <1>12, DryRunInv
<1>13. CASE WriteStats
  BY <1>13, WriteStatsInv
<1>14. CASE UpdateStats
  BY <1>14, UpdateStatsInv
<1>15. CASE FindCase
  BY <1>15, FindCaseInv
<1>16. CASE FindCrash
  BY <1>16, FindCrashInv
<1>17. CASE DetDone
  BY <1>17, DetDoneInv
<1>18. CASE TrimUnlink
  BY <1>18, TrimUnlinkInv
<1>19. CASE TrimWrite
  BY <1>19, TrimWriteInv
<1>20. CASE Ends
  BY <1>20, EndsInv
<1>21. CASE UNCHANGED vars
  BY <1>21 DEF vars, disk, proc, ghosts, Inv, DirsOK, FirstOK, MemOK, WorkOK, DoneOK, FoundOK,
          NextImport, EmptyDir
<1> QED BY <1>1, <1>2, <1>3, <1>4, <1>5, <1>6, <1>7, <1>8, <1>9, <1>10, <1>11, <1>12, <1>13, <1>14, <1>15, <1>16, <1>17, <1>18, <1>19, <1>20, <1>21 DEF Next

\* Whatever is killed and resumed, and however often, the next resume imports
\* every test case the session has saved, and every crash found is in crashes/
\* or in one of its backups.
THEOREM NothingIsLost == CarefulUse /\ Spec => []SessionKept
<1>1. CarefulUse /\ Inv /\ [Next]_vars => Inv'
  BY NextInv
<1>2. Inv => SessionKept
  BY DEF Inv, WorkOK, DoneOK, FoundOK, NothingLost, CrashesKept, SessionKept
<1>3. CASE CarefulUse
  <2>1. Inv /\ [Next]_vars => Inv'
    BY <1>1, <1>3
  <2> QED BY <2>1, <1>2, InitInv, PTL DEF Spec
<1>4. CASE ~CarefulUse
  BY <1>4
<1> QED BY <1>3, <1>4

\* An entry whose deterministic stages were done is known to have done them
\* in every later session.
THEOREM DetStagesOnce == CarefulUse /\ Spec => []DetNotRepeated
<1>1. CarefulUse /\ Inv /\ [Next]_vars => Inv'
  BY NextInv
<1>2. Inv => DetNotRepeated
  BY DEF Inv, WorkOK, DoneOK, FoundOK, DetNotRepeated
<1>3. CASE CarefulUse
  <2>1. Inv /\ [Next]_vars => Inv'
    BY <1>1, <1>3
  <2> QED BY <2>1, <1>2, InitInv, PTL DEF Spec
<1>4. CASE ~CarefulUse
  BY <1>4
<1> QED BY <1>3, <1>4

-----------------------------------------------------------------------------
(* The crashes alone need no care: a restart forgets them on purpose.       *)

\* Only a directory whose crashes no longer count is emptied without a backup.
CrashInv ==
  /\ FoundOK
  /\ pc = "rename" => in_place_resume
  /\ pc = "delete" => in_place_resume \/ found = {}

LEMMA CrashInitInv == Init => CrashInv
  BY DEF Init, CrashInv, FoundOK

LEMMA CrashNextInv == CrashInv /\ [Next]_vars => CrashInv'
<1> SUFFICES ASSUME CrashInv, [Next]_vars PROVE CrashInv'
  OBVIOUS
<1> USE DEF CrashInv, FoundOK, disk, proc, ghosts
<1>1. CASE StartNew \/ StartResume
  BY <1>1 DEF StartNew, StartResume
<1>2. CASE Rename
  BY <1>2 DEF Rename
<1>3. CASE Backup
  BY <1>3 DEF Backup
<1>4. CASE FindCrash
  BY <1>4 DEF FindCrash
<1>5. CASE DeleteQueue \/ MakeQueue
  BY <1>5 DEF DeleteQueue, MakeQueue
<1>6. CASE ReadTestcases \/ PivotLink \/ PivotMark \/ PivotDone \/ Nuke
  BY <1>6 DEF ReadTestcases, PivotLink, PivotMark, PivotDone, Nuke
<1>7. CASE DryRun \/ WriteStats \/ UpdateStats
  BY <1>7 DEF DryRun, WriteStats, UpdateStats
<1>8. CASE FindCase \/ DetDone \/ TrimUnlink \/ TrimWrite
  BY <1>8 DEF FindCase, DetDone, TrimUnlink, TrimWrite
<1>9. CASE Ends \/ UNCHANGED vars
  BY <1>9 DEF Ends, vars
<1> QED BY <1>1, <1>2, <1>3, <1>4, <1>5, <1>6, <1>7, <1>8, <1>9 DEF Next

\* Whatever the session is killed in, and whether or not a new one was started
\* over its directory, a crash found since is in crashes/ or in a backup of it.
THEOREM CrashesOutlive == Spec => []CrashesKept
<1>1. CrashInv => CrashesKept
  BY DEF CrashInv, FoundOK, CrashesKept
<1> QED BY <1>1, CrashInitInv, CrashNextInv, PTL DEF Spec
=============================================================================
