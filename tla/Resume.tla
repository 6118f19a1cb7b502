--------------------------------- MODULE Resume ---------------------------------
(***************************************************************************)
(* The output directory across sessions: setup_dirs_fds and                *)
(* maybe_delete_out_dir, read_testcases, pivot_inputs, nuke_resume_dir, the *)
(* files a running session writes, and a process that is killed between    *)
(* any two system calls.  A directory of test cases is the set of its      *)
(* complete files (an empty one is ignored by read_testcases) with the     *)
(* deterministic_done marks in its .state directory; names are left out.   *)
(***************************************************************************)
EXTENDS Integers, FiniteSets

CONSTANTS
  Cases,      \* test cases, by content
  Seeds,      \* those of the input directory
  Crashes,    \* crashing inputs
  Timeouts,   \* values exec_tmout may be scaled to
  Sessions,   \* bound on the number of starts
  Restart,    \* may a new session be started over the directory of an old one?
  KilledIn    \* phases of a process in which it may be killed

Phases == {"setup", "import", "nuke", "run", "trim", "stats"}

ASSUME SeedsAssumption == Seeds \subseteq Cases /\ Seeds # {}
ASSUME SessionsAssumption == Sessions \in Nat \ {0} /\ Restart \in BOOLEAN
ASSUME KilledInAssumption == KilledIn \subseteq Phases
ASSUME TimeoutsAssumption == Timeouts \subseteq Nat \ {0}

VARIABLES
  queue, resume,     \* <out_dir>/queue and <out_dir>/_resume
  crashes, backups,  \* crashes/ and the renamed crashes.<time>/
  fuzzer_stats,      \* no such file, cut off, or the timeout it records
  pc, in_place_resume,
  mem, passed_det,   \* the queue in memory
  exec_tmout,
  trimmed,           \* the case trim_case() has unlinked
  started,           \* number of starts so far
  work, found, done  \* ghosts: the cases and crashes the session has saved and the
                     \* cases whose deterministic stages it has done, since it was new

disk == <<queue, resume, crashes, backups, fuzzer_stats>>
proc == <<in_place_resume, mem, passed_det, exec_tmout, trimmed>>
ghosts == <<work, found, done>>
vars == <<disk, pc, proc, started, ghosts>>

NoDir == [there |-> FALSE, cases |-> {}, det |-> {}, state |-> FALSE]
EmptyDir(d) == d.there /\ d.cases = {} /\ ~d.state

NoFile == 0
Torn   == -1

Init ==
  /\ queue = NoDir /\ resume = NoDir
  /\ crashes = {} /\ backups = {}
  /\ fuzzer_stats = NoFile
  /\ pc = "idle" /\ in_place_resume = FALSE
  /\ mem = {} /\ passed_det = {} /\ exec_tmout = 0 /\ trimmed = {}
  /\ started = 0 /\ work = {} /\ found = {} /\ done = {}

-----------------------------------------------------------------------------
(* Start: setup_dirs_fds(), the out_dir is there from the second start on. *)

\* afl-fuzz -i <dir>; a short session that is in the way is given up.
StartNew ==
  /\ pc = "idle" /\ started < Sessions
  /\ started = 0 \/ Restart
  /\ started' = started + 1
  /\ in_place_resume' = FALSE
  /\ pc' = IF started = 0 THEN "mkdir" ELSE IF fuzzer_stats = Torn THEN "malformed" ELSE "delete"
  /\ IF pc' = "delete" THEN work' = {} /\ found' = {} /\ done' = {} ELSE UNCHANGED ghosts
  /\ UNCHANGED <<disk, mem, passed_det, exec_tmout, trimmed>>

\* afl-fuzz -i-
StartResume ==
  /\ pc = "idle" /\ started < Sessions /\ started > 0
  /\ started' = started + 1
  /\ in_place_resume' = TRUE
  /\ pc' = IF fuzzer_stats = Torn THEN "malformed" ELSE "rename"
  /\ UNCHANGED <<disk, mem, passed_det, exec_tmout, trimmed, ghosts>>

\* (faulty) a _resume directory left behind is replaced whatever it holds.
RenameAlways ==
  /\ pc = "rename"
  /\ IF queue.there
       THEN resume' = queue /\ queue' = NoDir
       ELSE UNCHANGED <<queue, resume>>
  /\ pc' = "delete"
  /\ UNCHANGED <<crashes, backups, fuzzer_stats, proc, started, ghosts>>

\* rename() puts queue/ where no directory, or an empty one, is; its errors are
\* ignored.
Rename ==
  /\ pc = "rename"
  /\ IF queue.there /\ (~resume.there \/ EmptyDir(resume))
       THEN resume' = queue /\ queue' = NoDir
       ELSE UNCHANGED <<queue, resume>>
  /\ pc' = "delete"
  /\ UNCHANGED <<crashes, backups, fuzzer_stats, proc, started, ghosts>>

\* One system call of emptying d: the marks, .state, the cases, d itself.
Deletes(d, e) ==
  \/ \E c \in d.det : e = [d EXCEPT !.det = @ \ {c}]
  \/ d.det = {} /\ d.state /\ e = [d EXCEPT !.state = FALSE]
  \/ ~d.state /\ \E c \in d.cases : e = [d EXCEPT !.cases = @ \ {c}]
  \/ EmptyDir(d) /\ e = NoDir

DeleteQueue ==
  /\ pc = "delete" /\ queue.there
  /\ Deletes(queue, queue')
  /\ UNCHANGED <<resume, crashes, backups, fuzzer_stats, pc, proc, started, ghosts>>

\* The crashes are kept under another name, or deleted in a new session; the
\* time in the name is taken as unique.
Backup ==
  /\ pc = "delete" /\ ~queue.there
  /\ crashes' = {}
  /\ backups' = IF in_place_resume THEN backups \cup crashes ELSE backups
  /\ fuzzer_stats' = IF in_place_resume THEN fuzzer_stats ELSE NoFile
  /\ pc' = "mkdir"
  /\ UNCHANGED <<queue, resume, proc, started, ghosts>>

MakeQueue ==
  /\ pc = "mkdir" /\ ~queue.state
  /\ queue' = IF queue.there THEN [queue EXCEPT !.state = TRUE] ELSE [queue EXCEPT !.there = TRUE]
  /\ pc' = IF queue.there THEN "read" ELSE "mkdir"
  /\ UNCHANGED <<resume, crashes, backups, fuzzer_stats, proc, started, ghosts>>

\* read_testcases()
ReadTestcases ==
  /\ pc = "read"
  /\ mem' = IF in_place_resume THEN resume.cases ELSE Seeds
  /\ passed_det' = IF in_place_resume THEN resume.det \cap resume.cases ELSE {}
  /\ pc' = IF mem' = {} THEN "fatal" ELSE "pivot"
  /\ UNCHANGED <<disk, in_place_resume, exec_tmout, trimmed, started, ghosts>>

-----------------------------------------------------------------------------
(* pivot_inputs() *)

\* (faulty) the marks do not carry over.
UnmarkedNone ==
  {}

\* Linked entries whose mark is still missing.
Unmarked == (passed_det \cap queue.cases) \ queue.det

PivotLink ==
  /\ pc = "pivot" /\ Unmarked = {}
  /\ \E c \in mem \ queue.cases :
       /\ queue' = [queue EXCEPT !.cases = @ \cup {c}]
       /\ work' = work \cup {c}
  /\ UNCHANGED <<resume, crashes, backups, fuzzer_stats, pc, proc, started, found, done>>

PivotMark ==
  /\ pc = "pivot"
  /\ \E c \in Unmarked : queue' = [queue EXCEPT !.det = @ \cup {c}]
  /\ UNCHANGED <<resume, crashes, backups, fuzzer_stats, pc, proc, started, ghosts>>

PivotDone ==
  /\ pc = "pivot" /\ mem \subseteq queue.cases /\ Unmarked = {}
  /\ pc' = IF in_place_resume THEN "nuke" ELSE "dryrun"
  /\ UNCHANGED <<disk, proc, started, ghosts>>

\* nuke_resume_dir()
Nuke ==
  /\ pc = "nuke"
  /\ IF resume.there THEN Deletes(resume, resume') /\ pc' = pc ELSE UNCHANGED resume /\ pc' = "dryrun"
  /\ UNCHANGED <<queue, crashes, backups, fuzzer_stats, proc, started, ghosts>>

-----------------------------------------------------------------------------
(* The timeout, the stats file and the session itself. *)

\* The labels write_stats_file() prints.
Labels == {"exec_timeout      : ", "cur_path          : "}

\* The timeout find_timeout() returns to, if it finds its label.
Recorded ==
  IF in_place_resume /\ fuzzer_stats > 4 /\ "exec_timeout   : " \in Labels THEN {fuzzer_stats} ELSE {}

\* find_timeout(), the dry run, and show_init_stats() that scales the timeout
\* when none was given; then the stats file is opened for writing.
DryRun ==
  /\ pc = "dryrun"
  /\ exec_tmout' \in IF Recorded # {} THEN Recorded ELSE Timeouts
  /\ fuzzer_stats' = Torn
  /\ pc' = "stats"
  /\ UNCHANGED <<queue, resume, crashes, backups, in_place_resume, mem, passed_det, trimmed,
                 started, ghosts>>

WriteStats ==
  /\ pc = "stats"
  /\ fuzzer_stats' = exec_tmout
  /\ pc' = "fuzz"
  /\ UNCHANGED <<queue, resume, crashes, backups, proc, started, ghosts>>

\* write_stats_file() opens with O_TRUNC and writes afterwards.
UpdateStats ==
  /\ pc = "fuzz"
  /\ fuzzer_stats' = Torn
  /\ pc' = "stats"
  /\ UNCHANGED <<queue, resume, crashes, backups, proc, started, ghosts>>

\* save_if_interesting(): a new case, or a new crash.
FindCase ==
  /\ pc = "fuzz"
  /\ \E c \in Cases \ mem :
       /\ mem' = mem \cup {c}
       /\ queue' = [queue EXCEPT !.cases = @ \cup {c}]
       /\ work' = work \cup {c}
  /\ UNCHANGED <<resume, crashes, backups, fuzzer_stats, pc, in_place_resume, passed_det,
                 exec_tmout, trimmed, started, found, done>>

FindCrash ==
  /\ pc = "fuzz"
  /\ \E x \in Crashes \ found : crashes' = crashes \cup {x} /\ found' = found \cup {x}
  /\ UNCHANGED <<queue, resume, backups, fuzzer_stats, pc, proc, started, work, done>>

\* mark_as_det_done()
DetDone ==
  /\ pc = "fuzz"
  /\ \E c \in mem \ passed_det :
       /\ passed_det' = passed_det \cup {c}
       /\ done' = done \cup {c}
       /\ queue' = [queue EXCEPT !.det = @ \cup {c}]
  /\ UNCHANGED <<resume, crashes, backups, fuzzer_stats, pc, in_place_resume, mem, exec_tmout,
                 trimmed, started, work, found>>

\* trim_case() unlinks the file and writes the shorter one.
TrimUnlink ==
  /\ pc = "fuzz"
  /\ \E c \in mem :
       /\ trimmed' = {c}
       /\ queue' = [queue EXCEPT !.cases = @ \ {c}]
  /\ pc' = "trim"
  /\ UNCHANGED <<resume, crashes, backups, fuzzer_stats, in_place_resume, mem, passed_det,
                 exec_tmout, started, ghosts>>

TrimWrite ==
  /\ pc = "trim"
  /\ queue' = [queue EXCEPT !.cases = @ \cup trimmed]
  /\ trimmed' = {}
  /\ pc' = "fuzz"
  /\ UNCHANGED <<resume, crashes, backups, fuzzer_stats, in_place_resume, mem, passed_det,
                 exec_tmout, started, ghosts>>

-----------------------------------------------------------------------------
Phase ==
  CASE pc \in {"rename", "delete", "mkdir"} -> "setup"
    [] pc \in {"read", "pivot"}             -> "import"
    [] pc = "nuke"                          -> "nuke"
    [] pc \in {"dryrun", "fuzz"}            -> "run"
    [] pc = "trim"                          -> "trim"
    [] pc = "stats"                         -> "stats"
    [] OTHER                                -> "over"

\* The process is gone: killed, ended by Ctrl-C from the main loop, or by a FATAL.
Ends ==
  /\ \/ Phase \in KilledIn
     \/ pc \in {"fuzz", "fatal", "malformed"}
  /\ pc' = "idle"
  /\ mem' = {} /\ passed_det' = {} /\ exec_tmout' = 0 /\ trimmed' = {}
  /\ UNCHANGED <<disk, in_place_resume, started, ghosts>>

Next ==
  \/ StartNew \/ StartResume
  \/ Rename \/ DeleteQueue \/ Backup \/ MakeQueue
  \/ ReadTestcases \/ PivotLink \/ PivotMark \/ PivotDone \/ Nuke
  \/ DryRun \/ WriteStats \/ UpdateStats
  \/ FindCase \/ FindCrash \/ DetDone \/ TrimUnlink \/ TrimWrite
  \/ Ends

Spec == Init /\ [][Next]_vars

-----------------------------------------------------------------------------
(* Properties. *)

Dirs == [there : BOOLEAN, cases : SUBSET Cases, det : SUBSET Cases, state : BOOLEAN]

TypeOK ==
  /\ queue \in Dirs /\ resume \in Dirs
  /\ crashes \subseteq Crashes /\ backups \subseteq Crashes /\ found \subseteq Crashes
  /\ fuzzer_stats \in Timeouts \cup {NoFile, Torn}
  /\ pc \in {"idle", "rename", "delete", "mkdir", "read", "pivot", "nuke", "dryrun", "stats",
             "fuzz", "trim", "fatal", "malformed"}
  /\ in_place_resume \in BOOLEAN
  /\ mem \subseteq Cases /\ passed_det \subseteq mem /\ trimmed \subseteq mem
  /\ exec_tmout \in Timeouts \cup {0}
  /\ pc \in {"stats", "fuzz"} => exec_tmout \in Timeouts
  /\ started \in 0 .. Sessions /\ work \subseteq Cases /\ done \subseteq Cases

\* What the next afl-fuzz -i- would import.
NextImport == IF resume.there /\ ~EmptyDir(resume) THEN resume ELSE queue

\* "Any existing output directory can be also used to resume aborted jobs"
\* (docs/README): whenever the process is gone, a resumed session would import
\* every test case the session has saved.
NothingLost == pc = "idle" => work \subseteq NextImport.cases

\* No crash is lost: it is in crashes/ or in a backup of it.
CrashesKept == pc = "idle" => found \subseteq crashes \cup backups

\* Cases and crashes outlive every kill.
SessionKept == NothingLost /\ CrashesKept

\* "We don't want to repeat deterministic fuzzing when resuming aborted scans"
\* (read_testcases): however often the session was killed and resumed, an entry
\* that has gone through these stages is known to have.
DetNotRepeated == pc = "fuzz" => done \subseteq passed_det

\* "when resuming sessions without -t given, we don't want to keep auto-scaling
\* the timeout over and over again" (find_timeout).
TimeoutCarriesOver ==
  [][pc = "dryrun" /\ in_place_resume /\ fuzzer_stats > 4 => exec_tmout' \in {fuzzer_stats, 0}]_vars
=============================================================================
