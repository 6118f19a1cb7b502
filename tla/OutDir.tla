--------------------------------- MODULE OutDir ----------------------------------
(***************************************************************************)
(* One output directory and the instances that are started on it:          *)
(* mkdir() and flock(), maybe_delete_out_dir(), setup_dirs_fds(),          *)
(* nuke_resume_dir() and setup_stdio_file() call by call, with instances   *)
(* that are killed between two calls and others started over what they     *)
(* leave.  The set-up is a fixed sequence of calls and is modelled as      *)
(* such; a directory holds at most one file of each kind of name.          *)
(***************************************************************************)
EXTENDS Integers, Sequences, FiniteSets

CONSTANTS
  OutJobs,     \* instances of afl-fuzz
  OutStarts,   \* bound on the number of starts
  OutFinds     \* what a session may leave behind, sets of paths

VARIABLES
  paths,         \* what is in the directory; <<>> is the directory itself
  locked_by,     \* the instance that holds the lock
  run_time,      \* what fuzzer_stats says: none, torn, short or long
  in_place,      \* for each instance, -i-
  made,          \* its own mkdir() made the directory
  todo_calls,    \* calls of its set-up that are left
  out_step,
  out_starts,
  last_run       \* ghost: how long the last session ran

outVars == <<paths, locked_by, run_time, in_place, made, todo_calls, out_step, out_starts, last_run>>

-----------------------------------------------------------------------------
(* Paths and the calls on them. *)

Queue     == <<"queue">>
OldQueue  == <<"_resume">>
InState(d) == {d \o <<".state", k>> : k \in
  {"deterministic_done", "auto_extras", "redundant_edges", "variable_behavior"}}
Inside(d) == {p \in paths : Len(p) > Len(d) /\ SubSeq(p, 1, Len(d)) = d}
FileIn(d) == Append(d, "id")     \* a file whose name matches the prefix
Readme == <<"crashes", "README.txt">>

\* What a session leaves in its directory.
Saveable ==
  {FileIn(d) : d \in {Queue, <<"crashes">>, <<"hangs">>, <<".synced">>} \cup InState(Queue)}
    \cup {Readme, <<"fuzz_bitmap">>}

ASSUME OutAssumption == OutStarts \in Nat /\ OutFinds \subseteq SUBSET Saveable

Call(name, d) == [call |-> name, on |-> d]

\* delete_files() of the four directories, rmdir(), delete_files() of the cases.
DeleteCases(d) ==
  << Call("delete", d \o <<".state", "deterministic_done">>),
     Call("delete", d \o <<".state", "auto_extras">>),
     Call("delete", d \o <<".state", "redundant_edges">>),
     Call("delete", d \o <<".state", "variable_behavior">>),
     Call("rmdir", Append(d, ".state")),
     Call("delete", d) >>

\* maybe_delete_out_dir(), after its checks.
DeleteOutDir(resume) ==
  (IF resume THEN <<Call("move", Queue)>> ELSE <<Call("delete", <<".synced">>)>>)
  \o DeleteCases(Queue)
  \o (IF resume THEN <<Call("keep", <<"crashes">>)>> ELSE <<Call("unlink", Readme)>>)
  \o <<Call("delete", <<"crashes">>)>>
  \o (IF resume THEN <<Call("keep", <<"hangs">>)>> ELSE <<>>)
  \o <<Call("delete", <<"hangs">>), Call("unlink", <<".cur_input">>), Call("unlink", <<"fuzz_bitmap">>)>>
  \o (IF resume THEN <<>> ELSE <<Call("forget", <<"fuzzer_stats">>)>>)
  \o <<Call("unlink", <<"plot_data">>)>>

\* setup_dirs_fds(), with -M or -S also .synced, which a resume may find there.
CreateDirs(resume, sync) ==
  << Call("mkdir", Queue), Call("mkdir", <<"queue", ".state">>),
     Call("mkdir", <<"queue", ".state", "deterministic_done">>),
     Call("mkdir", <<"queue", ".state", "auto_extras">>),
     Call("mkdir", <<"queue", ".state", "redundant_edges">>),
     Call("mkdir", <<"queue", ".state", "variable_behavior">>) >>
  \o (IF sync THEN <<Call(IF resume THEN "mkdir?" ELSE "mkdir", <<".synced">>)>> ELSE <<>>)
  \o <<Call("mkdir", <<"crashes">>), Call("mkdir", <<"hangs">>), Call("mkdir", <<"plot_data">>)>>

\* read_testcases(), pivot_inputs(), setup_stdio_file(), write_stats_file().
ImportAndStart(resume) ==
  (IF resume THEN <<Call("read", OldQueue)>> ELSE <<>>)
  \o <<Call("link", Queue)>>
  \o (IF resume THEN DeleteCases(OldQueue) ELSE <<>>)
  \o <<Call("unlink", <<".cur_input">>), Call("mkdir", <<".cur_input">>), Call("stats", <<"fuzzer_stats">>)>>

\* mkdir(), or open() with O_EXCL, of what is there; rmdir() of what is not empty.
Fails(c) ==
  \/ c.call = "mkdir" /\ c.on \in paths
  \/ c.call = "rmdir" /\ Inside(c.on) # {}
  \/ c.call = "delete" /\ FileIn(c.on) \notin paths /\ Inside(c.on) # {}

\* One file and the directory are deleted one after the other, fuzzer_stats is
\* truncated and written.
Again(c) ==
  \/ c.call = "delete" /\ FileIn(c.on) \in paths
  \/ c.call = "stats" /\ run_time # "torn"

DetMark(d) == FileIn(d \o <<".state", "deterministic_done">>)

\* What is there after a call.  rename() of queue fails if _resume has something in
\* it; crashes and hangs go if they are empty and get the name of a backup
\* otherwise.
Left(c) ==
  CASE c.call \in {"mkdir", "mkdir?"} -> paths \cup {c.on}
    [] c.call \in {"unlink", "rmdir"} -> paths \ {c.on}
    [] c.call = "delete" -> paths \ {IF FileIn(c.on) \in paths THEN FileIn(c.on) ELSE c.on}
    [] c.call = "keep" -> paths \ (Inside(c.on) \cup {c.on})
    [] c.call = "move" ->
         IF Queue \notin paths \/ Inside(OldQueue) # {} THEN paths
         ELSE (paths \ (Inside(Queue) \cup {Queue})) \cup {OldQueue}
              \cup {OldQueue \o Tail(p) : p \in Inside(Queue)}
    [] c.call = "link" ->
         paths \cup {FileIn(Queue)}
               \cup (IF DetMark(OldQueue) \in paths THEN {DetMark(Queue)} ELSE {})
    [] OTHER -> paths

-----------------------------------------------------------------------------
(* The instances. *)

StartOn(i) ==
  /\ out_step[i] = "off" /\ out_starts < OutStarts
  /\ out_starts' = out_starts + 1
  /\ \E r \in BOOLEAN : in_place' = [in_place EXCEPT ![i] = r]
  /\ out_step' = [out_step EXCEPT ![i] = "mkdir"]
  /\ UNCHANGED <<paths, locked_by, run_time, made, todo_calls, last_run>>

\* mkdir(out_dir): "Resume attempted but old output directory not found" leaves
\* an empty one.
MakeOutDir(i) ==
  /\ out_step[i] = "mkdir"
  /\ made' = [made EXCEPT ![i] = <<>> \notin paths]
  /\ paths' = paths \cup {<<>>}
  /\ out_step' = [out_step EXCEPT ![i] = IF made'[i] /\ in_place[i] THEN "refused" ELSE "flock"]
  /\ UNCHANGED <<locked_by, run_time, in_place, todo_calls, out_starts, last_run>>

\* (faulty) nobody can have locked the directory that was just made.
FlockIfFound(i) ==
  /\ out_step[i] = "flock"
  /\ IF locked_by # {} /\ ~made[i]
       THEN out_step' = [out_step EXCEPT ![i] = "refused"] /\ UNCHANGED locked_by
       ELSE /\ locked_by' = {i}
            /\ out_step' = [out_step EXCEPT ![i] = IF made[i] THEN "made" ELSE "found"]
  /\ UNCHANGED <<paths, run_time, in_place, made, todo_calls, out_starts, last_run>>

\* open() and flock(), which does not wait.
Flock(i) ==
  /\ out_step[i] = "flock"
  /\ IF locked_by # {}
       THEN out_step' = [out_step EXCEPT ![i] = "refused"] /\ UNCHANGED locked_by
       ELSE /\ locked_by' = {i}
            /\ out_step' = [out_step EXCEPT ![i] = IF made[i] THEN "made" ELSE "found"]
  /\ UNCHANGED <<paths, run_time, in_place, made, todo_calls, out_starts, last_run>>

\* "Malformed data" or "At-risk data found", or the directory may be taken.
MayTake(i) ==
  out_step[i] = "made" \/ (run_time # "torn" /\ (in_place[i] \/ run_time # "long"))

TakeOutDir(i) ==
  /\ out_step[i] \in {"made", "found"}
  /\ IF MayTake(i)
       THEN /\ out_step' = [out_step EXCEPT ![i] = "set up"]
            /\ \E sync \in BOOLEAN :
                 todo_calls' = [todo_calls EXCEPT ![i] =
                   (IF out_step[i] = "found" THEN DeleteOutDir(in_place[i]) ELSE <<>>)
                   \o CreateDirs(in_place[i], sync) \o ImportAndStart(in_place[i])]
       ELSE out_step' = [out_step EXCEPT ![i] = "refused"] /\ UNCHANGED todo_calls
  /\ UNCHANGED <<paths, locked_by, run_time, in_place, made, out_starts, last_run>>

\* The next call; "No usable test cases" ends the session, too.
NextCall(i) ==
  /\ out_step[i] = "set up" /\ todo_calls[i] # <<>>
  /\ LET c == Head(todo_calls[i]) IN
       \/ /\ Fails(c)
          /\ out_step' = [out_step EXCEPT ![i] = "failed"]
          /\ UNCHANGED <<paths, run_time, todo_calls, last_run>>
       \/ /\ c.call = "read" /\ FileIn(OldQueue) \notin paths
          /\ out_step' = [out_step EXCEPT ![i] = "refused"]
          /\ UNCHANGED <<paths, run_time, todo_calls, last_run>>
       \/ /\ ~Fails(c) /\ (c.call = "read" => FileIn(OldQueue) \in paths)
          /\ paths' = Left(c)
          /\ todo_calls' = [todo_calls EXCEPT ![i] = IF Again(c) THEN @ ELSE Tail(@)]
          /\ run_time' = (CASE c.call = "forget" -> "none"
                            [] c.call = "stats" -> IF Again(c) THEN "torn" ELSE "short"
                            [] OTHER -> run_time)
          /\ last_run' = IF c.call = "stats" /\ ~Again(c) THEN "short" ELSE last_run
          /\ out_step' = [out_step EXCEPT ![i] = IF todo_calls'[i] = <<>> THEN "run" ELSE @]
  /\ UNCHANGED <<locked_by, in_place, made, out_starts>>

\* What a session saves; .synced is there only with -M or -S.
Saves(i) ==
  /\ out_step[i] = "run"
  /\ \E f \in OutFinds : paths' = paths \cup {p \in f : SubSeq(p, 1, Len(p) - 1) \in paths}
  /\ UNCHANGED <<locked_by, run_time, in_place, made, todo_calls, out_step, out_starts, last_run>>

\* write_stats_file() after more than OUTPUT_GRACE minutes.
RunsLong(i) ==
  /\ out_step[i] = "run"
  /\ run_time' = IF run_time = "torn" THEN "long" ELSE "torn"
  /\ last_run' = "long"
  /\ UNCHANGED <<paths, locked_by, in_place, made, todo_calls, out_step, out_starts>>

\* The end, a FATAL or a kill: the lock goes with the process.
GoneFrom(i) ==
  /\ out_step[i] # "off"
  /\ out_step' = [out_step EXCEPT ![i] = "off"]
  /\ locked_by' = locked_by \ {i}
  /\ in_place' = [in_place EXCEPT ![i] = FALSE] /\ made' = [made EXCEPT ![i] = FALSE]
  /\ todo_calls' = [todo_calls EXCEPT ![i] = <<>>]
  /\ UNCHANGED <<paths, run_time, out_starts, last_run>>

OutInit ==
  /\ paths = {} /\ locked_by = {} /\ run_time = "none"
  /\ in_place = [i \in OutJobs |-> FALSE] /\ made = in_place
  /\ todo_calls = [i \in OutJobs |-> <<>>]
  /\ out_step = [i \in OutJobs |-> "off"]
  /\ out_starts = 0 /\ last_run = "none"

OutNext ==
  \E i \in OutJobs :
    \/ StartOn(i) \/ MakeOutDir(i) \/ Flock(i) \/ TakeOutDir(i)
    \/ NextCall(i) \/ Saves(i) \/ RunsLong(i) \/ GoneFrom(i)

OutSpec == OutInit /\ [][OutNext]_outVars

-----------------------------------------------------------------------------
(* Property. *)

Owns(i) == out_step[i] \in {"made", "found", "set up", "run", "failed"}

Results == {FileIn(d) : d \in {Queue, OldQueue, <<"crashes">>, <<"hangs">>}}

\* However starts, kills and resumes follow each other and overlap: an instance
\* has the directory for itself once it has locked it; it can set it up, whatever
\* the ones before have left, unless it made the directory itself and others came
\* and went before it had locked it; and what a session of more than OUTPUT_GRACE
\* minutes has saved is deleted by none but a resumed session, until another
\* one fuzzes.
SetUpHolds ==
  /\ [](\A i \in OutJobs : Owns(i) => locked_by = {i})
  /\ [](\A i \in OutJobs : out_step[i] = "failed" => made[i])
  /\ [][last_run = "long" /\ (Results \cap paths) \ paths' # {} =>
          \E i \in locked_by : in_place[i] /\ out_step[i] = "set up"]_outVars
=============================================================================
