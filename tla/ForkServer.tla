------------------------------ MODULE ForkServer ------------------------------
(***************************************************************************)
(* The fork server protocol: run_target() of afl-fuzz on one side, the     *)
(* loop of __afl_start_forkserver() in the target's runtime on the other,  *)
(* the forked child (a plain one, or one that loops in __AFL_LOOP and      *)
(* stops itself after each input), the two pipes, the kernel's wait        *)
(* statuses, and the two signals that interrupt the fuzzer at any point:   *)
(* SIGALRM (handle_timeout) and SIGINT (handle_stop_sig).                  *)
(*                                                                         *)
(* The coverage maps hold tags instead of counters: which piece of         *)
(* execution wrote into them since they were cleared.                      *)
(***************************************************************************)
EXTENDS Integers, Sequences, FiniteSets

CONSTANTS
  Pids,        \* process ids the kernel hands to children; freed ids are reused
  NoPid,       \* child_pid = 0: no child of the last run is left
  InitPid,     \* child_pid = -1: the fork server has not run anything yet
  MaxCycles,   \* max_cnt of __AFL_LOOP(max_cnt)
  uses_asan    \* what check_binary() found in the target, before it starts

ASSUME PidsAssumption ==
  /\ NoPid \notin Pids
  /\ InitPid \notin Pids
  /\ NoPid # InitPid
ASSUME MaxCyclesAssumption  == MaxCycles \in Nat \ {0}
ASSUME AsanAssumption == uses_asan \in BOOLEAN

VARIABLES
  fpc,               \* where run_target() (or init_forkserver()) is
  child_pid,
  child_timed_out,
  prev_timed_out,
  perform_bbtracing,
  stop_soon,
  timer,             \* the interval timer is armed
  status,            \* the wait status run_target() has read
  verdict,           \* what the last run_target() returned
  spc,               \* where the server's loop is
  is_persistent,     \* the target loops over its inputs
  srv_child,         \* the server's child_pid
  child_stopped,
  curr_tracing,
  prev_tracing,
  srv_status,
  ctl, st,           \* the pipes fuzzer -> server and server -> fuzzer
  proc,              \* kernel state of each child
  killed,            \* a SIGKILL is pending for a child that still runs
  wstatus,           \* how a zombie ended
  bb_trace,          \* the child records basic blocks
  cycle_cnt,
  job,               \* ghost: whose input the child works on
  trace, trace_bb,   \* tags of what was recorded into the two shared maps
  fate,              \* ghost: how this run really ended
  expired            \* ghost: the timer went off in this run

fuzzer  == <<child_pid, child_timed_out, prev_timed_out, perform_bbtracing,
             stop_soon, timer, status, verdict>>
server  == <<is_persistent, srv_child, child_stopped, curr_tracing, prev_tracing,
             srv_status>>
pipes   == <<ctl, st>>
kernel  == <<proc, killed, wstatus, bb_trace, cycle_cnt, job>>
maps    == <<trace, trace_bb>>
vars    == <<fpc, fuzzer, spc, server, pipes, kernel, maps, fate, expired>>

\* "msan" is the exit code MSAN_ERROR, "exit" any other one.
Statuses == {"exit", "msan", "segv", "kill", "stop"}
Fates    == {"pending", "exit", "msan", "segv", "oom", "stop", "timeout", "abort"}
Tags     == {"own", "stale", "pre", "post"}
Hello    == "hello"

Init ==
  /\ fpc = "hello" /\ child_pid = InitPid /\ timer = TRUE
  /\ child_timed_out = FALSE /\ prev_timed_out = FALSE
  /\ perform_bbtracing = FALSE /\ stop_soon = FALSE
  /\ status = "exit" /\ verdict = "none"
  /\ spc = "start" /\ is_persistent \in BOOLEAN /\ srv_child = NoPid /\ child_stopped = FALSE
  /\ curr_tracing = FALSE /\ prev_tracing = FALSE
  /\ srv_status = "exit"
  /\ ctl = <<>> /\ st = <<>>
  /\ proc = [p \in Pids |-> "free"]
  /\ killed = [p \in Pids |-> FALSE]
  /\ wstatus = [p \in Pids |-> "exit"]
  /\ bb_trace = [p \in Pids |-> FALSE]
  /\ cycle_cnt = [p \in Pids |-> 0]
  /\ job = [p \in Pids |-> "none"]
  /\ trace = {} /\ trace_bb = {}
  /\ fate = "exit" /\ expired = FALSE

-----------------------------------------------------------------------------
(* The kernel. *)

Live(p) == proc[p] \in {"starting", "running"}

\* kill(p, SIGKILL): a stopped child dies without executing anything more, a
\* running one may still do something before the signal takes effect, a zombie
\* or a free id is left alone.  how is recorded as the fate of a run whose
\* child had not ended by itself.
SigKill(p, how) ==
  /\ proc'    = [proc EXCEPT ![p] = IF @ = "stopped" THEN "zombie" ELSE @]
  /\ wstatus' = [wstatus EXCEPT ![p] = IF proc[p] = "stopped" THEN "kill" ELSE @]
  /\ killed'  = [killed EXCEPT ![p] = @ \/ Live(p)]
  /\ fate'    = IF Live(p) /\ fate = "pending" THEN how ELSE fate
  /\ UNCHANGED <<bb_trace, cycle_cnt, job>>

\* A successful waitpid(p): the process is gone and its id can be reused.
Collect(p) ==
  /\ proc' = [proc EXCEPT ![p] = "free"]
  /\ killed' = [killed EXCEPT ![p] = FALSE]
  /\ wstatus' = [wstatus EXCEPT ![p] = "exit"]
  /\ bb_trace' = [bb_trace EXCEPT ![p] = FALSE]
  /\ cycle_cnt' = [cycle_cnt EXCEPT ![p] = 0]
  /\ job' = [job EXCEPT ![p] = "none"]

ServerAlive == spc # "dead"

-----------------------------------------------------------------------------
(* The fuzzer. *)

\* init_forkserver(): the hello message has arrived.
FuzzerHello ==
  /\ fpc = "hello" /\ st # <<>>
  /\ st' = Tail(st)
  /\ fpc' = "hellodisarm"
  /\ UNCHANGED <<fuzzer, spc, server, ctl, kernel, maps, fate, expired>>

\* init_forkserver(): read() hits the end of the pipe, FATAL.
FuzzerHelloFails ==
  /\ fpc = "hello" /\ st = <<>> /\ ~ServerAlive
  /\ fpc' = "fatal"
  /\ UNCHANGED <<fuzzer, spc, server, pipes, kernel, maps, fate, expired>>

FuzzerHelloDisarm ==
  /\ fpc = "hellodisarm"
  /\ timer' = FALSE
  /\ fpc' = "idle"
  /\ UNCHANGED <<child_pid, child_timed_out, prev_timed_out, perform_bbtracing,
                 stop_soon, status, verdict, spc, server, pipes, kernel, maps, fate, expired>>

\* A caller enters run_target(), with or without basic-block tracing.  The
\* ghosts start afresh: what a child did for earlier inputs is stale now.
StartRun(tracing) ==
  /\ fpc = "idle"
  /\ perform_bbtracing' = tracing
  /\ child_timed_out' = FALSE
  /\ trace' = {}
  /\ trace_bb' = IF tracing THEN {} ELSE trace_bb
  /\ job' = [p \in Pids |-> IF job[p] = "own" THEN "stale" ELSE job[p]]
  /\ status' = "exit"         \* int status = 0;
  /\ verdict' = "none"        \* nothing returned yet
  /\ fate' = "pending"
  /\ expired' = FALSE
  /\ fpc' = "request"
  /\ UNCHANGED <<child_pid, prev_timed_out, stop_soon, timer,
                 spc, server, pipes, proc, killed, wstatus, bb_trace, cycle_cnt>>

\* write(fsrv_ctl_fd, &ctrl_info, 4)
WriteCtl ==
  /\ fpc = "request" /\ ServerAlive
  /\ ctl' = Append(ctl, [killed |-> prev_timed_out, tracing |-> perform_bbtracing])
  /\ fpc' = "readpid"
  /\ UNCHANGED <<fuzzer, spc, server, st, kernel, maps, fate, expired>>

\* A failed write or read: return 0 (FAULT_NONE) when the user asked to stop,
\* RPFATAL otherwise.  The timer is left as it is.  Every caller looks at
\* stop_soon after the call and makes no further one ("quit").
PipeFails ==
  /\ \/ fpc = "request"
     \/ fpc \in {"readpid", "readstatus"} /\ st = <<>>
  /\ ~ServerAlive
  /\ fpc' = IF stop_soon THEN "quit" ELSE "fatal"
  /\ UNCHANGED <<child_pid, child_timed_out, prev_timed_out, perform_bbtracing,
                 stop_soon, timer, status, verdict, spc, server, pipes, kernel, maps, fate,
                 expired>>

\* read(fsrv_st_fd, &child_pid, 4)
ReadPid ==
  /\ fpc = "readpid" /\ st # <<>>
  /\ child_pid' = Head(st)
  /\ st' = Tail(st)
  /\ fpc' = "arm"
  /\ UNCHANGED <<child_timed_out, prev_timed_out, perform_bbtracing, stop_soon,
                 timer, status, verdict, spc, server, ctl, kernel, maps, fate, expired>>

\* Faulty: setitimer() is missing.
ArmNothing ==
  /\ fpc = "arm"
  /\ fpc' = "readstatus"
  /\ UNCHANGED <<fuzzer, spc, server, pipes, kernel, maps, fate, expired>>

ArmTimer ==
  /\ fpc = "arm"
  /\ timer' = TRUE
  /\ fpc' = "readstatus"
  /\ UNCHANGED <<child_pid, child_timed_out, prev_timed_out, perform_bbtracing,
                 stop_soon, status, verdict, spc, server, pipes, kernel, maps, fate, expired>>

\* read(fsrv_st_fd, &status, 4)
ReadStatus ==
  /\ fpc = "readstatus" /\ st # <<>>
  /\ status' = Head(st)
  /\ st' = Tail(st)
  /\ fpc' = "clearpid"
  /\ UNCHANGED <<child_pid, child_timed_out, prev_timed_out, perform_bbtracing,
                 stop_soon, timer, verdict, spc, server, ctl, kernel, maps, fate, expired>>

\* if (!WIFSTOPPED(status)) child_pid = 0;
ClearPid ==
  /\ fpc = "clearpid"
  /\ child_pid' = IF status = "stop" THEN child_pid ELSE NoPid
  /\ fpc' = "disarm"
  /\ UNCHANGED <<child_timed_out, prev_timed_out, perform_bbtracing, stop_soon,
                 timer, status, verdict, spc, server, pipes, kernel, maps, fate, expired>>

DisarmTimer ==
  /\ fpc = "disarm"
  /\ timer' = FALSE
  /\ fpc' = "report"
  /\ UNCHANGED <<child_pid, child_timed_out, prev_timed_out, perform_bbtracing,
                 stop_soon, status, verdict, spc, server, pipes, kernel, maps, fate, expired>>

\* MSAN cannot abort; a plain exit with its code is a crash, also after Ctrl-C.
ExitVerdict == IF uses_asan /\ status = "msan" THEN "crash" ELSE "none"

\* Faulty: any SIGKILL is taken for a timeout.
VerdictAnyKill(timedOut, stopping) ==
  IF status \in {"segv", "kill"} /\ ~stopping
    THEN IF status = "kill" THEN "tmout" ELSE "crash" ELSE ExitVerdict

\* Faulty: stop_soon is not looked at.
VerdictIgnoresStop(timedOut, stopping) ==
  IF status \in {"segv", "kill"}
    THEN IF timedOut /\ status = "kill" THEN "tmout" ELSE "crash" ELSE ExitVerdict

\* The last lines of run_target(): prev_timed_out and the FAULT_* value.
Verdict(timedOut, stopping) ==
  IF status \in {"segv", "kill"} /\ ~stopping
    THEN IF timedOut /\ status = "kill" THEN "tmout" ELSE "crash"
    ELSE ExitVerdict

Report ==
  /\ fpc = "report"
  /\ prev_timed_out' = child_timed_out
  /\ verdict' = Verdict(child_timed_out, stop_soon)
  /\ fpc' = IF stop_soon THEN "quit" ELSE "idle"
  /\ UNCHANGED <<child_pid, child_timed_out, perform_bbtracing, stop_soon,
                 timer, status, spc, server, pipes, kernel, maps, fate, expired>>

-----------------------------------------------------------------------------
(* The signal handlers, at any point of the fuzzer. *)

\* handle_timeout(): the timer fires once.
Alarm ==
  /\ timer
  /\ timer' = FALSE
  /\ expired' = TRUE
  /\ IF child_pid \in Pids
       THEN /\ child_timed_out' = TRUE
            /\ SigKill(child_pid, "timeout")
            /\ UNCHANGED spc
       ELSE IF child_pid = InitPid
       THEN child_timed_out' = TRUE /\ spc' = "dead" /\ UNCHANGED <<kernel, fate>>
       ELSE UNCHANGED <<child_timed_out, spc, kernel, fate>>
  /\ UNCHANGED <<fpc, child_pid, prev_timed_out, perform_bbtracing, stop_soon,
                 status, verdict, server, pipes, maps>>

\* Faulty: the server is not killed along with its child.
StopForgetsServer ==
  /\ ~stop_soon
  /\ stop_soon' = TRUE
  /\ IF child_pid \in Pids THEN SigKill(child_pid, "abort") ELSE UNCHANGED <<kernel, fate>>
  /\ UNCHANGED <<fpc, child_pid, child_timed_out, prev_timed_out, perform_bbtracing,
                 timer, status, verdict, spc, server, pipes, maps, expired>>

\* handle_stop_sig(); a second Ctrl-C finds nothing left to do.
StopSignal ==
  /\ ~stop_soon
  /\ stop_soon' = TRUE
  /\ IF child_pid \in Pids THEN SigKill(child_pid, "abort") ELSE UNCHANGED <<kernel, fate>>
  /\ spc' = "dead"
  /\ UNCHANGED <<fpc, child_pid, child_timed_out, prev_timed_out, perform_bbtracing,
                 timer, status, verdict, server, pipes, maps, expired>>

-----------------------------------------------------------------------------
(* The fork server in the target process. *)

ServerHello ==
  /\ spc = "start"
  /\ st' = Append(st, Hello)
  /\ spc' = "read"
  /\ UNCHANGED <<fpc, fuzzer, server, ctl, kernel, maps, fate, expired>>

\* Faulty: a killed child is waited for even when its end was reported.
ChoiceReapsTwice(c) ==
  IF c.killed THEN "reap"
  ELSE IF child_stopped /\ c.tracing # prev_tracing THEN "respawn" ELSE "launch"

\* Faulty: the tracing bit is not looked at.
ChoiceIgnoresTracing(c) == IF child_stopped /\ c.killed THEN "reap" ELSE "launch"

\* What the server does about the child it remembers before the next run.
Choice(c) ==
  IF child_stopped /\ c.killed THEN "reap"
  ELSE IF child_stopped /\ c.tracing # prev_tracing THEN "respawn"
  ELSE "launch"

\* read(FORKSRV_FD, &ctrl_info, 4)
ReadCtl ==
  /\ spc = "read" /\ ctl # <<>>
  /\ ctl' = Tail(ctl)
  /\ curr_tracing' = Head(ctl).tracing
  /\ spc' = Choice(Head(ctl))
  /\ UNCHANGED <<fpc, fuzzer, is_persistent, srv_child, child_stopped, prev_tracing, srv_status,
                 st, kernel, maps, fate, expired>>

\* The stopped child was killed by the fuzzer: child_stopped = 0 and waitpid().
Reap ==
  /\ spc = "reap"
  /\ \/ /\ proc[srv_child] = "zombie"
        /\ Collect(srv_child)
        /\ spc' = "launch"
     \/ /\ proc[srv_child] = "free"
        /\ UNCHANGED kernel
        /\ spc' = "dead"
  /\ child_stopped' = FALSE
  /\ UNCHANGED <<fpc, fuzzer, is_persistent, srv_child, curr_tracing, prev_tracing,
                 srv_status, pipes, maps, fate, expired>>

\* The tracing mode changed: kill the stopped child ...
RespawnKill ==
  /\ spc = "respawn"
  /\ SigKill(srv_child, "abort")
  /\ spc' = "respawnwait"
  /\ UNCHANGED <<fpc, fuzzer, server, pipes, maps, expired>>

\* ... and wait for it; _exit(1) when it is gone or did not die of a signal.
RespawnWait ==
  /\ spc = "respawnwait"
  /\ proc[srv_child] \in {"zombie", "free"}
  /\ Collect(srv_child)
  /\ spc' = IF proc[srv_child] = "zombie" /\ wstatus[srv_child] \in {"segv", "kill"} THEN "launch" ELSE "dead"
  /\ child_stopped' = FALSE
  /\ UNCHANGED <<fpc, fuzzer, is_persistent, srv_child, curr_tracing, prev_tracing,
                 srv_status, pipes, maps, fate, expired>>

\* fork(): the child leaves the server's loop and runs the program.
Fork ==
  /\ spc = "launch" /\ ~child_stopped
  /\ \E p \in Pids :
       /\ proc[p] = "free"
       /\ srv_child' = p
       /\ proc'      = [proc EXCEPT ![p] = IF is_persistent THEN "starting" ELSE "running"]
       /\ killed'    = [killed EXCEPT ![p] = FALSE]
       /\ bb_trace'  = [bb_trace EXCEPT ![p] = curr_tracing]
       /\ cycle_cnt' = [cycle_cnt EXCEPT ![p] = 0]
       /\ job'       = [job EXCEPT ![p] = "own"]
  /\ spc' = "writepid"
  /\ UNCHANGED <<fpc, fuzzer, is_persistent, child_stopped, curr_tracing, prev_tracing,
                 srv_status, pipes, wstatus, maps, fate, expired>>

\* kill(child_pid, SIGCONT): the stopped child goes on with its next input.
Resume ==
  /\ spc = "launch" /\ child_stopped
  /\ proc' = [proc EXCEPT ![srv_child] = IF @ = "stopped" THEN "running" ELSE @]
  /\ job'  = [job EXCEPT ![srv_child] = "own"]
  /\ child_stopped' = FALSE
  /\ spc' = "writepid"
  /\ UNCHANGED <<fpc, fuzzer, is_persistent, srv_child, curr_tracing, prev_tracing, srv_status,
                 pipes, killed, wstatus, bb_trace, cycle_cnt, maps, fate, expired>>

WritePid ==
  /\ spc = "writepid"
  /\ st' = Append(st, srv_child)
  /\ spc' = "waitpid"
  /\ UNCHANGED <<fpc, fuzzer, server, ctl, kernel, maps, fate, expired>>

\* waitpid(p, &status, is_persistent ? WUNTRACED : 0) has something to say.
Waitable(p) == proc[p] \in {"zombie"} \cup IF is_persistent THEN {"stopped"} ELSE {}

WaitPid ==
  /\ spc = "waitpid"
  /\ \/ /\ Waitable(srv_child)
        /\ srv_status' = IF proc[srv_child] = "stopped" THEN "stop" ELSE wstatus[srv_child]
        /\ child_stopped' = (child_stopped \/ proc[srv_child] = "stopped")
        /\ IF proc[srv_child] = "zombie" THEN Collect(srv_child) ELSE UNCHANGED kernel
        /\ spc' = "writestatus"
     \/ /\ proc[srv_child] = "free"
        /\ spc' = "dead"
        /\ UNCHANGED <<kernel, srv_status, child_stopped>>
  /\ UNCHANGED <<fpc, fuzzer, is_persistent, srv_child, curr_tracing, prev_tracing, pipes, maps,
                 fate, expired>>

WriteStatus ==
  /\ spc = "writestatus"
  /\ st' = Append(st, srv_status)
  /\ srv_status' = "exit"     \* goes out of scope
  /\ prev_tracing' = curr_tracing
  /\ spc' = "read"
  /\ UNCHANGED <<fpc, fuzzer, is_persistent, srv_child, child_stopped, curr_tracing,
                 ctl, kernel, maps, fate, expired>>

-----------------------------------------------------------------------------
(* The child. *)

\* What the instrumentation records now: code before the loop, the input's
\* own execution, or code after the loop.
Tag(p) == IF proc[p] = "starting" THEN "pre"
          ELSE IF is_persistent /\ cycle_cnt[p] = 0 THEN "post"
          ELSE job[p]

\* Instrumented code runs.  After the last iteration __afl_area_ptr points to
\* a private area, __afl_bbtrace_ptr still to the shared one.
Execute(p) ==
  /\ Live(p)
  /\ trace'    = IF Tag(p) = "post" THEN trace ELSE trace \cup {Tag(p)}
  /\ trace_bb' = IF bb_trace[p] THEN trace_bb \cup {Tag(p)} ELSE trace_bb
  /\ <<trace', trace_bb'>> # maps
  /\ UNCHANGED <<fpc, fuzzer, spc, server, pipes, kernel, fate, expired>>

\* __afl_persistent_loop(), first pass: wipe what was recorded before the loop.
FirstPass(p) ==
  /\ proc[p] = "starting"
  /\ proc' = [proc EXCEPT ![p] = "running"]
  /\ cycle_cnt' = [cycle_cnt EXCEPT ![p] = MaxCycles]
  /\ trace' = {}
  /\ trace_bb' = IF bb_trace[p] THEN {} ELSE trace_bb
  /\ UNCHANGED <<fpc, fuzzer, spc, server, pipes, killed, wstatus, bb_trace, job, fate, expired>>

\* __afl_persistent_loop(), later passes: raise(SIGSTOP), or leave the loop
\* when --cycle_cnt reaches zero.  A pending SIGKILL wins over the stop.
NextPass(p) ==
  /\ is_persistent /\ proc[p] = "running" /\ cycle_cnt[p] > 0 /\ ~killed[p]
  /\ cycle_cnt' = [cycle_cnt EXCEPT ![p] = @ - 1]
  /\ IF cycle_cnt[p] > 1
       THEN /\ proc' = [proc EXCEPT ![p] = "stopped"]
            /\ fate' = "stop"
       ELSE UNCHANGED <<proc, fate>>
  /\ UNCHANGED <<fpc, fuzzer, spc, server, pipes, killed, wstatus, bb_trace, job, maps, expired>>

\* The child ends by itself: exit(), with MSAN_ERROR or another code, a crash, or
\* a SIGKILL from elsewhere (the kernel's OOM killer).
Ends(p, how) ==
  /\ Live(p)
  /\ proc' = [proc EXCEPT ![p] = "zombie"]
  /\ wstatus' = [wstatus EXCEPT ![p] = IF how = "oom" THEN "kill" ELSE how]
  /\ fate' = how
  /\ UNCHANGED <<fpc, fuzzer, spc, server, pipes, killed, bb_trace, cycle_cnt, job, maps, expired>>

\* A pending SIGKILL takes effect.
Dies(p) ==
  /\ Live(p) /\ killed[p]
  /\ proc' = [proc EXCEPT ![p] = "zombie"]
  /\ wstatus' = [wstatus EXCEPT ![p] = "kill"]
  /\ UNCHANGED <<fpc, fuzzer, spc, server, pipes, killed, bb_trace, cycle_cnt, job, maps, fate, expired>>

-----------------------------------------------------------------------------
FuzzerStep ==
  \/ FuzzerHello \/ FuzzerHelloFails \/ FuzzerHelloDisarm
  \/ WriteCtl \/ PipeFails \/ ReadPid \/ ArmTimer
  \/ ReadStatus \/ ClearPid \/ DisarmTimer \/ Report

ServerStep ==
  \/ ServerHello \/ ReadCtl \/ Reap \/ RespawnKill \/ RespawnWait
  \/ Fork \/ Resume \/ WritePid \/ WaitPid \/ WriteStatus

ChildStep(p) ==
  \/ Execute(p) \/ FirstPass(p) \/ NextPass(p) \/ Dies(p)
  \/ \E how \in {"exit", "msan", "segv", "oom"} : Ends(p, how)

Next ==
  \/ \E tracing \in BOOLEAN : StartRun(tracing)
  \/ FuzzerStep \/ ServerStep
  \/ Alarm \/ StopSignal
  \/ \E p \in Pids : ChildStep(p)

\* The scheduler runs the fuzzer and the server, the timer fires, a SIGKILL
\* takes effect.  Nothing is assumed of the target program: it may hang.
Fairness ==
  /\ WF_vars(FuzzerStep)
  /\ WF_vars(ServerStep)
  /\ WF_vars(Alarm)
  /\ \A p \in Pids : WF_vars(Dies(p))

Spec == Init /\ [][Next]_vars /\ Fairness

-----------------------------------------------------------------------------
(* Properties. *)

FuzzerTypeOK ==
  /\ fpc \in {"hello", "hellodisarm", "idle", "request", "readpid", "arm",
              "readstatus", "clearpid", "disarm", "report", "quit", "fatal"}
  /\ child_pid \in Pids \cup {NoPid, InitPid}
  /\ child_timed_out \in BOOLEAN /\ prev_timed_out \in BOOLEAN
  /\ perform_bbtracing \in BOOLEAN /\ stop_soon \in BOOLEAN /\ timer \in BOOLEAN
  /\ status \in Statuses
  /\ verdict \in {"none", "crash", "tmout"}

ServerTypeOK ==
  /\ spc \in {"start", "read", "reap", "respawn", "respawnwait", "launch",
              "writepid", "waitpid", "writestatus", "dead"}
  /\ is_persistent \in BOOLEAN
  /\ srv_child \in Pids \cup {NoPid}
  /\ child_stopped \in BOOLEAN /\ curr_tracing \in BOOLEAN /\ prev_tracing \in BOOLEAN
  /\ srv_status \in Statuses

Control  == [killed : BOOLEAN, tracing : BOOLEAN]
Messages == Pids \cup Statuses \cup {Hello}

PipesTypeOK == ctl \in Seq(Control) /\ st \in Seq(Messages)

KernelTypeOK ==
  /\ proc \in [Pids -> {"free", "starting", "running", "stopped", "zombie"}]
  /\ killed \in [Pids -> BOOLEAN]
  /\ wstatus \in [Pids -> {"exit", "msan", "segv", "kill"}]
  /\ bb_trace \in [Pids -> BOOLEAN]
  /\ cycle_cnt \in [Pids -> 0 .. MaxCycles]
  /\ job \in [Pids -> {"none", "own", "stale"}]
  /\ \A p \in Pids : job[p] = "none" => proc[p] = "free"

GhostTypeOK ==
  /\ trace \subseteq Tags /\ trace_bb \subseteq Tags
  /\ fate \in Fates /\ expired \in BOOLEAN

TypeOK == FuzzerTypeOK /\ ServerTypeOK /\ PipesTypeOK /\ KernelTypeOK /\ GhostTypeOK

\* The pipes hold at most the one message the two sides are about to exchange:
\* the hello, the control word, the pid, or the pid and the status.  A message
\* of one run is never left for the next one to read.
ChannelDiscipline ==
  /\ fpc = "hello" =>
       /\ spc \in {"start", "read", "dead"} /\ ctl = <<>>
       /\ st = <<>> \/ (spc # "start" /\ Len(st) = 1 /\ st[1] = Hello)
       /\ spc = "read" => st # <<>>
  /\ fpc \in {"hellodisarm", "idle", "request", "clearpid", "disarm", "report"} =>
       spc \in {"read", "dead"} /\ ctl = <<>> /\ st = <<>>
  /\ fpc = "readpid" =>
       \/ spc \in {"read", "dead"} /\ Len(ctl) = 1 /\ st = <<>>
       \/ spc \in {"reap", "respawn", "respawnwait", "launch", "writepid", "dead"}
          /\ ctl = <<>> /\ st = <<>>
       \/ spc \in {"waitpid", "writestatus", "dead"} /\ ctl = <<>>
          /\ Len(st) = 1 /\ st[1] \in Pids
       \/ spc \in {"read", "dead"} /\ ctl = <<>>
          /\ Len(st) = 2 /\ st[1] \in Pids /\ st[2] \in Statuses
  /\ fpc \in {"arm", "readstatus"} =>
       \/ spc \in {"waitpid", "writestatus", "dead"} /\ ctl = <<>> /\ st = <<>>
       \/ spc \in {"read", "dead"} /\ ctl = <<>> /\ Len(st) = 1 /\ st[1] \in Statuses
  /\ fpc \in {"quit", "fatal"} \/ stop_soon => spc = "dead"
  /\ child_stopped \/ spc \in {"reap", "respawn", "respawnwait", "writepid", "waitpid"} =>
       srv_child \in Pids

\* run_target() has the status of its run and has not been called again.
Answered == fpc \in {"clearpid", "disarm", "report", "idle"} /\ child_pid # InitPid

\* Ends that are crashes; of two exits with one code only MSAN's is one.
CrashingEnds == {"segv", "oom"} \cup IF uses_asan THEN {"msan"} ELSE {}
CleanEnds    == {"exit", "msan", "stop"} \ CrashingEnds

\* The verdict is about this run: a crash is reported only when the child
\* crashed (or was shot by a third party) on this input, a timeout only when
\* this run's timer went off, and a clean run only when the child exited or
\* completed its iteration.  (run_target(), child_timed_out, prev_timed_out)
VerdictIsTrue ==
  fpc = "idle" /\ child_pid # InitPid /\ ~stop_soon =>
    /\ verdict = "crash" => fate \in CrashingEnds
    /\ verdict = "tmout" => expired
    /\ verdict = "none"  => fate \in CleanEnds

\* "Past this location, trace_bits[] behave very normally": once the status is
\* read, nothing runs that could still write to the shared maps.
MapsAreQuiet ==
  Answered /\ ~stop_soon => \A p \in Pids : ~Live(p)

\* What is in the maps then was recorded for this input alone: nothing of an
\* earlier input handled by the same process, nothing of the code before
\* __AFL_LOOP mixed with an iteration, and no code after the loop.
MapsAreOwn ==
  Answered /\ ~stop_soon =>
    /\ trace \subseteq {"own"} \/ trace \subseteq {"pre"}
    /\ perform_bbtracing => "stale" \notin trace_bb /\ ~({"pre", "own"} \subseteq trace_bb)

\* The server never waits for a child that is gone, resumes a dead one, or
\* finds it ended in a way it does not expect: it exits only when it is
\* killed.  (the was_killed and _exit(1) paths of __afl_start_forkserver())
ServerSurvives ==
  spc = "dead" => stop_soon \/ child_pid = InitPid

\* A SIGCONT goes to a child that is really stopped, so that the input of this
\* run is executed; the stopped child the server remembers was not killed
\* behind its back unless the next control word says so.
StoppedChildIsThere ==
  spc = "launch" /\ child_stopped => proc[srv_child] = "stopped"

\* At most one child exists at any time, running, stopped or unreaped.
OneChild == Cardinality({p \in Pids : proc[p] # "free"}) <= 1

\* The child that executes this run's input records basic blocks exactly when
\* the fuzzer asked for it, also when it is a reused persistent one.
TracingAsAsked ==
  ~stop_soon => \A p \in Pids :
    Live(p) /\ job[p] = "own" => bb_trace[p] = perform_bbtracing

\* What the run leaves in the maps is its own, complete and at rest.
MapsOfThisRun == MapsAreQuiet /\ MapsAreOwn /\ TracingAsAsked

\* The server never loses track of its child: it survives every run but the
\* one that is interrupted, whichever of the two ends it sees.
ServerKeepsChild == TypeOK /\ ServerSurvives /\ StoppedChildIsThere /\ OneChild

\* "make sure that the subsequent code that follows the loop is not traced"
\* (afl-llvm-rt.o.c, end of __afl_persistent_loop()), read for both maps.
CodeAfterLoopNotTraced == "post" \notin trace \cup trace_bb

\* run_target() returns whatever the target does, hanging included.
RunReturns == fpc = "request" ~> fpc \in {"idle", "quit", "fatal"}

\* The protocol implements the service the rest of the fuzzer sees: a call of
\* run_target() is one execution with one true verdict and its own map.
Service == INSTANCE TargetRun WITH
  busy     <- fpc \notin {"hello", "hellodisarm", "idle", "quit"} /\ ~(fpc = "fatal" /\ fate # "pending"),
  stopping <- stop_soon,
  map      <- trace
ImplementsTargetRun == Service!Spec
=============================================================================
