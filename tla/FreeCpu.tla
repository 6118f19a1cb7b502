--------------------------------- MODULE FreeCpu ---------------------------------
(***************************************************************************)
(* bind_to_free_cpu(): each instance reads the status of the processes in  *)
(* /proc one after the other and binds itself to the first core that none  *)
(* of them is bound to, while others start, bind themselves and end.  What *)
(* an instance runs is bound where it is and may outlive it.               *)
(***************************************************************************)
EXTENDS Integers, FiniteSets

CONSTANTS
  CpuJobs,     \* instances of afl-fuzz
  CoreCount,   \* cpu_core_count
  CpuStarts    \* bound on the number of starts

ASSUME CpuAssumption == CoreCount \in Nat \ {0, 1} /\ CpuStarts \in Nat

VARIABLES
  cpu_step,    \* for each instance
  cores_of,    \* process -> the core it is bound to, NoCore if it may use them all
  alive,       \* processes
  cpu_starts,  \* starts so far
  unread,      \* for each instance, processes whose status it has still to read
  cpu_used,    \* for each instance, the cores seen in use
  throughout,  \* the processes bound all through its scan, with their cores,
  sometime     \* and the cores in use at some time of it

cpuVars == <<cpu_step, cores_of, alive, cpu_starts, unread, cpu_used, throughout, sometime>>

Cores == 0 .. CoreCount - 1
NoCore == -1

Fuzzer(j) == <<j, "fuzzer">>
Target(j) == <<j, "target">>
Processes == CpuJobs \X {"fuzzer", "target"}

Bindings == {<<p, cores_of[p]>> : p \in {q \in alive : cores_of[q] # NoCore}}
InUse(bindings) == {b[2] : b \in bindings}
Scanning(j) == cpu_step[j] = "scan"

\* What the scans that go on meet when processes are bound or end.
Witnessed ==
  /\ throughout' = [j \in CpuJobs |->
       IF cpu_step'[j] = "off" THEN {}
       ELSE IF Scanning(j) /\ cpu_step'[j] = "scan" THEN throughout[j] \cap Bindings'
       ELSE throughout[j]]
  /\ sometime' = [j \in CpuJobs |->
       IF cpu_step'[j] = "off" THEN {}
       ELSE IF Scanning(j) /\ cpu_step'[j] = "scan" THEN sometime[j] \cup InUse(Bindings')
       ELSE sometime[j]]

StartJob(j) ==
  /\ cpu_step[j] = "off" /\ Target(j) \notin alive
  /\ cpu_starts < CpuStarts /\ cpu_starts' = cpu_starts + 1
  /\ alive' = alive \cup {Fuzzer(j)}
  /\ cpu_step' = [cpu_step EXCEPT ![j] = "start"]
  /\ UNCHANGED <<cores_of, unread, cpu_used, throughout, sometime>>

\* opendir("/proc")
OpenProc(j) ==
  /\ cpu_step[j] = "start"
  /\ unread' = [unread EXCEPT ![j] = alive]
  /\ throughout' = [throughout EXCEPT ![j] = Bindings]
  /\ sometime' = [sometime EXCEPT ![j] = InUse(Bindings)]
  /\ cpu_step' = [cpu_step EXCEPT ![j] = "scan"]
  /\ UNCHANGED <<cores_of, alive, cpu_starts, cpu_used>>

\* AFL_NO_AFFINITY
DoNotBind(j) ==
  /\ cpu_step[j] = "start"
  /\ cpu_step' = [cpu_step EXCEPT ![j] = "run"]
  /\ UNCHANGED <<cores_of, alive, cpu_starts, unread, cpu_used, throughout, sometime>>

\* The status of a process, or of one that was not there when the scan began; one
\* that has ended meanwhile has no such file, or no VmSize.
ReadStatus(j) ==
  /\ Scanning(j)
  /\ \E p \in unread[j] \cup alive :
       /\ unread' = [unread EXCEPT ![j] = @ \ {p}]
       /\ cpu_used' = [cpu_used EXCEPT ![j] = @ \cup {b[2] : b \in {x \in Bindings : x[1] = p}}]
  /\ UNCHANGED <<cpu_step, cores_of, alive, cpu_starts, throughout, sometime>>

\* (faulty) as many cores as are in use are passed over.
FirstFreeByCount(c, used) == c = Cardinality(used)

\* The first core that is not flagged, CoreCount for none.
FirstFree(c, used) == c \notin used /\ \A d \in 0 .. c - 1 : d \in used

\* "Binding to #%u", or "No more free CPU cores".
Bind(j) ==
  /\ Scanning(j) /\ unread[j] = {}
  /\ \E c \in 0 .. CoreCount :
       /\ FirstFree(c, cpu_used[j])
       /\ IF c = CoreCount
            THEN /\ cpu_step' = [cpu_step EXCEPT ![j] = "refused"]
                 /\ alive' = alive \ {Fuzzer(j)}
                 /\ UNCHANGED cores_of
            ELSE /\ cores_of' = [cores_of EXCEPT ![Fuzzer(j)] = c]
                 /\ cpu_step' = [cpu_step EXCEPT ![j] = "bound"]
                 /\ UNCHANGED alive
  /\ UNCHANGED <<cpu_starts, unread, cpu_used>>
  /\ Witnessed

\* fork(): the fork server and the target inherit the binding.
RunsTarget(j) ==
  /\ cpu_step[j] \in {"bound", "run"} /\ Target(j) \notin alive
  /\ alive' = alive \cup {Target(j)}
  /\ cores_of' = [cores_of EXCEPT ![Target(j)] = cores_of[Fuzzer(j)]]
  /\ UNCHANGED <<cpu_step, cpu_starts, unread, cpu_used>>
  /\ Witnessed

TargetGone(j) ==
  /\ Target(j) \in alive
  /\ alive' = alive \ {Target(j)}
  /\ cores_of' = [cores_of EXCEPT ![Target(j)] = NoCore]
  /\ UNCHANGED <<cpu_step, cpu_starts, unread, cpu_used>>
  /\ Witnessed

\* The instance ends or is killed; its target need not.
JobGone(j) ==
  /\ cpu_step[j] # "off"
  /\ alive' = alive \ {Fuzzer(j)}
  /\ cores_of' = [cores_of EXCEPT ![Fuzzer(j)] = NoCore]
  /\ cpu_step' = [cpu_step EXCEPT ![j] = "off"]
  /\ unread' = [unread EXCEPT ![j] = {}] /\ cpu_used' = [cpu_used EXCEPT ![j] = {}]
  /\ UNCHANGED cpu_starts
  /\ Witnessed

CpuInit ==
  /\ cpu_step = [j \in CpuJobs |-> "off"]
  /\ cores_of = [p \in Processes |-> NoCore]
  /\ alive = {} /\ cpu_starts = 0
  /\ unread = [j \in CpuJobs |-> {}] /\ cpu_used = unread
  /\ throughout = unread /\ sometime = unread

CpuNext ==
  \E j \in CpuJobs :
    \/ StartJob(j) \/ OpenProc(j) \/ DoNotBind(j) \/ ReadStatus(j) \/ Bind(j)
    \/ RunsTarget(j) \/ TargetGone(j) \/ JobGone(j)

CpuSpec == CpuInit /\ [][CpuNext]_cpuVars

-----------------------------------------------------------------------------
(* Property. *)

\* However the scans of several instances and the ends of others overlap: an
\* instance binds itself to no core that one process was bound to all the time it looked,
\* so two share a core only if one of them, or its target, came while the other
\* looked; and it gives up only if each core was taken at some time meanwhile.
CoreIsFree ==
  \A j \in CpuJobs :
    /\ cpu_step[j] = "bound" => cores_of[Fuzzer(j)] \in Cores \ InUse(throughout[j])
    /\ cpu_step[j] = "refused" => sometime[j] = Cores
=============================================================================
