--------------------------- MODULE ForkServer_proofs ---------------------------
(***************************************************************************)
(* Proofs about the fork server protocol, for any set of process ids, any  *)
(* kind of target and any length of its loop: what the pipes hold          *)
(* (Discipline), that verdicts, maps and the server can be relied on, and  *)
(* that it implements TargetRun.                                           *)
(***************************************************************************)
EXTENDS ForkServer, FiniteSetTheorems, SequenceTheorems, TLAPS

\* The two facts about pipes every step needs: what a write and what a read
\* of a pipe leave in it.
LEMMA PipeWrite ==
  ASSUME NEW S, NEW q \in Seq(S), NEW x \in S
  PROVE  /\ Append(q, x) \in Seq(S)
         /\ Append(q, x) # <<>>
         /\ Len(Append(q, x)) = Len(q) + 1
         /\ \A i \in 1 .. Len(q) : Append(q, x)[i] = q[i]
         /\ Append(q, x)[Len(q) + 1] = x
  BY AppendProperties

LEMMA PipeRead ==
  ASSUME NEW S, NEW q \in Seq(S), q # <<>>
  PROVE  /\ Head(q) = q[1] /\ Head(q) \in S
         /\ Tail(q) \in Seq(S)
         /\ Len(Tail(q)) = Len(q) - 1
         /\ \A i \in 1 .. Len(q) - 1 : Tail(q)[i] = q[i + 1]
  BY HeadTailProperties

LEMMA PipeEmpty ==
  ASSUME NEW S, NEW q \in Seq(S)
  PROVE  /\ Len(q) \in Nat
         /\ q = <<>> <=> Len(q) = 0
  BY EmptySeq, LenProperties

Inv == TypeOK /\ ChannelDiscipline

\* What the pipes' types say of their lengths.
LEMMA PipeFacts ==
  ASSUME PipesTypeOK
  PROVE  /\ Len(ctl) \in Nat /\ (ctl = <<>> <=> Len(ctl) = 0)
         /\ Len(st) \in Nat /\ (st = <<>> <=> Len(st) = 0)
  BY PipeEmpty DEF PipesTypeOK

\* What a kill and a successful wait do to the kernel's tables is well typed.
LEMMA SigKillType ==
  ASSUME NEW p \in Pids, NEW how, KernelTypeOK, SigKill(p, how)
  PROVE  KernelTypeOK'
<1>1. proc' \in [Pids -> {"free", "starting", "running", "stopped", "zombie"}]
  BY DEF SigKill, KernelTypeOK
<1>2. killed' \in [Pids -> BOOLEAN]
  BY DEF SigKill, KernelTypeOK, Live
<1>3. wstatus' \in [Pids -> {"exit", "msan", "segv", "kill"}]
  BY DEF SigKill, KernelTypeOK
<1>4. QED BY <1>1, <1>2, <1>3 DEF SigKill, KernelTypeOK

LEMMA CollectType ==
  ASSUME NEW p \in Pids, KernelTypeOK, Collect(p)
  PROVE  KernelTypeOK'
<1>1. proc' \in [Pids -> {"free", "starting", "running", "stopped", "zombie"}]
  BY DEF Collect, KernelTypeOK
<1>2. wstatus' \in [Pids -> {"exit", "msan", "segv", "kill"}]
  BY DEF Collect, KernelTypeOK
<1>3. cycle_cnt' \in [Pids -> 0 .. MaxCycles]
  BY MaxCyclesAssumption DEF Collect, KernelTypeOK
<1>4. job' \in [Pids -> {"none", "own", "stale"}]
  BY DEF Collect, KernelTypeOK
<1>5. killed' \in [Pids -> BOOLEAN] /\ bb_trace' \in [Pids -> BOOLEAN]
  BY DEF Collect, KernelTypeOK
<1>6. \A q \in Pids : job'[q] = "none" => proc'[q] = "free"
  BY DEF Collect, KernelTypeOK
<1>7. QED BY <1>1, <1>2, <1>3, <1>4, <1>5, <1>6 DEF KernelTypeOK

\* Initially the pipes are empty and everything has its type.
LEMMA InitInv == Init => Inv
<1> SUFFICES ASSUME Init PROVE Inv OBVIOUS
<1>1. FuzzerTypeOK BY DEF Init, FuzzerTypeOK, Statuses
<1>2. ServerTypeOK BY DEF Init, ServerTypeOK, Statuses
<1>3. PipesTypeOK BY EmptySeq DEF Init, PipesTypeOK
<1>4. KernelTypeOK BY MaxCyclesAssumption DEF Init, KernelTypeOK
<1>5. GhostTypeOK BY DEF Init, GhostTypeOK, Fates
<1>6. ChannelDiscipline BY DEF Init, ChannelDiscipline
<1>7. QED BY <1>1, <1>2, <1>3, <1>4, <1>5, <1>6 DEF Inv, TypeOK

\* Types and the discipline of the pipes are preserved together: a read is
\* well typed because of what can be in the pipe at that point.
LEMMA NextInv == Inv /\ [Next]_vars => Inv'
<1> SUFFICES ASSUME Inv, [Next]_vars PROVE Inv'
  OBVIOUS
<1>0. /\ FuzzerTypeOK /\ ServerTypeOK /\ PipesTypeOK /\ KernelTypeOK /\ GhostTypeOK
      /\ ChannelDiscipline
  BY DEF Inv, TypeOK
<1> USE <1>0 DEF fuzzer, server, pipes, kernel, maps
<1>1. ASSUME NEW tracing \in BOOLEAN, StartRun(tracing) PROVE Inv'
  <2>1. FuzzerTypeOK'
    BY <1>1
    DEF StartRun, FuzzerTypeOK, Statuses
  <2>2. ServerTypeOK'
    BY <1>1
    DEF StartRun, ServerTypeOK, Statuses
  <2>3. PipesTypeOK'
    BY <1>1
    DEF StartRun, PipesTypeOK, Control, Messages
  <2>4. KernelTypeOK'
    BY <1>1, MaxCyclesAssumption
    DEF StartRun, KernelTypeOK
  <2>5. GhostTypeOK'
    BY <1>1
    DEF StartRun, GhostTypeOK, Fates, Tags
  <2>6. ChannelDiscipline'
    BY <1>1, PipeFacts, PipeRead, PipeWrite
    DEF StartRun, ChannelDiscipline, PipesTypeOK
  <2>7. QED BY <2>1, <2>2, <2>3, <2>4, <2>5, <2>6 DEF Inv, TypeOK
<1>2. CASE FuzzerHello
  <2>1. FuzzerTypeOK'
    BY <1>2
    DEF FuzzerHello, FuzzerTypeOK, Statuses
  <2>2. ServerTypeOK'
    BY <1>2
    DEF FuzzerHello, ServerTypeOK, Statuses
  <2>3. PipesTypeOK'
    BY <1>2, PipeRead
    DEF FuzzerHello, PipesTypeOK, Control, Messages
  <2>4. KernelTypeOK'
    BY <1>2, MaxCyclesAssumption
    DEF FuzzerHello, KernelTypeOK
  <2>5. GhostTypeOK'
    BY <1>2
    DEF FuzzerHello, GhostTypeOK, Fates, Tags
  <2>6. ChannelDiscipline'
    BY <1>2, PipeFacts, PipeRead, PipeWrite
    DEF FuzzerHello, ChannelDiscipline, PipesTypeOK
  <2>7. QED BY <2>1, <2>2, <2>3, <2>4, <2>5, <2>6 DEF Inv, TypeOK
<1>3. CASE FuzzerHelloFails
  <2>1. FuzzerTypeOK'
    BY <1>3
    DEF FuzzerHelloFails, ServerAlive, FuzzerTypeOK, Statuses
  <2>2. ServerTypeOK'
    BY <1>3
    DEF FuzzerHelloFails, ServerAlive, ServerTypeOK, Statuses
  <2>3. PipesTypeOK'
    BY <1>3
    DEF FuzzerHelloFails, ServerAlive, PipesTypeOK, Control, Messages
  <2>4. KernelTypeOK'
    BY <1>3, MaxCyclesAssumption
    DEF FuzzerHelloFails, ServerAlive, KernelTypeOK
  <2>5. GhostTypeOK'
    BY <1>3
    DEF FuzzerHelloFails, ServerAlive, GhostTypeOK, Fates, Tags
  <2>6. ChannelDiscipline'
    BY <1>3, PipeFacts, PipeRead, PipeWrite
    DEF FuzzerHelloFails, ServerAlive, ChannelDiscipline, PipesTypeOK
  <2>7. QED BY <2>1, <2>2, <2>3, <2>4, <2>5, <2>6 DEF Inv, TypeOK
<1>4. CASE FuzzerHelloDisarm
  <2>1. FuzzerTypeOK'
    BY <1>4
    DEF FuzzerHelloDisarm, FuzzerTypeOK, Statuses
  <2>2. ServerTypeOK'
    BY <1>4
    DEF FuzzerHelloDisarm, ServerTypeOK, Statuses
  <2>3. PipesTypeOK'
    BY <1>4
    DEF FuzzerHelloDisarm, PipesTypeOK, Control, Messages
  <2>4. KernelTypeOK'
    BY <1>4, MaxCyclesAssumption
    DEF FuzzerHelloDisarm, KernelTypeOK
  <2>5. GhostTypeOK'
    BY <1>4
    DEF FuzzerHelloDisarm, GhostTypeOK, Fates, Tags
  <2>6. ChannelDiscipline'
    BY <1>4, PipeFacts, PipeRead, PipeWrite
    DEF FuzzerHelloDisarm, ChannelDiscipline, PipesTypeOK
  <2>7. QED BY <2>1, <2>2, <2>3, <2>4, <2>5, <2>6 DEF Inv, TypeOK
<1>5. CASE WriteCtl
  <2>1. FuzzerTypeOK'
    BY <1>5
    DEF WriteCtl, FuzzerTypeOK, Statuses
  <2>2. ServerTypeOK'
    BY <1>5
    DEF WriteCtl, ServerTypeOK, Statuses
  <2>3. PipesTypeOK'
    BY <1>5, PipeWrite
    DEF WriteCtl, PipesTypeOK, Control, Messages, FuzzerTypeOK, ServerTypeOK, ChannelDiscipline, Statuses
  <2>4. KernelTypeOK'
    BY <1>5, MaxCyclesAssumption
    DEF WriteCtl, KernelTypeOK
  <2>5. GhostTypeOK'
    BY <1>5
    DEF WriteCtl, GhostTypeOK, Fates, Tags
  <2>6. ChannelDiscipline'
    BY <1>5, PipeFacts, PipeRead, PipeWrite
    DEF WriteCtl, ChannelDiscipline, PipesTypeOK
  <2>7. QED BY <2>1, <2>2, <2>3, <2>4, <2>5, <2>6 DEF Inv, TypeOK
<1>6. CASE PipeFails
  <2>1. FuzzerTypeOK'
    BY <1>6
    DEF PipeFails, ServerAlive, FuzzerTypeOK, Statuses
  <2>2. ServerTypeOK'
    BY <1>6
    DEF PipeFails, ServerAlive, ServerTypeOK, Statuses
  <2>3. PipesTypeOK'
    BY <1>6
    DEF PipeFails, ServerAlive, PipesTypeOK, Control, Messages
  <2>4. KernelTypeOK'
    BY <1>6, MaxCyclesAssumption
    DEF PipeFails, ServerAlive, KernelTypeOK
  <2>5. GhostTypeOK'
    BY <1>6
    DEF PipeFails, ServerAlive, GhostTypeOK, Fates, Tags
  <2>6. ChannelDiscipline'
    BY <1>6, PipeFacts, PipeRead, PipeWrite
    DEF PipeFails, ServerAlive, ChannelDiscipline, PipesTypeOK
  <2>7. QED BY <2>1, <2>2, <2>3, <2>4, <2>5, <2>6 DEF Inv, TypeOK
<1>7. CASE ReadPid
  <2>1. FuzzerTypeOK'
    BY <1>7, PipeFacts, PipeRead
    DEF ReadPid, FuzzerTypeOK, Statuses, ChannelDiscipline, PipesTypeOK
  <2>2. ServerTypeOK'
    BY <1>7
    DEF ReadPid, ServerTypeOK, Statuses
  <2>3. PipesTypeOK'
    BY <1>7, PipeRead
    DEF ReadPid, PipesTypeOK, Control, Messages
  <2>4. KernelTypeOK'
    BY <1>7, MaxCyclesAssumption
    DEF ReadPid, KernelTypeOK
  <2>5. GhostTypeOK'
    BY <1>7
    DEF ReadPid, GhostTypeOK, Fates, Tags
  <2>6. ChannelDiscipline'
    BY <1>7, PipeFacts, PipeRead, PipeWrite
    DEF ReadPid, ChannelDiscipline, PipesTypeOK
  <2>7. QED BY <2>1, <2>2, <2>3, <2>4, <2>5, <2>6 DEF Inv, TypeOK
<1>8. CASE ArmTimer
  <2>1. FuzzerTypeOK'
    BY <1>8
    DEF ArmTimer, FuzzerTypeOK, Statuses
  <2>2. ServerTypeOK'
    BY <1>8
    DEF ArmTimer, ServerTypeOK, Statuses
  <2>3. PipesTypeOK'
    BY <1>8
    DEF ArmTimer, PipesTypeOK, Control, Messages
  <2>4. KernelTypeOK'
    BY <1>8, MaxCyclesAssumption
    DEF ArmTimer, KernelTypeOK
  <2>5. GhostTypeOK'
    BY <1>8
    DEF ArmTimer, GhostTypeOK, Fates, Tags
  <2>6. ChannelDiscipline'
    BY <1>8, PipeFacts, PipeRead, PipeWrite
    DEF ArmTimer, ChannelDiscipline, PipesTypeOK
  <2>7. QED BY <2>1, <2>2, <2>3, <2>4, <2>5, <2>6 DEF Inv, TypeOK
<1>9. CASE ReadStatus
  <2>1. FuzzerTypeOK'
    BY <1>9, PipeFacts, PipeRead
    DEF ReadStatus, FuzzerTypeOK, Statuses, ChannelDiscipline, PipesTypeOK
  <2>2. ServerTypeOK'
    BY <1>9
    DEF ReadStatus, ServerTypeOK, Statuses
  <2>3. PipesTypeOK'
    BY <1>9, PipeRead
    DEF ReadStatus, PipesTypeOK, Control, Messages
  <2>4. KernelTypeOK'
    BY <1>9, MaxCyclesAssumption
    DEF ReadStatus, KernelTypeOK
  <2>5. GhostTypeOK'
    BY <1>9
    DEF ReadStatus, GhostTypeOK, Fates, Tags
  <2>6. ChannelDiscipline'
    BY <1>9, PipeFacts, PipeRead, PipeWrite
    DEF ReadStatus, ChannelDiscipline, PipesTypeOK
  <2>7. QED BY <2>1, <2>2, <2>3, <2>4, <2>5, <2>6 DEF Inv, TypeOK
<1>10. CASE ClearPid
  <2>1. FuzzerTypeOK'
    BY <1>10
    DEF ClearPid, FuzzerTypeOK, Statuses
  <2>2. ServerTypeOK'
    BY <1>10
    DEF ClearPid, ServerTypeOK, Statuses
  <2>3. PipesTypeOK'
    BY <1>10
    DEF ClearPid, PipesTypeOK, Control, Messages
  <2>4. KernelTypeOK'
    BY <1>10, MaxCyclesAssumption
    DEF ClearPid, KernelTypeOK
  <2>5. GhostTypeOK'
    BY <1>10
    DEF ClearPid, GhostTypeOK, Fates, Tags
  <2>6. ChannelDiscipline'
    BY <1>10, PipeFacts, PipeRead, PipeWrite
    DEF ClearPid, ChannelDiscipline, PipesTypeOK
  <2>7. QED BY <2>1, <2>2, <2>3, <2>4, <2>5, <2>6 DEF Inv, TypeOK
<1>11. CASE DisarmTimer
  <2>1. FuzzerTypeOK'
    BY <1>11
    DEF DisarmTimer, FuzzerTypeOK, Statuses
  <2>2. ServerTypeOK'
    BY <1>11
    DEF DisarmTimer, ServerTypeOK, Statuses
  <2>3. PipesTypeOK'
    BY <1>11
    DEF DisarmTimer, PipesTypeOK, Control, Messages
  <2>4. KernelTypeOK'
    BY <1>11, MaxCyclesAssumption
    DEF DisarmTimer, KernelTypeOK
  <2>5. GhostTypeOK'
    BY <1>11
    DEF DisarmTimer, GhostTypeOK, Fates, Tags
  <2>6. ChannelDiscipline'
    BY <1>11, PipeFacts, PipeRead, PipeWrite
    DEF DisarmTimer, ChannelDiscipline, PipesTypeOK
  <2>7. QED BY <2>1, <2>2, <2>3, <2>4, <2>5, <2>6 DEF Inv, TypeOK
<1>12. CASE Report
  <2>1. FuzzerTypeOK'
    BY <1>12
    DEF Report, Verdict, ExitVerdict, FuzzerTypeOK, Statuses
  <2>2. ServerTypeOK'
    BY <1>12
    DEF Report, Verdict, ServerTypeOK, Statuses
  <2>3. PipesTypeOK'
    BY <1>12
    DEF Report, Verdict, PipesTypeOK, Control, Messages
  <2>4. KernelTypeOK'
    BY <1>12, MaxCyclesAssumption
    DEF Report, Verdict, KernelTypeOK
  <2>5. GhostTypeOK'
    BY <1>12
    DEF Report, Verdict, GhostTypeOK, Fates, Tags
  <2>6. ChannelDiscipline'
    BY <1>12, PipeFacts, PipeRead, PipeWrite
    DEF Report, Verdict, ChannelDiscipline, PipesTypeOK
  <2>7. QED BY <2>1, <2>2, <2>3, <2>4, <2>5, <2>6 DEF Inv, TypeOK
<1>13. CASE ServerHello
  <2>1. FuzzerTypeOK'
    BY <1>13
    DEF ServerHello, FuzzerTypeOK, Statuses
  <2>2. ServerTypeOK'
    BY <1>13
    DEF ServerHello, ServerTypeOK, Statuses
  <2>3. PipesTypeOK'
    BY <1>13, PipeWrite
    DEF ServerHello, PipesTypeOK, Control, Messages, FuzzerTypeOK, ServerTypeOK, ChannelDiscipline, Statuses
  <2>4. KernelTypeOK'
    BY <1>13, MaxCyclesAssumption
    DEF ServerHello, KernelTypeOK
  <2>5. GhostTypeOK'
    BY <1>13
    DEF ServerHello, GhostTypeOK, Fates, Tags
  <2>6. ChannelDiscipline'
    BY <1>13, PipeFacts, PipeRead, PipeWrite
    DEF ServerHello, ChannelDiscipline, PipesTypeOK
  <2>7. QED BY <2>1, <2>2, <2>3, <2>4, <2>5, <2>6 DEF Inv, TypeOK
<1>14. CASE ReadCtl
  <2>1. FuzzerTypeOK'
    BY <1>14
    DEF ReadCtl, Choice, FuzzerTypeOK, Statuses
  <2>2. ServerTypeOK'
    <3>1. Head(ctl) \in Control
      BY <1>14, PipeRead DEF ReadCtl, PipesTypeOK
    <3>2. Head(ctl).tracing \in BOOLEAN
      BY <3>1 DEF Control
    <3>3. QED BY <1>14, <3>2 DEF ReadCtl, Choice, ServerTypeOK
  <2>3. PipesTypeOK'
    BY <1>14, PipeRead
    DEF ReadCtl, Choice, PipesTypeOK, Control, Messages
  <2>4. KernelTypeOK'
    BY <1>14, MaxCyclesAssumption
    DEF ReadCtl, Choice, KernelTypeOK
  <2>5. GhostTypeOK'
    BY <1>14
    DEF ReadCtl, Choice, GhostTypeOK, Fates, Tags
  <2>6. ChannelDiscipline'
    BY <1>14, PipeFacts, PipeRead, PipeWrite
    DEF ReadCtl, Choice, ChannelDiscipline, PipesTypeOK
  <2>7. QED BY <2>1, <2>2, <2>3, <2>4, <2>5, <2>6 DEF Inv, TypeOK
<1>15. CASE Reap
  <2>1. FuzzerTypeOK'
    BY <1>15
    DEF Reap, Collect, FuzzerTypeOK, Statuses
  <2>2. ServerTypeOK'
    BY <1>15
    DEF Reap, Collect, ServerTypeOK, Statuses
  <2>3. PipesTypeOK'
    BY <1>15
    DEF Reap, Collect, PipesTypeOK, Control, Messages
  <2>4. KernelTypeOK'
    BY <1>15, CollectType DEF Reap, KernelTypeOK, ChannelDiscipline
  <2>5. GhostTypeOK'
    BY <1>15
    DEF Reap, Collect, GhostTypeOK, Fates, Tags
  <2>6. ChannelDiscipline'
    BY <1>15, PipeFacts, PipeRead, PipeWrite
    DEF Reap, Collect, ChannelDiscipline, PipesTypeOK
  <2>7. QED BY <2>1, <2>2, <2>3, <2>4, <2>5, <2>6 DEF Inv, TypeOK
<1>16. CASE RespawnKill
  <2>1. FuzzerTypeOK'
    BY <1>16
    DEF RespawnKill, SigKill, Live, FuzzerTypeOK, Statuses
  <2>2. ServerTypeOK'
    BY <1>16
    DEF RespawnKill, SigKill, Live, ServerTypeOK, Statuses
  <2>3. PipesTypeOK'
    BY <1>16
    DEF RespawnKill, SigKill, Live, PipesTypeOK, Control, Messages
  <2>4. KernelTypeOK'
    BY <1>16, SigKillType DEF RespawnKill, ChannelDiscipline
  <2>5. GhostTypeOK'
    BY <1>16
    DEF RespawnKill, SigKill, Live, GhostTypeOK, Fates, Tags
  <2>6. ChannelDiscipline'
    BY <1>16, PipeFacts, PipeRead, PipeWrite
    DEF RespawnKill, SigKill, Live, ChannelDiscipline, PipesTypeOK
  <2>7. QED BY <2>1, <2>2, <2>3, <2>4, <2>5, <2>6 DEF Inv, TypeOK
<1>17. CASE RespawnWait
  <2>1. FuzzerTypeOK'
    BY <1>17
    DEF RespawnWait, Collect, FuzzerTypeOK, Statuses
  <2>2. ServerTypeOK'
    BY <1>17
    DEF RespawnWait, Collect, ServerTypeOK, Statuses
  <2>3. PipesTypeOK'
    BY <1>17
    DEF RespawnWait, Collect, PipesTypeOK, Control, Messages
  <2>4. KernelTypeOK'
    BY <1>17, CollectType DEF RespawnWait, ChannelDiscipline
  <2>5. GhostTypeOK'
    BY <1>17
    DEF RespawnWait, Collect, GhostTypeOK, Fates, Tags
  <2>6. ChannelDiscipline'
    BY <1>17, PipeFacts, PipeRead, PipeWrite
    DEF RespawnWait, Collect, ChannelDiscipline, PipesTypeOK
  <2>7. QED BY <2>1, <2>2, <2>3, <2>4, <2>5, <2>6 DEF Inv, TypeOK
<1>18. CASE Fork
  <2>1. FuzzerTypeOK'
    BY <1>18
    DEF Fork, FuzzerTypeOK, Statuses
  <2>2. ServerTypeOK'
    BY <1>18
    DEF Fork, ServerTypeOK, Statuses
  <2>3. PipesTypeOK'
    BY <1>18
    DEF Fork, PipesTypeOK, Control, Messages
  <2>4. KernelTypeOK'
    <3>1. PICK p \in Pids :
            /\ proc'      = [proc EXCEPT ![p] = IF is_persistent THEN "starting" ELSE "running"]
            /\ killed'    = [killed EXCEPT ![p] = FALSE]
            /\ bb_trace'  = [bb_trace EXCEPT ![p] = curr_tracing]
            /\ cycle_cnt' = [cycle_cnt EXCEPT ![p] = 0]
            /\ job'       = [job EXCEPT ![p] = "own"]
      BY <1>18 DEF Fork
    <3>2. cycle_cnt' \in [Pids -> 0 .. MaxCycles]
      BY <3>1, MaxCyclesAssumption DEF KernelTypeOK
    <3>3. proc' \in [Pids -> {"free", "starting", "running", "stopped", "zombie"}]
          /\ killed' \in [Pids -> BOOLEAN] /\ job' \in [Pids -> {"none", "own", "stale"}]
      BY <3>1 DEF KernelTypeOK
    <3>4. bb_trace' \in [Pids -> BOOLEAN]
      BY <3>1 DEF KernelTypeOK, ServerTypeOK
    <3>5. \A q \in Pids : job'[q] = "none" => proc'[q] = "free"
      BY <3>1 DEF KernelTypeOK
    <3>6. QED BY <1>18, <3>2, <3>3, <3>4, <3>5 DEF Fork, KernelTypeOK
  <2>5. GhostTypeOK'
    BY <1>18
    DEF Fork, GhostTypeOK, Fates, Tags
  <2>6. ChannelDiscipline'
    BY <1>18, PipeFacts, PipeRead, PipeWrite
    DEF Fork, ChannelDiscipline, PipesTypeOK
  <2>7. QED BY <2>1, <2>2, <2>3, <2>4, <2>5, <2>6 DEF Inv, TypeOK
<1>19. CASE Resume
  <2>1. FuzzerTypeOK'
    BY <1>19
    DEF Resume, FuzzerTypeOK, Statuses
  <2>2. ServerTypeOK'
    BY <1>19
    DEF Resume, ServerTypeOK, Statuses
  <2>3. PipesTypeOK'
    BY <1>19
    DEF Resume, PipesTypeOK, Control, Messages
  <2>4. KernelTypeOK'
    BY <1>19, MaxCyclesAssumption
    DEF Resume, KernelTypeOK, ChannelDiscipline
  <2>5. GhostTypeOK'
    BY <1>19
    DEF Resume, GhostTypeOK, Fates, Tags
  <2>6. ChannelDiscipline'
    BY <1>19, PipeFacts, PipeRead, PipeWrite
    DEF Resume, ChannelDiscipline, PipesTypeOK
  <2>7. QED BY <2>1, <2>2, <2>3, <2>4, <2>5, <2>6 DEF Inv, TypeOK
<1>20. CASE WritePid
  <2>1. FuzzerTypeOK'
    BY <1>20
    DEF WritePid, FuzzerTypeOK, Statuses
  <2>2. ServerTypeOK'
    BY <1>20
    DEF WritePid, ServerTypeOK, Statuses
  <2>3. PipesTypeOK'
    BY <1>20, PipeWrite
    DEF WritePid, PipesTypeOK, Control, Messages, FuzzerTypeOK, ServerTypeOK, ChannelDiscipline, Statuses
  <2>4. KernelTypeOK'
    BY <1>20, MaxCyclesAssumption
    DEF WritePid, KernelTypeOK
  <2>5. GhostTypeOK'
    BY <1>20
    DEF WritePid, GhostTypeOK, Fates, Tags
  <2>6. ChannelDiscipline'
    BY <1>20, PipeFacts, PipeRead, PipeWrite
    DEF WritePid, ChannelDiscipline, PipesTypeOK
  <2>7. QED BY <2>1, <2>2, <2>3, <2>4, <2>5, <2>6 DEF Inv, TypeOK
<1>21. CASE WaitPid
  <2>1. FuzzerTypeOK'
    BY <1>21
    DEF WaitPid, Collect, Waitable, FuzzerTypeOK, Statuses
  <2>2. ServerTypeOK'
    BY <1>21
    DEF WaitPid, Collect, Waitable, ServerTypeOK, Statuses, KernelTypeOK, ChannelDiscipline
  <2>3. PipesTypeOK'
    BY <1>21
    DEF WaitPid, Collect, Waitable, PipesTypeOK, Control, Messages
  <2>4. KernelTypeOK'
    BY <1>21, CollectType DEF WaitPid, KernelTypeOK, ChannelDiscipline
  <2>5. GhostTypeOK'
    BY <1>21
    DEF WaitPid, Collect, Waitable, GhostTypeOK, Fates, Tags
  <2>6. ChannelDiscipline'
    BY <1>21, PipeFacts, PipeRead, PipeWrite
    DEF WaitPid, Collect, Waitable, ChannelDiscipline, PipesTypeOK
  <2>7. QED BY <2>1, <2>2, <2>3, <2>4, <2>5, <2>6 DEF Inv, TypeOK
<1>22. CASE WriteStatus
  <2>1. FuzzerTypeOK'
    BY <1>22
    DEF WriteStatus, FuzzerTypeOK, Statuses
  <2>2. ServerTypeOK'
    BY <1>22
    DEF WriteStatus, ServerTypeOK, Statuses
  <2>3. PipesTypeOK'
    BY <1>22, PipeWrite
    DEF WriteStatus, PipesTypeOK, Control, Messages, FuzzerTypeOK, ServerTypeOK, ChannelDiscipline, Statuses
  <2>4. KernelTypeOK'
    BY <1>22, MaxCyclesAssumption
    DEF WriteStatus, KernelTypeOK
  <2>5. GhostTypeOK'
    BY <1>22
    DEF WriteStatus, GhostTypeOK, Fates, Tags
  <2>6. ChannelDiscipline'
    <3>1. /\ st' = Append(st, srv_status) /\ srv_status \in Messages
          /\ spc = "writestatus" /\ spc' = "read"
          /\ UNCHANGED <<fpc, ctl, srv_child, child_stopped, stop_soon>>
      BY <1>22 DEF WriteStatus, ServerTypeOK, Messages
    <3>2. /\ Len(st') = Len(st) + 1 /\ st'[Len(st) + 1] = srv_status
          /\ \A i \in 1 .. Len(st) : st'[i] = st[i]
          /\ st' # <<>>
      BY <3>1, PipeWrite DEF PipesTypeOK
    <3>3. QED BY <3>1, <3>2, PipeFacts DEF ChannelDiscipline, ServerTypeOK
  <2>7. QED BY <2>1, <2>2, <2>3, <2>4, <2>5, <2>6 DEF Inv, TypeOK
<1>23. CASE Alarm
  <2>1. FuzzerTypeOK'
    <3>1. timer' = FALSE /\ child_timed_out' \in BOOLEAN
      BY <1>23 DEF Alarm, FuzzerTypeOK
    <3>2. UNCHANGED <<fpc, child_pid, prev_timed_out, perform_bbtracing, stop_soon, status, verdict>>
      BY <1>23 DEF Alarm
    <3>3. QED BY <3>1, <3>2 DEF FuzzerTypeOK
  <2>2. ServerTypeOK'
    BY <1>23
    DEF Alarm, SigKill, Live, ServerTypeOK, Statuses
  <2>3. PipesTypeOK'
    BY <1>23
    DEF Alarm, SigKill, Live, PipesTypeOK, Control, Messages
  <2>4. KernelTypeOK'
    BY <1>23, SigKillType DEF Alarm, KernelTypeOK
  <2>5. GhostTypeOK'
    BY <1>23
    DEF Alarm, SigKill, Live, GhostTypeOK, Fates, Tags
  <2>6. ChannelDiscipline'
    BY <1>23, PipeFacts, PipeRead, PipeWrite
    DEF Alarm, SigKill, Live, ChannelDiscipline, PipesTypeOK
  <2>7. QED BY <2>1, <2>2, <2>3, <2>4, <2>5, <2>6 DEF Inv, TypeOK
<1>24. CASE StopSignal
  <2>1. FuzzerTypeOK'
    BY <1>24
    DEF StopSignal, SigKill, Live, FuzzerTypeOK, Statuses
  <2>2. ServerTypeOK'
    BY <1>24
    DEF StopSignal, SigKill, Live, ServerTypeOK, Statuses
  <2>3. PipesTypeOK'
    BY <1>24
    DEF StopSignal, SigKill, Live, PipesTypeOK, Control, Messages
  <2>4. KernelTypeOK'
    BY <1>24, SigKillType DEF StopSignal, KernelTypeOK
  <2>5. GhostTypeOK'
    BY <1>24
    DEF StopSignal, SigKill, Live, GhostTypeOK, Fates, Tags
  <2>6. ChannelDiscipline'
    BY <1>24, PipeFacts, PipeRead, PipeWrite
    DEF StopSignal, SigKill, Live, ChannelDiscipline, PipesTypeOK
  <2>7. QED BY <2>1, <2>2, <2>3, <2>4, <2>5, <2>6 DEF Inv, TypeOK
<1>25. ASSUME NEW p \in Pids, Execute(p) PROVE Inv'
  <2>1. FuzzerTypeOK'
    BY <1>25
    DEF Execute, Tag, Live, FuzzerTypeOK, Statuses
  <2>2. ServerTypeOK'
    BY <1>25
    DEF Execute, Tag, Live, ServerTypeOK, Statuses
  <2>3. PipesTypeOK'
    BY <1>25
    DEF Execute, Tag, Live, PipesTypeOK, Control, Messages
  <2>4. KernelTypeOK'
    BY <1>25, MaxCyclesAssumption
    DEF Execute, Tag, Live, KernelTypeOK
  <2>5. GhostTypeOK'
    <3>1. Tag(p) \in Tags
      BY <1>25 DEF Execute, Tag, Live, KernelTypeOK, Tags
    <3>2. QED BY <1>25, <3>1 DEF Execute, GhostTypeOK
  <2>6. ChannelDiscipline'
    BY <1>25, PipeFacts, PipeRead, PipeWrite
    DEF Execute, Tag, Live, ChannelDiscipline, PipesTypeOK
  <2>7. QED BY <2>1, <2>2, <2>3, <2>4, <2>5, <2>6 DEF Inv, TypeOK
<1>26. ASSUME NEW p \in Pids, FirstPass(p) PROVE Inv'
  <2>1. FuzzerTypeOK'
    BY <1>26
    DEF FirstPass, FuzzerTypeOK, Statuses
  <2>2. ServerTypeOK'
    BY <1>26
    DEF FirstPass, ServerTypeOK, Statuses
  <2>3. PipesTypeOK'
    BY <1>26
    DEF FirstPass, PipesTypeOK, Control, Messages
  <2>4. KernelTypeOK'
    BY <1>26, MaxCyclesAssumption
    DEF FirstPass, KernelTypeOK
  <2>5. GhostTypeOK'
    BY <1>26
    DEF FirstPass, GhostTypeOK, Fates, Tags
  <2>6. ChannelDiscipline'
    BY <1>26, PipeFacts, PipeRead, PipeWrite
    DEF FirstPass, ChannelDiscipline, PipesTypeOK
  <2>7. QED BY <2>1, <2>2, <2>3, <2>4, <2>5, <2>6 DEF Inv, TypeOK
<1>27. ASSUME NEW p \in Pids, NextPass(p) PROVE Inv'
  <2>1. FuzzerTypeOK'
    BY <1>27
    DEF NextPass, FuzzerTypeOK, Statuses
  <2>2. ServerTypeOK'
    BY <1>27
    DEF NextPass, ServerTypeOK, Statuses
  <2>3. PipesTypeOK'
    BY <1>27
    DEF NextPass, PipesTypeOK, Control, Messages
  <2>4. KernelTypeOK'
    BY <1>27, MaxCyclesAssumption
    DEF NextPass, KernelTypeOK
  <2>5. GhostTypeOK'
    BY <1>27
    DEF NextPass, GhostTypeOK, Fates, Tags
  <2>6. ChannelDiscipline'
    BY <1>27, PipeFacts, PipeRead, PipeWrite
    DEF NextPass, ChannelDiscipline, PipesTypeOK
  <2>7. QED BY <2>1, <2>2, <2>3, <2>4, <2>5, <2>6 DEF Inv, TypeOK
<1>28. ASSUME NEW p \in Pids, Dies(p) PROVE Inv'
  <2>1. FuzzerTypeOK'
    BY <1>28
    DEF Dies, Live, FuzzerTypeOK, Statuses
  <2>2. ServerTypeOK'
    BY <1>28
    DEF Dies, Live, ServerTypeOK, Statuses
  <2>3. PipesTypeOK'
    BY <1>28
    DEF Dies, Live, PipesTypeOK, Control, Messages
  <2>4. KernelTypeOK'
    BY <1>28, MaxCyclesAssumption
    DEF Dies, Live, KernelTypeOK
  <2>5. GhostTypeOK'
    BY <1>28
    DEF Dies, Live, GhostTypeOK, Fates, Tags
  <2>6. ChannelDiscipline'
    BY <1>28, PipeFacts, PipeRead, PipeWrite
    DEF Dies, Live, ChannelDiscipline, PipesTypeOK
  <2>7. QED BY <2>1, <2>2, <2>3, <2>4, <2>5, <2>6 DEF Inv, TypeOK
<1>29. ASSUME NEW p \in Pids, NEW how \in {"exit", "msan", "segv", "oom"}, Ends(p, how) PROVE Inv'
  <2>1. FuzzerTypeOK'
    BY <1>29
    DEF Ends, Live, FuzzerTypeOK, Statuses
  <2>2. ServerTypeOK'
    BY <1>29
    DEF Ends, Live, ServerTypeOK, Statuses
  <2>3. PipesTypeOK'
    BY <1>29
    DEF Ends, Live, PipesTypeOK, Control, Messages
  <2>4. KernelTypeOK'
    BY <1>29, MaxCyclesAssumption
    DEF Ends, Live, KernelTypeOK
  <2>5. GhostTypeOK'
    BY <1>29
    DEF Ends, Live, GhostTypeOK, Fates, Tags
  <2>6. ChannelDiscipline'
    BY <1>29, PipeFacts, PipeRead, PipeWrite
    DEF Ends, Live, ChannelDiscipline, PipesTypeOK
  <2>7. QED BY <2>1, <2>2, <2>3, <2>4, <2>5, <2>6 DEF Inv, TypeOK
<1>30. CASE UNCHANGED vars
  BY <1>30 DEF vars, Inv, TypeOK, FuzzerTypeOK, ServerTypeOK, PipesTypeOK, KernelTypeOK,
     GhostTypeOK, ChannelDiscipline
<1>31. QED
  BY <1>1, <1>2, <1>3, <1>4, <1>5, <1>6, <1>7, <1>8, <1>9, <1>10, <1>11, <1>12, <1>13, <1>14, <1>15, <1>16, <1>17, <1>18, <1>19, <1>20, <1>21, <1>22, <1>23, <1>24, <1>25, <1>26, <1>27, <1>28, <1>29, <1>30
  DEF Next, FuzzerStep, ServerStep, ChildStep

\* The state is well typed, and no message is ever left over for another run.
THEOREM Discipline == Spec => [](TypeOK /\ ChannelDiscipline)
<1>1. Inv => TypeOK /\ ChannelDiscipline BY DEF Inv
<1>2. QED BY InitInv, NextInv, <1>1, PTL DEF Spec

-----------------------------------------------------------------------------
(* Where the one child is, and what each side knows of it. *)

NoneLive == \A p \in Pids : ~Live(p)
AllFree  == \A p \in Pids : proc[p] = "free"

\* Whatever is not free is the child the server remembers.
Alone == \A p \in Pids : proc[p] # "free" => p = srv_child

\* The server ends by the stop signal, or by the timer before the first run.
Ended ==
  /\ fpc = "fatal" => AllFree
  /\ spc = "dead" /\ ~stop_soon =>
       child_pid = InitPid /\ AllFree /\ fpc \in {"hello", "hellodisarm", "idle", "request", "fatal"}

\* When nothing runs.
Quiet ==
  /\ fpc \in {"hello", "hellodisarm"} => AllFree /\ child_pid = InitPid
  /\ fpc \in {"idle", "request", "clearpid", "disarm", "report"} => NoneLive
  /\ fpc = "readpid" /\ Len(st) = 2 => NoneLive
  /\ fpc \in {"arm", "readstatus"} /\ st # <<>> => NoneLive

\* What is known of a run that has not ended, and what is never in the map.
Pending ==
  /\ fpc \in {"hello", "hellodisarm"} => fate = "exit"
  /\ fpc = "request" => fate = "pending"
  /\ fpc \in {"request", "readpid", "arm", "readstatus", "clearpid", "disarm", "report"} =>
       verdict = "none"
  /\ ~NoneLive => fate \in {"pending", "timeout", "abort"}
  /\ "post" \notin trace

\* The fuzzer's idea of the child, and when the timer may be armed.
FuzzerSide == spc # "dead" =>
  /\ timer => fpc \in {"hello", "hellodisarm", "readstatus", "clearpid", "disarm"}
  /\ child_pid = InitPid => fpc \in {"hello", "hellodisarm", "idle", "request", "readpid"}
  /\ fpc \in {"arm", "readstatus", "clearpid"} => child_pid = srv_child /\ srv_child \in Pids
  /\ fpc = "disarm" /\ child_pid \in Pids => child_pid = srv_child /\ child_stopped
  /\ fpc \in {"hello", "hellodisarm", "request", "readpid", "arm"} => ~child_timed_out
  /\ child_timed_out => expired

\* What is in the pipes, and what the server has of it.
Talk == spc # "dead" =>
  /\ ctl # <<>> => Head(ctl) = [killed |-> prev_timed_out, tracing |-> perform_bbtracing]
  /\ spc \in {"reap", "respawn", "respawnwait", "launch", "writepid", "waitpid", "writestatus"} =>
       curr_tracing = perform_bbtracing
  /\ st # <<>> /\ fpc = "readpid" => st[1] = srv_child

\* The stopped child was killed by a timeout the server will be told of.
Excused == IF fpc \in {"idle", "request"} \/ ctl # <<>> THEN prev_timed_out ELSE child_timed_out

\* The server's idea of the child.
ChildSide == spc # "dead" =>
  /\ child_stopped =>
       proc[srv_child] \in {"stopped", "zombie"} /\ ~killed[srv_child]
  /\ child_stopped /\ spc \in {"read", "writestatus"} /\ proc[srv_child] = "zombie" => Excused
  /\ child_stopped => bb_trace[srv_child] =
       IF spc \in {"launch", "writestatus"} THEN curr_tracing
       ELSE IF spc \in {"start", "read"} THEN prev_tracing ELSE bb_trace[srv_child]
  /\ spc \in {"start", "read", "launch", "writestatus"} /\ ~child_stopped => AllFree
  /\ spc \in {"reap", "respawn", "respawnwait"} => child_stopped
  /\ spc \in {"respawn", "launch"} /\ child_stopped => proc[srv_child] = "stopped"
  /\ spc = "respawnwait" => proc[srv_child] = "zombie" /\ wstatus[srv_child] = "kill"
  /\ spc \in {"writepid", "waitpid"} =>
       /\ ~child_stopped /\ proc[srv_child] # "free" /\ job[srv_child] = "own"
       /\ bb_trace[srv_child] = curr_tracing
       /\ killed[srv_child] => child_timed_out /\ proc[srv_child] # "stopped"
  /\ spc = "writestatus" => (child_stopped <=> srv_status = "stop")

\* s says how the run ended; a stop also says that the child is still there.
Truth(s) ==
  /\ s \in {"segv", "exit", "msan", "stop"} => fate = s
  /\ s = "kill" => fate = "oom" \/ child_timed_out
Told(s) == Truth(s) /\ (s = "stop" => child_stopped)

\* Every status on its way from the kernel to run_target() is true.
Fate == spc # "dead" =>
  /\ spc \in {"reap", "respawn", "respawnwait", "launch"} \/ ctl # <<>> => fate = "pending"
  /\ spc \in {"writepid", "waitpid"} =>
       /\ proc[srv_child] = "zombie" => Truth(wstatus[srv_child])
       /\ proc[srv_child] = "stopped" => fate = "stop"
  /\ spc = "writestatus" => Told(srv_status)
  /\ spc = "read" /\ fpc = "readpid" /\ st # <<>> => Told(st[2])
  /\ spc = "read" /\ fpc \in {"arm", "readstatus"} => Told(st[1])
  /\ fpc \in {"clearpid", "disarm", "report"} => Told(status)

\* What the maps hold before, during and after the child's work.
MapsOK == spc # "dead" =>
  /\ fpc = "request" \/ ctl # <<>> \/ spc \in {"reap", "respawn", "respawnwait", "launch"} =>
       trace = {} /\ (perform_bbtracing => trace_bb = {})
  /\ trace \subseteq {"own"} \/ trace \subseteq {"pre"}
  /\ perform_bbtracing => trace_bb \subseteq {"own", "post"} \/ trace_bb \subseteq {"pre"}
  /\ spc \in {"writepid", "waitpid"} =>
       /\ proc[srv_child] = "starting" =>
            /\ is_persistent
            /\ trace \subseteq {"pre"} /\ (perform_bbtracing => trace_bb \subseteq {"pre"})
       /\ proc[srv_child] = "running" =>
            trace \subseteq {"own"} /\ (perform_bbtracing => trace_bb \subseteq {"own", "post"})

\* An exit code that is on its way when Ctrl-C strikes is still true.
Exited ==
  /\ fpc = "readpid" /\ Len(st) = 2 /\ st[2] = "msan" => fate = "msan"
  /\ fpc \in {"arm", "readstatus"} /\ Len(st) = 1 /\ st[1] = "msan" => fate = "msan"
  /\ fpc \in {"clearpid", "disarm", "report"} /\ status = "msan" => fate = "msan"

IInv ==
  /\ Inv /\ Alone /\ Ended /\ Quiet /\ Pending /\ FuzzerSide /\ Talk /\ ChildSide /\ Fate /\ MapsOK
  /\ Exited /\ VerdictIsTrue

-----------------------------------------------------------------------------
(* Each part is kept by every step. *)

\* A child is forked only when the one before it was collected.
LEMMA AloneStep ==
  ASSUME IInv, Inv', [Next]_vars
  PROVE  Alone'
<1>1. ASSUME NEW tracing \in BOOLEAN, StartRun(tracing)  PROVE Alone'
  BY <1>1 DEF StartRun, IInv, Alone, server
<1>2. CASE FuzzerStep
  BY <1>2
  DEF FuzzerStep, FuzzerHello, FuzzerHelloFails, FuzzerHelloDisarm, WriteCtl, PipeFails,
     ReadPid, ArmTimer, ReadStatus, ClearPid, DisarmTimer, Report, Verdict, IInv, Alone,
     server, kernel
<1>3. CASE ServerStep
  BY <1>3
  DEF ServerStep, ServerHello, ReadCtl, Choice, Reap, Collect, RespawnKill, SigKill, Live,
     RespawnWait, Fork, Resume, WritePid, WaitPid, Waitable, WriteStatus, IInv, Inv, TypeOK,
     Alone, ChildSide, AllFree, KernelTypeOK, server, kernel
<1>4. CASE Alarm
  BY <1>4 DEF Alarm, SigKill, Live, IInv, Inv, TypeOK, Alone, KernelTypeOK, server, kernel
<1>5. CASE StopSignal
  BY <1>5
  DEF StopSignal, SigKill, Live, IInv, Inv, TypeOK, Alone, KernelTypeOK, server, kernel
<1>6. ASSUME NEW p \in Pids, ChildStep(p)  PROVE Alone'
  BY <1>6
  DEF ChildStep, Execute, FirstPass, NextPass, Dies, Ends, Tag, Live, IInv, Inv, TypeOK,
     Alone, KernelTypeOK, server, kernel
<1>7. CASE UNCHANGED vars
  BY <1>7 DEF vars, fuzzer, server, pipes, kernel, maps, IInv, Alone
<1>8. QED
  BY <1>1, <1>2, <1>3, <1>4, <1>5, <1>6, <1>7
  DEF Next

\* The server never meets an end it does not expect.
LEMMA EndedStep ==
  ASSUME IInv, Inv', [Next]_vars
  PROVE  Ended'
<1>1. ASSUME NEW tracing \in BOOLEAN, StartRun(tracing)  PROVE Ended'
  BY <1>1 DEF StartRun, IInv, Ended, AllFree
<1>2. CASE FuzzerStep
  BY <1>2
  DEF FuzzerStep, FuzzerHello, FuzzerHelloFails, FuzzerHelloDisarm, WriteCtl, PipeFails,
     ReadPid, ArmTimer, ReadStatus, ClearPid, DisarmTimer, Report, Verdict, IInv, Ended,
     Quiet, AllFree, fuzzer, kernel, ServerAlive
<1>3. CASE ServerStep
  BY <1>3
  DEF ServerStep, ServerHello, ReadCtl, Choice, Reap, Collect, RespawnKill, SigKill, Live,
     RespawnWait, Fork, Resume, WritePid, WaitPid, Waitable, WriteStatus, IInv, Inv, Ended,
     ChildSide, ChannelDiscipline
<1>4. CASE Alarm
  BY <1>4
  DEF Alarm, SigKill, Live, IInv, Inv, TypeOK, Ended, Quiet, FuzzerSide, AllFree,
     KernelTypeOK, kernel
<1>5. CASE StopSignal
  BY <1>5
  DEF StopSignal, SigKill, Live, IInv, Inv, TypeOK, Ended, AllFree, KernelTypeOK, kernel
<1>6. ASSUME NEW p \in Pids, ChildStep(p)  PROVE Ended'
  BY <1>6
  DEF ChildStep, Execute, FirstPass, NextPass, Dies, Ends, Tag, Live, IInv, Ended, AllFree,
     fuzzer
<1>7. CASE UNCHANGED vars
  BY <1>7 DEF vars, fuzzer, server, pipes, kernel, maps, IInv, Ended, AllFree
<1>8. QED
  BY <1>1, <1>2, <1>3, <1>4, <1>5, <1>6, <1>7
  DEF Next

\* A status is sent only when the child has ended or stopped, and it stays so
\* until the next control word is read.
LEMMA QuietStep ==
  ASSUME IInv, Inv', [Next]_vars
  PROVE  Quiet'
<1>1. ASSUME NEW tracing \in BOOLEAN, StartRun(tracing)  PROVE Quiet'
  BY <1>1 DEF StartRun, IInv, Quiet, NoneLive, Live
<1>2. CASE FuzzerStep
  BY <1>2
  DEF FuzzerStep, FuzzerHello, FuzzerHelloFails, FuzzerHelloDisarm, WriteCtl, PipeFails,
     ReadPid, ArmTimer, ReadStatus, ClearPid, DisarmTimer, Report, Verdict, IInv, Inv,
     Quiet, NoneLive, Live, AllFree, ChannelDiscipline, fuzzer, pipes, kernel
<1>3. CASE Fork
  <2>1. fpc = "readpid" /\ st = <<>> /\ UNCHANGED <<fpc, st>>
    BY <1>3 DEF Fork, IInv, Inv, TypeOK, FuzzerTypeOK, ChannelDiscipline, fuzzer, pipes
  <2>2. Len(st) = 0
    BY <2>1, PipeFacts DEF IInv, Inv, TypeOK
  <2>3. QED BY <2>1, <2>2 DEF Quiet
<1>4. CASE WritePid
  BY <1>4 DEF WritePid, IInv, Inv, Quiet, ChannelDiscipline
<1>5. CASE WriteStatus
  BY <1>5
  DEF WriteStatus, IInv, Quiet, NoneLive, Live, AllFree, Alone, ChildSide, fuzzer, kernel
<1>6. CASE WaitPid
  BY <1>6
  DEF WaitPid, Collect, Waitable, IInv, Inv, Quiet, NoneLive, Live, ChildSide,
     ChannelDiscipline
<1>7. CASE ServerHello \/ ReadCtl \/ Reap \/ RespawnKill \/ RespawnWait \/ Resume
  BY <1>7, SMTT(30)
  DEF ServerHello, ReadCtl, Choice, Reap, Collect, RespawnKill, SigKill, Live, RespawnWait,
     Resume, IInv, Inv, TypeOK, Quiet, NoneLive, AllFree, ChildSide, ChannelDiscipline,
     PipesTypeOK, fuzzer, kernel
<1>8. CASE Alarm
  BY <1>8
  DEF Alarm, SigKill, Live, IInv, Inv, TypeOK, Quiet, NoneLive, AllFree, KernelTypeOK,
     pipes, kernel
<1>9. CASE StopSignal
  BY <1>9
  DEF StopSignal, SigKill, Live, IInv, Inv, TypeOK, Quiet, NoneLive, AllFree, KernelTypeOK,
     pipes, kernel
<1>10. ASSUME NEW p \in Pids, ChildStep(p)  PROVE Quiet'
  BY <1>10
  DEF ChildStep, Execute, FirstPass, NextPass, Dies, Ends, Tag, Live, IInv, Quiet, NoneLive,
     AllFree, pipes
<1>11. CASE UNCHANGED vars
  BY <1>11
  DEF vars, fuzzer, server, pipes, kernel, maps, IInv, Quiet, AllFree, NoneLive, Live
<1>12. QED
  BY <1>1, <1>2, <1>3, <1>4, <1>5, <1>6, <1>7, <1>8, <1>9, <1>10, <1>11
  DEF Next, ServerStep

\* A fate is settled by the child, and by a signal only while it is open.
LEMMA PendingStep ==
  ASSUME IInv, Inv', [Next]_vars
  PROVE  Pending'
<1>1. ASSUME NEW tracing \in BOOLEAN, StartRun(tracing)  PROVE Pending'
  BY <1>1 DEF StartRun, IInv, Pending
<1>2. CASE WriteCtl
  BY <1>2 DEF WriteCtl, IInv, Pending, fuzzer, maps
<1>3. CASE Report
  BY <1>3 DEF Report, Verdict, IInv, Pending, NoneLive, Live, kernel, maps
<1>4. CASE ReadPid
  BY <1>4 DEF ReadPid, IInv, Pending, NoneLive, Live, kernel, maps
<1>5. CASE ReadStatus
  BY <1>5 DEF ReadStatus, IInv, Pending, NoneLive, Live, kernel, maps
<1>6. CASE FuzzerHello \/ FuzzerHelloFails \/ FuzzerHelloDisarm \/ PipeFails \/ ArmTimer \/
          ClearPid \/ DisarmTimer
  BY <1>6
  DEF FuzzerHello, FuzzerHelloFails, FuzzerHelloDisarm, PipeFails, ArmTimer, ClearPid,
     DisarmTimer, IInv, Pending, NoneLive, Live, kernel, maps
<1>7. CASE ServerStep
  BY <1>7
  DEF ServerStep, ServerHello, ReadCtl, Choice, Reap, Collect, RespawnKill, SigKill, Live,
     RespawnWait, Fork, Resume, WritePid, WaitPid, Waitable, WriteStatus, IInv, Inv, TypeOK,
     Pending, NoneLive, Fate, ChannelDiscipline, KernelTypeOK, fuzzer, kernel, maps
<1>8. CASE Alarm
  BY <1>8
  DEF Alarm, SigKill, Live, IInv, Inv, TypeOK, Pending, Quiet, NoneLive, KernelTypeOK,
     kernel, maps
<1>9. CASE StopSignal
  BY <1>9
  DEF StopSignal, SigKill, Live, IInv, Inv, TypeOK, Pending, Quiet, NoneLive, KernelTypeOK,
     kernel, maps
<1>10. ASSUME NEW p \in Pids, Execute(p)  PROVE Pending'
  BY <1>10 DEF Execute, Tag, Live, IInv, Pending, NoneLive, fuzzer
<1>11. ASSUME NEW p \in Pids, FirstPass(p)  PROVE Pending'
  BY <1>11 DEF FirstPass, Live, IInv, Pending, NoneLive, fuzzer
<1>12. ASSUME NEW p \in Pids, NextPass(p)  PROVE Pending'
  <2>1. fpc \notin {"hello", "hellodisarm", "request"} /\ fate \in {"pending", "timeout", "abort"}
    BY <1>12 DEF NextPass, IInv, Quiet, Pending, AllFree, NoneLive, Live
  <2>2. p = srv_child /\ UNCHANGED <<fpc, trace, verdict>>
    BY <1>12 DEF NextPass, IInv, Alone, maps, fuzzer
  <2>3. CASE cycle_cnt[p] > 1
    <3>1. proc' = [proc EXCEPT ![p] = "stopped"] /\ fate' = "stop"
      BY <1>12, <2>3 DEF NextPass
    <3>2. \A q \in Pids : proc'[q] \in {"free", "stopped"}
      BY <3>1, <2>2 DEF IInv, Inv, TypeOK, KernelTypeOK, Alone
    <3>3. NoneLive'
      BY <3>2 DEF NoneLive, Live
    <3>4. QED BY <3>1, <3>3, <2>1, <2>2 DEF IInv, Pending
  <2>4. CASE ~ (cycle_cnt[p] > 1)
    <3>1. UNCHANGED <<proc, fate>> BY <1>12, <2>4 DEF NextPass
    <3>2. NoneLive' <=> NoneLive BY <3>1 DEF NoneLive, Live
    <3>3. QED BY <3>1, <3>2, <2>1, <2>2 DEF IInv, Pending
  <2>5. QED BY <2>3, <2>4
<1>13. ASSUME NEW p \in Pids, Dies(p)  PROVE Pending'
  BY <1>13 DEF Dies, Live, IInv, Pending, NoneLive, fuzzer, maps
<1>14. ASSUME NEW p \in Pids, NEW how \in {"exit", "msan", "segv", "oom"}, Ends(p, how)  PROVE Pending'
  BY <1>14
  DEF Ends, Live, IInv, Inv, TypeOK, Pending, Quiet, NoneLive, Alone, KernelTypeOK, fuzzer,
     maps
<1>15. CASE UNCHANGED vars
  BY <1>15 DEF vars, fuzzer, server, pipes, kernel, maps, IInv, Pending, NoneLive, Live
<1>16. QED
  BY <1>1, <1>2, <1>3, <1>4, <1>5, <1>6, <1>7, <1>8, <1>9, <1>10, <1>11, <1>12, <1>13,
     <1>14, <1>15
  DEF Next, FuzzerStep, ChildStep

\* The fuzzer reads the pid of the child that runs, and its timer is off before
\* the next run.
LEMMA FuzzerSideStep ==
  ASSUME IInv, Inv', [Next]_vars
  PROVE  FuzzerSide'
<1>1. ASSUME NEW tracing \in BOOLEAN, StartRun(tracing)  PROVE FuzzerSide'
  BY <1>1 DEF StartRun, IInv, FuzzerSide
<1>2. CASE FuzzerStep
  BY <1>2, PidsAssumption
  DEF FuzzerStep, FuzzerHello, FuzzerHelloFails, FuzzerHelloDisarm, WriteCtl, PipeFails,
     ReadPid, ArmTimer, ReadStatus, ClearPid, DisarmTimer, Report, Verdict, IInv, Inv,
     FuzzerSide, Talk, Fate, Told, ChannelDiscipline, fuzzer, server
<1>3. CASE ServerStep
  BY <1>3
  DEF ServerStep, ServerHello, ReadCtl, Choice, Reap, Collect, RespawnKill, SigKill, Live,
     RespawnWait, Fork, Resume, WritePid, WaitPid, Waitable, WriteStatus, IInv, Inv,
     FuzzerSide, ChannelDiscipline, fuzzer
<1>4. CASE Alarm
  BY <1>4, PidsAssumption DEF Alarm, SigKill, Live, IInv, FuzzerSide, Quiet, server
<1>5. CASE StopSignal
  BY <1>5 DEF StopSignal, SigKill, Live, IInv, FuzzerSide
<1>6. ASSUME NEW p \in Pids, ChildStep(p)  PROVE FuzzerSide'
  BY <1>6
  DEF ChildStep, Execute, FirstPass, NextPass, Dies, Ends, Tag, Live, IInv, FuzzerSide,
     fuzzer, server
<1>7. CASE UNCHANGED vars
  BY <1>7 DEF vars, fuzzer, server, pipes, kernel, maps, IInv, FuzzerSide
<1>8. QED
  BY <1>1, <1>2, <1>3, <1>4, <1>5, <1>6, <1>7
  DEF Next

\* The control word is what the fuzzer knows of the last run.
LEMMA TalkStep ==
  ASSUME IInv, Inv', [Next]_vars
  PROVE  Talk'
<1>1. ASSUME NEW tracing \in BOOLEAN, StartRun(tracing)  PROVE Talk'
  BY <1>1 DEF StartRun, IInv, Inv, Talk, ChannelDiscipline
<1>2. CASE FuzzerStep
  BY <1>2
  DEF FuzzerStep, FuzzerHello, FuzzerHelloFails, FuzzerHelloDisarm, WriteCtl, PipeFails,
     ReadPid, ArmTimer, ReadStatus, ClearPid, DisarmTimer, Report, Verdict, IInv, Inv, Talk,
     ChannelDiscipline, fuzzer, server
<1>3. CASE WritePid
  BY <1>3 DEF WritePid, IInv, Talk, fuzzer, server
<1>4. CASE WriteStatus
  BY <1>4 DEF WriteStatus, IInv, Inv, Talk, ChannelDiscipline, fuzzer
<1>5. CASE ReadCtl
  BY <1>5
  DEF ReadCtl, Choice, IInv, Inv, TypeOK, Talk, ChannelDiscipline, FuzzerTypeOK, fuzzer
<1>6. CASE WaitPid
  BY <1>6 DEF WaitPid, Collect, Waitable, IInv, Talk, fuzzer, pipes
<1>7. CASE Fork
  BY <1>7 DEF Fork, IInv, Inv, Talk, ChannelDiscipline, fuzzer, pipes
<1>8. CASE ServerHello \/ Reap \/ RespawnKill \/ RespawnWait \/ Resume
  BY <1>8
  DEF ServerHello, Reap, Collect, RespawnKill, SigKill, Live, RespawnWait, Resume, IInv,
     Inv, Talk, ChannelDiscipline, fuzzer, server, pipes
<1>9. CASE Alarm
  BY <1>9 DEF Alarm, SigKill, Live, IInv, Talk, server, pipes
<1>10. CASE StopSignal
  BY <1>10 DEF StopSignal, SigKill, Live, IInv, Talk
<1>11. ASSUME NEW p \in Pids, ChildStep(p)  PROVE Talk'
  BY <1>11
  DEF ChildStep, Execute, FirstPass, NextPass, Dies, Ends, Tag, Live, IInv, Talk, fuzzer,
     server, pipes
<1>12. CASE UNCHANGED vars
  BY <1>12 DEF vars, fuzzer, server, pipes, kernel, maps, IInv, Talk
<1>13. QED
  BY <1>1, <1>2, <1>3, <1>4, <1>5, <1>6, <1>7, <1>8, <1>9, <1>10, <1>11, <1>12
  DEF Next, ServerStep

\* The server remembers a stopped child exactly when there is one, and is told
\* when it was killed.
LEMMA ChildSideStep ==
  ASSUME IInv, Inv', [Next]_vars
  PROVE  ChildSide'
<1>1. ASSUME NEW tracing \in BOOLEAN, StartRun(tracing)  PROVE ChildSide'
  BY <1>1 DEF StartRun, IInv, Inv, ChildSide, AllFree, Excused, ChannelDiscipline, server
<1>2. CASE FuzzerStep
  BY <1>2
  DEF FuzzerStep, FuzzerHello, FuzzerHelloFails, FuzzerHelloDisarm, WriteCtl, PipeFails,
     ReadPid, ArmTimer, ReadStatus, ClearPid, DisarmTimer, Report, Verdict, IInv, Inv,
     ChildSide, AllFree, Excused, FuzzerSide, ChannelDiscipline, fuzzer, server, kernel
<1>3. CASE ServerHello
  <2>1. spc = "start" /\ spc' = "read" /\ fpc = "hello" /\ ctl = <<>>
        /\ UNCHANGED <<proc, killed, bb_trace, child_stopped, srv_child, prev_tracing,
                       child_timed_out, ctl, fpc>>
    BY <1>3 DEF ServerHello, IInv, Inv, TypeOK, FuzzerTypeOK, ChannelDiscipline, fuzzer, kernel, server
  <2>2. AllFree BY <2>1 DEF IInv, Quiet
  <2>3. ~child_stopped
    BY <2>1, <2>2 DEF IInv, Inv, ChannelDiscipline, ChildSide, AllFree
  <2>4. QED BY <2>1, <2>2, <2>3 DEF ChildSide, AllFree
<1>4. CASE ReadCtl
  BY <1>4 DEF ReadCtl, Choice, IInv, ChildSide, AllFree, Excused, Talk, kernel
<1>5. CASE Reap \/ RespawnWait
  <2>1. spc' # "dead" => spc' = "launch" /\ ~child_stopped' /\ Collect(srv_child)
    BY <1>5 DEF Reap, RespawnWait
  <2>2. srv_child \in Pids /\ UNCHANGED srv_child
    BY <1>5 DEF Reap, RespawnWait, IInv, Inv, ChannelDiscipline
  <2>3. Collect(srv_child) => AllFree'
    BY <2>2 DEF Collect, AllFree, IInv, Alone, Inv, TypeOK, KernelTypeOK
  <2>4. QED BY <2>1, <2>3 DEF ChildSide
<1>6. CASE RespawnKill
  BY <1>6 DEF RespawnKill, SigKill, Live, IInv, Inv, TypeOK, ChildSide, KernelTypeOK, server
<1>7. CASE Fork
  BY <1>7 DEF Fork, IInv, Inv, TypeOK, ChildSide, KernelTypeOK
<1>8. CASE Resume
  BY <1>8 DEF Resume, IInv, Inv, TypeOK, ChildSide, KernelTypeOK
<1>9. CASE WritePid
  BY <1>9 DEF WritePid, IInv, ChildSide, fuzzer, server, kernel
<1>10. CASE WaitPid
  <2>1. /\ spc = "waitpid" /\ srv_child \in Pids /\ ~child_stopped
        /\ bb_trace[srv_child] = curr_tracing 
        /\ proc[srv_child] = "stopped" => ~killed[srv_child]
        /\ UNCHANGED <<srv_child, curr_tracing>>
    BY <1>10 DEF WaitPid, IInv, ChildSide, Inv, ChannelDiscipline
  <2>2. CASE Waitable(srv_child) /\ spc' = "writestatus" /\ proc[srv_child] = "zombie"
    <3>1. Collect(srv_child) /\ ~child_stopped' /\ srv_status' = wstatus[srv_child]
      BY <1>10, <2>1, <2>2 DEF WaitPid
    <3>2. AllFree'
      BY <2>1, <3>1 DEF Collect, AllFree, IInv, Alone, Inv, TypeOK, KernelTypeOK
    <3>3. srv_status' # "stop"
      BY <2>1, <3>1 DEF IInv, Inv, TypeOK, KernelTypeOK
    <3>4. QED BY <2>2, <3>1, <3>2, <3>3 DEF ChildSide
  <2>3. CASE Waitable(srv_child) /\ spc' = "writestatus" /\ proc[srv_child] = "stopped"
    <3>1. UNCHANGED kernel /\ child_stopped' /\ srv_status' = "stop"
      BY <1>10, <2>1, <2>3 DEF WaitPid
    <3>2. QED BY <2>1, <2>3, <3>1 DEF ChildSide, kernel
  <2>4. CASE spc' = "dead"
    BY <2>4 DEF ChildSide
  <2>5. QED
    BY <1>10, <2>1, <2>2, <2>3, <2>4 DEF WaitPid, Waitable
<1>11. CASE WriteStatus
  BY <1>11 DEF WriteStatus, IInv, ChildSide, AllFree, Excused, fuzzer, kernel
<1>12. CASE Alarm
  BY <1>12
  DEF Alarm, SigKill, Live, IInv, Inv, TypeOK, ChildSide, AllFree, Excused, FuzzerSide,
     ChannelDiscipline, KernelTypeOK, server, kernel
<1>13. CASE StopSignal
  BY <1>13 DEF StopSignal, SigKill, Live, IInv, ChildSide
<1>14. ASSUME NEW p \in Pids, ChildStep(p)  PROVE ChildSide'
  BY <1>14
  DEF ChildStep, Execute, FirstPass, NextPass, Dies, Ends, Tag, Live, IInv, Inv, TypeOK,
     ChildSide, AllFree, Alone, KernelTypeOK, fuzzer, server, kernel
<1>15. CASE UNCHANGED vars
  BY <1>15 DEF vars, fuzzer, server, pipes, kernel, maps, IInv, ChildSide, AllFree, Excused
<1>16. QED
  BY <1>1, <1>2, <1>3, <1>4, <1>5, <1>6, <1>7, <1>8, <1>9, <1>10, <1>11, <1>12, <1>13,
     <1>14, <1>15
  DEF Next, ServerStep

\* A status is true when the kernel makes it and stays true until it is read.
LEMMA FateStep ==
  ASSUME IInv, Inv', [Next]_vars
  PROVE  Fate'
<1>1. ASSUME NEW tracing \in BOOLEAN, StartRun(tracing)  PROVE Fate'
  BY <1>1 DEF StartRun, IInv, Inv, Fate, ChannelDiscipline
<1>2. CASE ReadStatus
  BY <1>2 DEF ReadStatus, IInv, Inv, Fate, Truth, Told, ChannelDiscipline, server
<1>3. CASE ReadPid
  BY <1>3 DEF ReadPid, IInv, Inv, Fate, Truth, Told, ChannelDiscipline, server, kernel
<1>4. CASE WriteCtl
  BY <1>4 DEF WriteCtl, IInv, Inv, Fate, Pending, ChannelDiscipline
<1>5. CASE ClearPid
  BY <1>5 DEF ClearPid, IInv, Fate, Truth, Told, server, pipes, kernel
<1>6. CASE FuzzerHello \/ FuzzerHelloFails \/ FuzzerHelloDisarm \/ PipeFails \/ ArmTimer \/
          DisarmTimer \/ Report
  BY <1>6
  DEF FuzzerHello, FuzzerHelloFails, FuzzerHelloDisarm, PipeFails, ArmTimer, DisarmTimer,
     Report, Verdict, IInv, Fate, Truth, Told, fuzzer, server, pipes, kernel
<1>7. CASE ServerStep
  <2>1. CASE ServerHello \/ RespawnKill \/ WritePid
    BY <2>1
    DEF ServerHello, RespawnKill, SigKill, Live, WritePid, IInv, Inv, TypeOK, Fate, Truth, Told,
       ChildSide, AllFree, FuzzerSide, Pending, ChannelDiscipline, KernelTypeOK, ServerTypeOK,
       fuzzer, server, pipes, kernel
  <2>2. CASE ReadCtl \/ Reap
    BY <2>2 DEF ReadCtl, Choice, Reap, Collect, IInv, Inv, TypeOK, Fate, Truth, Told,
       ChildSide, AllFree, FuzzerSide, Pending, ChannelDiscipline, KernelTypeOK, ServerTypeOK,
       fuzzer, server, pipes, kernel
  <2>3. CASE RespawnWait
    BY <2>3 DEF RespawnWait, Collect, IInv, Inv, TypeOK, Fate, Truth, Told,
       ChildSide, AllFree, FuzzerSide, Pending, ChannelDiscipline, KernelTypeOK, ServerTypeOK,
       fuzzer, server, pipes, kernel
  <2>4. CASE Fork
    BY <2>4 DEF Fork, IInv, Inv, TypeOK, Fate, Truth, Told,
       ChildSide, AllFree, FuzzerSide, Pending, ChannelDiscipline, KernelTypeOK, ServerTypeOK,
       fuzzer, server, pipes, kernel
  <2>5. CASE Resume
    BY <2>5 DEF Resume, Live, IInv, Inv, TypeOK, Fate, Truth, Told,
       ChildSide, AllFree, FuzzerSide, Pending, ChannelDiscipline, KernelTypeOK, ServerTypeOK,
       fuzzer, server, pipes, kernel
  <2>6. CASE WaitPid \/ WriteStatus
    BY <2>6 DEF WaitPid, Waitable, Collect, WriteStatus, IInv, Inv, TypeOK, Fate, Truth, Told,
       ChildSide, AllFree, FuzzerSide, Pending, ChannelDiscipline, KernelTypeOK, ServerTypeOK,
       fuzzer, server, pipes, kernel
  <2>7. QED BY <1>7, <2>1, <2>2, <2>3, <2>4, <2>5, <2>6 DEF ServerStep
<1>8. CASE Alarm
  BY <1>8
  DEF Alarm, SigKill, Live, IInv, Inv, TypeOK, Fate, Truth, Told, FuzzerSide,
     ChannelDiscipline, KernelTypeOK, server, pipes
<1>9. CASE StopSignal
  BY <1>9 DEF StopSignal, SigKill, Live, IInv, Fate
<1>10. ASSUME NEW p \in Pids, ChildStep(p)  PROVE Fate'
  BY <1>10
  DEF ChildStep, Execute, FirstPass, NextPass, Dies, Ends, Tag, Live, IInv, Inv, TypeOK,
     Fate, Truth, ChildSide, Alone, AllFree, ChannelDiscipline, KernelTypeOK, FuzzerTypeOK,
     fuzzer, server, kernel
<1>11. CASE UNCHANGED vars
  BY <1>11 DEF vars, fuzzer, server, pipes, kernel, maps, IInv, Fate, Truth, Told
<1>12. QED
  BY <1>1, <1>2, <1>3, <1>4, <1>5, <1>6, <1>7, <1>8, <1>9, <1>10, <1>11
  DEF Next, FuzzerStep

\* The maps are cleared before the child starts, and the child writes only what is
\* its own.
LEMMA MapsOKStep ==
  ASSUME IInv, Inv', [Next]_vars
  PROVE  MapsOK'
<1>1. ASSUME NEW tracing \in BOOLEAN, StartRun(tracing)  PROVE MapsOK'
  BY <1>1 DEF StartRun, IInv, Inv, MapsOK, ChannelDiscipline
<1>2. CASE FuzzerStep
  BY <1>2
  DEF FuzzerStep, FuzzerHello, FuzzerHelloFails, FuzzerHelloDisarm, WriteCtl, PipeFails,
     ReadPid, ArmTimer, ReadStatus, ClearPid, DisarmTimer, Report, Verdict, IInv, Inv,
     MapsOK, ChannelDiscipline, fuzzer, server, kernel, maps
<1>3. CASE ServerStep
  BY <1>3
  DEF ServerStep, ServerHello, ReadCtl, Choice, Reap, Collect, RespawnKill, SigKill, Live,
     RespawnWait, Fork, Resume, WritePid, WaitPid, Waitable, WriteStatus, IInv, Inv, TypeOK,
     MapsOK, ChildSide, KernelTypeOK, fuzzer, server, pipes, kernel, maps
<1>4. CASE Alarm
  BY <1>4
  DEF Alarm, SigKill, Live, IInv, Inv, TypeOK, MapsOK, ChannelDiscipline, KernelTypeOK,
     GhostTypeOK, server, pipes, kernel, maps
<1>5. CASE StopSignal
  BY <1>5 DEF StopSignal, SigKill, Live, IInv, MapsOK
<1>6. ASSUME NEW p \in Pids, ChildStep(p)  PROVE MapsOK'
  BY <1>6
  DEF ChildStep, Execute, FirstPass, NextPass, Dies, Ends, Tag, Live, IInv, Inv, TypeOK,
     MapsOK, ChildSide, Alone, AllFree, Talk, ChannelDiscipline, KernelTypeOK, FuzzerTypeOK,
     fuzzer, server, kernel, maps
<1>7. CASE UNCHANGED vars
  BY <1>7 DEF vars, fuzzer, server, pipes, kernel, maps, IInv, MapsOK
<1>8. QED
  BY <1>1, <1>2, <1>3, <1>4, <1>5, <1>6, <1>7
  DEF Next

\* A child whose status was sent does nothing more, so that its end stays what it
\* was, whether or not the server still runs.
LEMMA ExitedStep ==
  ASSUME IInv, Inv', [Next]_vars
  PROVE  Exited'
<1> USE PipeFacts DEF Exited
<1>0. Exited /\ Quiet /\ ChannelDiscipline /\ TypeOK /\ PipesTypeOK
  BY DEF IInv, Inv, TypeOK
<1>1. ASSUME NEW tracing \in BOOLEAN, StartRun(tracing)  PROVE Exited'
  BY <1>1 DEF StartRun
<1>2. CASE ReadPid
  BY <1>0, <1>2 DEF ReadPid, ChannelDiscipline
<1>3. CASE ReadStatus
  BY <1>0, <1>3 DEF ReadStatus, ChannelDiscipline
<1>4. CASE FuzzerHello \/ FuzzerHelloFails \/ FuzzerHelloDisarm \/ PipeFails \/ ArmTimer \/ WriteCtl
           \/ ClearPid \/ DisarmTimer \/ Report
  BY <1>0, <1>4
  DEF FuzzerHello, FuzzerHelloFails, FuzzerHelloDisarm, PipeFails, ArmTimer, WriteCtl, ClearPid,
     DisarmTimer, Report, fuzzer, pipes, ChannelDiscipline
<1>5. CASE WriteStatus
  <2>1. spc # "dead" /\ Told(srv_status) /\ UNCHANGED fate
    BY <1>5 DEF WriteStatus, IInv, Fate
  <2>2. srv_status = "msan" => fate = "msan"
    BY <2>1 DEF Told, Truth
  <2>3. QED
    BY <1>0, <1>5, <2>1, <2>2 DEF WriteStatus, fuzzer, ChannelDiscipline, PipesTypeOK
<1>6. CASE WritePid
  BY <1>0, <1>6 DEF WritePid, fuzzer, ChannelDiscipline
<1>7. CASE ServerHello \/ ReadCtl \/ Reap \/ RespawnWait \/ Fork \/ Resume \/ WaitPid
  BY <1>0, <1>7
  DEF ServerHello, ReadCtl, Reap, RespawnWait, Fork, Resume, WaitPid, fuzzer, pipes,
     ChannelDiscipline
<1>8. CASE RespawnKill \/ Alarm \/ StopSignal
  BY <1>0, <1>8 DEF RespawnKill, Alarm, StopSignal, SigKill, fuzzer, pipes
<1>9. ASSUME NEW p \in Pids, ChildStep(p)  PROVE Exited'
  <2>1. CASE UNCHANGED fate
    BY <1>0, <1>9, <2>1
    DEF ChildStep, Execute, FirstPass, NextPass, Dies, Ends, fuzzer, pipes
  <2>2. CASE ~UNCHANGED fate
    <3>1. Live(p) /\ ~NoneLive
      BY <1>9, <2>2 DEF ChildStep, Execute, FirstPass, NextPass, Dies, Ends, Live, NoneLive
    <3>2. UNCHANGED <<fpc, st, status>>
      BY <1>9 DEF ChildStep, Execute, FirstPass, NextPass, Dies, Ends, fuzzer, pipes
    <3>3. QED BY <1>0, <3>1, <3>2 DEF Quiet
  <2>3. QED BY <2>1, <2>2
<1>10. CASE UNCHANGED vars
  BY <1>0, <1>10 DEF vars, fuzzer, pipes
<1>11. QED
  BY <1>1, <1>2, <1>3, <1>4, <1>5, <1>6, <1>7, <1>8, <1>9, <1>10
  DEF Next, FuzzerStep, ServerStep

\* run_target() returns what it has read.
LEMMA VerdictIsTrueStep ==
  ASSUME IInv, Inv', [Next]_vars
  PROVE  VerdictIsTrue'
<1>0. "pending" \notin CrashingEnds /\ "pending" \notin CleanEnds
  BY DEF CrashingEnds, CleanEnds
<1>1. ASSUME NEW tracing \in BOOLEAN, StartRun(tracing)  PROVE VerdictIsTrue'
  BY <1>1 DEF StartRun, IInv, VerdictIsTrue
<1>2. CASE Report
  <2>1. SUFFICES ASSUME ~stop_soon' PROVE VerdictIsTrue'
    BY DEF VerdictIsTrue
  <2>2. /\ fpc = "report" /\ ~stop_soon /\ UNCHANGED <<fate, expired>>
        /\ verdict' = Verdict(child_timed_out, FALSE)
    BY <1>2, <2>1 DEF Report, IInv, Inv, TypeOK, FuzzerTypeOK
  <2>3. spc # "dead" BY <2>2 DEF IInv, Ended
  <2>4. /\ Truth(status) /\ status \in Statuses
        /\ child_timed_out => expired
    BY <2>2, <2>3 DEF IInv, Fate, Told, FuzzerSide, Inv, TypeOK, FuzzerTypeOK
  <2>5. QED
    BY <2>2, <2>4, AsanAssumption
    DEF VerdictIsTrue, Verdict, ExitVerdict, CrashingEnds, CleanEnds, Truth, Statuses
<1>3. CASE FuzzerHello \/ FuzzerHelloFails \/ FuzzerHelloDisarm \/ WriteCtl \/ PipeFails \/
          ReadPid \/ ArmTimer \/ ReadStatus \/ ClearPid \/ DisarmTimer
  BY <1>3
  DEF FuzzerHello, FuzzerHelloFails, FuzzerHelloDisarm, WriteCtl, PipeFails, ReadPid,
     ArmTimer, ReadStatus, ClearPid, DisarmTimer, IInv, VerdictIsTrue, Quiet
<1>4. CASE ServerStep
  BY <1>0, <1>4
  DEF ServerStep, ServerHello, ReadCtl, Choice, Reap, Collect, RespawnKill, SigKill, Live,
     RespawnWait, Fork, Resume, WritePid, WaitPid, Waitable, WriteStatus, IInv,
     VerdictIsTrue, fuzzer
<1>5. CASE Alarm
  BY <1>0, <1>5 DEF Alarm, SigKill, Live, IInv, VerdictIsTrue
<1>6. CASE StopSignal
  BY <1>0, <1>6 DEF StopSignal, SigKill, Live, IInv, VerdictIsTrue
<1>7. ASSUME NEW p \in Pids, ChildStep(p)  PROVE VerdictIsTrue'
  BY <1>7
  DEF ChildStep, Execute, FirstPass, NextPass, Dies, Ends, Tag, Live, IInv, VerdictIsTrue,
     Quiet, NoneLive
<1>8. CASE UNCHANGED vars
  BY <1>8 DEF vars, fuzzer, server, pipes, kernel, maps, IInv, VerdictIsTrue
<1>9. QED
  BY <1>1, <1>2, <1>3, <1>4, <1>5, <1>6, <1>7, <1>8
  DEF Next, FuzzerStep

\* At the start no child was forked and nothing was said but, soon, the hello.
LEMMA InitIInv == Init => IInv
<1> SUFFICES ASSUME Init PROVE IInv OBVIOUS
<1>1. Inv BY InitInv
<1>2. /\ fpc = "hello" /\ child_pid = InitPid /\ fate = "exit" /\ ~child_timed_out
      /\ spc = "start" /\ ~child_stopped /\ ctl = <<>> /\ trace = {} /\ ~perform_bbtracing
      /\ \A p \in Pids : proc[p] = "free"
  BY DEF Init
<1>3. AllFree /\ NoneLive BY <1>2 DEF AllFree, NoneLive, Live
<1>4. QED
  BY <1>1, <1>2, <1>3 DEF IInv, Alone, Ended, Quiet, Pending, FuzzerSide, Talk, ChildSide, Fate,
     MapsOK, Exited, VerdictIsTrue

\* Where the caller looks at the maps nothing runs, and what ran was this run's.
LEMMA MapsFollow == IInv => MapsOfThisRun
<1> SUFFICES ASSUME IInv PROVE MapsOfThisRun OBVIOUS
<1>1. MapsAreQuiet
  BY DEF MapsAreQuiet, Answered, IInv, Quiet, AllFree, NoneLive, Live
<1>2. ASSUME ~stop_soon, Answered PROVE spc # "dead"
  BY <1>2 DEF IInv, Ended, Answered
<1>3. MapsAreOwn
  BY <1>2 DEF MapsAreOwn, IInv, MapsOK
<1>4. ASSUME ~stop_soon, NEW p \in Pids, Live(p), job[p] = "own"
      PROVE  bb_trace[p] = perform_bbtracing
  <2>1. proc[p] # "free" /\ proc[p] # "stopped" /\ proc[p] # "zombie" /\ p = srv_child
    BY <1>4 DEF Live, IInv, Alone
  <2>2. spc # "dead"
    BY <1>4, <2>1 DEF IInv, Ended, AllFree
  <2>3. spc \in {"writepid", "waitpid"}
    BY <2>1, <2>2 DEF IInv, ChildSide, AllFree, Inv, TypeOK, ServerTypeOK
  <2>4. QED BY <2>1, <2>2, <2>3 DEF IInv, ChildSide, Talk
<1>5. TracingAsAsked BY <1>4 DEF TracingAsAsked
<1>6. QED BY <1>1, <1>3, <1>5 DEF MapsOfThisRun

\* The set of used ids is at most the child the server remembers.
LEMMA ServerFollows == IInv => ServerKeepsChild
<1> SUFFICES ASSUME IInv PROVE ServerKeepsChild OBVIOUS
<1>1. ServerSurvives BY DEF ServerSurvives, IInv, Ended
<1>2. StoppedChildIsThere BY DEF StoppedChildIsThere, IInv, ChildSide
<1>3. OneChild
  <2> DEFINE Used == {p \in Pids : proc[p] # "free"}
  <2>1. Used \subseteq {srv_child} BY DEF IInv, Alone
  <2>2. IsFiniteSet({srv_child}) /\ Cardinality({srv_child}) = 1
    BY FS_Singleton
  <2>3. Cardinality(Used) <= 1 BY <2>1, <2>2, FS_Subset
  <2>4. QED BY <2>3 DEF OneChild
<1>4. QED BY <1>1, <1>2, <1>3 DEF ServerKeepsChild, IInv, Inv

\* Only a call under way, or one the user stopped, has a child that runs.
LEMMA BusyWhileLive ==
  ASSUME IInv, NEW p \in Pids, Live(p)
  PROVE  /\ fpc \in {"readpid", "arm", "readstatus"} \/ (fpc = "quit" /\ stop_soon)
         /\ fate \in {"pending", "timeout", "abort"}
<1>1. ~NoneLive /\ ~AllFree BY DEF NoneLive, AllFree, Live
<1>2. QED
  BY <1>1 DEF IInv, Quiet, Pending, Ended, Inv, TypeOK, FuzzerTypeOK, ChannelDiscipline

-----------------------------------------------------------------------------
(* The refinement of TargetRun. *)

\* StartRun is a call.
LEMMA StartRefines ==
  ASSUME IInv, NEW tracing \in BOOLEAN, StartRun(tracing) PROVE Service!Call
  BY DEF StartRun, Service!Call

\* run_target() answers once, when it reports or gives up after a stop.
LEMMA FuzzerRefines ==
  ASSUME IInv, IInv', FuzzerStep PROVE Service!Answer \/ UNCHANGED Service!vars
<1>1. CASE Report
  <2>1. /\ UNCHANGED <<fate, expired, trace, stop_soon>> /\ fpc = "report"
        /\ verdict' = Verdict(child_timed_out, stop_soon)
        /\ fpc' = IF stop_soon THEN "quit" ELSE "idle"
    BY <1>1 DEF Report, maps
  <2>2. CASE stop_soon
    <3>1. status = "msan" => fate = "msan"
      BY <2>1 DEF IInv, Exited
    <3>2. verdict' \in {"none", "crash"} /\ (verdict' = "crash" => status = "msan" /\ uses_asan)
      BY <2>1, <2>2 DEF Verdict, ExitVerdict
    <3>3. QED BY <2>1, <2>2, <3>1, <3>2 DEF Service!Answer, Service!JustifiedAfterStop
  <2>3. CASE ~stop_soon
    <3>1. spc # "dead" BY <2>1, <2>3 DEF IInv, Ended
    <3>2. trace \subseteq {"own"} \/ trace \subseteq {"pre"}
      BY <3>1 DEF IInv, MapsOK
    <3>3. child_pid' # InitPid
      BY <1>1, <2>1, <3>1 DEF Report, IInv, FuzzerSide
    <3>4. VerdictIsTrue' BY DEF IInv
    <3>5. Service!Justified(verdict)'
      BY <2>1, <2>3, <3>3, <3>4, AsanAssumption
      DEF VerdictIsTrue, CrashingEnds, CleanEnds, Service!Justified, Verdict, ExitVerdict
    <3>6. QED BY <2>1, <2>3, <3>2, <3>5 DEF Service!Answer, Verdict, ExitVerdict
  <2>4. QED BY <2>2, <2>3
<1>2. CASE PipeFails
  <2>1. /\ UNCHANGED <<fate, expired, trace, stop_soon, verdict>> /\ spc = "dead"
        /\ fpc \in {"request", "readpid", "readstatus"}
        /\ fpc' = IF stop_soon THEN "quit" ELSE "fatal"
    BY <1>2 DEF PipeFails, maps, ServerAlive
  <2>2. CASE stop_soon
    BY <2>1, <2>2 DEF Service!Answer, Service!JustifiedAfterStop, IInv, Pending
  <2>3. CASE ~stop_soon
    <3>1. fpc = "request" /\ fate = "pending" BY <2>1, <2>3 DEF IInv, Ended, Pending
    <3>2. QED BY <2>1, <2>3, <3>1 DEF Service!vars
  <2>4. QED BY <2>2, <2>3
<1>3. CASE FuzzerHelloFails
  BY <1>3 DEF FuzzerHelloFails, Service!vars, IInv, Pending, fuzzer, maps
<1>4. CASE FuzzerHello \/ FuzzerHelloDisarm \/ WriteCtl \/ ReadPid \/ ArmTimer \/ ReadStatus
           \/ ClearPid \/ DisarmTimer
  BY <1>4
  DEF FuzzerHello, FuzzerHelloDisarm, WriteCtl, ReadPid, ArmTimer, ReadStatus, ClearPid,
      DisarmTimer, Service!vars, fuzzer, maps
<1>5. QED BY <1>1, <1>2, <1>3, <1>4 DEF FuzzerStep

\* The server is invisible to the callers of run_target().
LEMMA ServerRefines ==
  ASSUME IInv, ServerStep PROVE UNCHANGED Service!vars
<1>1. UNCHANGED <<fpc, fuzzer, maps, fate, expired>>
  <2>1. CASE RespawnKill
    <3>1. ~Live(srv_child) /\ srv_child \in Pids
      BY <2>1 DEF RespawnKill, IInv, ChildSide, Live, Inv, ChannelDiscipline
    <3>2. QED BY <2>1, <3>1 DEF RespawnKill, SigKill
  <2>2. CASE ~RespawnKill
    BY <2>2 DEF ServerStep, ServerHello, ReadCtl, Reap, RespawnWait, Fork, Resume, WritePid, WaitPid,
       WriteStatus
  <2>3. QED BY <2>1, <2>2
<1>2. QED BY <1>1 DEF Service!vars, fuzzer, maps

\* A signal ends the run, if it was first to do so; else it only marks it.
LEMMA SignalsRefine ==
  ASSUME IInv, IInv', Alarm \/ StopSignal
  PROVE  Service!End \/ Service!Expire \/ Service!Stop
<1>1. CASE fate' = fate
  BY <1>1 DEF Alarm, StopSignal, Service!Expire, Service!Stop, maps
<1>2. CASE fate' # fate
  <2>1. child_pid \in Pids /\ Live(child_pid) /\ fate = "pending"
    BY <1>2 DEF Alarm, StopSignal, SigKill
  <2>2. fpc \in {"readpid", "arm", "readstatus"} \/ (fpc = "quit" /\ stop_soon)
    BY <2>1, BusyWhileLive
  <2>3. QED
    BY <1>2, <2>1, <2>2
    DEF Alarm, StopSignal, SigKill, Service!End, maps, IInv, Inv, TypeOK, FuzzerTypeOK,
        GhostTypeOK
<1>3. QED BY <1>1, <1>2

\* What the child does is the execution and its end.
LEMMA ChildRefines ==
  ASSUME IInv, IInv', NEW p \in Pids, ChildStep(p)
  PROVE  Service!Execute \/ Service!End \/ UNCHANGED Service!vars
<1>1. CASE Execute(p) \/ FirstPass(p)
  <2>1. Live(p) /\ UNCHANGED <<fpc, stop_soon, fate, expired, verdict>>
    BY <1>1 DEF Execute, FirstPass, Live, fuzzer
  <2>2. fpc \in {"readpid", "arm", "readstatus"} \/ (fpc = "quit" /\ stop_soon)
    BY <2>1, BusyWhileLive
  <2>3. trace' \in SUBSET {"own", "pre", "stale"}
    BY DEF IInv, Inv, TypeOK, GhostTypeOK, Tags, Pending
  <2>4. QED BY <2>1, <2>2, <2>3 DEF Service!Execute
<1>2. CASE NextPass(p) \/ (\E how \in {"exit", "msan", "segv", "oom"} : Ends(p, how))
  <2>1. Live(p) /\ UNCHANGED <<fpc, stop_soon, expired, verdict, trace>>
    BY <1>2 DEF NextPass, Ends, Live, fuzzer, maps
  <2>2. /\ fpc \in {"readpid", "arm", "readstatus"} \/ (fpc = "quit" /\ stop_soon)
        /\ fate \in {"pending", "timeout", "abort"}
    BY <2>1, BusyWhileLive
  <2>3. fate' \in {fate, "stop", "exit", "msan", "segv", "oom"}
    BY <1>2 DEF NextPass, Ends
  <2>4. QED BY <2>1, <2>2, <2>3 DEF Service!End, Service!vars
<1>3. CASE Dies(p)
  BY <1>3 DEF Dies, Service!vars, fuzzer, maps
<1>4. QED BY <1>1, <1>2, <1>3 DEF ChildStep

\* Every step of the protocol is a step of the service or none.
LEMMA StepRefines == IInv /\ IInv' /\ [Next]_vars => [Service!Next]_(Service!vars)
<1> SUFFICES ASSUME IInv, IInv', [Next]_vars PROVE [Service!Next]_(Service!vars) OBVIOUS
<1>1. CASE UNCHANGED vars
  BY <1>1 DEF vars, Service!vars, fuzzer, maps
<1>2. CASE Next
  BY <1>2, StartRefines, FuzzerRefines, ServerRefines, SignalsRefine, ChildRefines
  DEF Next, Service!Next
<1>3. QED BY <1>1, <1>2

\* Every step keeps every part.
LEMMA StepIInv == IInv /\ [Next]_vars => IInv'
<1> SUFFICES ASSUME IInv, [Next]_vars  PROVE IInv'  OBVIOUS
<1>1. Inv'  BY NextInv DEF IInv
<1>2. QED
  BY <1>1, AloneStep, EndedStep, QuietStep, PendingStep, FuzzerSideStep, TalkStep, ChildSideStep,
     FateStep, MapsOKStep, ExitedStep, VerdictIsTrueStep
  DEF IInv

\* The server survives every run but a stopped one, resumes only a child that is
\* there, and never has two (__afl_start_forkserver()).
THEOREM ServerIsKept == Spec => []ServerKeepsChild
<1>1. QED BY InitIInv, StepIInv, ServerFollows, PTL DEF Spec

\* What run_target() returns is true of the run it was called for.
THEOREM VerdictsAreTrue == Spec => []VerdictIsTrue
<1>1. IInv => VerdictIsTrue BY DEF IInv
<1>2. QED BY InitIInv, StepIInv, <1>1, PTL DEF Spec

\* When run_target() has returned, the maps hold this run, at rest, and its child
\* traced what was asked for.
THEOREM MapsAreOfTheRun == Spec => []MapsOfThisRun
<1>1. QED BY InitIInv, StepIInv, MapsFollow, PTL DEF Spec

\* The fuzzer, the server, the child, the pipes and the signals together are a
\* service that runs the target once per call.
THEOREM TargetRunImplemented == Spec => ImplementsTargetRun
<1>1. Init => Service!Init BY DEF Init, Service!Init
<1>2. QED BY InitIInv, StepIInv, StepRefines, <1>1, PTL DEF Spec, ImplementsTargetRun, Service!Spec
=============================================================================
