------------------------------- MODULE MCInstances -------------------------------
(***************************************************************************)
(* What instances of the fuzzer share: the sync directory, the cores and   *)
(* an output directory.  `part' says which of them a behaviour is about,   *)
(* the others stay as they start.                                          *)
(***************************************************************************)
EXTENDS Sync, FreeCpu, OutDir

VARIABLE part

MCFinds == {Saveable}

MCInit ==
  /\ part \in {"sync", "cores", "directory"}
  /\ Init /\ CpuInit /\ OutInit

MCNext ==
  /\ \/ part = "sync"      /\ Next /\ UNCHANGED <<cpuVars, outVars>>
     \/ part = "cores"     /\ CpuNext /\ UNCHANGED <<vars, outVars>>
     \/ part = "directory" /\ OutNext /\ UNCHANGED <<vars, cpuVars>>
  /\ UNCHANGED part

MCSpec ==
  /\ MCInit /\ [][MCNext]_<<part, vars, cpuVars, outVars>>
  /\ \A f \in Fuzzers : WF_vars(part = "sync" /\ Works(f))
=============================================================================
