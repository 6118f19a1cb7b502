-------------------------------- MODULE MCSession --------------------------------
(***************************************************************************)
(* A session from two sides: the main loop, and what it leaves in the      *)
(* output directory for the next one.  `part' says which of them a         *)
(* behaviour is about, the other stays as it starts.                       *)
(***************************************************************************)
EXTENDS FuzzLoop, Resume

VARIABLE part

LoopIdle ==
  /\ exit_when_done = FALSE /\ just_one = FALSE /\ sync_id = FALSE /\ import_first = FALSE
  /\ queued_paths = 1 /\ cal_failed = [k \in 1 .. MaxEntries |-> 0]
  /\ favored = {} /\ was_fuzzed = {}
  /\ queue_cur = 0 /\ current_entry = 0 /\ seek_to = 0
  /\ queue_cycle = 0 /\ prev_queued = 0 /\ cycles_wo_finds = 0 /\ use_splicing = FALSE
  /\ sync_interval_cnt = 0 /\ skipped_fuzz = FALSE /\ stop_soon = 0
  /\ visits = [k \in 1 .. MaxEntries |-> 0] /\ step = "down"

MCInit ==
  \/ part = "loop"      /\ LoopInit /\ Init
  \/ part = "directory" /\ LoopIdle /\ Init

MCNext ==
  /\ \/ part = "loop"      /\ LoopNext /\ UNCHANGED vars
     \/ part = "directory" /\ Next /\ UNCHANGED loopVars
  /\ UNCHANGED part

MCSpec == MCInit /\ [][MCNext]_<<part, loopVars, vars>> /\ LoopFairness
=============================================================================
