------------------------------- MODULE TargetRun -------------------------------
(***************************************************************************)
(* What the rest of the fuzzer relies on when it calls run_target(): each  *)
(* call is one execution of the target on one input; it ends in one        *)
(* verdict, true of that execution; the shared coverage map then holds     *)
(* that execution and nothing else; and after Ctrl-C a call ends without   *)
(* a fault, unless the target itself exited with the code of a crash.  No  *)
(* fork server, pipe, process or signal appears here.                      *)
(***************************************************************************)
CONSTANT
  uses_asan  \* the exit code MSAN_ERROR means a crash

VARIABLES
  busy,      \* a call is under way
  stopping,  \* the user asked to stop
  fate,      \* how the execution really ended
  expired,   \* the time limit of this call passed
  verdict,   \* what the last call returned
  map        \* whose execution the coverage map holds

vars == <<busy, stopping, fate, expired, verdict, map>>

Init ==
  /\ busy = FALSE /\ stopping = FALSE /\ fate = "exit" /\ expired = FALSE
  /\ verdict = "none" /\ map = {}

\* A call: nothing is known of the execution and the map is empty.
Call ==
  /\ ~busy
  /\ busy' = TRUE /\ fate' = "pending" /\ expired' = FALSE /\ verdict' = "none" /\ map' = {}
  /\ UNCHANGED stopping

\* The target executes.  Only a call under way, or a process left over when
\* the user stops the fuzzer, touches the map.
Execute ==
  /\ busy \/ stopping
  /\ map' \in SUBSET {"own", "pre", "stale"}
  /\ UNCHANGED <<busy, stopping, fate, expired, verdict>>

\* The execution ends, once: by itself, by the time limit, or by the stop.
End ==
  /\ busy \/ stopping
  /\ fate = "pending" \/ fate \in {"timeout", "abort"}  \* it may end before the signal hits
  /\ fate' \in {"exit", "msan", "stop", "segv", "oom", "timeout", "abort"}
  /\ expired' \in {expired, TRUE}
  /\ fate' = "timeout" => expired'
  /\ stopping' \in {stopping, TRUE}
  /\ fate' = "abort" => stopping'
  /\ UNCHANGED <<busy, verdict, map>>

Expire == expired' = TRUE /\ UNCHANGED <<busy, stopping, fate, verdict, map>>
Stop   == stopping' = TRUE /\ UNCHANGED <<busy, fate, expired, verdict, map>>

\* The verdicts an execution justifies.
Justified(v) ==
  CASE v = "none"  -> fate \in {"exit", "stop"} \/ (fate = "msan" /\ ~uses_asan)
    [] v = "crash" -> fate \in {"segv", "oom"} \/ (fate = "msan" /\ uses_asan)
    [] v = "tmout" -> expired

\* After Ctrl-C the signals that ended the execution prove nothing; the exit code
\* of a crash still does.
JustifiedAfterStop(v) == v = "none" \/ (v = "crash" /\ fate = "msan" /\ uses_asan)

Answer ==
  /\ busy /\ busy' = FALSE
  /\ \/ stopping /\ verdict' \in {"none", "crash"} /\ JustifiedAfterStop(verdict)'
     \/ /\ ~stopping
        /\ verdict' \in {"none", "crash", "tmout"} /\ Justified(verdict)'
        /\ map \subseteq {"own"} \/ map \subseteq {"pre"}
  /\ UNCHANGED <<stopping, fate, expired, map>>

Next == Call \/ Execute \/ End \/ Expire \/ Stop \/ Answer

Spec == Init /\ [][Next]_vars
=============================================================================
