---------------------------------- MODULE Sync ----------------------------------
(***************************************************************************)
(* Parallel fuzzing: sync_fuzzers of several instances over one sync       *)
(* directory, together with what the others do to their queue directories  *)
(* at the same time: save_if_interesting and trim_case write files,        *)
(* a restart renames, deletes and refills the directory.                   *)
(* A test case is what it covers; the file id:<n> of f is queue[f][n + 1], *)
(* and {} a file that is empty or missing.                                 *)
(***************************************************************************)
EXTENDS Integers, Sequences, FiniteSets

CONSTANTS
  Fuzzers,
  Cases,    \* test cases: sets of edges
  Seed,     \* the one input of a new session
  Starts,   \* bound on the sessions of an instance
  Races     \* the overlaps that may happen

(* "save": a file is created, or replaced by trim_case(), and written in two  *)
(* steps; "listing": readdir() may return a file added since opendir() and    *)
(* not an older one; "resume": a peer resumes while its queue is read;        *)
(* "new": a new session is started over the directory of an old one.          *)
ASSUME RacesAssumption == Races \subseteq {"save", "listing", "resume", "new"}
ASSUME CasesAssumption == {} \notin Cases /\ Seed \in Cases
ASSUME StartsAssumption == Starts \in Nat \ {0}

VARIABLES
  queue, old,     \* <f>/queue and <f>/_resume
  synced,         \* <f>/.synced/<p>: min_accept
  starts,         \* sessions f has had
  pc, back,       \* where f is, and where it goes on after saving a case
  covered,        \* edges that are gone from f's virgin_bits
  file,           \* the file f is writing: id + 1 and content
  parties,        \* peers f has still to visit
  scan            \* the visit to one of them

disk == <<queue, old, synced, starts>>
proc == <<pc, back, covered, file, parties, scan>>
vars == <<disk, proc>>

Edges == UNION Cases
Content(s) == UNION {s[i] : i \in 1 .. Len(s)}

\* The files of s that are not empty, in order.
NonEmpty(s) ==
  LET kept == {i \in 1 .. Len(s) : s[i] # {}}
  IN  [k \in 1 .. Cardinality(kept) |-> s[CHOOSE i \in kept : Cardinality({j \in kept : j <= i}) = k]]

NoFile == <<0, {}>>
NoScan == [peer |-> CHOOSE p \in Fuzzers : TRUE, session |-> 0, size |-> 0, seen |-> {}, next |-> 0]

Init ==
  /\ queue = [f \in Fuzzers |-> <<Seed>>]
  /\ old = [f \in Fuzzers |-> <<>>]
  /\ synced = [f \in Fuzzers |-> [p \in Fuzzers |-> 0]]
  /\ starts = [f \in Fuzzers |-> 1]
  /\ pc = [f \in Fuzzers |-> "fuzz"] /\ back = pc
  /\ covered = [f \in Fuzzers |-> Seed]
  /\ file = [f \in Fuzzers |-> NoFile]
  /\ parties = [f \in Fuzzers |-> {}]
  /\ scan = [f \in Fuzzers |-> NoScan]

-----------------------------------------------------------------------------
(* save_if_interesting() and trim_case(). *)

\* (faulty) whatever is run is kept.
InterestingAlways(f, c) ==
  TRUE

\* has_new_bits(virgin_bits)
Interesting(f, c) == ~ (c \subseteq covered[f])

\* What is left to do of save_if_interesting() once c is found interesting, in a
\* step that leaves pc[f] at `from'.
Save(f, c, from) ==
  /\ covered' = [covered EXCEPT ![f] = @ \cup c]
  /\ IF "save" \in Races
       THEN /\ queue' = [queue EXCEPT ![f] = Append(@, {})]
            /\ file' = [file EXCEPT ![f] = <<Len(queue'[f]), c>>]
            /\ pc' = [pc EXCEPT ![f] = "write"]
            /\ back' = [back EXCEPT ![f] = from]
       ELSE /\ queue' = [queue EXCEPT ![f] = Append(@, c)]
            /\ UNCHANGED <<file, pc, back>>

\* The instance finds a case of its own.
Find(f) ==
  /\ pc[f] = "fuzz"
  /\ \E c \in Cases : Interesting(f, c) /\ Save(f, c, "fuzz")
  /\ UNCHANGED <<old, synced, starts, parties, scan>>

\* trim_case() of an entry: unlink() and open(O_CREAT | O_EXCL).
Trim(f) ==
  /\ pc[f] = "fuzz" /\ "save" \in Races
  /\ \E i \in 1 .. Len(queue[f]) :
       /\ queue[f][i] # {}
       /\ queue' = [queue EXCEPT ![f][i] = {}]
       /\ file' = [file EXCEPT ![f] = <<i, queue[f][i]>>]
  /\ pc' = [pc EXCEPT ![f] = "write"]
  /\ back' = [back EXCEPT ![f] = "fuzz"]
  /\ UNCHANGED <<old, synced, starts, covered, parties, scan>>

Write(f) ==
  /\ pc[f] = "write"
  /\ queue' = [queue EXCEPT ![f][file[f][1]] = file[f][2]]
  /\ file' = [file EXCEPT ![f] = NoFile]
  /\ pc' = [pc EXCEPT ![f] = back[f]]
  /\ UNCHANGED <<old, synced, starts, back, covered, parties, scan>>

-----------------------------------------------------------------------------
(* sync_fuzzers() *)

BeginSync(f) ==
  /\ pc[f] = "fuzz"
  /\ pc' = [pc EXCEPT ![f] = "sync"]
  /\ parties' = [parties EXCEPT ![f] = Fuzzers \ {f}]
  /\ UNCHANGED <<disk, back, covered, file, scan>>

\* opendir() of a peer's queue and the id of the last case seen there.
OpenQueue(f) ==
  /\ pc[f] = "sync"
  /\ \E p \in parties[f] :
       /\ parties' = [parties EXCEPT ![f] = @ \ {p}]
       /\ scan' = [scan EXCEPT ![f] = [peer |-> p, session |-> starts[p], size |-> Len(queue[p]),
                                       seen |-> {}, next |-> synced[f][p]]]
  /\ pc' = [pc EXCEPT ![f] = "scan"]
  /\ UNCHANGED <<disk, back, covered, file>>

MinAccept(f) == synced[f][scan[f].peer]

\* Is the directory that was opened still the peer's queue?
SameQueue(f) == scan[f].session = starts[scan[f].peer]

\* (faulty) the last case seen is taken for the first one that is not.
DueStrict(f) ==
  {n \in MinAccept(f) + 1 .. scan[f].size - 1 : n \notin scan[f].seen}

\* Cases readdir() has still to return ...
Due(f) == {n \in MinAccept(f) .. scan[f].size - 1 : n \notin scan[f].seen}

\* ... and those it may return.
Added(f) ==
  IF "listing" \in Races /\ SameQueue(f)
    THEN (scan[f].size .. Len(queue[scan[f].peer]) - 1) \ scan[f].seen
    ELSE {}

Larger(a, b) == IF a >= b THEN a ELSE b

\* One case: open(), fstat(), run_target(), save_if_interesting().
Look(f) ==
  /\ pc[f] = "scan"
  /\ \E n \in Due(f) \cup Added(f) :
       LET q == queue[scan[f].peer]
           c == IF n < Len(q) THEN q[n + 1] ELSE {}
       IN  /\ scan' = [scan EXCEPT ![f].seen = @ \cup {n}, ![f].next = Larger(@, n + 1)]
           /\ IF c # {} /\ Interesting(f, c)
                THEN Save(f, c, "scan")
                ELSE UNCHANGED <<queue, covered, file, pc, back>>
  /\ UNCHANGED <<old, synced, starts, parties>>

\* The end of the directory: .synced/<p> is written.
CloseQueue(f) ==
  /\ pc[f] = "scan"
  /\ Due(f) = {} \/ ~SameQueue(f)
  /\ synced' = [synced EXCEPT ![f][scan[f].peer] = scan[f].next]
  /\ scan' = [scan EXCEPT ![f] = NoScan]
  /\ pc' = [pc EXCEPT ![f] = "sync"]
  /\ UNCHANGED <<queue, old, starts, back, covered, file, parties>>

EndSync(f) ==
  /\ pc[f] = "sync" /\ parties[f] = {}
  /\ pc' = [pc EXCEPT ![f] = "fuzz"]
  /\ UNCHANGED <<disk, back, covered, file, parties, scan>>

-----------------------------------------------------------------------------
(* The end of an instance and its next session. *)

Exit(f) ==
  /\ pc' = [pc EXCEPT ![f] = "down"]
  /\ back' = [back EXCEPT ![f] = "fuzz"]
  /\ covered' = [covered EXCEPT ![f] = {}]
  /\ file' = [file EXCEPT ![f] = NoFile]
  /\ parties' = [parties EXCEPT ![f] = {}]
  /\ scan' = [scan EXCEPT ![f] = NoScan]

\* (faulty) the visit that is cut short is recorded.
StopsRecording(f) ==
  /\ pc[f] # "down"
  /\ Exit(f)
  /\ synced' = IF pc[f] = "scan" THEN [synced EXCEPT ![f][scan[f].peer] = scan[f].size] ELSE synced
  /\ UNCHANGED <<queue, old, starts>>

\* Ctrl-C (sync_fuzzers returns without writing .synced), or killed.
Stops(f) ==
  /\ pc[f] # "down"
  /\ Exit(f)
  /\ UNCHANGED disk

Scanned(f) == \E g \in Fuzzers : pc[g] \in {"scan", "write"} /\ scan[g].session > 0 /\ scan[g].peer = f

\* -i-: the queue becomes _resume, unless there is one.
ResumeSession(f) ==
  /\ pc[f] = "down" /\ starts[f] < Starts
  /\ "resume" \in Races \/ ~Scanned(f)
  /\ starts' = [starts EXCEPT ![f] = @ + 1]
  /\ old' = [old EXCEPT ![f] = IF @ = <<>> THEN NonEmpty(queue[f]) ELSE @]
  /\ queue' = [queue EXCEPT ![f] = <<>>]
  /\ pc' = [pc EXCEPT ![f] = "pivot"]
  /\ UNCHANGED <<synced, back, covered, file, parties, scan>>

\* pivot_inputs(): the cases are linked in order, under new numbers if there are
\* gaps; at the end _resume goes and the dry run finds out what they cover.
Pivot(f) ==
  /\ pc[f] = "pivot"
  /\ IF Len(queue[f]) < Len(old[f])
       THEN /\ queue' = [queue EXCEPT ![f] = Append(@, old[f][Len(@) + 1])]
            /\ UNCHANGED <<old, covered, pc>>
       ELSE /\ old' = [old EXCEPT ![f] = <<>>]
            /\ covered' = [covered EXCEPT ![f] = Content(queue[f])]
            /\ pc' = [pc EXCEPT ![f] = "fuzz"]
            /\ UNCHANGED queue
  /\ UNCHANGED <<synced, starts, back, file, parties, scan>>

\* -i <dir> over the directory of an old session: queue and .synced are deleted.
NewSession(f) ==
  /\ pc[f] = "down" /\ starts[f] < Starts
  /\ "new" \in Races
  /\ starts' = [starts EXCEPT ![f] = @ + 1]
  /\ queue' = [queue EXCEPT ![f] = <<Seed>>]
  /\ synced' = [synced EXCEPT ![f] = [p \in Fuzzers |-> 0]]
  /\ covered' = [covered EXCEPT ![f] = Seed]
  /\ pc' = [pc EXCEPT ![f] = "fuzz"]
  /\ UNCHANGED <<old, back, file, parties, scan>>

-----------------------------------------------------------------------------
Works(f) == BeginSync(f) \/ OpenQueue(f) \/ Look(f) \/ CloseQueue(f) \/ EndSync(f) \/ Write(f) \/ Pivot(f)

Next ==
  \E f \in Fuzzers :
    \/ Find(f) \/ Trim(f) \/ Write(f)
    \/ BeginSync(f) \/ OpenQueue(f) \/ Look(f) \/ CloseQueue(f) \/ EndSync(f)
    \/ Stops(f) \/ ResumeSession(f) \/ Pivot(f) \/ NewSession(f)

Spec == Init /\ [][Next]_vars

\* The main loop calls sync_fuzzers() again and again, and no call of an instance
\* that runs blocks for ever: a hanging target is killed.
FairSpec == Spec /\ \A f \in Fuzzers : WF_vars(Works(f))

-----------------------------------------------------------------------------
(* Properties. *)

Ids == 0 .. Cardinality(Edges) + 1

TypeOK ==
  /\ \A f \in Fuzzers :
       /\ queue[f] \in Seq(Cases \cup {{}}) /\ Len(queue[f]) \in Ids
       /\ old[f] \in Seq(Cases)
       /\ file[f][1] \in 0 .. Len(queue[f]) /\ file[f][2] \in Cases \cup {{}}
       /\ scan[f].seen \subseteq Ids /\ scan[f].size \in Ids
       /\ scan[f].next \in 0 .. Cardinality(Edges) + 2
       /\ synced[f] \in [Fuzzers -> 0 .. Cardinality(Edges) + 2]
       /\ synced[f][f] = 0
       /\ parties[f] \subseteq Fuzzers \ {f}
  /\ pc \in [Fuzzers -> {"fuzz", "write", "sync", "scan", "pivot", "down"}]
  /\ back \in [Fuzzers -> {"fuzz", "scan"}]
  /\ covered \in [Fuzzers -> SUBSET Edges]
  /\ starts \in [Fuzzers -> 1 .. Starts]

\* Whatever is imported, trimmed, renumbered or lost, every case in a queue covers
\* something the cases before it do not: the instances do not send each other's
\* cases to and fro.
KeptIsNew ==
  \A f \in Fuzzers : \A i \in 1 .. Len(queue[f]) :
    queue[f][i] # {} => ~ (queue[f][i] \subseteq UNION {queue[f][j] : j \in 1 .. i - 1})

\* A case with a number below the one in .synced has been tried: an instance that
\* runs knows what it covers.
NoneSkipped ==
  \A f \in Fuzzers : \A p \in Fuzzers \ {f} :
    pc[f] \notin {"down", "pivot"} =>
      \A i \in 1 .. Len(queue[p]) : i <= synced[f][p] => queue[p][i] \subseteq covered[f]

\* "Each instance will also periodically rescan the top-level sync directory for
\* any test cases found by other fuzzers" (docs/parallel_fuzzing.txt): what a
\* queue holds gets to every instance that keeps running, unless the owner stops
\* in the middle of a resume.
EveryCaseArrives ==
  \A f, p \in Fuzzers : \A c \in Cases :
    (\E i \in 1 .. Len(queue[p]) : queue[p][i] = c)
      ~> (c \subseteq covered[f] \/ pc[f] = "down" \/ (pc[p] = "down" /\ old[p] # <<>>))
=============================================================================
