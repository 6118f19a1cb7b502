---------------------------------- MODULE Edges ----------------------------------
(***************************************************************************)
(* The no-collision pass: every edge that a conditional terminator, or a   *)
(* block with a word of the dictionary, leaves by gets a number of its own *)
(* and a counter, at the start of the block it leads to if it is the only  *)
(* way there, else in a new block on the edge.  A block is a number; its   *)
(* terminator, and the blocks it leads to, by index.  The words of a block *)
(* are mapped to the numbers of the edges that leave or enter it.          *)
(***************************************************************************)
EXTENDS Integers, Sequences, FiniteSets

CONSTANTS
  Graphs,      \* functions: records of term (kinds) and succ (sequences of
               \* blocks), by block, 1 being the entry
  MaxWords     \* bound on the blocks with a word

ASSUME MaxWordsAssumption == MaxWords \in Nat

\* "return", "unreachable" and "resume" lead nowhere, "jump" is an unconditional
\* branch, "branch", "invoke" and "indirect" are the others.
Ends == {"return", "unreachable", "resume"}
Conditional == {"branch", "invoke", "indirect"}

\* The landing pad of an invoke is its alone: setLandingPadsWithUniquePredecessor()
\* has seen to that.
ASSUME GraphsAssumption ==
  \A g \in Graphs :
    /\ g.term \in Seq(Ends \cup {"jump"} \cup Conditional)
    /\ g.succ \in Seq(Seq(1 .. Len(g.term))) /\ Len(g.succ) = Len(g.term)
    /\ \A b \in 1 .. Len(g.term) : g.term[b] = "invoke" =>
         /\ Len(g.succ[b]) = 2
         /\ \A p \in 1 .. Len(g.term) : \A k \in 1 .. Len(g.succ[p]) :
              g.succ[p][k] = g.succ[b][2] => p = b /\ k = 2

VARIABLES
  source,      \* the graph before the pass
  has_dict,    \* the blocks with a word
  target,      \* succ of the graph being instrumented, the possible destinations of
               \* an indirect jump; new blocks at the end
  counter,     \* the counter of a block, 0 for none
  left,        \* ISet, what is left of it
  edge_count,
  edge_id,     \* the number each edge got
  dict,        \* pairs of a block, for its word, and an edge
  pass         \* "run", "done" or "failed"

edgeVars == <<source, has_dict, target, counter, left, edge_count, edge_id, dict, pass>>

Blocks == 1 .. Len(source.term)

\* recordInstruction(): all edges of the terminator.
Recorded == {b \in Blocks : b \in has_dict \/ source.term[b] \in Conditional}
EdgesOf(b) == {<<b, k>> : k \in 1 .. Len(source.succ[b])}

\* The ways into a block as the graph stands.
Leaving(p) == {<<p, k>> : k \in 1 .. Len(target[p])}
Entering(b) == {e \in UNION {Leaving(p) : p \in 1 .. Len(target)} : target[e[1]][e[2]] = b}

\* (faulty) getUniquePredecessor(): one block, whatever the number of edges.
SinglePredecessorUnique(b) == Cardinality({e[1] : e \in Entering(b)}) = 1

\* getSinglePredecessor()
SinglePredecessor(b) == \E e \in Entering(b) : Entering(b) = {e}

\* recordDictToEdgeMappings()
WordsOfEdge(b, c) == {b, c} \cap has_dict

\* instrumentInstruction(); the set is ordered by the addresses of terminators.
\* For an indirect jump the new block enters its list of destinations, no more.
Instrument ==
  /\ pass = "run"
  /\ \E e \in left :
       /\ \A o \in left : o[1] = e[1] => e[2] <= o[2]
       /\ LET b == e[1]
              c == target[b][e[2]]
          IN /\ dict' = dict \cup (WordsOfEdge(b, c) \X {edge_count})
             /\ IF SinglePredecessor(c)
                  THEN /\ counter' = [counter EXCEPT ![c] = edge_count]
                       /\ pass' = IF counter[c] # 0 THEN "failed" ELSE pass    \* ASSERT
                       /\ UNCHANGED target
                  ELSE /\ target' = Append([target EXCEPT ![b][e[2]] = Len(target) + 1], <<c>>)
                       /\ counter' = Append(counter, edge_count)
                       /\ UNCHANGED pass
       /\ edge_id' = [edge_id EXCEPT ![e] = edge_count]
       /\ left' = left \ {e}
  /\ edge_count' = edge_count + 1
  /\ UNCHANGED <<source, has_dict>>

\* The block a program comes to by an edge: setSuccessor() redirects all but an
\* indirect jump, which goes to the address of the block that it always went to.
Via(e) == target[e[1]][e[2]]
JumpsTo(e) == IF source.term[e[1]] = "indirect" THEN source.succ[e[1]][e[2]] ELSE Via(e)

\* The size goes into the program (__afl_get_area_size()) and the map file.
WriteSizes ==
  /\ pass = "run" /\ left = {}
  /\ pass' = "done"
  /\ UNCHANGED <<source, has_dict, target, counter, left, edge_count, edge_id, dict>>

EdgesInit ==
  /\ source \in Graphs
  /\ has_dict \in SUBSET Blocks /\ Cardinality(has_dict) <= MaxWords
  /\ target = source.succ
  /\ counter = [b \in Blocks |-> 0]
  /\ left = UNION {EdgesOf(b) : b \in Recorded}
  /\ edge_count = 1
  /\ edge_id = [e \in UNION {EdgesOf(b) : b \in Blocks} |-> 0]
  /\ dict = {}
  /\ pass = "run"

EdgesNext == Instrument \/ WriteSizes

EdgesSpec == EdgesInit /\ [][EdgesNext]_edgeVars

-----------------------------------------------------------------------------
(* Properties. *)

AllEdges == DOMAIN edge_id

\* The counters that a program which takes the edge comes by.
Counted(e) ==
  LET c == source.succ[e[1]][e[2]]
  IN {counter[b] : b \in {JumpsTo(e), c}} \ {0}

\* An indirect jump to a block that is entered otherwise, too: its counter is in
\* a new block, which no address leads to.
Missed(e) ==
  /\ source.term[e[1]] = "indirect"
  /\ \E f \in AllEdges \ {e} : source.succ[f[1]][f[2]] = source.succ[e[1]][e[2]]

\* No collisions: whoever takes an edge that decides something comes by its own
\* counter and by no other, whoever takes another edge, or one of an indirect
\* jump that is missed, comes by none, and gets where he got before; no two edges
\* share a number, and all numbers lie inside the map, above the byte that
\* __afl_map_shm() sets itself.
EdgesCounted ==
  /\ pass # "failed"
  /\ pass = "done" =>
    /\ \A e \in AllEdges :
         /\ Counted(e) = IF e[1] \in Recorded /\ ~Missed(e) THEN {edge_id[e]} ELSE {}
         /\ \/ JumpsTo(e) = source.succ[e[1]][e[2]]
            \/ target[JumpsTo(e)] = <<source.succ[e[1]][e[2]]>>
         /\ e[1] \in Recorded => edge_id[e] \in 1 .. edge_count - 1
    /\ \A e, f \in AllEdges : edge_id[e] = edge_id[f] => e = f \/ edge_id[e] = 0

\* "This allows us to have a mapping between dict value and edge did": a run that
\* leaves a block with a word by some edge takes an edge the word is mapped to
\* (though a missed one does not show), and no word is mapped to an edge that does not touch its block.
WordsMapped ==
  pass = "done" =>
    /\ \A b \in has_dict : \A e \in EdgesOf(b) : <<b, edge_id[e]>> \in dict
    /\ \A d \in dict : \E e \in AllEdges :
         edge_id[e] = d[2] /\ d[1] \in {e[1], source.succ[e[1]][e[2]]}

\* "If there's a dictionary value recorded, we instrument the code even if it's
\* not a conditional branch": every word has an edge.
EveryWordMapped == pass = "done" => \A b \in has_dict : \E d \in dict : d[1] = b

\* Every edge has its counter, and every word of a block that is left its edges.
EdgesExact == EdgesCounted /\ WordsMapped
=============================================================================
