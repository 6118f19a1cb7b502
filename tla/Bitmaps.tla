--------------------------------- MODULE Bitmaps ----------------------------------
(***************************************************************************)
(* The maps of the fuzzer at the level of bytes and words: the size of a   *)
(* map, the classes of hit counts, has_new_bits() and the functions that   *)
(* count and simplify, which all go through a map word by word and pass    *)
(* over words they need not look at.  A byte is the set of its bits.       *)
(***************************************************************************)
EXTENDS Integers, Sequences, FiniteSets

CONSTANTS
  EdgeNumbers,   \* edges of a target, as its .afl section says
  HitCounts,     \* hit counts of an edge in one run, below 256
  WordBytes      \* 8, and a map is a multiple of it

ASSUME BitmapsAssumption ==
  /\ EdgeNumbers \subseteq Nat \ {0} /\ HitCounts \subseteq 0 .. 255
  /\ WordBytes \in Nat \ {0}

VARIABLES
  in_bitmap, fuzz_bitmap,        \* -B is given, and the file that it names
  edge_number, map_size,
  trace_bits,
  virgin_bits, virgin_crash,
  new_bits,                      \* what has_new_bits() returned
  hit, pristine, seen,           \* the counts of the run, the virgin map before it,
                                 \* and for each edge the classes seen in any run,
                                 \* with -B also in those before
  map_step

mapVars == <<in_bitmap, fuzz_bitmap, edge_number, map_size, trace_bits, virgin_bits, virgin_crash, new_bits, hit, pristine, seen, map_step>>

Bits(n) == {k \in 0 .. 7 : (n \div 2 ^ k) % 2 = 1}
FullByte == 0 .. 7
Positions == 1 .. map_size
Words == 0 .. (map_size \div WordBytes) - 1
InWord(w) == w * WordBytes + 1 .. (w + 1) * WordBytes

\* get_map_size(): bytes for the edges, a multiple of the word.
MapSize(n) == ((n - 1) \div WordBytes + 1) * WordBytes

\* count_class_lookup8
ClassOf(b) ==
  LET top == CHOOSE k \in b : \A l \in b : l <= k IN
  IF b \in {{}, {0}, {1}} THEN b
  ELSE IF b = {0, 1} THEN {2}
  ELSE IF top <= 4 THEN {top + 1} ELSE IF top <= 6 THEN {6} ELSE {7}

Idle(m, w) == \A p \in InWord(w) : m[p] = {}

\* classify_counts(), two bytes at a time with a table of pairs.
Classified(m) ==
  [p \in Positions |-> IF \E w \in Words : p \in InWord(w) /\ ~Idle(m, w) THEN ClassOf(m[p]) ELSE m[p]]

\* simplify_trace()
SimplifiedTrace(m) ==
  [p \in Positions |->
     IF \E w \in Words : p \in InWord(w) /\ ~Idle(m, w)
       THEN IF m[p] = {} THEN {0} ELSE {7}
       ELSE IF \E w \in Words : p \in InWord(w) THEN {0} ELSE m[p]]

\* A word with bits the virgin map still has, and one with a byte it has whole.
Touched(v, m, w) == ~Idle(m, w) /\ \E p \in InWord(w) : m[p] \cap v[p] # {}
NewTuple(v, m, w) == \E p \in InWord(w) : m[p] # {} /\ v[p] = FullByte

\* (faulty) a later word with new counts only takes back the 2.
ReturnedLast(v, m) ==
  LET words == {w \in Words : Touched(v, m, w)} IN
  IF words = {} THEN 0
  ELSE IF NewTuple(v, m, CHOOSE w \in words : \A x \in words : x <= w) THEN 2 ELSE 1

\* has_new_bits(): the value, and the update of the virgin map.
Returned(v, m) ==
  LET words == {w \in Words : Touched(v, m, w)} IN
  IF \E w \in words : NewTuple(v, m, w) THEN 2 ELSE IF words # {} THEN 1 ELSE 0
Updated(v, m) ==
  [p \in Positions |-> IF \E w \in Words : p \in InWord(w) /\ Touched(v, m, w) THEN v[p] \ m[p] ELSE v[p]]

\* count_bits(), count_bytes(), count_non_255_bytes(), and minimize_bits(),
\* whose result has a bit for each byte.
CountBits(m) == Cardinality({bit \in Positions \X FullByte : bit[2] \in m[bit[1]]})
CountBytes(m) == Cardinality({p \in Positions : m[p] # {}})
CountNon255Bytes(m) == Cardinality({p \in Positions : m[p] # FullByte})
Minimized(m) == {<<(p - 1) \div 8, (p - 1) % 8>> : p \in {q \in Positions : m[q] # {}}}

\* -B: read_bitmap() while the options are parsed, into a map of map_size bytes.
ReadOptions ==
  /\ map_step = "options"
  /\ virgin_bits' = IF in_bitmap THEN [p \in Positions |-> fuzz_bitmap[p]] ELSE virgin_bits
  /\ map_step' = "set up"
  /\ UNCHANGED <<in_bitmap, fuzz_bitmap, edge_number, map_size, trace_bits, virgin_crash,
                 new_bits, hit, pristine, seen>>

\* setup_map_size_and_build_type() allocates the maps, filled with 0, and
\* setup_shm() fills them with 255, virgin_bits only without -B.
SetUpMaps ==
  /\ map_step = "set up"
  /\ map_size' = MapSize(edge_number)
  /\ trace_bits' = [p \in 1 .. map_size' |-> {}]
  /\ virgin_bits' = [p \in 1 .. map_size' |-> IF in_bitmap THEN {} ELSE FullByte]
  /\ virgin_crash' = [p \in 1 .. map_size' |-> FullByte]
  /\ map_step' = "run"
  /\ UNCHANGED <<in_bitmap, fuzz_bitmap, edge_number, new_bits, hit, pristine, seen>>

\* run_target(): the target adds to the bytes of its edges, the counts are classified.
RunTarget ==
  /\ map_step = "run"
  /\ \E h \in [1 .. edge_number -> HitCounts] :
       /\ hit' = h
       /\ trace_bits' = Classified([p \in Positions |-> IF p <= edge_number THEN Bits(h[p]) ELSE {}])
  /\ map_step' \in {"queue", "crash"}
  /\ UNCHANGED <<in_bitmap, fuzz_bitmap, edge_number, map_size, virgin_bits, virgin_crash, new_bits, pristine, seen>>

LookForNew ==
  /\ map_step = "queue"
  /\ new_bits' = Returned(virgin_bits, trace_bits)
  /\ virgin_bits' = Updated(virgin_bits, trace_bits)
  /\ pristine' = virgin_bits
  /\ seen' = [e \in 1 .. edge_number |-> seen[e] \cup ClassOf(Bits(hit[e]))]
  /\ map_step' = "looked"
  /\ UNCHANGED <<in_bitmap, fuzz_bitmap, edge_number, map_size, trace_bits, virgin_crash, hit>>

\* A crash: its counts are dropped first, and virgin_crash is asked.
LookAtCrash ==
  /\ map_step = "crash"
  /\ trace_bits' = SimplifiedTrace(trace_bits)
  /\ new_bits' = Returned(virgin_crash, trace_bits')
  /\ virgin_crash' = Updated(virgin_crash, trace_bits')
  /\ pristine' = virgin_crash
  /\ map_step' = "crashed"
  /\ UNCHANGED <<in_bitmap, fuzz_bitmap, edge_number, map_size, virgin_bits, hit, seen>>

\* The beginning of run_target().
WipeTrace ==
  /\ map_step \in {"looked", "crashed"}
  /\ trace_bits' = [p \in Positions |-> {}]
  /\ new_bits' = 0 /\ hit' = <<>> /\ pristine' = <<>>
  /\ map_step' = "run"
  /\ UNCHANGED <<in_bitmap, fuzz_bitmap, edge_number, map_size, virgin_bits, virgin_crash, seen>>

MapsInit ==
  /\ edge_number \in EdgeNumbers /\ map_size = 0
  /\ in_bitmap \in BOOLEAN
  /\ IF in_bitmap
       THEN /\ seen \in [1 .. edge_number -> SUBSET UNION {ClassOf(Bits(h)) : h \in HitCounts}]
            /\ \E e \in 1 .. edge_number : seen[e] # {}
            /\ fuzz_bitmap = [p \in 1 .. MapSize(edge_number) |->
                               IF p <= edge_number THEN FullByte \ seen[p] ELSE FullByte]
       ELSE seen = [e \in 1 .. edge_number |-> {}] /\ fuzz_bitmap = <<>>
  /\ trace_bits = <<>> /\ virgin_bits = <<>> /\ virgin_crash = <<>>
  /\ new_bits = 0 /\ hit = <<>> /\ pristine = <<>>
  /\ map_step = "options"

MapsNext == ReadOptions \/ SetUpMaps \/ RunTarget \/ LookForNew \/ LookAtCrash \/ WipeTrace

MapsSpec == MapsInit /\ [][MapsNext]_mapVars

-----------------------------------------------------------------------------
(* Properties. *)

Numbered == 1 .. edge_number
HitOrNot(e) == IF hit[e] = 0 THEN 0 ELSE 7

\* Whatever words are passed over, the result is the one edge by edge: the
\* value of has_new_bits() is 2 exactly if an edge was hit for the first time
\* and 1 if only a count is new, the virgin map lacks exactly the counts seen in
\* any run, no byte behind the last edge counts, and a crash is told from
\* another one by the edges it hits and those it misses.  (With -B the virgin map
\* is another matter, see LoadedBitmapUsed.)
EdgeByEdge ==
  /\ map_step = "looked" =>
       /\ new_bits = 2 <=> \E e \in Numbered : hit[e] # 0 /\ pristine[e] = FullByte
       /\ new_bits = 0 <=> \A e \in Numbered : ClassOf(Bits(hit[e])) \cap pristine[e] = {}
       /\ CountBytes(trace_bits) = Cardinality({e \in Numbered : hit[e] # 0})
       /\ Minimized(trace_bits) = {<<(e - 1) \div 8, (e - 1) % 8>> : e \in {x \in Numbered : hit[x] # 0}}
       /\ in_bitmap \/ CountNon255Bytes(virgin_bits) = Cardinality({e \in Numbered : seen[e] # {}})
       /\ in_bitmap \/ 8 * map_size - CountBits(virgin_bits) = Cardinality({bit \in Numbered \X FullByte : bit[2] \in seen[bit[1]]})
  /\ map_step \in {"run", "crash", "looked", "crashed"} /\ ~in_bitmap =>
       \A e \in Numbered : virgin_bits[e] = FullByte \ seen[e]
  /\ map_step = "crashed" =>
       new_bits # 0 <=> \E e \in Numbered : HitOrNot(e) \in pristine[e]

\* "mutate it without rediscovering any of the test cases already found during an
\* earlier run": with -B the session takes for known what the earlier run has
\* found and what it has found itself, and nothing else.
LoadedBitmapUsed ==
  in_bitmap /\ map_step = "run" => \A e \in Numbered : virgin_bits[e] = FullByte \ seen[e]
=============================================================================
