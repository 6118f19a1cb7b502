------------------------------- MODULE MCToolchain -------------------------------
(***************************************************************************)
(* What surrounds the fuzzer, side by side: the three passes of the        *)
(* compiler, the maps they and the fuzzer agree on, the allocator for the  *)
(* target and afl-tmin.  They share nothing; `part' says which of them a   *)
(* behaviour is about, the others stay as they start.                      *)
(***************************************************************************)
EXTENDS CompareUnits, StringUnits, Edges, Bitmaps, Dislocator, Tmin

VARIABLE part

\* The values the pass treats apart, on both sides of the sign bit, and another.
MCConstants(w) == {0, 1, 2 ^ w - 1, 2 ^ w - 2, 2 ^ (w - 1), 2 ^ (w - 1) - 1, 5 % 2 ^ w}

\* Constants and memory of up to four characters of two bits, on both sides of
\* the sign bit: with the zero at the end, in the middle, twice or nowhere.
MCLiterals == {<<0>>, <<0, 0>>, <<1, 0>>, <<1, 0, 0>>, <<1, 2, 0>>, <<3, 1, 0>>, <<1, 0, 2, 0>>}
MCBuffers == {<<0>>, <<1>>, <<0, 0>>, <<1, 0>>, <<1, 2, 0>>, <<1, 3, 0>>, <<3, 1, 0>>, <<1, 2, 1, 0>>,
              <<1, 0, 2, 0>>}
MCWords == {<<2>>}

\* All functions of three blocks, with one indirect jump at most, nothing leading
\* back to the entry; the other two blocks can be exchanged.
Arity(kind) == CASE kind = "return" -> 0 [] kind = "jump" -> 1 [] kind \in {"branch", "indirect"} -> 2
MCGraphs ==
  UNION {{[term |-> t, succ |-> s] : s \in {<<a, b, c>> :
              a \in [1 .. Arity(t[1]) -> {2, 3}],
              b \in [1 .. Arity(t[2]) -> {2, 3}],
              c \in [1 .. Arity(t[3]) -> {2, 3}]}} :
         t \in {u \in [1 .. 3 -> {"return", "jump", "branch", "indirect"}] :
                  u[3] # "indirect" /\ (u[1] = "indirect" => u[2] # "indirect")}}

\* '0' is 1.
MCTminInputs == {<<0, 2, 2>>, <<0, 0, 2, 2>>, <<1, 0, 2>>}

CompareIdle ==
  /\ compare = [w |-> Unit, pred |-> "eq", side |-> "none", const |-> 0, call |-> FALSE]
  /\ convert = "NONE" /\ program = <<ICmp("eq", 0, Unit)>> /\ todo = {} /\ c2u_phase = 0
StringIdle ==
  /\ call = [fn |-> "memcmp", nocase |-> FALSE, literal |-> <<NoLiteral, NoLiteral>>,
             buffer |-> <<<<0>>, <<0>>>>, n |-> 0]
  /\ s2u_convert = "NONE" /\ compared = FALSE /\ word = <<>> /\ chain = <<>> /\ blocks = 0
  /\ pos = 1 /\ s2u_result = 0 /\ s2u_step = "idle"
EdgesIdle ==
  /\ source = [term |-> <<>>, succ |-> <<>>] /\ has_dict = {} /\ target = <<>> /\ counter = <<>>
  /\ left = {} /\ edge_count = 1 /\ edge_id = <<>> /\ dict = {} /\ pass = "idle"
MapsIdle == MapsInit /\ edge_number = 3 /\ ~in_bitmap
TminIdle == exact_mode = FALSE /\ TminStart(<<1, 0, 2>>)

MCInit ==
  \/ part = "compares"  /\ CompareInit /\ StringIdle /\ EdgesIdle /\ MapsIdle /\ HeapInit /\ TminIdle
  \/ part = "strings"   /\ CompareIdle /\ StringInit /\ EdgesIdle /\ MapsIdle /\ HeapInit /\ TminIdle
  \/ part = "edges"     /\ CompareIdle /\ StringIdle /\ EdgesInit /\ MapsIdle /\ HeapInit /\ TminIdle
  \/ part = "maps"      /\ CompareIdle /\ StringIdle /\ EdgesIdle /\ MapsInit /\ HeapInit /\ TminIdle
  \/ part = "allocator" /\ CompareIdle /\ StringIdle /\ EdgesIdle /\ MapsIdle /\ HeapInit /\ TminIdle
  \/ part = "tmin"      /\ CompareIdle /\ StringIdle /\ EdgesIdle /\ MapsIdle /\ HeapInit /\ TminInit

MCNext ==
  /\ \/ part = "compares"  /\ CompareNext /\ UNCHANGED <<stringVars, edgeVars, mapVars, heapVars, tminVars>>
     \/ part = "strings"   /\ StringNext /\ UNCHANGED <<compareVars, edgeVars, mapVars, heapVars, tminVars>>
     \/ part = "edges"     /\ EdgesNext /\ UNCHANGED <<compareVars, stringVars, mapVars, heapVars, tminVars>>
     \/ part = "maps"      /\ MapsNext /\ UNCHANGED <<compareVars, stringVars, edgeVars, heapVars, tminVars>>
     \/ part = "allocator" /\ HeapNext /\ UNCHANGED <<compareVars, stringVars, edgeVars, mapVars, tminVars>>
     \/ part = "tmin"      /\ TminNext /\ UNCHANGED <<compareVars, stringVars, edgeVars, mapVars, heapVars>>
  /\ UNCHANGED part

\* afl-tmin is one process.
MCSpec ==
  /\ MCInit
  /\ [][MCNext]_<<part, compareVars, stringVars, edgeVars, mapVars, heapVars, tminVars>>
  /\ WF_<<part, tminVars>>(part = "tmin" /\ MCNext)
=============================================================================
