-------------------------------- MODULE Dislocator --------------------------------
(***************************************************************************)
(* libdislocator, the allocator that replaces malloc() and its kin in a    *)
(* target: each block ends at an inaccessible page, carries its length and *)
(* a canary below, and stays inaccessible once it is freed.  Each thread   *)
(* counts the memory it took, less what it gave back, whoever took that.   *)
(***************************************************************************)
EXTENDS Integers, Sequences, FiniteSets

CONSTANTS
  Threads,
  Lengths,      \* lengths asked for, numbers of elements included
  SizeMax,      \* 2 ^ 64, the number of values of a size_t
  Page,         \* PAGE_SIZE
  Header,       \* 8, the length and the canary
  MaxMem,       \* max_mem
  MaxBlocks     \* bound on the calls that get memory

ASSUME DislocatorAssumption ==
  /\ SizeMax \in Nat /\ Lengths \subseteq 0 .. SizeMax - 1
  /\ Page \in Nat \ {0} /\ Header \in 1 .. Page
  /\ IsFiniteSet(Threads)
  /\ MaxMem \in Nat /\ MaxMem + Header + 2 * Page < SizeMax
  /\ MaxMem * Cardinality(Threads) < SizeMax   \* max_mem is a u32
  /\ MaxBlocks \in Nat

VARIABLES
  allocs,       \* start (from the first page), len, data, live, and what the
                \* caller wants of it: its length and what it holds
  total_mem,    \* of each thread
  heap_state    \* "ok", "abort", "segfault" in a freed block or "overrun" of a live one

heapVars == <<allocs, total_mem, heap_state>>

PgCount(n) == (n + Page - 1) \div Page
Fill(n, x) == [k \in 1 .. n |-> x]
Live == {b \in 1 .. Len(allocs) : allocs[b].live}

\* __dislocator_alloc(): the limit, counted in a size_t.
Refused(t, len) ==
  LET sum == (total_mem[t] + len) % SizeMax IN sum > MaxMem \/ sum < total_mem[t]

NewBlock(len, data, want) ==
  [start |-> Page * PgCount(len + Header) - len, len |-> len, data |-> data, live |-> TRUE, want |-> want]

Take(t, block) ==
  /\ allocs' = Append(allocs, block)
  /\ total_mem' = [total_mem EXCEPT ![t] = (@ + block.len) % SizeMax]

\* malloc()
Malloc(t) ==
  /\ heap_state = "ok" /\ Len(allocs) < MaxBlocks
  /\ \E len \in Lengths :
       /\ ~Refused(t, len)
       /\ Take(t, NewBlock(len, Fill(len, "clobber"), Fill(len, "clobber")))
  /\ UNCHANGED heap_state

\* (faulty) only a product that ends up smaller than a factor.
OverflowsSmaller(elem_len, elem_cnt) == (elem_len * elem_cnt) % SizeMax < elem_len

\* The check of calloc().
Overflows(elem_len, elem_cnt) ==
  elem_cnt # 0 /\ ((elem_len * elem_cnt) % SizeMax) \div elem_cnt # elem_len

\* calloc(): pages of mmap() hold zeros.
Calloc(t) ==
  /\ heap_state = "ok" /\ Len(allocs) < MaxBlocks
  /\ \E elem_len \in Lengths, elem_cnt \in Lengths :
       LET len == (elem_len * elem_cnt) % SizeMax IN
       IF Overflows(elem_len, elem_cnt)
         THEN /\ heap_state' \in {"ok", "abort"}   \* AFL_LD_NO_CALLOC_OVER or not
              /\ UNCHANGED <<allocs, total_mem>>
         ELSE /\ ~Refused(t, len)
              /\ Take(t, NewBlock(len, Fill(len, "zero"), Fill(elem_len * elem_cnt, "zero")))
              /\ UNCHANGED heap_state

\* Out of memory: NULL, or an abort with AFL_LD_HARD_FAIL.
NoMemory(t) ==
  /\ heap_state = "ok"
  /\ \E len \in Lengths : Refused(t, len)
  /\ heap_state' \in {"ok", "abort"}
  /\ UNCHANGED <<allocs, total_mem>>

Protected(b) == [allocs EXCEPT ![b].live = FALSE]

\* free(): the canary of a block that was freed cannot be read.
Free(t) ==
  /\ heap_state = "ok"
  /\ \E b \in 1 .. Len(allocs) :
       IF allocs[b].live
         THEN /\ allocs' = Protected(b)
              /\ total_mem' = [total_mem EXCEPT ![t] = (@ + SizeMax - allocs[b].len) % SizeMax]
              /\ UNCHANGED heap_state
         ELSE heap_state' = "segfault" /\ UNCHANGED <<allocs, total_mem>>

Shorter(x, y) == IF x <= y THEN x ELSE y

\* MIN(len, PTR_L(ptr)), the bytes copied.
Copied(len, old) == Shorter(len, old)

\* realloc(): always a new block, clobbered, with the bytes of the old one.
Realloc(t) ==
  /\ heap_state = "ok" /\ Len(allocs) < MaxBlocks
  /\ \E b \in 1 .. Len(allocs), len \in Lengths :
       LET old == allocs[b]
           n == Copied(len, old.len) IN
       /\ ~Refused(t, len)
       /\ IF old.live /\ n <= old.len
            THEN /\ allocs' = Append(Protected(b),
                      NewBlock(len, SubSeq(old.data, 1, n) \o Fill(len - n, "clobber"),
                               [k \in 1 .. len |-> IF k <= Len(old.want) THEN old.want[k] ELSE "clobber"]))
                 /\ total_mem' = [total_mem EXCEPT ![t] = (@ + SizeMax + len - old.len) % SizeMax]
                 /\ UNCHANGED heap_state
            ELSE /\ heap_state' = IF old.live THEN "overrun" ELSE "segfault"
                 /\ Take(t, NewBlock(len, Fill(len, "clobber"), Fill(len, "clobber")))

\* The target writes a block it was given, as far as it asked for: behind the
\* end there is the inaccessible page.
Store(t) ==
  /\ heap_state = "ok"
  /\ \E b \in Live :
       IF Len(allocs[b].want) <= allocs[b].len
         THEN /\ allocs' = [allocs EXCEPT ![b].data = Fill(Len(allocs[b].want), "stored"),
                                          ![b].want = Fill(Len(allocs[b].want), "stored")]
              /\ UNCHANGED heap_state
         ELSE heap_state' = "overrun" /\ UNCHANGED allocs
  /\ UNCHANGED total_mem

HeapInit ==
  /\ allocs = <<>>
  /\ total_mem = [t \in Threads |-> 0]
  /\ heap_state = "ok"

HeapNext ==
  \E t \in Threads : Malloc(t) \/ Calloc(t) \/ NoMemory(t) \/ Free(t) \/ Realloc(t) \/ Store(t)

HeapSpec == HeapInit /\ [][HeapNext]_heapVars

-----------------------------------------------------------------------------
(* Property. *)

\* f[1] + ... + f[n].
Total(f, n) == LET sum[k \in 0 .. n] == IF k = 0 THEN 0 ELSE sum[k - 1] + f[k] IN sum[n]

Held(blocks) == [b \in 1 .. Len(blocks) |-> IF blocks[b].live THEN blocks[b].len ELSE 0]

\* A target that frees no block twice sees an allocator: each block it holds
\* has the bytes it asked for, the overflow of calloc() included, with what it
\* stored through any number of realloc(), and ends where the inaccessible page
\* begins.  However threads free each other's blocks, all of them together
\* never hold more than the limit of each.
BlocksAsAsked ==
  /\ heap_state # "overrun"
  /\ \A b \in Live :
       /\ allocs[b].data = allocs[b].want
       /\ (allocs[b].start + allocs[b].len) % Page = 0 /\ allocs[b].start >= Header
  /\ Total(Held(allocs), Len(allocs)) <= MaxMem * Cardinality(Threads)
=============================================================================
