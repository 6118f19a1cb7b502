----------------------------- MODULE Toolchain_proofs -----------------------------
(***************************************************************************)
(* What surrounds the fuzzer, for any of its sizes.  The allocator: blocks *)
(* of the lengths and bytes that were asked for, at the end of their last  *)
(* page, however threads move them and free each other's.  afl-tmin: the   *)
(* case that is written behaves as the one it was given.  The passes of    *)
(* the compiler: no two edges of a function share a number, a chain of     *)
(* compared characters decides what the call it replaces does, and a       *)
(* comparison that is split says what it said.  The maps: words and bytes  *)
(* give the same answers.                                                  *)
(***************************************************************************)
EXTENDS Dislocator, Tmin, Edges, Bitmaps, StringUnits, CompareUnits, Arithmetic_proofs, SequenceTheorems,
        FiniteSetTheorems, FunctionTheorems, TLAPS

-----------------------------------------------------------------------------
(* The blocks of the allocator: each is as it was asked for, ends at a page,
   and all together stay within the limits of the threads. *)

\* The sums that Total runs through.
IsSum(s, f, n) == s \in [0 .. n -> Int] /\ s[0] = 0 /\ \A k \in 1 .. n : s[k] = s[k - 1] + f[k]

LEMMA TotalUnfolds ==
  ASSUME NEW n \in Nat, NEW f \in [1 .. n -> Int]
  PROVE  \E s : IsSum(s, f, n) /\ Total(f, n) = s[n]
  <1> DEFINE step == [k \in 1 .. n |-> [x \in Int |-> x + f[k]]]
             L == CHOOSE s : s = [k \in 0 .. n |-> IF k = 0 THEN 0 ELSE s[k - 1] + f[k]]
  <1>1. step \in StepsOf(n, Int)
    BY DEF StepsOf
  <1>2. PICK s : RunsThrough(s, n, Int, 0, step)
    <2> HIDE DEF step
    <2>1. n \in Nat /\ 0 \in Int
      OBVIOUS
    <2> QED BY ONLY <1>1, <2>1, Recursion
  <1>3. IsSum(s, f, n)
    <2>1. s \in [0 .. n -> Int] /\ s[0] = 0 /\ \A k \in 1 .. n : s[k] = step[k][s[k - 1]]
      <3> HIDE DEF step
      <3> QED BY <1>2 DEF RunsThrough
    <2>2. ASSUME NEW k \in 1 .. n PROVE s[k] = s[k - 1] + f[k]
      <3>1. s[k - 1] \in Int
        BY <2>1
      <3> QED BY <2>1, <3>1
    <2> QED BY <2>1, <2>2 DEF IsSum
  <1>4. s = [k \in 0 .. n |-> IF k = 0 THEN 0 ELSE s[k - 1] + f[k]]
    BY <1>3 DEF IsSum
  <1>5. L = [k \in 0 .. n |-> IF k = 0 THEN 0 ELSE L[k - 1] + f[k]]
    BY <1>4
  <1> HIDE DEF L
  <1>6. L \in [0 .. n -> Int] /\ \A k \in 0 .. n : L[k] = s[k]
    <2> DEFINE T == {k \in 0 .. n : L[k] = s[k]}
    <2>1. 0 \in T
      BY <1>3, <1>5 DEF IsSum
    <2>2. ASSUME NEW k \in 0 .. n - 1, k \in T PROVE k + 1 \in T
      BY <1>3, <1>5, <2>2 DEF IsSum
    <2>3. \A k \in 0 .. n : k \in T
      <3> HIDE DEF T
      <3> QED BY <2>1, <2>2, UpTo
    <2>4. \A k \in 0 .. n : L[k] = s[k]
      BY <2>3
    <2>5. \A k \in 0 .. n : s[k] \in Int
      BY <1>3 DEF IsSum
    <2>6. L = [k \in 0 .. n |-> L[k]]
      BY <1>5
    <2> QED BY <2>4, <2>5, <2>6
  <1>7. Total(f, n) = L[n]
    BY DEF Total, L
  <1> QED BY <1>3, <1>6, <1>7

LEMMA TotalIsInt ==
  ASSUME NEW n \in Nat, NEW f \in [1 .. n -> Int]
  PROVE  Total(f, n) \in Int
  BY TotalUnfolds DEF IsSum

\* One number changes: so much changes the sum.
LEMMA TotalChanges ==
  ASSUME NEW n \in Nat, NEW f \in [1 .. n -> Int], NEW g \in [1 .. n -> Int], NEW i \in 1 .. n,
         \A k \in 1 .. n : k # i => g[k] = f[k]
  PROVE  Total(g, n) = Total(f, n) + g[i] - f[i]
  <1>1. PICK s : IsSum(s, f, n) /\ Total(f, n) = s[n]
    BY TotalUnfolds
  <1>2. PICK u : IsSum(u, g, n) /\ Total(g, n) = u[n]
    BY TotalUnfolds
  <1> DEFINE T == {k \in 0 .. n : u[k] = s[k] + (IF k < i THEN 0 ELSE g[i] - f[i])}
  <1>3. 0 \in T
    BY <1>1, <1>2 DEF IsSum
  <1>4. ASSUME NEW k \in 0 .. n - 1, k \in T PROVE k + 1 \in T
    <2>0. k + 1 \in 1 .. n /\ (k + 1) - 1 = k /\ k \in 0 .. n
      OBVIOUS
    <2>1. /\ u[k + 1] = u[k] + g[k + 1] /\ s[k + 1] = s[k] + f[k + 1]
          /\ s[k] \in Int /\ u[k] \in Int
      BY <1>1, <1>2, <2>0 DEF IsSum
    <2>5. u[k] = s[k] + (IF k < i THEN 0 ELSE g[i] - f[i])
      BY <1>4
    <2>2. f[k + 1] \in Int /\ g[k + 1] \in Int /\ f[i] \in Int /\ g[i] \in Int
      OBVIOUS
    <2>3. CASE k + 1 = i
      <3>1. g[k + 1] = g[i] /\ f[k + 1] = f[i] /\ k < i
        BY <2>3
      <3> QED BY <2>1, <2>2, <2>3, <2>5, <3>1
    <2>4. CASE k + 1 # i
      <3>1. g[k + 1] = f[k + 1]
        BY <2>4
      <3> QED BY <2>1, <2>2, <2>4, <2>5, <3>1
    <2> QED BY <2>3, <2>4
  <1>5. \A k \in 0 .. n : k \in T
    <2> HIDE DEF T
    <2> QED BY <1>3, <1>4, UpTo
  <1> QED BY <1>1, <1>2, <1>5 DEF IsSum

\* One number more is added to the sum.
LEMMA TotalGrows ==
  ASSUME NEW n \in Nat, NEW f \in [1 .. n -> Int], NEW g \in [1 .. n + 1 -> Int],
         \A k \in 1 .. n : g[k] = f[k]
  PROVE  Total(g, n + 1) = Total(f, n) + g[n + 1]
  <1>1. PICK s : IsSum(s, f, n) /\ Total(f, n) = s[n]
    BY TotalUnfolds
  <1>2. PICK u : IsSum(u, g, n + 1) /\ Total(g, n + 1) = u[n + 1]
    BY TotalUnfolds
  <1> DEFINE T == {k \in 0 .. n : u[k] = s[k]}
  <1>3. 0 \in T
    BY <1>1, <1>2 DEF IsSum
  <1>4. ASSUME NEW k \in 0 .. n - 1, k \in T PROVE k + 1 \in T
    BY <1>1, <1>2, <1>4 DEF IsSum
  <1>5. \A k \in 0 .. n : k \in T
    <2> HIDE DEF T
    <2> QED BY <1>3, <1>4, UpTo
  <1>6. u[n + 1] = u[(n + 1) - 1] + g[n + 1] /\ (n + 1) - 1 = n
    BY <1>2 DEF IsSum
  <1> QED BY <1>1, <1>2, <1>5, <1>6

\* The sum of numbers that are all at most m.
LEMMA TotalAtMost ==
  ASSUME NEW n \in Nat, NEW f \in [1 .. n -> Int], NEW m \in Int, \A k \in 1 .. n : f[k] <= m
  PROVE  Total(f, n) <= m * n
  <1>1. PICK s : IsSum(s, f, n) /\ Total(f, n) = s[n]
    BY TotalUnfolds
  <1> DEFINE T == {k \in 0 .. n : s[k] <= m * k}
  <1>2. 0 \in T
    BY <1>1 DEF IsSum
  <1>3. ASSUME NEW k \in 0 .. n - 1, k \in T PROVE k + 1 \in T
    <2>1. s[k + 1] = s[k] + f[k + 1] /\ s[k] <= m * k /\ f[k + 1] <= m /\ s[k] \in Int /\ f[k + 1] \in Int
      BY <1>1, <1>3 DEF IsSum
    <2>2. m * (k + 1) = m * k + m /\ m * k \in Int
      OBVIOUS
    <2> HIDE DEF T
    <2>3. s[k + 1] <= m * (k + 1)
      BY <2>1, <2>2
    <2> QED BY <2>3 DEF T
  <1>4. \A k \in 0 .. n : k \in T
    <2> HIDE DEF T
    <2> QED BY <1>2, <1>3, UpTo
  <1> QED BY <1>1, <1>4

\* No number exceeds a sum of numbers none of which is negative.
LEMMA TotalOfNats ==
  ASSUME NEW n \in Nat, NEW f \in [1 .. n -> Nat]
  PROVE  Total(f, n) \in Nat /\ \A i \in 1 .. n : f[i] <= Total(f, n)
  <1>1. PICK s : IsSum(s, f, n) /\ Total(f, n) = s[n]
    <2>1. f \in [1 .. n -> Int]
      OBVIOUS
    <2> QED BY <2>1, TotalUnfolds
  <1>2. ASSUME NEW i \in 1 .. n PROVE s[n] >= 0 /\ f[i] <= s[n]
    <2> DEFINE T == {k \in 0 .. n : s[k] >= 0 /\ (i <= k => f[i] <= s[k])}
    <2>1. 0 \in T
      BY <1>1 DEF IsSum
    <2>2. ASSUME NEW k \in 0 .. n - 1, k \in T PROVE k + 1 \in T
      <3>1. s[k + 1] = s[k] + f[k + 1] /\ s[k] \in Int /\ f[k + 1] \in Nat /\ f[i] \in Nat /\ s[k] >= 0
        BY <1>1, <2>2 DEF IsSum
      <3>2. i <= k + 1 => f[i] <= s[k + 1]
        BY <2>2, <3>1
      <3> QED BY <3>1, <3>2
    <2>3. \A k \in 0 .. n : k \in T
      <3> HIDE DEF T
      <3> QED BY <2>1, <2>2, UpTo
    <2> QED BY <2>3
  <1>3. CASE n = 0
    BY <1>1, <1>3 DEF IsSum
  <1>4. CASE n # 0
    <2>1. 1 \in 1 .. n
      BY <1>4
    <2> QED BY <1>1, <1>2, <2>1 DEF IsSum
  <1> QED BY <1>3, <1>4

-----------------------------------------------------------------------------
Contents == {"clobber", "zero", "stored"}
HeapBlocks == [start : Int, len : Nat, data : Seq(Contents), live : BOOLEAN, want : Seq(Contents)]

\* The bytes of a blk are those that were asked for, and it ends at a page.
Sound(blk) ==
  /\ blk.len <= MaxMem
  /\ Len(blk.want) = blk.len /\ blk.data = blk.want
  /\ (blk.start + blk.len) % Page = 0 /\ blk.start >= Header

HeapTypes ==
  /\ allocs \in Seq(HeapBlocks)
  /\ total_mem \in [Threads -> 0 .. SizeMax - 1]
  /\ heap_state \in {"ok", "abort", "segfault"}

AllSound(heap) == \A b \in 1 .. Len(heap) : Sound(heap[b])
BytesOf(heap) == Total(Held(heap), Len(heap))

\* What a thread took less what it gave back: a count above the limit is one
\* below zero that wrapped around, of a thread that freed what others took.
Balance(t) == IF total_mem[t] <= MaxMem THEN total_mem[t] ELSE total_mem[t] - SizeMax

ThreadCount == Cardinality(Threads)
Numbering == CHOOSE f \in Bijection(1 .. ThreadCount, Threads) : TRUE
Balances == [k \in 1 .. ThreadCount |-> Balance(Numbering[k])]
HeldBytes == BytesOf(allocs)

\* All threads together took what the live blocks hold.
Accounted == Total(Balances, ThreadCount) = HeldBytes

HeapInv == HeapTypes /\ AllSound(allocs) /\ Accounted

LEMMA ThreadsNumbered ==
  /\ ThreadCount \in Nat
  /\ Numbering \in [1 .. ThreadCount -> Threads]
  /\ \A k, l \in 1 .. ThreadCount : Numbering[k] = Numbering[l] => k = l
  /\ \A t \in Threads : \E k \in 1 .. ThreadCount : Numbering[k] = t
  <1>1. ThreadCount \in Nat /\ ExistsBijection(1 .. ThreadCount, Threads)
    BY FS_CardinalityType, DislocatorAssumption DEF ThreadCount
  <1>2. Numbering \in Bijection(1 .. ThreadCount, Threads)
    BY <1>1 DEF ExistsBijection, Numbering
  <1> QED BY <1>1, <1>2, Fun_BijectionProperties

\* The limits of the numbers.
LEMMA Limits ==
  /\ SizeMax \in Nat /\ MaxMem \in Nat /\ Page \in Nat \ {0} /\ Header \in Nat /\ Header <= Page
  /\ MaxMem * ThreadCount \in Nat /\ MaxMem * ThreadCount < SizeMax
  /\ Threads # {} => MaxMem < SizeMax
  <1>1. ThreadCount \in Nat
    BY ThreadsNumbered
  <1>2. /\ SizeMax \in Nat /\ MaxMem \in Nat /\ Page \in Nat \ {0} /\ Header \in Nat /\ Header <= Page
        /\ MaxMem * ThreadCount < SizeMax
    BY DislocatorAssumption DEF ThreadCount
  <1>3. MaxMem * ThreadCount \in Nat
    BY <1>1, <1>2
  <1>4. ASSUME Threads # {} PROVE MaxMem <= MaxMem * ThreadCount
    <2>1. PICK k \in 1 .. ThreadCount : TRUE
      BY <1>4, ThreadsNumbered
    <2>2. PICK c \in Nat : ThreadCount = c + 1
      <3>1. ThreadCount - 1 \in Nat /\ ThreadCount = (ThreadCount - 1) + 1
        BY <1>1, <2>1
      <3> QED BY <3>1
    <2>3. MaxMem * ThreadCount = MaxMem * c + MaxMem /\ MaxMem * c \in Nat
      BY <1>2, <2>2
    <2> QED BY <1>2, <2>3
  <1> QED BY <1>2, <1>3, <1>4

LEMMA BalanceTyped ==
  ASSUME HeapTypes, NEW t \in Threads
  PROVE  Balance(t) \in Int /\ Balance(t) <= MaxMem
  <1>1. total_mem[t] \in 0 .. SizeMax - 1 /\ SizeMax \in Nat /\ MaxMem \in Nat
    BY Limits DEF HeapTypes
  <1> QED BY <1>1 DEF Balance

LEMMA BalancesTyped ==
  ASSUME HeapTypes
  PROVE  Balances \in [1 .. ThreadCount -> Int] /\ \A k \in 1 .. ThreadCount : Balances[k] <= MaxMem
  <1>1. ASSUME NEW k \in 1 .. ThreadCount PROVE Balance(Numbering[k]) \in Int /\ Balance(Numbering[k]) <= MaxMem
    <2>1. Numbering[k] \in Threads
      BY ThreadsNumbered
    <2> QED BY <2>1, BalanceTyped
  <1> QED BY <1>1 DEF Balances

LEMMA HeldTyped ==
  ASSUME NEW heap \in Seq(HeapBlocks)
  PROVE  /\ Held(heap) \in [1 .. Len(heap) -> Nat] /\ Held(heap) \in [1 .. Len(heap) -> Int]
         /\ Len(heap) \in Nat
  <1>1. Len(heap) \in Nat /\ \A b \in 1 .. Len(heap) : heap[b] \in HeapBlocks
    OBVIOUS
  <1>2. \A b \in 1 .. Len(heap) : heap[b].len \in Nat
    BY <1>1 DEF HeapBlocks
  <1> QED BY <1>1, <1>2 DEF Held

LEMMA HeldBytesTyped ==
  ASSUME HeapTypes
  PROVE  HeldBytes \in Nat /\ \A b \in 1 .. Len(allocs) : allocs[b].live => allocs[b].len <= HeldBytes
  <1>1. HeldBytes \in Nat /\ \A b \in 1 .. Len(allocs) : Held(allocs)[b] <= HeldBytes
    BY HeldTyped, TotalOfNats DEF HeldBytes, BytesOf, HeapTypes
  <1> QED BY <1>1 DEF Held

\* The live blocks stay below the limit of all threads together.
LEMMA HeldAtMost ==
  ASSUME HeapInv
  PROVE  HeldBytes <= MaxMem * ThreadCount
  <1>1. Total(Balances, ThreadCount) <= MaxMem * ThreadCount
    BY BalancesTyped, TotalAtMost, ThreadsNumbered, Limits DEF HeapInv
  <1> QED BY <1>1 DEF HeapInv, Accounted

\* No thread can be further below zero than the others took.
LEMMA BalanceAtLeast ==
  ASSUME HeapInv, NEW t \in Threads
  PROVE  Balance(t) >= HeldBytes + MaxMem - MaxMem * ThreadCount
  <1>1. PICK i \in 1 .. ThreadCount : Numbering[i] = t
    BY ThreadsNumbered
  <1> DEFINE most == [Balances EXCEPT ![i] = MaxMem]
  <1>2. /\ Balances \in [1 .. ThreadCount -> Int] /\ \A k \in 1 .. ThreadCount : Balances[k] <= MaxMem
        /\ ThreadCount \in Nat /\ MaxMem \in Int /\ MaxMem * ThreadCount \in Int
        /\ HeldBytes \in Int /\ Balance(t) \in Int
    BY BalancesTyped, ThreadsNumbered, Limits, HeldBytesTyped, BalanceTyped DEF HeapInv
  <1>3. /\ most \in [1 .. ThreadCount -> Int] /\ \A k \in 1 .. ThreadCount : most[k] <= MaxMem
        /\ most[i] = MaxMem /\ \A k \in 1 .. ThreadCount : k # i => most[k] = Balances[k]
    BY <1>2
  <1> HIDE DEF most
  <1>4. Total(most, ThreadCount) = Total(Balances, ThreadCount) + most[i] - Balances[i]
    BY <1>2, <1>3, TotalChanges
  <1>5. Total(most, ThreadCount) <= MaxMem * ThreadCount
    BY <1>2, <1>3, TotalAtMost
  <1>6. Balances[i] = Balance(t)
    BY <1>1 DEF Balances
  <1>7. Total(Balances, ThreadCount) = HeldBytes
    BY DEF HeapInv, Accounted
  <1> QED BY <1>2, <1>3, <1>4, <1>5, <1>6, <1>7

\* The count of a thread is its balance, wrapped around below zero.
Wrapped(b) == IF b >= 0 THEN b ELSE b + SizeMax

LEMMA Wraps ==
  ASSUME NEW b \in Int, MaxMem - SizeMax < b, b <= MaxMem, MaxMem < SizeMax,
         NEW n \in Nat, \/ n = b
                        \/ n = b + SizeMax
                        \/ n = b + 2 * SizeMax
  PROVE  n % SizeMax = Wrapped(b)
  <1>1. SizeMax \in Nat \ {0} /\ MaxMem \in Nat
    BY Limits
  <1>2. Wrapped(b) \in 0 .. SizeMax - 1
    BY <1>1 DEF Wrapped
  <1>3. \E h \in {0, 1, 2} : n = h * SizeMax + Wrapped(b)
    <2>1. n = 0 * SizeMax + Wrapped(b) \/ n = 1 * SizeMax + Wrapped(b) \/ n = 2 * SizeMax + Wrapped(b)
      BY <1>1 DEF Wrapped
    <2> QED BY <2>1
  <1>4. PICK h \in {0, 1, 2} : n = h * SizeMax + Wrapped(b)
    BY <1>3
  <1>5. h \in Nat
    OBVIOUS
  <1> QED BY <1>1, <1>2, <1>4, <1>5, Quotient

LEMMA Unwraps ==
  ASSUME NEW t \in Threads, HeapTypes
  PROVE  total_mem[t] = Wrapped(Balance(t))
  <1>1. total_mem[t] \in 0 .. SizeMax - 1 /\ SizeMax \in Nat /\ MaxMem \in Nat
    BY Limits DEF HeapTypes
  <1> QED BY <1>1 DEF Wrapped, Balance

\* A thread takes or gives back d bytes, and the live blocks hold so many more or fewer.
LEMMA Moves ==
  ASSUME HeapInv, NEW t \in Threads, NEW d \in Int,
         Balance(t) + d <= MaxMem,
         HeldBytes' \in Nat, HeldBytes' = HeldBytes + d,
         total_mem' = [total_mem EXCEPT ![t] = Wrapped(Balance(t) + d)]
  PROVE  total_mem' \in [Threads -> 0 .. SizeMax - 1] /\ Accounted'
  <1>1. /\ SizeMax \in Nat /\ MaxMem \in Nat /\ MaxMem < SizeMax
        /\ MaxMem * ThreadCount \in Nat /\ MaxMem * ThreadCount < SizeMax
        /\ HeldBytes \in Nat /\ Balance(t) \in Int
    BY Limits, HeldBytesTyped, BalanceTyped DEF HeapInv
  <1>2. Balance(t) >= HeldBytes + MaxMem - MaxMem * ThreadCount
    BY BalanceAtLeast
  <1>3. MaxMem - SizeMax < Balance(t) + d
    BY <1>1, <1>2
  <1>4. Wrapped(Balance(t) + d) \in 0 .. SizeMax - 1
    BY <1>1, <1>3 DEF Wrapped
  <1>5. total_mem \in [Threads -> 0 .. SizeMax - 1]
    BY DEF HeapInv, HeapTypes
  <1>6. total_mem' \in [Threads -> 0 .. SizeMax - 1]
    BY <1>4, <1>5
  <1>7. total_mem'[t] = Wrapped(Balance(t) + d) /\ \A u \in Threads : u # t => total_mem'[u] = total_mem[u]
    BY <1>5
  <1>8. Balance(t)' = Balance(t) + d
    <2>1. Balance(t)' = IF total_mem'[t] <= MaxMem THEN total_mem'[t] ELSE total_mem'[t] - SizeMax
      BY DEF Balance
    <2> DEFINE b == Balance(t) + d
    <2>2. b \in Int /\ b <= MaxMem /\ MaxMem - SizeMax < b
      BY <1>1, <1>3
    <2>3. total_mem'[t] = IF b >= 0 THEN b ELSE b + SizeMax
      BY <1>7 DEF Wrapped
    <2> HIDE DEF b
    <2>4. (IF total_mem'[t] <= MaxMem THEN total_mem'[t] ELSE total_mem'[t] - SizeMax) = b
      BY <1>1, <2>2, <2>3
    <2> QED BY <2>1, <2>4 DEF b
  <1>9. \A u \in Threads : u # t => Balance(u)' = Balance(u)
    BY <1>7 DEF Balance
  <1>10. PICK i \in 1 .. ThreadCount : Numbering[i] = t
    BY ThreadsNumbered
  <1>11. /\ ThreadCount \in Nat /\ Numbering \in [1 .. ThreadCount -> Threads]
         /\ \A k \in 1 .. ThreadCount : Numbering[k] = t => k = i
    BY <1>10, ThreadsNumbered
  <1>12. Balances' = [k \in 1 .. ThreadCount |-> Balance(Numbering[k])']
    BY DEF Balances, ThreadCount, Numbering, Balance
  <1>13. Balances'[i] = Balances[i] + d /\ \A k \in 1 .. ThreadCount : k # i => Balances'[k] = Balances[k]
    BY <1>8, <1>9, <1>10, <1>11, <1>12 DEF Balances
  <1>14. Balances \in [1 .. ThreadCount -> Int] /\ Balances[i] \in Int
    BY BalancesTyped DEF HeapInv
  <1>15. \A k \in 1 .. ThreadCount : Balances'[k] \in Int
    BY <1>13, <1>14
  <1>16. Balances' \in [1 .. ThreadCount -> Int]
    BY <1>12, <1>15
  <1>17. Total(Balances', ThreadCount) = Total(Balances, ThreadCount) + Balances'[i] - Balances[i]
    BY <1>11, <1>13, <1>14, <1>16, TotalChanges
  <1>18. Total(Balances, ThreadCount) = HeldBytes
    BY DEF HeapInv, Accounted
  <1>19. Total(Balances', ThreadCount) = HeldBytes'
    BY <1>1, <1>13, <1>14, <1>17, <1>18
  <1>20. Accounted' <=> Total(Balances', ThreadCount) = HeldBytes'
    BY DEF Accounted, ThreadCount, Total
  <1> QED BY <1>6, <1>19, <1>20

-----------------------------------------------------------------------------
\* What the limit leaves is counted without wrapping around.
LEMMA Granted ==
  ASSUME HeapTypes, NEW t \in Threads, NEW len \in 0 .. SizeMax - 1, ~Refused(t, len)
  PROVE  /\ len <= MaxMem /\ total_mem[t] + len <= MaxMem
         /\ Balance(t) = total_mem[t] /\ (total_mem[t] + len) % SizeMax = total_mem[t] + len
  <1>1. total_mem[t] \in 0 .. SizeMax - 1 /\ SizeMax \in Nat \ {0} /\ MaxMem \in Nat
    BY Limits DEF HeapTypes
  <1> DEFINE n == total_mem[t] + len
  <1>2. n % SizeMax <= MaxMem /\ n % SizeMax >= total_mem[t]
    <2>1. n % SizeMax \in Int
      BY <1>1, Division
    <2> QED BY <1>1, <2>1 DEF Refused
  <1>3. CASE n < SizeMax
    <2>1. n \in Nat /\ n \in 0 .. SizeMax - 1 /\ n = 0 * SizeMax + n
      BY <1>1, <1>3
    <2> HIDE DEF n
    <2>2. n % SizeMax = n
      BY <1>1, <2>1, Quotient
    <2> QED BY <1>1, <1>2, <2>2 DEF Balance, n
  <1>4. CASE n >= SizeMax
    <2>1. n \in Nat /\ n - SizeMax \in 0 .. SizeMax - 1 /\ n = 1 * SizeMax + (n - SizeMax)
      BY <1>1, <1>4
    <2>2. n % SizeMax = n - SizeMax
      <3> HIDE DEF n
      <3> QED BY <1>1, <2>1, Quotient
    <2> QED BY <1>1, <1>2, <2>2
  <1> QED BY <1>1, <1>3, <1>4

\* A blk is given so many pages that it fits below the last one with its header.
LEMMA BlockPlaced ==
  ASSUME NEW len \in Nat, len <= MaxMem, NEW data \in Seq(Contents), NEW want \in Seq(Contents),
         data = want, Len(want) = len
  PROVE  /\ NewBlock(len, data, want) \in HeapBlocks /\ Sound(NewBlock(len, data, want))
         /\ NewBlock(len, data, want).live /\ NewBlock(len, data, want).len = len
  <1>1. Page \in Nat \ {0} /\ Header \in Nat
    BY Limits
  <1> DEFINE m == len + Header + Page - 1
             pages == m \div Page
             start == Page * pages - len
  <1>2. m \in Nat
    BY <1>1
  <1>3. pages \in Nat /\ m % Page \in 0 .. Page - 1 /\ m = pages * Page + (m % Page)
    <2> HIDE DEF m
    <2> QED BY <1>1, <1>2, Division
  <1>4. PgCount(len + Header) = pages
    BY <1>1 DEF PgCount
  <1>5. Page * pages = pages * Page /\ pages * Page \in Nat /\ pages * Page >= len + Header
    <2> HIDE DEF pages
    <2>1. Page * pages = pages * Page /\ pages * Page \in Nat
      BY <1>1, <1>3
    <2> QED BY <1>1, <1>3, <2>1
  <1>6. start \in Int /\ start >= Header /\ start + len = pages * Page
    <2> HIDE DEF pages
    <2> QED BY <1>1, <1>5
  <1>7. (pages * Page) % Page = 0
    <2> HIDE DEF pages
    <2>1. 0 \in 0 .. Page - 1 /\ pages * Page = pages * Page + 0
      BY <1>1, <1>5
    <2>2. pages * Page \in Nat /\ Page \in Nat \ {0} /\ pages \in Nat
      BY <1>1, <1>3, <1>5
    <2> QED BY ONLY <2>1, <2>2, Quotient
  <1>8. NewBlock(len, data, want) = [start |-> start, len |-> len, data |-> data, live |-> TRUE, want |-> want]
    BY <1>4 DEF NewBlock
  <1> HIDE DEF start
  <1> QED BY <1>6, <1>7, <1>8 DEF HeapBlocks, Sound

\* One more blk.
LEMMA OneMore ==
  ASSUME NEW heap \in Seq(HeapBlocks), AllSound(heap), NEW blk \in HeapBlocks, Sound(blk), blk.live
  PROVE  /\ Append(heap, blk) \in Seq(HeapBlocks) /\ AllSound(Append(heap, blk))
         /\ BytesOf(Append(heap, blk)) = BytesOf(heap) + blk.len
  <1> DEFINE longer == Append(heap, blk)
             n == Len(heap)
             f == Held(heap)
             g == Held(longer)
  <1>1. n \in Nat /\ f \in [1 .. n -> Int]
    BY HeldTyped
  <1>2. /\ longer \in Seq(HeapBlocks) /\ Len(longer) = n + 1
        /\ \A b \in 1 .. n : longer[b] = heap[b]
        /\ longer[n + 1] = blk
    BY AppendProperties
  <1> HIDE DEF longer, n
  <1>3. AllSound(longer)
    <2> SUFFICES ASSUME NEW b \in 1 .. n + 1 PROVE Sound(longer[b])
      BY <1>2 DEF AllSound
    <2>1. CASE b = n + 1
      BY <1>2, <2>1
    <2>2. CASE b # n + 1
      <3>1. b \in 1 .. n
        BY <1>1, <2>2
      <3> QED BY <1>2, <3>1 DEF AllSound, n
    <2> QED BY <2>1, <2>2
  <1>4. g \in [1 .. n + 1 -> Int]
    BY <1>2, HeldTyped
  <1>5. \A b \in 1 .. n : g[b] = f[b]
    BY <1>1, <1>2 DEF Held, n
  <1>6. g[n + 1] = blk.len
    BY <1>1, <1>2 DEF Held
  <1> HIDE DEF f, g
  <1>7. Total(g, n + 1) = Total(f, n) + g[n + 1]
    BY <1>1, <1>4, <1>5, TotalGrows
  <1>8. BytesOf(longer) = Total(g, n + 1) /\ BytesOf(heap) = Total(f, n)
    BY <1>2 DEF BytesOf, f, g, n
  <1>9. longer \in Seq(HeapBlocks) /\ AllSound(longer) /\ BytesOf(longer) = BytesOf(heap) + blk.len
    BY <1>2, <1>3, <1>6, <1>7, <1>8
  <1> QED BY <1>9 DEF longer

\* One blk less.
LEMMA OneLess ==
  ASSUME NEW heap \in Seq(HeapBlocks), AllSound(heap), NEW i \in 1 .. Len(heap), heap[i].live,
         NEW fewer, fewer = [heap EXCEPT ![i] = [heap[i] EXCEPT !.live = FALSE]]
  PROVE  fewer \in Seq(HeapBlocks) /\ AllSound(fewer) /\ BytesOf(fewer) = BytesOf(heap) - heap[i].len
  <1> DEFINE n == Len(heap)
             f == Held(heap)
             g == Held(fewer)
             freed == [heap[i] EXCEPT !.live = FALSE]
  <1>1. n \in Nat /\ f \in [1 .. n -> Int] /\ heap[i] \in HeapBlocks /\ i \in 1 .. n
    BY HeldTyped
  <1>2. freed \in HeapBlocks /\ freed.live = FALSE /\ (Sound(heap[i]) => Sound(freed))
    BY <1>1 DEF HeapBlocks, Sound
  <1>3. fewer = [heap EXCEPT ![i] = freed]
    OBVIOUS
  <1> HIDE DEF freed
  <1>4. /\ fewer \in Seq(HeapBlocks) /\ Len(fewer) = n /\ fewer[i] = freed
        /\ \A c \in 1 .. n : c # i => fewer[c] = heap[c]
    <2> HIDE DEF g
    <2>1. /\ [heap EXCEPT ![i] = freed] \in Seq(HeapBlocks)
          /\ Len([heap EXCEPT ![i] = freed]) = Len(heap)
          /\ \A c \in 1 .. Len(heap) : [heap EXCEPT ![i] = freed][c] = IF c = i THEN freed ELSE heap[c]
      BY <1>2, ExceptSeq
    <2> QED BY <1>1, <1>3, <2>1
  <1>5. AllSound(fewer)
    BY <1>1, <1>2, <1>4 DEF AllSound
  <1>6. g \in [1 .. n -> Int]
    BY <1>4, HeldTyped
  <1>7. \A c \in 1 .. n : c # i => g[c] = f[c]
    BY <1>4 DEF Held
  <1>8. g[i] = 0 /\ f[i] = heap[i].len
    BY <1>1, <1>2, <1>4 DEF Held
  <1>9. BytesOf(fewer) = Total(g, n) /\ BytesOf(heap) = Total(f, n)
    BY <1>4 DEF BytesOf
  <1> HIDE DEF n, f, g
  <1>10. Total(g, n) = Total(f, n) + g[i] - f[i]
    BY <1>1, <1>6, <1>7, TotalChanges
  <1>11. Total(f, n) \in Int /\ f[i] \in Int
    BY <1>1, TotalIsInt
  <1> QED BY <1>4, <1>5, <1>8, <1>9, <1>10, <1>11

-----------------------------------------------------------------------------
\* What a step that gets memory keeps.
LEMMA MemoryTaken ==
  ASSUME HeapInv, NEW t \in Threads, NEW blk \in HeapBlocks, Sound(blk), blk.live,
         blk.len \in 0 .. SizeMax - 1, ~Refused(t, blk.len), Take(t, blk)
  PROVE  allocs' \in Seq(HeapBlocks) /\ AllSound(allocs)' /\ total_mem' \in [Threads -> 0 .. SizeMax - 1] /\ Accounted'
  <1>1. allocs \in Seq(HeapBlocks) /\ AllSound(allocs) /\ HeapTypes /\ allocs' = Append(allocs, blk)
    BY DEF HeapInv, HeapTypes, Take
  <1>2. /\ Append(allocs, blk) \in Seq(HeapBlocks) /\ AllSound(Append(allocs, blk))
        /\ BytesOf(Append(allocs, blk)) = BytesOf(allocs) + blk.len
    BY <1>1, OneMore
  <1>3. AllSound(allocs)' /\ HeldBytes' = HeldBytes + blk.len
    <2>1. AllSound(allocs)' <=> AllSound(Append(allocs, blk))
      BY <1>1 DEF AllSound, Sound
    <2>2. HeldBytes' = BytesOf(Append(allocs, blk))
      BY <1>1 DEF HeldBytes, BytesOf, Total, Held
    <2> QED BY <1>2, <2>1, <2>2 DEF HeldBytes
  <1>4. /\ total_mem[t] + blk.len <= MaxMem
        /\ Balance(t) = total_mem[t] /\ (total_mem[t] + blk.len) % SizeMax = total_mem[t] + blk.len
    BY <1>1, Granted
  <1>5. HeldBytes \in Nat /\ blk.len \in Nat /\ total_mem[t] \in Nat /\ total_mem \in [Threads -> 0 .. SizeMax - 1]
    BY <1>1, HeldBytesTyped, Limits DEF HeapBlocks, HeapTypes
  <1>6. total_mem' = [total_mem EXCEPT ![t] = Wrapped(Balance(t) + blk.len)]
    <2>1. total_mem' = [total_mem EXCEPT ![t] = (total_mem[t] + blk.len) % SizeMax]
      BY <1>5 DEF Take
    <2>2. Wrapped(Balance(t) + blk.len) = total_mem[t] + blk.len
      BY <1>4, <1>5 DEF Wrapped
    <2> QED BY <1>4, <2>1, <2>2
  <1>7. total_mem' \in [Threads -> 0 .. SizeMax - 1] /\ Accounted'
    <2>1. Balance(t) + blk.len <= MaxMem /\ HeldBytes' \in Nat /\ blk.len \in Int
      BY <1>3, <1>4, <1>5
    <2> QED BY <1>3, <1>6, <2>1, Moves
  <1> QED BY <1>1, <1>2, <1>3, <1>7

\* A step that touches neither blocks nor counts.
LEMMA HeapStays ==
  ASSUME HeapInv, allocs' = allocs, total_mem' = total_mem, heap_state' \in {"ok", "abort", "segfault"}
  PROVE  HeapInv'
  <1>1. HeapTypes'
    BY DEF HeapInv, HeapTypes
  <1>2. AllSound(allocs)'
    BY DEF HeapInv, AllSound, Sound
  <1>3. Accounted'
    BY DEF HeapInv, Accounted, HeldBytes, BytesOf, Held, Total, Balances, Balance, ThreadCount, Numbering
  <1> QED BY <1>1, <1>2, <1>3 DEF HeapInv

\* What the bytes of a blk can be.
LEMMA Filled ==
  ASSUME NEW n \in Nat, NEW x \in Contents
  PROVE  Fill(n, x) \in Seq(Contents) /\ Len(Fill(n, x)) = n
  BY DEF Fill

LEMMA MallocKeeps ==
  ASSUME HeapInv, NEW t \in Threads, Malloc(t)
  PROVE  HeapInv'
  <1>1. PICK len \in Lengths : /\ ~Refused(t, len)
                               /\ Take(t, NewBlock(len, Fill(len, "clobber"), Fill(len, "clobber")))
    BY DEF Malloc
  <1>2. len \in 0 .. SizeMax - 1 /\ SizeMax \in Nat
    BY DislocatorAssumption
  <1>3. len <= MaxMem
    BY <1>1, <1>2, Granted DEF HeapInv
  <1> DEFINE fill == Fill(len, "clobber")
             blk == NewBlock(len, fill, fill)
  <1>4. fill \in Seq(Contents) /\ Len(fill) = len
    BY <1>2, Filled DEF Contents
  <1>5. blk \in HeapBlocks /\ Sound(blk) /\ blk.live /\ blk.len = len
    BY <1>2, <1>3, <1>4, BlockPlaced
  <1>6. Take(t, blk)
    BY <1>1
  <1> HIDE DEF blk
  <1>7. allocs' \in Seq(HeapBlocks) /\ AllSound(allocs)' /\ total_mem' \in [Threads -> 0 .. SizeMax - 1] /\ Accounted'
    BY <1>1, <1>2, <1>5, <1>6, MemoryTaken
  <1>8. heap_state' = heap_state
    BY DEF Malloc
  <1> QED BY <1>7, <1>8 DEF HeapInv, HeapTypes

\* A product that is divided by a factor to give the other did not wrap around.
LEMMA NoOverflow ==
  ASSUME NEW e \in Nat, NEW c \in Nat, ~Overflows(e, c), SizeMax \in Nat \ {0}
  PROVE  (e * c) % SizeMax = e * c
  <1> DEFINE p == e * c
             r == p % SizeMax
  <1>1. p \in Nat
    OBVIOUS
  <1>2. r \in Nat /\ r < SizeMax /\ p = (p \div SizeMax) * SizeMax + r /\ (p \div SizeMax) \in Nat
    <2> HIDE DEF p
    <2>1. p \div SizeMax \in Nat /\ p % SizeMax \in 0 .. SizeMax - 1 /\ p = (p \div SizeMax) * SizeMax + (p % SizeMax)
      BY <1>1, Division
    <2> QED BY <2>1
  <1>3. r <= p
    <2> HIDE DEF p, r
    <2> DEFINE h == p \div SizeMax
    <2>1. h \in Nat /\ p = h * SizeMax + r
      BY <1>2
    <2> HIDE DEF h
    <2>2. h * SizeMax \in Nat
      BY <2>1
    <2> QED BY <1>2, <2>1, <2>2
  <1>4. CASE c = 0
    <2>1. p = 0
      BY <1>4
    <2> QED BY <1>2, <1>3, <2>1
  <1>5. CASE c # 0
    <2>1. r \div c = e
      BY <1>5 DEF Overflows
    <2>2. r = (r \div c) * c + (r % c) /\ r % c \in Nat
      <3>1. c \in Nat \ {0} /\ r \in Nat
        BY <1>2, <1>5
      <3> HIDE DEF r
      <3> QED BY <3>1, Division
    <2>3. r = p + (r % c)
      BY <2>1, <2>2
    <2> HIDE DEF p, r
    <2>4. r >= p
      BY <1>1, <1>2, <2>2, <2>3
    <2> QED BY <1>1, <1>2, <1>3, <2>4 DEF p, r
  <1> QED BY <1>4, <1>5

LEMMA CallocKeeps ==
  ASSUME HeapInv, NEW t \in Threads, Calloc(t)
  PROVE  HeapInv'
  <1>1. PICK e \in Lengths, c \in Lengths :
          LET len == (e * c) % SizeMax IN
          IF Overflows(e, c)
            THEN /\ heap_state' \in {"ok", "abort"}
                 /\ UNCHANGED <<allocs, total_mem>>
            ELSE /\ ~Refused(t, len)
                 /\ Take(t, NewBlock(len, Fill(len, "zero"), Fill(e * c, "zero")))
                 /\ UNCHANGED heap_state
    BY DEF Calloc
  <1>2. CASE Overflows(e, c)
    <2>1. heap_state' \in {"ok", "abort"} /\ UNCHANGED <<allocs, total_mem>>
      BY <1>1, <1>2
    <2> QED BY <2>1, HeapStays
  <1>3. CASE ~Overflows(e, c)
    <2>1. e \in 0 .. SizeMax - 1 /\ c \in 0 .. SizeMax - 1 /\ SizeMax \in Nat
      BY DislocatorAssumption
    <2> DEFINE len == e * c
    <2>2. len \in Nat /\ SizeMax \in Nat \ {0}
      BY <2>1
    <2>3. (e * c) % SizeMax = len /\ len \in 0 .. SizeMax - 1
      <3>1. (e * c) % SizeMax = e * c
        BY <1>3, <2>1, <2>2, NoOverflow
      <3>2. (e * c) % SizeMax < SizeMax
        <4> HIDE DEF len
        <4>1. len % SizeMax < SizeMax
          BY <2>2, Division
        <4> QED BY <4>1 DEF len
      <3> QED BY <2>2, <3>1, <3>2
    <2>4. ~Refused(t, len) /\ Take(t, NewBlock(len, Fill(len, "zero"), Fill(len, "zero"))) /\ heap_state' = heap_state
      BY <1>1, <1>3, <2>3
    <2> HIDE DEF len
    <2>5. len <= MaxMem
      BY <2>3, <2>4, Granted DEF HeapInv
    <2> DEFINE fill == Fill(len, "zero")
               blk == NewBlock(len, fill, fill)
    <2>6. fill \in Seq(Contents) /\ Len(fill) = len
      BY <2>2, Filled DEF Contents
    <2>7. blk \in HeapBlocks /\ Sound(blk) /\ blk.live /\ blk.len = len
      BY <2>2, <2>5, <2>6, BlockPlaced
    <2>8. Take(t, blk)
      BY <2>4
    <2> HIDE DEF blk
    <2>9. allocs' \in Seq(HeapBlocks) /\ AllSound(allocs)' /\ total_mem' \in [Threads -> 0 .. SizeMax - 1] /\ Accounted'
      BY <2>3, <2>4, <2>7, <2>8, MemoryTaken
    <2> QED BY <2>4, <2>9 DEF HeapInv, HeapTypes
  <1> QED BY <1>2, <1>3

\* What a thread gives back is counted without passing the other end of a size_t.
LEMMA GivenBack ==
  ASSUME HeapInv, NEW t \in Threads, NEW d \in Int, HeldBytes + d >= 0, 0 - MaxMem <= d, Balance(t) + d <= MaxMem,
         HeldBytes' = HeldBytes + d,
         total_mem' = [total_mem EXCEPT ![t] = (total_mem[t] + SizeMax + d) % SizeMax]
  PROVE  total_mem' \in [Threads -> 0 .. SizeMax - 1] /\ Accounted'
  <1>1. /\ SizeMax \in Nat /\ MaxMem \in Nat /\ MaxMem < SizeMax
        /\ MaxMem * ThreadCount \in Nat /\ MaxMem * ThreadCount < SizeMax
        /\ HeldBytes \in Nat /\ Balance(t) \in Int
    BY Limits, HeldBytesTyped, BalanceTyped DEF HeapInv
  <1>2. Balance(t) >= HeldBytes + MaxMem - MaxMem * ThreadCount
    BY BalanceAtLeast
  <1> DEFINE b == Balance(t) + d
             n == total_mem[t] + SizeMax + d
  <1>3. b \in Int /\ MaxMem - SizeMax < b /\ b <= MaxMem
    BY <1>1, <1>2
  <1>4. total_mem[t] \in 0 .. SizeMax - 1
    BY DEF HeapInv, HeapTypes
  <1>5. total_mem[t] = Balance(t) \/ total_mem[t] = Balance(t) + SizeMax
    BY <1>1, <1>4 DEF Balance
  <1>6. n \in Nat /\ (n = b + SizeMax \/ n = b + 2 * SizeMax)
    BY <1>1, <1>4, <1>5
  <1>7. n % SizeMax = Wrapped(b)
    <2> HIDE DEF n, b
    <2> QED BY <1>1, <1>3, <1>6, Wraps
  <1>8. total_mem' = [total_mem EXCEPT ![t] = Wrapped(Balance(t) + d)]
    BY <1>7
  <1>9. HeldBytes' \in Nat
    BY <1>1
  <1> HIDE DEF b, n
  <1> QED BY <1>8, <1>9, Moves

LEMMA FreeKeeps ==
  ASSUME HeapInv, NEW t \in Threads, Free(t)
  PROVE  HeapInv'
  <1>1. PICK b \in 1 .. Len(allocs) :
          IF allocs[b].live
            THEN /\ allocs' = Protected(b)
                 /\ total_mem' = [total_mem EXCEPT ![t] = (@ + SizeMax - allocs[b].len) % SizeMax]
                 /\ UNCHANGED heap_state
            ELSE heap_state' = "segfault" /\ UNCHANGED <<allocs, total_mem>>
    BY DEF Free
  <1>2. CASE ~allocs[b].live
    <2>1. heap_state' = "segfault" /\ UNCHANGED <<allocs, total_mem>>
      BY <1>1, <1>2
    <2> QED BY <2>1, HeapStays
  <1>3. CASE allocs[b].live
    <2> DEFINE len == allocs[b].len
    <2>1. /\ allocs \in Seq(HeapBlocks) /\ AllSound(allocs) /\ HeapTypes /\ total_mem \in [Threads -> 0 .. SizeMax - 1]
          /\ allocs[b] \in HeapBlocks /\ Sound(allocs[b])
      BY DEF HeapInv, HeapTypes, AllSound
    <2>2. /\ SizeMax \in Nat /\ MaxMem \in Nat /\ len \in Nat /\ len <= MaxMem /\ HeldBytes \in Nat /\ len <= HeldBytes
          /\ Balance(t) \in Int /\ Balance(t) <= MaxMem
      BY <1>3, <2>1, Limits, HeldBytesTyped, BalanceTyped DEF HeapBlocks, Sound
    <2>3. allocs' = [allocs EXCEPT ![b] = [allocs[b] EXCEPT !.live = FALSE]]
      BY <1>1, <1>3 DEF Protected
    <2>4. allocs' \in Seq(HeapBlocks) /\ AllSound(allocs') /\ BytesOf(allocs') = BytesOf(allocs) - allocs[b].len
      BY <1>3, <2>1, <2>3, OneLess
    <2>5. AllSound(allocs)' /\ HeldBytes' = HeldBytes - len
      BY <2>4 DEF AllSound, Sound, HeldBytes, BytesOf, Total, Held
    <2>6. total_mem' = [total_mem EXCEPT ![t] = (total_mem[t] + SizeMax - len) % SizeMax] /\ heap_state' = heap_state
      BY <1>1, <1>3, <2>1
    <2> HIDE DEF len
    <2> DEFINE d == 0 - len
    <2>7. total_mem[t] \in Nat
      BY <2>1, <2>2
    <2>8. total_mem[t] + SizeMax - len = total_mem[t] + SizeMax + d
      BY <2>2, <2>7
    <2>9. /\ d \in Int /\ HeldBytes + d >= 0 /\ 0 - MaxMem <= d /\ Balance(t) + d <= MaxMem
          /\ HeldBytes' = HeldBytes + d
      BY <2>2, <2>5
    <2>10. total_mem' = [total_mem EXCEPT ![t] = (total_mem[t] + SizeMax + d) % SizeMax]
      BY <2>6, <2>8
    <2> HIDE DEF d
    <2>11. total_mem' \in [Threads -> 0 .. SizeMax - 1] /\ Accounted'
      BY <2>9, <2>10, GivenBack
    <2> QED BY <2>4, <2>5, <2>6, <2>11 DEF HeapInv, HeapTypes
  <1> QED BY <1>2, <1>3

\* The bytes of the old blk that the new one takes over, and clobber behind them.
LEMMA CopiedOver ==
  ASSUME NEW old \in HeapBlocks, Sound(old), NEW len \in Nat, NEW n \in Nat, n = Copied(len, old.len)
  PROVE  LET data == SubSeq(old.data, 1, n) \o Fill(len - n, "clobber")
             want == [k \in 1 .. len |-> IF k <= Len(old.want) THEN old.want[k] ELSE "clobber"]
         IN  data = want /\ want \in Seq(Contents) /\ Len(want) = len
  <1> DEFINE want == [k \in 1 .. len |-> IF k <= Len(old.want) THEN old.want[k] ELSE "clobber"]
             bytes == old.want
             front == SubSeq(bytes, 1, n)
             back == Fill(len - n, "clobber")
  <1>1. bytes \in Seq(Contents) /\ old.data = bytes /\ Len(bytes) = old.len /\ old.len \in Nat
    BY DEF HeapBlocks, Sound
  <1>2. n <= len /\ n <= Len(bytes) /\ (n = len \/ n = Len(bytes)) /\ Len(bytes) \in Nat
    BY <1>1 DEF Copied, Shorter
  <1>3. \A k \in 1 .. Len(bytes) : bytes[k] \in Contents
    BY <1>1
  <1>4. want \in Seq(Contents) /\ Len(want) = len /\ want = [k \in 1 .. len |-> want[k]]
    <2>1. \A k \in 1 .. len : want[k] \in Contents
      BY <1>2, <1>3 DEF Contents
    <2>2. want \in [1 .. len -> Contents]
      BY <2>1
    <2> HIDE DEF want
    <2>3. want \in Seq(Contents)
      BY <2>2, SeqDef
    <2>4. Len(want) = len
      BY <2>2, <2>3, LenProperties
    <2> QED BY <2>2, <2>3, <2>4
  <1>5. /\ front \in Seq(Contents) /\ Len(front) = n /\ \A k \in 1 .. n : front[k] = bytes[k]
    <2> HIDE DEF bytes
    <2>1. n \in 0 .. Len(bytes) /\ (n # 0 => 1 \in 1 .. Len(bytes) /\ n \in 1 .. Len(bytes))
      BY <1>2
    <2>2. front \in Seq(Contents) /\ Len(front) = n
      BY <1>1, <1>2, <2>1, SubSeqProperties
    <2>3. \A k \in 1 .. n : front[k] = bytes[k]
      BY <1>1, <1>2, <2>1, SubSeqProperties
    <2> QED BY <2>2, <2>3
  <1>6. back \in Seq(Contents) /\ Len(back) = len - n /\ \A k \in 1 .. len - n : back[k] = "clobber"
    <2>1. len - n \in Nat
      BY <1>2
    <2> QED BY <2>1, Filled DEF Fill, Contents
  <1> HIDE DEF front, back
  <1>7. /\ front \o back \in Seq(Contents) /\ Len(front \o back) = n + (len - n)
        /\ \A k \in 1 .. n + (len - n) : (front \o back)[k] = IF k <= n THEN front[k] ELSE back[k - n]
    <2>1. /\ front \o back \in Seq(Contents) /\ Len(front \o back) = Len(front) + Len(back)
          /\ \A k \in 1 .. Len(front) + Len(back) :
               (front \o back)[k] = IF k <= Len(front) THEN front[k] ELSE back[k - Len(front)]
      BY <1>5, <1>6, ConcatProperties
    <2> QED BY <1>5, <1>6, <2>1
  <1>8. n + (len - n) = len
    BY <1>2
  <1>9. ASSUME NEW k \in 1 .. len PROVE (front \o back)[k] = want[k]
    <2>1. CASE k <= n
      <3>1. k \in 1 .. n /\ k <= Len(bytes)
        BY <1>2, <2>1
      <3>2. (front \o back)[k] = front[k]
        BY <1>7, <1>8, <2>1
      <3> HIDE DEF bytes
      <3>3. front[k] = bytes[k]
        BY <1>5, <3>1
      <3> QED BY <3>1, <3>2, <3>3 DEF bytes
    <2>2. CASE k > n
      <3>1. k - n \in 1 .. len - n /\ ~(k <= Len(bytes)) /\ ~(k <= n)
        BY <1>2, <2>2
      <3> HIDE DEF bytes
      <3>2. (front \o back)[k] = "clobber"
        BY <1>6, <1>7, <1>8, <3>1
      <3> QED BY <3>1, <3>2 DEF bytes
    <2>3. k <= n \/ k > n
      OBVIOUS
    <2> HIDE DEF want
    <2> QED BY <2>1, <2>2, <2>3
  <1> HIDE DEF want
  <1>10. front \o back = want
    BY <1>4, <1>7, <1>8, <1>9, SeqEqual
  <1>11. SubSeq(old.data, 1, n) \o Fill(len - n, "clobber") = front \o back
    BY <1>1 DEF front, back
  <1> QED BY <1>4, <1>10, <1>11 DEF want

LEMMA ReallocKeeps ==
  ASSUME HeapInv, NEW t \in Threads, Realloc(t)
  PROVE  HeapInv'
  <1>1. PICK b \in 1 .. Len(allocs), len \in Lengths :
          LET old == allocs[b]
              n == Copied(len, old.len) IN
          /\ ~Refused(t, len)
          /\ IF old.live /\ n <= old.len
               THEN /\ allocs' = Append(Protected(b),
                         NewBlock(len, SubSeq(old.data, 1, n) \o Fill(len - n, "clobber"),
                                  [k \in 1 .. len |-> IF k <= Len(old.want) THEN old.want[k] ELSE "clobber"]))
                    /\ total_mem' = [total_mem EXCEPT ![t] = (@ + SizeMax + len - old.len) % SizeMax]
                    /\ UNCHANGED heap_state
               ELSE /\ heap_state' = IF old.live THEN "overrun" ELSE "segfault"
                    /\ Take(t, NewBlock(len, Fill(len, "clobber"), Fill(len, "clobber")))
    BY DEF Realloc
  <1> DEFINE old == allocs[b]
             n == Copied(len, old.len)
  <1>2. /\ allocs \in Seq(HeapBlocks) /\ AllSound(allocs) /\ HeapTypes /\ total_mem \in [Threads -> 0 .. SizeMax - 1]
        /\ old \in HeapBlocks /\ Sound(old)
    BY DEF HeapInv, HeapTypes, AllSound
  <1>3. len \in 0 .. SizeMax - 1 /\ SizeMax \in Nat /\ MaxMem \in Nat
    BY DislocatorAssumption
  <1>4. len \in Nat /\ old.len \in Nat /\ old.len <= MaxMem
    <2>1. old.len \in Nat /\ old.len <= MaxMem
      <3> HIDE DEF old
      <3> QED BY <1>2 DEF HeapBlocks, Sound
    <2> QED BY <1>3, <2>1
  <1>5. n \in Nat /\ n <= old.len
    BY <1>4 DEF Copied, Shorter
  <1>6. ~Refused(t, len)
    BY <1>1
  <1>7. len <= MaxMem /\ total_mem[t] + len <= MaxMem /\ Balance(t) = total_mem[t]
    BY <1>2, <1>3, <1>6, Granted
  <1>8. CASE ~old.live
    <2> DEFINE fill == Fill(len, "clobber")
               blk == NewBlock(len, fill, fill)
    <2>1. fill \in Seq(Contents) /\ Len(fill) = len
      BY <1>4, Filled DEF Contents
    <2>2. blk \in HeapBlocks /\ Sound(blk) /\ blk.live /\ blk.len = len
      BY <1>4, <1>7, <2>1, BlockPlaced
    <2>3. Take(t, blk) /\ heap_state' = "segfault"
      BY <1>1, <1>8
    <2> HIDE DEF blk
    <2>4. allocs' \in Seq(HeapBlocks) /\ AllSound(allocs)' /\ total_mem' \in [Threads -> 0 .. SizeMax - 1] /\ Accounted'
      BY <1>3, <1>6, <2>2, <2>3, MemoryTaken
    <2> QED BY <2>3, <2>4 DEF HeapInv, HeapTypes
  <1>9. CASE old.live
    <2> DEFINE data == SubSeq(old.data, 1, n) \o Fill(len - n, "clobber")
               want == [k \in 1 .. len |-> IF k <= Len(old.want) THEN old.want[k] ELSE "clobber"]
               blk == NewBlock(len, data, want)
               fewer == [allocs EXCEPT ![b] = [allocs[b] EXCEPT !.live = FALSE]]
    <2>1. data = want /\ want \in Seq(Contents) /\ Len(want) = len
      <3> HIDE DEF old, n
      <3>1. n = Copied(len, old.len)
        BY DEF n
      <3> QED BY <1>2, <1>4, <1>5, <3>1, CopiedOver
    <2>2. /\ allocs' = Append(Protected(b), blk)
          /\ total_mem' = [total_mem EXCEPT ![t] = (total_mem[t] + SizeMax + len - old.len) % SizeMax]
          /\ heap_state' = heap_state
      BY <1>1, <1>2, <1>5, <1>9
    <2>3. Protected(b) = fewer
      BY DEF Protected
    <2> HIDE DEF data, want, n
    <2>4. blk \in HeapBlocks /\ Sound(blk) /\ blk.live /\ blk.len = len
      BY <1>4, <1>7, <2>1, BlockPlaced
    <2>5. fewer \in Seq(HeapBlocks) /\ AllSound(fewer) /\ BytesOf(fewer) = BytesOf(allocs) - allocs[b].len
      <3> HIDE DEF blk
      <3> QED BY <1>2, <1>9, OneLess
    <2>6. allocs' = Append(fewer, blk)
      BY <2>2, <2>3
    <2> HIDE DEF blk, fewer
    <2>7. allocs' \in Seq(HeapBlocks) /\ AllSound(allocs') /\ BytesOf(allocs') = BytesOf(fewer) + len
      BY <2>4, <2>5, <2>6, OneMore
    <2>8. /\ HeldBytes \in Nat /\ old.len <= HeldBytes /\ Balance(t) \in Int
          /\ total_mem[t] \in Nat
      BY <1>2, <1>3, <1>9, HeldBytesTyped, BalanceTyped
    <2> DEFINE d == len - old.len
    <2>9. BytesOf(allocs') = HeldBytes + d
      <3>1. BytesOf(allocs') = HeldBytes - old.len + len
        BY <2>5, <2>7 DEF HeldBytes
      <3> HIDE DEF old
      <3> QED BY <1>4, <2>8, <3>1
    <2>10. AllSound(allocs)' /\ HeldBytes' = HeldBytes + d
      BY <2>7, <2>9 DEF AllSound, Sound, HeldBytes, BytesOf, Total, Held
    <2>11. total_mem' = [total_mem EXCEPT ![t] = (total_mem[t] + SizeMax + d) % SizeMax]
      <3>1. total_mem[t] + SizeMax + len - old.len = total_mem[t] + SizeMax + d
        <4> HIDE DEF old
        <4> QED BY <1>3, <1>4, <2>8
      <3> QED BY <2>2, <3>1
    <2>12. d \in Int /\ HeldBytes + d >= 0 /\ 0 - MaxMem <= d /\ Balance(t) + d <= MaxMem
      <3> HIDE DEF old
      <3> QED BY <1>3, <1>4, <1>7, <2>8
    <2> HIDE DEF d, old
    <2>13. total_mem' \in [Threads -> 0 .. SizeMax - 1] /\ Accounted'
      BY <2>10, <2>11, <2>12, GivenBack
    <2> QED BY <2>2, <2>7, <2>10, <2>13 DEF HeapInv, HeapTypes
  <1> QED BY <1>8, <1>9

LEMMA StoreKeeps ==
  ASSUME HeapInv, NEW t \in Threads, Store(t)
  PROVE  HeapInv'
  <1>1. PICK b \in Live :
          /\ IF Len(allocs[b].want) <= allocs[b].len
               THEN /\ allocs' = [allocs EXCEPT ![b].data = Fill(Len(allocs[b].want), "stored"),
                                                ![b].want = Fill(Len(allocs[b].want), "stored")]
                    /\ UNCHANGED heap_state
               ELSE heap_state' = "overrun" /\ UNCHANGED allocs
          /\ UNCHANGED total_mem
    BY DEF Store
  <1>2. /\ allocs \in Seq(HeapBlocks) /\ AllSound(allocs) /\ b \in 1 .. Len(allocs) /\ Len(allocs) \in Nat
        /\ allocs[b] \in HeapBlocks /\ Sound(allocs[b])
    BY DEF HeapInv, HeapTypes, AllSound, Live
  <1>3. Len(allocs[b].want) = allocs[b].len /\ allocs[b].len \in Nat
    BY <1>2 DEF HeapBlocks, Sound
  <1> DEFINE fill == Fill(Len(allocs[b].want), "stored")
             blk == [allocs[b] EXCEPT !.data = fill, !.want = fill]
  <1>4. fill \in Seq(Contents) /\ Len(fill) = allocs[b].len
    BY <1>3, Filled DEF Contents
  <1>5. /\ allocs' = [allocs EXCEPT ![b].data = fill, ![b].want = fill]
        /\ UNCHANGED <<total_mem, heap_state>>
    BY <1>1, <1>3
  <1> HIDE DEF fill
  <1>6. allocs' = [allocs EXCEPT ![b] = blk]
    BY <1>2, <1>5
  <1>7. blk \in HeapBlocks /\ Sound(blk) /\ blk.live = allocs[b].live /\ blk.len = allocs[b].len
    BY <1>2, <1>4 DEF HeapBlocks, Sound
  <1> HIDE DEF blk
  <1>8. /\ [allocs EXCEPT ![b] = blk] \in Seq(HeapBlocks)
        /\ Len([allocs EXCEPT ![b] = blk]) = Len(allocs)
        /\ \A c \in 1 .. Len(allocs) : [allocs EXCEPT ![b] = blk][c] = IF c = b THEN blk ELSE allocs[c]
    BY <1>2, <1>7, ExceptSeq
  <1>9. /\ allocs' \in Seq(HeapBlocks) /\ Len(allocs') = Len(allocs)
        /\ \A c \in 1 .. Len(allocs) : allocs'[c] = IF c = b THEN blk ELSE allocs[c]
    BY <1>6, <1>8
  <1>10. AllSound(allocs)'
    <2>1. \A c \in 1 .. Len(allocs) : Sound(allocs'[c])
      BY <1>2, <1>7, <1>9 DEF AllSound
    <2> QED BY <1>9, <2>1 DEF AllSound, Sound
  <1>11. Held(allocs)' = Held(allocs)
    <2>1. \A c \in 1 .. Len(allocs) : allocs'[c].live = allocs[c].live /\ allocs'[c].len = allocs[c].len
      BY <1>7, <1>9
    <2> QED BY <1>9, <2>1 DEF Held
  <1>12. HeldBytes' = HeldBytes
    BY <1>9, <1>11 DEF HeldBytes, BytesOf, Total
  <1>13. Accounted'
    BY <1>5, <1>12 DEF HeapInv, Accounted, Balances, Balance, ThreadCount, Numbering, Total
  <1> QED BY <1>5, <1>9, <1>10, <1>13 DEF HeapInv, HeapTypes

\* HeapBlocks of the sizes that were asked for, ending at pages, whose bytes the threads account for.
LEMMA HeapSafe == HeapSpec => []HeapInv
  <1>1. HeapInit => HeapInv
    <2> SUFFICES ASSUME HeapInit PROVE HeapInv
      OBVIOUS
    <2>1. allocs = <<>> /\ total_mem = [t \in Threads |-> 0] /\ heap_state = "ok"
      BY DEF HeapInit
    <2>2. allocs \in Seq(HeapBlocks) /\ Len(allocs) = 0 /\ AllSound(allocs)
      BY <2>1 DEF AllSound
    <2>3. SizeMax \in Nat /\ MaxMem \in Nat /\ (Threads # {} => MaxMem < SizeMax)
      BY Limits
    <2>4. total_mem \in [Threads -> 0 .. SizeMax - 1]
      <3>1. \A t \in Threads : 0 \in 0 .. SizeMax - 1
        BY <2>3
      <3> QED BY <2>1, <3>1
    <2>5. HeapTypes
      BY <2>1, <2>2, <2>4 DEF HeapTypes
    <2>6. Balances \in [1 .. ThreadCount -> Int] /\ ThreadCount \in Nat
      BY <2>5, BalancesTyped, ThreadsNumbered
    <2>7. \A k \in 1 .. ThreadCount : Balances[k] = 0
      BY <2>1, <2>3, ThreadsNumbered DEF Balances, Balance
    <2>8. Balances \in [1 .. ThreadCount -> Nat] /\ \A k \in 1 .. ThreadCount : Balances[k] <= 0
      BY <2>6, <2>7
    <2>9. Total(Balances, ThreadCount) \in Nat
      BY <2>6, <2>8, TotalOfNats
    <2>10. Total(Balances, ThreadCount) <= 0 * ThreadCount
      BY <2>6, <2>8, TotalAtMost
    <2>11. HeldBytes = 0
      <3>1. PICK s : IsSum(s, Held(allocs), Len(allocs)) /\ Total(Held(allocs), Len(allocs)) = s[Len(allocs)]
        BY <2>2, HeldTyped, TotalUnfolds
      <3> QED BY <2>2, <3>1 DEF HeldBytes, BytesOf, IsSum
    <2>12. Accounted
      BY <2>6, <2>9, <2>10, <2>11 DEF Accounted
    <2> QED BY <2>2, <2>5, <2>12 DEF HeapInv
  <1>2. HeapInv /\ [HeapNext]_heapVars => HeapInv'
    <2> SUFFICES ASSUME HeapInv, [HeapNext]_heapVars PROVE HeapInv'
      OBVIOUS
    <2>1. CASE HeapNext
      <3>1. PICK t \in Threads : Malloc(t) \/ Calloc(t) \/ NoMemory(t) \/ Free(t) \/ Realloc(t) \/ Store(t)
        BY <2>1 DEF HeapNext
      <3>2. CASE Malloc(t)
        BY <3>2, MallocKeeps
      <3>3. CASE Calloc(t)
        BY <3>3, CallocKeeps
      <3>4. CASE NoMemory(t)
        BY <3>4, HeapStays DEF NoMemory
      <3>5. CASE Free(t)
        BY <3>5, FreeKeeps
      <3>6. CASE Realloc(t)
        BY <3>6, ReallocKeeps
      <3>7. CASE Store(t)
        BY <3>7, StoreKeeps
      <3> QED BY <3>1, <3>2, <3>3, <3>4, <3>5, <3>6, <3>7
    <2>2. CASE UNCHANGED heapVars
      <3>1. heap_state \in {"ok", "abort", "segfault"}
        BY DEF HeapInv, HeapTypes
      <3> QED BY <2>2, <3>1, HeapStays DEF heapVars
    <2> QED BY <2>1, <2>2
  <1> QED BY <1>1, <1>2, PTL DEF HeapSpec

\* Whatever blocks are taken, moved, given back by other threads and written
\* to, each is as it was asked for and all together stay within the limits.
THEOREM AllocatorSafe == HeapSpec => []BlocksAsAsked
  <1>1. HeapInv => BlocksAsAsked
    <2> SUFFICES ASSUME HeapInv PROVE BlocksAsAsked
      OBVIOUS
    <2>1. Total(Held(allocs), Len(allocs)) <= MaxMem * Cardinality(Threads)
      BY HeldAtMost DEF HeldBytes, BytesOf, ThreadCount
    <2>2. heap_state # "overrun"
      BY DEF HeapInv, HeapTypes
    <2>3. ASSUME NEW b \in Live
          PROVE  /\ allocs[b].data = allocs[b].want
                 /\ (allocs[b].start + allocs[b].len) % Page = 0 /\ allocs[b].start >= Header
      <3>1. Sound(allocs[b])
        BY DEF HeapInv, AllSound, Live
      <3> QED BY <3>1 DEF Sound
    <2> QED BY <2>1, <2>2, <2>3 DEF BlocksAsAsked
  <1> QED BY <1>1, HeapSafe, PTL

-----------------------------------------------------------------------------
(* afl-tmin: the case that is kept is one that was run, and behaved as it did
   at first. *)

\* next_p2() gives a length that can be subtracted and halved.
LEMMA Powers ==
  {2 ^ k : k \in 0 .. 20} =
    {1, 2, 4, 8, 16, 32, 64, 128, 256, 512, 1024, 2048, 4096, 8192, 16384, 32768, 65536,
     131072, 262144, 524288, 1048576}
  <1> DEFINE power(k) == 2 ^ k
  <1>1. \A k \in 0 .. 20 :
          \/ k = 0 \/ k = 1 \/ k = 2 \/ k = 3 \/ k = 4 \/ k = 5 \/ k = 6 \/ k = 7 \/ k = 8 \/ k = 9 \/ k = 10
          \/ k = 11 \/ k = 12 \/ k = 13 \/ k = 14 \/ k = 15 \/ k = 16 \/ k = 17 \/ k = 18 \/ k = 19 \/ k = 20
    OBVIOUS
  <1>2. {power(k) : k \in 0 .. 20} =
          {power(0), power(1), power(2), power(3), power(4), power(5), power(6), power(7), power(8),
           power(9), power(10), power(11), power(12), power(13), power(14), power(15), power(16),
           power(17), power(18), power(19), power(20)}
    <2> HIDE DEF power
    <2> QED BY <1>1
  <1> QED BY <1>2

LEMMA LongestIsNat == LongestP2 \in Nat
  BY SMT DEF LongestP2

LEMMA NextPower ==
  ASSUME NEW n \in Nat, n <= LongestP2
  PROVE  TminP2(n) \in Nat \ {0}
  <1> DEFINE P == {2 ^ k : k \in 0 .. 20}
  <1>1. \E p \in P : p >= n /\ (p = 1 \/ p \div 2 < n)
    <2>1. P = {1, 2, 4, 8, 16, 32, 64, 128, 256, 512, 1024, 2048, 4096, 8192, 16384, 32768, 65536,
               131072, 262144, 524288, 1048576}
      BY Powers
    <2> HIDE DEF P
    <2> QED BY <2>1, SMT DEF LongestP2
  <1>2. P \subseteq Nat \ {0}
    BY Powers
  <1>3. TminP2(n) \in P
    BY <1>1 DEF TminP2
  <1> QED BY <1>2, <1>3

Byte == 0 .. AlphaSize - 1
Working == {"normalize", "delete", "alphabet", "characters"}
TminSteps == Working \cup {"dry", "failed", "stopped", "write", "done"}

TminTypes ==
  /\ in_data \in Seq(Byte)
  /\ crash_mode \in BOOLEAN /\ exact_mode \in BOOLEAN
  /\ prev_del \in BOOLEAN /\ changed_any \in BOOLEAN
  /\ at \in Nat /\ block \in Nat
  /\ tmin_step \in TminSteps

\* The block is one of next_p2(), which covers files of that size, and its
\* halves: never empty.  A block that had to stay lies before the next one.
BlockFits ==
  /\ in_len \div TminDelSteps <= LongestP2
  /\ tmin_step = "dry" => in_len \div TminSetSteps <= LongestP2
  /\ tmin_step \in Working => block >= 1
  /\ tmin_step = "delete" /\ ~prev_del => at >= block

\* The case that is kept behaves as it did in the dry run.
Behaves == outcome \in Outcomes /\ Keeps(outcome)
CaseBehaves ==
  /\ tmin_step \in {"dry", "failed"} => outcome[1] = "none"
  /\ tmin_step \in Working \cup {"write", "done"} => Behaves
  /\ tmin_step = "stopped" => outcome[1] = "none" \/ Behaves
  /\ out_file = IF tmin_step \in {"stopped", "done"} THEN <<in_data>> ELSE <<>>

\* What was tried in a pass that has changed nothing stays tried, for the case
\* as it is: each byte up to the place where single bytes are left out.
Tried(k) == Leave(in_data, k) \in rejected
BytesTried ==
  /\ tmin_step = "delete" /\ block = 1 /\ ~changed_any => \A k \in 1 .. in_len : k <= at => Tried(k)
  /\ tmin_step \in {"alphabet", "characters"} /\ ~changed_any => \A k \in 1 .. in_len : Tried(k)
  /\ tmin_step \in {"write", "done"} => \A k \in 1 .. in_len : Tried(k)

TminInv == TminTypes /\ BlockFits /\ CaseBehaves /\ BytesTried

LEMMA BytesNumbered == AlphaSize \in Nat \ {0} /\ Zero \in Byte
  BY TminAssumption DEF Byte

\* A case with its block left out is a case, and no longer one.
LEMMA GapIsACase ==
  ASSUME in_data \in Seq(Byte), at \in Nat, at < in_len, block \in Nat \ {0}
  PROVE  Gap \in Seq(Byte) /\ Len(Gap) <= in_len
  <1> DEFINE s == in_data  n == Len(in_data)
             from == n - TailLen + 1
  <1>1. n \in Nat /\ \A k \in 1 .. n : s[k] \in Byte
    BY ElementOfSeq, LenProperties
  <1>2. from \in Int /\ at + 2 <= from /\ from <= n + 1 /\ at \in 0 .. n - 1
    <2>1. in_len = n
      BY DEF in_len
    <2>2. TailLen = IF n > at + block THEN n - at - block ELSE 0
      BY <2>1 DEF TailLen
    <2>3. at < n /\ block \in Nat /\ block >= 1
      BY <2>1
    <2> HIDE DEF n
    <2> QED BY <2>2, <2>3, <1>1
  <1> HIDE DEF from
  <1>3. SubSeq(s, 1, at) \in Seq(Byte) /\ Len(SubSeq(s, 1, at)) = at
    BY <1>1, <1>2, SubSeqProperties
  <1>4. SubSeq(s, from, n) \in Seq(Byte) /\ Len(SubSeq(s, from, n)) = n - from + 1
    <2>1. \A i \in from .. n : s[i] \in Byte
      BY <1>1, <1>2
    <2>2. from \in Int /\ n \in Int
      BY <1>1, <1>2
    <2>3. /\ SubSeq(s, from, n) \in Seq(Byte)
          /\ Len(SubSeq(s, from, n)) = IF from <= n THEN n - from + 1 ELSE 0
      BY <2>1, <2>2, SubSeqProperties
    <2> QED BY <2>3, <1>1, <1>2
  <1>5. Gap = SubSeq(s, 1, at) \o SubSeq(s, from, n)
    BY DEF Gap, in_len, from
  <1>6. /\ SubSeq(s, 1, at) \o SubSeq(s, from, n) \in Seq(Byte)
        /\ Len(SubSeq(s, 1, at) \o SubSeq(s, from, n)) = at + (n - from + 1)
    BY <1>3, <1>4, ConcatProperties
  <1>7. in_len = n
    BY DEF in_len
  <1> HIDE DEF n
  <1> QED BY <1>1, <1>2, <1>5, <1>6, <1>7

\* A block of one byte.
LEMMA GapOfOne ==
  ASSUME in_data \in Seq(Byte), at \in Nat, at < in_len, block = 1
  PROVE  Gap = Leave(in_data, at + 1)
  <1>1. in_len \in Nat
    BY DEF in_len
  <1>2. in_len - TailLen + 1 = (at + 1) + 1 /\ (at + 1) - 1 = at
    BY <1>1 DEF TailLen
  <1>3. Gap = SubSeq(in_data, 1, (at + 1) - 1) \o SubSeq(in_data, (at + 1) + 1, in_len)
    BY <1>2 DEF Gap
  <1> QED BY <1>3 DEF Leave, in_len

\* Leaving out one of two equal neighbours or the other.
LEMMA Neighbours ==
  ASSUME NEW s \in Seq(Byte), NEW k \in 1 .. Len(s) - 1, s[k] = s[k + 1]
  PROVE  Leave(s, k) = Leave(s, k + 1)
  <1> DEFINE n == Len(s)
             a == SubSeq(s, 1, k - 1)  b == SubSeq(s, k + 1, n)
             c == SubSeq(s, 1, k)      d == SubSeq(s, k + 2, n)
  <1>1. n \in Nat /\ k \in Int /\ \A i \in 1 .. n : s[i] \in Byte
    BY ElementOfSeq, LenProperties
  <1>2. a \in Seq(Byte) /\ Len(a) = k - 1 /\ \A i \in 1 .. k - 1 : a[i] = s[i]
    <2>1. \A i \in 1 .. k - 1 : s[i] \in Byte
      BY <1>1
    <2>2. /\ SubSeq(s, 1, k - 1) \in Seq(Byte)
          /\ Len(SubSeq(s, 1, k - 1)) = IF 1 <= k - 1 THEN k - 1 - 1 + 1 ELSE 0
          /\ \A i \in 1 .. k - 1 - 1 + 1 : SubSeq(s, 1, k - 1)[i] = s[1 + i - 1]
      BY <2>1, <1>1, SubSeqProperties
    <2> QED BY <2>2, <1>1
  <1>3. b \in Seq(Byte) /\ Len(b) = n - k /\ \A i \in 1 .. n - k : b[i] = s[k + i]
    <2>1. \A i \in k + 1 .. n : s[i] \in Byte
      BY <1>1
    <2>2. /\ SubSeq(s, k + 1, n) \in Seq(Byte)
          /\ Len(SubSeq(s, k + 1, n)) = IF k + 1 <= n THEN n - (k + 1) + 1 ELSE 0
          /\ \A i \in 1 .. n - (k + 1) + 1 : SubSeq(s, k + 1, n)[i] = s[k + 1 + i - 1]
      BY <2>1, <1>1, SubSeqProperties
    <2> QED BY <2>2, <1>1
  <1>4. c \in Seq(Byte) /\ Len(c) = k /\ \A i \in 1 .. k : c[i] = s[i]
    <2>1. \A i \in 1 .. k : s[i] \in Byte
      BY <1>1
    <2>2. /\ SubSeq(s, 1, k) \in Seq(Byte)
          /\ Len(SubSeq(s, 1, k)) = IF 1 <= k THEN k - 1 + 1 ELSE 0
          /\ \A i \in 1 .. k - 1 + 1 : SubSeq(s, 1, k)[i] = s[1 + i - 1]
      BY <2>1, <1>1, SubSeqProperties
    <2> QED BY <2>2, <1>1
  <1>5. d \in Seq(Byte) /\ Len(d) = n - k - 1 /\ \A i \in 1 .. n - k - 1 : d[i] = s[k + 1 + i]
    <2>1. \A i \in k + 2 .. n : s[i] \in Byte
      BY <1>1
    <2>2. /\ SubSeq(s, k + 2, n) \in Seq(Byte)
          /\ Len(SubSeq(s, k + 2, n)) = IF k + 2 <= n THEN n - (k + 2) + 1 ELSE 0
          /\ \A i \in 1 .. n - (k + 2) + 1 : SubSeq(s, k + 2, n)[i] = s[k + 2 + i - 1]
      BY <2>1, <1>1, SubSeqProperties
    <2> QED BY <2>2, <1>1
  <1>6. Leave(s, k) = a \o b /\ Leave(s, k + 1) = c \o d
    <2>1. k + 1 - 1 = k /\ k + 1 + 1 = k + 2
      BY <1>1
    <2> QED BY <2>1 DEF Leave
  <1> HIDE DEF a, b, c, d
  <1>7. /\ a \o b \in Seq(Byte) /\ Len(a \o b) = n - 1
        /\ \A i \in 1 .. n - 1 : (a \o b)[i] = IF i <= k - 1 THEN a[i] ELSE b[i - (k - 1)]
    <2>1. Len(a) + Len(b) = n - 1
      BY <1>1, <1>2, <1>3
    <2>2. /\ a \o b \in Seq(Byte) /\ Len(a \o b) = Len(a) + Len(b)
          /\ \A i \in 1 .. Len(a) + Len(b) : (a \o b)[i] = IF i <= Len(a) THEN a[i] ELSE b[i - Len(a)]
      BY <1>2, <1>3, ConcatProperties
    <2> QED BY <2>1, <2>2, <1>2
  <1>8. /\ c \o d \in Seq(Byte) /\ Len(c \o d) = n - 1
        /\ \A i \in 1 .. n - 1 : (c \o d)[i] = IF i <= k THEN c[i] ELSE d[i - k]
    <2>1. Len(c) + Len(d) = n - 1
      BY <1>1, <1>4, <1>5
    <2>2. /\ c \o d \in Seq(Byte) /\ Len(c \o d) = Len(c) + Len(d)
          /\ \A i \in 1 .. Len(c) + Len(d) : (c \o d)[i] = IF i <= Len(c) THEN c[i] ELSE d[i - Len(c)]
      BY <1>4, <1>5, ConcatProperties, ZenonT(30)
    <2> QED BY <2>1, <2>2, <1>4
  <1>9. ASSUME NEW i \in 1 .. n - 1 PROVE (a \o b)[i] = (c \o d)[i]
    <2>1. CASE i <= k - 1
      BY <2>1, <1>1, <1>2, <1>4, <1>7, <1>8
    <2>2. CASE i = k
      <3>1. (a \o b)[i] = b[1] /\ b[1] = s[k + 1]
        BY <2>2, <1>1, <1>3, <1>7
      <3>2. (c \o d)[i] = s[k]
        BY <2>2, <1>1, <1>4, <1>8
      <3> QED BY <3>1, <3>2
    <2>3. CASE i > k
      <3>1. i - (k - 1) \in 1 .. n - k /\ k + (i - (k - 1)) = i + 1
        BY <2>3, <1>1
      <3>2. i - k \in 1 .. n - k - 1 /\ k + 1 + (i - k) = i + 1
        BY <2>3, <1>1
      <3>3. (a \o b)[i] = s[i + 1]
        BY <3>1, <2>3, <1>1, <1>3, <1>7
      <3>4. (c \o d)[i] = s[i + 1]
        BY <3>2, <2>3, <1>1, <1>5, <1>8
      <3> QED BY <3>3, <3>4
    <2>4. i <= k - 1 \/ i = k \/ i > k
      BY <1>1
    <2> QED BY <2>1, <2>2, <2>3, <2>4
  <1>10. a \o b = c \o d
    BY <1>7, <1>8, <1>9, SeqEqual
  <1> QED BY <1>6, <1>10

-----------------------------------------------------------------------------
(* The steps. *)

LEMMA TminInitInv == TminInit => TminInv
  <1> SUFFICES ASSUME TminInit PROVE TminInv
    OBVIOUS
  <1>1. PICK input \in TminInputs : TminStart(input)
    BY DEF TminInit
  <1>2. /\ input \in Seq(Byte)
        /\ Len(input) \div TminSetSteps <= LongestP2 /\ Len(input) \div TminDelSteps <= LongestP2
    BY <1>1, TminAssumption DEF Byte
  <1>3. TminTypes
    BY <1>1, <1>2 DEF TminInit, TminStart, TminTypes, TminSteps, Working
  <1>4. BlockFits
    BY <1>1, <1>2 DEF TminStart, BlockFits, Working, in_len
  <1>5. CaseBehaves
    BY <1>1 DEF TminStart, CaseBehaves, Working
  <1>6. BytesTried
    BY <1>1 DEF TminStart, BytesTried
  <1> QED BY <1>3, <1>4, <1>5, <1>6 DEF TminInv

\* An attempt is a case and no longer than the one there is.
Attempt(s) == s \in Seq(Byte) /\ Len(s) <= in_len

LEMMA ZeroedIsAnAttempt == TminTypes => Attempt(Zeroed)
  <1> SUFFICES ASSUME TminTypes PROVE Attempt(Zeroed)
    OBVIOUS
  <1>1. in_len \in Nat /\ \A k \in 1 .. in_len : in_data[k] \in Byte
    BY ElementOfSeq, LenProperties DEF TminTypes, in_len
  <1>2. Zeroed \in [1 .. in_len -> Byte]
    BY <1>1, BytesNumbered DEF Zeroed
  <1>3. Zeroed \in Seq(Byte) /\ Len(Zeroed) = in_len
    BY <1>1, <1>2, SeqDef
  <1> QED BY <1>1, <1>3 DEF Attempt

LEMMA ReplacedIsAnAttempt == TminTypes => Attempt(Replaced)
  <1> SUFFICES ASSUME TminTypes PROVE Attempt(Replaced)
    OBVIOUS
  <1>1. in_len \in Nat /\ \A k \in 1 .. in_len : in_data[k] \in Byte
    BY ElementOfSeq, LenProperties DEF TminTypes, in_len
  <1>2. Replaced \in [1 .. in_len -> Byte]
    BY <1>1, BytesNumbered DEF Replaced
  <1>3. Replaced \in Seq(Byte) /\ Len(Replaced) = in_len
    BY <1>1, <1>2, SeqDef
  <1> QED BY <1>1, <1>3 DEF Attempt

LEMMA CharacterIsAnAttempt ==
  TminTypes /\ at < in_len => Attempt([in_data EXCEPT ![at + 1] = Zero])
  <1> SUFFICES ASSUME TminTypes, at < in_len PROVE Attempt([in_data EXCEPT ![at + 1] = Zero])
    OBVIOUS
  <1>1. in_len \in Nat /\ at + 1 \in 1 .. Len(in_data)
    BY DEF TminTypes, in_len
  <1>2. /\ [in_data EXCEPT ![at + 1] = Zero] \in Seq(Byte)
        /\ Len([in_data EXCEPT ![at + 1] = Zero]) = Len(in_data)
    BY <1>1, BytesNumbered, ExceptSeq DEF TminTypes
  <1> QED BY <1>1, <1>2 DEF Attempt, in_len

\* What a run of an attempt leaves: the case is the attempt and behaves, or it is as it was.
Ran(s) == Kept(s) \/ Dropped(s)

LEMMA RanFits ==
  ASSUME TminInv, NEW s, Attempt(s), Ran(s), tmin_step \in Working,
         crash_mode' = crash_mode, exact_mode' = exact_mode
  PROVE  /\ in_data' \in Seq(Byte) /\ changed_any' \in BOOLEAN
         /\ in_len' <= in_len /\ in_len' \div TminDelSteps <= LongestP2
         /\ Behaves'
         /\ ~changed_any' => ~changed_any /\ in_data' = in_data /\ rejected' = rejected \cup {s}
  <1>1. /\ in_len \in Nat /\ in_len \div TminDelSteps <= LongestP2 /\ TminDelSteps \in Nat \ {0}
        /\ LongestP2 \in Nat
    BY TminAssumption, LongestIsNat DEF TminInv, TminTypes, BlockFits, in_len
  <1>2. CASE Kept(s)
    <2>1. in_data' = s /\ changed_any' = TRUE /\ \E o \in Outcomes : Keeps(o) /\ outcome' = o
      BY <1>2 DEF Kept
    <2>2. in_len' \in Nat /\ in_len' <= in_len
      BY <2>1 DEF Attempt, in_len
    <2>3. in_len' \div TminDelSteps <= in_len \div TminDelSteps
      BY <2>2, <1>1, DivisionIsMonotone
    <2>4. in_len' \div TminDelSteps <= LongestP2
      <3>1. in_len' \div TminDelSteps \in Nat /\ in_len \div TminDelSteps \in Nat
        BY <1>1, <2>2, Division
      <3> QED BY <2>3, <3>1, <1>1
    <2>5. Behaves'
      BY <2>1 DEF Behaves, Keeps, Outcomes
    <2> QED BY <2>1, <2>2, <2>4, <2>5 DEF Attempt
  <1>3. CASE Dropped(s)
    <2>1. in_data' = in_data /\ changed_any' = changed_any /\ outcome' = outcome /\ rejected' = rejected \cup {s}
      BY <1>3 DEF Dropped
    <2>2. in_len' = in_len
      BY <2>1 DEF in_len
    <2>3. Behaves
      BY DEF TminInv, CaseBehaves, Working
    <2>4. Behaves'
      BY <2>1, <2>3 DEF Behaves, Keeps, Outcomes
    <2> QED BY <2>1, <2>2, <2>4, <1>1 DEF TminInv, TminTypes
  <1> QED BY <1>2, <1>3 DEF Ran

\* No run: what the case is and what was tried stay.
LEMMA NoRunKeeps ==
  ASSUME TminInv, NoRun
  PROVE  in_len' = in_len /\ \A k : Tried(k)' <=> Tried(k)
  BY DEF NoRun, in_len, Tried

LEMMA NormalizeKeeps == TminInv /\ NormalizeBlock => TminInv'
  <1> SUFFICES ASSUME TminInv, NormalizeBlock PROVE TminInv'
    OBVIOUS
  <1>1. /\ in_data' \in Seq(Byte) /\ changed_any' \in BOOLEAN
        /\ in_len' \div TminDelSteps <= LongestP2 /\ Behaves'
    <2>1. CASE NoRun
      BY <2>1, NoRunKeeps DEF NoRun, TminInv, TminTypes, BlockFits, CaseBehaves, Behaves, Keeps, Outcomes,
         NormalizeBlock, Working
    <2>2. CASE Ran(Zeroed)
      BY <2>2, RanFits, ZeroedIsAnAttempt DEF TminInv, NormalizeBlock, Working
    <2> QED BY <2>1, <2>2 DEF NormalizeBlock, Ran
  <1>2. TminTypes'
    BY <1>1 DEF TminInv, TminTypes, NormalizeBlock
  <1>3. BlockFits'
    BY <1>1 DEF TminInv, BlockFits, NormalizeBlock, Working
  <1>4. CaseBehaves'
    BY <1>1 DEF TminInv, CaseBehaves, NormalizeBlock, Working
  <1>5. BytesTried'
    BY DEF BytesTried, NormalizeBlock
  <1> QED BY <1>2, <1>3, <1>4, <1>5 DEF TminInv

LEMMA DryRunKeeps == TminInv /\ (DryRun \/ DryRunFails) => TminInv'
  <1> SUFFICES ASSUME TminInv, DryRun \/ DryRunFails PROVE TminInv'
    OBVIOUS
  <1>1. CASE DryRun
    <2>1. in_len \in Nat /\ in_len' = in_len /\ in_len \div TminSetSteps \in Nat
      <3>1. in_len \in Nat /\ in_len' = in_len
        BY <1>1 DEF DryRun, in_len, TminInv, TminTypes
      <3> QED BY <3>1, TminAssumption, Division
    <2>2. TminP2(in_len \div TminSetSteps) \in Nat \ {0}
      BY <2>1, <1>1, NextPower DEF TminInv, BlockFits, DryRun
    <2>3. block' \in Nat \ {0}
      BY <2>2, <1>1, TminAssumption DEF DryRun
    <2>4. TminTypes'
      BY <2>3, <1>1 DEF TminInv, TminTypes, DryRun, TminSteps, Working
    <2>5. BlockFits'
      BY <2>1, <2>3, <1>1 DEF TminInv, BlockFits, DryRun, Working
    <2>6. CaseBehaves'
      <3>1. PICK end \in {"crash", "exit"} : outcome' = <<end, "same">> /\ crash_mode' = (end = "crash")
        BY <1>1 DEF DryRun
      <3>2. outcome' \in Outcomes /\ outcome'[1] = end /\ outcome'[2] = "same"
        BY <3>1 DEF Outcomes
      <3>3. Behaves'
        BY <3>1, <3>2 DEF Behaves, Keeps, Outcomes
      <3> QED BY <3>3, <1>1 DEF TminInv, CaseBehaves, DryRun, Working
    <2>7. BytesTried'
      BY <1>1 DEF BytesTried, DryRun
    <2> QED BY <2>4, <2>5, <2>6, <2>7 DEF TminInv
  <1>2. CASE DryRunFails
    <2>1. in_len' = in_len
      BY <1>2 DEF DryRunFails, in_len
    <2>2. TminTypes'
      BY <1>2 DEF TminInv, TminTypes, DryRunFails, TminSteps, cursorVars
    <2>3. BlockFits'
      BY <1>2, <2>1 DEF TminInv, BlockFits, DryRunFails, Working, cursorVars
    <2>4. CaseBehaves'
      BY <1>2 DEF TminInv, CaseBehaves, DryRunFails, Working
    <2>5. BytesTried'
      BY <1>2 DEF BytesTried, DryRunFails
    <2> QED BY <2>2, <2>3, <2>4, <2>5 DEF TminInv
  <1> QED BY <1>1, <1>2

LEMMA NextPassKeeps == TminInv /\ NextPass => TminInv'
  <1> SUFFICES ASSUME TminInv, NextPass PROVE TminInv'
    OBVIOUS
  <1>1. in_len \in Nat /\ in_len' = in_len /\ in_len \div TminDelSteps \in Nat
    <2>1. in_len \in Nat /\ in_len' = in_len
      BY DEF NextPass, in_len, TminInv, TminTypes
    <2> QED BY <2>1, TminAssumption, Division
  <1>2. block' \in Nat \ {0}
    BY <1>1, NextPower DEF TminInv, BlockFits, NextPass, DeletionBlock
  <1>3. TminTypes'
    BY <1>2 DEF TminInv, TminTypes, NextPass, TminSteps, Working
  <1>4. BlockFits'
    BY <1>1, <1>2 DEF TminInv, BlockFits, NextPass, Working
  <1>5. CaseBehaves'
    BY DEF TminInv, CaseBehaves, NextPass, Working, Behaves, Keeps
  <1>6. BytesTried'
    BY <1>1, <1>2 DEF BytesTried, NextPass
  <1> QED BY <1>3, <1>4, <1>5, <1>6 DEF TminInv

\* A byte that is skipped is the one before it, which was tried.
LEMMA SkippedIsTried ==
  ASSUME TminInv, tmin_step = "delete", at < in_len, block = 1, ~changed_any, NoOp
  PROVE  Tried(at + 1)
  <1>1. in_len \in Nat /\ in_len = Len(in_data) /\ at \in Nat /\ at >= 1
    BY DEF TminInv, TminTypes, BlockFits, NoOp, in_len
  <1>2. in_data[at] = in_data[at + 1]
    <2>1. 1 \in 1 .. block /\ at - block + 1 = at
      BY <1>1
    <2> QED BY <2>1 DEF NoOp
  <1>3. at \in 1 .. Len(in_data) - 1
    BY <1>1
  <1>4. Leave(in_data, at) = Leave(in_data, at + 1)
    BY <1>2, <1>3, Neighbours DEF TminInv, TminTypes
  <1>5. Tried(at)
    BY <1>1 DEF TminInv, BytesTried
  <1> QED BY <1>4, <1>5 DEF Tried

LEMMA DeleteKeeps == TminInv /\ DeleteBlock => TminInv'
  <1> SUFFICES ASSUME TminInv, DeleteBlock PROVE TminInv'
    OBVIOUS
  <1>0. /\ tmin_step = "delete" /\ tmin_step \in Working /\ tmin_step' = "delete" /\ at < in_len
        /\ block \in Nat \ {0} /\ block' = block /\ at \in Nat /\ in_data \in Seq(Byte) /\ in_len \in Nat
        /\ crash_mode' = crash_mode /\ exact_mode' = exact_mode /\ out_file' = out_file
        /\ prev_del \in BOOLEAN
    BY DEF DeleteBlock, TminInv, TminTypes, BlockFits, Working, in_len
  <1>1. CASE NoOp
    <2>1. /\ NoRun /\ at' = at + block /\ prev_del' = prev_del
          /\ in_len' = in_len /\ \A k : Tried(k)' <=> Tried(k)
      <3>1. NoRun /\ at' = at + block /\ prev_del' = prev_del
        BY <1>1 DEF DeleteBlock
      <3> QED BY <3>1, NoRunKeeps
    <2>2. TminTypes'
      BY <2>1, <1>0 DEF TminInv, TminTypes, NoRun, TminSteps
    <2>3. BlockFits'
      BY <2>1, <1>0 DEF TminInv, BlockFits, Working
    <2>4. CaseBehaves'
      BY <2>1, <1>0 DEF TminInv, CaseBehaves, NoRun, Working, Behaves, Keeps, Outcomes
    <2>5. BytesTried'
      <3> SUFFICES ASSUME block = 1, ~changed_any, NEW k \in 1 .. in_len, k <= at + 1 PROVE Tried(k)
        BY <2>1, <1>0 DEF BytesTried, NoRun
      <3>1. CASE k = at + 1
        BY <3>1, <1>0, <1>1, SkippedIsTried
      <3>2. CASE k <= at
        BY <3>2, <1>0 DEF TminInv, BytesTried
      <3> QED BY <3>1, <3>2, <1>0
    <2> QED BY <2>2, <2>3, <2>4, <2>5 DEF TminInv
  <1>2. CASE ~NoOp
    <2>1. Attempt(Gap)
      BY <1>0, GapIsACase DEF Attempt
    <2>2. /\ Ran(Gap)
          /\ (prev_del' = TRUE /\ at' = at /\ changed_any' = TRUE) \/ (prev_del' = FALSE /\ at' = at + block)
      BY <1>2 DEF DeleteBlock, Ran, Kept
    <2>3. /\ in_data' \in Seq(Byte) /\ changed_any' \in BOOLEAN
          /\ in_len' <= in_len /\ in_len' \div TminDelSteps <= LongestP2 /\ Behaves'
          /\ ~changed_any' => ~changed_any /\ in_data' = in_data /\ rejected' = rejected \cup {Gap}
      BY <2>1, <2>2, <1>0, RanFits
    <2>4. TminTypes'
      <3>1. at' \in Nat /\ prev_del' \in BOOLEAN
        <4>1. prev_del' \in BOOLEAN
          BY <2>2, Zenon
        <4>2. at' = at \/ at' = at + block
          BY <2>2, Zenon
        <4> QED BY <4>1, <4>2, <1>0
      <3> QED BY <3>1, <2>3, <1>0 DEF TminInv, TminTypes, TminSteps
    <2>5. BlockFits'
      BY <2>2, <2>3, <1>0 DEF TminInv, BlockFits, Working
    <2>6. CaseBehaves'
      BY <2>3, <1>0 DEF TminInv, CaseBehaves, Working
    <2>7. BytesTried'
      <3> SUFFICES ASSUME block = 1, ~changed_any', NEW k \in 1 .. in_len', k <= at' PROVE Tried(k)'
        BY <1>0 DEF BytesTried
      <3>1. /\ ~changed_any /\ in_data' = in_data /\ rejected' = rejected \cup {Gap} /\ in_len' = in_len
            /\ at' = at + 1
        BY <2>2, <2>3 DEF in_len
      <3>2. CASE k = at + 1
        BY <3>1, <3>2, <1>0, GapOfOne DEF Tried
      <3>3. CASE k <= at
        BY <3>1, <3>3, <1>0 DEF TminInv, BytesTried, Tried
      <3> QED BY <3>1, <3>2, <3>3, <1>0
    <2> QED BY <2>4, <2>5, <2>6, <2>7 DEF TminInv
  <1> QED BY <1>1, <1>2

LEMMA DeletionDoneKeeps == TminInv /\ DeletionDone => TminInv'
  <1> SUFFICES ASSUME TminInv, DeletionDone PROVE TminInv'
    OBVIOUS
  <1>1. /\ tmin_step = "delete" /\ at >= in_len /\ at \in Nat /\ at' = 0 /\ in_len \in Nat /\ in_len' = in_len
        /\ block \in Nat \ {0} /\ \A k : Tried(k)' <=> Tried(k)
    BY DEF DeletionDone, TminInv, TminTypes, BlockFits, Working, in_len, Tried
  <1>2. CASE SmallerNext
    <2>1. block' \in Nat \ {0} /\ prev_del' = TRUE /\ tmin_step' = "delete"
      BY <1>1, <1>2 DEF DeletionDone
    <2>2. TminTypes'
      BY <1>1, <2>1 DEF TminInv, TminTypes, DeletionDone, TminSteps, Working
    <2>3. BlockFits'
      BY <1>1, <2>1 DEF TminInv, BlockFits, DeletionDone, Working
    <2>4. CaseBehaves'
      BY <1>1, <2>1 DEF TminInv, CaseBehaves, DeletionDone, Working, Behaves, Keeps, Outcomes
    <2>5. BytesTried'
      BY <1>1, <2>1 DEF BytesTried
    <2> QED BY <2>2, <2>3, <2>4, <2>5 DEF TminInv
  <1>3. CASE ~SmallerNext
    <2>1. /\ block' = block /\ prev_del' = prev_del
          /\ tmin_step' = IF LastPass THEN "write" ELSE "alphabet"
      BY <1>3 DEF DeletionDone
    <2>2. TminTypes'
      BY <1>1, <2>1 DEF TminInv, TminTypes, DeletionDone, TminSteps, Working
    <2>3. BlockFits'
      BY <1>1, <2>1 DEF TminInv, BlockFits, DeletionDone, Working
    <2>4. CaseBehaves'
      BY <1>1, <2>1 DEF TminInv, CaseBehaves, DeletionDone, Working, Behaves, Keeps, Outcomes
    <2>5. BytesTried'
      <3>1. ASSUME ~changed_any, NEW k \in 1 .. in_len PROVE Tried(k)
        <4>1. block = 1
          BY <1>1, <1>3 DEF SmallerNext
        <4> QED BY <3>1, <4>1, <1>1 DEF TminInv, BytesTried
      <3>2. changed_any' = changed_any
        BY DEF DeletionDone
      <3> QED BY <3>1, <3>2, <2>1, <1>1 DEF BytesTried, LastPass
    <2> QED BY <2>2, <2>3, <2>4, <2>5 DEF TminInv
  <1> QED BY <1>2, <1>3

\* The stages on characters take a byte as it is or a run of an attempt.
LEMMA ReplaceSymbolKeeps == TminInv /\ ReplaceSymbol => TminInv'
  <1> SUFFICES ASSUME TminInv, ReplaceSymbol PROVE TminInv'
    OBVIOUS
  <1>1. /\ tmin_step = "alphabet" /\ tmin_step' \in {"alphabet", "characters"} /\ at' \in Nat
        /\ block \in Nat \ {0} /\ block' = block /\ prev_del' = prev_del /\ out_file' = out_file
        /\ crash_mode' = crash_mode /\ exact_mode' = exact_mode
        /\ NoRun \/ Ran(Replaced)
    BY DEF ReplaceSymbol, Ran, TminInv, TminTypes, BlockFits, Working
  <1>2. /\ in_data' \in Seq(Byte) /\ changed_any' \in BOOLEAN
        /\ in_len' \div TminDelSteps <= LongestP2 /\ Behaves'
        /\ BytesTried'
    <2>1. CASE NoRun
      <3>1. in_len' = in_len /\ \A k : Tried(k)' <=> Tried(k)
        BY <2>1, NoRunKeeps
      <3>2. BytesTried'
        BY <3>1, <2>1, <1>1 DEF TminInv, BytesTried, NoRun
      <3> QED BY <2>1, <3>1, <3>2, <1>1 DEF NoRun, TminInv, TminTypes, BlockFits, CaseBehaves, Behaves, Keeps,
              Outcomes, Working
    <2>2. CASE Ran(Replaced)
      <3>1. /\ in_data' \in Seq(Byte) /\ changed_any' \in BOOLEAN
            /\ in_len' \div TminDelSteps <= LongestP2 /\ Behaves'
            /\ ~changed_any' => ~changed_any /\ in_data' = in_data /\ rejected' = rejected \cup {Replaced}
        BY <2>2, <1>1, RanFits, ReplacedIsAnAttempt DEF TminInv, Working
      <3>2. BytesTried'
        BY <3>1, <1>1 DEF TminInv, BytesTried, Tried, in_len
      <3> QED BY <3>1, <3>2
    <2> QED BY <2>1, <2>2, <1>1
  <1>3. TminTypes'
    BY <1>1, <1>2 DEF TminInv, TminTypes, TminSteps, Working
  <1>4. BlockFits'
    BY <1>1, <1>2 DEF TminInv, BlockFits, Working
  <1>5. CaseBehaves'
    BY <1>1, <1>2 DEF TminInv, CaseBehaves, Working
  <1> QED BY <1>2, <1>3, <1>4, <1>5 DEF TminInv

LEMMA ReplaceCharacterKeeps == TminInv /\ ReplaceCharacter => TminInv'
  <1> SUFFICES ASSUME TminInv, ReplaceCharacter PROVE TminInv'
    OBVIOUS
  <1> DEFINE attempt == [in_data EXCEPT ![at + 1] = Zero]
  <1>1. /\ tmin_step = "characters" /\ tmin_step' = "characters" /\ at' \in Nat /\ at < in_len
        /\ block \in Nat \ {0} /\ block' = block /\ prev_del' = prev_del /\ out_file' = out_file
        /\ crash_mode' = crash_mode /\ exact_mode' = exact_mode
        /\ NoRun \/ Ran(attempt)
    BY DEF ReplaceCharacter, Ran, TminInv, TminTypes, BlockFits, Working
  <1>2. Attempt(attempt)
    BY <1>1, CharacterIsAnAttempt DEF TminInv
  <1> HIDE DEF attempt
  <1>3. /\ in_data' \in Seq(Byte) /\ changed_any' \in BOOLEAN
        /\ in_len' \div TminDelSteps <= LongestP2 /\ Behaves'
        /\ BytesTried'
    <2>1. CASE NoRun
      <3>1. in_len' = in_len /\ \A k : Tried(k)' <=> Tried(k)
        BY <2>1, NoRunKeeps
      <3>2. BytesTried'
        BY <3>1, <2>1, <1>1 DEF TminInv, BytesTried, NoRun
      <3> QED BY <2>1, <3>1, <3>2, <1>1 DEF NoRun, TminInv, TminTypes, BlockFits, CaseBehaves, Behaves, Keeps,
              Outcomes, Working
    <2>2. CASE Ran(attempt)
      <3>1. /\ in_data' \in Seq(Byte) /\ changed_any' \in BOOLEAN
            /\ in_len' \div TminDelSteps <= LongestP2 /\ Behaves'
            /\ ~changed_any' => ~changed_any /\ in_data' = in_data /\ rejected' = rejected \cup {attempt}
        BY <2>2, <1>1, <1>2, RanFits DEF Working
      <3>2. BytesTried'
        BY <3>1, <1>1 DEF TminInv, BytesTried, Tried, in_len
      <3> QED BY <3>1, <3>2
    <2> QED BY <2>1, <2>2, <1>1
  <1>4. TminTypes'
    BY <1>1, <1>3 DEF TminInv, TminTypes, TminSteps, Working
  <1>5. BlockFits'
    BY <1>1, <1>3 DEF TminInv, BlockFits, Working
  <1>6. CaseBehaves'
    BY <1>1, <1>3 DEF TminInv, CaseBehaves, Working
  <1> QED BY <1>3, <1>4, <1>5, <1>6 DEF TminInv

LEMMA EndingKeeps == TminInv /\ (Finalize \/ WriteOutput \/ StopTmin) => TminInv'
  <1> SUFFICES ASSUME TminInv, Finalize \/ WriteOutput \/ StopTmin PROVE TminInv'
    OBVIOUS
  <1>1. /\ in_len' = in_len /\ (\A k : Tried(k)' <=> Tried(k)) /\ Behaves' = Behaves
        /\ in_data' = in_data /\ changed_any' = changed_any /\ outcome' = outcome
    BY DEF Finalize, WriteOutput, StopTmin, in_len, Tried, Behaves, Keeps
  <1>2. /\ tmin_step' \in {"write", "done", "stopped"}
        /\ tmin_step' \in {"write", "done"} => tmin_step \in {"characters", "write"} /\ (tmin_step = "characters" => ~changed_any)
        /\ tmin_step \in Working \cup {"write"}
    BY DEF Finalize, WriteOutput, StopTmin, Working
  <1>3. TminTypes'
    BY DEF TminInv, TminTypes, Finalize, WriteOutput, StopTmin, TminSteps, Working, cursorVars
  <1>4. BlockFits'
    BY <1>1, <1>2 DEF TminInv, BlockFits, Working
  <1>5. CaseBehaves'
    <2>1. out_file' = IF tmin_step' \in {"stopped", "done"} THEN <<in_data>> ELSE <<>>
      BY DEF TminInv, CaseBehaves, Finalize, WriteOutput, StopTmin
    <2> QED BY <1>1, <1>2, <2>1 DEF TminInv, CaseBehaves, Working
  <1>6. BytesTried'
    BY <1>1, <1>2 DEF TminInv, BytesTried
  <1> QED BY <1>3, <1>4, <1>5, <1>6 DEF TminInv

LEMMA TminNextInv == TminInv /\ [TminNext]_tminVars => TminInv'
  <1>1. TminInv /\ UNCHANGED tminVars => TminInv'
    BY DEF TminInv, TminTypes, BlockFits, CaseBehaves, BytesTried, Behaves, Keeps, Tried, in_len, tminVars, cursorVars
  <1> QED BY <1>1, DryRunKeeps, NormalizeKeeps, NextPassKeeps, DeleteKeeps, DeletionDoneKeeps,
          ReplaceSymbolKeeps, ReplaceCharacterKeeps, EndingKeeps DEF TminNext

\* What afl-tmin writes behaves as the test case did in the dry run, whenever it
\* is stopped, and when it has come to its end none of the bytes can be left out.
THEOREM MinimizedCase == TminSpec => []TminKept
  <1>1. TminInv => TminKept
    <2> SUFFICES ASSUME TminInv PROVE TminKept
      OBVIOUS
    <2>1. BehaviourKept
      <3>1. ASSUME Behaves
            PROVE  /\ outcome[1] = (IF crash_mode THEN "crash" ELSE "exit")
                   /\ (exact_mode \/ ~crash_mode) => outcome[2] = "same"
        BY <3>1 DEF Behaves, Keeps, Outcomes
      <3> QED BY <3>1 DEF TminInv, TminTypes, TminSteps, Working, CaseBehaves, BehaviourKept
    <2>2. NoByteToSpare
      BY DEF TminInv, BytesTried, NoByteToSpare, Tried
    <2> QED BY <2>1, <2>2 DEF TminKept
  <1> QED BY <1>1, TminInitInv, TminNextInv, PTL DEF TminSpec

-----------------------------------------------------------------------------
(* The edges of a function: the numbers they are given are pairwise different. *)

SourceEdges == UNION {EdgesOf(b) : b \in Blocks}
RecordedEdges == UNION {EdgesOf(b) : b \in Recorded}
Succ(e) == source.succ[e[1]][e[2]]

\* The only edge of the source into the block it leads to.
Sole(e) == \A f \in SourceEdges : Succ(f) = Succ(e) => f = e

GraphTypes ==
  /\ source \in Graphs
  /\ target \in Seq(Seq(Nat)) /\ Len(target) >= Len(source.term)
  /\ counter \in Seq(Nat) /\ Len(counter) = Len(target)
  /\ left \subseteq RecordedEdges
  /\ edge_count \in Nat \ {0}
  /\ edge_id \in [SourceEdges -> Nat]
  /\ has_dict \subseteq Blocks

\* The pass has been at the edge.
Taken(e) == e \in RecordedEdges \ left

\* An edge leads to its block as before, or to a new block that is entered by
\* nothing else and leads there.
Direct(e) == Via(e) = Succ(e)
Detour(e) ==
  /\ Via(e) \in Len(source.term) + 1 .. Len(target)
  /\ target[Via(e)] = <<Succ(e)>>
GraphShape ==
  /\ \A b \in Blocks : Len(target[b]) = Len(source.succ[b])
  /\ \A e \in SourceEdges : Direct(e) \/ Detour(e)
  /\ \A e \in SourceEdges : ~Taken(e) => Direct(e)
  /\ \A e, f \in SourceEdges : Via(e) = Via(f) /\ Detour(e) => e = f
  /\ \A b \in Len(source.term) + 1 .. Len(target) : \E e \in SourceEdges : Via(e) = b /\ Detour(e)

\* An edge has its number and its counter where it was left a block of its own
\* to put it in, or got one.
CountersFit ==
  /\ pass \in {"run", "done"}
  /\ pass = "done" => left = {}
  /\ \A e \in SourceEdges : edge_id[e] = 0 <=> ~Taken(e)
  /\ \A e \in SourceEdges : edge_id[e] < edge_count
  /\ \A e, f \in SourceEdges : edge_id[e] = edge_id[f] => e = f \/ edge_id[e] = 0
  /\ \A e \in SourceEdges : Taken(e) => counter[Via(e)] = edge_id[e] /\ (Direct(e) <=> Sole(e))
  /\ \A b \in Blocks : counter[b] # 0 => \E e \in SourceEdges : Succ(e) = b /\ Sole(e) /\ Taken(e)

WordsFit ==
  /\ \A e \in SourceEdges : Taken(e) => \A w \in {e[1], Succ(e)} \cap has_dict : <<w, edge_id[e]>> \in dict
  /\ \A d \in dict : \E e \in SourceEdges : Taken(e) /\ edge_id[e] = d[2] /\ d[1] \in {e[1], Succ(e)}

EdgesInv == GraphTypes /\ GraphShape /\ CountersFit /\ WordsFit

\* What the source is.
LEMMA SourceGraph ==
  ASSUME source \in Graphs
  PROVE  /\ Len(source.term) \in Nat
         /\ Len(source.succ) = Len(source.term) /\ DOMAIN source.succ = Blocks
         /\ \A b \in Blocks : source.succ[b] \in Seq(Blocks)
         /\ \A b \in Blocks : source.succ[b] \in [1 .. Len(source.succ[b]) -> Blocks] /\ Len(source.succ[b]) \in Nat
  <1>1. /\ source.term \in Seq(Ends \cup {"jump"} \cup Conditional)
        /\ source.succ \in Seq(Seq(Blocks)) /\ Len(source.succ) = Len(source.term)
    BY GraphsAssumption DEF Blocks
  <1>2. Len(source.term) \in Nat /\ DOMAIN source.succ = Blocks
    BY <1>1, LenProperties DEF Blocks
  <1>3. \A b \in Blocks : source.succ[b] \in Seq(Blocks)
    BY <1>1, <1>2, ElementOfSeq DEF Blocks
  <1>4. \A b \in Blocks : source.succ[b] \in [1 .. Len(source.succ[b]) -> Blocks] /\ Len(source.succ[b]) \in Nat
    BY <1>3, LenProperties
  <1> QED BY <1>1, <1>2, <1>3, <1>4

LEMMA EdgeKinds ==
  /\ \A e : e \in SourceEdges <=> \E b \in Blocks : \E k \in 1 .. Len(source.succ[b]) : e = <<b, k>>
  /\ \A e : e \in RecordedEdges <=> e \in SourceEdges /\ e[1] \in Recorded
  <1>1. \A e : e \in SourceEdges <=> \E b \in Blocks : \E k \in 1 .. Len(source.succ[b]) : e = <<b, k>>
    BY DEF SourceEdges, EdgesOf
  <1>2. \A e : e \in RecordedEdges <=> \E b \in Recorded : \E k \in 1 .. Len(source.succ[b]) : e = <<b, k>>
    BY DEF RecordedEdges, EdgesOf
  <1>3. Recorded \subseteq Blocks
    BY DEF Recorded
  <1> QED BY <1>1, <1>2, <1>3

\* The ways into a block of the source are the edges that lead to it directly
\* and the blocks on the others.
LEMMA EnteringKinds ==
  ASSUME GraphTypes, GraphShape, NEW c \in Blocks
  PROVE  \A x : x \in Entering(c) <=>
           \E e \in SourceEdges : Succ(e) = c /\ x = IF Direct(e) THEN e ELSE <<Via(e), 1>>
  <1>1. /\ Len(source.term) \in Nat /\ Len(target) \in Nat /\ Len(source.term) <= Len(target)
        /\ \A b \in Blocks : b \in Int
    BY SourceGraph, LenProperties DEF GraphTypes, Blocks
  <1>2. \A x : x \in Entering(c) <=>
          \E p \in 1 .. Len(target) : \E k \in 1 .. Len(target[p]) : x = <<p, k>> /\ target[p][k] = c
    BY DEF Entering, Leaving
  <1>3. ASSUME NEW x, x \in Entering(c)
        PROVE  \E e \in SourceEdges : Succ(e) = c /\ x = IF Direct(e) THEN e ELSE <<Via(e), 1>>
    <2>1. PICK p \in 1 .. Len(target) : \E k \in 1 .. Len(target[p]) : x = <<p, k>> /\ target[p][k] = c
      BY <1>2, <1>3
    <2>2. PICK k \in 1 .. Len(target[p]) : x = <<p, k>> /\ target[p][k] = c
      BY <2>1
    <2>3. CASE p \in Blocks
      <3>1. x \in SourceEdges
        BY <2>2, <2>3, EdgeKinds DEF GraphShape
      <3>2. Via(x) = c
        BY <2>2 DEF Via
      <3>3. Direct(x)
        BY <3>1, <3>2, <1>1 DEF GraphShape, Detour, Blocks
      <3> QED BY <3>1, <3>2, <3>3 DEF Direct
    <2>4. CASE p \notin Blocks
      <3>1. p \in Len(source.term) + 1 .. Len(target)
        BY <2>4, <1>1 DEF Blocks
      <3>2. PICK e \in SourceEdges : Via(e) = p /\ Detour(e)
        BY <3>1 DEF GraphShape
      <3>3. target[p] = <<Succ(e)>>
        BY <3>2 DEF Detour
      <3>4. k = 1 /\ Succ(e) = c
        BY <3>3, <2>2
      <3>5. ~Direct(e)
        BY <3>1, <3>2, <3>4, <1>1 DEF Direct, Blocks
      <3> QED BY <2>2, <3>2, <3>4, <3>5
    <2> QED BY <2>3, <2>4
  <1>4. ASSUME NEW e \in SourceEdges, Succ(e) = c, NEW x, x = IF Direct(e) THEN e ELSE <<Via(e), 1>>
        PROVE  x \in Entering(c)
    <2>1. CASE Direct(e)
      <3>1. PICK b \in Blocks : \E k \in 1 .. Len(source.succ[b]) : e = <<b, k>>
        BY EdgeKinds
      <3>2. PICK k \in 1 .. Len(source.succ[b]) : e = <<b, k>>
        BY <3>1
      <3>3. b \in 1 .. Len(target) /\ k \in 1 .. Len(target[b])
        BY <3>2, <1>1 DEF GraphShape, Blocks
      <3>4. target[b][k] = c
        BY <2>1, <3>2, <1>4 DEF Direct, Via
      <3> QED BY <2>1, <3>2, <3>3, <3>4, <1>2, <1>4
    <2>2. CASE ~Direct(e)
      <3>1. Detour(e)
        BY <2>2 DEF GraphShape
      <3>2. Via(e) \in 1 .. Len(target) /\ target[Via(e)] = <<c>>
        BY <3>1, <1>1, <1>4 DEF Detour
      <3>3. 1 \in 1 .. Len(target[Via(e)]) /\ target[Via(e)][1] = c
        BY <3>2
      <3> QED BY <2>2, <3>2, <3>3, <1>2, <1>4
    <2> QED BY <2>1, <2>2
  <1> QED BY <1>3, <1>4

LEMMA SuccInside ==
  ASSUME source \in Graphs, NEW e \in SourceEdges
  PROVE  Succ(e) \in Blocks
  <1>1. PICK b \in Blocks : \E k \in 1 .. Len(source.succ[b]) : e = <<b, k>>
    BY EdgeKinds
  <1>2. PICK k \in 1 .. Len(source.succ[b]) : e = <<b, k>>
    BY <1>1
  <1>3. source.succ[b][k] \in Blocks
    BY <1>2, SourceGraph
  <1> QED BY <1>2, <1>3 DEF Succ

LEMMA ViaInside ==
  ASSUME GraphTypes, GraphShape, NEW e \in SourceEdges
  PROVE  Via(e) \in 1 .. Len(target)
  <1>1. Succ(e) \in Blocks /\ Len(source.term) \in Nat /\ Len(target) \in Nat /\ Len(source.term) <= Len(target)
    BY SuccInside, SourceGraph, LenProperties DEF GraphTypes
  <1>2. CASE Direct(e)
    BY <1>1, <1>2 DEF Direct, Blocks
  <1>3. CASE Detour(e)
    BY <1>1, <1>3 DEF Detour
  <1> QED BY <1>2, <1>3 DEF GraphShape

\* getSinglePredecessor() answers as it would for the program before the pass.
LEMMA SingleIsSole ==
  ASSUME GraphTypes, GraphShape, NEW e \in SourceEdges, Direct(e)
  PROVE  SinglePredecessor(Succ(e)) <=> Sole(e)
  <1> DEFINE c == Succ(e)
             At(f) == IF Direct(f) THEN f ELSE <<Via(f), 1>>
  <1>1. c \in Blocks /\ Len(source.term) \in Nat
    BY SuccInside, SourceGraph DEF GraphTypes
  <1>2. \A x : x \in Entering(c) <=> \E f \in SourceEdges : Succ(f) = c /\ x = At(f)
    BY <1>1, EnteringKinds
  <1>3. At(e) = e /\ e \in Entering(c)
    BY <1>2
  <1>4. ASSUME Sole(e) PROVE SinglePredecessor(c)
    <2>1. \A x : x \in Entering(c) => x = e
      BY <1>2, <1>3, <1>4 DEF Sole
    <2>2. Entering(c) = {e}
      BY <2>1, <1>3
    <2> QED BY <2>2 DEF SinglePredecessor
  <1>5. ASSUME SinglePredecessor(c), NEW f \in SourceEdges, Succ(f) = c PROVE f = e
    <2>1. At(f) = e
      <3>1. At(f) \in Entering(c)
        BY <1>2, <1>5
      <3>2. PICK x \in Entering(c) : Entering(c) = {x}
        BY <1>5 DEF SinglePredecessor
      <3>3. At(f) = x /\ e = x
        <4> HIDE DEF At
        <4> QED BY <3>1, <3>2, <1>3
      <3> QED BY <3>3
    <2>2. CASE Direct(f)
      BY <2>1, <2>2
    <2>3. CASE ~Direct(f)
      <3>1. Via(f) = e[1] /\ Detour(f)
        BY <2>1, <2>3 DEF GraphShape
      <3>2. e[1] \in Blocks
        BY EdgeKinds
      <3> QED BY <3>1, <3>2, <1>1 DEF Detour, Blocks
    <2> QED BY <2>2, <2>3
  <1> QED BY <1>4, <1>5 DEF Sole

-----------------------------------------------------------------------------
LEMMA EdgesInitInv == EdgesInit => EdgesInv
  <1> SUFFICES ASSUME EdgesInit PROVE EdgesInv
    OBVIOUS
  <1>1. /\ Len(source.term) \in Nat /\ Len(source.succ) = Len(source.term)
        /\ source.succ \in Seq(Seq(Nat))
        /\ \A b \in Blocks : source.succ[b] \in [1 .. Len(source.succ[b]) -> Blocks] /\ Len(source.succ[b]) \in Nat
    <2>1. source.succ \in Seq(Seq(Blocks))
      BY GraphsAssumption DEF Blocks, EdgesInit
    <2>2. Seq(Blocks) \subseteq Seq(Nat)
      BY SeqMonotonic DEF Blocks
    <2> QED BY <2>1, <2>2, SourceGraph, SeqMonotonic DEF EdgesInit
  <1>2. counter \in Seq(Nat) /\ Len(counter) = Len(source.term)
    <2>1. counter \in [1 .. Len(source.term) -> Nat]
      BY DEF EdgesInit, Blocks
    <2> DEFINE n == Len(source.term)
    <2>2. n \in Nat /\ counter \in [1 .. n -> Nat]
      BY <2>1, <1>1
    <2> HIDE DEF n
    <2>3. counter \in Seq(Nat) /\ Len(counter) = n
      BY <2>2, SeqDef
    <2> QED BY <2>3 DEF n
  <1>3. left = RecordedEdges /\ edge_id = [e \in SourceEdges |-> 0]
    BY DEF EdgesInit, RecordedEdges, SourceEdges
  <1>4. GraphTypes
    BY <1>1, <1>2, <1>3 DEF GraphTypes, EdgesInit
  <1>5. \A e : Direct(e)
    BY DEF Direct, Via, Succ, EdgesInit
  <1>6. GraphShape
    <2>1. \A b \in Blocks : Len(target[b]) = Len(source.succ[b])
      BY DEF EdgesInit
    <2>2. \A b : b \notin Len(source.term) + 1 .. Len(target)
      BY <1>1 DEF EdgesInit
    <2> QED BY <2>1, <2>2, <1>5 DEF GraphShape, Detour
  <1>7. CountersFit
    <2>1. \A e : ~Taken(e)
      BY <1>3 DEF Taken
    <2>2. \A b \in Blocks : counter[b] = 0
      BY DEF EdgesInit
    <2> QED BY <2>1, <2>2, <1>3 DEF CountersFit, EdgesInit
  <1>8. WordsFit
    BY <1>3 DEF WordsFit, EdgesInit, Taken
  <1> QED BY <1>4, <1>6, <1>7, <1>8 DEF EdgesInv

\* A step on one edge: what all of it has in common.
InstrumentEdge(e) ==
  /\ pass = "run" /\ e \in left
  /\ dict' = dict \cup (WordsOfEdge(e[1], Via(e)) \X {edge_count})
  /\ edge_id' = [edge_id EXCEPT ![e] = edge_count]
  /\ left' = left \ {e}
  /\ edge_count' = edge_count + 1
  /\ UNCHANGED <<source, has_dict>>

InPlace(e) ==
  /\ SinglePredecessor(Via(e))
  /\ counter' = [counter EXCEPT ![Via(e)] = edge_count]
  /\ pass' = IF counter[Via(e)] # 0 THEN "failed" ELSE pass
  /\ UNCHANGED target

OnTheEdge(e) ==
  /\ ~SinglePredecessor(Via(e))
  /\ target' = Append([target EXCEPT ![e[1]][e[2]] = Len(target) + 1], <<Via(e)>>)
  /\ counter' = Append(counter, edge_count)
  /\ UNCHANGED pass

LEMMA InstrumentKinds == Instrument => \E e \in left : InstrumentEdge(e) /\ (InPlace(e) \/ OnTheEdge(e))
  BY DEF Instrument, InstrumentEdge, InPlace, OnTheEdge, Via

\* What the edge is.
LEMMA EdgeAtHand ==
  ASSUME EdgesInv, NEW e, InstrumentEdge(e)
  PROVE  /\ e \in SourceEdges /\ e \in RecordedEdges /\ ~Taken(e) /\ Direct(e)
         /\ Via(e) = Succ(e) /\ Succ(e) \in Blocks
         /\ \E b \in Blocks : \E k \in 1 .. Len(target[b]) : e = <<b, k>>
  <1>1. e \in RecordedEdges /\ e \in SourceEdges /\ Direct(e) /\ ~Taken(e)
    BY EdgeKinds DEF InstrumentEdge, EdgesInv, GraphTypes, GraphShape, Taken
  <1>2. PICK b \in Blocks : \E k \in 1 .. Len(source.succ[b]) : e = <<b, k>>
    BY <1>1, EdgeKinds
  <1>3. PICK k \in 1 .. Len(source.succ[b]) : e = <<b, k>>
    BY <1>2
  <1>4. source.succ[b][k] \in Blocks
    BY <1>3, SourceGraph DEF EdgesInv, GraphTypes
  <1>5. Len(target[b]) = Len(source.succ[b])
    BY DEF EdgesInv, GraphShape
  <1> QED BY <1>1, <1>3, <1>4, <1>5 DEF Succ, Direct

\* The words, whichever way.
LEMMA WordsStep ==
  ASSUME EdgesInv, NEW e, InstrumentEdge(e)
  PROVE  /\ \A f : Taken(f)' <=> Taken(f) \/ f = e
         /\ \A f : Succ(f)' = Succ(f)
         /\ SourceEdges' = SourceEdges /\ RecordedEdges' = RecordedEdges /\ Blocks' = Blocks
         /\ \A f : Sole(f)' <=> Sole(f)
         /\ \A f \in SourceEdges : edge_id'[f] = IF f = e THEN edge_count ELSE edge_id[f]
         /\ edge_id' \in [SourceEdges -> Nat]
         /\ WordsFit'
  <1>1. e \in SourceEdges /\ e \in RecordedEdges /\ ~Taken(e) /\ Via(e) = Succ(e)
    BY EdgeAtHand
  <1>2. source' = source /\ has_dict' = has_dict /\ left' = left \ {e}
    BY DEF InstrumentEdge
  <1>3. SourceEdges' = SourceEdges /\ RecordedEdges' = RecordedEdges /\ Blocks' = Blocks /\ \A f : Succ(f)' = Succ(f)
    BY <1>2 DEF SourceEdges, RecordedEdges, Blocks, EdgesOf, Recorded, Succ
  <1>4. \A f : Taken(f)' <=> Taken(f) \/ f = e
    BY <1>1, <1>2, <1>3 DEF Taken
  <1>5. \A f : Sole(f)' <=> Sole(f)
    BY <1>3 DEF Sole
  <1>6. /\ \A f \in SourceEdges : edge_id'[f] = IF f = e THEN edge_count ELSE edge_id[f]
        /\ edge_id' \in [SourceEdges -> Nat]
    BY DEF InstrumentEdge, EdgesInv, GraphTypes
  <1>7. \A d : d \in dict' <=> d \in dict \/ \E w \in {e[1], Succ(e)} \cap has_dict : d = <<w, edge_count>>
    BY <1>1 DEF InstrumentEdge, WordsOfEdge
  <1>8. ASSUME NEW f \in SourceEdges, Taken(f) \/ f = e, NEW w \in {f[1], Succ(f)} \cap has_dict
        PROVE  <<w, edge_id'[f]>> \in dict'
    <2>1. CASE f = e
      BY <2>1, <1>6, <1>7, <1>8
    <2>2. CASE f # e
      BY <2>2, <1>6, <1>7, <1>8 DEF EdgesInv, WordsFit
    <2> QED BY <2>1, <2>2
  <1>9. ASSUME NEW d \in dict' 
        PROVE  \E f \in SourceEdges : (Taken(f) \/ f = e) /\ edge_id'[f] = d[2] /\ d[1] \in {f[1], Succ(f)}
    <2>1. CASE d \in dict
      <3>1. PICK f \in SourceEdges : Taken(f) /\ edge_id[f] = d[2] /\ d[1] \in {f[1], Succ(f)}
        BY <2>1 DEF EdgesInv, WordsFit
      <3> QED BY <3>1, <1>1, <1>6
    <2>2. CASE d \notin dict
      BY <2>2, <1>1, <1>6, <1>7
    <2> QED BY <2>1, <2>2
  <1> QED BY <1>3, <1>4, <1>5, <1>6, <1>8, <1>9, <1>2 DEF WordsFit

\* The counter goes to the block the edge leads to.
LEMMA InPlaceKeeps ==
  ASSUME EdgesInv, NEW e, InstrumentEdge(e), InPlace(e)
  PROVE  EdgesInv'
  <1>1. /\ e \in SourceEdges /\ e \in RecordedEdges /\ ~Taken(e) /\ Direct(e)
        /\ Via(e) = Succ(e) /\ Succ(e) \in Blocks
    BY EdgeAtHand
  <1>2. Sole(e)
    BY <1>1, SingleIsSole DEF EdgesInv, InPlace
  <1>3. /\ \A f : Taken(f)' <=> Taken(f) \/ f = e
        /\ \A f : Succ(f)' = Succ(f)
        /\ SourceEdges' = SourceEdges /\ RecordedEdges' = RecordedEdges /\ Blocks' = Blocks
        /\ \A f : Sole(f)' <=> Sole(f)
        /\ \A f \in SourceEdges : edge_id'[f] = IF f = e THEN edge_count ELSE edge_id[f]
        /\ edge_id' \in [SourceEdges -> Nat]
        /\ WordsFit'
    BY WordsStep
  <1>4. /\ source' = source /\ target' = target /\ has_dict' = has_dict /\ left' = left \ {e}
        /\ edge_count' = edge_count + 1 /\ edge_count \in Nat \ {0}
        /\ Len(target) \in Nat /\ Len(source.term) \in Nat
    BY SourceGraph, LenProperties DEF InstrumentEdge, InPlace, EdgesInv, GraphTypes
  <1>5. /\ counter' \in Seq(Nat) /\ Len(counter') = Len(counter)
        /\ \A b \in 1 .. Len(counter) : counter'[b] = IF b = Succ(e) THEN edge_count ELSE counter[b]
    <2>1. counter \in Seq(Nat) /\ Succ(e) \in 1 .. Len(counter) /\ edge_count \in Nat
      BY <1>1, <1>4 DEF EdgesInv, GraphTypes, Blocks
    <2>2. counter' = [counter EXCEPT ![Succ(e)] = edge_count]
      BY <1>1 DEF InPlace
    <2> QED BY <2>1, <2>2, ExceptSeq
  \* The assertion holds: whoever counted there came by the same edge.
  <1>6. counter[Succ(e)] = 0
    BY <1>1, <1>2 DEF EdgesInv, CountersFit, Sole
  <1>7. pass' = "run"
    BY <1>1, <1>6 DEF InPlace, InstrumentEdge
  <1>8. GraphTypes'
    BY <1>3, <1>4, <1>5 DEF EdgesInv, GraphTypes
  <1>9. \A f : Via(f)' = Via(f) /\ (Direct(f)' <=> Direct(f)) /\ (Detour(f)' <=> Detour(f))
    BY <1>3, <1>4 DEF Via, Direct, Detour
  <1>10. GraphShape'
    BY <1>3, <1>4, <1>9 DEF EdgesInv, GraphShape
  <1>11. CountersFit'
    <2>1. \A f \in SourceEdges : edge_id'[f] = 0 <=> ~(Taken(f) \/ f = e)
      BY <1>3, <1>4 DEF EdgesInv, CountersFit
    <2>2. ASSUME NEW f \in SourceEdges PROVE edge_id'[f] < edge_count + 1
      <3>1. edge_id[f] \in Nat /\ edge_id[f] < edge_count
        BY DEF EdgesInv, GraphTypes, CountersFit
      <3> QED BY <3>1, <1>3, <1>4
    <2>3. ASSUME NEW f \in SourceEdges, NEW g \in SourceEdges, edge_id'[f] = edge_id'[g]
          PROVE  f = g \/ edge_id'[f] = 0
      <3>1. edge_id[f] \in Nat /\ edge_id[f] < edge_count /\ edge_id[g] \in Nat /\ edge_id[g] < edge_count
        BY DEF EdgesInv, GraphTypes, CountersFit
      <3>2. edge_id[f] = edge_id[g] => f = g \/ edge_id[f] = 0
        BY DEF EdgesInv, CountersFit
      <3> QED BY <3>1, <3>2, <2>3, <1>3, <1>4
    <2>4. ASSUME NEW f \in SourceEdges, Taken(f) \/ f = e
          PROVE  counter'[Via(f)] = edge_id'[f] /\ (Direct(f) <=> Sole(f))
      <3>1. CASE f = e
        <4>1. Succ(e) \in 1 .. Len(counter)
          BY <1>1, <1>4 DEF EdgesInv, GraphTypes, Blocks
        <4> QED BY <3>1, <4>1, <1>1, <1>2, <1>3, <1>5
      <3>2. CASE f # e
        <4>1. Taken(f) /\ counter[Via(f)] = edge_id[f] /\ (Direct(f) <=> Sole(f)) /\ edge_id'[f] = edge_id[f]
          BY <3>2, <2>4, <1>3 DEF EdgesInv, CountersFit
        <4>2. Via(f) # Succ(e)
          <5>1. CASE Direct(f)
            BY <5>1, <3>2, <1>2 DEF Direct, Sole
          <5>2. CASE Detour(f)
            BY <5>2, <1>1, <1>4 DEF Detour, Blocks
          <5> QED BY <5>1, <5>2 DEF EdgesInv, GraphShape
        <4>3. Via(f) \in 1 .. Len(counter)
          BY ViaInside DEF EdgesInv, GraphTypes
        <4> QED BY <4>1, <4>2, <4>3, <1>5
      <3> QED BY <3>1, <3>2
    <2>5. ASSUME NEW b \in Blocks, counter'[b] # 0
          PROVE  \E f \in SourceEdges : Succ(f) = b /\ Sole(f) /\ (Taken(f) \/ f = e)
      <3>1. CASE b = Succ(e)
        BY <3>1, <1>1, <1>2
      <3>2. CASE b # Succ(e)
        <4>1. b \in 1 .. Len(counter)
          BY <1>4 DEF EdgesInv, GraphTypes, Blocks
        <4> QED BY <3>2, <4>1, <2>5, <1>5 DEF EdgesInv, CountersFit
      <3> QED BY <3>1, <3>2
    <2> QED BY <2>1, <2>2, <2>3, <2>4, <2>5, <1>3, <1>4, <1>7, <1>9 DEF CountersFit
  <1> QED BY <1>3, <1>8, <1>10, <1>11 DEF EdgesInv

\* What the counter of an edge elsewhere says stays, when a block is added.
LEMMA OnTheEdgeShape ==
  ASSUME EdgesInv, NEW e, InstrumentEdge(e), OnTheEdge(e)
  PROVE  /\ target' \in Seq(Seq(Nat)) /\ Len(target') = Len(target) + 1
         /\ target'[Len(target) + 1] = <<Succ(e)>>
         /\ \A p \in 1 .. Len(target) : Len(target'[p]) = Len(target[p])
         /\ \A p \in 1 .. Len(target) : p # e[1] => target'[p] = target[p]
         /\ Via(e)' = Len(target) + 1
         /\ \A f \in SourceEdges : f # e => Via(f)' = Via(f)
         /\ counter' \in Seq(Nat) /\ Len(counter') = Len(counter) + 1
         /\ counter'[Len(counter) + 1] = edge_count
         /\ \A b \in 1 .. Len(counter) : counter'[b] = counter[b]
  <1>1. e \in SourceEdges /\ Via(e) = Succ(e) /\ Succ(e) \in Blocks
    BY EdgeAtHand
  <1>2. PICK b \in Blocks : \E k \in 1 .. Len(target[b]) : e = <<b, k>>
    BY EdgeAtHand
  <1>3. PICK k \in 1 .. Len(target[b]) : e = <<b, k>>
    BY <1>2
  <1> DEFINE L == Len(target)
             row == [target[b] EXCEPT ![k] = L + 1]
             redirected == [target EXCEPT ![b] = row]
  <1>4. target \in Seq(Seq(Nat)) /\ L \in Nat /\ Len(source.term) \in Nat /\ b \in 1 .. L /\ target[b] \in Seq(Nat)
    <2>1. target \in Seq(Seq(Nat)) /\ L \in Nat /\ Len(source.term) \in Nat /\ b \in 1 .. L
      BY SourceGraph, LenProperties DEF EdgesInv, GraphTypes, Blocks
    <2> QED BY <2>1, ElementOfSeq
  <1>5. /\ row \in Seq(Nat) /\ Len(row) = Len(target[b])
        /\ \A j \in 1 .. Len(target[b]) : row[j] = IF j = k THEN L + 1 ELSE target[b][j]
    <2>1. L + 1 \in Nat
      BY <1>4
    <2> HIDE DEF L
    <2> QED BY <2>1, <1>4, ExceptSeq
  <1>6. target' = Append(redirected, <<Succ(e)>>)
    <2>1. target' = Append([target EXCEPT ![e[1]][e[2]] = L + 1], <<Succ(e)>>)
      BY <1>1 DEF OnTheEdge
    <2>2. e[1] = b /\ e[2] = k
      BY <1>3
    <2> QED BY <2>1, <2>2
  <1> HIDE DEF row
  <1>7. /\ redirected \in Seq(Seq(Nat)) /\ Len(redirected) = L
        /\ \A p \in 1 .. L : redirected[p] = IF p = b THEN row ELSE target[p]
    BY <1>4, <1>5, ExceptSeq
  <1> HIDE DEF redirected
  <1>8. <<Succ(e)>> \in Seq(Nat)
    BY <1>1 DEF Blocks
  <1>9. /\ target' \in Seq(Seq(Nat)) /\ Len(target') = L + 1
        /\ target'[L + 1] = <<Succ(e)>>
        /\ \A p \in 1 .. L : target'[p] = redirected[p]
    BY <1>6, <1>7, <1>8, AppendProperties
  <1>10. Via(e)' = L + 1
    BY <1>3, <1>4, <1>5, <1>7, <1>9 DEF Via
  <1>11. ASSUME NEW f \in SourceEdges, f # e PROVE Via(f)' = Via(f)
    <2>1. PICK p \in Blocks : \E j \in 1 .. Len(source.succ[p]) : f = <<p, j>>
      BY EdgeKinds
    <2>2. PICK j \in 1 .. Len(source.succ[p]) : f = <<p, j>>
      BY <2>1
    <2>3. p \in 1 .. L /\ j \in 1 .. Len(target[p])
      <3>1. Len(target[p]) = Len(source.succ[p])
        BY DEF EdgesInv, GraphShape
      <3>2. p \in 1 .. Len(source.term) /\ Len(source.term) <= L
        BY DEF EdgesInv, GraphTypes, Blocks
      <3> HIDE DEF L
      <3> QED BY <3>1, <3>2, <2>2, <1>4
    <2>4. CASE p = b
      <3>1. j # k
        BY <2>2, <2>4, <1>3, <1>11
      <3>2. target'[p][j] = target[p][j]
        BY <2>3, <2>4, <3>1, <1>5, <1>7, <1>9
      <3> QED BY <2>2, <3>2 DEF Via
    <2>5. CASE p # b
      BY <2>2, <2>3, <2>5, <1>7, <1>9 DEF Via
    <2> QED BY <2>4, <2>5
  <1>12. /\ counter' \in Seq(Nat) /\ Len(counter') = Len(counter) + 1
         /\ counter'[Len(counter) + 1] = edge_count
         /\ \A p \in 1 .. Len(counter) : counter'[p] = counter[p]
    <2>1. counter \in Seq(Nat) /\ edge_count \in Nat /\ counter' = Append(counter, edge_count)
      BY DEF EdgesInv, GraphTypes, OnTheEdge
    <2> QED BY <2>1, AppendProperties
  <1>13. \A p \in 1 .. L : Len(target'[p]) = Len(target[p])
    BY <1>5, <1>7, <1>9
  <1>14. \A p \in 1 .. L : p # e[1] => target'[p] = target[p]
    BY <1>3, <1>7, <1>9
  <1> QED BY <1>9, <1>10, <1>11, <1>12, <1>13, <1>14

\* The counter goes to a new block, as the block it leads to is entered otherwise, too.
LEMMA OnTheEdgeKeeps ==
  ASSUME EdgesInv, NEW e, InstrumentEdge(e), OnTheEdge(e)
  PROVE  EdgesInv'
  <1> DEFINE L == Len(target)
             n == Len(source.term)
  <1>1. /\ e \in SourceEdges /\ e \in RecordedEdges /\ ~Taken(e) /\ Direct(e)
        /\ Via(e) = Succ(e) /\ Succ(e) \in Blocks /\ e[1] \in Blocks
    BY EdgeAtHand, EdgeKinds
  <1>2. ~Sole(e)
    BY <1>1, SingleIsSole DEF EdgesInv, OnTheEdge
  <1>3. /\ \A f : Taken(f)' <=> Taken(f) \/ f = e
        /\ \A f : Succ(f)' = Succ(f)
        /\ SourceEdges' = SourceEdges /\ RecordedEdges' = RecordedEdges /\ Blocks' = Blocks
        /\ \A f : Sole(f)' <=> Sole(f)
        /\ \A f \in SourceEdges : edge_id'[f] = IF f = e THEN edge_count ELSE edge_id[f]
        /\ edge_id' \in [SourceEdges -> Nat]
        /\ WordsFit'
    BY WordsStep
  <1>4. /\ source' = source /\ has_dict' = has_dict /\ left' = left \ {e} /\ pass' = "run"
        /\ edge_count' = edge_count + 1 /\ edge_count \in Nat \ {0}
        /\ L \in Nat /\ n \in Nat /\ n <= L /\ Len(counter) = L
        /\ Blocks = 1 .. n
    BY SourceGraph, LenProperties DEF InstrumentEdge, OnTheEdge, EdgesInv, GraphTypes, Blocks
  <1>5. /\ target' \in Seq(Seq(Nat)) /\ Len(target') = L + 1
        /\ target'[L + 1] = <<Succ(e)>>
        /\ \A p \in 1 .. L : Len(target'[p]) = Len(target[p])
        /\ \A p \in 1 .. L : p # e[1] => target'[p] = target[p]
        /\ Via(e)' = L + 1
        /\ \A f \in SourceEdges : f # e => Via(f)' = Via(f)
        /\ counter' \in Seq(Nat) /\ Len(counter') = L + 1
        /\ counter'[L + 1] = edge_count
        /\ \A b \in 1 .. L : counter'[b] = counter[b]
    BY <1>4, OnTheEdgeShape
  <1> HIDE DEF L, n
  <1>6. \A f \in SourceEdges : Via(f) \in 1 .. L
    BY ViaInside DEF EdgesInv, L
  <1>7. GraphTypes'
    <2>1. n <= L + 1
      BY <1>4
    <2> QED BY <2>1, <1>3, <1>4, <1>5 DEF EdgesInv, GraphTypes, n
  <1>8. Detour(e)' /\ ~Direct(e)'
    <2>1. L + 1 \in n + 1 .. L + 1 /\ L + 1 \notin Blocks
      BY <1>4
    <2>2. Detour(e)'
      BY <2>1, <1>3, <1>4, <1>5 DEF Detour, n
    <2>3. ~Direct(e)'
      BY <2>1, <1>1, <1>3, <1>5 DEF Direct
    <2> QED BY <2>2, <2>3
  <1>9. ASSUME NEW f \in SourceEdges, f # e
        PROVE  (Direct(f)' <=> Direct(f)) /\ (Detour(f)' <=> Detour(f))
    <2>1. Via(f)' = Via(f) /\ Succ(f)' = Succ(f) /\ Via(f) \in 1 .. L
      BY <1>3, <1>5, <1>6, <1>9
    <2>2. Via(f) \in n + 1 .. L => target'[Via(f)] = target[Via(f)]
      <3>1. \A p \in n + 1 .. L : p \in 1 .. L /\ p \notin Blocks
        BY <1>4
      <3> QED BY <3>1, <1>1, <1>5
    <2>3. Via(f) \in n + 1 .. L + 1 <=> Via(f) \in n + 1 .. L
      BY <2>1, <1>4
    <2>4. Direct(f)' <=> Direct(f)
      BY <2>1 DEF Direct
    <2>5. Detour(f)' <=> Via(f) \in n + 1 .. L + 1 /\ target'[Via(f)] = <<Succ(f)>>
      BY <2>1, <1>4, <1>5 DEF Detour, n
    <2>6. Detour(f) <=> Via(f) \in n + 1 .. L /\ target[Via(f)] = <<Succ(f)>>
      BY DEF Detour, n, L
    <2> QED BY <2>2, <2>3, <2>4, <2>5, <2>6
  <1>10. GraphShape'
    <2>1. \A b \in Blocks : Len(target'[b]) = Len(source.succ[b])
      BY <1>4, <1>5 DEF EdgesInv, GraphShape
    <2>2. \A f \in SourceEdges : Direct(f)' \/ Detour(f)'
      BY <1>8, <1>9 DEF EdgesInv, GraphShape
    <2>3. \A f \in SourceEdges : ~Taken(f)' => Direct(f)'
      BY <1>3, <1>9 DEF EdgesInv, GraphShape
    <2>4. ASSUME NEW f \in SourceEdges, NEW g \in SourceEdges, Via(f)' = Via(g)', Detour(f)' PROVE f = g
      <3>1. CASE f = e \/ g = e
        <4>1. L + 1 \notin 1 .. L
          BY <1>4
        <4> QED BY <3>1, <4>1, <2>4, <1>5, <1>6
      <3>2. CASE f # e /\ g # e
        BY <3>2, <2>4, <1>5, <1>9 DEF EdgesInv, GraphShape
      <3> QED BY <3>1, <3>2
    <2>5. ASSUME NEW b \in n + 1 .. L + 1 PROVE \E f \in SourceEdges : Via(f)' = b /\ Detour(f)'
      <3>1. CASE b = L + 1
        BY <3>1, <1>1, <1>5, <1>8
      <3>2. CASE b \in n + 1 .. L
        <4>1. PICK f \in SourceEdges : Via(f) = b /\ Detour(f)
          BY <3>2 DEF EdgesInv, GraphShape, n, L
        <4>2. f # e
          BY <4>1, <1>1, <3>2, <1>4
        <4> QED BY <4>1, <4>2, <1>5, <1>9
      <3> QED BY <3>1, <3>2, <1>4
    <2> QED BY <2>1, <2>2, <2>3, <2>4, <2>5, <1>3, <1>4, <1>5 DEF GraphShape, n
  <1>11. CountersFit'
    <2>1. \A f \in SourceEdges : edge_id'[f] = 0 <=> ~(Taken(f) \/ f = e)
      BY <1>3, <1>4 DEF EdgesInv, CountersFit
    <2>2. ASSUME NEW f \in SourceEdges PROVE edge_id'[f] < edge_count + 1
      <3>1. edge_id[f] \in Nat /\ edge_id[f] < edge_count
        BY DEF EdgesInv, GraphTypes, CountersFit
      <3> QED BY <3>1, <1>3, <1>4
    <2>3. ASSUME NEW f \in SourceEdges, NEW g \in SourceEdges, edge_id'[f] = edge_id'[g]
          PROVE  f = g \/ edge_id'[f] = 0
      <3>1. edge_id[f] \in Nat /\ edge_id[f] < edge_count /\ edge_id[g] \in Nat /\ edge_id[g] < edge_count
        BY DEF EdgesInv, GraphTypes, CountersFit
      <3>2. edge_id[f] = edge_id[g] => f = g \/ edge_id[f] = 0
        BY DEF EdgesInv, CountersFit
      <3> QED BY <3>1, <3>2, <2>3, <1>3, <1>4
    <2>4. ASSUME NEW f \in SourceEdges, Taken(f) \/ f = e
          PROVE  counter'[Via(f)'] = edge_id'[f] /\ (Direct(f)' <=> Sole(f))
      <3>1. CASE f = e
        BY <3>1, <1>2, <1>3, <1>5, <1>8
      <3>2. CASE f # e
        <4>1. Taken(f) /\ counter[Via(f)] = edge_id[f] /\ (Direct(f) <=> Sole(f)) /\ edge_id'[f] = edge_id[f]
          BY <3>2, <2>4, <1>3 DEF EdgesInv, CountersFit
        <4> QED BY <3>2, <4>1, <1>5, <1>6, <1>9
      <3> QED BY <3>1, <3>2
    <2>5. ASSUME NEW b \in Blocks, counter'[b] # 0
          PROVE  \E f \in SourceEdges : Succ(f) = b /\ Sole(f) /\ (Taken(f) \/ f = e)
      <3>1. counter'[b] = counter[b]
        BY <1>4, <1>5
      <3> QED BY <3>1, <2>5 DEF EdgesInv, CountersFit
    <2> QED BY <2>1, <2>2, <2>3, <2>4, <2>5, <1>3, <1>4 DEF CountersFit
  <1> QED BY <1>3, <1>7, <1>10, <1>11 DEF EdgesInv

LEMMA EdgesNextInv == EdgesInv /\ [EdgesNext]_edgeVars => EdgesInv'
  <1> SUFFICES ASSUME EdgesInv, [EdgesNext]_edgeVars PROVE EdgesInv'
    OBVIOUS
  <1>1. CASE Instrument
    BY <1>1, InstrumentKinds, InPlaceKeeps, OnTheEdgeKeeps
  <1>2. CASE WriteSizes \/ UNCHANGED edgeVars
    <2>1. /\ UNCHANGED <<source, has_dict, target, counter, left, edge_count, edge_id, dict>>
          /\ (pass' = pass) \/ (pass' = "done" /\ left = {})
      BY <1>2 DEF WriteSizes, edgeVars
    <2>2. /\ SourceEdges' = SourceEdges /\ RecordedEdges' = RecordedEdges /\ Blocks' = Blocks
          /\ \A f : /\ Succ(f)' = Succ(f) /\ Via(f)' = Via(f) /\ (Taken(f)' <=> Taken(f))
                    /\ (Direct(f)' <=> Direct(f)) /\ (Detour(f)' <=> Detour(f))
      BY <2>1 DEF SourceEdges, RecordedEdges, Blocks, EdgesOf, Recorded, Succ, Via, Taken, Direct, Detour
    <2>3. \A f : Sole(f)' <=> Sole(f)
      BY <2>2 DEF Sole
    <2>4. GraphTypes' /\ GraphShape'
      BY <2>1, <2>2 DEF EdgesInv, GraphTypes, GraphShape
    <2>5. CountersFit'
      BY <2>1, <2>2, <2>3 DEF EdgesInv, CountersFit
    <2>6. WordsFit'
      BY <2>1, <2>2 DEF EdgesInv, WordsFit
    <2> QED BY <2>4, <2>5, <2>6 DEF EdgesInv
  <1> QED BY <1>1, <1>2 DEF EdgesNext

\* What a program that takes an edge comes by, when the pass is through.
LEMMA CountedIsTaken ==
  ASSUME EdgesInv, NEW e \in SourceEdges, left = {}
  PROVE  Counted(e) = IF e[1] \in Recorded /\ ~Missed(e) THEN {edge_id[e]} ELSE {}
  <1> DEFINE c == Succ(e)
  <1>1. Counted(e) = {counter[b] : b \in {JumpsTo(e), c}} \ {0}
    BY DEF Counted, Succ
  <1>2. Taken(e) <=> e[1] \in Recorded
    BY EdgeKinds DEF Taken
  <1>3. c \in Blocks
    BY SuccInside DEF EdgesInv, GraphTypes
  <1>4. edge_id[e] = 0 <=> ~Taken(e)
    BY DEF EdgesInv, CountersFit
  <1>5. counter[c] # 0 => Sole(e) /\ Taken(e)
    BY <1>3 DEF EdgesInv, CountersFit, Sole
  <1>6. Missed(e) <=> source.term[e[1]] = "indirect" /\ ~Sole(e)
    BY DEF Missed, Sole, Succ, AllEdges, EdgesInv, GraphTypes
  <1>7. CASE Taken(e) /\ source.term[e[1]] # "indirect"
    <2>1. counter[Via(e)] = edge_id[e] /\ (Direct(e) <=> Sole(e)) /\ JumpsTo(e) = Via(e)
      BY <1>7 DEF EdgesInv, CountersFit, JumpsTo
    <2>2. Via(e) = c \/ counter[c] = 0
      BY <2>1, <1>5 DEF Direct
    <2>3. {counter[b] : b \in {JumpsTo(e), c}} \ {0} = {edge_id[e]}
      BY <2>1, <2>2, <1>4, <1>7
    <2> QED BY <2>3, <1>1, <1>2, <1>6, <1>7
  <1>8. CASE Taken(e) /\ source.term[e[1]] = "indirect"
    <2>1. counter[Via(e)] = edge_id[e] /\ (Direct(e) <=> Sole(e)) /\ JumpsTo(e) = c
      BY <1>8 DEF EdgesInv, CountersFit, JumpsTo, Succ
    <2>2. counter[c] = IF Sole(e) THEN edge_id[e] ELSE 0
      BY <2>1, <1>5 DEF Direct
    <2>3. {counter[b] : b \in {JumpsTo(e), c}} \ {0} = IF Sole(e) THEN {edge_id[e]} ELSE {}
      BY <2>1, <2>2, <1>4, <1>8
    <2> QED BY <2>3, <1>1, <1>2, <1>6, <1>8
  <1>9. CASE ~Taken(e)
    <2>1. Via(e) = c /\ JumpsTo(e) = c
      BY <1>9 DEF EdgesInv, GraphShape, Direct, JumpsTo, Succ
    <2>2. {counter[b] : b \in {JumpsTo(e), c}} \ {0} = {}
      BY <2>1, <1>5, <1>9
    <2> QED BY <2>2, <1>1, <1>2, <1>9
  <1> QED BY <1>7, <1>8, <1>9

\* Every edge that decides something, or leaves a block with a word, has a
\* number of its own when the pass is through and still leads to where it led;
\* a program that takes it comes by its counter and no other, but for an indirect
\* jump to a block that is entered otherwise, too, which is not counted; and the
\* words of the dictionary are mapped to the edges that touch their blocks.
THEOREM NoCollisions == EdgesSpec => []EdgesExact
  <1>1. EdgesInv => EdgesExact
    <2> SUFFICES ASSUME EdgesInv PROVE EdgesExact
      OBVIOUS
    <2>1. AllEdges = SourceEdges
      BY DEF AllEdges, EdgesInv, GraphTypes
    <2>2. pass # "failed" /\ (pass = "done" => left = {})
      BY DEF EdgesInv, CountersFit
    <2>3. ASSUME left = {}, NEW e \in SourceEdges
          PROVE  /\ Counted(e) = IF e[1] \in Recorded /\ ~Missed(e) THEN {edge_id[e]} ELSE {}
                 /\ \/ JumpsTo(e) = source.succ[e[1]][e[2]]
                    \/ target[JumpsTo(e)] = <<source.succ[e[1]][e[2]]>>
                 /\ e[1] \in Recorded => edge_id[e] \in 1 .. edge_count - 1
      <3>1. Counted(e) = IF e[1] \in Recorded /\ ~Missed(e) THEN {edge_id[e]} ELSE {}
        BY <2>3, CountedIsTaken
      <3>2. JumpsTo(e) = Succ(e) \/ target[JumpsTo(e)] = <<Succ(e)>>
        BY DEF EdgesInv, GraphShape, Direct, Detour, JumpsTo, Succ
      <3>3. ASSUME e[1] \in Recorded PROVE edge_id[e] \in 1 .. edge_count - 1
        <4>1. Taken(e)
          BY <2>3, <3>3, EdgeKinds DEF Taken
        <4>2. edge_id[e] \in Nat /\ edge_id[e] # 0 /\ edge_id[e] < edge_count /\ edge_count \in Nat
          BY <4>1 DEF EdgesInv, GraphTypes, CountersFit
        <4> QED BY <4>2
      <3> QED BY <3>1, <3>2, <3>3 DEF Succ
    <2>4. EdgesCounted
      BY <2>1, <2>2, <2>3 DEF EdgesCounted, EdgesInv, CountersFit
    <2>5. ASSUME left = {}, NEW b \in has_dict, NEW e \in EdgesOf(b) PROVE <<b, edge_id[e]>> \in dict
      <3>1. b \in Recorded /\ e[1] = b
        BY DEF Recorded, EdgesOf, EdgesInv, GraphTypes
      <3>2. e \in SourceEdges /\ Taken(e)
        BY <2>5, <3>1 DEF Taken, RecordedEdges, SourceEdges, Recorded
      <3> QED BY <3>1, <3>2 DEF EdgesInv, WordsFit
    <2>6. WordsMapped
      BY <2>1, <2>2, <2>5 DEF WordsMapped, EdgesInv, WordsFit, Succ
    <2> QED BY <2>4, <2>6 DEF EdgesExact
  <1> QED BY <1>1, EdgesInitInv, EdgesNextInv, PTL DEF EdgesSpec

-----------------------------------------------------------------------------
(* The maps, a word or a byte at a time. *)

\* A byte is zero when none of its bits is set.
LEMMA ZeroHasNoBits ==
  ASSUME NEW n \in 0 .. 255
  PROVE  Bits(n) \subseteq FullByte /\ (Bits(n) = {} <=> n = 0)
  <1>1. Bits(n) \subseteq FullByte
    BY DEF Bits, FullByte
  <1>2. ASSUME n = 0 PROVE Bits(n) = {}
    <2> SUFFICES ASSUME NEW k \in Bits(n) PROVE FALSE
      OBVIOUS
    <2>1. k \in 0 .. 7 /\ (0 \div 2 ^ k) % 2 = 1
      BY <1>2 DEF Bits
    <2>2. 0 .. 7 = {0, 1, 2, 3, 4, 5, 6, 7}
      OBVIOUS
    <2>3. 2 ^ k \in {2 ^ 0, 2 ^ 1, 2 ^ 2, 2 ^ 3, 2 ^ 4, 2 ^ 5, 2 ^ 6, 2 ^ 7}
      BY <2>1, <2>2, Zenon
    <2>4. 2 ^ k \in {1, 2, 4, 8, 16, 32, 64, 128}
      BY <2>3
    <2> QED BY <2>1, <2>4
  <1>3. ASSUME Bits(n) = {} PROVE n = 0
    <2>1. \A k \in 0 .. 7 : (n \div 2 ^ k) % 2 # 1
      BY <1>3 DEF Bits
    <2>2. 2 ^ 0 = 1 /\ 2 ^ 1 = 2 /\ 2 ^ 2 = 4 /\ 2 ^ 3 = 8 /\ 2 ^ 4 = 16 /\ 2 ^ 5 = 32 /\ 2 ^ 6 = 64 /\ 2 ^ 7 = 128
      OBVIOUS
    <2>3. /\ 0 \in 0 .. 7 /\ 1 \in 0 .. 7 /\ 2 \in 0 .. 7 /\ 3 \in 0 .. 7
          /\ 4 \in 0 .. 7 /\ 5 \in 0 .. 7 /\ 6 \in 0 .. 7 /\ 7 \in 0 .. 7
      OBVIOUS
    <2>4. /\ (n \div 1) % 2 # 1 /\ (n \div 2) % 2 # 1 /\ (n \div 4) % 2 # 1 /\ (n \div 8) % 2 # 1
          /\ (n \div 16) % 2 # 1 /\ (n \div 32) % 2 # 1 /\ (n \div 64) % 2 # 1 /\ (n \div 128) % 2 # 1
      BY <2>1, <2>2, <2>3
    <2> QED BY <2>4
  <1> QED BY <1>1, <1>2, <1>3

\* The class of a count is none exactly for no hit.
LEMMA ClassesOfBytes ==
  ASSUME NEW b \in SUBSET FullByte
  PROVE  ClassOf(b) \in SUBSET FullByte /\ (ClassOf(b) = {} <=> b = {})
  <1>1. CASE b = {}
    BY <1>1 DEF ClassOf
  <1>2. CASE b # {}
    <2>1. \E k \in b : \A l \in b : l <= k
      <3>1. b \subseteq {0, 1, 2, 3, 4, 5, 6, 7}
        BY DEF FullByte
      <3> DEFINE top == IF 7 \in b THEN 7 ELSE IF 6 \in b THEN 6 ELSE IF 5 \in b THEN 5
                        ELSE IF 4 \in b THEN 4 ELSE IF 3 \in b THEN 3 ELSE IF 2 \in b THEN 2
                        ELSE IF 1 \in b THEN 1 ELSE 0
      <3>2. top \in b
        <4>1. \E l \in b : l \in {0, 1, 2, 3, 4, 5, 6, 7}
          BY <1>2, <3>1
        <4> QED BY <4>1
      <3>3. \A l \in b : l <= top
        BY <3>1
      <3> QED BY <3>2, <3>3
    <2>2. PICK top \in b : top = CHOOSE k \in b : \A l \in b : l <= k
      BY <2>1
    <2>3. top \in 0 .. 7
      BY DEF FullByte
    <2>4. ClassOf(b) = IF b \in {{}, {0}, {1}} THEN b
                       ELSE IF b = {0, 1} THEN {2}
                       ELSE IF top <= 4 THEN {top + 1} ELSE IF top <= 6 THEN {6} ELSE {7}
      BY <2>2 DEF ClassOf
    <2> QED BY <2>3, <2>4, <1>2 DEF FullByte
  <1> QED BY <1>1, <1>2

MapSized == edge_number \in Nat \ {0} /\ map_size = MapSize(edge_number)

LEMMA MapIsWords ==
  ASSUME NEW n \in Nat \ {0}
  PROVE  /\ MapSize(n) \in Nat /\ n <= MapSize(n)
         /\ \E q \in Nat \ {0} : MapSize(n) = q * WordBytes /\ MapSize(n) \div WordBytes = q
  <1> DEFINE h == (n - 1) \div WordBytes
  <1>1. WordBytes \in Nat \ {0} /\ n - 1 \in Nat
    BY BitmapsAssumption
  <1>2. h \in Nat /\ (n - 1) % WordBytes \in 0 .. WordBytes - 1 /\ n - 1 = h * WordBytes + ((n - 1) % WordBytes)
    BY <1>1, Division
  <1> DEFINE r == (n - 1) % WordBytes
  <1>3. MapSize(n) = (h + 1) * WordBytes
    BY DEF MapSize
  <1> HIDE DEF h, r
  <1>4. (h + 1) * WordBytes = h * WordBytes + WordBytes /\ h * WordBytes \in Nat
    BY <1>1, <1>2
  <1>5. r \in 0 .. WordBytes - 1 /\ n - 1 = h * WordBytes + r
    BY <1>2 DEF r
  <1>6. MapSize(n) \in Nat /\ n <= MapSize(n)
    BY <1>1, <1>3, <1>4, <1>5
  <1>7. (h + 1) \in Nat \ {0} /\ MapSize(n) = (h + 1) * WordBytes + 0 /\ 0 \in 0 .. WordBytes - 1
    BY <1>1, <1>2, <1>3, <1>4
  <1>8. MapSize(n) \div WordBytes = h + 1
    BY <1>1, <1>6, <1>7, Quotient
  <1> QED BY <1>3, <1>6, <1>7, <1>8

\* Every byte of a map lies in a word, and every byte of a word in the map.
LEMMA BytesAndWords ==
  ASSUME MapSized
  PROVE  /\ \A p \in Positions : \E w \in Words : p \in InWord(w)
         /\ \A w \in Words : InWord(w) \subseteq Positions
         /\ map_size \in Nat /\ edge_number <= map_size
  <1>1. WordBytes \in Nat \ {0}
    BY BitmapsAssumption
  <1>2. PICK q \in Nat \ {0} : map_size = q * WordBytes /\ map_size \div WordBytes = q
    BY MapIsWords DEF MapSized
  <1>3. map_size \in Nat /\ edge_number <= map_size
    BY MapIsWords DEF MapSized
  <1>4. Words = 0 .. q - 1
    BY <1>2 DEF Words
  <1>5. ASSUME NEW p \in Positions PROVE \E w \in Words : p \in InWord(w)
    <2>1. p - 1 \in Nat /\ p <= map_size /\ p \in Nat
      BY <1>3 DEF Positions
    <2> DEFINE w == (p - 1) \div WordBytes
               r == (p - 1) % WordBytes
    <2>2. w \in Nat /\ r \in 0 .. WordBytes - 1 /\ p - 1 = w * WordBytes + r
      BY <1>1, <2>1, Division
    <2> HIDE DEF w, r
    <2>3. w * WordBytes \in Nat /\ (w + 1) * WordBytes = w * WordBytes + WordBytes
      BY <2>2, <1>1
    <2>4. p \in InWord(w)
      BY <2>1, <2>2, <2>3, <1>1 DEF InWord
    <2>5. ~(q <= w)
      <3> SUFFICES ASSUME q <= w PROVE FALSE
        OBVIOUS
      <3>1. q * WordBytes <= w * WordBytes
        <4>1. CASE q = w
          BY <4>1, <2>3
        <4>2. CASE q < w
          BY <4>2, <2>2, <2>3, <1>1, Product
        <4> QED BY <4>1, <4>2, <2>2
      <3> QED BY <3>1, <1>1, <1>2, <1>3, <2>1, <2>2, <2>3
    <2> QED BY <2>2, <2>4, <2>5, <1>4
  <1>6. ASSUME NEW w \in Words, NEW p \in InWord(w) PROVE p \in Positions
    <2>1. w \in Nat /\ w < q
      BY <1>4
    <2>2. w * WordBytes \in Nat /\ w * WordBytes + WordBytes <= q * WordBytes /\ (w + 1) * WordBytes = w * WordBytes + WordBytes
      BY <2>1, <1>1, Product
    <2> QED BY <2>2, <1>1, <1>2, <1>3 DEF InWord, Positions
  <1> QED BY <1>3, <1>5, <1>6

-----------------------------------------------------------------------------
(* The functions on maps, byte by byte. *)

Map(m) == m \in [Positions -> SUBSET FullByte]

LEMMA IdleBytes ==
  ASSUME MapSized, NEW m, Map(m), NEW p \in Positions
  PROVE  (\E w \in Words : p \in InWord(w) /\ ~Idle(m, w)) \/ m[p] = {}
  BY BytesAndWords DEF Idle

LEMMA ClassifiedIs ==
  ASSUME MapSized, NEW m, Map(m)
  PROVE  Map(Classified(m)) /\ \A p \in Positions : Classified(m)[p] = ClassOf(m[p])
  <1>1. ASSUME NEW p \in Positions PROVE Classified(m)[p] = ClassOf(m[p])
    <2>1. m[p] \in SUBSET FullByte
      BY DEF Map
    <2>2. m[p] = {} => ClassOf(m[p]) = m[p]
      BY <2>1, ClassesOfBytes
    <2> QED BY <2>2, IdleBytes DEF Classified
  <1>2. \A p \in Positions : ClassOf(m[p]) \in SUBSET FullByte
    BY ClassesOfBytes DEF Map
  <1>3. Classified(m) = [p \in Positions |-> Classified(m)[p]]
    BY DEF Classified
  <1> QED BY <1>1, <1>2, <1>3 DEF Map

LEMMA SimplifiedIs ==
  ASSUME MapSized, NEW m, Map(m)
  PROVE  /\ Map(SimplifiedTrace(m))
         /\ \A p \in Positions : SimplifiedTrace(m)[p] = IF m[p] = {} THEN {0} ELSE {7}
  <1>1. ASSUME NEW p \in Positions PROVE SimplifiedTrace(m)[p] = IF m[p] = {} THEN {0} ELSE {7}
    <2>1. \E w \in Words : p \in InWord(w)
      BY BytesAndWords
    <2> QED BY <2>1, IdleBytes DEF SimplifiedTrace
  <1>2. {0} \in SUBSET FullByte /\ {7} \in SUBSET FullByte
    BY DEF FullByte
  <1>3. SimplifiedTrace(m) = [p \in Positions |-> SimplifiedTrace(m)[p]]
    BY DEF SimplifiedTrace
  <1> QED BY <1>1, <1>2, <1>3 DEF Map

\* has_new_bits() says 2 exactly for a byte that was never hit, something for a
\* bit that was not, and takes the bits from the virgin map.
LEMMA ReturnedIs ==
  ASSUME MapSized, NEW v, Map(v), NEW m, Map(m)
  PROVE  /\ Returned(v, m) = 2 <=> \E p \in Positions : m[p] # {} /\ v[p] = FullByte
         /\ Returned(v, m) = 0 <=> \A p \in Positions : m[p] \cap v[p] = {}
  <1> DEFINE words == {w \in Words : Touched(v, m, w)}
  <1>1. (\E w \in words : NewTuple(v, m, w)) <=> \E p \in Positions : m[p] # {} /\ v[p] = FullByte
    <2>1. ASSUME NEW w \in Words, NewTuple(v, m, w) PROVE \E p \in Positions : m[p] # {} /\ v[p] = FullByte
      BY <2>1, BytesAndWords DEF NewTuple
    <2>2. ASSUME NEW p \in Positions, m[p] # {}, v[p] = FullByte PROVE \E w \in words : NewTuple(v, m, w)
      <3>1. PICK w \in Words : p \in InWord(w)
        BY BytesAndWords
      <3>2. m[p] \cap v[p] # {}
        BY <2>2 DEF Map
      <3>3. Touched(v, m, w) /\ NewTuple(v, m, w)
        BY <2>2, <3>1, <3>2 DEF Touched, NewTuple, Idle
      <3> QED BY <3>3
    <2> QED BY <2>1, <2>2
  <1>2. words = {} <=> \A p \in Positions : m[p] \cap v[p] = {}
    <2>1. ASSUME NEW w \in Words, Touched(v, m, w) PROVE \E p \in Positions : m[p] \cap v[p] # {}
      BY <2>1, BytesAndWords DEF Touched
    <2>2. ASSUME NEW p \in Positions, m[p] \cap v[p] # {} PROVE words # {}
      <3>1. PICK w \in Words : p \in InWord(w)
        BY BytesAndWords
      <3>2. Touched(v, m, w)
        BY <2>2, <3>1 DEF Touched, Idle
      <3> QED BY <3>2
    <2> QED BY <2>1, <2>2
  <1>3. Returned(v, m) = IF \E w \in words : NewTuple(v, m, w) THEN 2 ELSE IF words # {} THEN 1 ELSE 0
    BY DEF Returned
  <1>4. (\E w \in words : NewTuple(v, m, w)) => words # {}
    OBVIOUS
  <1> HIDE DEF words
  <1> QED BY <1>1, <1>2, <1>3, <1>4

LEMMA UpdatedIs ==
  ASSUME MapSized, NEW v, Map(v), NEW m, Map(m)
  PROVE  Map(Updated(v, m)) /\ \A p \in Positions : Updated(v, m)[p] = v[p] \ m[p]
  <1>1. ASSUME NEW p \in Positions PROVE Updated(v, m)[p] = v[p] \ m[p]
    <2>1. PICK w \in Words : p \in InWord(w)
      BY BytesAndWords
    <2>2. CASE \E x \in Words : p \in InWord(x) /\ Touched(v, m, x)
      BY <2>2 DEF Updated
    <2>3. CASE ~\E x \in Words : p \in InWord(x) /\ Touched(v, m, x)
      <3>1. ~Touched(v, m, w)
        BY <2>1, <2>3
      <3>2. m[p] \cap v[p] = {}
        BY <2>1, <3>1 DEF Touched, Idle
      <3>3. Updated(v, m)[p] = v[p]
        BY <2>3 DEF Updated
      <3> QED BY <3>2, <3>3
    <2> QED BY <2>2, <2>3
  <1>2. \A p \in Positions : v[p] \ m[p] \in SUBSET FullByte
    BY DEF Map
  <1>3. Updated(v, m) = [p \in Positions |-> Updated(v, m)[p]]
    BY DEF Updated
  <1> QED BY <1>1, <1>2, <1>3 DEF Map

-----------------------------------------------------------------------------
(* The session. *)

MapSteps == {"options", "set up", "run", "queue", "crash", "looked", "crashed"}
Running == {"run", "queue", "crash", "looked", "crashed"}

\* The trace of a run, byte by byte: the classes of the counts of its edges.
TraceOf(e) == IF e <= edge_number THEN ClassOf(Bits(hit[e])) ELSE {}
TraceOfRun == trace_bits \in [Positions -> SUBSET FullByte] /\ \A p \in Positions : trace_bits[p] = TraceOf(p)
CrashTrace ==
  \A p \in Positions : trace_bits[p] = IF p <= edge_number /\ hit[p] # 0 THEN {7} ELSE {0}

MapTypes ==
  /\ edge_number \in EdgeNumbers /\ in_bitmap \in BOOLEAN /\ map_step \in MapSteps
  /\ seen \in [Numbered -> SUBSET FullByte]
  /\ map_step \in Running => MapSized /\ Map(virgin_bits) /\ Map(virgin_crash) /\ Map(trace_bits)
  /\ ~in_bitmap /\ map_step \notin Running => \A e \in Numbered : seen[e] = {}

\* What the maps hold: the virgin map lacks what was seen and nothing else, and
\* nothing behind the last edge; the bytes there count in a crash, but only as
\* long as none was seen.
VirginMaps ==
  map_step \in Running =>
    /\ ~in_bitmap => \A p \in Positions : virgin_bits[p] = IF p <= edge_number THEN FullByte \ seen[p] ELSE FullByte
    /\ \/ \A p \in Positions : virgin_crash[p] = FullByte
       \/ \A p \in Positions : p <= edge_number \/ 0 \notin virgin_crash[p]

\* What the last run was, and what was found in it.
LastRun ==
  /\ map_step \in {"queue", "crash", "looked", "crashed"} => hit \in [Numbered -> HitCounts]
  /\ map_step \in {"queue", "crash", "looked"} => TraceOfRun
  /\ map_step = "looked" => Map(pristine) /\ new_bits = Returned(pristine, trace_bits)
  /\ map_step = "crashed" =>
       /\ Map(pristine) /\ new_bits = Returned(pristine, trace_bits) /\ CrashTrace
       /\ \/ \A p \in Positions : pristine[p] = FullByte
          \/ \A p \in Positions : p <= edge_number \/ 0 \notin pristine[p]

MapsInv == MapTypes /\ VirginMaps /\ LastRun

LEMMA SizeAfterSetUp ==
  ASSUME NEW n \in EdgeNumbers
  PROVE  n \in Nat \ {0}
  BY BitmapsAssumption

LEMMA MapsInitInv == MapsInit => MapsInv
  <1> SUFFICES ASSUME MapsInit PROVE MapsInv
    OBVIOUS
  <1>1. \A h \in HitCounts : ClassOf(Bits(h)) \subseteq FullByte
    BY BitmapsAssumption, ZeroHasNoBits, ClassesOfBytes
  <1>2. seen \in [Numbered -> SUBSET FullByte] /\ (~in_bitmap => \A e \in Numbered : seen[e] = {})
    <2>1. CASE in_bitmap
      <3>1. seen \in [Numbered -> SUBSET UNION {ClassOf(Bits(h)) : h \in HitCounts}]
        BY <2>1 DEF MapsInit, Numbered
      <3>2. UNION {ClassOf(Bits(h)) : h \in HitCounts} \subseteq FullByte
        BY <1>1
      <3> QED BY <2>1, <3>1, <3>2
    <2>2. CASE ~in_bitmap
      BY <2>2 DEF MapsInit, Numbered
    <2> QED BY <2>1, <2>2
  <1>3. MapTypes
    BY <1>2 DEF MapsInit, MapTypes, MapSteps, Running
  <1>4. VirginMaps /\ LastRun
    BY DEF MapsInit, VirginMaps, LastRun, Running
  <1> QED BY <1>3, <1>4 DEF MapsInv

LEMMA ReadOptionsKeeps == MapsInv /\ ReadOptions => MapsInv'
  <1> SUFFICES ASSUME MapsInv, ReadOptions PROVE MapsInv'
    OBVIOUS
  <1>1. MapTypes'
    BY DEF MapsInv, MapTypes, ReadOptions, MapSteps, Running, Numbered
  <1>2. VirginMaps'
    BY DEF ReadOptions, VirginMaps, Running
  <1>3. LastRun'
    BY DEF ReadOptions, LastRun
  <1> QED BY <1>1, <1>2, <1>3 DEF MapsInv

LEMMA SetUpMapsKeeps == MapsInv /\ SetUpMaps => MapsInv'
  <1> SUFFICES ASSUME MapsInv, SetUpMaps PROVE MapsInv'
    OBVIOUS
  <1>1. MapSized'
    BY SizeAfterSetUp DEF MapsInv, MapTypes, SetUpMaps, MapSized
  <1>2. map_size' \in Nat /\ edge_number' <= map_size'
    BY <1>1, MapIsWords DEF MapSized
  <1>3. Map(virgin_bits)' /\ Map(virgin_crash)' /\ Map(trace_bits)'
    BY DEF SetUpMaps, Map, Positions
  <1>4. MapTypes'
    BY <1>1, <1>3 DEF MapsInv, MapTypes, SetUpMaps, MapSteps, Running, Numbered
  <1>5. VirginMaps'
    <2>1. ~in_bitmap => \A p \in 1 .. map_size' :
            virgin_bits'[p] = IF p <= edge_number THEN FullByte \ seen[p] ELSE FullByte
      <3>1. ~in_bitmap => \A e \in Numbered : seen[e] = {}
        BY DEF MapsInv, MapTypes, SetUpMaps, Running
      <3>2. \A p \in 1 .. map_size' : p <= edge_number => p \in Numbered
        <4>1. edge_number' = edge_number /\ edge_number \in Nat
          BY SizeAfterSetUp DEF SetUpMaps, MapsInv, MapTypes
        <4> QED BY <4>1, <1>2 DEF Numbered
      <3>3. ~in_bitmap => \A p \in 1 .. map_size' : virgin_bits'[p] = FullByte
        BY DEF SetUpMaps
      <3> QED BY <3>1, <3>2, <3>3
    <2>2. \A p \in 1 .. map_size' : virgin_crash'[p] = FullByte
      BY DEF SetUpMaps
    <2> QED BY <2>1, <2>2 DEF VirginMaps, SetUpMaps, Positions
  <1>6. LastRun'
    BY DEF LastRun, SetUpMaps
  <1> QED BY <1>4, <1>5, <1>6 DEF MapsInv

\* What a run leaves where nothing else moves.
LEMMA MapsStay ==
  ASSUME map_size' = map_size, edge_number' = edge_number
  PROVE  /\ Positions' = Positions /\ Words' = Words /\ Numbered' = Numbered
         /\ MapSized' <=> MapSized
         /\ \A m : Map(m)' <=> Map(m)
  BY DEF Positions, Words, Numbered, MapSized, Map

LEMMA RunTargetKeeps == MapsInv /\ RunTarget => MapsInv'
  <1> SUFFICES ASSUME MapsInv, RunTarget PROVE MapsInv'
    OBVIOUS
  <1>0. /\ map_step = "run" /\ map_step' \in {"queue", "crash"}
        /\ UNCHANGED <<in_bitmap, fuzz_bitmap, edge_number, map_size, virgin_bits, virgin_crash, new_bits, pristine, seen>>
        /\ MapSized /\ Map(virgin_bits) /\ Map(virgin_crash)
    BY DEF RunTarget, MapsInv, MapTypes, Running
  <1>1. /\ Positions' = Positions /\ Numbered' = Numbered /\ MapSized' /\ \A m : Map(m)' <=> Map(m)
    BY <1>0, MapsStay
  <1>2. PICK h \in [1 .. edge_number -> HitCounts] :
          /\ hit' = h
          /\ trace_bits' = Classified([p \in Positions |-> IF p <= edge_number THEN Bits(h[p]) ELSE {}])
    BY DEF RunTarget
  <1> DEFINE raw == [p \in Positions |-> IF p <= edge_number THEN Bits(h[p]) ELSE {}]
  <1>3. Map(raw) /\ \A p \in Positions : raw[p] = IF p <= edge_number THEN Bits(h[p]) ELSE {}
    <2>1. \A p \in Positions : p <= edge_number => p \in 1 .. edge_number
      BY <1>0, BytesAndWords DEF Positions, MapSized
    <2>2. \A p \in Positions : p <= edge_number => h[p] \in 0 .. 255
      BY <2>1, BitmapsAssumption
    <2>3. \A p \in Positions : p <= edge_number => Bits(h[p]) \subseteq FullByte
      BY <2>2, ZeroHasNoBits
    <2> QED BY <2>3 DEF Map
  <1> HIDE DEF raw
  <1>4. Map(Classified(raw)) /\ \A p \in Positions : Classified(raw)[p] = ClassOf(raw[p])
    BY <1>0, <1>3, ClassifiedIs
  <1>5. trace_bits' = Classified(raw)
    BY <1>2 DEF raw
  <1>6. ClassOf({}) = {}
    BY ClassesOfBytes
  <1>7. TraceOfRun'
    <2>1. \A p \in Positions : trace_bits'[p] = IF p <= edge_number THEN ClassOf(Bits(h[p])) ELSE {}
      BY <1>3, <1>4, <1>5, <1>6
    <2> QED BY <2>1, <1>0, <1>1, <1>2, <1>4, <1>5 DEF TraceOfRun, TraceOf, Map
  <1>8. MapTypes'
    BY <1>0, <1>1, <1>4, <1>5 DEF MapsInv, MapTypes, MapSteps, Running
  <1>9. VirginMaps'
    BY <1>0, <1>1 DEF MapsInv, VirginMaps, Running
  <1>10. LastRun'
    BY <1>0, <1>1, <1>2, <1>7 DEF LastRun, Numbered
  <1> QED BY <1>8, <1>9, <1>10 DEF MapsInv

LEMMA LookForNewKeeps == MapsInv /\ LookForNew => MapsInv'
  <1> SUFFICES ASSUME MapsInv, LookForNew PROVE MapsInv'
    OBVIOUS
  <1>0. /\ map_step = "queue" /\ map_step' = "looked"
        /\ UNCHANGED <<in_bitmap, fuzz_bitmap, edge_number, map_size, trace_bits, virgin_crash, hit>>
        /\ MapSized /\ Map(virgin_bits) /\ Map(virgin_crash) /\ Map(trace_bits)
        /\ new_bits' = Returned(virgin_bits, trace_bits) /\ pristine' = virgin_bits
        /\ virgin_bits' = Updated(virgin_bits, trace_bits)
        /\ seen' = [e \in Numbered |-> seen[e] \cup ClassOf(Bits(hit[e]))]
    BY DEF LookForNew, MapsInv, MapTypes, Running, Numbered
  <1>1. /\ Positions' = Positions /\ Numbered' = Numbered /\ MapSized' /\ Words' = Words /\ \A m : Map(m)' <=> Map(m)
    BY <1>0, MapsStay
  <1>2. TraceOfRun /\ hit \in [Numbered -> HitCounts] /\ Numbered \subseteq Positions
        /\ \A p \in Positions : p <= edge_number <=> p \in Numbered
    <2>1. TraceOfRun /\ hit \in [Numbered -> HitCounts]
      BY <1>0 DEF MapsInv, LastRun
    <2>2. edge_number \in Nat /\ map_size \in Nat /\ edge_number <= map_size
      BY <1>0, BytesAndWords DEF MapSized
    <2> QED BY <2>1, <2>2 DEF Numbered, Positions
  <1>3. Map(virgin_bits') /\ \A p \in Positions : virgin_bits'[p] = virgin_bits[p] \ trace_bits[p]
    BY <1>0, UpdatedIs
  <1>4. seen' \in [Numbered -> SUBSET FullByte]
    <2>1. \A e \in Numbered : ClassOf(Bits(hit[e])) \in SUBSET FullByte
      BY <1>2, BitmapsAssumption, ZeroHasNoBits, ClassesOfBytes
    <2> QED BY <2>1, <1>0 DEF MapsInv, MapTypes
  <1>5. MapTypes'
    BY <1>0, <1>1, <1>3, <1>4 DEF MapsInv, MapTypes, MapSteps, Running
  <1>6. VirginMaps'
    <2>1. ASSUME ~in_bitmap, NEW p \in Positions
          PROVE  virgin_bits'[p] = IF p <= edge_number THEN FullByte \ seen'[p] ELSE FullByte
      <3>1. virgin_bits[p] = IF p <= edge_number THEN FullByte \ seen[p] ELSE FullByte
        BY <1>0, <2>1 DEF MapsInv, VirginMaps, Running
      <3>2. trace_bits[p] = IF p <= edge_number THEN ClassOf(Bits(hit[p])) ELSE {}
        BY <1>2 DEF TraceOfRun, TraceOf
      <3>3. CASE p <= edge_number
        <4>1. seen'[p] = seen[p] \cup ClassOf(Bits(hit[p]))
          BY <1>0, <1>2, <3>3
        <4> QED BY <3>1, <3>2, <3>3, <4>1, <1>3
      <3>4. CASE ~(p <= edge_number)
        BY <3>1, <3>2, <3>4, <1>3
      <3> QED BY <3>3, <3>4
    <2>2. \/ \A p \in Positions : virgin_crash[p] = FullByte
          \/ \A p \in Positions : p <= edge_number \/ 0 \notin virgin_crash[p]
      BY <1>0 DEF MapsInv, VirginMaps, Running
    <2> QED BY <2>1, <2>2, <1>0, <1>1 DEF VirginMaps
  <1>7. LastRun'
    <2>1. Returned(virgin_bits, trace_bits) = Returned(pristine', trace_bits)
      BY <1>0
    <2>2. TraceOfRun' /\ Returned(pristine, trace_bits)' = Returned(pristine', trace_bits)
      BY <1>0, <1>1, <1>2 DEF TraceOfRun, TraceOf, Returned, Touched, NewTuple, Idle, InWord
    <2> QED BY <2>1, <2>2, <1>0, <1>1, <1>2 DEF LastRun
  <1> QED BY <1>5, <1>6, <1>7 DEF MapsInv

LEMMA LookAtCrashKeeps == MapsInv /\ LookAtCrash => MapsInv'
  <1> SUFFICES ASSUME MapsInv, LookAtCrash PROVE MapsInv'
    OBVIOUS
  <1>0. /\ map_step = "crash" /\ map_step' = "crashed"
        /\ UNCHANGED <<in_bitmap, fuzz_bitmap, edge_number, map_size, virgin_bits, hit, seen>>
        /\ MapSized /\ Map(virgin_bits) /\ Map(virgin_crash) /\ Map(trace_bits)
        /\ trace_bits' = SimplifiedTrace(trace_bits)
        /\ new_bits' = Returned(virgin_crash, trace_bits') /\ pristine' = virgin_crash
        /\ virgin_crash' = Updated(virgin_crash, trace_bits')
    BY DEF LookAtCrash, MapsInv, MapTypes, Running
  <1>1. /\ Positions' = Positions /\ Numbered' = Numbered /\ MapSized' /\ Words' = Words /\ \A m : Map(m)' <=> Map(m)
    BY <1>0, MapsStay
  <1>2. Map(trace_bits') /\ \A p \in Positions : trace_bits'[p] = IF trace_bits[p] = {} THEN {0} ELSE {7}
    BY <1>0, SimplifiedIs
  <1>3. Map(virgin_crash') /\ \A p \in Positions : virgin_crash'[p] = virgin_crash[p] \ trace_bits'[p]
    BY <1>0, <1>2, UpdatedIs
  <1>4. hit \in [Numbered -> HitCounts] /\ TraceOfRun
    BY <1>0 DEF MapsInv, LastRun
  <1>5. \A p \in Positions : trace_bits'[p] = IF p <= edge_number /\ hit[p] # 0 THEN {7} ELSE {0}
    <2> SUFFICES ASSUME NEW p \in Positions PROVE trace_bits[p] = {} <=> ~(p <= edge_number /\ hit[p] # 0)
      BY <1>2
    <2>1. trace_bits[p] = IF p <= edge_number THEN ClassOf(Bits(hit[p])) ELSE {}
      BY <1>4 DEF TraceOfRun, TraceOf
    <2>2. CASE p <= edge_number
      <3>1. p \in Numbered
        BY <2>2, <1>0, BytesAndWords DEF Numbered, Positions, MapSized
      <3>2. hit[p] \in 0 .. 255
        BY <3>1, <1>4, BitmapsAssumption
      <3>3. ClassOf(Bits(hit[p])) = {} <=> hit[p] = 0
        BY <3>2, ZeroHasNoBits, ClassesOfBytes
      <3> QED BY <2>1, <2>2, <3>3
    <2>3. CASE ~(p <= edge_number)
      BY <2>1, <2>3
    <2> QED BY <2>2, <2>3
  <1>6. MapTypes'
    BY <1>0, <1>1, <1>2, <1>3 DEF MapsInv, MapTypes, MapSteps, Running
  <1>7. VirginMaps'
    <2>1. ~in_bitmap => \A p \in Positions : virgin_bits[p] = IF p <= edge_number THEN FullByte \ seen[p] ELSE FullByte
      BY <1>0 DEF MapsInv, VirginMaps, Running
    <2>2. \A p \in Positions : p <= edge_number \/ 0 \notin virgin_crash'[p]
      BY <1>3, <1>5
    <2> QED BY <2>1, <2>2, <1>0, <1>1 DEF VirginMaps
  <1>8. LastRun'
    <2>1. Returned(pristine, trace_bits)' = Returned(pristine', trace_bits')
      BY <1>1 DEF Returned, Touched, NewTuple, Idle, InWord
    <2>2. \/ \A p \in Positions : virgin_crash[p] = FullByte
          \/ \A p \in Positions : p <= edge_number \/ 0 \notin virgin_crash[p]
      BY <1>0 DEF MapsInv, VirginMaps, Running
    <2>3. CrashTrace'
      BY <1>0, <1>1, <1>5 DEF CrashTrace
    <2> QED BY <2>1, <2>2, <2>3, <1>0, <1>1, <1>4 DEF LastRun
  <1> QED BY <1>6, <1>7, <1>8 DEF MapsInv

LEMMA WipeTraceKeeps == MapsInv /\ WipeTrace => MapsInv'
  <1> SUFFICES ASSUME MapsInv, WipeTrace PROVE MapsInv'
    OBVIOUS
  <1>0. /\ map_step \in Running /\ map_step' = "run"
        /\ UNCHANGED <<in_bitmap, fuzz_bitmap, edge_number, map_size, virgin_bits, virgin_crash, seen>>
        /\ MapSized /\ Map(virgin_bits) /\ Map(virgin_crash) /\ trace_bits' = [p \in Positions |-> {}]
    BY DEF WipeTrace, MapsInv, MapTypes, Running
  <1>1. /\ Positions' = Positions /\ Numbered' = Numbered /\ MapSized' /\ \A m : Map(m)' <=> Map(m)
    BY <1>0, MapsStay
  <1>2. Map(trace_bits')
    BY <1>0 DEF Map
  <1>3. MapTypes'
    BY <1>0, <1>1, <1>2 DEF MapsInv, MapTypes, MapSteps, Running
  <1>4. VirginMaps'
    BY <1>0, <1>1 DEF MapsInv, VirginMaps, Running
  <1>5. LastRun'
    BY <1>0 DEF LastRun
  <1> QED BY <1>3, <1>4, <1>5 DEF MapsInv

LEMMA MapsNextInv == MapsInv /\ [MapsNext]_mapVars => MapsInv'
  <1>1. MapsInv /\ UNCHANGED mapVars => MapsInv'
    <2> SUFFICES ASSUME MapsInv, UNCHANGED mapVars PROVE MapsInv'
      OBVIOUS
    <2>1. /\ Positions' = Positions /\ Words' = Words /\ Numbered' = Numbered
          /\ (MapSized' <=> MapSized) /\ \A m : Map(m)' <=> Map(m)
      BY MapsStay DEF mapVars
    <2>2. MapTypes'
      BY <2>1 DEF MapsInv, MapTypes, mapVars, Map
    <2>3. VirginMaps'
      BY <2>1 DEF MapsInv, VirginMaps, mapVars
    <2>4. /\ TraceOfRun' <=> TraceOfRun
          /\ CrashTrace' <=> CrashTrace
          /\ Returned(pristine, trace_bits)' = Returned(pristine, trace_bits)
          /\ Map(pristine)' <=> Map(pristine)
      BY <2>1 DEF TraceOfRun, TraceOf, CrashTrace, Returned, Touched, NewTuple, Idle, InWord, mapVars, Map
    <2>5. LastRun'
      BY <2>1, <2>4 DEF MapsInv, LastRun, mapVars
    <2> QED BY <2>2, <2>3, <2>5 DEF MapsInv
  <1> QED BY <1>1, ReadOptionsKeeps, SetUpMapsKeeps, RunTargetKeeps, LookForNewKeeps, LookAtCrashKeeps,
          WipeTraceKeeps DEF MapsNext

\* The bits a map has and those it lacks.
LEMMA CountsAddUp ==
  ASSUME MapSized, Map(virgin_bits),
         NEW s, s \in [Numbered -> SUBSET FullByte],
         \A p \in Positions : virgin_bits[p] = IF p <= edge_number THEN FullByte \ s[p] ELSE FullByte
  PROVE  /\ 8 * map_size - CountBits(virgin_bits) = Cardinality({bit \in Numbered \X FullByte : bit[2] \in s[bit[1]]})
         /\ CountNon255Bytes(virgin_bits) = Cardinality({e \in Numbered : s[e] # {}})
  <1> DEFINE all == Positions \X FullByte
             had == {bit \in all : bit[2] \in virgin_bits[bit[1]]}
             gone == {bit \in Numbered \X FullByte : bit[2] \in s[bit[1]]}
  <1>1. map_size \in Nat /\ edge_number \in Nat /\ edge_number <= map_size
    BY BytesAndWords DEF MapSized
  <1>2. IsFiniteSet(all) /\ Cardinality(all) = map_size * 8
    <2>1. IsFiniteSet(Positions) /\ Cardinality(Positions) = map_size
      <3>1. Cardinality(1 .. map_size) = IF 1 > map_size THEN 0 ELSE map_size - 1 + 1
        BY <1>1, FS_Interval
      <3>2. IsFiniteSet(1 .. map_size)
        BY <1>1, FS_Interval
      <3> QED BY <3>1, <3>2, <1>1 DEF Positions
    <2>2. IsFiniteSet(FullByte) /\ Cardinality(FullByte) = 8
      <3>1. PICK a \in Int, b \in Int : a = 0 /\ b = 7
        OBVIOUS
      <3>2. IsFiniteSet(a .. b) /\ Cardinality(a .. b) = IF a > b THEN 0 ELSE b - a + 1
        BY FS_Interval
      <3>3. Cardinality(a .. b) = 8
        BY <3>1, <3>2
      <3> QED BY <3>1, <3>2, <3>3 DEF FullByte
    <2>3. /\ IsFiniteSet(Positions \X FullByte)
          /\ Cardinality(Positions \X FullByte) = Cardinality(Positions) * Cardinality(FullByte)
      BY <2>1, <2>2, FS_Product
    <2> QED BY <2>1, <2>2, <2>3
  <1>3. \A p \in Positions : p <= edge_number <=> p \in Numbered
    BY <1>1 DEF Positions, Numbered
  <1>3a. Numbered \subseteq Positions
    BY <1>1 DEF Positions, Numbered
  <1>4. all \ had = gone
    <2>1. ASSUME NEW bit \in all PROVE bit \in gone <=> bit \notin had
      <3>1. bit[1] \in Positions /\ bit[2] \in FullByte /\ bit = <<bit[1], bit[2]>>
        OBVIOUS
      <3>2. CASE bit[1] \in Numbered
        <4>1. virgin_bits[bit[1]] = FullByte \ s[bit[1]]
          BY <3>1, <3>2, <1>3
        <4>2. bit \in Numbered \X FullByte
          BY <3>1, <3>2
        <4> QED BY <3>1, <4>1, <4>2
      <3>3. CASE bit[1] \notin Numbered
        <4>1. virgin_bits[bit[1]] = FullByte
          BY <3>1, <3>3, <1>3
        <4> QED BY <3>1, <3>3, <4>1
      <3> QED BY <3>2, <3>3
    <2>2. gone \subseteq all
      BY <1>3a
    <2> QED BY <2>1, <2>2
  <1>5. had \subseteq all
    OBVIOUS
  <1> HIDE DEF all, gone
  <1>6. /\ IsFiniteSet(had) /\ Cardinality(had) \in Nat /\ Cardinality(gone) \in Nat
        /\ Cardinality(gone) = Cardinality(all) - Cardinality(had)
    <2> HIDE DEF had
    <2>1. IsFiniteSet(had) /\ had \cap all = had /\ IsFiniteSet(gone)
      <3>1. gone \subseteq all
        BY <1>4
      <3> QED BY <1>2, <1>5, <3>1, FS_Subset
    <2>2. Cardinality(all \ had) = Cardinality(all) - Cardinality(all \cap had)
      BY <1>2, FS_Difference
    <2>3. all \cap had = had
      BY <1>5
    <2> QED BY <2>1, <2>2, <2>3, <1>4, FS_CardinalityType
  <1>7. CountBits(virgin_bits) = Cardinality(had)
    BY DEF CountBits, all
  <1>8. 8 * map_size - CountBits(virgin_bits) = Cardinality(gone)
    BY <1>1, <1>2, <1>6, <1>7
  <1>9. {p \in Positions : virgin_bits[p] # FullByte} = {e \in Numbered : s[e] # {}}
    <2>1. \A e \in Numbered : s[e] \subseteq FullByte
      OBVIOUS
    <2>2. \A e \in Numbered : FullByte \ s[e] # FullByte <=> s[e] # {}
      BY <2>1
    <2> QED BY <2>2, <1>3, <1>3a
  <1> QED BY <1>8, <1>9 DEF gone, CountNon255Bytes

\* Word by word is edge by edge: what has_new_bits() says, what the maps hold,
\* what the functions on them count.
THEOREM WordsDoNotMatter == MapsSpec => []EdgeByEdge
  <1>1. MapsInv => EdgeByEdge
    <2> SUFFICES ASSUME MapsInv PROVE EdgeByEdge
      OBVIOUS
    <2>1. ASSUME map_step \in Running
          PROVE  /\ MapSized /\ Map(virgin_bits) /\ Map(trace_bits)
                 /\ Numbered \subseteq Positions /\ (\A p \in Positions : p <= edge_number <=> p \in Numbered)
      <3>1. MapSized /\ Map(virgin_bits) /\ Map(trace_bits)
        BY <2>1 DEF MapsInv, MapTypes
      <3>2. edge_number \in Nat /\ map_size \in Nat /\ edge_number <= map_size
        BY <3>1, BytesAndWords DEF MapSized
      <3> QED BY <3>1, <3>2 DEF Numbered, Positions
    <2>2. ASSUME map_step = "looked"
          PROVE  /\ new_bits = 2 <=> \E e \in Numbered : hit[e] # 0 /\ pristine[e] = FullByte
                 /\ new_bits = 0 <=> \A e \in Numbered : ClassOf(Bits(hit[e])) \cap pristine[e] = {}
                 /\ CountBytes(trace_bits) = Cardinality({e \in Numbered : hit[e] # 0})
                 /\ Minimized(trace_bits) = {<<(e - 1) \div 8, (e - 1) % 8>> : e \in {x \in Numbered : hit[x] # 0}}
      <3>0. /\ MapSized /\ Map(trace_bits) /\ Numbered \subseteq Positions
            /\ \A p \in Positions : p <= edge_number <=> p \in Numbered
        BY <2>1, <2>2 DEF Running
      <3>1. /\ hit \in [Numbered -> HitCounts] /\ TraceOfRun /\ Map(pristine)
            /\ new_bits = Returned(pristine, trace_bits)
        BY <2>2 DEF MapsInv, LastRun
      <3>2. \A p \in Positions : trace_bits[p] = IF p \in Numbered THEN ClassOf(Bits(hit[p])) ELSE {}
        BY <3>0, <3>1 DEF TraceOfRun, TraceOf
      <3>3. \A e \in Numbered : ClassOf(Bits(hit[e])) = {} <=> hit[e] = 0
        BY <3>1, BitmapsAssumption, ZeroHasNoBits, ClassesOfBytes
      <3>4. \A p \in Positions : trace_bits[p] # {} <=> p \in Numbered /\ hit[p] # 0
        BY <3>2, <3>3
      <3>5. {p \in Positions : trace_bits[p] # {}} = {e \in Numbered : hit[e] # 0}
        BY <3>0, <3>4
      <3>6. /\ new_bits = 2 <=> \E p \in Positions : trace_bits[p] # {} /\ pristine[p] = FullByte
            /\ new_bits = 0 <=> \A p \in Positions : trace_bits[p] \cap pristine[p] = {}
        BY <3>0, <3>1, ReturnedIs
      <3>7. new_bits = 2 <=> \E e \in Numbered : hit[e] # 0 /\ pristine[e] = FullByte
        BY <3>0, <3>4, <3>6
      <3>8. new_bits = 0 <=> \A e \in Numbered : ClassOf(Bits(hit[e])) \cap pristine[e] = {}
        BY <3>0, <3>2, <3>6
      <3>9. CountBytes(trace_bits) = Cardinality({e \in Numbered : hit[e] # 0})
        BY <3>5 DEF CountBytes
      <3>10. Minimized(trace_bits) = {<<(e - 1) \div 8, (e - 1) % 8>> : e \in {x \in Numbered : hit[x] # 0}}
        BY <3>5 DEF Minimized
      <3> QED BY <3>7, <3>8, <3>9, <3>10
    <2>3. ASSUME map_step \in Running, ~in_bitmap
          PROVE  /\ \A e \in Numbered : virgin_bits[e] = FullByte \ seen[e]
                 /\ CountNon255Bytes(virgin_bits) = Cardinality({e \in Numbered : seen[e] # {}})
                 /\ 8 * map_size - CountBits(virgin_bits) = Cardinality({bit \in Numbered \X FullByte : bit[2] \in seen[bit[1]]})
      <3>1. \A p \in Positions : virgin_bits[p] = IF p <= edge_number THEN FullByte \ seen[p] ELSE FullByte
        BY <2>3 DEF MapsInv, VirginMaps
      <3>2. seen \in [Numbered -> SUBSET FullByte]
        BY DEF MapsInv, MapTypes
      <3>3. \A e \in Numbered : virgin_bits[e] = FullByte \ seen[e]
        BY <2>1, <2>3, <3>1
      <3> QED BY <2>1, <2>3, <3>1, <3>2, <3>3, CountsAddUp
    <2>4. ASSUME map_step = "crashed"
          PROVE  new_bits # 0 <=> \E e \in Numbered : HitOrNot(e) \in pristine[e]
      <3>0. /\ MapSized /\ Map(trace_bits) /\ Numbered \subseteq Positions
            /\ (\A p \in Positions : p <= edge_number <=> p \in Numbered) /\ 1 \in Numbered
        BY <2>1, <2>4 DEF Running, Numbered, MapSized
      <3>1. /\ Map(pristine) /\ new_bits = Returned(pristine, trace_bits)
            /\ \A p \in Positions : trace_bits[p] = IF p \in Numbered /\ hit[p] # 0 THEN {7} ELSE {0}
            /\ \/ \A p \in Positions : pristine[p] = FullByte
               \/ \A p \in Positions : p \in Numbered \/ 0 \notin pristine[p]
        BY <2>4, <3>0 DEF MapsInv, LastRun, CrashTrace
      <3>2. new_bits # 0 <=> \E p \in Positions : trace_bits[p] \cap pristine[p] # {}
        BY <3>0, <3>1, ReturnedIs
      <3>3. \A e \in Numbered : trace_bits[e] = {HitOrNot(e)}
        BY <3>0, <3>1 DEF HitOrNot
      <3>4. ASSUME NEW e \in Numbered, HitOrNot(e) \in pristine[e] PROVE new_bits # 0
        BY <3>0, <3>2, <3>3, <3>4
      <3>5. ASSUME NEW p \in Positions, trace_bits[p] \cap pristine[p] # {}
            PROVE  \E e \in Numbered : HitOrNot(e) \in pristine[e]
        <4>1. CASE p \in Numbered
          BY <4>1, <3>3, <3>5
        <4>2. CASE p \notin Numbered
          <5>1. 0 \in pristine[p]
            BY <4>2, <3>1, <3>5
          <5>2. pristine[1] = FullByte
            BY <5>1, <4>2, <3>0, <3>1
          <5>3. HitOrNot(1) \in FullByte
            BY DEF HitOrNot, FullByte
          <5> QED BY <5>2, <5>3, <3>0
        <4> QED BY <4>1, <4>2
      <3> QED BY <3>2, <3>4, <3>5
    <2> QED BY <2>2, <2>3, <2>4 DEF EdgeByEdge, Running
  <1> QED BY <1>1, MapsInitInv, MapsNextInv, PTL DEF MapsSpec

-----------------------------------------------------------------------------
(* The chains that compare strings one character at a time. *)

CallTypes ==
  /\ call.fn \in {"strcmp", "strncmp", "memcmp"} /\ call.n \in Nat
  /\ \A k \in {1, 2} : /\ call.literal[k] \in Seq(Char) /\ call.buffer[k] \in Seq(Char)
                       /\ (call.buffer[k] = <<>>) <=> HasStr(k)

\* The calls the equality is promised for.
Promised ==
  /\ ~call.nocase /\ Defined(1) /\ Defined(2) /\ ~EndsEarly
  /\ ~BothVariable => Known = ConstStr

\* A chain that runs was made for one literal or for none, holds its characters,
\* and has come to the block `pos' by characters that are the same.
AgreeBefore(p) ==
  \A m \in 1 .. p - 1 : m <= Len(Argument(1)) /\ m <= Len(Argument(2)) /\ Argument(1)[m] = Argument(2)[m]
ChainMade ==
  /\ ~(HasStr(1) /\ HasStr(2)) /\ ~Unsuitable
  /\ blocks = ConstLen /\ blocks \in Nat \ {0}
  /\ ~BothVariable => \A k \in 1 .. blocks : k <= Len(Known) => chain[k] = Known[k]
  /\ pos \in 1 .. blocks
ChainInv ==
  /\ s2u_step \in {"select", "kept", "failed", "run", "done", "overread"}
  /\ s2u_step = "select" => pos = 1
  /\ s2u_step \in {"run", "done", "overread"} => ChainMade
  /\ s2u_step \in {"run", "done"} /\ Promised => AgreeBefore(pos)
  /\ Promised => s2u_step # "overread"
  /\ s2u_step = "done" =>
       s2u_result = SignExtended(Difference) /\ (Difference = 0 => pos = blocks)

StringInv == CallTypes /\ ChainInv

LEMMA SubtractedBytes ==
  ASSUME NEW a \in Char, NEW b \in Char
  PROVE  /\ (a - b + 2 * CharHalf) % (2 * CharHalf) = 0 <=> a = b
         /\ SignExtended((a - b + 2 * CharHalf) % (2 * CharHalf)) = 0 <=> a = b
  <1> DEFINE d == a - b + 2 * CharHalf
             size == 2 * CharHalf
  <1>1. CharHalf \in Nat \ {0} /\ size \in Nat \ {0} /\ size = 2 * CharHalf
    BY StringAssumption
  <1>2. a \in 0 .. size - 1 /\ b \in 0 .. size - 1 /\ d = a - b + size
    BY DEF Char
  <1> HIDE DEF size, d
  <1>3. CASE a < b
    <2>1. d \in Nat /\ d \in 0 .. size - 1 /\ d = 0 * size + d /\ d # 0
      BY <1>1, <1>2, <1>3
    <2>2. d % size = d
      BY <2>1, <1>1, Quotient
    <2>3. SignExtended(d) # 0
      BY <2>1, <1>1 DEF SignExtended
    <2> QED BY <2>1, <2>2, <2>3, <1>3, <1>2 DEF d, size
  <1>4. CASE ~(a < b)
    <2>1. d \in Nat /\ a - b \in 0 .. size - 1 /\ d = 1 * size + (a - b) /\ (a - b = 0 <=> a = b)
      BY <1>1, <1>2, <1>4
    <2>2. d % size = a - b
      BY <2>1, <1>1, Quotient
    <2>3. SignExtended(a - b) = 0 <=> a - b = 0
      BY <2>1, <1>1 DEF SignExtended
    <2> QED BY <2>1, <2>2, <2>3 DEF d, size
  <1> QED BY <1>3, <1>4

\* The literal and the other argument, in either order.
LEMMA ArgumentsAre ==
  ASSUME CallTypes, ~(HasStr(1) /\ HasStr(2))
  PROVE  /\ Argument(1) \in Seq(Char) /\ Argument(2) \in Seq(Char)
         /\ BothVariable => Argument(1) = call.buffer[1] /\ Argument(2) = call.buffer[2] /\ VarStr = call.buffer[1]
         /\ ~BothVariable => \/ Argument(1) = ConstStr /\ Argument(2) = VarStr
                             \/ Argument(1) = VarStr /\ Argument(2) = ConstStr
  <1>1. 1 \in {1, 2} /\ 2 \in {1, 2}
    OBVIOUS
  <1> QED BY <1>1 DEF CallTypes, Argument, BothVariable, ConstStr, VarStr

\* Before the last character, what agrees is not the end of a string.
LEMMA NoEndBefore ==
  ASSUME CallTypes, Promised, call.fn # "memcmp",
         NEW p \in Nat, p <= ConstLen, ConstLen \in Nat, AgreeBefore(p), NEW m \in 1 .. p - 1
  PROVE  Argument(1)[m] # 0
  <1> SUFFICES ASSUME Argument(1)[m] = 0 PROVE EndsEarly
    BY DEF Promised
  <1>1. m \in 1 .. ConstLen - 1 /\ \A k \in 1 .. m : k \in 1 .. p - 1
    OBVIOUS
  <1>2. m <= Len(Argument(1)) /\ m <= Len(Argument(2)) /\ \A k \in 1 .. m : Argument(1)[k] = Argument(2)[k]
    BY <1>1 DEF AgreeBefore
  <1> HIDE DEF ConstLen
  <1> QED BY <1>1, <1>2 DEF EndsEarly

\* Up to the character that a block compares, both arguments are there.
LEMMA BlockIsInside ==
  ASSUME CallTypes, ChainMade, Promised, AgreeBefore(pos)
  PROVE  /\ pos <= Len(Argument(1)) /\ pos <= Len(Argument(2)) /\ Inside
         /\ Difference = 0 <=> Argument(1)[pos] = Argument(2)[pos]
         /\ SignExtended(Difference) = 0 <=> Argument(1)[pos] = Argument(2)[pos]
  <1>1. /\ Argument(1) \in Seq(Char) /\ Argument(2) \in Seq(Char)
        /\ Len(Argument(1)) \in Nat /\ Len(Argument(2)) \in Nat
        /\ pos \in Nat \ {0} /\ pos <= blocks /\ blocks = ConstLen /\ blocks \in Nat /\ call.n \in Nat
    BY ArgumentsAre, LenProperties DEF ChainMade, CallTypes
  <1>2. ASSUME NEW k \in {1, 2} PROVE pos <= Len(Argument(k))
    <2>1. CASE UseLengthArg /\ call.n <= Len(Argument(k))
      BY <1>1, <2>1 DEF ConstLen
    <2>2. CASE call.fn # "memcmp" /\ \E z \in 1 .. Len(Argument(k)) : Argument(k)[z] = 0
      <3>1. PICK z \in 1 .. Len(Argument(k)) : Argument(k)[z] = 0
        BY <2>2
      <3>2. ~(z \in 1 .. pos - 1)
        <4> SUFFICES ASSUME z \in 1 .. pos - 1 PROVE FALSE
          OBVIOUS
        <4>1. Argument(1)[z] = Argument(2)[z]
          BY DEF AgreeBefore
        <4>2. Argument(1)[z] # 0
          BY <1>1, <2>2, NoEndBefore
        <4> QED BY <3>1, <4>1, <4>2
      <3> QED BY <1>1, <3>2
    <2> QED BY <2>1, <2>2 DEF Promised, Defined, UseLengthArg
  <1>3. pos <= Len(Argument(1)) /\ pos <= Len(Argument(2)) /\ Argument(1)[pos] \in Char /\ Argument(2)[pos] \in Char
    BY <1>1, <1>2, ElementOfSeq
  <1>4. CASE BothVariable
    <2>1. Inside
      BY <1>3, <1>4, ArgumentsAre DEF Inside, ChainMade
    <2>2. Difference = (Argument(1)[pos] - Argument(2)[pos] + 2 * CharHalf) % (2 * CharHalf)
      BY <1>4, ArgumentsAre DEF Difference, ChainMade
    <2> QED BY <1>3, <2>1, <2>2, SubtractedBytes
  <1>5. CASE ~BothVariable
    <2>1. \/ Argument(1) = ConstStr /\ Argument(2) = VarStr
          \/ Argument(1) = VarStr /\ Argument(2) = ConstStr
      BY <1>5, ArgumentsAre DEF ChainMade
    <2>2. Inside /\ pos <= Len(ConstStr) /\ ConstStr[pos] \in Char /\ VarStr[pos] \in Char
      BY <1>3, <1>5, <2>1 DEF Inside
    <2>3. chain[pos] = ConstStr[pos]
      BY <1>1, <1>5, <2>2 DEF ChainMade, Promised
    <2>4. Difference = (ConstStr[pos] - VarStr[pos] + 2 * CharHalf) % (2 * CharHalf)
      BY <1>5, <2>3 DEF Difference
    <2>5. /\ Difference = 0 <=> ConstStr[pos] = VarStr[pos]
          /\ SignExtended(Difference) = 0 <=> ConstStr[pos] = VarStr[pos]
      BY <2>2, <2>4, SubtractedBytes
    <2> QED BY <1>3, <2>1, <2>2, <2>5
  <1> QED BY <1>4, <1>5

LEMMA StringInitInv == StringInit => StringInv
  <1> SUFFICES ASSUME StringInit PROVE StringInv
    OBVIOUS
  <1>1. \A x \in Literals \cup Buffers : x \in Seq(Char)
    BY LiteralsAssumption
  <1>2. <<>> \in Seq(Char)
    BY EmptySeq
  <1>3. /\ call.fn \in {"strcmp", "strncmp", "memcmp"} /\ call.n \in Nat
        /\ call.buffer \in (Buffers \cup {<<>>}) \X (Buffers \cup {<<>>})
        /\ call.literal \in {<<l, NoLiteral>> : l \in Literals} \cup {<<NoLiteral, l>> : l \in Literals}
                            \cup {<<NoLiteral, NoLiteral>>} \cup {<<l, l>> : l \in Literals}
    BY StringAssumption DEF StringInit
  <1>4. call.buffer[1] \in Seq(Char) /\ call.buffer[2] \in Seq(Char)
    BY <1>1, <1>2, <1>3
  <1>5. call.literal[1] \in Seq(Char) /\ call.literal[2] \in Seq(Char)
    <2>1. \/ \E l \in Literals : call.literal = <<l, NoLiteral>>
          \/ \E l \in Literals : call.literal = <<NoLiteral, l>>
          \/ call.literal = <<NoLiteral, NoLiteral>>
          \/ \E l \in Literals : call.literal = <<l, l>>
      BY <1>3
    <2>2. \A x \in Literals : x \in Seq(Char)
      BY <1>1
    <2>3. NoLiteral \in Seq(Char)
      BY <1>2 DEF NoLiteral
    <2> QED BY <2>1, <2>2, <2>3
  <1>6. CallTypes
    BY <1>3, <1>4, <1>5 DEF CallTypes, StringInit
  <1>7. ChainInv
    BY DEF StringInit, ChainInv
  <1> QED BY <1>6, <1>7 DEF StringInv

\* The call stays, and what is said of it alone.
LEMMA CallStays ==
  ASSUME call' = call
  PROVE  /\ CallTypes' <=> CallTypes
         /\ Promised' <=> Promised
         /\ \A k : HasStr(k)' <=> HasStr(k)
         /\ \A k : Argument(k)' = Argument(k)
         /\ (BothVariable' <=> BothVariable) /\ ConstLen' = ConstLen /\ ConstStr' = ConstStr /\ Known' = Known
         /\ \A p : AgreeBefore(p)' <=> AgreeBefore(p)
  <1>1. \A k : (HasStr(k)' <=> HasStr(k)) /\ Argument(k)' = Argument(k)
    BY DEF HasStr, Argument
  <1>2. /\ (BothVariable' <=> BothVariable) /\ ConstLen' = ConstLen /\ ConstStr' = ConstStr
        /\ (UseLengthArg' <=> UseLengthArg) /\ Known' = Known
    BY <1>1 DEF BothVariable, ConstLen, ConstStr, UseLengthArg, Known, ZerosOnly
  <1>3. (EndsEarly' <=> EndsEarly) /\ \A k : Defined(k)' <=> Defined(k)
    BY <1>1, <1>2 DEF EndsEarly, Defined
  <1>4. CallTypes' <=> CallTypes
    BY <1>1 DEF CallTypes
  <1>5. \A p : AgreeBefore(p)' <=> AgreeBefore(p)
    BY <1>1 DEF AgreeBefore
  <1> QED BY <1>1, <1>2, <1>3, <1>4, <1>5 DEF Promised

LEMMA TransformKeeps == StringInv /\ TransformCall => StringInv'
  <1> SUFFICES ASSUME StringInv, TransformCall PROVE StringInv'
    OBVIOUS
  <1>1. call' = call /\ pos' = pos /\ s2u_step = "select" /\ pos = 1
    BY DEF TransformCall, StringInv, ChainInv
  <1>2. s2u_step' \in {"kept", "failed"} \/ s2u_step' = "run"
    BY DEF TransformCall, KeepCall, TransformVariables, TransformLiteral, Untouched, Abort, MakeChain
  <1>3. CallTypes'
    BY <1>1, CallStays DEF StringInv
  <1>4. CASE s2u_step' \in {"kept", "failed"}
    BY <1>3, <1>4 DEF StringInv, ChainInv
  <1>5. CASE s2u_step' = "run"
    <2>1. ~Unsuitable /\ ConstLen # 0 /\ blocks' = ConstLen
      BY <1>5 DEF TransformCall, KeepCall, TransformVariables, TransformLiteral, Untouched, Abort, MakeChain
    <2>2. ConstLen \in Nat
      <3>1. 1 \in {1, 2} /\ 2 \in {1, 2}
        OBVIOUS
      <3>2. Len(ConstStr) \in Nat /\ call.n \in Nat
        BY <3>1, LenProperties DEF StringInv, CallTypes, ConstStr
      <3> QED BY <3>2 DEF ConstLen
    <2>3. ~BothVariable => \A k \in 1 .. ConstLen : k <= Len(Known) => chain'[k] = Known[k]
      <3> SUFFICES ASSUME ~BothVariable PROVE \A k \in 1 .. ConstLen : k <= Len(Known) => chain'[k] = Known[k]
        OBVIOUS
      <3>1. PICK chars \in ConstChars : chain' = chars
        BY <1>5, <2>1 DEF TransformCall, KeepCall, TransformVariables, TransformLiteral, Untouched, Abort, MakeChain
      <3>2. PICK behind : chars = [k \in 1 .. ConstLen |-> IF k <= Len(Known) THEN Known[k] ELSE behind[k]]
        BY <3>1 DEF ConstChars
      <3> QED BY <3>1, <3>2
    <2>4. ChainMade'
      <3>1. ~(HasStr(1) /\ HasStr(2)) /\ 1 \in 1 .. ConstLen
        BY <2>1, <2>2 DEF Unsuitable
      <3>2. (~(HasStr(1) /\ HasStr(2)))' /\ ~Unsuitable' /\ ConstLen' = ConstLen /\ Known' = Known /\ (BothVariable' <=> BothVariable)
        BY <3>1, <2>1, <1>1, CallStays DEF Unsuitable
      <3> QED BY <3>1, <3>2, <1>1, <2>1, <2>2, <2>3 DEF ChainMade
    <2>5. AgreeBefore(1)
      BY DEF AgreeBefore
    <2>6. AgreeBefore(pos)'
      <3>1. AgreeBefore(1)'
        BY <2>5, <1>1, CallStays
      <3> QED BY <3>1, <1>1 DEF AgreeBefore
    <2>7. ChainInv'
      BY <1>5, <2>4, <2>6 DEF ChainInv
    <2> QED BY <1>3, <2>7 DEF StringInv
  <1> QED BY <1>2, <1>4, <1>5

LEMMA RunBlockKeeps == StringInv /\ RunBlock => StringInv'
  <1> SUFFICES ASSUME StringInv, RunBlock PROVE StringInv'
    OBVIOUS
  <1>1. call' = call /\ chain' = chain /\ blocks' = blocks /\ s2u_step = "run" /\ ChainMade
    BY DEF RunBlock, StringInv, ChainInv
  <1>2. /\ CallTypes' /\ (Promised' <=> Promised) /\ ConstLen' = ConstLen /\ Known' = Known
        /\ (BothVariable' <=> BothVariable) /\ (\A k : HasStr(k)' <=> HasStr(k))
        /\ (Unsuitable' <=> Unsuitable) /\ \A p : AgreeBefore(p)' <=> AgreeBefore(p)
    BY <1>1, CallStays DEF StringInv, Unsuitable
  <1>3. pos \in Nat \ {0} /\ blocks \in Nat \ {0} /\ pos <= blocks
    BY <1>1 DEF ChainMade
  <1>4. ASSUME Promised
        PROVE  AgreeBefore(pos) /\ Inside /\ (Difference = 0 => AgreeBefore(pos + 1))
    <2>1. AgreeBefore(pos) /\ CallTypes
      BY <1>1, <1>4 DEF StringInv, ChainInv
    <2>2. /\ pos <= Len(Argument(1)) /\ pos <= Len(Argument(2)) /\ Inside
          /\ Difference = 0 <=> Argument(1)[pos] = Argument(2)[pos]
      BY <1>1, <1>4, <2>1, BlockIsInside
    <2>3. ASSUME Difference = 0 PROVE AgreeBefore(pos + 1)
      <3>1. \A m \in 1 .. (pos + 1) - 1 : m = pos \/ m \in 1 .. pos - 1
        BY <1>3
      <3> QED BY <3>1, <2>1, <2>2, <2>3 DEF AgreeBefore
    <2> QED BY <2>1, <2>2, <2>3
  <1>5. CASE ~Inside
    <2>1. pos' = pos /\ s2u_step' = "overread" /\ ~Promised
      BY <1>4, <1>5 DEF RunBlock
    <2> QED BY <1>1, <1>2, <2>1 DEF StringInv, ChainInv, ChainMade
  <1>6. CASE Inside /\ Difference = 0 /\ pos < blocks
    <2>1. pos' = pos + 1 /\ s2u_step' = "run"
      BY <1>6 DEF RunBlock
    <2>2. ChainMade'
      BY <1>1, <1>2, <1>3, <1>6, <2>1 DEF ChainMade
    <2>3. Promised' => AgreeBefore(pos)'
      <3> SUFFICES ASSUME Promised PROVE AgreeBefore(pos)'
        BY <1>2
      <3>1. AgreeBefore(pos + 1)
        BY <1>4, <1>6
      <3>2. \A m \in 1 .. (pos + 1) - 1 : m <= Len(Argument(1))' /\ m <= Len(Argument(2))' /\ Argument(1)'[m] = Argument(2)'[m]
        BY <3>1, <1>1, CallStays DEF AgreeBefore
      <3> QED BY <3>2, <2>1 DEF AgreeBefore
    <2>4. ChainInv'
      BY <2>1, <2>2, <2>3 DEF ChainInv
    <2> QED BY <1>2, <2>4 DEF StringInv
  <1>7. CASE Inside /\ ~(Difference = 0 /\ pos < blocks)
    <2>1. pos' = pos /\ s2u_step' = "done" /\ s2u_result' = SignExtended(Difference)
      BY <1>7 DEF RunBlock
    <2>2. Difference' = Difference
      BY <1>1, <2>1 DEF Difference, BothVariable, VarStr, HasStr
    <2>3. ChainMade'
      BY <1>1, <1>2, <2>1 DEF ChainMade
    <2>4. Promised' => AgreeBefore(pos)'
      <3> SUFFICES ASSUME Promised PROVE AgreeBefore(pos)'
        BY <1>2
      <3>1. \A m \in 1 .. pos - 1 : m <= Len(Argument(1))' /\ m <= Len(Argument(2))' /\ Argument(1)'[m] = Argument(2)'[m]
        BY <1>1, <1>4, CallStays DEF AgreeBefore
      <3> QED BY <3>1, <2>1 DEF AgreeBefore
    <2>5. Difference = 0 => pos = blocks
      BY <1>3, <1>7
    <2>6. SignExtended(Difference)' = SignExtended(Difference)
      BY <2>2 DEF SignExtended
    <2>7. ChainInv'
      BY <1>1, <2>1, <2>2, <2>3, <2>4, <2>5, <2>6 DEF ChainInv
    <2> QED BY <1>2, <2>7 DEF StringInv
  <1> QED BY <1>5, <1>6, <1>7

LEMMA StringNextInv == StringInv /\ [StringNext]_stringVars => StringInv'
  <1>1. StringInv /\ UNCHANGED stringVars => StringInv'
    <2> SUFFICES ASSUME StringInv, UNCHANGED stringVars PROVE StringInv'
      OBVIOUS
    <2>1. call' = call /\ pos' = pos /\ chain' = chain /\ blocks' = blocks /\ s2u_step' = s2u_step /\ s2u_result' = s2u_result
      BY DEF stringVars
    <2>2. CallTypes' /\ (Promised' <=> Promised) /\ (ChainMade' <=> ChainMade) /\ (AgreeBefore(pos)' <=> AgreeBefore(pos))
      BY <2>1, CallStays DEF StringInv, ChainMade, AgreeBefore, Unsuitable
    <2>3. Difference' = Difference
      BY <2>1 DEF Difference, BothVariable, VarStr, HasStr
    <2>4. SignExtended(Difference)' = SignExtended(Difference)
      BY <2>3 DEF SignExtended
    <2>5. ChainInv'
      BY <2>1, <2>2, <2>3, <2>4 DEF StringInv, ChainInv
    <2> QED BY <2>2, <2>5 DEF StringInv
  <1> QED BY <1>1, TransformKeeps, RunBlockKeeps DEF StringNext

\* A chain of blocks says "equal" when the call did and reads nothing behind the
\* arguments, whatever literals, buffers and lengths there are, in every defined
\* call where case matters, the literal is not of zeros only, and no two strings
\* end at one place before the last block.
THEOREM ChainsCompare == StringSpec => []SameEquality
  <1>1. StringInv => SameEquality
    <2> SUFFICES ASSUME StringInv, Promised
                 PROVE  s2u_step # "overread" /\ (s2u_step = "done" => ((s2u_result = 0) <=> ArgumentsEqual))
      BY DEF SameEquality, Promised
    <2>1. s2u_step # "overread"
      BY DEF StringInv, ChainInv
    <2>2. ASSUME s2u_step = "done" PROVE (s2u_result = 0) <=> ArgumentsEqual
      <3> DEFINE a == Argument(1)  b == Argument(2)
      <3>1. /\ CallTypes /\ ChainMade /\ AgreeBefore(pos)
            /\ s2u_result = SignExtended(Difference) /\ (Difference = 0 => pos = blocks)
        BY <2>2 DEF StringInv, ChainInv
      <3>2. /\ pos <= Len(a) /\ pos <= Len(b)
            /\ Difference = 0 <=> a[pos] = b[pos]
            /\ s2u_result = 0 <=> a[pos] = b[pos]
        BY <3>1, BlockIsInside
      <3>3. /\ a \in Seq(Char) /\ b \in Seq(Char) /\ Len(a) \in Nat /\ Len(b) \in Nat
            /\ pos \in Nat \ {0} /\ blocks = ConstLen /\ blocks \in Nat /\ pos <= blocks
            /\ UseLengthArg => blocks = call.n
        BY <3>1, ArgumentsAre, LenProperties DEF ChainMade, ConstLen
      <3>4. \A m \in 1 .. pos - 1 : a[m] = b[m]
        BY <3>1 DEF AgreeBefore
      <3>5. ASSUME a[pos] # b[pos] PROVE ~ArgumentsEqual
        <4>1. \A m \in 1 .. pos - 1 : ~Decides(m)
          <5>1. CASE call.fn = "memcmp"
            BY <5>1, <3>4 DEF Decides
          <5>2. CASE call.fn # "memcmp"
            <6>1. \A m \in 1 .. pos - 1 : Argument(1)[m] # 0
              BY <5>2, <3>1, <3>3, NoEndBefore
            <6> QED BY <6>1, <3>4 DEF Decides
          <5> QED BY <5>1, <5>2
        <4>2. pos \in 1 .. Len(a) /\ pos <= Len(b) /\ (UseLengthArg => pos <= call.n)
          BY <3>2, <3>3
        <4> QED BY <4>1, <4>2, <3>5 DEF ArgumentsEqual
      <3>6. ASSUME a[pos] = b[pos] PROVE ArgumentsEqual
        <4>1. pos = blocks
          BY <3>1, <3>2, <3>6
        <4>2. ASSUME NEW k \in 1 .. Len(a), k <= Len(b), UseLengthArg => k <= call.n, a[k] # b[k] PROVE FALSE
          <5>1. ~(k <= pos)
            <6> SUFFICES ASSUME k <= pos PROVE FALSE
              OBVIOUS
            <6>1. k = pos \/ k \in 1 .. pos - 1
              BY <3>3
            <6> QED BY <6>1, <3>4, <3>6, <4>2
          <5>2. ~UseLengthArg
            BY <5>1, <4>1, <4>2, <3>3
          <5>3. ~BothVariable /\ blocks = Len(ConstStr)
            BY <5>2, <3>1, <3>3 DEF UseLengthArg, ChainMade, Unsuitable, ConstLen
          <5>4. a = ConstStr \/ b = ConstStr
            BY <5>3, <3>1, ArgumentsAre DEF ChainMade
          <5>5. Len(a) = pos \/ Len(b) = pos
            BY <5>3, <5>4, <4>1
          <5>6. k \in Nat /\ k <= Len(a) /\ k <= Len(b)
            BY <4>2, <3>3
          <5> HIDE DEF a, b
          <5> QED BY <5>1, <5>5, <5>6, <3>3
        <4> QED BY <4>2 DEF ArgumentsEqual
      <3> QED BY <3>2, <3>5, <3>6
    <2> QED BY <2>1, <2>2
  <1> QED BY <1>1, StringInitInv, StringNextInv, PTL DEF StringSpec

-----------------------------------------------------------------------------
(* Numbers that are cut in halves. *)

Longest == 8 * Unit

LEMMA PowerUnfolds ==
  /\ Longest \in Nat
  /\ Power2 \in [0 .. Longest -> Int] /\ Power2[0] = 1
  /\ \A k \in 1 .. Longest : Power2[k] = 2 * Power2[k - 1]
  <1> DEFINE N == Longest
             step == [k \in 1 .. N |-> [z \in Int |-> 2 * z]]
             Is(f) == f = [k \in 0 .. N |-> IF k = 0 THEN 1 ELSE 2 * f[k - 1]]
  <1>1. N \in Nat
    BY CompareAssumption DEF Longest
  <1>2. Power2 = CHOOSE f : Is(f)
    BY DEF Power2, Longest
  <1> HIDE DEF N
  <1>3. step \in StepsOf(N, Int) /\ \A k \in 1 .. N, z \in Int : step[k][z] = 2 * z
    BY DEF StepsOf
  <1> HIDE DEF step
  <1>4. PICK f : RunsThrough(f, N, Int, 1, step)
    BY <1>1, <1>3, Recursion
  <1>5. f \in [0 .. N -> Int] /\ f[0] = 1 /\ \A k \in 1 .. N : f[k] = step[k][f[k - 1]]
    BY <1>4 DEF RunsThrough
  <1>6. \A k \in 1 .. N : f[k] = 2 * f[k - 1]
    <2> TAKE k \in 1 .. N
    <2>1. f[k - 1] \in Int
      BY <1>1, <1>5
    <2> QED BY <1>3, <1>5, <2>1
  <1>7. \A k \in 0 .. N : f[k] = IF k = 0 THEN 1 ELSE 2 * f[k - 1]
    BY <1>1, <1>5, <1>6
  <1>8. Is(f)
    BY <1>5, <1>7
  <1>9. Is(Power2)
    <2> HIDE DEF Is
    <2> QED BY <1>2, <1>8
  <1>10. Power2 = [k \in 0 .. N |-> Power2[k]] /\ \A k \in 0 .. N : Power2[k] = IF k = 0 THEN 1 ELSE 2 * Power2[k - 1]
    BY <1>9
  <1> HIDE DEF Is
  <1> DEFINE T == {k \in 0 .. N : Power2[k] = f[k]}
  <1>11. 0 \in T
    BY <1>1, <1>7, <1>10
  <1>12. ASSUME NEW k \in 0 .. N - 1, k \in T PROVE k + 1 \in T
    <2>1. k + 1 \in 0 .. N /\ k + 1 # 0 /\ (k + 1) - 1 = k
      BY <1>1
    <2>2. Power2[k + 1] = 2 * Power2[k] /\ f[k + 1] = 2 * f[k]
      BY <1>7, <1>10, <2>1
    <2> QED BY <1>12, <2>1, <2>2
  <1>13. \A k \in 0 .. N : k \in T
    <2> HIDE DEF T
    <2> QED BY <1>1, <1>11, <1>12, UpTo
  <1>14. \A k \in 0 .. N : Power2[k] = f[k]
    BY <1>13
  <1>15. Power2 = f
    BY <1>5, <1>10, <1>14
  <1> QED BY <1>1, <1>5, <1>6, <1>15 DEF N

LEMMA PowerIsPositive ==
  \A k \in 0 .. Longest : Power2[k] \in Nat \ {0}
  <1> DEFINE T == {k \in 0 .. Longest : Power2[k] \in Nat \ {0}}
  <1>1. 0 \in T
    BY PowerUnfolds
  <1>2. ASSUME NEW k \in 0 .. Longest - 1, k \in T PROVE k + 1 \in T
    <2>1. k + 1 \in 1 .. Longest /\ (k + 1) - 1 = k
      BY PowerUnfolds
    <2>2. Power2[k + 1] = 2 * Power2[k]
      BY <2>1, PowerUnfolds
    <2>3. 2 * Power2[k] \in Nat \ {0}
      BY <1>2
    <2> QED BY <2>1, <2>2, <2>3
  <1>3. \A k \in 0 .. Longest : k \in T
    <2> HIDE DEF T
    <2> QED BY <1>1, <1>2, PowerUnfolds, UpTo
  <1> QED BY <1>3

LEMMA TwiceProduct ==
  ASSUME NEW a \in Int, NEW b \in Int
  PROVE  a * (2 * b) = 2 * (a * b)
  OBVIOUS

LEMMA PowerOfSum ==
  ASSUME NEW a \in Nat, NEW b \in Nat, a + b <= Longest
  PROVE  Power2[a + b] = Power2[a] * Power2[b]
  <1> DEFINE M == Longest - a
             T == {k \in 0 .. M : Power2[a + k] = Power2[a] * Power2[k]}
  <1>0. Longest \in Nat /\ M \in Nat /\ b \in 0 .. M /\ a \in 0 .. Longest
    BY PowerUnfolds
  <1>1. 0 \in T
    <2>1. Power2[a] \in Int /\ Power2[0] = 1 /\ a + 0 = a
      BY <1>0, PowerUnfolds
    <2>2. Power2[a] * 1 = Power2[a]
      BY <2>1
    <2> QED BY <1>0, <2>1, <2>2
  <1>2. ASSUME NEW k \in 0 .. M - 1, k \in T PROVE k + 1 \in T
    <2>1. /\ a + (k + 1) \in 1 .. Longest /\ (a + (k + 1)) - 1 = a + k
          /\ k + 1 \in 1 .. Longest /\ (k + 1) - 1 = k /\ k \in 0 .. Longest /\ k + 1 \in 0 .. M
      BY <1>0
    <2>2. Power2[a + (k + 1)] = 2 * Power2[a + k] /\ Power2[k + 1] = 2 * Power2[k]
      BY <2>1, PowerUnfolds
    <2>3. Power2[a + k] = Power2[a] * Power2[k]
      BY <1>2
    <2>4. Power2[a] \in Int /\ Power2[k] \in Int
      BY <1>0, <2>1, PowerUnfolds
    <2>5. Power2[a] * (2 * Power2[k]) = 2 * (Power2[a] * Power2[k])
      BY <2>4, TwiceProduct
    <2> QED BY <2>1, <2>2, <2>3, <2>5
  <1>3. \A k \in 0 .. M : k \in T
    <2> HIDE DEF T, M
    <2> QED BY <1>0, <1>1, <1>2, UpTo
  <1> QED BY <1>0, <1>3

\* The remainder by A * A is made of two remainders by A.
LEMMA HalvesOf ==
  ASSUME NEW z \in Nat, NEW A \in Nat \ {0}
  PROVE  /\ z % A \in 0 .. A - 1 /\ (z \div A) % A \in 0 .. A - 1
         /\ z % (A * A) = ((z \div A) % A) * A + (z % A)
  <1> DEFINE q == z \div A
             low == z % A
             s == q \div A
             high == q % A
             r == high * A + low
  <1>1. q \in Nat /\ low \in 0 .. A - 1 /\ z = q * A + low
    BY Division
  <1> HIDE DEF q, low
  <1>2. s \in Nat /\ high \in 0 .. A - 1 /\ q = s * A + high
    BY <1>1, Division
  <1> HIDE DEF s, high
  <1>3. A * A \in Nat \ {0}
    OBVIOUS
  <1>4. r \in 0 .. A * A - 1
    <2>1. high \in Nat /\ A \in Nat /\ high < A
      BY <1>2
    <2>2. high * A \in Nat /\ high * A + A <= A * A
      BY <2>1, Product
    <2> QED BY <1>1, <2>2
  <1>5. z = s * (A * A) + r
    <2>1. (s * A + high) * A = s * (A * A) + high * A
      BY <1>2
    <2> QED BY <1>1, <1>2, <2>1
  <1> HIDE DEF r
  <1>6. z % (A * A) = r
    <2> DEFINE d == A * A
    <2>1. d \in Nat \ {0} /\ r \in 0 .. d - 1 /\ z = s * d + r
      BY <1>3, <1>4, <1>5
    <2> HIDE DEF d
    <2>2. z % d = r
      BY <1>2, <2>1, Quotient
    <2> QED BY <2>2 DEF d
  <1> QED BY <1>1, <1>2, <1>6 DEF r, q, low, high

LEMMA DivideTwice ==
  ASSUME NEW z \in Nat, NEW A \in Nat \ {0}, NEW B \in Nat \ {0}
  PROVE  z \div (A * B) = (z \div A) \div B
  <1> DEFINE q == z \div A
             low == z % A
             s == q \div B
             high == q % B
             r == high * A + low
             d == B * A
  <1>1. q \in Nat /\ low \in 0 .. A - 1 /\ z = q * A + low
    BY Division
  <1> HIDE DEF q, low
  <1>2. s \in Nat /\ high \in 0 .. B - 1 /\ q = s * B + high
    BY <1>1, Division
  <1> HIDE DEF s, high
  <1>3. d \in Nat \ {0} /\ A * B = d
    OBVIOUS
  <1>4. r \in 0 .. d - 1
    <2>1. high \in Nat /\ A \in Nat /\ B \in Nat /\ high < B
      BY <1>2
    <2>2. high * A \in Nat /\ high * A + A <= B * A
      BY <2>1, Product
    <2> QED BY <1>1, <2>2
  <1>5. z = s * d + r
    <2>1. (s * B + high) * A = s * (B * A) + high * A
      BY <1>2
    <2> QED BY <1>1, <1>2, <2>1
  <1> HIDE DEF r, d
  <1>6. z \div d = s
    BY <1>2, <1>3, <1>4, <1>5, Quotient
  <1> QED BY <1>3, <1>6 DEF s, q

\* Numbers compare by their high halves, then by their low ones.
LEMMA HalvesCompare ==
  ASSUME NEW A \in Nat \ {0}, NEW g \in Nat, NEW h \in Nat, NEW l \in 0 .. A - 1, NEW m \in 0 .. A - 1
  PROVE  /\ g * A + l = h * A + m <=> g = h /\ l = m
         /\ g * A + l > h * A + m <=> g > h \/ (g = h /\ l > m)
         /\ g * A + l \in Nat
  <1>0. A \in Nat /\ g * A \in Nat /\ h * A \in Nat
    OBVIOUS
  <1>1. CASE g < h
    <2>1. g * A + A <= h * A
      BY <1>0, <1>1, Product
    <2> QED BY <1>0, <1>1, <2>1
  <1>2. CASE h < g
    <2>1. h * A + A <= g * A
      BY <1>0, <1>2, Product
    <2> QED BY <1>0, <1>2, <2>1
  <1>3. CASE g = h
    BY <1>0, <1>3
  <1> QED BY <1>1, <1>2, <1>3

\* The sign bit of a number below 2 * A.
LEMMA SignOf ==
  ASSUME NEW A \in Nat \ {0}, NEW z \in 0 .. 2 * A - 1
  PROVE  z \div A = IF z >= A THEN 1 ELSE 0
  <1>1. z \in Nat /\ 1 * A = A /\ 0 * A = 0
    OBVIOUS
  <1>2. CASE z >= A
    <2> DEFINE r == z - A
    <2>1. r \in 0 .. A - 1 /\ z = 1 * A + r
      BY <1>2
    <2> HIDE DEF r
    <2> QED BY <1>1, <1>2, <2>1, Quotient
  <1>3. CASE ~(z >= A)
    <2>1. z \in 0 .. A - 1 /\ z = 0 * A + z
      BY <1>3
    <2> QED BY <1>1, <1>3, <2>1, Quotient
  <1> QED BY <1>2, <1>3
-----------------------------------------------------------------------------
(* What one comparison says, and what those say that take its place. *)

\* The operands there are.
OperandsOf(w) == 0 .. Power2[w] - 1

LEMMA WidthIs ==
  ASSUME NEW w \in CompareWidths
  PROVE  /\ w \in 1 .. Longest /\ w \in 0 .. Longest /\ w - 1 \in 0 .. Longest /\ w \in Nat /\ w # 0
         /\ Power2[w] \in Nat \ {0} /\ Power2[w - 1] \in Nat \ {0} /\ Power2[w] = 2 * Power2[w - 1]
  <1>1. w \in 1 .. Longest
    BY CompareAssumption DEF Longest
  <1>2. w \in 0 .. Longest /\ w - 1 \in 0 .. Longest /\ w \in Nat /\ w # 0
    BY <1>1, PowerUnfolds
  <1> QED BY <1>1, <1>2, PowerUnfolds, PowerIsPositive

LEMMA WholeField ==
  ASSUME compare.w \in CompareWidths, NEW z \in OperandsOf(compare.w), NEW c, IsWhole(c)
  PROVE  Field(z, c) = z
  <1> DEFINE A == Power2[compare.w]
  <1>1. A \in Nat \ {0} /\ compare.w # 0
    BY WidthIs
  <1>2. c.lo = 0 /\ c.w = compare.w
    BY DEF IsWhole
  <1>3. Power2[0] = 1
    BY PowerUnfolds
  <1>4. Field(z, c) = (z \div 1) % A
    BY <1>1, <1>2, <1>3 DEF Field, SignBit
  <1>5. z \in 0 .. A - 1 /\ z \in Nat
    BY <1>1 DEF OperandsOf
  <1> HIDE DEF A
  <1>6. z \div 1 = z
    BY <1>5
  <1>7. z % A = z
    <2>1. z = 0 * A + z /\ 0 \in Nat
      BY <1>1, <1>5
    <2> QED BY <1>1, <1>5, <2>1, Quotient
  <1> QED BY <1>4, <1>6, <1>7

LEMMA HalvedField ==
  ASSUME NEW h \in Nat \ {0}, NEW c, c.lo \in Nat, c.w = 2 * h, c.lo + c.w <= Longest,
         NEW d, d.lo = c.lo + h, d.w = h, NEW e, e.lo = c.lo, e.w = h, NEW z \in Nat
  PROVE  /\ Power2[h] \in Nat \ {0} /\ Field(z, d) \in Nat /\ Field(z, e) \in 0 .. Power2[h] - 1
         /\ Field(z, c) = Field(z, d) * Power2[h] + Field(z, e)
  <1> DEFINE k == c.lo
             A == Power2[h]
             P == Power2[k]
             q == z \div P
  <1>0. k \in Nat /\ h \in Nat /\ k + h <= Longest /\ h + h <= Longest /\ k + h \in 0 .. Longest
        /\ k \in 0 .. Longest /\ h \in 0 .. Longest /\ c.w = h + h /\ Longest \in Nat
    <2>1. Longest \in Nat
      BY PowerUnfolds
    <2>2. k \in Nat /\ h \in Nat /\ h >= 1 /\ c.w = h + h /\ c.w = 2 * h
      OBVIOUS
    <2>3. k + (h + h) <= Longest
      BY <2>2
    <2> HIDE DEF k
    <2>4. k + h <= Longest /\ h + h <= Longest
      BY <2>1, <2>2, <2>3
    <2> QED BY <2>1, <2>2, <2>4
  <1>1. A \in Nat \ {0} /\ P \in Nat \ {0}
    BY <1>0, PowerIsPositive
  <1>2. Power2[k + h] = P * A /\ Power2[h + h] = A * A
    BY <1>0, PowerOfSum
  <1>3. /\ Field(z, c) = (z \div P) % Power2[h + h]
        /\ Field(z, d) = (z \div Power2[k + h]) % A
        /\ Field(z, e) = (z \div P) % A
    BY <1>0 DEF Field, SignBit
  <1> HIDE DEF A, P, k
  <1>4. z \div (P * A) = q \div A
    BY <1>1, DivideTwice
  <1>5. q \in Nat
    BY <1>1, Division
  <1> HIDE DEF q
  <1>6. q % A \in 0 .. A - 1 /\ (q \div A) % A \in 0 .. A - 1 /\ q % (A * A) = ((q \div A) % A) * A + (q % A)
    BY <1>1, <1>5, HalvesOf
  <1>7. Field(z, c) = q % (A * A) /\ Field(z, d) = (q \div A) % A /\ Field(z, e) = q % A
    BY <1>2, <1>3, <1>4 DEF q
  <1> QED BY <1>1, <1>6, <1>7 DEF A

LEMMA HoldsIs ==
  ASSUME NEW a, NEW b, NEW w
  PROVE  /\ Holds("eq", a, b, w) <=> a = b
         /\ Holds("ne", a, b, w) <=> a # b
         /\ Holds("ugt", a, b, w) <=> a > b
         /\ Holds("uge", a, b, w) <=> a >= b
         /\ Holds("ult", a, b, w) <=> a < b
         /\ Holds("ule", a, b, w) <=> a <= b
         /\ Holds("sgt", a, b, w) <=> SignedValue(a, w) > SignedValue(b, w)
         /\ Holds("sge", a, b, w) <=> SignedValue(a, w) >= SignedValue(b, w)
         /\ Holds("slt", a, b, w) <=> SignedValue(a, w) < SignedValue(b, w)
         /\ Holds("sle", a, b, w) <=> SignedValue(a, w) <= SignedValue(b, w)
  BY DEF Holds

LEMMA SignedIs ==
  ASSUME NEW w \in CompareWidths, NEW a \in OperandsOf(w), NEW b \in OperandsOf(w)
  PROVE  /\ SignedValue(a, w) \in Int /\ SignedValue(b, w) \in Int /\ a \in Int /\ b \in Int
         /\ SignedValue(a, w) = SignedValue(b, w) <=> a = b
         /\ SignedValue(a, w) > SignedValue(b, w) <=>
              IF a \div Power2[w - 1] = b \div Power2[w - 1] THEN a > b ELSE a \div Power2[w - 1] < b \div Power2[w - 1]
  <1> DEFINE A == Power2[w - 1]
  <1>1. A \in Nat \ {0} /\ Power2[w] = 2 * A
    BY WidthIs
  <1>2. a \in 0 .. 2 * A - 1 /\ b \in 0 .. 2 * A - 1
    BY <1>1 DEF OperandsOf
  <1>3. /\ SignedValue(a, w) = (IF a >= A THEN a - 2 * A ELSE a)
        /\ SignedValue(b, w) = (IF b >= A THEN b - 2 * A ELSE b)
    BY <1>1 DEF SignedValue
  <1> HIDE DEF A
  <1>4. a \div A = (IF a >= A THEN 1 ELSE 0) /\ b \div A = (IF b >= A THEN 1 ELSE 0)
    BY <1>1, <1>2, SignOf
  <1> QED BY <1>1, <1>2, <1>3, <1>4 DEF A

LEMMA SimplifiedSays ==
  ASSUME compare.w \in CompareWidths, NEW x \in OperandsOf(compare.w), NEW y \in OperandsOf(compare.w),
         NEW c, IsWhole(c), c.pred \in Loose, NEW d, IsWhole(d), d.pred = StrictOf(c.pred), NEW e, IsWhole(e), e.pred = "eq"
  PROVE  Says(c, x, y) <=> Says(d, x, y) \/ Says(e, x, y)
  <1> DEFINE w == compare.w
  <1>1. \A f : IsWhole(f) => Field(x, f) = x /\ Field(y, f) = y /\ f.w = w /\ f.w # SignBit
    BY WholeField, WidthIs DEF IsWhole, SignBit
  <1>2. Says(c, x, y) = Holds(c.pred, x, y, w) /\ Says(d, x, y) = Holds(d.pred, x, y, w) /\ Says(e, x, y) = Holds("eq", x, y, w)
    BY <1>1 DEF Says
  <1>3. /\ SignedValue(x, w) \in Int /\ SignedValue(y, w) \in Int /\ x \in Int /\ y \in Int
        /\ SignedValue(x, w) = SignedValue(y, w) <=> x = y
    BY SignedIs
  <1> HIDE DEF w
  <1>4. CASE c.pred = "uge"
    BY <1>2, <1>3, <1>4, HoldsIs DEF StrictOf
  <1>5. CASE c.pred = "ule"
    BY <1>2, <1>3, <1>5, HoldsIs DEF StrictOf
  <1>6. CASE c.pred = "sge"
    BY <1>2, <1>3, <1>6, HoldsIs DEF StrictOf
  <1>7. CASE c.pred = "sle"
    BY <1>2, <1>3, <1>7, HoldsIs DEF StrictOf
  <1> QED BY <1>4, <1>5, <1>6, <1>7 DEF Loose

LEMMA UnsignedSays ==
  ASSUME compare.w \in CompareWidths, NEW x \in OperandsOf(compare.w), NEW y \in OperandsOf(compare.w),
         NEW c, IsWhole(c), c.pred \in {"sgt", "slt"},
         NEW s, s.w = SignBit, s.pred = "eq",
         NEW d, IsWhole(d), d.pred = (IF c.pred = "sgt" THEN "ugt" ELSE "ult"),
         NEW e, e.w = SignBit, e.pred = (IF c.pred = "sgt" THEN "ult" ELSE "ugt")
  PROVE  Says(c, x, y) <=> IF Says(s, x, y) THEN Says(d, x, y) ELSE Says(e, x, y)
  <1> DEFINE w == compare.w
             a == x \div Power2[w - 1]
             b == y \div Power2[w - 1]
  <1>1. \A f : IsWhole(f) => Field(x, f) = x /\ Field(y, f) = y /\ f.w = w /\ f.w # SignBit
    BY WholeField, WidthIs DEF IsWhole, SignBit
  <1>2. \A f : f.w = SignBit => Field(x, f) = a /\ Field(y, f) = b
    BY DEF Field
  <1>3. /\ Says(c, x, y) = Holds(c.pred, x, y, w) /\ Says(d, x, y) = Holds(d.pred, x, y, w)
        /\ Says(s, x, y) = Holds("eq", a, b, 1) /\ Says(e, x, y) = Holds(e.pred, a, b, 1)
    BY <1>1, <1>2 DEF Says
  <1>4. /\ SignedValue(x, w) \in Int /\ SignedValue(y, w) \in Int /\ x \in Int /\ y \in Int
        /\ SignedValue(x, w) > SignedValue(y, w) <=> IF a = b THEN x > y ELSE a < b
        /\ SignedValue(y, w) > SignedValue(x, w) <=> IF b = a THEN y > x ELSE b < a
    BY SignedIs
  <1>5. a \in Int /\ b \in Int
    <2>1. Power2[w - 1] \in Nat \ {0} /\ Power2[w] \in Nat
      BY WidthIs
    <2> HIDE DEF w
    <2>2. x \in Nat /\ y \in Nat
      BY <2>1 DEF OperandsOf, w
    <2>3. a \in Nat /\ b \in Nat
      BY <2>1, <2>2, Division
    <2> QED BY <2>3
  <1> HIDE DEF w, a, b
  <1>6. CASE c.pred = "sgt"
    BY <1>3, <1>4, <1>5, <1>6, HoldsIs
  <1>7. CASE c.pred = "slt"
    BY <1>3, <1>4, <1>5, <1>7, HoldsIs
  <1> QED BY <1>6, <1>7

\* d and e are the comparisons of the halves of what c compares.
Halves(c, d, e, h) ==
  /\ c.lo \in Nat /\ c.w = 2 * h /\ c.lo + c.w <= Longest
  /\ d.lo = c.lo + h /\ d.w = h /\ e.lo = c.lo /\ e.w = h /\ d.pred = c.pred /\ e.pred = c.pred

LEMMA HalvedSays ==
  ASSUME NEW x \in Nat, NEW y \in Nat, NEW h \in Nat \ {0}, NEW c, NEW d, NEW e, Halves(c, d, e, h)
  PROVE  /\ c.pred = "eq" => (Says(c, x, y) <=> Says(d, x, y) /\ Says(e, x, y))
         /\ c.pred = "ne" => (Says(c, x, y) <=> Says(d, x, y) \/ Says(e, x, y))
         /\ \A f : /\ c.pred \in {"ugt", "ult"}
                   /\ f.lo = d.lo /\ f.w = h /\ f.pred = Inverse1(c.pred)
                   => (Says(c, x, y) <=> Says(d, x, y) \/ (~Says(f, x, y) /\ Says(e, x, y)))
  <1> DEFINE A == Power2[h]
             a == Field(x, c)
             b == Field(y, c)
             g == Field(x, d)
             k == Field(y, d)
             l == Field(x, e)
             m == Field(y, e)
  <1>0. /\ c.lo \in Nat /\ c.w = 2 * h /\ c.lo + c.w <= Longest
        /\ d.lo = c.lo + h /\ d.w = h /\ e.lo = c.lo /\ e.w = h /\ d.pred = c.pred /\ e.pred = c.pred
    BY DEF Halves
  <1>1. /\ A \in Nat \ {0} /\ g \in Nat /\ l \in 0 .. A - 1 /\ a = g * A + l
        /\ k \in Nat /\ m \in 0 .. A - 1 /\ b = k * A + m
    BY <1>0, HalvedField
  <1>2. h # SignBit /\ c.w # SignBit
    BY <1>0 DEF SignBit
  <1>3. /\ Says(c, x, y) = Holds(c.pred, a, b, c.w)
        /\ Says(d, x, y) = Holds(c.pred, g, k, h)
        /\ Says(e, x, y) = Holds(c.pred, l, m, h)
    BY <1>0, <1>2 DEF Says
  <1>4. \A f : f.lo = d.lo /\ f.w = h /\ f.pred = Inverse1(c.pred) => Says(f, x, y) = Holds(Inverse1(c.pred), g, k, h)
    BY <1>0, <1>2 DEF Says, Field
  <1> HIDE DEF A, a, b, g, k, l, m
  <1>5. /\ a = b <=> g = k /\ l = m
        /\ a > b <=> g > k \/ (g = k /\ l > m)
        /\ b > a <=> k > g \/ (k = g /\ m > l)
        /\ a \in Int /\ b \in Int
    <2>1. /\ g * A + l = k * A + m <=> g = k /\ l = m
          /\ g * A + l > k * A + m <=> g > k \/ (g = k /\ l > m)
          /\ g * A + l \in Nat
      BY <1>1, HalvesCompare
    <2>2. /\ k * A + m > g * A + l <=> k > g \/ (k = g /\ m > l)
          /\ k * A + m \in Nat
      BY <1>1, HalvesCompare
    <2> QED BY <1>1, <2>1, <2>2
  <1>6. g \in Int /\ k \in Int /\ l \in Int /\ m \in Int
    BY <1>1
  <1>7. CASE c.pred = "eq"
    BY <1>3, <1>5, <1>7, HoldsIs
  <1>8. CASE c.pred = "ne"
    BY <1>3, <1>5, <1>8, HoldsIs
  <1>9. CASE c.pred = "ugt"
    BY <1>3, <1>4, <1>5, <1>6, <1>9, HoldsIs DEF Inverse1
  <1>10. CASE c.pred = "ult"
    BY <1>3, <1>4, <1>5, <1>6, <1>10, HoldsIs DEF Inverse1
  <1> QED BY <1>7, <1>8, <1>9, <1>10
-----------------------------------------------------------------------------
(* What a program does: V are the nodes that say yes, E the comparisons        *)
(* executed for each.                                                          *)

\* What a branch of a program of k nodes may lead to.
Nodes(k) == Yes .. k

\* A branch leads to nodes of a lower rank: no program runs in a circle.
IsRank(r, P) ==
  /\ r \in [Nodes(Len(P)) -> Nat] /\ r[Yes] = 0 /\ r[No] = 0
  /\ \A n \in 1 .. Len(P) : r[n] >= 1
  /\ \A n \in 1 .. Len(P) :
       P[n].op # "icmp" =>
         /\ P[n].test \in 1 .. Len(P) /\ P[n].yes \in Nodes(Len(P)) /\ P[n].no \in Nodes(Len(P))
         /\ r[P[n].test] < r[n] /\ r[P[n].yes] < r[n] /\ r[P[n].no] < r[n]

Ranked(P) == Len(P) \in Nat \ {0} /\ \E r : IsRank(r, P)

Chosen(b, V) == IF b.test \in V THEN b.yes ELSE b.no

IsRunOf(V, E, P, x, y) ==
  /\ V \subseteq Nodes(Len(P)) /\ Yes \in V /\ No \notin V
  /\ E[Yes] = {} /\ E[No] = {}
  /\ \A n \in 1 .. Len(P) :
       /\ P[n].op = "icmp" => (n \in V <=> Says(P[n], x, y)) /\ E[n] = {n}
       /\ P[n].op # "icmp" => (n \in V <=> Chosen(P[n], V) \in V) /\ E[n] = E[P[n].test] \cup E[Chosen(P[n], V)]

\* The same nodes say yes, the same comparisons are executed.
Agree(n, V, E, W, G) == (n \in V <=> n \in W) /\ E[n] = G[n]

LEMMA RunsAgree ==
  ASSUME NEW P, Ranked(P), NEW x, NEW y, NEW V, NEW E, NEW W, NEW G, IsRunOf(V, E, P, x, y), IsRunOf(W, G, P, x, y)
  PROVE  Agree(1, V, E, W, G)
  <1> DEFINE k == Len(P)
  <1>1. PICK r : IsRank(r, P)
    BY DEF Ranked
  <1>2. k \in Nat \ {0} /\ 1 \in 1 .. k /\ Yes = -1 /\ No = 0
    BY DEF Ranked, Yes, No
  <1>3. r \in [Nodes(k) -> Nat] /\ r[1] \in Nat
    BY <1>1, <1>2 DEF IsRank, Nodes
  <1> DEFINE T == {m \in Nat : \A n \in 1 .. k : r[n] <= m => Agree(n, V, E, W, G)}
  <1>4. ASSUME NEW n \in Nodes(k), n \notin 1 .. k PROVE Agree(n, V, E, W, G)
    <2>1. n = Yes \/ n = No
      BY <1>2, <1>4 DEF Nodes
    <2>2. Yes \in V /\ No \notin V /\ E[Yes] = {} /\ E[No] = {}
      BY DEF IsRunOf
    <2>3. Yes \in W /\ No \notin W /\ G[Yes] = {} /\ G[No] = {}
      BY DEF IsRunOf
    <2> QED BY <2>1, <2>2, <2>3 DEF Agree
  <1>5. ASSUME NEW n \in 1 .. k, P[n].op = "icmp" PROVE Agree(n, V, E, W, G)
    <2>1. (n \in V <=> Says(P[n], x, y)) /\ E[n] = {n}
      BY <1>5 DEF IsRunOf
    <2>2. (n \in W <=> Says(P[n], x, y)) /\ G[n] = {n}
      BY <1>5 DEF IsRunOf
    <2> QED BY <2>1, <2>2 DEF Agree
  <1>6. ASSUME NEW n \in 1 .. k, P[n].op # "icmp"
        PROVE  /\ P[n].test \in Nodes(k) /\ P[n].yes \in Nodes(k) /\ P[n].no \in Nodes(k)
               /\ r[P[n].test] \in Nat /\ r[P[n].yes] \in Nat /\ r[P[n].no] \in Nat /\ r[n] \in Nat
               /\ r[P[n].test] < r[n] /\ r[P[n].yes] < r[n] /\ r[P[n].no] < r[n]
    <2>1. /\ P[n].test \in 1 .. k /\ P[n].yes \in Nodes(k) /\ P[n].no \in Nodes(k)
          /\ r[P[n].test] < r[n] /\ r[P[n].yes] < r[n] /\ r[P[n].no] < r[n]
      BY <1>1, <1>6 DEF IsRank
    <2>2. P[n].test \in Nodes(k) /\ n \in Nodes(k)
      BY <1>2, <2>1 DEF Nodes
    <2> QED BY <1>3, <2>1, <2>2
  <1>7. ASSUME NEW n \in 1 .. k, P[n].op # "icmp", NEW m \in Nat, r[n] <= m + 1, \A j \in 1 .. k : r[j] <= m => Agree(j, V, E, W, G)
        PROVE  Agree(n, V, E, W, G)
    <2>1. \A j \in Nodes(k) : r[j] \in Nat /\ r[j] < r[n] => Agree(j, V, E, W, G)
      <3> TAKE j \in Nodes(k)
      <3> HAVE r[j] \in Nat /\ r[j] < r[n]
      <3>1. r[j] <= m
        BY <1>6, <1>7
      <3> QED BY <1>4, <1>7, <3>1
    <2> DEFINE t == P[n].test  c == Chosen(P[n], V)  d == Chosen(P[n], W)
    <2>2. Agree(t, V, E, W, G)
      BY <1>6, <1>7, <2>1
    <2>3. c = d /\ Agree(c, V, E, W, G)
      <3>1. c = d
        BY <2>2 DEF Agree, Chosen
      <3>2. c = P[n].yes \/ c = P[n].no
        BY DEF Chosen
      <3> HIDE DEF c
      <3>3. Agree(P[n].yes, V, E, W, G) /\ Agree(P[n].no, V, E, W, G)
        BY <1>6, <1>7, <2>1
      <3> QED BY <3>1, <3>2, <3>3
    <2>4. (n \in V <=> c \in V) /\ E[n] = E[t] \cup E[c]
      BY <1>7 DEF IsRunOf
    <2>5. (n \in W <=> d \in W) /\ G[n] = G[t] \cup G[d]
      BY <1>7 DEF IsRunOf
    <2> HIDE DEF t, c, d
    <2> QED BY <2>2, <2>3, <2>4, <2>5 DEF Agree
  <1>8. 0 \in T
    <2> SUFFICES ASSUME NEW n \in 1 .. k, r[n] <= 0 PROVE Agree(n, V, E, W, G)
      OBVIOUS
    <2>1. P[n].op = "icmp"
      BY <1>6
    <2> QED BY <1>5, <2>1
  <1>9. ASSUME NEW m \in Nat, m \in T PROVE m + 1 \in T
    <2> SUFFICES ASSUME NEW n \in 1 .. k, r[n] <= m + 1 PROVE Agree(n, V, E, W, G)
      OBVIOUS
    <2>1. CASE P[n].op = "icmp"
      BY <1>5, <2>1
    <2>2. CASE P[n].op # "icmp"
      BY <1>7, <1>9, <2>2
    <2> QED BY <2>1, <2>2
  <1>10. r[1] \in T
    <2> HIDE DEF T
    <2> DEFINE h == r[1]
    <2>1. h \in Nat /\ \A m \in 0 .. h - 1 : m \in T => m + 1 \in T
      BY <1>3, <1>9
    <2> HIDE DEF h
    <2>2. \A m \in 0 .. h : m \in T
      BY <1>8, <2>1, UpTo
    <2> QED BY <2>1, <2>2 DEF h
  <1> QED BY <1>2, <1>3, <1>10

\* What Outcome() finds is what any run says.
LEMMA OutcomeIsRun ==
  ASSUME Ranked(program), NEW x, NEW y, NEW V0, NEW E0, IsRunOf(V0, E0, program, x, y)
  PROVE  \E V, E : /\ IsRunOf(V, E, program, x, y)
                   /\ Outcome(x, y).value = Yes <=> 1 \in V
                   /\ Outcome(x, y).executed = E[1]
  <1> DEFINE k == Len(program)
             body(f, n) ==
               IF n <= 0 THEN [value |-> n, executed |-> {}]
               ELSE IF program[n].op = "icmp"
                      THEN [value |-> IF Says(program[n], x, y) THEN Yes ELSE No, executed |-> {n}]
                      ELSE [value |-> f[IF f[program[n].test].value = Yes THEN program[n].yes ELSE program[n].no].value,
                            executed |-> f[program[n].test].executed
                              \cup f[IF f[program[n].test].value = Yes THEN program[n].yes ELSE program[n].no].executed]
             Is(f) == f = [n \in Yes .. k |-> body(f, n)]
             run == CHOOSE f : Is(f)
             f0 == [n \in Yes .. k |-> [value |-> IF n \in V0 THEN Yes ELSE No, executed |-> E0[n]]]
  <1>0. k \in Nat \ {0} /\ Yes = -1 /\ No = 0
    BY DEF Ranked, Yes, No
  <1>1. Outcome(x, y) = run[1]
    BY DEF Outcome
  <1>13. Yes # No
    BY DEF Yes, No
  <1>2. \A n \in 1 .. k : program[n].op # "icmp" =>
          program[n].test \in Yes .. k /\ program[n].yes \in Yes .. k /\ program[n].no \in Yes .. k
    <2>1. \A j \in 1 .. k : j \in Yes .. k
      BY <1>0
    <2> QED BY <2>1 DEF Ranked, IsRank, Nodes
  <1>14. /\ Yes \in V0 /\ No \notin V0 /\ E0[Yes] = {} /\ E0[No] = {}
         /\ \A n \in 1 .. k :
              /\ program[n].op = "icmp" => (n \in V0 <=> Says(program[n], x, y)) /\ E0[n] = {n}
              /\ program[n].op # "icmp" =>
                   (n \in V0 <=> Chosen(program[n], V0) \in V0) /\ E0[n] = E0[program[n].test] \cup E0[Chosen(program[n], V0)]
    BY DEF IsRunOf
  <1>15. \A n \in Yes .. k : f0[n] = [value |-> IF n \in V0 THEN Yes ELSE No, executed |-> E0[n]]
    OBVIOUS
  <1>16. \A n \in Yes .. k : (f0[n].value = Yes <=> n \in V0) /\ f0[n].value = (IF n \in V0 THEN Yes ELSE No) /\ f0[n].executed = E0[n]
    BY <1>13, <1>15
  <1>17. \A f : f0 = f <=> (f = [n \in Yes .. k |-> f[n]] /\ \A n \in Yes .. k : f0[n] = f[n])
    OBVIOUS
  <1> HIDE DEF f0
  <1>3. ASSUME NEW n \in Yes .. k PROVE f0[n] = body(f0, n)
    <2>1. CASE n <= 0
      <3>1. n = Yes \/ n = No
        BY <1>0, <2>1
      <3>2. f0[n] = [value |-> n, executed |-> {}]
        <4>1. f0[n] = [value |-> IF n \in V0 THEN Yes ELSE No, executed |-> E0[n]]
          BY <1>15
        <4>2. E0[n] = {} /\ (IF n \in V0 THEN Yes ELSE No) = n
          BY ONLY <1>14, <3>1
        <4> QED BY <4>1, <4>2
      <3> QED BY <2>1, <3>2
    <2>2. CASE ~(n <= 0) /\ program[n].op = "icmp"
      <3>1. n \in 1 .. k
        BY <1>0, <2>2
      <3>2. (n \in V0 <=> Says(program[n], x, y)) /\ E0[n] = {n}
        BY <1>14, <2>2, <3>1
      <3>3. f0[n] = [value |-> IF n \in V0 THEN Yes ELSE No, executed |-> {n}]
        BY <1>15, <3>2
      <3>4. (IF n \in V0 THEN Yes ELSE No) = (IF Says(program[n], x, y) THEN Yes ELSE No)
        BY <3>2
      <3> QED BY <2>2, <3>3, <3>4
    <2>3. CASE ~(n <= 0) /\ program[n].op # "icmp"
      <3> DEFINE t == program[n].test
                 c == Chosen(program[n], V0)
      <3>1. n \in 1 .. k
        BY <1>0, <2>3
      <3>2. t \in Yes .. k /\ c \in Yes .. k
        BY <1>2, <2>3, <3>1 DEF Chosen
      <3>3. (n \in V0 <=> c \in V0) /\ E0[n] = E0[t] \cup E0[c]
        BY <1>14, <2>3, <3>1
      <3>5. (IF f0[t].value = Yes THEN program[n].yes ELSE program[n].no) = c
        BY <1>16, <3>2 DEF Chosen
      <3>6. f0[n] = [value |-> IF c \in V0 THEN Yes ELSE No, executed |-> E0[t] \cup E0[c]]
        BY <1>15, <3>3
      <3>7. f0[c].value = (IF c \in V0 THEN Yes ELSE No) /\ f0[c].executed = E0[c] /\ f0[t].executed = E0[t]
        BY <1>16, <3>2
      <3>8. body(f0, n) = [value |-> f0[c].value, executed |-> f0[t].executed \cup f0[c].executed]
        <4> HIDE DEF c
        <4> QED BY <2>3, <3>5
      <3> QED BY <3>6, <3>7, <3>8
    <2> QED BY <2>1, <2>2, <2>3
  <1>4. Is(f0)
    <2> DEFINE g == [n \in Yes .. k |-> body(f0, n)]
    <2>1. \A n \in Yes .. k : f0[n] = g[n]
      BY <1>3
    <2>2. g = [n \in Yes .. k |-> g[n]]
      OBVIOUS
    <2>3. f0 = g
      <3> HIDE DEF g
      <3> QED BY <1>17, <2>1, <2>2
    <2> QED BY <2>3
  <1>5. Is(run)
    <2> HIDE DEF Is
    <2> QED BY <1>4
  <1> HIDE DEF run
  <1>6. \A n \in Yes .. k : run[n] = body(run, n)
    BY <1>5
  <1> HIDE DEF Is
  <1> DEFINE V == {n \in Yes .. k : run[n].value = Yes}
             E == [n \in Yes .. k |-> run[n].executed]
  <1>18. (\A n \in Yes .. k : (n \in V <=> run[n].value = Yes) /\ E[n] = run[n].executed) /\ V \subseteq Nodes(k)
    BY DEF Nodes
  <1> HIDE DEF V, E
  <1>7. Yes \in V /\ No \notin V /\ E[Yes] = {} /\ E[No] = {}
    <2>1. Yes \in Yes .. k /\ No \in Yes .. k /\ Yes <= 0 /\ No <= 0
      BY <1>0
    <2>2. run[Yes] = [value |-> Yes, executed |-> {}] /\ run[No] = [value |-> No, executed |-> {}]
      BY <1>6, <2>1
    <2>3. run[Yes].value = Yes /\ run[No].value = No /\ run[Yes].executed = {} /\ run[No].executed = {}
      BY <2>2
    <2> QED BY <1>13, <1>18, <2>1, <2>3
  <1>8. ASSUME NEW n \in 1 .. k
        PROVE  /\ program[n].op = "icmp" => (n \in V <=> Says(program[n], x, y)) /\ E[n] = {n}
               /\ program[n].op # "icmp" =>
                    (n \in V <=> Chosen(program[n], V) \in V) /\ E[n] = E[program[n].test] \cup E[Chosen(program[n], V)]
    <2>1. n \in Yes .. k /\ ~(n <= 0)
      BY <1>0
    <2>2. CASE program[n].op = "icmp"
      <3>1. run[n] = [value |-> IF Says(program[n], x, y) THEN Yes ELSE No, executed |-> {n}]
        BY <1>6, <2>1, <2>2
      <3>2. (run[n].value = Yes <=> Says(program[n], x, y)) /\ run[n].executed = {n}
        BY <1>13, <3>1
      <3> QED BY <1>18, <2>1, <2>2, <3>2
    <2>3. CASE program[n].op # "icmp"
      <3> DEFINE t == program[n].test
                 c == Chosen(program[n], V)
      <3>1. t \in Yes .. k /\ c \in Yes .. k
        BY <1>2, <2>3 DEF Chosen
      <3>2. t \in V <=> run[t].value = Yes
        BY <1>18, <3>1
      <3>3. (IF run[t].value = Yes THEN program[n].yes ELSE program[n].no) = c
        BY <3>2 DEF Chosen
      <3>4. run[n] = [value |-> run[c].value, executed |-> run[t].executed \cup run[c].executed]
        <4> HIDE DEF c
        <4> QED BY <1>6, <2>1, <2>3, <3>3
      <3>5. run[n].value = run[c].value /\ run[n].executed = run[t].executed \cup run[c].executed
        BY <3>4
      <3> QED BY <1>18, <2>1, <2>3, <3>1, <3>5
    <2> QED BY <2>2, <2>3
  <1>9. 1 \in Yes .. k
    BY <1>0
  <1>10. (run[1].value = Yes <=> 1 \in V) /\ run[1].executed = E[1]
    BY <1>9, <1>18
  <1>11. IsRunOf(V, E, program, x, y)
    BY <1>7, <1>8, <1>18 DEF IsRunOf
  <1> QED BY <1>1, <1>10, <1>11

\* So a run says what Outcome() does.
LEMMA OutcomeIs ==
  ASSUME Ranked(program), NEW x, NEW y, NEW V, NEW E, IsRunOf(V, E, program, x, y)
  PROVE  (Outcome(x, y).value = Yes <=> 1 \in V) /\ Outcome(x, y).executed = E[1]
  <1>1. \A W, G : IsRunOf(W, G, program, x, y) => (1 \in V <=> 1 \in W) /\ E[1] = G[1]
    BY RunsAgree DEF Agree
  <1>2. PICK W, G :
          /\ IsRunOf(W, G, program, x, y)
          /\ Outcome(x, y).value = Yes <=> 1 \in W
          /\ Outcome(x, y).executed = G[1]
    BY OutcomeIsRun
  <1>3. (1 \in V <=> 1 \in W) /\ E[1] = G[1]
    BY <1>1, <1>2
  <1> QED BY <1>2, <1>3
-----------------------------------------------------------------------------
(* A comparison gives way to a branch and to comparisons at the end.           *)

NewOnes(P, Q) == Len(P) + 1 .. Len(Q)

\* Q is P, but for a branch at n that leads to new nodes and from there to
\* comparisons or to a constant.
IsPatch(P, n, Q) ==
  /\ Len(P) \in Nat \ {0} /\ Len(Q) \in Nat /\ Len(Q) >= Len(P)
  /\ n \in 1 .. Len(P) /\ P[n].op = "icmp" /\ Q[n].op # "icmp"
  /\ \A k \in 1 .. Len(P) : k # n => Q[k] = P[k]
  /\ Q[n].test \in NewOnes(P, Q) /\ Q[Q[n].test].op = "icmp"
  /\ Q[n].yes \in NewOnes(P, Q) \cup {Yes, No} /\ Q[n].no \in NewOnes(P, Q) \cup {Yes, No}
  /\ \A k \in NewOnes(P, Q) : Q[k].op # "icmp" =>
       /\ Q[k].test \in NewOnes(P, Q) /\ Q[Q[k].test].op = "icmp"
       /\ \A e \in {Q[k].yes, Q[k].no} : e \in {Yes, No} \/ (e \in NewOnes(P, Q) /\ Q[e].op = "icmp")

\* Where a branch leads, and what is said and executed there.
Picked(Q, k, x, y) == IF Says(Q[Q[k].test], x, y) THEN Q[k].yes ELSE Q[k].no
Leaf(Q, k, x, y) == k = Yes \/ (k # No /\ Says(Q[k], x, y))
IsLeaf(Q, k) == k \in {Yes, No} \/ Q[k].op = "icmp"
Inner(Q, k, x, y) == IF IsLeaf(Q, k) THEN Leaf(Q, k, x, y) ELSE Leaf(Q, Picked(Q, k, x, y), x, y)
LeafRuns(k) == IF k \in {Yes, No} THEN {} ELSE {k}
InnerRuns(Q, k, x, y) == IF IsLeaf(Q, k) THEN LeafRuns(k) ELSE {Q[k].test} \cup LeafRuns(Picked(Q, k, x, y))

LEMMA PatchRanked ==
  ASSUME NEW P, NEW n, NEW Q, IsPatch(P, n, Q), Ranked(P)
  PROVE  Ranked(Q)
  <1> DEFINE K == Len(P)
             M == Len(Q)
             N == NewOnes(P, Q)
  <1>1. /\ K \in Nat \ {0} /\ M \in Nat /\ M >= K /\ n \in 1 .. K /\ P[n].op = "icmp" /\ Q[n].op # "icmp"
        /\ \A k \in 1 .. K : k # n => Q[k] = P[k]
        /\ Q[n].test \in N /\ Q[Q[n].test].op = "icmp" /\ Q[n].yes \in N \cup {Yes, No} /\ Q[n].no \in N \cup {Yes, No}
        /\ \A k \in N : Q[k].op # "icmp" =>
             /\ Q[k].test \in N /\ Q[Q[k].test].op = "icmp"
             /\ \A e \in {Q[k].yes, Q[k].no} : e \in {Yes, No} \/ (e \in N /\ Q[e].op = "icmp")
    BY DEF IsPatch
  <1>2. N = K + 1 .. M /\ Yes = -1 /\ No = 0
    BY DEF NewOnes, Yes, No
  <1>3. PICK r : IsRank(r, P)
    BY DEF Ranked
  <1>4. /\ r \in [Nodes(K) -> Nat] /\ r[Yes] = 0 /\ r[No] = 0
        /\ \A k \in 1 .. K : r[k] >= 1
        /\ \A k \in 1 .. K : P[k].op # "icmp" =>
             /\ P[k].test \in 1 .. K /\ P[k].yes \in Nodes(K) /\ P[k].no \in Nodes(K)
             /\ r[P[k].test] < r[k] /\ r[P[k].yes] < r[k] /\ r[P[k].no] < r[k]
    BY <1>3 DEF IsRank
  <1>5. /\ Nodes(M) = Nodes(K) \cup N
        /\ \A k \in 1 .. M : k \in 1 .. K \/ k \in N
        /\ \A k \in N : k \in 1 .. M /\ k \notin Nodes(K)
        /\ \A k \in 1 .. K : k \in 1 .. M /\ k \in Nodes(K)
        /\ Yes \in Nodes(K) /\ No \in Nodes(K)
    BY <1>1, <1>2 DEF Nodes
  <1> DEFINE s == [k \in Nodes(M) |-> IF k \in Nodes(K) THEN 3 * r[k] ELSE IF Q[k].op = "icmp" THEN 3 * r[n] - 2 ELSE 3 * r[n] - 1]
  <1>6. r[n] \in Nat /\ r[n] >= 1 /\ n \in Nodes(K)
    BY <1>1, <1>4, <1>5
  <1>7. /\ \A k \in Nodes(K) : s[k] = 3 * r[k]
        /\ \A k \in N : Q[k].op = "icmp" => s[k] = 3 * r[n] - 2
        /\ \A k \in N : Q[k].op # "icmp" => s[k] = 3 * r[n] - 1
    BY <1>5
  <1>8. s \in [Nodes(M) -> Nat]
    <2>1. \A k \in Nodes(K) : 3 * r[k] \in Nat
      BY <1>4
    <2>2. 3 * r[n] - 2 \in Nat /\ 3 * r[n] - 1 \in Nat
      BY <1>6
    <2> QED BY <1>5, <2>1, <2>2
  <1> HIDE DEF s, N, K, M
  <1>9. s[Yes] = 0 /\ s[No] = 0 /\ s[n] = 3 * r[n]
    BY <1>4, <1>5, <1>6, <1>7
  <1>10. ASSUME NEW k \in 1 .. M PROVE s[k] >= 1
    <2>1. CASE k \in 1 .. K
      <3>1. k \in Nodes(K) /\ r[k] \in Nat /\ r[k] >= 1
        BY <2>1, <1>4, <1>5
      <3> QED BY <3>1, <1>7
    <2>2. CASE k \in N
      BY <2>2, <1>6, <1>7
    <2> QED BY <1>5, <2>1, <2>2
  <1>11. ASSUME NEW k \in 1 .. M, Q[k].op # "icmp"
         PROVE  /\ Q[k].test \in 1 .. M /\ Q[k].yes \in Nodes(M) /\ Q[k].no \in Nodes(M)
                /\ s[Q[k].test] < s[k] /\ s[Q[k].yes] < s[k] /\ s[Q[k].no] < s[k]
    <2>1. CASE k \in 1 .. K /\ k # n
      <3>1. Q[k] = P[k] /\ P[k].op # "icmp"
        BY <1>1, <1>11, <2>1
      <3>2. /\ P[k].test \in 1 .. K /\ P[k].yes \in Nodes(K) /\ P[k].no \in Nodes(K)
            /\ r[P[k].test] < r[k] /\ r[P[k].yes] < r[k] /\ r[P[k].no] < r[k]
        BY <1>4, <2>1, <3>1
      <3>3. P[k].test \in 1 .. M /\ P[k].test \in Nodes(K) /\ P[k].yes \in Nodes(M) /\ P[k].no \in Nodes(M) /\ k \in Nodes(K)
        BY <1>5, <2>1, <3>2
      <3>4. ASSUME NEW j \in Nodes(K), r[j] < r[k] PROVE s[j] < s[k]
        <4>1. r[j] \in Nat /\ r[k] \in Nat /\ s[j] = 3 * r[j] /\ s[k] = 3 * r[k]
          BY <1>4, <1>7, <3>3
        <4> QED BY <3>4, <4>1
      <3> QED BY <3>1, <3>2, <3>3, <3>4
    <2>2. CASE k = n
      <3>1. ASSUME NEW j \in N \cup {Yes, No} PROVE s[j] < s[n] /\ j \in Nodes(M)
        BY <1>5, <1>6, <1>7, <1>9
      <3>2. Q[n].test \in 1 .. M
        BY <1>1, <1>5
      <3> QED BY <1>1, <2>2, <3>1, <3>2
    <2>3. CASE k \in N
      <3>1. s[k] = 3 * r[n] - 1
        BY <1>7, <1>11, <2>3
      <3>2. ASSUME NEW j, j \in {Yes, No} \/ (j \in N /\ Q[j].op = "icmp") PROVE s[j] < s[k] /\ j \in Nodes(M)
        BY <1>5, <1>6, <1>7, <1>9, <3>1, <3>2
      <3>3. /\ Q[k].test \in N /\ Q[Q[k].test].op = "icmp"
            /\ \A e \in {Q[k].yes, Q[k].no} : e \in {Yes, No} \/ (e \in N /\ Q[e].op = "icmp")
        BY <1>1, <1>11, <2>3
      <3>4. Q[k].test \in 1 .. M
        BY <1>5, <3>3
      <3> QED BY <3>2, <3>3, <3>4
    <2> QED BY <1>5, <2>1, <2>2, <2>3
  <1>12. IsRank(s, Q)
    BY <1>8, <1>9, <1>10, <1>11 DEF IsRank, M
  <1>13. Len(Q) \in Nat \ {0}
    BY <1>1 DEF M
  <1> QED BY <1>12, <1>13 DEF Ranked
\* If the branch says what the comparison said, the program says what it did;
\* what was executed still is, and instead of the comparison what the branch leads to.
LEMMA PatchRuns ==
  ASSUME NEW P, NEW n, NEW Q, IsPatch(P, n, Q), Ranked(P), NEW x, NEW y, NEW V, NEW E, IsRunOf(V, E, P, x, y),
         Says(P[n], x, y) <=> Inner(Q, Picked(Q, n, x, y), x, y)
  PROVE  \E W, G : /\ IsRunOf(W, G, Q, x, y)
                   /\ 1 \in W <=> 1 \in V
                   /\ E[1] \ {n} \subseteq G[1]
                   /\ n \in E[1] => {Q[n].test} \cup InnerRuns(Q, Picked(Q, n, x, y), x, y) \subseteq G[1]
  <1> DEFINE K == Len(P)
             M == Len(Q)
             N == NewOnes(P, Q)
             p == Picked(Q, n, x, y)
             F == {Q[n].test} \cup InnerRuns(Q, p, x, y)
             U(S) == IF n \in S THEN (S \ {n}) \cup F ELSE S
             W == V \cup {k \in N : Inner(Q, k, x, y)}
             G == [k \in Nodes(M) |-> IF k \in N THEN InnerRuns(Q, k, x, y) ELSE U(E[k])]
  <1>1. /\ K \in Nat \ {0} /\ M \in Nat /\ M >= K /\ n \in 1 .. K /\ P[n].op = "icmp" /\ Q[n].op # "icmp"
        /\ \A k \in 1 .. K : k # n => Q[k] = P[k]
        /\ Q[n].test \in N /\ Q[Q[n].test].op = "icmp" /\ Q[n].yes \in N \cup {Yes, No} /\ Q[n].no \in N \cup {Yes, No}
        /\ \A k \in N : Q[k].op # "icmp" =>
             /\ Q[k].test \in N /\ Q[Q[k].test].op = "icmp"
             /\ \A e \in {Q[k].yes, Q[k].no} : e \in {Yes, No} \/ (e \in N /\ Q[e].op = "icmp")
    BY DEF IsPatch
  <1>2. N = K + 1 .. M /\ Yes = -1 /\ No = 0 /\ Yes # No
    BY DEF NewOnes, Yes, No
  <1>3. \A k \in 1 .. K : P[k].op # "icmp" => P[k].test \in 1 .. K /\ P[k].yes \in Nodes(K) /\ P[k].no \in Nodes(K)
    BY DEF Ranked, IsRank
  <1>4. /\ V \subseteq Nodes(K) /\ Yes \in V /\ No \notin V /\ E[Yes] = {} /\ E[No] = {}
        /\ \A k \in 1 .. K :
             /\ P[k].op = "icmp" => (k \in V <=> Says(P[k], x, y)) /\ E[k] = {k}
             /\ P[k].op # "icmp" => (k \in V <=> Chosen(P[k], V) \in V) /\ E[k] = E[P[k].test] \cup E[Chosen(P[k], V)]
    BY DEF IsRunOf
  <1>5. /\ Nodes(M) = Nodes(K) \cup N
        /\ \A k \in 1 .. M : k \in 1 .. K \/ k \in N
        /\ \A k \in N : k \in 1 .. M /\ k \notin Nodes(K)
        /\ \A k \in 1 .. K : k \in 1 .. M /\ k \in Nodes(K)
        /\ Yes \in Nodes(K) /\ No \in Nodes(K) /\ Yes \notin N /\ No \notin N
    BY <1>1, <1>2 DEF Nodes
  \* The nodes there were, and the new ones.
  <1>6. /\ \A k \in Nodes(K) : (k \in W <=> k \in V) /\ G[k] = U(E[k])
        /\ \A k \in N : (k \in W <=> Inner(Q, k, x, y)) /\ G[k] = InnerRuns(Q, k, x, y)
        /\ W \subseteq Nodes(M)
    <2> HIDE DEF N, U, K, M
    <2> QED BY <1>4, <1>5
  <1>7. U({}) = {} /\ U({n}) = F /\ \A S, T : U(S \cup T) = U(S) \cup U(T)
    <2> HIDE DEF F
    <2> QED OBVIOUS
  <1>8. \A k : k # n => U({k}) = {k}
    OBVIOUS
  <1>9. \A S : S \ {n} \subseteq U(S) /\ (n \in S => F \subseteq U(S))
    <2> HIDE DEF F
    <2> QED OBVIOUS
  <1> HIDE DEF W, G, U
  <1>10. Yes \in W /\ No \notin W /\ G[Yes] = {} /\ G[No] = {}
    BY <1>4, <1>5, <1>6, <1>7
  \* A leaf.
  <1>11. ASSUME NEW e, e \in {Yes, No} \/ (e \in N /\ Q[e].op = "icmp")
         PROVE  (e \in W <=> Leaf(Q, e, x, y)) /\ G[e] = LeafRuns(e)
    <2>1. CASE e \in {Yes, No}
      BY <2>1, <1>2, <1>10 DEF Leaf, LeafRuns
    <2>2. CASE e \in N /\ Q[e].op = "icmp"
      <3>1. IsLeaf(Q, e)
        BY <2>2 DEF IsLeaf
      <3> QED BY <2>2, <3>1, <1>6 DEF Inner, InnerRuns
    <2> QED BY <1>11, <2>1, <2>2
  <1>12. ASSUME NEW k \in N, Q[k].op = "icmp" PROVE (k \in W <=> Says(Q[k], x, y)) /\ G[k] = {k}
    <2>1. k # Yes /\ k # No
      BY <1>5
    <2> QED BY <2>1, <1>11, <1>12 DEF Leaf, LeafRuns
  <1>13. ASSUME NEW e \in N \cup {Yes, No} PROVE (e \in W <=> Inner(Q, e, x, y)) /\ G[e] = InnerRuns(Q, e, x, y)
    <2>1. CASE e \in N
      BY <2>1, <1>6
    <2>2. CASE e \in {Yes, No}
      BY <2>2, <1>11 DEF Inner, InnerRuns, IsLeaf
    <2> QED BY <2>1, <2>2
  \* The branch at n.
  <1>14. (n \in W <=> Chosen(Q[n], W) \in W) /\ G[n] = G[Q[n].test] \cup G[Chosen(Q[n], W)]
    <2>1. (Q[n].test \in W <=> Says(Q[Q[n].test], x, y)) /\ G[Q[n].test] = {Q[n].test}
      BY <1>1, <1>12
    <2>2. Chosen(Q[n], W) = p /\ p \in N \cup {Yes, No}
      BY <1>1, <2>1 DEF Chosen, Picked
    <2>3. (p \in W <=> Inner(Q, p, x, y)) /\ G[p] = InnerRuns(Q, p, x, y)
      <3> HIDE DEF p
      <3> QED BY <1>13, <2>2
    <2>4. n \in Nodes(K) /\ (n \in V <=> Says(P[n], x, y)) /\ E[n] = {n}
      BY <1>1, <1>4, <1>5
    <2>5. (n \in W <=> n \in V) /\ G[n] = U({n})
      BY <1>6, <2>4
    <2> QED BY <1>7, <2>1, <2>2, <2>3, <2>4, <2>5 DEF F
  \* A new branch.
  <1>15. ASSUME NEW k \in N, Q[k].op # "icmp"
         PROVE  (k \in W <=> Chosen(Q[k], W) \in W) /\ G[k] = G[Q[k].test] \cup G[Chosen(Q[k], W)]
    <2> DEFINE e == Picked(Q, k, x, y)
    <2>1. /\ Q[k].test \in N /\ Q[Q[k].test].op = "icmp"
          /\ \A j \in {Q[k].yes, Q[k].no} : j \in {Yes, No} \/ (j \in N /\ Q[j].op = "icmp")
      BY <1>1, <1>15
    <2>2. (Q[k].test \in W <=> Says(Q[Q[k].test], x, y)) /\ G[Q[k].test] = {Q[k].test}
      BY <1>12, <2>1
    <2>3. Chosen(Q[k], W) = e /\ (e = Q[k].yes \/ e = Q[k].no)
      BY <2>2 DEF Chosen, Picked
    <2>4. ~IsLeaf(Q, k)
      BY <1>5, <1>15 DEF IsLeaf
    <2>5. (k \in W <=> Leaf(Q, e, x, y)) /\ G[k] = {Q[k].test} \cup LeafRuns(e)
      BY <1>6, <2>4 DEF Inner, InnerRuns
    <2> HIDE DEF e
    <2>6. (e \in W <=> Leaf(Q, e, x, y)) /\ G[e] = LeafRuns(e)
      BY <1>11, <2>1, <2>3
    <2> QED BY <2>2, <2>3, <2>5, <2>6
  \* Another branch.
  <1>16. ASSUME NEW k \in 1 .. K, k # n, Q[k].op # "icmp"
         PROVE  (k \in W <=> Chosen(Q[k], W) \in W) /\ G[k] = G[Q[k].test] \cup G[Chosen(Q[k], W)]
    <2> DEFINE c == Chosen(P[k], V)
    <2>1. Q[k] = P[k] /\ P[k].op # "icmp" /\ k \in Nodes(K)
      BY <1>1, <1>5, <1>16
    <2>2. P[k].test \in Nodes(K) /\ P[k].yes \in Nodes(K) /\ P[k].no \in Nodes(K)
      BY <1>3, <1>5, <2>1
    <2>3. (P[k].test \in W <=> P[k].test \in V) /\ G[P[k].test] = U(E[P[k].test])
      BY <1>6, <2>2
    <2>4. Chosen(Q[k], W) = c /\ c \in Nodes(K)
      BY <2>1, <2>2, <2>3 DEF Chosen
    <2>5. (k \in V <=> c \in V) /\ E[k] = E[P[k].test] \cup E[c]
      BY <1>4, <2>1
    <2> HIDE DEF c
    <2>6. (c \in W <=> c \in V) /\ G[c] = U(E[c]) /\ (k \in W <=> k \in V) /\ G[k] = U(E[k])
      BY <1>6, <2>1, <2>4
    <2> QED BY <1>7, <2>1, <2>3, <2>4, <2>5, <2>6
  <1>17. ASSUME NEW k \in 1 .. M
         PROVE  /\ Q[k].op = "icmp" => (k \in W <=> Says(Q[k], x, y)) /\ G[k] = {k}
                /\ Q[k].op # "icmp" => (k \in W <=> Chosen(Q[k], W) \in W) /\ G[k] = G[Q[k].test] \cup G[Chosen(Q[k], W)]
    <2>1. CASE k \in N
      BY <2>1, <1>12, <1>15
    <2>2. CASE k = n
      BY <2>2, <1>1, <1>14
    <2>3. CASE k \in 1 .. K /\ k # n
      <3>1. CASE Q[k].op = "icmp"
        <4>1. Q[k] = P[k] /\ k \in Nodes(K) /\ (k \in V <=> Says(P[k], x, y)) /\ E[k] = {k}
          BY <1>1, <1>4, <1>5, <2>3, <3>1
        <4>2. (k \in W <=> k \in V) /\ G[k] = U({k})
          BY <1>6, <4>1
        <4> QED BY <1>8, <2>3, <3>1, <4>1, <4>2
      <3>2. CASE Q[k].op # "icmp"
        BY <2>3, <3>2, <1>16
      <3> QED BY <3>1, <3>2
    <2> QED BY <1>5, <2>1, <2>2, <2>3
  <1>18. IsRunOf(W, G, Q, x, y)
    BY <1>6, <1>10, <1>17 DEF IsRunOf, M
  <1>19. (1 \in W <=> 1 \in V) /\ G[1] = U(E[1])
    <2>1. 1 \in Nodes(K)
      BY <1>1, <1>5
    <2> QED BY <1>6, <2>1
  <1>20. E[1] \ {n} \subseteq G[1] /\ (n \in E[1] => F \subseteq G[1])
    BY <1>9, <1>19
  <1> QED BY <1>18, <1>19, <1>20 DEF F, p
-----------------------------------------------------------------------------
(* The invariant of the pass. *)

UnsignedPreds == Equalities \cup {"ugt", "ult"}
\* A comparison the word is for: whole, of an equality or about to become one,
\* or one that has the word.
ForWord(c) == c.op = "icmp" /\ (c.dict \/ (IsWhole(c) /\ c.pred \in Equalities \cup Loose))

\* What the comparisons of a program look like.
Shape(c) ==
  /\ c.pred \in Predicates /\ c.lo \in Nat /\ c.w \in {SignBit, Unit, 2 * Unit, 4 * Unit, 8 * Unit} /\ c.lo + c.w <= compare.w
  /\ c.pred \in Loose \cup Signed => IsWhole(c)
  /\ c.pred \in Loose => compare.pred \in Loose
  /\ c.flagged => ~IsWhole(c)
  /\ c.dict => WordWanted /\ c.pred \in Equalities /\ (convert # "ALL" => IsWhole(c))

\* Nothing splits c, or makes it an equality.
Stuck(c) == IsMagic(c) \/ (convert = "NONE" /\ c.pred \in Loose)

\* The comparisons a word is for: one, or none.
OneWord(P) ==
  /\ \A m, n \in 1 .. Len(P) : ForWord(P[m]) /\ ForWord(P[n]) => m = n
  /\ WordWanted => \E n \in 1 .. Len(P) : ForWord(P[n])
  /\ \A n \in 1 .. Len(P) : ForWord(P[n]) =>
       /\ WordWanted => P[n].dict \/ ~IsMagic(P[n])
       /\ ~WordWanted /\ compare.side # "none" => Stuck(P[n])

\* The phase that deals with c.
SizePhase(w) == CASE w = 8 * Unit -> 1 [] w = 4 * Unit -> 2 [] w = 2 * Unit -> 3 [] w = Unit -> 4
Due(c) ==
  IF convert = "NONE" THEN SizePhase(c.w)
  ELSE IF c.pred \in Loose THEN 1 ELSE IF c.pred \in Signed THEN 2 ELSE 2 + SizePhase(c.w)

HasPhase(c) == c.op = "icmp" /\ c.w # SignBit /\ ~IsMagic(c) /\ (convert # "NONE" \/ c.pred \in UnsignedPreds)

\* c after its phase.
DealtWith(c) ==
  /\ c.pred \in UnsignedPreds
  /\ convert = "ALL" => c.w = Unit
  /\ c.pred \in Equalities /\ IsWhole(c) /\ compare.side # "none" => c.dict

Pending(P, T) ==
  \A n \in 1 .. Len(P) : HasPhase(P[n]) =>
    \/ Due(P[n]) > c2u_phase
    \/ Due(P[n]) = c2u_phase /\ (T = {0} \/ n \in T)
    \/ DealtWith(P[n])

ToDo(P, T) ==
  T # {0} => /\ c2u_phase \in 1 .. Len(Phases)
             /\ \A n \in T : n \in 1 .. Len(P) /\ Candidate(P[n])

AllShaped(P) == \A n \in 1 .. Len(P) : P[n].op = "icmp" => Shape(P[n])

ComparesTyped ==
  /\ compare \in [w : CompareWidths, pred : Predicates, side : {"none", "left", "right"}, const : Int, call : BOOLEAN]
  /\ compare.const \in Constants(compare.w)
  /\ convert \in {"ALL", "NONE", "NOT_DICT"} /\ c2u_phase \in 1 .. Len(Phases) + 1

\* The nodes of a program.
NodeRecords ==
  [op : {"icmp"}, pred : Predicates, lo : Int, w : Int, dict : BOOLEAN, flagged : BOOLEAN]
    \cup [op : {"branch"}, test : Int, yes : Int, no : Int]

\* P computes what the source said of any two operands, and executes the
\* comparison of the word if they are equal.
RunOK(P, V, E, x, y) ==
  /\ IsRunOf(V, E, P, x, y)
  /\ 1 \in V <=> Holds(compare.pred, x, y, compare.w)
  /\ x = y => \A n \in 1 .. Len(P) : ForWord(P[n]) => n \in E[1]

Computes(P) == Ranked(P) /\ \A x, y \in OperandsOf(compare.w) : \E V, E : RunOK(P, V, E, x, y)

ProgramOK(P, T) == P \in Seq(NodeRecords) /\ AllShaped(P) /\ OneWord(P) /\ ToDo(P, T) /\ Pending(P, T) /\ Computes(P)

ComparesInv == ComparesTyped /\ ProgramOK(program, todo)

\* What is put in place of n says what n said, and it takes the word over.
Fits(P, n, Q) ==
  /\ \A x, y \in OperandsOf(compare.w) : Says(P[n], x, y) <=> Inner(Q, Picked(Q, n, x, y), x, y)
  /\ \A k \in NewOnes(P, Q) : Q[k].op = "icmp" => Shape(Q[k])
  /\ \A k \in NewOnes(P, Q) : HasPhase(Q[k]) => Due(Q[k]) > c2u_phase
  /\ \A k \in NewOnes(P, Q) : ForWord(Q[k]) =>
       /\ ForWord(P[n])
       /\ WordWanted => Q[k].dict \/ ~IsMagic(Q[k])
       /\ ~WordWanted /\ compare.side # "none" => Stuck(Q[k])
       /\ k = Q[n].test \/ (k = Q[n].no /\ \A x \in OperandsOf(compare.w) : ~Says(Q[Q[n].test], x, x))
       /\ \A j \in NewOnes(P, Q) : ForWord(Q[j]) => j = k
  /\ ForWord(P[n]) /\ WordWanted => \E k \in NewOnes(P, Q) : ForWord(Q[k])

LEMMA PatchNodes ==
  ASSUME NEW P, NEW n, NEW Q, IsPatch(P, n, Q)
  PROVE  /\ n \in 1 .. Len(P) /\ Q[n].op # "icmp" /\ P[n].op = "icmp"
         /\ \A k \in 1 .. Len(Q) : k \in NewOnes(P, Q) \/ k = n \/ (k \in 1 .. Len(P) /\ k # n /\ Q[k] = P[k])
         /\ \A k \in NewOnes(P, Q) : k \in 1 .. Len(Q) /\ k \notin 1 .. Len(P)
         /\ \A k \in 1 .. Len(P) : k \in 1 .. Len(Q) /\ (k # n => Q[k] = P[k])
  BY DEF IsPatch, NewOnes

LEMMA PatchComputes ==
  ASSUME NEW P, NEW n, NEW Q, IsPatch(P, n, Q), Fits(P, n, Q), Computes(P)
  PROVE  Computes(Q)
  <1>1. Ranked(P) /\ Ranked(Q)
    BY PatchRanked DEF Computes
  <1>2. ASSUME NEW x \in OperandsOf(compare.w), NEW y \in OperandsOf(compare.w)
        PROVE  \E W, G : RunOK(Q, W, G, x, y)
    <2>1. PICK V, E : RunOK(P, V, E, x, y)
      BY DEF Computes
    <2>2. IsRunOf(V, E, P, x, y) /\ (1 \in V <=> Holds(compare.pred, x, y, compare.w))
      BY <2>1 DEF RunOK
    <2>3. Says(P[n], x, y) <=> Inner(Q, Picked(Q, n, x, y), x, y)
      BY DEF Fits
    <2>4. PICK W, G :
            /\ IsRunOf(W, G, Q, x, y)
            /\ 1 \in W <=> 1 \in V
            /\ E[1] \ {n} \subseteq G[1]
            /\ n \in E[1] => {Q[n].test} \cup InnerRuns(Q, Picked(Q, n, x, y), x, y) \subseteq G[1]
      BY <1>1, <2>2, <2>3, PatchRuns
    <2>5. ASSUME x = y, NEW k \in 1 .. Len(Q), ForWord(Q[k]) PROVE k \in G[1]
      <3>1. \A j \in 1 .. Len(P) : ForWord(P[j]) => j \in E[1]
        BY <2>1, <2>5 DEF RunOK
      <3>2. CASE k \in NewOnes(P, Q)
        <4>1. /\ ForWord(P[n])
              /\ k = Q[n].test \/ (k = Q[n].no /\ ~Says(Q[Q[n].test], x, y))
          BY <2>5, <3>2 DEF Fits
        <4>2. n \in E[1]
          BY <3>1, <4>1, PatchNodes
        <4>3. CASE k = Q[n].test
          BY <2>4, <4>2, <4>3
        <4>4. CASE k = Q[n].no /\ ~Says(Q[Q[n].test], x, y)
          <5>1. Picked(Q, n, x, y) = k
            BY <4>4 DEF Picked
          <5>2. k \notin {Yes, No} /\ IsLeaf(Q, k)
            BY <2>5, <3>2 DEF IsLeaf, ForWord, NewOnes, IsPatch, Yes, No
          <5>3. InnerRuns(Q, k, x, y) = {k}
            BY <5>2 DEF InnerRuns, LeafRuns
          <5> QED BY <2>4, <4>2, <5>1, <5>3
        <4> QED BY <4>1, <4>3, <4>4
      <3>3. CASE k \in 1 .. Len(P) /\ k # n /\ Q[k] = P[k]
        BY <2>4, <2>5, <3>1, <3>3
      <3>4. CASE k = n
        BY <2>5, <3>4, PatchNodes DEF ForWord
      <3> QED BY <3>2, <3>3, <3>4, PatchNodes
    <2> QED BY <2>2, <2>4, <2>5 DEF RunOK
  <1> QED BY <1>1, <1>2 DEF Computes

LEMMA PatchKeeps ==
  ASSUME NEW P, NEW n, NEW Q, NEW T, IsPatch(P, n, Q), Fits(P, n, Q), Q \in Seq(NodeRecords), ProgramOK(P, T), n \in T, n # 0
  PROVE  ProgramOK(Q, T \ {n})
  <1> DEFINE N == NewOnes(P, Q)
  <1>1. /\ n \in 1 .. Len(P) /\ Q[n].op # "icmp" /\ P[n].op = "icmp"
        /\ \A k \in 1 .. Len(Q) : k \in N \/ k = n \/ (k \in 1 .. Len(P) /\ k # n /\ Q[k] = P[k])
        /\ \A k \in N : k \in 1 .. Len(Q) /\ k \notin 1 .. Len(P)
        /\ \A k \in 1 .. Len(P) : k \in 1 .. Len(Q) /\ (k # n => Q[k] = P[k])
    BY PatchNodes
  <1>2. AllShaped(P) /\ OneWord(P) /\ ToDo(P, T) /\ Pending(P, T) /\ Computes(P) /\ T # {0}
    BY DEF ProgramOK
  <1>3. ~ForWord(Q[n]) /\ ~HasPhase(Q[n])
    BY <1>1 DEF ForWord, HasPhase
  <1>4. AllShaped(Q)
    BY <1>1, <1>2 DEF AllShaped, Fits
  <1>5. OneWord(Q)
    <2>1. ASSUME NEW a \in 1 .. Len(Q), NEW b \in 1 .. Len(Q), ForWord(Q[a]), ForWord(Q[b]) PROVE a = b
      <3>1. \A k \in N : ForWord(Q[k]) => ForWord(P[n]) /\ \A j \in N : ForWord(Q[j]) => j = k
        BY DEF Fits
      <3>2. \A i, j \in 1 .. Len(P) : ForWord(P[i]) /\ ForWord(P[j]) => i = j
        BY <1>2 DEF OneWord
      <3>3. (a \in N \/ (a \in 1 .. Len(P) /\ a # n /\ ForWord(P[a]))) /\ (b \in N \/ (b \in 1 .. Len(P) /\ b # n /\ ForWord(P[b])))
        BY <1>1, <1>3, <2>1
      <3> HIDE DEF N
      <3> QED BY <1>1, <2>1, <3>1, <3>2, <3>3
    <2>2. ASSUME WordWanted PROVE \E k \in 1 .. Len(Q) : ForWord(Q[k])
      <3>1. PICK j \in 1 .. Len(P) : ForWord(P[j])
        BY <1>2, <2>2 DEF OneWord
      <3>2. CASE j = n
        <4>1. PICK k \in N : ForWord(Q[k])
          BY <2>2, <3>1, <3>2 DEF Fits
        <4> QED BY <1>1, <4>1
      <3>3. CASE j # n
        BY <1>1, <3>1, <3>3
      <3> QED BY <3>2, <3>3
    <2>3. ASSUME NEW k \in 1 .. Len(Q), ForWord(Q[k])
          PROVE  /\ WordWanted => Q[k].dict \/ ~IsMagic(Q[k])
                 /\ ~WordWanted /\ compare.side # "none" => Stuck(Q[k])
      <3>1. CASE k \in N
        BY <2>3, <3>1 DEF Fits
      <3>2. CASE k \in 1 .. Len(P) /\ Q[k] = P[k]
        BY <1>2, <2>3, <3>2 DEF OneWord
      <3> QED BY <1>1, <1>3, <2>3, <3>1, <3>2
    <2> QED BY <2>1, <2>2, <2>3 DEF OneWord
  <1>6. ToDo(Q, T \ {n})
    BY <1>1, <1>2 DEF ToDo
  <1>7. Pending(Q, T \ {n})
    <2> SUFFICES ASSUME NEW k \in 1 .. Len(Q), HasPhase(Q[k])
                 PROVE  \/ Due(Q[k]) > c2u_phase
                        \/ Due(Q[k]) = c2u_phase /\ k \in T \ {n}
                        \/ DealtWith(Q[k])
      BY DEF Pending
    <2>1. CASE k \in N
      BY <2>1 DEF Fits
    <2>2. CASE k \in 1 .. Len(P) /\ k # n /\ Q[k] = P[k]
      BY <1>2, <2>2 DEF Pending
    <2> QED BY <1>1, <1>3, <2>1, <2>2
  <1>8. Computes(Q)
    BY <1>2, PatchComputes
  <1> QED BY <1>4, <1>5, <1>6, <1>7, <1>8 DEF ProgramOK
-----------------------------------------------------------------------------
(* The nodes that are put in place of a comparison. *)

LEMMA NodesAre ==
  /\ \A pred, lo, w : LET c == ICmp(pred, lo, w) IN c.op = "icmp" /\ c.pred = pred /\ c.lo = lo /\ c.w = w /\ ~c.dict /\ ~c.flagged
  /\ \A pred \in Predicates, lo \in Int, w \in Int : ICmp(pred, lo, w) \in NodeRecords
  /\ \A test, yes, no : LET b == Branch(test, yes, no) IN b.op # "icmp" /\ b.test = test /\ b.yes = yes /\ b.no = no
  /\ \A test \in Int, yes \in Int, no \in Int : Branch(test, yes, no) \in NodeRecords
  BY DEF ICmp, Branch, NodeRecords

LEMMA ICmpIs ==
  ASSUME NEW pred \in Predicates, NEW lo \in Int, NEW w \in Int, NEW c, c = ICmp(pred, lo, w)
  PROVE  c \in NodeRecords /\ c.op = "icmp" /\ c.pred = pred /\ c.lo = lo /\ c.w = w /\ ~c.dict /\ ~c.flagged
  BY NodesAre

LEMMA BranchIs ==
  ASSUME NEW test \in Int, NEW yes \in Int, NEW no \in Int, NEW b, b = Branch(test, yes, no)
  PROVE  b \in NodeRecords /\ b.op # "icmp" /\ b.test = test /\ b.yes = yes /\ b.no = no
  BY NodesAre

\* The comparison of the high halves, with the word or without it.
HighOf(pred, lo, w, f, d) == [ICmp(pred, lo, w) EXCEPT !.flagged = f, !.dict = d]
LowOf(pred, lo, w, f) == [ICmp(pred, lo, w) EXCEPT !.flagged = f]
WithWord(g, v) == [g EXCEPT !.dict = v]

LEMMA HighIs ==
  ASSUME NEW pred \in Predicates, NEW lo \in Int, NEW w \in Int, NEW f \in BOOLEAN, NEW d \in BOOLEAN,
         NEW g, g = HighOf(pred, lo, w, f, d)
  PROVE  /\ g.op = "icmp" /\ g.pred = pred /\ g.lo = lo /\ g.w = w /\ g.dict = d /\ g.flagged = f
         /\ g \in NodeRecords
  <1>1. g = [op |-> "icmp", pred |-> pred, lo |-> lo, w |-> w, dict |-> d, flagged |-> f]
    BY ONLY g = HighOf(pred, lo, w, f, d) DEF ICmp, HighOf
  <1>2. g.op = "icmp" /\ g.pred = pred /\ g.lo = lo /\ g.w = w /\ g.dict = d /\ g.flagged = f
    BY ONLY <1>1
  <1>3. g \in NodeRecords
    BY ONLY <1>1, pred \in Predicates, lo \in Int, w \in Int, f \in BOOLEAN, d \in BOOLEAN DEF NodeRecords
  <1> QED BY <1>2, <1>3

LEMMA WithWordIs ==
  ASSUME NEW g \in NodeRecords, g.op = "icmp", NEW v \in BOOLEAN, NEW h, h = WithWord(g, v)
  PROVE  /\ h.op = "icmp" /\ h.pred = g.pred /\ h.lo = g.lo /\ h.w = g.w /\ h.dict = v /\ h.flagged = g.flagged
         /\ h \in NodeRecords
  <1>1. g \in [op : {"icmp"}, pred : Predicates, lo : Int, w : Int, dict : BOOLEAN, flagged : BOOLEAN]
    BY ONLY g \in NodeRecords, g.op = "icmp" DEF NodeRecords
  <1>2. /\ h \in [op : {"icmp"}, pred : Predicates, lo : Int, w : Int, dict : BOOLEAN, flagged : BOOLEAN]
        /\ h.op = "icmp" /\ h.pred = g.pred /\ h.lo = g.lo /\ h.w = g.w /\ h.dict = v /\ h.flagged = g.flagged
    BY ONLY <1>1, v \in BOOLEAN, h = WithWord(g, v) DEF WithWord
  <1> QED BY <1>2 DEF NodeRecords

LEMMA LowIs ==
  ASSUME NEW pred \in Predicates, NEW lo \in Int, NEW w \in Int, NEW f \in BOOLEAN,
         NEW e, e = LowOf(pred, lo, w, f)
  PROVE  /\ e.op = "icmp" /\ e.pred = pred /\ e.lo = lo /\ e.w = w /\ ~e.dict /\ e.flagged = f
         /\ e \in NodeRecords
  <1>1. e = [op |-> "icmp", pred |-> pred, lo |-> lo, w |-> w, dict |-> FALSE, flagged |-> f]
    BY ONLY e = LowOf(pred, lo, w, f) DEF ICmp, LowOf
  <1>2. e.op = "icmp" /\ e.pred = pred /\ e.lo = lo /\ e.w = w /\ ~e.dict /\ e.flagged = f
    BY ONLY <1>1
  <1>3. e \in NodeRecords
    BY ONLY <1>1, pred \in Predicates, lo \in Int, w \in Int, f \in BOOLEAN DEF NodeRecords
  <1> QED BY <1>2, <1>3

LEMMA PutIs ==
  ASSUME NEW S, NEW R \in Seq(S), NEW i \in 1 .. Len(R), NEW d \in S, NEW Q, Q = [R EXCEPT ![i] = d]
  PROVE  Q \in Seq(S) /\ Len(Q) = Len(R) /\ Q[i] = d /\ \A k \in 1 .. Len(R) : k # i => Q[k] = R[k]
  BY ExceptSeq

\* R is P with b at n and t at its end.
Extended(P, n, b, t, R, S) ==
  /\ R \in Seq(S) /\ Len(R) = Len(P) + Len(t) /\ R[n] = b /\ Len(P) \in Nat /\ Len(t) \in Nat
  /\ \A k \in 1 .. Len(P) : k # n => R[k] = P[k]
  /\ \A k \in 1 .. Len(t) : R[Len(P) + k] = t[k]

LEMMA PutAtTheEnd ==
  ASSUME NEW S, NEW P \in Seq(S), NEW n \in 1 .. Len(P), NEW b \in S, NEW t \in Seq(S), NEW Q, Q = [P EXCEPT ![n] = b] \o t
  PROVE  /\ Q \in Seq(S) /\ Len(Q) = Len(P) + Len(t) /\ Q[n] = b /\ Len(P) \in Nat
         /\ \A k \in 1 .. Len(P) : k # n => Q[k] = P[k]
         /\ \A k \in 1 .. Len(t) : Q[Len(P) + k] = t[k]
  <1> DEFINE R == [P EXCEPT ![n] = b]
  <1>1. R \in Seq(S) /\ Len(R) = Len(P) /\ R[n] = b /\ \A k \in 1 .. Len(P) : k # n => R[k] = P[k]
    BY ExceptSeq
  <1> HIDE DEF R
  <1>2. /\ R \o t \in Seq(S) /\ Len(R \o t) = Len(R) + Len(t)
        /\ \A k \in 1 .. Len(R) + Len(t) : (R \o t)[k] = IF k <= Len(R) THEN R[k] ELSE t[k - Len(R)]
    BY <1>1, ConcatProperties
  <1>3. Q = R \o t
    BY DEF R
  <1>4. Len(P) \in Nat /\ Len(t) \in Nat
    OBVIOUS
  <1>5. ASSUME NEW k \in 1 .. Len(t) PROVE Q[Len(P) + k] = t[k]
    <2>1. Len(P) + k \in 1 .. Len(R) + Len(t) /\ ~(Len(P) + k <= Len(R)) /\ (Len(P) + k) - Len(R) = k
      BY <1>1, <1>4
    <2> QED BY <1>2, <1>3, <2>1
  <1>6. ASSUME NEW k \in 1 .. Len(P) PROVE Q[k] = R[k]
    BY <1>1, <1>2, <1>3, <1>4
  <1> QED BY <1>1, <1>2, <1>3, <1>4, <1>5, <1>6

LEMMA PutExtends ==
  ASSUME NEW S, NEW P \in Seq(S), NEW n \in 1 .. Len(P), NEW b \in S, NEW t \in Seq(S), NEW Q, Q = [P EXCEPT ![n] = b] \o t
  PROVE  Extended(P, n, b, t, Q, S)
  <1>1. Len(t) \in Nat
    OBVIOUS
  <1> QED BY <1>1, PutAtTheEnd DEF Extended

LEMMA InnerIs ==
  ASSUME NEW Q, NEW x, NEW y
  PROVE  /\ Inner(Q, Yes, x, y) /\ ~Inner(Q, No, x, y)
         /\ \A k : k \notin {Yes, No} /\ Q[k].op = "icmp" => (Inner(Q, k, x, y) <=> Says(Q[k], x, y))
         /\ \A k : k \notin {Yes, No} /\ Q[k].op # "icmp" =>
              (Inner(Q, k, x, y) <=> Leaf(Q, IF Says(Q[Q[k].test], x, y) THEN Q[k].yes ELSE Q[k].no, x, y))
  BY DEF Inner, IsLeaf, Leaf, Picked, Yes, No

\* Where the pass is.
LEMMA PhaseIs ==
  ASSUME ComparesTyped, c2u_phase \in 1 .. Len(Phases)
  PROVE  /\ Phase \in {-1, -2, 8, 4, 2, 1}
         /\ Phase = -1 => convert # "NONE" /\ c2u_phase = 1
         /\ Phase = -2 => convert # "NONE" /\ c2u_phase = 2
         /\ Phase > 0 => /\ SizePhase(Phase * Unit) = IF convert = "NONE" THEN c2u_phase ELSE c2u_phase - 2
                         /\ convert # "NONE" => c2u_phase > 2
  <1>1. Unit \in Nat \ {0}
    BY CompareAssumption
  <1>2. /\ SizePhase(8 * Unit) = 1 /\ SizePhase(4 * Unit) = 2 /\ SizePhase(2 * Unit) = 3 /\ SizePhase(1 * Unit) = 4
    BY <1>1 DEF SizePhase
  <1>3. CASE convert = "NONE"
    <2>1. /\ Phases = <<8, 4, 2, 1>> /\ Len(Phases) = 4 /\ c2u_phase \in {1, 2, 3, 4} /\ Phase = Phases[c2u_phase]
      BY <1>3 DEF Phases, Phase
    <2>2. /\ c2u_phase = 1 => Phase = 8
          /\ c2u_phase = 2 => Phase = 4
          /\ c2u_phase = 3 => Phase = 2
          /\ c2u_phase = 4 => Phase = 1
      BY <2>1
    <2> QED BY <1>2, <1>3, <2>1, <2>2
  <1>4. CASE convert # "NONE"
    <2>1. /\ Phases = <<-1, -2, 8, 4, 2, 1>> /\ Len(Phases) = 6 /\ c2u_phase \in {1, 2, 3, 4, 5, 6} /\ Phase = Phases[c2u_phase]
      BY <1>4 DEF Phases, Phase
    <2>2. /\ c2u_phase = 1 => Phase = -1
          /\ c2u_phase = 2 => Phase = -2
          /\ c2u_phase = 3 => Phase = 8
          /\ c2u_phase = 4 => Phase = 4
          /\ c2u_phase = 5 => Phase = 2
          /\ c2u_phase = 6 => Phase = 1
      BY <2>1
    <2> QED BY <1>2, <1>4, <2>1, <2>2
  <1> QED BY <1>3, <1>4

LEMMA SizePhaseIs ==
  ASSUME NEW w \in {Unit, 2 * Unit, 4 * Unit, 8 * Unit}
  PROVE  /\ SizePhase(w) \in 1 .. 4 /\ w \in Nat /\ w # 0 /\ (SizePhase(w) = 4 <=> w = Unit)
         /\ w # Unit => /\ w \div 2 \in {Unit, 2 * Unit, 4 * Unit} /\ w = 2 * (w \div 2)
                        /\ SizePhase(w \div 2) = SizePhase(w) + 1
  <1>1. Unit \in Nat \ {0}
    BY CompareAssumption
  <1>2. /\ SizePhase(8 * Unit) = 1 /\ SizePhase(4 * Unit) = 2 /\ SizePhase(2 * Unit) = 3 /\ SizePhase(Unit) = 4
    BY <1>1 DEF SizePhase
  <1>3. (8 * Unit) \div 2 = 4 * Unit /\ (4 * Unit) \div 2 = 2 * Unit /\ (2 * Unit) \div 2 = Unit
    BY <1>1
  <1> QED BY <1>1, <1>2, <1>3
-----------------------------------------------------------------------------
(* What the pass puts in place of a comparison fits. *)

\* What the invariant says of a comparison that is to do.
LEMMA ToDoIs ==
  ASSUME ComparesTyped, ProgramOK(program, todo), NEW n \in todo, n # 0
  PROVE  /\ program \in Seq(NodeRecords) /\ Len(program) \in Nat \ {0} /\ n \in 1 .. Len(program)
         /\ c2u_phase \in 1 .. Len(Phases) /\ Candidate(program[n]) /\ Shape(program[n]) /\ program[n].op = "icmp"
         /\ program[n].w # SignBit /\ ~IsMagic(program[n])
         /\ compare.w \in CompareWidths
         /\ ForWord(program[n]) /\ ~WordWanted /\ compare.side # "none" => Stuck(program[n])
  <1>1. todo # {0}
    OBVIOUS
  <1>2. AllShaped(program) /\ OneWord(program) /\ ToDo(program, todo) /\ program \in Seq(NodeRecords) /\ Ranked(program)
    BY DEF ProgramOK, Computes
  <1>3. n \in 1 .. Len(program) /\ c2u_phase \in 1 .. Len(Phases) /\ Candidate(program[n])
    BY <1>1, <1>2 DEF ToDo
  <1>4. program[n].op = "icmp" /\ program[n].w # SignBit /\ ~IsMagic(program[n])
    BY <1>3 DEF Candidate
  <1>5. Shape(program[n])
    BY <1>2, <1>3, <1>4 DEF AllShaped
  <1>6. compare.w \in CompareWidths
    BY DEF ComparesTyped
  <1>7. ForWord(program[n]) /\ ~WordWanted /\ compare.side # "none" => Stuck(program[n])
    BY <1>2, <1>3 DEF OneWord
  <1>8. Len(program) \in Nat \ {0}
    BY <1>2 DEF Ranked
  <1> QED BY <1>2, <1>3, <1>4, <1>5, <1>6, <1>7, <1>8

LEMMA NewNodes ==
  ASSUME NEW K \in Nat
  PROVE  /\ K + 1 .. K + 2 = {K + 1, K + 2}
         /\ K + 1 .. K + 3 = {K + 1, K + 2, K + 3}
         /\ K + 1 .. K + 4 = {K + 1, K + 2, K + 3, K + 4}
         /\ {K + 1, K + 2, K + 3, K + 4} \subseteq Int /\ Yes \in Int /\ No \in Int
         /\ \A k \in {K + 1, K + 2, K + 3, K + 4} : k \notin {Yes, No}
  BY DEF Yes, No

LEMMA SimplifyFits ==
  ASSUME ComparesTyped, ProgramOK(program, todo), NEW n \in todo, n # 0, Phase = -1
  PROVE  IsPatch(program, n, Simplified(n)) /\ Fits(program, n, Simplified(n)) /\ Simplified(n) \in Seq(NodeRecords)
  <1> DEFINE c == program[n]
             K == Len(program)
             Q == Simplified(n)
             d == ICmp(StrictOf(c.pred), 0, compare.w)
             e == ICmp("eq", 0, compare.w)
             b == Branch(Next1, Yes, Next2)
  <1>1. /\ program \in Seq(NodeRecords) /\ K \in Nat \ {0} /\ n \in 1 .. K
        /\ c2u_phase \in 1 .. Len(Phases) /\ Candidate(c) /\ Shape(c) /\ c.op = "icmp" /\ c.w # SignBit /\ ~IsMagic(c)
        /\ compare.w \in CompareWidths /\ (ForWord(c) /\ ~WordWanted /\ compare.side # "none" => Stuck(c))
    BY ToDoIs
  <1>2. c.pred \in Loose /\ IsWhole(c) /\ compare.pred \in Loose
    BY <1>1 DEF Candidate, Shape
  <1>3. convert # "NONE" /\ c2u_phase = 1
    BY <1>1, PhaseIs
  <1>4. compare.w \in Nat /\ compare.w # 0 /\ compare.w \in {Unit, 2 * Unit, 4 * Unit, 8 * Unit} /\ Unit \in Nat \ {0}
    BY <1>1, WidthIs, CompareAssumption
  <1>5. StrictOf(c.pred) \in Strict /\ StrictOf(c.pred) \in Predicates
    BY <1>2 DEF StrictOf, Loose, Strict, Predicates
  <1>6. /\ d.op = "icmp" /\ d.pred = StrictOf(c.pred) /\ d.lo = 0 /\ d.w = compare.w /\ ~d.dict /\ ~d.flagged
        /\ e.op = "icmp" /\ e.pred = "eq" /\ e.lo = 0 /\ e.w = compare.w /\ ~e.dict /\ ~e.flagged
        /\ b.op # "icmp" /\ b.test = K + 1 /\ b.yes = Yes /\ b.no = K + 2
    BY NodesAre DEF Next1, Next2
  <1>7. d \in NodeRecords /\ e \in NodeRecords /\ b \in NodeRecords
    <2>1. d \in NodeRecords
      BY <1>4, <1>5, NodesAre
    <2>2. e \in NodeRecords
      <3>1. "eq" \in Predicates /\ 0 \in Int /\ compare.w \in Int
        BY <1>4 DEF Predicates, Equalities
      <3> QED BY <3>1, NodesAre
    <2>3. Next1 = K + 1 /\ Next2 = K + 2
      BY DEF Next1, Next2
    <2>4. b \in NodeRecords
      BY <1>1, <2>3, NewNodes, NodesAre
    <2> QED BY <2>1, <2>2, <2>4
  <1> HIDE DEF d, e, b
  <1>8. Q = [program EXCEPT ![n] = b] \o <<d, e>>
    BY DEF Simplified, b, d, e, c
  <1>9. <<d, e>> \in Seq(NodeRecords) /\ Len(<<d, e>>) = 2 /\ <<d, e>>[1] = d /\ <<d, e>>[2] = e
    BY <1>7
  <1> HIDE DEF Q
  <1>10. /\ Q \in Seq(NodeRecords) /\ Len(Q) = K + 2 /\ Q[n] = b
         /\ \A k \in 1 .. K : k # n => Q[k] = program[k]
         /\ \A k \in 1 .. Len(<<d, e>>) : Q[K + k] = <<d, e>>[k]
    BY <1>1, <1>7, <1>8, <1>9, PutAtTheEnd
  <1>11. Q[K + 1] = d /\ Q[K + 2] = e
    BY <1>9, <1>10
  <1>12. NewOnes(program, Q) = {K + 1, K + 2}
    BY ONLY <1>1, <1>10, NewNodes DEF NewOnes
  <1>13. IsPatch(program, n, Q)
    BY <1>1, <1>6, <1>10, <1>11, <1>12 DEF IsPatch
  <1>14. IsWhole(d) /\ IsWhole(e)
    BY <1>6 DEF IsWhole
  <1>15. ASSUME NEW x \in OperandsOf(compare.w), NEW y \in OperandsOf(compare.w)
         PROVE  Says(c, x, y) <=> Inner(Q, Picked(Q, n, x, y), x, y)
    <2>1. Says(c, x, y) <=> Says(d, x, y) \/ Says(e, x, y)
      BY <1>1, <1>2, <1>6, <1>14, SimplifiedSays
    <2>2. Picked(Q, n, x, y) = IF Says(d, x, y) THEN Yes ELSE K + 2
      BY <1>6, <1>10, <1>11 DEF Picked
    <2>3. Inner(Q, Yes, x, y) /\ (Inner(Q, K + 2, x, y) <=> Says(e, x, y))
      BY <1>1, <1>6, <1>11, InnerIs, NewNodes
    <2> QED BY <2>1, <2>2, <2>3
  <1>16. ASSUME NEW x \in OperandsOf(compare.w) PROVE ~Says(d, x, x)
    <2>1. Field(x, d) = x /\ d.w # SignBit
      BY <1>1, <1>4, <1>6, <1>14, WholeField DEF SignBit
    <2>2. SignedValue(x, compare.w) \in Int /\ x \in Int
      BY <1>1, SignedIs
    <2>3. \A p \in Strict : ~Holds(p, x, x, compare.w)
      BY <2>2, HoldsIs DEF Strict
    <2> QED BY <1>5, <1>6, <2>1, <2>3 DEF Says
  <1>17. Shape(d) /\ Shape(e)
    BY <1>4, <1>5, <1>6, <1>14 DEF Shape, Strict, Loose, Signed, Predicates, Equalities
  <1>18. (HasPhase(d) => Due(d) > c2u_phase) /\ (HasPhase(e) => Due(e) > c2u_phase)
    BY <1>3, <1>4, <1>5, <1>6, SizePhaseIs DEF Due, Loose, Strict, Signed
  <1>19. ~ForWord(d) /\ ForWord(e) /\ ForWord(c)
    BY <1>1, <1>2, <1>5, <1>6, <1>14 DEF ForWord, Strict, Loose, Equalities
  <1>20. compare.side # "none" => WordWanted
    BY <1>1, <1>3, <1>19 DEF Stuck
  <1>21. compare.side # "none" => ~IsMagic(e)
    BY <1>1, <1>2, <1>6, <1>14 DEF IsMagic, Loose, Equalities
  <1>22. WordWanted => compare.side # "none"
    BY DEF WordWanted
  <1>23. Fits(program, n, Q)
    <2>1. \A k \in NewOnes(program, Q) : Q[k].op = "icmp" => Shape(Q[k])
      BY <1>11, <1>12, <1>17
    <2>2. \A k \in NewOnes(program, Q) : HasPhase(Q[k]) => Due(Q[k]) > c2u_phase
      BY <1>11, <1>12, <1>18
    <2>3. ASSUME NEW k \in NewOnes(program, Q), ForWord(Q[k]) PROVE k = K + 2 /\ Q[k] = e
      BY <1>11, <1>12, <1>19, <2>3
    <2>4. ASSUME NEW k \in NewOnes(program, Q), ForWord(Q[k])
          PROVE  /\ ForWord(c)
                 /\ WordWanted => Q[k].dict \/ ~IsMagic(Q[k])
                 /\ ~WordWanted /\ compare.side # "none" => Stuck(Q[k])
                 /\ k = Q[n].test \/ (k = Q[n].no /\ \A x \in OperandsOf(compare.w) : ~Says(Q[Q[n].test], x, x))
                 /\ \A j \in NewOnes(program, Q) : ForWord(Q[j]) => j = k
      BY <1>6, <1>10, <1>11, <1>16, <1>19, <1>20, <1>21, <1>22, <2>3, <2>4
    <2>5. ForWord(c) /\ WordWanted => \E k \in NewOnes(program, Q) : ForWord(Q[k])
      BY <1>11, <1>12, <1>19
    <2> QED BY <1>15, <2>1, <2>2, <2>4, <2>5 DEF Fits
  <1> QED BY <1>10, <1>13, <1>23 DEF Q

LEMMA UnsignFits ==
  ASSUME ComparesTyped, ProgramOK(program, todo), NEW n \in todo, n # 0, Phase = -2
  PROVE  IsPatch(program, n, Unsigned(n)) /\ Fits(program, n, Unsigned(n)) /\ Unsigned(n) \in Seq(NodeRecords)
  <1> DEFINE c == program[n]
             K == Len(program)
             Q == Unsigned(n)
             p == IF c.pred = "sgt" THEN "ugt" ELSE "ult"
             q == IF c.pred = "sgt" THEN "ult" ELSE "ugt"
             s == ICmp("eq", 0, SignBit)
             d == ICmp(p, 0, compare.w)
             e == ICmp(q, 0, SignBit)
             b == Branch(Next1, Next2, Next2 + 1)
  <1>1. /\ program \in Seq(NodeRecords) /\ K \in Nat \ {0} /\ n \in 1 .. K
        /\ c2u_phase \in 1 .. Len(Phases) /\ Candidate(c) /\ Shape(c) /\ c.op = "icmp" /\ c.w # SignBit
        /\ compare.w \in CompareWidths
    BY ToDoIs
  <1>2. c.pred \in {"sgt", "slt"} /\ IsWhole(c)
    BY <1>1 DEF Candidate, Shape, Signed
  <1>3. convert # "NONE" /\ c2u_phase = 2
    BY <1>1, PhaseIs
  <1>4. compare.w \in Nat /\ compare.w # 0 /\ compare.w \in {Unit, 2 * Unit, 4 * Unit, 8 * Unit} /\ Unit \in Nat \ {0}
    BY <1>1, WidthIs, CompareAssumption
  <1>5. p \in {"ugt", "ult"} /\ q \in {"ugt", "ult"} /\ {"eq", "ugt", "ult"} \subseteq Predicates
    BY DEF Predicates, Equalities, Strict
  <1> HIDE DEF p, q
  <1>6. /\ s.op = "icmp" /\ s.pred = "eq" /\ s.lo = 0 /\ s.w = SignBit /\ ~s.dict /\ ~s.flagged
        /\ d.op = "icmp" /\ d.pred = p /\ d.lo = 0 /\ d.w = compare.w /\ ~d.dict /\ ~d.flagged
        /\ e.op = "icmp" /\ e.pred = q /\ e.lo = 0 /\ e.w = SignBit /\ ~e.dict /\ ~e.flagged
        /\ b.op # "icmp" /\ b.test = Next1 /\ b.yes = Next2 /\ b.no = Next2 + 1
    BY NodesAre
  <1>7. Next1 = K + 1 /\ Next2 = K + 2 /\ Next2 + 1 = K + 3
    BY <1>1 DEF Next1, Next2
  <1>8. s \in NodeRecords /\ d \in NodeRecords /\ e \in NodeRecords /\ b \in NodeRecords
    <2>1. "eq" \in Predicates /\ p \in Predicates /\ q \in Predicates /\ 0 \in Int /\ compare.w \in Int /\ SignBit \in Int
      BY <1>4, <1>5 DEF SignBit
    <2>2. Next1 \in Int /\ Next2 \in Int /\ Next2 + 1 \in Int
      BY <1>1, <1>7
    <2> QED BY <2>1, <2>2, NodesAre
  <1> HIDE DEF s, d, e, b
  <1>9. Q = [program EXCEPT ![n] = b] \o <<s, d, e>>
    BY DEF Unsigned, b, s, d, e, c, p, q
  <1>10. /\ <<s, d, e>> \in Seq(NodeRecords) /\ Len(<<s, d, e>>) = 3
         /\ <<s, d, e>>[1] = s /\ <<s, d, e>>[2] = d /\ <<s, d, e>>[3] = e
    BY <1>8
  <1> HIDE DEF Q
  <1>11. /\ Q \in Seq(NodeRecords) /\ Len(Q) = K + 3 /\ Q[n] = b
         /\ \A k \in 1 .. K : k # n => Q[k] = program[k]
         /\ \A k \in 1 .. Len(<<s, d, e>>) : Q[K + k] = <<s, d, e>>[k]
    BY <1>1, <1>8, <1>9, <1>10, PutAtTheEnd
  <1>12. Q[K + 1] = s /\ Q[K + 2] = d /\ Q[K + 3] = e
    BY <1>10, <1>11
  <1>13. NewOnes(program, Q) = {K + 1, K + 2, K + 3}
    BY ONLY <1>1, <1>11, NewNodes DEF NewOnes
  <1>14. IsPatch(program, n, Q)
    BY <1>1, <1>6, <1>7, <1>11, <1>12, <1>13 DEF IsPatch
  <1>15. IsWhole(d) /\ ~IsWhole(s) /\ ~IsWhole(e)
    BY <1>4, <1>6 DEF IsWhole, SignBit
  <1>16. ASSUME NEW x \in OperandsOf(compare.w), NEW y \in OperandsOf(compare.w)
         PROVE  Says(c, x, y) <=> Inner(Q, Picked(Q, n, x, y), x, y)
    <2>1. Says(c, x, y) <=> IF Says(s, x, y) THEN Says(d, x, y) ELSE Says(e, x, y)
      <3>1. /\ d.pred = (IF c.pred = "sgt" THEN "ugt" ELSE "ult")
            /\ e.pred = (IF c.pred = "sgt" THEN "ult" ELSE "ugt")
        BY <1>6 DEF p, q
      <3> QED BY <1>1, <1>2, <1>6, <1>15, <3>1, UnsignedSays
    <2>2. Picked(Q, n, x, y) = IF Says(s, x, y) THEN K + 2 ELSE K + 3
      BY <1>6, <1>7, <1>11, <1>12 DEF Picked
    <2>3. (Inner(Q, K + 2, x, y) <=> Says(d, x, y)) /\ (Inner(Q, K + 3, x, y) <=> Says(e, x, y))
      BY <1>1, <1>6, <1>12, InnerIs, NewNodes
    <2> QED BY <2>1, <2>2, <2>3
  <1>17. Shape(s) /\ Shape(d) /\ Shape(e)
    <2>1. {"eq", "ugt", "ult"} \cap (Loose \cup Signed) = {}
      BY DEF Loose, Signed
    <2> QED BY <1>4, <1>5, <1>6, <1>15, <2>1 DEF Shape, SignBit
  <1>18. (HasPhase(d) => Due(d) > c2u_phase) /\ ~HasPhase(s) /\ ~HasPhase(e)
    <2>1. {"ugt", "ult"} \cap (Loose \cup Signed) = {}
      BY DEF Loose, Signed
    <2>2. SizePhase(compare.w) \in 1 .. 4
      BY <1>4, SizePhaseIs
    <2>3. Due(d) = 2 + SizePhase(compare.w)
      BY <1>3, <1>5, <1>6, <2>1 DEF Due
    <2> QED BY <1>3, <1>6, <2>2, <2>3 DEF HasPhase
  <1>19. ~ForWord(s) /\ ~ForWord(d) /\ ~ForWord(e) /\ ~ForWord(c)
    <2>1. {"ugt", "ult", "sgt", "slt"} \cap (Loose \cup Equalities) = {}
      BY DEF Loose, Equalities
    <2> QED BY <1>1, <1>2, <1>5, <1>6, <1>15, <2>1 DEF ForWord, Shape
  <1>20. Fits(program, n, Q)
    <2>1. \A k \in NewOnes(program, Q) : Q[k].op = "icmp" => Shape(Q[k])
      BY <1>12, <1>13, <1>17
    <2>2. \A k \in NewOnes(program, Q) : HasPhase(Q[k]) => Due(Q[k]) > c2u_phase
      BY <1>12, <1>13, <1>18
    <2>3. \A k \in NewOnes(program, Q) : ~ForWord(Q[k])
      BY <1>12, <1>13, <1>19
    <2> QED BY <1>16, <1>19, <2>1, <2>2, <2>3 DEF Fits
  <1> QED BY <1>11, <1>14, <1>20 DEF Q
-----------------------------------------------------------------------------
(* The halves of a comparison. *)

\* What takes the place of comparison n of P, which is c: d and e are the
\* comparisons of its halves.
BranchesTo(P, n, Q, c, d) ==
  LET K == Len(P)
  IN CASE c.pred = "eq" -> Len(Q) = K + 2 /\ Q[n].test = K + 1 /\ Q[n].yes = K + 2 /\ Q[n].no = No
       [] c.pred = "ne" -> Len(Q) = K + 2 /\ Q[n].test = K + 1 /\ Q[n].yes = Yes /\ Q[n].no = K + 2
       [] OTHER -> /\ Len(Q) = K + 4 /\ Q[n].test = K + 1 /\ Q[n].yes = Yes /\ Q[n].no = K + 3
                   /\ Q[K + 3].op # "icmp" /\ Q[K + 3].test = K + 4 /\ Q[K + 3].yes = No /\ Q[K + 3].no = K + 2
                   /\ Q[K + 4].op = "icmp" /\ Q[K + 4].pred = Inverse1(c.pred) /\ Q[K + 4].lo = d.lo /\ Q[K + 4].w = d.w
                   /\ ~Q[K + 4].dict /\ ~Q[K + 4].flagged

IsHalved(P, n, Q, c, h, r) ==
  LET K == Len(P)  d == Q[K + 1]  e == Q[K + 2]
  IN /\ Q \in Seq(NodeRecords) /\ Q[n].op # "icmp"
     /\ \A k \in 1 .. K : k # n => Q[k] = P[k]
     /\ d.op = "icmp" /\ d.pred = c.pred /\ d.lo = c.lo + h /\ d.w = h
     /\ (d.dict <=> c.dict \/ r) /\ (d.flagged <=> c.pred \in Equalities)
     /\ e.op = "icmp" /\ e.pred = c.pred /\ e.lo = c.lo /\ e.w = h /\ ~e.dict /\ (e.flagged <=> c.pred \in Equalities)
     /\ BranchesTo(P, n, Q, c, d)

\* Q is R with d in the place after P.
PutAfter(P, R, d, Q, S) ==
  /\ Q \in Seq(S) /\ Len(Q) = Len(R) /\ Q[Len(P) + 1] = d
  /\ \A k \in 1 .. Len(R) : k # Len(P) + 1 => Q[k] = R[k]

\* Q is P with b at n, d after its end and then the rest of t.
ExtendedBy(P, n, b, t, d, Q, S) ==
  /\ Q \in Seq(S) /\ Len(Q) = Len(P) + Len(t) /\ Q[n] = b /\ Q[Len(P) + 1] = d
  /\ \A k \in 1 .. Len(P) : k # n => Q[k] = P[k]
  /\ \A k \in 2 .. Len(t) : Q[Len(P) + k] = t[k]

\* The word is put at the first node that is new.
LEMMA WordAtTheFirst ==
  ASSUME NEW S, NEW P, NEW n \in 1 .. Len(P), NEW b, NEW t, Len(t) >= 1, NEW d,
         NEW R, Extended(P, n, b, t, R, S), NEW Q, PutAfter(P, R, d, Q, S)
  PROVE  ExtendedBy(P, n, b, t, d, Q, S)
  <1>1. /\ R \in Seq(S) /\ Len(R) = Len(P) + Len(t) /\ R[n] = b /\ Len(P) \in Nat /\ Len(t) \in Nat
        /\ \A k \in 1 .. Len(P) : k # n => R[k] = P[k]
        /\ \A k \in 1 .. Len(t) : R[Len(P) + k] = t[k]
    BY DEF Extended
  <1>3. Q \in Seq(S) /\ Len(Q) = Len(R) /\ Q[Len(P) + 1] = d /\ \A k \in 1 .. Len(R) : k # Len(P) + 1 => Q[k] = R[k]
    BY DEF PutAfter
  <1>4. ASSUME NEW k \in 2 .. Len(t) PROVE Q[Len(P) + k] = t[k]
    <2>1. Len(P) + k \in 1 .. Len(R) /\ Len(P) + k # Len(P) + 1 /\ k \in 1 .. Len(t)
      BY ONLY <1>1, k \in 2 .. Len(t)
    <2> QED BY ONLY <1>1, <1>3, <2>1
  <1>5. ASSUME NEW k \in 1 .. Len(P) PROVE Q[k] = R[k]
    <2>1. k \in 1 .. Len(R) /\ k # Len(P) + 1
      BY ONLY <1>1, k \in 1 .. Len(P)
    <2> QED BY ONLY <1>3, <2>1
  <1>6. Len(Q) = Len(P) + Len(t) /\ Q[n] = b /\ \A k \in 1 .. Len(P) : k # n => Q[k] = P[k]
    BY ONLY <1>1, <1>3, <1>5, n \in 1 .. Len(P)
  <1> QED BY ONLY <1>3, <1>4, <1>6 DEF ExtendedBy

\* What comparison n becomes when it is split, with the word.
HalfOf(n) == [Halved(n) EXCEPT ![Next1].dict = @ \/ Records(program[n])]

LEMMA HalfNodes ==
  ASSUME program \in Seq(NodeRecords), NEW n \in 1 .. Len(program), NEW c, c = program[n], c.pred \in UnsignedPreds,
         c.lo \in Int, c.w \in Int, c.dict \in BOOLEAN, NEW h \in Int, h = c.w \div 2,
         NEW Q, Q = HalfOf(n)
  PROVE  IsHalved(program, n, Q, c, h, Records(c))
  <1> DEFINE K == Len(program)
             f == c.pred \in Equalities
             w0 == c.dict
             g == HighOf(c.pred, c.lo + h, h, f, w0)
             v == g.dict \/ Records(c)
             d == WithWord(g, v)
             e == LowOf(c.pred, c.lo, h, f)
             i == ICmp(Inverse1(c.pred), c.lo + h, h)
  <1>1. K \in Nat /\ c.lo + h \in Int /\ f \in BOOLEAN /\ Records(c) \in BOOLEAN
    BY DEF Records
  <1>2. c.pred \in Predicates /\ Inverse1(c.pred) \in Predicates /\ (c.pred \in Equalities <=> c.pred \in {"eq", "ne"})
    BY DEF UnsignedPreds, Predicates, Inverse1, Strict, Equalities
  <1>3. /\ d.op = "icmp" /\ d.pred = c.pred /\ d.lo = c.lo + h /\ d.w = h
        /\ (d.dict <=> c.dict \/ Records(c)) /\ (d.flagged <=> f) /\ g \in NodeRecords /\ d \in NodeRecords
    <2>1. v \in BOOLEAN /\ w0 \in BOOLEAN
      BY <1>1
    <2>5. c.pred \in Predicates /\ c.lo + h \in Int /\ h \in Int /\ f \in BOOLEAN
      BY <1>1, <1>2
    <2> HIDE DEF f, v, w0
    <2>2. /\ g.op = "icmp" /\ g.pred = c.pred /\ g.lo = c.lo + h /\ g.w = h /\ g.dict = w0 /\ g.flagged = f
          /\ g \in NodeRecords
      <3> HIDE DEF g
      <3>1. g = HighOf(c.pred, c.lo + h, h, f, w0)
        BY DEF g
      <3> QED BY ONLY <2>1, <2>5, <3>1, HighIs
    <2>4. /\ d.op = "icmp" /\ d.pred = g.pred /\ d.lo = g.lo /\ d.w = g.w /\ d.dict = v /\ d.flagged = g.flagged
          /\ d \in NodeRecords
      <3> HIDE DEF g, d
      <3>1. d = WithWord(g, v)
        BY DEF d
      <3> QED BY ONLY <2>1, <2>2, <3>1, WithWordIs
    <2>3. v <=> c.dict \/ Records(c)
      BY <2>2 DEF v, w0
    <2> QED BY <2>2, <2>3, <2>4
  <1>4. /\ e.op = "icmp" /\ e.pred = c.pred /\ e.lo = c.lo /\ e.w = h /\ ~e.dict /\ (e.flagged <=> f) /\ e \in NodeRecords
    <2> HIDE DEF f, e
    <2>1. e = LowOf(c.pred, c.lo, h, f)
      BY DEF e
    <2> QED BY ONLY <1>1, <1>2, <2>1, LowIs, h \in Int, c.lo \in Int
  <1>5. /\ i.op = "icmp" /\ i.pred = Inverse1(c.pred) /\ i.lo = c.lo + h /\ i.w = h /\ ~i.dict /\ ~i.flagged
        /\ i \in NodeRecords
    <2> HIDE DEF i
    <2>1. i = ICmp(Inverse1(c.pred), c.lo + h, h)
      BY DEF i
    <2> QED BY ONLY <1>1, <1>2, <2>1, h \in Int, ICmpIs
  <1>6. Next1 = K + 1 /\ Next2 = K + 2 /\ Next2 + 1 = K + 3 /\ Next2 + 2 = K + 4 /\ {K + 1, K + 2, K + 3, K + 4} \subseteq Int
    BY <1>1 DEF Next1, Next2
  <1>7. Halved(n) = CASE c.pred = "eq" -> [program EXCEPT ![n] = Branch(K + 1, K + 2, No)] \o <<g, e>>
                      [] c.pred = "ne" -> [program EXCEPT ![n] = Branch(K + 1, Yes, K + 2)] \o <<g, e>>
                      [] OTHER -> [program EXCEPT ![n] = Branch(K + 1, Yes, K + 3)] \o <<g, e, Branch(K + 4, No, K + 2), i>>
    BY ONLY <1>6, c = program[n], h = c.w \div 2 DEF Halved, HighOf, LowOf, f, g, e, i, w0
  <1>8. ASSUME NEW b \in NodeRecords, NEW t \in Seq(NodeRecords), Len(t) >= 1, t[1] = g,
               Halved(n) = [program EXCEPT ![n] = b] \o t
        PROVE  /\ Q \in Seq(NodeRecords) /\ Len(Q) = K + Len(t) /\ Q[n] = b /\ Q[K + 1] = d
               /\ \A k \in 1 .. K : k # n => Q[k] = program[k]
               /\ \A k \in 2 .. Len(t) : Q[K + k] = t[k]
    <2> DEFINE R == Halved(n)
    <2> HIDE DEF R, d, g
    <2>4. Extended(program, n, b, t, R, NodeRecords)
      <3>1. R = [program EXCEPT ![n] = b] \o t
        BY <1>8 DEF R
      <3> QED BY ONLY <1>8, <3>1, PutExtends, program \in Seq(NodeRecords), n \in 1 .. Len(program)
    <2>1. R[K + 1] = g
      <3>1. 1 \in 1 .. Len(t)
        BY <1>8
      <3> QED BY <1>8, <2>4, <3>1 DEF Extended
    <2>2. Q = [R EXCEPT ![K + 1] = [R[K + 1] EXCEPT !.dict = R[K + 1].dict \/ Records(c)]]
      BY <1>6 DEF R, HalfOf
    <2>3. Q = [R EXCEPT ![K + 1] = d]
      BY <2>1, <2>2 DEF d, v, WithWord
    <2>5. n \in 1 .. Len(program) /\ d \in NodeRecords /\ Q = [R EXCEPT ![Len(program) + 1] = d] /\ Len(t) >= 1
      BY <1>3, <1>8, <2>3
    <2>6. Len(program) + 1 \in 1 .. Len(R) /\ R \in Seq(NodeRecords)
      BY <1>1, <1>8, <2>4 DEF Extended
    <2>7. PutAfter(program, R, d, Q, NodeRecords)
      <3>1. Q \in Seq(NodeRecords) /\ Len(Q) = Len(R) /\ Q[Len(program) + 1] = d /\ \A k \in 1 .. Len(R) : k # Len(program) + 1 => Q[k] = R[k]
        <4> DEFINE m == Len(program) + 1
        <4> HIDE DEF m
        <4>1. R \in Seq(NodeRecords) /\ m \in 1 .. Len(R) /\ d \in NodeRecords /\ Q = [R EXCEPT ![m] = d]
          BY ONLY <2>5, <2>6 DEF m
        <4>2. Q \in Seq(NodeRecords) /\ Len(Q) = Len(R) /\ Q[m] = d /\ \A k \in 1 .. Len(R) : k # m => Q[k] = R[k]
          BY ONLY <4>1, PutIs
        <4> QED BY ONLY <4>2 DEF m
      <3> QED BY <3>1 DEF PutAfter
    <2>8. n \in 1 .. Len(program) /\ Len(t) >= 1
      BY <2>5
    <2>9. ExtendedBy(program, n, b, t, d, Q, NodeRecords)
      BY ONLY <2>4, <2>7, <2>8, WordAtTheFirst
    <2> QED BY ONLY <2>9 DEF ExtendedBy, K
  <1> HIDE DEF g, v, d, e, i, w0
  <1>9. \A x \in {K + 1, K + 4}, y, z \in {K + 2, K + 3, Yes, No} :
          LET b == Branch(x, y, z) IN b \in NodeRecords /\ b.op # "icmp" /\ b.test = x /\ b.yes = y /\ b.no = z
    <2> SUFFICES ASSUME NEW x \in {K + 1, K + 4}, NEW y \in {K + 2, K + 3, Yes, No}, NEW z \in {K + 2, K + 3, Yes, No}
                 PROVE  LET b == Branch(x, y, z) IN b \in NodeRecords /\ b.op # "icmp" /\ b.test = x /\ b.yes = y /\ b.no = z
      OBVIOUS
    <2>1. x \in Int /\ y \in Int /\ z \in Int
      BY <1>1 DEF Yes, No
    <2> QED BY ONLY <2>1, BranchIs
  <1>10. CASE c.pred = "eq"
    <2> DEFINE b == Branch(K + 1, K + 2, No)
    <2>1. b \in NodeRecords /\ b.op # "icmp" /\ b.test = K + 1 /\ b.yes = K + 2 /\ b.no = No
      BY <1>9
    <2>2. Halved(n) = [program EXCEPT ![n] = b] \o <<g, e>>
      BY <1>7, <1>10
    <2>3. <<g, e>> \in Seq(NodeRecords) /\ Len(<<g, e>>) = 2 /\ <<g, e>>[1] = g /\ <<g, e>>[2] = e
      BY <1>3, <1>4
    <2> HIDE DEF b
    <2>4. /\ Q \in Seq(NodeRecords) /\ Len(Q) = K + 2 /\ Q[n] = b /\ Q[K + 1] = d
          /\ \A k \in 1 .. K : k # n => Q[k] = program[k]
          /\ Q[K + 2] = e
      <3>1. 2 \in 2 .. 2 /\ {2, 3, 4} \subseteq 2 .. 4 /\ 2 >= 1 /\ 4 >= 1
        OBVIOUS
      <3> QED BY <1>8, <2>1, <2>2, <2>3, <3>1
    <2>5. BranchesTo(program, n, Q, c, d)
      BY <1>10, <2>1, <2>4 DEF BranchesTo
    <2> QED BY <1>3, <1>4, <2>1, <2>4, <2>5 DEF IsHalved
  <1>11. CASE c.pred = "ne"
    <2> DEFINE b == Branch(K + 1, Yes, K + 2)
    <2>1. b \in NodeRecords /\ b.op # "icmp" /\ b.test = K + 1 /\ b.yes = Yes /\ b.no = K + 2
      BY <1>9
    <2>2. Halved(n) = [program EXCEPT ![n] = b] \o <<g, e>>
      BY <1>7, <1>11
    <2>3. <<g, e>> \in Seq(NodeRecords) /\ Len(<<g, e>>) = 2 /\ <<g, e>>[1] = g /\ <<g, e>>[2] = e
      BY <1>3, <1>4
    <2> HIDE DEF b
    <2>4. /\ Q \in Seq(NodeRecords) /\ Len(Q) = K + 2 /\ Q[n] = b /\ Q[K + 1] = d
          /\ \A k \in 1 .. K : k # n => Q[k] = program[k]
          /\ Q[K + 2] = e
      <3>1. 2 \in 2 .. 2 /\ {2, 3, 4} \subseteq 2 .. 4 /\ 2 >= 1 /\ 4 >= 1
        OBVIOUS
      <3> QED BY <1>8, <2>1, <2>2, <2>3, <3>1
    <2>5. BranchesTo(program, n, Q, c, d)
      BY <1>11, <2>1, <2>4 DEF BranchesTo
    <2> QED BY <1>3, <1>4, <2>1, <2>4, <2>5 DEF IsHalved
  <1>12. CASE c.pred \notin {"eq", "ne"}
    <2> DEFINE b == Branch(K + 1, Yes, K + 3)
               a == Branch(K + 4, No, K + 2)
               t == <<g, e, a, i>>
    <2>1. /\ b \in NodeRecords /\ b.op # "icmp" /\ b.test = K + 1 /\ b.yes = Yes /\ b.no = K + 3
          /\ a \in NodeRecords /\ a.op # "icmp" /\ a.test = K + 4 /\ a.yes = No /\ a.no = K + 2
      BY <1>9
    <2>2. Halved(n) = [program EXCEPT ![n] = b] \o t
      BY <1>7, <1>12
    <2> HIDE DEF a, b
    <2>3. t \in Seq(NodeRecords) /\ Len(t) = 4 /\ t[1] = g /\ t[2] = e /\ t[3] = a /\ t[4] = i
      BY <1>3, <1>4, <1>5, <2>1
    <2> HIDE DEF t
    <2>4. /\ Q \in Seq(NodeRecords) /\ Len(Q) = K + 4 /\ Q[n] = b /\ Q[K + 1] = d
          /\ \A k \in 1 .. K : k # n => Q[k] = program[k]
          /\ Q[K + 2] = e /\ Q[K + 3] = a /\ Q[K + 4] = i
      <3>1. {2, 3, 4} \subseteq 2 .. 4 /\ 4 >= 1
        OBVIOUS
      <3>2. /\ Q \in Seq(NodeRecords) /\ Len(Q) = K + Len(t) /\ Q[n] = b /\ Q[K + 1] = d
            /\ \A k \in 1 .. K : k # n => Q[k] = program[k]
            /\ \A k \in 2 .. Len(t) : Q[K + k] = t[k]
        <4>1. /\ b \in NodeRecords /\ t \in Seq(NodeRecords) /\ Len(t) >= 1 /\ t[1] = g
              /\ Halved(n) = [program EXCEPT ![n] = b] \o t
          BY <2>1, <2>2, <2>3, <3>1
        <4> QED BY ONLY <1>8, <4>1
      <3> QED BY ONLY <2>3, <3>1, <3>2
    <2>5. BranchesTo(program, n, Q, c, d)
      BY <1>3, <1>5, <1>12, <2>1, <2>4 DEF BranchesTo
    <2> QED BY <1>3, <1>4, <2>1, <2>4, <2>5 DEF IsHalved
  <1> QED BY <1>10, <1>11, <1>12
LEMMA HalfFits ==
  ASSUME ComparesTyped, ProgramOK(program, todo), NEW n \in todo, n # 0, Phase > 0,
         NEW c, c = program[n], convert # "NONE", c.w > Unit, ~(Records(c) /\ convert # "ALL"),
         NEW Q, Q = HalfOf(n)
  PROVE  IsPatch(program, n, Q) /\ Fits(program, n, Q) /\ Q \in Seq(NodeRecords)
  <1> DEFINE K == Len(program)
             h == c.w \div 2
             d == Q[K + 1]
             e == Q[K + 2]
             a == Q[K + 3]
             i == Q[K + 4]
  <1>1. /\ program \in Seq(NodeRecords) /\ K \in Nat \ {0} /\ n \in 1 .. K
        /\ c2u_phase \in 1 .. Len(Phases) /\ Candidate(c) /\ Shape(c) /\ c.op = "icmp" /\ c.w # SignBit /\ ~IsMagic(c)
        /\ compare.w \in CompareWidths /\ (ForWord(c) /\ ~WordWanted /\ compare.side # "none" => Stuck(c))
    BY ToDoIs
  <1>2. c.pred \in UnsignedPreds /\ c.w = Phase * Unit /\ Unit \in Nat \ {0}
    <2>1. Unit \in Nat \ {0}
      BY CompareAssumption
    <2>2. Phase # -1 /\ Phase # -2
      BY <1>1, PhaseIs
    <2> QED BY <1>1, <2>1, <2>2 DEF Candidate, UnsignedPreds, Equalities
  <1>3. c2u_phase = SizePhase(c.w) + 2
    <2>1. c2u_phase \in Nat
      BY <1>1
    <2>2. SizePhase(c.w) = c2u_phase - 2
      BY <1>1, <1>2, PhaseIs
    <2>3. c.w \in {Unit, 2 * Unit, 4 * Unit, 8 * Unit}
      BY <1>1 DEF Shape
    <2>4. SizePhase(c.w) \in 1 .. 4
      BY <2>3, SizePhaseIs
    <2> QED BY <2>1, <2>2, <2>4
  <1>4. /\ c.w \in {Unit, 2 * Unit, 4 * Unit, 8 * Unit} /\ c.w \in Nat /\ c.lo \in Nat
        /\ h \in {Unit, 2 * Unit, 4 * Unit} /\ c.w = 2 * h /\ SizePhase(h) = SizePhase(c.w) + 1 /\ SizePhase(c.w) \in 1 .. 4
        /\ h \in Nat /\ h # 0
    <2>1. c.w \in {Unit, 2 * Unit, 4 * Unit, 8 * Unit} /\ c.lo \in Nat
      BY <1>1 DEF Shape
    <2>2. c.w # Unit
      BY <1>2
    <2> QED BY <1>2, <2>1, <2>2, SizePhaseIs
  <1>5. Longest \in Nat /\ compare.w \in Nat /\ c.lo + c.w <= compare.w /\ compare.w <= Longest /\ h < compare.w
    <2>1. c.lo + c.w <= compare.w
      BY <1>1 DEF Shape
    <2>2. compare.w \in 1 .. Longest
      BY <1>1, WidthIs
    <2>3. Longest \in Nat
      BY PowerUnfolds
    <2> QED BY <1>4, <2>1, <2>2, <2>3
  <1>6. c.dict \in BOOLEAN
    <2>1. c \in NodeRecords
      BY <1>1
    <2> QED BY <1>1, <2>1 DEF NodeRecords
  <1>7. IsHalved(program, n, Q, c, h, Records(c))
    BY <1>1, <1>2, <1>4, <1>6, HalfNodes
  <1>8. /\ Q \in Seq(NodeRecords) /\ Q[n].op # "icmp"
        /\ \A k \in 1 .. K : k # n => Q[k] = program[k]
        /\ d.op = "icmp" /\ d.pred = c.pred /\ d.lo = c.lo + h /\ d.w = h
        /\ (d.dict <=> c.dict \/ Records(c)) /\ (d.flagged <=> c.pred \in Equalities)
        /\ e.op = "icmp" /\ e.pred = c.pred /\ e.lo = c.lo /\ e.w = h /\ ~e.dict /\ (e.flagged <=> c.pred \in Equalities)
        /\ BranchesTo(program, n, Q, c, d)
    BY <1>7 DEF IsHalved
  <1> HIDE DEF d, e, a, i, h
  <1>9. ~IsWhole(d) /\ ~IsWhole(e)
    BY <1>4, <1>5, <1>8 DEF IsWhole
  <1>10. c.pred \notin Loose \cup Signed /\ c.pred \in Predicates
    BY <1>2 DEF UnsignedPreds, Equalities, Loose, Signed, Predicates, Strict
  <1>11. /\ d.dict => c.pred \in Equalities /\ WordWanted /\ convert = "ALL" /\ ForWord(c)
         /\ ForWord(c) /\ WordWanted => d.dict
    <2>1. ASSUME c.dict PROVE c.pred \in Equalities /\ WordWanted /\ ForWord(c)
      BY <1>1, <2>1 DEF Shape, ForWord
    <2>2. ASSUME c.dict, convert # "ALL" PROVE Records(c)
      BY <1>1, <2>2 DEF Shape, Records, WordWanted
    <2>3. ASSUME Records(c) PROVE c.pred \in Equalities /\ ForWord(c) /\ WordWanted
      <3>1. c.pred \in Equalities /\ ForWord(c) /\ compare.side # "none"
        BY <1>1, <2>3 DEF Records, ForWord
      <3>2. ~Stuck(c)
        BY <1>1 DEF Stuck
      <3> QED BY <1>1, <3>1, <3>2
    <2>4. ASSUME ForWord(c), WordWanted, ~c.dict PROVE Records(c)
      <3>1. IsWhole(c) /\ c.pred \in Equalities /\ compare.side # "none"
        BY <1>10, <2>4 DEF ForWord, WordWanted
      <3>2. ~c.flagged
        BY <1>1, <3>1 DEF Shape
      <3> QED BY <3>1, <3>2 DEF Records
    <2> QED BY <1>8, <2>1, <2>2, <2>3, <2>4
  <1>12. Shape(d) /\ Shape(e)
    <2>1. d.lo + d.w <= compare.w /\ d.lo \in Nat /\ e.lo + e.w <= compare.w /\ e.lo \in Nat
      <3>1. c.lo \in Nat /\ h \in Nat /\ compare.w \in Nat /\ c.lo + c.w <= compare.w /\ c.w = 2 * h
        BY <1>4, <1>5
      <3>2. d.lo = c.lo + h /\ d.w = h /\ e.lo = c.lo /\ e.w = h
        BY <1>8
      <3> QED BY <3>1, <3>2
    <2>2. d.w \in {SignBit, Unit, 2 * Unit, 4 * Unit, 8 * Unit} /\ e.w \in {SignBit, Unit, 2 * Unit, 4 * Unit, 8 * Unit}
      BY <1>4, <1>8
    <2> QED BY <1>8, <1>9, <1>10, <1>11, <2>1, <2>2 DEF Shape
  <1>13. Due(d) > c2u_phase /\ Due(e) > c2u_phase
    <2>1. Due(d) = 2 + SizePhase(h) /\ Due(e) = 2 + SizePhase(h)
      BY <1>8, <1>10 DEF Due
    <2> QED BY <1>3, <1>4, <2>1
  <1>14. (ForWord(d) <=> d.dict) /\ ~ForWord(e)
    BY <1>8, <1>9 DEF ForWord
  <1>15. Inner(Q, Yes, 0, 0) /\ {K + 1, K + 2, K + 3, K + 4} \cap {Yes, No} = {}
    BY <1>1, NewNodes, InnerIs
  <1>16. CASE c.pred = "eq" \/ c.pred = "ne"
    <2>1. /\ Len(Q) = K + 2 /\ Q[n].test = K + 1
          /\ c.pred = "eq" => Q[n].yes = K + 2 /\ Q[n].no = No
          /\ c.pred = "ne" => Q[n].yes = Yes /\ Q[n].no = K + 2
      BY <1>8, <1>16 DEF BranchesTo
    <2>2. NewOnes(program, Q) = {K + 1, K + 2}
      BY ONLY <1>1, <2>1, NewNodes DEF NewOnes
    <2>3. Q[K + 1] = d /\ Q[K + 2] = e
      BY DEF d, e
    <2>4. IsPatch(program, n, Q)
      <3>1. Q[Q[n].test].op = "icmp" /\ Q[n].test \in {K + 1, K + 2}
        BY <1>8, <2>1, <2>3
      <3>2. Q[n].yes \in {K + 1, K + 2} \cup {Yes, No} /\ Q[n].no \in {K + 1, K + 2} \cup {Yes, No}
        BY <1>16, <2>1
      <3>3. \A k \in {K + 1, K + 2} : Q[k].op = "icmp"
        BY <1>8, <2>3
      <3>4. Len(program) \in Nat \ {0} /\ Len(Q) \in Nat /\ Len(Q) >= Len(program)
        BY <1>1, <2>1
      <3> QED BY <1>1, <1>8, <2>2, <3>1, <3>2, <3>3, <3>4 DEF IsPatch
    <2>5. ASSUME NEW x \in OperandsOf(compare.w), NEW y \in OperandsOf(compare.w)
          PROVE  Says(c, x, y) <=> Inner(Q, Picked(Q, n, x, y), x, y)
      <3>1. x \in Nat /\ y \in Nat
        BY <1>1, WidthIs DEF OperandsOf
      <3>2. Halves(c, d, e, h)
        BY <1>4, <1>5, <1>8 DEF Halves
      <3>3. /\ c.pred = "eq" => (Says(c, x, y) <=> Says(d, x, y) /\ Says(e, x, y))
            /\ c.pred = "ne" => (Says(c, x, y) <=> Says(d, x, y) \/ Says(e, x, y))
        BY <1>4, <3>1, <3>2, HalvedSays
      <3>4. Picked(Q, n, x, y) = IF Says(d, x, y) THEN Q[n].yes ELSE Q[n].no
        BY <2>1, <2>3 DEF Picked
      <3>5. Inner(Q, Yes, x, y) /\ ~Inner(Q, No, x, y) /\ (Inner(Q, K + 2, x, y) <=> Says(e, x, y))
        BY <1>1, <1>8, <2>3, InnerIs, NewNodes
      <3>6. CASE c.pred = "eq"
        BY <2>1, <3>3, <3>4, <3>5, <3>6
      <3>7. CASE c.pred = "ne"
        BY <2>1, <3>3, <3>4, <3>5, <3>7
      <3> QED BY <1>16, <3>6, <3>7
    <2>6. \A k \in NewOnes(program, Q) : Q[k].op = "icmp" => Shape(Q[k])
      BY <1>12, <2>2, <2>3
    <2>7. \A k \in NewOnes(program, Q) : HasPhase(Q[k]) => Due(Q[k]) > c2u_phase
      BY <1>13, <2>2, <2>3
    <2>8. \A k \in NewOnes(program, Q) : ForWord(Q[k]) => k = Q[n].test /\ Q[k] = d /\ d.dict
      BY <1>14, <2>1, <2>2, <2>3
    <2>9. ForWord(c) /\ WordWanted => \E k \in NewOnes(program, Q) : ForWord(Q[k])
      BY <1>11, <1>14, <2>2, <2>3
    <2>10. Fits(program, n, Q)
      <3>1. ASSUME NEW k \in NewOnes(program, Q), ForWord(Q[k])
            PROVE  /\ ForWord(c)
                   /\ WordWanted => Q[k].dict \/ ~IsMagic(Q[k])
                   /\ ~WordWanted /\ compare.side # "none" => Stuck(Q[k])
                   /\ k = Q[n].test \/ (k = Q[n].no /\ \A x \in OperandsOf(compare.w) : ~Says(Q[Q[n].test], x, x))
                   /\ \A j \in NewOnes(program, Q) : ForWord(Q[j]) => j = k
        BY <1>11, <3>1, <2>8
      <3> QED BY <2>5, <2>6, <2>7, <2>9, <3>1 DEF Fits
    <2> QED BY <1>8, <2>4, <2>10
  <1>17. CASE c.pred # "eq" /\ c.pred # "ne"
    <2>1. /\ Len(Q) = K + 4 /\ Q[n].test = K + 1 /\ Q[n].yes = Yes /\ Q[n].no = K + 3
          /\ a.op # "icmp" /\ a.test = K + 4 /\ a.yes = No /\ a.no = K + 2
          /\ i.op = "icmp" /\ i.pred = Inverse1(c.pred) /\ i.lo = d.lo /\ i.w = d.w /\ ~i.dict /\ ~i.flagged
      BY <1>8, <1>17 DEF BranchesTo, a, i
    <2>2. NewOnes(program, Q) = {K + 1, K + 2, K + 3, K + 4}
      BY ONLY <1>1, <2>1, NewNodes DEF NewOnes
    <2>3. Q[K + 1] = d /\ Q[K + 2] = e /\ Q[K + 3] = a /\ Q[K + 4] = i
      BY DEF d, e, a, i
    <2>4. IsPatch(program, n, Q)
      <3>1. Q[Q[n].test].op = "icmp" /\ Q[n].test \in {K + 1, K + 2, K + 3, K + 4}
        BY <1>8, <2>1, <2>3
      <3>2. /\ Q[n].yes \in {K + 1, K + 2, K + 3, K + 4} \cup {Yes, No}
            /\ Q[n].no \in {K + 1, K + 2, K + 3, K + 4} \cup {Yes, No}
        BY <2>1
      <3>3. \A k \in {K + 1, K + 2, K + 3, K + 4} : Q[k].op # "icmp" =>
              /\ Q[k].test \in {K + 1, K + 2, K + 3, K + 4} /\ Q[Q[k].test].op = "icmp"
              /\ \A z \in {Q[k].yes, Q[k].no} : z \in {Yes, No} \/ (z \in {K + 1, K + 2, K + 3, K + 4} /\ Q[z].op = "icmp")
        <4>1. /\ a.test \in {K + 1, K + 2, K + 3, K + 4} /\ Q[a.test].op = "icmp"
              /\ \A z \in {a.yes, a.no} : z \in {Yes, No} \/ (z \in {K + 1, K + 2, K + 3, K + 4} /\ Q[z].op = "icmp")
          BY <1>8, <2>1, <2>3
        <4> QED BY <1>8, <2>1, <2>3, <4>1
      <3>4. Len(program) \in Nat \ {0} /\ Len(Q) \in Nat /\ Len(Q) >= Len(program)
        BY <1>1, <2>1
      <3> DEFINE N == NewOnes(program, Q)
      <3>5. N = {K + 1, K + 2, K + 3, K + 4}
        BY <2>2
      <3> HIDE DEF N
      <3>6. Q[n].test \in N /\ Q[n].yes \in N \cup {Yes, No} /\ Q[n].no \in N \cup {Yes, No}
        BY ONLY <3>1, <3>2, <3>5
      <3>7. \A k \in N : Q[k].op # "icmp" =>
              /\ Q[k].test \in N /\ Q[Q[k].test].op = "icmp"
              /\ \A z \in {Q[k].yes, Q[k].no} : z \in {Yes, No} \/ (z \in N /\ Q[z].op = "icmp")
        BY ONLY <3>3, <3>5
      <3> QED BY <1>1, <1>8, <3>1, <3>4, <3>6, <3>7 DEF IsPatch, N
    <2>5. c.pred \in {"ugt", "ult"} /\ i.pred \in {"ugt", "ult"} /\ {"ugt", "ult"} \cap (Loose \cup Signed \cup Equalities) = {}
          /\ {"ugt", "ult"} \subseteq Predicates
      BY <1>2, <1>17, <2>1 DEF UnsignedPreds, Equalities, Inverse1, Loose, Signed, Predicates, Strict
    <2>6. ASSUME NEW x \in OperandsOf(compare.w), NEW y \in OperandsOf(compare.w)
          PROVE  Says(c, x, y) <=> Inner(Q, Picked(Q, n, x, y), x, y)
      <3>1. x \in Nat /\ y \in Nat
        BY <1>1, WidthIs DEF OperandsOf
      <3>2. Halves(c, d, e, h)
        BY <1>4, <1>5, <1>8 DEF Halves
      <3>3. Says(c, x, y) <=> Says(d, x, y) \/ (~Says(i, x, y) /\ Says(e, x, y))
        BY <1>4, <1>8, <2>1, <2>5, <3>1, <3>2, HalvedSays
      <3>4. Picked(Q, n, x, y) = IF Says(d, x, y) THEN Yes ELSE K + 3
        BY <2>1, <2>3 DEF Picked
      <3>5. Inner(Q, Yes, x, y) /\ (Leaf(Q, K + 2, x, y) <=> Says(e, x, y)) /\ ~Leaf(Q, No, x, y)
        BY <1>1, <2>3, InnerIs, NewNodes DEF Leaf, Yes, No
      <3>6. Inner(Q, K + 3, x, y) <=> Leaf(Q, IF Says(i, x, y) THEN No ELSE K + 2, x, y)
        <4>1. K + 3 \notin {Yes, No} /\ Q[K + 3].op # "icmp" /\ Q[K + 3].test = K + 4 /\ Q[K + 3].yes = No /\ Q[K + 3].no = K + 2
          BY <1>15, <2>1, <2>3
        <4>2. Says(Q[Q[K + 3].test], x, y) <=> Says(i, x, y)
          BY <2>3, <4>1
        <4>3. Inner(Q, K + 3, x, y) <=> Leaf(Q, IF Says(Q[Q[K + 3].test], x, y) THEN Q[K + 3].yes ELSE Q[K + 3].no, x, y)
          <5> DEFINE k == K + 3
          <5>1. k \notin {Yes, No} /\ Q[k].op # "icmp"
            BY <4>1
          <5> HIDE DEF k
          <5>2. Inner(Q, k, x, y) <=> Leaf(Q, IF Says(Q[Q[k].test], x, y) THEN Q[k].yes ELSE Q[k].no, x, y)
            BY ONLY <5>1 DEF Inner, IsLeaf, Picked
          <5> QED BY <5>2 DEF k
        <4> QED BY <4>1, <4>2, <4>3
      <3> QED BY <3>3, <3>4, <3>5, <3>6
    <2>7. ~IsWhole(i) /\ ~ForWord(i) /\ ~ForWord(a)
      BY <1>4, <1>5, <1>8, <2>1 DEF IsWhole, ForWord
    <2>8. Shape(i)
      BY <1>12, <2>1, <2>5, <2>7 DEF Shape
    <2>9. Due(i) > c2u_phase /\ ~HasPhase(a)
      <3>1. Due(i) = Due(d)
        BY <1>8, <1>10, <2>1, <2>5 DEF Due
      <3> QED BY <1>13, <2>1, <3>1 DEF HasPhase
    <2>10. \A k \in NewOnes(program, Q) : Q[k].op = "icmp" => Shape(Q[k])
      BY <1>12, <2>1, <2>2, <2>3, <2>8
    <2>11. \A k \in NewOnes(program, Q) : HasPhase(Q[k]) => Due(Q[k]) > c2u_phase
      BY <1>13, <2>2, <2>3, <2>9
    <2>12. \A k \in NewOnes(program, Q) : ForWord(Q[k]) => k = Q[n].test /\ Q[k] = d /\ d.dict
      BY <1>14, <2>1, <2>2, <2>3, <2>7
    <2>13. ForWord(c) /\ WordWanted => \E k \in NewOnes(program, Q) : ForWord(Q[k])
      BY <1>11, <1>14, <2>2, <2>3
    <2>14. Fits(program, n, Q)
      <3>1. ASSUME NEW k \in NewOnes(program, Q), ForWord(Q[k])
            PROVE  /\ ForWord(c)
                   /\ WordWanted => Q[k].dict \/ ~IsMagic(Q[k])
                   /\ ~WordWanted /\ compare.side # "none" => Stuck(Q[k])
                   /\ k = Q[n].test \/ (k = Q[n].no /\ \A x \in OperandsOf(compare.w) : ~Says(Q[Q[n].test], x, x))
                   /\ \A j \in NewOnes(program, Q) : ForWord(Q[j]) => j = k
        BY <1>11, <3>1, <2>12
      <3> QED BY <2>6, <2>10, <2>11, <2>13, <3>1 DEF Fits
    <2> QED BY <1>8, <2>4, <2>14
  <1> QED BY <1>16, <1>17
\* What a comparison says has nothing to do with words.
LEMMA SameFields ==
  ASSUME NEW c, NEW d, d.pred = c.pred, d.lo = c.lo, d.w = c.w
  PROVE  /\ IsWhole(d) <=> IsWhole(c)
         /\ IsMagic(d) <=> IsMagic(c)
         /\ \A x, y : Says(d, x, y) <=> Says(c, x, y)
         /\ d.op = c.op => (Candidate(d) <=> Candidate(c)) /\ (HasPhase(d) <=> HasPhase(c)) /\ Due(d) = Due(c)
  <1>1. IsWhole(d) <=> IsWhole(c)
    BY DEF IsWhole
  <1>2. IsMagic(d) <=> IsMagic(c)
    BY <1>1 DEF IsMagic
  <1>3. ASSUME NEW x PROVE Field(x, d) = Field(x, c)
    BY DEF Field
  <1>4. \A x, y : Says(d, x, y) <=> Says(c, x, y)
    BY <1>3 DEF Says
  <1>5. d.op = c.op => (Candidate(d) <=> Candidate(c)) /\ (HasPhase(d) <=> HasPhase(c)) /\ Due(d) = Due(c)
    BY <1>2 DEF Candidate, HasPhase, Due
  <1> QED BY <1>1, <1>2, <1>4, <1>5

\* The program with the word of comparison n.
RecordedOf(n) == [program EXCEPT ![n].dict = @ \/ Records(program[n])]

LEMMA RecordedIs ==
  ASSUME program \in Seq(NodeRecords), NEW n \in 1 .. Len(program), NEW c, c = program[n], c.op = "icmp", NEW Q, Q = RecordedOf(n)
  PROVE  /\ Q \in Seq(NodeRecords) /\ Len(Q) = Len(program)
         /\ Q[n].op = "icmp" /\ Q[n].pred = c.pred /\ Q[n].lo = c.lo /\ Q[n].w = c.w /\ Q[n].flagged = c.flagged
         /\ Q[n].dict <=> c.dict \/ Records(c)
         /\ \A k \in 1 .. Len(program) : k # n => Q[k] = program[k]
  <1> DEFINE v == c.dict \/ Records(c)
             d == WithWord(c, v)
  <1>1. c \in NodeRecords
    OBVIOUS
  <1>2. v \in BOOLEAN
    <2>1. c.dict \in BOOLEAN
      BY <1>1 DEF NodeRecords
    <2> QED BY <2>1 DEF Records
  <1>3. Q = [program EXCEPT ![n] = d]
    BY DEF RecordedOf, WithWord
  <1>4. v <=> c.dict \/ Records(c)
    OBVIOUS
  <1> HIDE DEF v, d
  <1>5. d = WithWord(c, v)
    BY DEF d
  <1>6. /\ d.op = "icmp" /\ d.pred = c.pred /\ d.lo = c.lo /\ d.w = c.w /\ d.dict = v /\ d.flagged = c.flagged
        /\ d \in NodeRecords
    BY ONLY <1>1, <1>2, <1>5, c.op = "icmp", WithWordIs
  <1>7. Q \in Seq(NodeRecords) /\ Len(Q) = Len(program) /\ Q[n] = d /\ \A k \in 1 .. Len(program) : k # n => Q[k] = program[k]
    BY ONLY <1>3, <1>6, program \in Seq(NodeRecords), n \in 1 .. Len(program), PutIs
  <1> QED BY <1>4, <1>6, <1>7

LEMMA RecordedKeeps ==
  ASSUME ComparesTyped, ProgramOK(program, todo), NEW n \in todo, n # 0, Phase > 0,
         NEW c, c = program[n], (Records(c) /\ convert # "ALL") \/ convert = "NONE" \/ c.w <= Unit,
         NEW Q, Q = RecordedOf(n)
  PROVE  ProgramOK(Q, todo \ {n})
  <1> DEFINE K == Len(program)
             d == Q[n]
  <1>1. /\ program \in Seq(NodeRecords) /\ K \in Nat \ {0} /\ n \in 1 .. K
        /\ c2u_phase \in 1 .. Len(Phases) /\ Candidate(c) /\ Shape(c) /\ c.op = "icmp" /\ c.w # SignBit /\ ~IsMagic(c)
        /\ compare.w \in CompareWidths /\ (ForWord(c) /\ ~WordWanted /\ compare.side # "none" => Stuck(c))
    BY ToDoIs
  <1>2. AllShaped(program) /\ OneWord(program) /\ ToDo(program, todo) /\ Pending(program, todo) /\ Computes(program) /\ todo # {0}
    BY DEF ProgramOK
  <1>3. c.pred \in UnsignedPreds /\ c.w = Phase * Unit /\ Unit \in Nat \ {0}
    <2>1. Unit \in Nat \ {0}
      BY CompareAssumption
    <2>2. Phase # -1 /\ Phase # -2
      BY <1>1, PhaseIs
    <2> QED BY <1>1, <2>1, <2>2 DEF Candidate, UnsignedPreds, Equalities
  <1>4. /\ Q \in Seq(NodeRecords) /\ Len(Q) = K
        /\ d.op = "icmp" /\ d.pred = c.pred /\ d.lo = c.lo /\ d.w = c.w /\ d.flagged = c.flagged
        /\ d.dict <=> c.dict \/ Records(c)
        /\ \A k \in 1 .. K : k # n => Q[k] = program[k]
    BY <1>1, RecordedIs
  <1> HIDE DEF d
  <1>5. /\ IsWhole(d) <=> IsWhole(c)
        /\ IsMagic(d) <=> IsMagic(c)
        /\ \A x, y : Says(d, x, y) <=> Says(c, x, y)
        /\ (Candidate(d) <=> Candidate(c)) /\ (HasPhase(d) <=> HasPhase(c)) /\ Due(d) = Due(c)
    BY <1>1, <1>4, SameFields
  <1>6. c.pred \notin Loose \cup Signed
    BY <1>3 DEF UnsignedPreds, Equalities, Loose, Signed
  <1>7. Records(c) => c.pred \in Equalities /\ IsWhole(c) /\ ForWord(c) /\ compare.side # "none" /\ WordWanted
    <2> SUFFICES ASSUME Records(c) PROVE c.pred \in Equalities /\ IsWhole(c) /\ ForWord(c) /\ compare.side # "none" /\ WordWanted
      OBVIOUS
    <2>1. c.pred \in Equalities /\ IsWhole(c) /\ ForWord(c) /\ compare.side # "none"
      BY <1>1 DEF Records, ForWord
    <2>2. ~Stuck(c)
      BY <1>1, <1>6 DEF Stuck
    <2> QED BY <1>1, <2>1, <2>2
  <1>8. ForWord(d) <=> ForWord(c)
    BY <1>1, <1>4, <1>5, <1>7 DEF ForWord
  <1>9. Shape(d)
    BY <1>1, <1>4, <1>5, <1>7 DEF Shape
  <1>10. DealtWith(d)
    <2>1. c.w = SignBit \/ c.w \in {Unit, 2 * Unit, 4 * Unit, 8 * Unit}
      BY <1>1 DEF Shape
    <2>2. convert = "ALL" => d.w = Unit
      BY <1>1, <1>3, <1>4, <2>1
    <2>3. d.pred \in Equalities /\ IsWhole(d) /\ compare.side # "none" => d.dict
      BY <1>1, <1>4, <1>5 DEF Records, Shape
    <2> QED BY <1>3, <1>4, <2>2, <2>3 DEF DealtWith
  <1>11. d = Q[n] /\ \A k \in 1 .. Len(Q) : k # n => Q[k] = program[k] /\ k \in 1 .. K
    BY <1>4 DEF d
  <1>12. AllShaped(Q)
    BY <1>2, <1>9, <1>11 DEF AllShaped
  <1>13. \A k \in 1 .. K : (ForWord(Q[k]) <=> ForWord(program[k])) /\ k \in 1 .. Len(Q)
    BY <1>4, <1>8, <1>11
  <1>14. OneWord(Q)
    <2>1. \A i, j \in 1 .. Len(Q) : ForWord(Q[i]) /\ ForWord(Q[j]) => i = j
      BY <1>2, <1>4, <1>13 DEF OneWord
    <2>2. WordWanted => \E k \in 1 .. Len(Q) : ForWord(Q[k])
      BY <1>2, <1>13 DEF OneWord
    <2>3. ASSUME NEW k \in 1 .. Len(Q), ForWord(Q[k])
          PROVE  /\ WordWanted => Q[k].dict \/ ~IsMagic(Q[k])
                 /\ ~WordWanted /\ compare.side # "none" => Stuck(Q[k])
      <3>1. CASE k = n
        <4>1. ~IsMagic(d)
          BY <1>1, <1>5
        <4>2. ~WordWanted /\ compare.side # "none" => Stuck(c)
          BY <1>1, <1>8, <1>11, <2>3, <3>1
        <4>3. ~Stuck(c)
          BY <1>1, <1>6 DEF Stuck
        <4> QED BY <1>11, <3>1, <4>1, <4>2, <4>3
      <3>2. CASE k # n
        BY <1>2, <1>11, <2>3, <3>2 DEF OneWord
      <3> QED BY <3>1, <3>2
    <2> QED BY <2>1, <2>2, <2>3 DEF OneWord
  <1>15. ToDo(Q, todo \ {n})
    BY <1>2, <1>4, <1>11 DEF ToDo
  <1>16. Pending(Q, todo \ {n})
    <2> SUFFICES ASSUME NEW k \in 1 .. Len(Q), HasPhase(Q[k])
                 PROVE  \/ Due(Q[k]) > c2u_phase
                        \/ Due(Q[k]) = c2u_phase /\ k \in todo \ {n}
                        \/ DealtWith(Q[k])
      BY DEF Pending
    <2>1. CASE k = n
      BY <1>10, <1>11, <2>1
    <2>2. CASE k # n
      BY <1>2, <1>11, <2>2 DEF Pending
    <2> QED BY <2>1, <2>2
  <1>17. Computes(Q)
    <2>1. Ranked(Q)
      <3>1. PICK r : IsRank(r, program)
        BY <1>2 DEF Computes, Ranked
      <3>2. IsRank(r, Q)
        BY <1>1, <1>4, <1>11, <3>1 DEF IsRank
      <3> QED BY <1>1, <1>4, <3>2 DEF Ranked
    <2>2. ASSUME NEW x \in OperandsOf(compare.w), NEW y \in OperandsOf(compare.w) PROVE \E V, E : RunOK(Q, V, E, x, y)
      <3>1. PICK V, E : RunOK(program, V, E, x, y)
        BY <1>2 DEF Computes
      <3>2. IsRunOf(V, E, program, x, y)
        BY <3>1 DEF RunOK
      <3>3. IsRunOf(V, E, Q, x, y)
        <4>1. ASSUME NEW k \in 1 .. Len(Q)
              PROVE  /\ Q[k].op = "icmp" => (k \in V <=> Says(Q[k], x, y)) /\ E[k] = {k}
                     /\ Q[k].op # "icmp" => (k \in V <=> Chosen(Q[k], V) \in V) /\ E[k] = E[Q[k].test] \cup E[Chosen(Q[k], V)]
          <5>1. CASE k = n
            BY <1>1, <1>4, <1>5, <1>11, <3>2, <5>1 DEF IsRunOf
          <5>2. CASE k # n
            BY <1>11, <3>2, <5>2 DEF IsRunOf
          <5> QED BY <5>1, <5>2
        <4> QED BY <1>4, <3>2, <4>1 DEF IsRunOf
      <3>4. x = y => \A k \in 1 .. Len(Q) : ForWord(Q[k]) => k \in E[1]
        BY <1>4, <1>13, <3>1 DEF RunOK
      <3> QED BY <3>1, <3>3, <3>4 DEF RunOK
    <2> QED BY <2>1, <2>2 DEF Computes
  <1> QED BY <1>4, <1>12, <1>14, <1>15, <1>16, <1>17 DEF ProgramOK
-----------------------------------------------------------------------------
(* The invariant holds at the start, and is kept by every step. *)

LEMMA InitComputes ==
  ASSUME CompareInit
  PROVE  Computes(program) /\ Len(program) = 1 /\ program[1] = ICmp(compare.pred, 0, compare.w)
         /\ program \in Seq(NodeRecords) /\ compare.pred \in Predicates /\ compare.w \in CompareWidths
  <1> DEFINE c == ICmp(compare.pred, 0, compare.w)
  <1>1. compare.pred \in Predicates /\ compare.w \in CompareWidths /\ program = <<c>>
    BY DEF CompareInit
  <1>2. compare.w \in Int /\ compare.w # 0
    BY <1>1, WidthIs
  <1> HIDE DEF c
  <1>3. /\ c \in NodeRecords /\ c.op = "icmp" /\ c.pred = compare.pred /\ c.lo = 0 /\ c.w = compare.w /\ ~c.dict /\ ~c.flagged
    <2>1. c = ICmp(compare.pred, 0, compare.w) /\ 0 \in Int
      BY DEF c
    <2> QED BY ONLY <1>1, <1>2, <2>1, ICmpIs
  <1>4. Len(program) = 1 /\ program[1] = c /\ program \in Seq(NodeRecords)
    BY <1>1, <1>3
  <1>5. Ranked(program)
    <2> DEFINE r == [k \in -1 .. 1 |-> IF k = 1 THEN 1 ELSE 0]
    <2>1. r \in [-1 .. 1 -> Nat] /\ r[-1] = 0 /\ r[0] = 0 /\ r[1] = 1
      OBVIOUS
    <2> HIDE DEF r
    <2>2. \A k \in 1 .. 1 : k = 1
      OBVIOUS
    <2>3. IsRank(r, program)
      BY <1>3, <1>4, <2>1, <2>2 DEF IsRank, Nodes, Yes, No
    <2> QED BY <1>4, <2>3 DEF Ranked
  <1>6. ASSUME NEW x \in OperandsOf(compare.w), NEW y \in OperandsOf(compare.w) PROVE \E V, E : RunOK(program, V, E, x, y)
    <2> DEFINE V == IF Says(c, x, y) THEN {-1, 1} ELSE {-1}
               E == [k \in -1 .. 1 |-> IF k = 1 THEN {1} ELSE {}]
    <2>1. V \subseteq -1 .. 1 /\ -1 \in V /\ 0 \notin V /\ (1 \in V <=> Says(c, x, y))
      OBVIOUS
    <2>2. E[-1] = {} /\ E[0] = {} /\ E[1] = {1}
      OBVIOUS
    <2> HIDE DEF V, E
    <2>3. \A k \in 1 .. 1 : k = 1
      OBVIOUS
    <2>4. IsRunOf(V, E, program, x, y)
      BY <1>3, <1>4, <2>1, <2>2, <2>3 DEF IsRunOf, Nodes, Yes, No
    <2>5. IsWhole(c) /\ c.w # SignBit
      BY <1>2, <1>3 DEF IsWhole, SignBit
    <2>6. Field(x, c) = x /\ Field(y, c) = y
      BY <1>1, <2>5, WholeField
    <2>7. Says(c, x, y) <=> Holds(compare.pred, x, y, compare.w)
      BY <1>3, <2>5, <2>6 DEF Says
    <2>8. \A k \in 1 .. Len(program) : k \in E[1]
      BY <1>4, <2>2, <2>3
    <2>9. RunOK(program, V, E, x, y)
      BY <2>1, <2>4, <2>7, <2>8 DEF RunOK
    <2> QED BY <2>9
  <1> QED BY <1>1, <1>4, <1>5, <1>6 DEF Computes, c

LEMMA ComparesInitially ==
  ASSUME CompareInit
  PROVE  ComparesInv
  <1> DEFINE c == program[1]
  <1>1. /\ Computes(program) /\ Len(program) = 1 /\ c = ICmp(compare.pred, 0, compare.w)
        /\ program \in Seq(NodeRecords) /\ compare.pred \in Predicates /\ compare.w \in CompareWidths
    BY InitComputes
  <1>2. compare.w \in Nat /\ compare.w # 0 /\ compare.w \in {Unit, 2 * Unit, 4 * Unit, 8 * Unit} /\ Unit \in Nat \ {0}
    BY <1>1, WidthIs, CompareAssumption
  <1> HIDE DEF c
  <1>3. /\ c \in NodeRecords /\ c.op = "icmp" /\ c.pred = compare.pred /\ c.lo = 0 /\ c.w = compare.w /\ ~c.dict /\ ~c.flagged
    <2>1. 0 \in Int /\ compare.w \in Int
      BY <1>2
    <2> QED BY ONLY <1>1, <2>1, ICmpIs
  <1>4. \A k \in 1 .. Len(program) : k = 1 /\ program[k] = c
    BY <1>1 DEF c
  <1>5. IsWhole(c)
    BY <1>3 DEF IsWhole
  <1>6. convert \in {"ALL", "NONE", "NOT_DICT"} /\ todo = {0} /\ c2u_phase = 1
    BY DEF CompareInit
  <1>7. ComparesTyped
    <2>1. /\ compare \in [w : CompareWidths, pred : Predicates, side : {"none", "left", "right"},
                          const : UNION {Constants(w) : w \in CompareWidths}, call : BOOLEAN]
          /\ compare.const \in Constants(compare.w)
      BY DEF CompareInit
    <2>2. compare.const \in Int
      <3>1. Constants(compare.w) \subseteq 0 .. Power2[compare.w] - 1
        BY <1>1, ConstantsAssumption
      <3>2. Power2[compare.w] \in Nat
        BY <1>1, WidthIs
      <3> QED BY <2>1, <3>1, <3>2
    <2>3. compare \in [w : CompareWidths, pred : Predicates, side : {"none", "left", "right"}, const : Int, call : BOOLEAN]
      BY <2>1, <2>2
    <2>4. 1 \in 1 .. Len(Phases) + 1
      BY DEF Phases
    <2> QED BY <1>6, <2>1, <2>3, <2>4 DEF ComparesTyped
  <1>8. AllShaped(program)
    <2>1. Shape(c)
      BY <1>1, <1>2, <1>3, <1>5 DEF Shape
    <2> QED BY <1>4, <2>1 DEF AllShaped
  <1>9. OneWord(program)
    <2>1. IsMagic(c) <=> IsMagic(ICmp(compare.pred, 0, compare.w))
      BY <1>1
    <2>2. WordWanted => ForWord(c) /\ ~IsMagic(c)
      BY <1>3, <1>5, <2>1 DEF WordWanted, ForWord
    <2>3. ForWord(c) /\ ~WordWanted /\ compare.side # "none" => Stuck(c)
      BY <1>3, <2>1 DEF WordWanted, ForWord, Stuck, Equalities, Loose
    <2>4. 1 \in 1 .. Len(program)
      BY <1>1
    <2> QED BY <1>4, <2>2, <2>3, <2>4 DEF OneWord
  <1>10. ToDo(program, todo)
    BY <1>6 DEF ToDo
  <1>11. Pending(program, todo)
    <2>1. SizePhase(compare.w) \in 1 .. 4
      BY <1>2, SizePhaseIs
    <2>2. Due(c) = 1 \/ Due(c) > 1
      BY <1>3, <2>1 DEF Due
    <2> QED BY <1>4, <1>6, <2>2 DEF Pending
  <1> QED BY <1>1, <1>7, <1>8, <1>9, <1>10, <1>11 DEF ComparesInv, ProgramOK

\* Comparisons whose phase it is are what the phase collects.
LEMMA DueIsCandidate ==
  ASSUME ComparesTyped, c2u_phase \in 1 .. Len(Phases), NEW c, Shape(c), HasPhase(c), Due(c) = c2u_phase
  PROVE  Candidate(c)
  <1>1. c.op = "icmp" /\ c.w # SignBit /\ ~IsMagic(c) /\ (convert # "NONE" \/ c.pred \in UnsignedPreds)
    BY DEF HasPhase
  <1>2. c.w \in {Unit, 2 * Unit, 4 * Unit, 8 * Unit} /\ c.pred \in Predicates /\ Unit \in Nat \ {0}
    BY <1>1, CompareAssumption DEF Shape
  <1>3. SizePhase(c.w) \in 1 .. 4
    BY <1>2, SizePhaseIs
  <1>4. Phase \in {-1, -2, 8, 4, 2, 1}
    BY PhaseIs
  <1>5. ASSUME c.pred \in UnsignedPreds PROVE Phase > 0 /\ c.w = Phase * Unit
    <2>1. c.pred \notin Loose \cup Signed
      BY <1>5 DEF UnsignedPreds, Equalities, Loose, Signed
    <2>2. Due(c) = IF convert = "NONE" THEN SizePhase(c.w) ELSE 2 + SizePhase(c.w)
      BY <2>1 DEF Due
    <2>3. Phase # -1 /\ Phase # -2
      BY <1>3, <2>2, PhaseIs
    <2>4. Phase > 0
      BY <1>4, <2>3
    <2>5. SizePhase(Phase * Unit) = SizePhase(c.w)
      BY <1>3, <2>2, <2>4, PhaseIs
    <2>6. /\ SizePhase(8 * Unit) = 1 /\ SizePhase(4 * Unit) = 2 /\ SizePhase(2 * Unit) = 3 /\ SizePhase(Unit) = 4
          /\ SizePhase(1 * Unit) = 4 /\ 1 * Unit = Unit
      BY <1>2 DEF SizePhase
    <2> QED BY <1>2, <1>4, <2>4, <2>5, <2>6
  <1>6. CASE c.pred \in UnsignedPreds
    BY <1>1, <1>5, <1>6 DEF Candidate, UnsignedPreds, Equalities
  <1>7. CASE c.pred \in Loose
    <2>1. convert # "NONE" /\ Due(c) = 1
      BY <1>1, <1>7 DEF Due, UnsignedPreds, Equalities, Loose
    <2>2. Phase = -1
      <3>1. Phases = <<-1, -2, 8, 4, 2, 1>>
        BY <2>1 DEF Phases
      <3> QED BY <2>1, <3>1 DEF Phase
    <2> QED BY <1>1, <1>7, <2>2 DEF Candidate
  <1>8. CASE c.pred \in {"sgt", "slt"}
    <2>1. convert # "NONE" /\ Due(c) = 2
      BY <1>1, <1>8 DEF Due, UnsignedPreds, Equalities, Loose, Signed
    <2>2. Phase = -2
      <3>1. Phases = <<-1, -2, 8, 4, 2, 1>>
        BY <2>1 DEF Phases
      <3> QED BY <2>1, <3>1 DEF Phase
    <2> QED BY <1>1, <1>8, <2>2 DEF Candidate
  <1> QED BY <1>2, <1>6, <1>7, <1>8 DEF Predicates, UnsignedPreds, Strict

LEMMA ComparesTransform ==
  ASSUME ComparesInv, Transform
  PROVE  ProgramOK(program', todo') /\ UNCHANGED <<compare, convert, c2u_phase>>
  <1>1. ComparesTyped /\ ProgramOK(program, todo)
    BY DEF ComparesInv
  <1>2. PICK n \in todo \ {0} : todo' = todo \ {n} /\ (Simplify(n) \/ Unsign(n) \/ Half(n))
    BY DEF Transform
  <1>3. n \in todo /\ n # 0
    BY <1>2
  <1>4. CASE Simplify(n)
    BY <1>1, <1>2, <1>3, <1>4, SimplifyFits, PatchKeeps DEF Simplify, Transform
  <1>5. CASE Unsign(n)
    BY <1>1, <1>2, <1>3, <1>5, UnsignFits, PatchKeeps DEF Unsign, Transform
  <1>6. CASE Half(n)
    <2> DEFINE c == program[n]
               stays == (Records(c) /\ convert # "ALL") \/ convert = "NONE" \/ c.w <= Unit
    <2>1. Phase > 0 /\ program' = IF stays THEN RecordedOf(n) ELSE HalfOf(n)
      BY <1>6 DEF Half, RecordedOf, HalfOf
    <2>2. CASE stays
      BY <1>1, <1>2, <1>3, <2>1, <2>2, RecordedKeeps DEF Transform
    <2>3. CASE ~stays
      <3>1. convert # "NONE" /\ ~(Records(c) /\ convert # "ALL") /\ ~(c.w <= Unit)
        BY <2>3
      <3>2. c.w > Unit
        <4>1. c.w \in {SignBit, Unit, 2 * Unit, 4 * Unit, 8 * Unit}
          BY <1>1, <1>3, ToDoIs DEF Shape
        <4> QED BY <3>1, <4>1, CompareAssumption DEF SignBit
      <3>3. program' = HalfOf(n)
        BY <2>1, <2>3
      <3> HIDE DEF stays
      <3>4. IsPatch(program, n, program') /\ Fits(program, n, program') /\ program' \in Seq(NodeRecords)
        BY <1>1, <1>3, <2>1, <3>1, <3>2, <3>3, HalfFits
      <3> QED BY <1>1, <1>2, <1>3, <3>4, PatchKeeps DEF Transform
    <2> QED BY <2>2, <2>3
  <1> QED BY <1>2, <1>4, <1>5, <1>6
\* What is said of a comparison or of a program is said of a pair of operands.
LEMMA SameComparison ==
  ASSUME compare' = compare, convert' = convert, NEW c
  PROVE  /\ IsWhole(c)' <=> IsWhole(c)
         /\ IsMagic(c)' <=> IsMagic(c)
         /\ WordWanted' <=> WordWanted
         /\ ForWord(c)' <=> ForWord(c)
         /\ Shape(c)' <=> Shape(c)
         /\ Stuck(c)' <=> Stuck(c)
         /\ HasPhase(c)' <=> HasPhase(c)
         /\ Due(c)' = Due(c)
         /\ DealtWith(c)' <=> DealtWith(c)
         /\ \A x, y : Says(c, x, y)' <=> Says(c, x, y)
  <1>1. \A b : IsWhole(b)' <=> IsWhole(b)
    BY DEF IsWhole
  <1>2. \A b : IsMagic(b)' <=> IsMagic(b)
    BY <1>1 DEF IsMagic
  <1>3. WordWanted' <=> WordWanted
    <2> DEFINE P == compare.pred
               W == compare.w
    <2>1. compare'.pred = P /\ compare'.w = W
      OBVIOUS
    <2>2. IsMagic(ICmp(P, 0, W))' <=> IsMagic(ICmp(P, 0, W))
      BY DEF IsMagic, IsWhole
    <2> QED BY <2>1, <2>2 DEF WordWanted
  <1>4. ForWord(c)' <=> ForWord(c)
    BY <1>1 DEF ForWord
  <1>5. Shape(c)' <=> Shape(c)
    BY <1>1, <1>3 DEF Shape
  <1>6. Stuck(c)' <=> Stuck(c)
    BY <1>2 DEF Stuck
  <1>7. HasPhase(c)' <=> HasPhase(c)
    BY <1>2 DEF HasPhase
  <1>8. Due(c)' = Due(c)
    BY DEF Due
  <1>9. DealtWith(c)' <=> DealtWith(c)
    BY <1>1 DEF DealtWith
  <1>10. \A x : Field(x, c)' = Field(x, c)
    BY DEF Field
  <1>11. \A x, y : Says(c, x, y)' <=> Says(c, x, y)
    BY <1>10 DEF Says
  <1> QED BY <1>1, <1>2, <1>3, <1>4, <1>5, <1>6, <1>7, <1>8, <1>9, <1>11

LEMMA SameProgram ==
  ASSUME compare' = compare, convert' = convert, NEW P
  PROVE  /\ AllShaped(P) => AllShaped(P)'
         /\ OneWord(P) => OneWord(P)'
         /\ Computes(P) => Computes(P)'
  <1>1. AllShaped(P) => AllShaped(P)'
    BY SameComparison DEF AllShaped
  <1>2. OneWord(P) => OneWord(P)'
    BY SameComparison DEF OneWord
  <1>3. ASSUME NEW V, NEW E, NEW x, NEW y, RunOK(P, V, E, x, y) PROVE RunOK(P, V, E, x, y)'
    <2>1. IsRunOf(V, E, P, x, y)'
      <3>1. IsRunOf(V, E, P, x, y)
        BY <1>3 DEF RunOK
      <3>2. \A k : Says(P[k], x, y)' <=> Says(P[k], x, y)
        BY SameComparison
      <3> QED BY <3>1, <3>2 DEF IsRunOf
    <2>2. \A k : ForWord(P[k])' <=> ForWord(P[k])
      BY SameComparison
    <2> QED BY <1>3, <2>1, <2>2 DEF RunOK
  <1>4. Computes(P) => Computes(P)'
    <2> SUFFICES ASSUME Computes(P) PROVE Computes(P)'
      OBVIOUS
    <2>1. Ranked(P)' <=> Ranked(P)
      BY DEF Ranked, IsRank
    <2>2. ASSUME NEW x \in OperandsOf(compare'.w), NEW y \in OperandsOf(compare'.w) PROVE \E V, E : RunOK(P, V, E, x, y)'
      <3>1. x \in OperandsOf(compare.w) /\ y \in OperandsOf(compare.w)
        BY <2>2
      <3>2. PICK V, E : RunOK(P, V, E, x, y)
        BY <3>1 DEF Computes
      <3> QED BY <1>3, <3>2
    <2> QED BY <2>1, <2>2 DEF Computes
  <1> QED BY <1>1, <1>2, <1>4

LEMMA SamePhase ==
  ASSUME UNCHANGED <<compare, convert, c2u_phase>>, NEW P, NEW T
  PROVE  /\ ProgramOK(P, T) => ProgramOK(P, T)'
         /\ ComparesTyped => ComparesTyped'
  <1>1. compare' = compare /\ convert' = convert /\ c2u_phase' = c2u_phase
    OBVIOUS
  <1>2. Phases' = Phases /\ Phase' = Phase
    BY <1>1 DEF Phases, Phase
  <1>3. ASSUME NEW c PROVE Candidate(c)' <=> Candidate(c)
    BY <1>1, <1>2, SameComparison DEF Candidate
  <1>4. ToDo(P, T) => ToDo(P, T)'
    BY <1>1, <1>2, <1>3 DEF ToDo
  <1>5. Pending(P, T) => Pending(P, T)'
    BY <1>1, SameComparison DEF Pending
  <1>6. ProgramOK(P, T) => ProgramOK(P, T)'
    BY <1>1, <1>4, <1>5, SameProgram DEF ProgramOK
  <1>7. ComparesTyped => ComparesTyped'
    BY <1>1, <1>2 DEF ComparesTyped
  <1> QED BY <1>6, <1>7

LEMMA ComparesStep ==
  ASSUME ComparesInv, [CompareNext]_compareVars
  PROVE  ComparesInv'
  <1>1. ComparesTyped /\ ProgramOK(program, todo)
    BY DEF ComparesInv
  <1>2. ASSUME NEW P, NEW T, P = program', T = todo', ProgramOK(P, T), UNCHANGED <<compare, convert, c2u_phase>>
        PROVE  ComparesInv'
    <2>1. ProgramOK(P, T)' /\ ComparesTyped'
      BY <1>1, <1>2, SamePhase
    <2>2. ProgramOK(program, todo)'
      <3>1. P = program' /\ T = todo'
        BY <1>2
      <3>2. P \in Seq(NodeRecords) /\ AllShaped(P)' /\ OneWord(P)' /\ ToDo(P, T)' /\ Pending(P, T)' /\ Computes(P)'
        BY <2>1 DEF ProgramOK, NodeRecords
      <3>3. AllShaped(program)'
        BY ONLY <3>1, <3>2 DEF AllShaped
      <3>4. OneWord(program)'
        BY ONLY <3>1, <3>2 DEF OneWord
      <3>5. ToDo(program, todo)'
        BY ONLY <3>1, <3>2 DEF ToDo
      <3>6. Pending(program, todo)'
        BY ONLY <3>1, <3>2 DEF Pending
      <3>7. Computes(program)'
        BY ONLY <3>1, <3>2 DEF Computes
      <3>8. program' \in Seq(NodeRecords)
        BY <3>1, <3>2
      <3> QED BY <3>3, <3>4, <3>5, <3>6, <3>7, <3>8 DEF ProgramOK, NodeRecords
    <2> QED BY <2>1, <2>2 DEF ComparesInv
  <1>3. CASE Transform
    BY <1>2, <1>3, ComparesTransform
  <1>4. CASE CollectCompares
    <2> DEFINE T == {n \in 1 .. Len(program) : Candidate(program[n])}
    <2>1. c2u_phase \in 1 .. Len(Phases) /\ todo = {0} /\ todo' = T /\ UNCHANGED <<compare, convert, program, c2u_phase>>
      BY <1>4 DEF CollectCompares
    <2>2. ToDo(program, T)
      BY <2>1 DEF ToDo
    <2>3. Pending(program, T)
      <3> SUFFICES ASSUME NEW k \in 1 .. Len(program), HasPhase(program[k])
                   PROVE  \/ Due(program[k]) > c2u_phase
                          \/ Due(program[k]) = c2u_phase /\ k \in T
                          \/ DealtWith(program[k])
        BY DEF Pending
      <3>1. Shape(program[k])
        BY <1>1 DEF ProgramOK, AllShaped, HasPhase
      <3>2. Due(program[k]) > c2u_phase \/ Due(program[k]) = c2u_phase \/ DealtWith(program[k])
        BY <1>1 DEF ProgramOK, Pending
      <3>3. Due(program[k]) = c2u_phase => Candidate(program[k])
        BY <1>1, <2>1, <3>1, DueIsCandidate
      <3> QED BY <3>2, <3>3
    <2>4. ProgramOK(program, T)
      BY <1>1, <2>2, <2>3 DEF ProgramOK
    <2> QED BY <1>2, <2>1, <2>4
  <1>5. CASE NextPhase
    <2>1. todo = {} /\ c2u_phase' = c2u_phase + 1 /\ todo' = {0} /\ UNCHANGED <<compare, convert, program>>
      BY <1>5 DEF NextPhase
    <2>2. AllShaped(program) /\ OneWord(program) /\ Computes(program) /\ Pending(program, todo) /\ ToDo(program, todo)
          /\ program \in Seq(NodeRecords)
      BY <1>1 DEF ProgramOK
    <2>3. c2u_phase \in 1 .. Len(Phases) /\ Phases' = Phases
      BY <2>1, <2>2 DEF ToDo, Phases
    <2>4. ComparesTyped'
      <3>1. Len(Phases) \in Nat
        BY DEF Phases
      <3> QED BY <1>1, <2>1, <2>3, <3>1 DEF ComparesTyped
    <2> DEFINE P == program
    <2>5. PICK Q : Q = program
      OBVIOUS
    <2>6. AllShaped(Q)' /\ OneWord(Q)' /\ Computes(Q)'
      BY <2>1, <2>2, <2>5, SameProgram
    <2>7. AllShaped(program)' /\ OneWord(program)' /\ Computes(program)'
      <3>1. Q = program'
        BY <2>1, <2>5
      <3>2. AllShaped(program)'
        BY ONLY <2>6, <3>1 DEF AllShaped
      <3>3. OneWord(program)'
        BY ONLY <2>6, <3>1 DEF OneWord
      <3>4. Computes(program)'
        BY ONLY <2>6, <3>1 DEF Computes
      <3> QED BY <3>2, <3>3, <3>4
    <2>8. ToDo(program, todo)'
      BY <2>1 DEF ToDo
    <2>9. Pending(program, todo)'
      <3> SUFFICES ASSUME NEW k \in 1 .. Len(Q), HasPhase(Q[k])'
                   PROVE  Due(Q[k])' > c2u_phase' \/ Due(Q[k])' = c2u_phase' \/ DealtWith(Q[k])'
        BY <2>1, <2>5 DEF Pending
      <3>1. /\ HasPhase(Q[k])
            /\ Due(Q[k])' = Due(Q[k]) /\ (DealtWith(Q[k])' <=> DealtWith(Q[k]))
        BY <2>1, SameComparison
      <3>2. Due(Q[k]) > c2u_phase \/ DealtWith(Q[k])
        BY <2>1, <2>2, <2>5, <3>1 DEF Pending
      <3>3. Due(Q[k]) \in Int
        <4>1. Shape(Q[k])
          BY <2>2, <2>5, <3>1 DEF AllShaped, HasPhase
        <4>2. SizePhase(Q[k].w) \in 1 .. 4
          BY <3>1, <4>1, SizePhaseIs DEF HasPhase, Shape
        <4> QED BY <4>2 DEF Due
      <3> QED BY <2>1, <2>3, <3>1, <3>2, <3>3
    <2> QED BY <2>1, <2>2, <2>4, <2>7, <2>8, <2>9 DEF ComparesInv, ProgramOK
  <1>6. CASE UNCHANGED compareVars
    <2>1. UNCHANGED <<compare, convert, c2u_phase>> /\ program' = program /\ todo' = todo
      BY <1>6 DEF compareVars
    <2> QED BY <1>1, <1>2, <2>1
  <1> QED BY <1>3, <1>4, <1>5, <1>6 DEF CompareNext

LEMMA ComparesInvHolds == CompareSpec => []ComparesInv
  BY ComparesInitially, ComparesStep, PTL DEF CompareSpec

LEMMA InvReplaces ==
  ASSUME ComparesInv
  PROVE  ComparesReplaced
  <1>1. /\ ComparesTyped /\ AllShaped(program) /\ OneWord(program) /\ ToDo(program, todo) /\ Pending(program, todo)
        /\ Computes(program) /\ Ranked(program)
    BY DEF ComparesInv, ProgramOK, Computes
  <1>2. ASSUME NEW p \in Operands PROVE p[1] \in OperandsOf(compare.w) /\ p[2] \in OperandsOf(compare.w)
    <2>1. compare.w \in CompareWidths /\ compare.const \in OperandsOf(compare.w)
      BY <1>1, ConstantsAssumption DEF ComparesTyped, OperandsOf
    <2> QED BY <2>1 DEF Operands, OperandsOf
  <1>3. SameResult
    <2> SUFFICES ASSUME NEW p \in Operands
                 PROVE  Outcome(p[1], p[2]).value = Yes <=> Holds(compare.pred, p[1], p[2], compare.w)
      BY DEF SameResult
    <2>1. PICK V, E : RunOK(program, V, E, p[1], p[2])
      BY <1>1, <1>2 DEF Computes
    <2>2. IsRunOf(V, E, program, p[1], p[2]) /\ (1 \in V <=> Holds(compare.pred, p[1], p[2], compare.w))
      BY <2>1 DEF RunOK
    <2>3. Outcome(p[1], p[2]).value = Yes <=> 1 \in V
      BY <1>1, <2>2, OutcomeIs
    <2> QED BY <2>2, <2>3
  <1>4. ASSUME C2UDone, NEW k \in 1 .. Len(program), HasPhase(program[k]) PROVE DealtWith(program[k])
    <2> DEFINE c == program[k]
    <2>1. Shape(c)
      BY <1>1, <1>4 DEF AllShaped, HasPhase
    <2>2. SizePhase(c.w) \in 1 .. 4
      BY <1>4, <2>1, SizePhaseIs DEF HasPhase, Shape
    <2>3. Due(c) \in Int /\ Due(c) <= Len(Phases) /\ Len(Phases) \in Nat
      BY <2>2 DEF Due, Phases
    <2>4. c2u_phase \in Int /\ c2u_phase > Len(Phases)
      BY <1>1, <1>4, <2>3 DEF ComparesTyped, C2UDone
    <2>5. Due(c) > c2u_phase \/ Due(c) = c2u_phase \/ DealtWith(c)
      BY <1>1, <1>4 DEF Pending
    <2> HIDE DEF c
    <2>6. DealtWith(c)
      BY <2>3, <2>4, <2>5
    <2> QED BY <2>6 DEF c
  <1> DEFINE words == {n \in 1 .. Len(program) : program[n].op = "icmp" /\ program[n].dict}
  <1>5. \A n \in words : n \in 1 .. Len(program) /\ ForWord(program[n]) /\ Shape(program[n]) /\ program[n].dict /\ program[n].op = "icmp"
    BY <1>1 DEF ForWord, AllShaped
  <1>6. ASSUME C2UDone PROVE Cardinality(words) = IF WordWanted THEN 1 ELSE 0
    <2>1. CASE WordWanted
      <3>1. PICK n \in 1 .. Len(program) : ForWord(program[n])
        BY <1>1, <2>1 DEF OneWord
      <3> DEFINE c == program[n]
      <3>2. c.op = "icmp" /\ Shape(c) /\ (c.dict \/ ~IsMagic(c))
        BY <1>1, <2>1, <3>1 DEF OneWord, AllShaped, ForWord
      <3>3. c.dict
        <4> SUFFICES ASSUME ~c.dict PROVE FALSE
          OBVIOUS
        <4>1. IsWhole(c) /\ c.pred \in Equalities \cup Loose /\ ~IsMagic(c) /\ compare.side # "none"
          BY <2>1, <3>1, <3>2 DEF ForWord, WordWanted
        <4>2. c.w # SignBit
          <5>1. compare.w # 0
            BY <1>1, WidthIs DEF ComparesTyped
          <5> QED BY <4>1, <5>1 DEF IsWhole, SignBit
        <4>3. convert # "NONE" \/ c.pred \in UnsignedPreds
          <5>1. c.pred \in Loose => compare.pred \in Loose
            BY <3>2 DEF Shape
          <5>2. compare.pred \in Loose => compare.pred \notin Equalities
            BY DEF Loose, Equalities
          <5> QED BY <2>1, <4>1, <5>1, <5>2 DEF WordWanted, UnsignedPreds
        <4>4. HasPhase(c)
          BY <3>2, <4>1, <4>2, <4>3 DEF HasPhase
        <4>5. DealtWith(c)
          BY <1>4, <1>6, <4>4
        <4>6. c.pred \in Equalities
          BY <4>1, <4>5 DEF DealtWith, UnsignedPreds, Equalities, Loose
        <4> QED BY <4>1, <4>5, <4>6 DEF DealtWith
      <3>4. words = {n}
        <4>1. n \in words
          BY <3>2, <3>3
        <4>2. \A k \in words : k = n
          BY <1>1, <1>5, <3>1 DEF OneWord
        <4> HIDE DEF words
        <4> QED BY <4>1, <4>2
      <3>5. Cardinality({n}) = 1
        BY FS_Singleton
      <3> QED BY <2>1, <3>4, <3>5
    <2>2. CASE ~WordWanted
      <3>1. words = {}
        BY <1>5, <2>2 DEF Shape
      <3> QED BY <2>2, <3>1, FS_EmptySet
    <2> QED BY <2>1, <2>2
  <1>7. ASSUME NEW p \in Operands, p[1] = p[2] PROVE words \subseteq Outcome(p[1], p[2]).executed
    <2>1. PICK V, E : RunOK(program, V, E, p[1], p[2])
      BY <1>1, <1>2 DEF Computes
    <2>2. IsRunOf(V, E, program, p[1], p[2]) /\ \A n \in 1 .. Len(program) : ForWord(program[n]) => n \in E[1]
      BY <1>7, <2>1 DEF RunOK
    <2>3. Outcome(p[1], p[2]).executed = E[1]
      BY <1>1, <2>2, OutcomeIs
    <2> QED BY <1>5, <2>2, <2>3
  <1>8. convert # "ALL" => \A n \in words : IsWhole(program[n])
    BY <1>5 DEF Shape
  <1>9. WordAtTheTop
    BY <1>6, <1>7, <1>8 DEF WordAtTheTop
  <1>10. OnlyBytesCompared
    <2> SUFFICES ASSUME C2UDone, convert = "ALL", NEW n \in 1 .. Len(program), program[n].op = "icmp",
                        program[n].w # SignBit, ~IsMagic(program[n])
                 PROVE  program[n].w = Unit
      BY DEF OnlyBytesCompared
    <2>1. HasPhase(program[n])
      BY DEF HasPhase
    <2> QED BY <1>4, <2>1 DEF DealtWith
  <1> QED BY <1>3, <1>9, <1>10 DEF ComparesReplaced

\* Whatever the widths and the constants: after every step of the pass the
\* program says of any two operands what the comparison of the source said, and
\* when it is done the word is there once, at a comparison that is executed
\* whenever the operands are equal, and with ALL only bytes are compared
\* (simplifyCompares(), simplifySignedness(), halfComparesAndRecord()).
THEOREM ComparesAreReplaced == CompareSpec => []ComparesReplaced
  BY ComparesInvHolds, InvReplaces, PTL
=============================================================================
