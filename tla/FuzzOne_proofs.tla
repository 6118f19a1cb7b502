------------------------------ MODULE FuzzOne_proofs ------------------------------
(***************************************************************************)
(* Trimming: whatever blocks go and stay, the entry in memory and the file *)
(* it ends up in are test cases that were run and had the checksum of the  *)
(* entry.  Havoc and splicing for any test cases, queue, score and limits: *)
(* the buffers hold what is put in them, the time an entry gets is         *)
(* limited, the shortcuts of the queue lead to entries, and what is        *)
(* spliced is the entry at hand and one other.  The dictionaries for any   *)
(* tokens, limits and number of sessions, and for any entry the tokens     *)
(* that are collected from it and tried on it.  The deterministic stages   *)
(* for any entry, effector map and interesting values: what a stage leaves *)
(* out has been run.                                                       *)
(***************************************************************************)
EXTENDS Trim, Havoc, TokenStages, DetStages, Arithmetic_proofs, SequenceTheorems, FiniteSetTheorems, TLAPS

-----------------------------------------------------------------------------
(* Trimming. *)

\* A place to leave a block out from is never the first byte, so that something
\* is left of every case.
TrimInv ==
  /\ in_buf \in Seq(Byte)
  /\ q_len \in 1 .. Len(in_buf)
  /\ \E t \in TrimInputs : q_len \in 1 .. Len(t)
  /\ trim_step \in {"start", "pass", "run", "unlink", "write", "done", "aborted"}
  /\ trim_step \in {"pass", "run"} => remove_len \in Nat /\ len_p2 \in Nat
  /\ trim_step = "run" => remove_len >= 1 /\ remove_pos \in Nat /\ remove_pos >= 1
  /\ Current \in same
  /\ trim_step # "write" => disk \in same
  /\ ~needs_write => disk = Current
  /\ trim_step = "start" => ~needs_write
  /\ trim_step \in {"unlink", "write"} => needs_write
  /\ trim_step = "done" => disk = Current
  /\ needs_write \in BOOLEAN

\* Every length that occurs has a next power of two.
LEMMA NextP2IsPower ==
  ASSUME NEW t \in TrimInputs, NEW n \in 1 .. Len(t)
  PROVE  NextP2(n) \in Nat
<1>1. \E p \in PowersOfTwo : p >= n /\ (p = 1 \/ p \div 2 < n)
  BY TrimInputsAssumption
<1>2. NextP2(n) \in PowersOfTwo
  BY <1>1, Zenon DEF NextP2
<1> QED BY <1>2, TrimAssumption

\* What is left is the head and the tail around the gap.
LEMMA GapShape ==
  ASSUME NEW b \in Seq(Byte), NEW n \in 1 .. Len(b), NEW p \in Nat, NEW a \in Nat, p + a <= n
  PROVE  LET rest == SubSeq(b, 1, p) \o SubSeq(b, p + a + 1, n)
         IN /\ rest \in Seq(Byte) /\ Len(rest) = n - a
            /\ \A k \in 1 .. n - a : rest[k] = IF k <= p THEN b[k] ELSE b[k + a]
<1> DEFINE front == SubSeq(b, 1, p)
           back == SubSeq(b, p + a + 1, n)
<1>1. Len(b) \in Nat /\ \A k \in 1 .. Len(b) : b[k] \in Byte
  BY ElementOfSeq, LenProperties
<1>2. front \in Seq(Byte) /\ Len(front) = p /\ \A k \in 1 .. p : front[k] = b[k]
  <2>1. \A k \in 1 .. p : b[k] \in Byte
    BY <1>1
  <2> QED BY <2>1, SubSeqProperties
<1>3. back \in Seq(Byte) /\ Len(back) = n - p - a
      /\ \A k \in 1 .. n - p - a : back[k] = b[k + p + a]
  <2>1. \A k \in p + a + 1 .. n : b[k] \in Byte
    BY <1>1
  <2>2. /\ back \in Seq(Byte)
        /\ Len(back) = IF p + a + 1 <= n THEN n - (p + a + 1) + 1 ELSE 0
        /\ \A k \in 1 .. n - (p + a + 1) + 1 : back[k] = b[p + a + 1 + k - 1]
    BY <2>1, <1>1, SubSeqProperties
  <2>3. Len(back) = n - p - a
    BY <2>2, <1>1
  <2>4. ASSUME NEW k \in 1 .. n - p - a PROVE back[k] = b[k + p + a]
    <3>1. k \in 1 .. n - (p + a + 1) + 1 /\ p + a + 1 + k - 1 = k + p + a
      BY <1>1
    <3> QED BY <2>2, <3>1
  <2> QED BY <2>2, <2>3, <2>4
<1> HIDE DEF front, back
<1>4. /\ front \o back \in Seq(Byte)
      /\ Len(front \o back) = Len(front) + Len(back)
      /\ \A k \in 1 .. Len(front) + Len(back) :
           (front \o back)[k] = IF k <= Len(front) THEN front[k] ELSE back[k - Len(front)]
  <2>1. front \in Seq(Byte) /\ back \in Seq(Byte)
    BY <1>2, <1>3
  <2> QED BY <2>1, ConcatProperties
<1>5. Len(front) + Len(back) = n - a
  BY <1>1, <1>2, <1>3
<1>6. ASSUME NEW k \in 1 .. n - a
      PROVE  (front \o back)[k] = IF k <= p THEN b[k] ELSE b[k + a]
  <2>1. CASE k <= p
    BY <1>2, <1>4, <1>5, <2>1
  <2>2. CASE ~(k <= p)
    <3>1. k - p \in 1 .. n - p - a /\ k - p + p + a = k + a
      BY <1>1, <2>2
    <3>2. back[k - p] = b[k - p + p + a]
      BY <1>3, <3>1
    <3> QED BY <1>2, <1>4, <1>5, <2>2, <3>1, <3>2
  <2> QED BY <2>1, <2>2
<1> QED BY <1>4, <1>5, <1>6 DEF front, back

\* memmove() leaves the case without the block in the buffer.
LEMMA MovedIsWithGap ==
  ASSUME TrimInv, trim_step = "run", remove_pos < q_len, in_buf' = Moved, q_len' = Shrunk
  PROVE  /\ in_buf' \in Seq(Byte) /\ q_len' \in 1 .. Len(in_buf') /\ q_len' <= q_len
         /\ Current' = WithGap
<1>1. Len(in_buf) \in Nat /\ q_len \in 1 .. Len(in_buf) /\ in_buf \in Seq(Byte)
      /\ \A k \in 1 .. Len(in_buf) : in_buf[k] \in Byte
  BY LenProperties, ElementOfSeq DEF TrimInv
<1>2. remove_len \in Nat /\ remove_len >= 1 /\ remove_pos \in Nat /\ remove_pos >= 1
  BY DEF TrimInv
<1>3. TrimAvail \in Nat /\ TrimAvail >= 1 /\ remove_pos + TrimAvail <= q_len
  BY <1>1, <1>2 DEF TrimAvail
<1>4. q_len' = q_len - TrimAvail /\ q_len' \in 1 .. Len(in_buf) /\ q_len' <= q_len
  BY <1>1, <1>2, <1>3 DEF Shrunk
<1>5. /\ WithGap \in Seq(Byte) /\ Len(WithGap) = q_len'
      /\ \A k \in 1 .. q_len' :
           WithGap[k] = IF k <= remove_pos THEN in_buf[k] ELSE in_buf[k + TrimAvail]
  BY <1>1, <1>2, <1>3, <1>4, GapShape DEF WithGap
<1>6. /\ \A k \in 1 .. Len(in_buf) : k <= q_len' => in_buf'[k] = WithGap[k]
      /\ \A k \in 1 .. Len(in_buf) : in_buf'[k] \in Byte
      /\ in_buf' \in [1 .. Len(in_buf) -> Byte]
  <2>1. in_buf' = [k \in 1 .. Len(in_buf) |-> IF k <= q_len' THEN WithGap[k] ELSE in_buf[k]]
    BY <1>5 DEF Moved
  <2>2. \A k \in 1 .. q_len' : WithGap[k] \in Byte
    BY <1>5, <1>4, ElementOfSeq
  <2> QED BY <1>1, <1>4, <2>1, <2>2
<1>7. in_buf' \in Seq(Byte) /\ Len(in_buf') = Len(in_buf)
  BY <1>1, <1>6
<1>8. /\ Current' \in Seq(Byte) /\ Len(Current') = q_len'
      /\ \A k \in 1 .. q_len' : Current'[k] = in_buf'[k]
  <2> DEFINE b == in_buf'
             n == q_len'
  <2>1. n \in Int /\ n >= 1 /\ \A k \in 1 .. n : b[k] \in Byte
    BY <1>1, <1>4, <1>6
  <2> HIDE DEF b, n
  <2>2. /\ SubSeq(b, 1, n) \in Seq(Byte) /\ Len(SubSeq(b, 1, n)) = n
        /\ \A k \in 1 .. n : SubSeq(b, 1, n)[k] = b[k]
    BY <2>1, SubSeqProperties
  <2>3. Current' = SubSeq(b, 1, n)
    BY DEF Current, b, n
  <2> QED BY <2>2, <2>3 DEF b, n
<1>9. \A k \in 1 .. Len(Current') : Current'[k] = WithGap[k]
  BY <1>1, <1>4, <1>6, <1>8
<1>10. Current' = WithGap
  BY <1>5, <1>8, <1>9, SeqEqual
<1> QED BY <1>4, <1>7, <1>10

LEMMA TrimInitInv == TrimInit => TrimInv
<1> SUFFICES ASSUME NEW input \in TrimInputs, TrimStartState(input) PROVE TrimInv
  BY DEF TrimInit
<1>1. input \in Seq(Byte) /\ Len(input) \in Nat /\ Len(input) >= 1
  BY TrimInputsAssumption, EmptySeq, LenProperties
<1>2. Current = input
  BY <1>1, SubSeqFull DEF Current, TrimStartState
<1>3. q_len \in 1 .. Len(input) /\ in_buf = input /\ same = {input} /\ disk = input
      /\ trim_step = "start" /\ needs_write = FALSE
  BY <1>1 DEF TrimStartState
<1> QED BY <1>1, <1>2, <1>3 DEF TrimInv

\* A step that leaves the buffer alone leaves the case at hand alone.
LEMMA SameCurrent ==
  ASSUME UNCHANGED <<in_buf, q_len>>
  PROVE  Current' = Current /\ Written = Current
BY DEF Current, Written

LEMMA TrimNextInv == TrimInv /\ [TrimNext]_trimVars => TrimInv'
<1> SUFFICES ASSUME TrimInv, [TrimNext]_trimVars PROVE TrimInv'
  OBVIOUS
<1> USE TrimAssumption
<1>1. CASE StartTrim
  <2>1. Current' = Current
    BY <1>1, SameCurrent DEF StartTrim
  <2>2. \E t \in TrimInputs : q_len \in 1 .. Len(t)
    BY DEF TrimInv
  <2>3. NextP2(q_len) \in Nat
    BY <2>2, NextP2IsPower
  <2>4. trim_step' = "pass" => len_p2' \in Nat /\ remove_len' \in Nat
    <3>1. \A x \in Nat : x \div TrimStart \in Nat
      OBVIOUS
    <3> QED BY <1>1, <2>3, <3>1 DEF StartTrim, Larger
  <2> QED BY <1>1, <2>1, <2>4 DEF StartTrim, TrimInv
<1>2. CASE Pass
  <2>1. Current' = Current
    BY <1>2, SameCurrent DEF Pass
  <2>2. GoesOn => remove_len >= 1
    <3>1. len_p2 \div TrimEnd \in Nat /\ remove_len \in Nat
      BY <1>2 DEF Pass, TrimInv
    <3> QED BY <3>1 DEF GoesOn, Least, Larger
  <2> QED BY <1>2, <2>1, <2>2 DEF Pass, TrimInv
<1>3. CASE TryGap
  <2>1. trim_step = "run" /\ trim_step' = "run" /\ remove_pos < q_len /\ disk' = disk
        /\ remove_len' = remove_len
    BY <1>3 DEF TryGap
  <2>2. remove_pos' \in {remove_pos, remove_pos + remove_len}
    BY <1>3 DEF TryGap
  <2>3. CASE UNCHANGED <<in_buf, q_len, len_p2, needs_write, same>>
    <3>1. Current' = Current
      BY <2>3, SameCurrent
    <3> QED BY <2>1, <2>2, <2>3, <3>1 DEF TrimInv
  <2>4. CASE /\ in_buf' = Moved /\ q_len' = Shrunk /\ len_p2' = NextP2(q_len')
             /\ needs_write' = TRUE /\ same' = same \cup {WithGap}
    <3>1. /\ in_buf' \in Seq(Byte) /\ q_len' \in 1 .. Len(in_buf') /\ q_len' <= q_len
          /\ Current' = WithGap
      BY <2>1, <2>4, MovedIsWithGap
    <3>2. \E t \in TrimInputs : q_len' \in 1 .. Len(t)
      <4>1. PICK t \in TrimInputs : q_len \in 1 .. Len(t)
        BY DEF TrimInv
      <4>2. Len(in_buf') \in Nat /\ Len(t) \in Nat
        BY <3>1, LenProperties, TrimInputsAssumption
      <4>3. q_len' \in 1 .. Len(t)
        BY <3>1, <4>1, <4>2
      <4> QED BY <4>3
    <3>3. NextP2(q_len') \in Nat
      BY <3>2, NextP2IsPower
    <3> QED BY <2>1, <2>2, <2>4, <3>1, <3>2, <3>3 DEF TrimInv
  <2> QED BY <1>3, <2>3, <2>4 DEF TryGap
<1>4. CASE Halve
  <2>1. Current' = Current
    BY <1>4, SameCurrent DEF Halve
  <2>2. remove_len' \in Nat
    BY <1>4 DEF Halve, Halved, TrimInv
  <2> QED BY <1>4, <2>1, <2>2 DEF Halve, TrimInv
<1>5. CASE AbortTrim
  BY <1>5, SameCurrent DEF AbortTrim, TrimInv
<1>6. CASE Unlink
  BY <1>6, SameCurrent DEF Unlink, TrimInv
<1>7. CASE WriteTrimmed
  <2>1. Current' = Current /\ disk' = Current
    BY <1>7, SameCurrent DEF WriteTrimmed
  <2>2. trim_step = "write" /\ trim_step' = "done"
        /\ UNCHANGED <<in_buf, q_len, len_p2, remove_len, remove_pos, needs_write, same>>
    BY <1>7 DEF WriteTrimmed
  <2> QED BY <2>1, <2>2 DEF TrimInv
<1>8. CASE UNCHANGED trimVars
  BY <1>8, SameCurrent DEF trimVars, TrimInv
<1> QED
  BY <1>1, <1>2, <1>3, <1>4, <1>5, <1>6, <1>7, <1>8 DEF TrimNext

\* The entry in memory is at any time one that was run with the entry's
\* checksum, its file is missing between unlink() and the write alone, and the
\* two are one when trimming is over, for test cases of any length.
THEOREM TrimmingKeepsTheTrace == TrimSpec => []TrimmedIsKnown
<1>1. TrimInv => TrimmedIsKnown
  BY DEF TrimInv, TrimmedIsKnown
<1> QED BY <1>1, TrimInitInv, TrimNextInv, PTL DEF TrimSpec


Entries ==
  [data : Contents, exec_us : Times, bitmap_size : Sizes, handicap : Nat, depth : Depths]

-----------------------------------------------------------------------------
(* The queue and its shortcuts. *)

\* Where the h-th shortcut leads.
Mark(h) == IF h = 0 THEN 1 ELSE h * Stride

Queue ==
  /\ queue \in Seq(Entries) /\ Len(queue) >= 1 /\ Len(queue) <= MaxPaths
  /\ current_entry \in 1 .. Len(queue)

Shortcuts ==
  /\ next_100 \in [1 .. MaxPaths -> Nat]
  /\ q_prev100 = Mark(Len(queue) \div Stride)
  /\ \A h \in 1 .. Len(queue) \div Stride : next_100[Mark(h - 1)] = Mark(h)

\* The quotient goes up by one when a multiple is reached.
LEMMA Successor ==
  ASSUME NEW n \in Nat
  PROVE  IF (n + 1) % Stride = 0
           THEN (n + 1) \div Stride = (n \div Stride) + 1 /\ n + 1 = Mark((n \div Stride) + 1)
           ELSE (n + 1) \div Stride = n \div Stride
<1> DEFINE d == n \div Stride
           r == n % Stride
<1>1. d \in Nat /\ r \in 0 .. Stride - 1 /\ n = d * Stride + r
  BY Division, StrideAssumption
<1>2. d * Stride \in Nat /\ (d + 1) * Stride = d * Stride + Stride
  BY <1>1, StrideAssumption
<1> HIDE DEF d, r
<1>3. CASE r = Stride - 1
  <2>1. n + 1 = (d + 1) * Stride + 0
    BY <1>1, <1>2, <1>3, StrideAssumption
  <2>2. (n + 1) \div Stride = d + 1 /\ (n + 1) % Stride = 0
    <3>1. n + 1 \in Nat /\ d + 1 \in Nat /\ 0 \in 0 .. Stride - 1
      BY <1>1, StrideAssumption
    <3> QED BY <2>1, <3>1, Quotient, StrideAssumption
  <2>3. n + 1 = Mark(d + 1)
    BY <1>1, <1>2, <2>1, StrideAssumption DEF Mark
  <2> QED BY <2>2, <2>3 DEF d
<1>4. CASE r # Stride - 1
  <2>1. n + 1 = d * Stride + (r + 1) /\ r + 1 \in 0 .. Stride - 1 /\ r + 1 # 0
    BY <1>1, <1>2, <1>4, StrideAssumption
  <2>2. (n + 1) \div Stride = d /\ (n + 1) % Stride = r + 1
    BY <1>1, <2>1, Quotient, StrideAssumption
  <2> QED BY <2>1, <2>2 DEF d
<1> QED BY <1>3, <1>4

\* The places of the shortcuts are apart, and in the queue.
LEMMA MarksApart ==
  ASSUME NEW a \in Nat, NEW b \in Nat, a < b
  PROVE  Mark(a) \in Nat /\ Mark(b) \in Nat /\ 1 <= Mark(a) /\ Mark(a) < Mark(b)
<1>1. a * Stride \in Nat /\ b * Stride \in Nat /\ a * Stride + Stride <= b * Stride
  BY Product, StrideAssumption
<1>2. a # 0 => 0 * Stride + Stride <= a * Stride
  BY Product, StrideAssumption
<1>3. 0 * Stride = 0
  BY StrideAssumption
<1> QED BY <1>1, <1>2, <1>3, StrideAssumption DEF Mark

LEMMA MarkInQueue ==
  ASSUME NEW n \in Nat, n >= 1, NEW h \in 0 .. n \div Stride
  PROVE  Mark(h) \in 1 .. n
<1> DEFINE d == n \div Stride
<1>1. d \in Nat /\ d * Stride \in Nat /\ n >= d * Stride
  <2>1. d \in Nat /\ n % Stride \in 0 .. Stride - 1 /\ n = d * Stride + (n % Stride)
    BY Division, StrideAssumption
  <2>2. d * Stride \in Nat
    BY <2>1, StrideAssumption
  <2> QED BY <2>1, <2>2, StrideAssumption
<1>2. h \in Nat /\ h <= d
  BY <1>1
<1> HIDE DEF d
<1>3. Mark(d) <= n /\ Mark(d) \in Nat /\ 1 <= Mark(d)
  <2>1. d # 0 => 0 * Stride + Stride <= d * Stride
    BY <1>1, Product, StrideAssumption
  <2>2. 0 * Stride = 0
    BY StrideAssumption
  <2> QED BY <1>1, <2>1, <2>2, StrideAssumption DEF Mark
<1>4. h < d => Mark(h) \in Nat /\ 1 <= Mark(h) /\ Mark(h) < Mark(d)
  BY <1>1, <1>2, MarksApart
<1> QED BY <1>1, <1>2, <1>3, <1>4

LEMMA AddKeepsShortcuts ==
  ASSUME Queue, Shortcuts, NEW e \in Entries, AddToQueue(e), Len(queue) < MaxPaths
  PROVE  /\ queue' \in Seq(Entries) /\ Len(queue') = Len(queue) + 1
         /\ \A k \in 1 .. Len(queue) : queue'[k] = queue[k]
         /\ Shortcuts'
<1> DEFINE n == Len(queue)
           d == n \div Stride
<1>1. /\ queue' \in Seq(Entries) /\ Len(queue') = n + 1
      /\ \A k \in 1 .. n : queue'[k] = queue[k]
  BY AppendProperties DEF Queue, AddToQueue
<1>2. n \in Nat /\ n >= 1 /\ n < MaxPaths /\ d \in Nat
  <2>1. n \in Nat /\ n >= 1 /\ n < MaxPaths
    BY LenProperties DEF Queue
  <2>2. Stride \in Nat \ {0}
    BY StrideAssumption
  <2> HIDE DEF n
  <2>3. n \div Stride \in Nat
    BY <2>1, <2>2, Division
  <2> QED BY <2>1, <2>3
<1>3. CASE (n + 1) % Stride = 0
  <2>1. (n + 1) \div Stride = d + 1 /\ n + 1 = Mark(d + 1)
    BY <1>2, <1>3, Successor
  <2>2. Mark(d) \in 1 .. n
    BY <1>2, MarkInQueue
  <2>3. next_100' = [next_100 EXCEPT ![Mark(d)] = n + 1] /\ q_prev100' = n + 1
    BY <1>3 DEF AddToQueue, Shortcuts
  <2>4. next_100' \in [1 .. MaxPaths -> Nat]
    BY <1>2, <2>2, <2>3, StrideAssumption DEF Shortcuts
  <2>5. ASSUME NEW h \in 1 .. d + 1 PROVE next_100'[Mark(h - 1)] = Mark(h)
    <3>1. CASE h = d + 1
      BY <1>2, <2>1, <2>2, <2>3, <3>1, StrideAssumption DEF Shortcuts
    <3>2. CASE h # d + 1
      <4>1. h \in 1 .. d /\ h - 1 \in Nat /\ h - 1 < d
        BY <1>2, <3>2
      <4>2. Mark(h - 1) # Mark(d)
        BY <1>2, <4>1, MarksApart
      <4>3. next_100'[Mark(h - 1)] = next_100[Mark(h - 1)]
        BY <2>3, <4>2 DEF Shortcuts
      <4> QED BY <4>1, <4>3 DEF Shortcuts
    <3> QED BY <3>1, <3>2
  <2> QED BY <1>1, <2>1, <2>3, <2>4, <2>5 DEF Shortcuts
<1>4. CASE (n + 1) % Stride # 0
  <2>1. (n + 1) \div Stride = d
    BY <1>2, <1>4, Successor
  <2>2. UNCHANGED <<next_100, q_prev100>>
    BY <1>4 DEF AddToQueue
  <2> QED BY <1>1, <2>1, <2>2 DEF Shortcuts
<1> QED BY <1>1, <1>3, <1>4

\* From the first entry, over the shortcuts, to the entry sought.
LEMMA ShortcutsLead ==
  ASSUME Queue, Shortcuts, NEW tid \in 0 .. Len(queue) - 1
  PROVE  Sought(tid) # {}
<1> DEFINE n == Len(queue)
           h == tid \div Stride
           way == [k \in 0 .. h |-> Mark(k)]
<1>1. n \in Nat /\ n >= 1 /\ tid \in Nat /\ h \in Nat /\ n \div Stride \in Nat
  <2>1. n \in Nat /\ n >= 1
    BY LenProperties DEF Queue
  <2>2. tid \in Nat
    BY <2>1
  <2>3. Stride \in Nat \ {0}
    BY StrideAssumption
  <2>4. n \div Stride \in Nat
    <3> HIDE DEF n
    <3> QED BY <2>1, <2>3, Division
  <2>5. h \in Nat
    BY <2>2, <2>3, Division
  <2> QED BY <2>1, <2>2, <2>4, <2>5
<1>2. h <= n \div Stride
  <2> SUFFICES ASSUME n \div Stride < h PROVE FALSE
    BY <1>1
  <2>1. /\ tid = h * Stride + (tid % Stride) /\ tid % Stride \in 0 .. Stride - 1
        /\ n = (n \div Stride) * Stride + (n % Stride) /\ n % Stride \in 0 .. Stride - 1
    <3> HIDE DEF n, h
    <3>1. Stride \in Nat \ {0}
      BY StrideAssumption
    <3>2. /\ tid = (tid \div Stride) * Stride + (tid % Stride) /\ tid % Stride \in 0 .. Stride - 1
          /\ n = (n \div Stride) * Stride + (n % Stride) /\ n % Stride \in 0 .. Stride - 1
      BY <1>1, <3>1, Division
    <3> QED BY <3>2 DEF h
  <2> DEFINE m == n \div Stride
  <2>2. m * Stride \in Nat /\ h * Stride \in Nat /\ m * Stride + Stride <= h * Stride
    BY <1>1, Product, StrideAssumption
  <2> HIDE DEF m, h
  <2> QED BY <1>1, <2>1, <2>2, StrideAssumption DEF m
<1>3. \A k \in 0 .. h : Mark(k) \in 1 .. n
  <2>1. \A k \in 0 .. h : k \in 0 .. n \div Stride
    BY <1>1, <1>2
  <2> QED BY <1>1, <2>1, MarkInQueue
<1>4. way \in [0 .. h -> 1 .. n]
  BY <1>3
<1>5. way[0] = 1 /\ \A k \in 1 .. h : way[k] = next_100[way[k - 1]]
  <2>1. way[0] = 1
    BY <1>1 DEF Mark
  <2>2. ASSUME NEW k \in 1 .. h PROVE way[k] = next_100[way[k - 1]]
    <3>1. k \in 1 .. n \div Stride /\ k - 1 \in 0 .. h /\ k \in 0 .. h
      BY <1>1, <1>2
    <3> QED BY <3>1 DEF Shortcuts
  <2> QED BY <2>1, <2>2
<1>6. way \in Hops(h)
  BY <1>4, <1>5 DEF Hops
<1> QED BY <1>6 DEF Sought
-----------------------------------------------------------------------------
(* Lengths and scores. *)

LEMMA BlockLensBounded ==
  ASSUME NEW limit \in Nat, NEW n \in BlockLens(limit)
  PROVE  n \in 1 .. limit
BY BlocksAssumption DEF BlockLens, AtMost

LEMMA ScoreBounded ==
  ASSUME NEW q \in Entries
  PROVE  Score(q) \in Nat /\ Score(q) <= HavocMaxMult * 100
<1>1. q.exec_us \in Nat /\ q.bitmap_size \in Nat /\ q.handicap \in Nat /\ q.depth \in Nat
  BY EnergyAssumption DEF Entries
<1>2. ByTime(q.exec_us) \in Nat
  BY DEF ByTime
<1>3. \A p, s \in Nat : ByMapSize(p, s) \in Nat
  <2>1. \A p \in Nat : p \div 4 \in Nat /\ p \div 2 \in Nat /\ (3 * p) \div 4 \in Nat /\ (3 * p) \div 2 \in Nat
    OBVIOUS
  <2> QED BY <2>1 DEF ByMapSize
<1>4. \A p, h \in Nat : ByHandicap(p, h) \in Nat
  BY DEF ByHandicap
<1>5. \A p, d \in Nat : ByDepth(p, d) \in Nat
  <2> SUFFICES ASSUME NEW p \in Nat, NEW d \in Nat PROVE ByDepth(p, d) \in Nat
    OBVIOUS
  <2> DEFINE times == CASE d \in 0 .. 3 -> 1 [] d \in 4 .. 7 -> 2 [] d \in 8 .. 13 -> 3 [] d \in 14 .. 25 -> 4 [] OTHER -> 5
  <2>1. times \in {1, 2, 3, 4, 5}
    OBVIOUS
  <2> HIDE DEF times
  <2>2. p * times \in Nat
    BY <2>1
  <2> QED BY <2>2 DEF ByDepth, times
<1> DEFINE whole == ByDepth(ByHandicap(ByMapSize(ByTime(q.exec_us), q.bitmap_size), q.handicap), q.depth)
<1>6. whole \in Nat
  BY <1>1, <1>2, <1>3, <1>4, <1>5
<1>7. Score(q) = AtMost(whole, HavocMaxMult * 100)
  BY DEF Score
<1> HIDE DEF whole
<1> QED BY <1>6, <1>7, EnergyAssumption DEF AtMost

LEMMA StageMaxNat ==
  ASSUME NEW score \in Nat
  PROVE  StageMax(score) \in Nat
<1>1. Programme \in Nat
  BY EnergyAssumption DEF Programme
<1>2. Programme * score \in Nat
  BY <1>1
<1>3. (Programme * score) \div HavocDiv \in Nat
  BY <1>2, EnergyAssumption
<1>4. ((Programme * score) \div HavocDiv) \div 100 \in Nat
  BY <1>3
<1> QED BY <1>4, EnergyAssumption DEF StageMax, AtLeast
-----------------------------------------------------------------------------
(* The invariant. *)

Running == havoc_step \in {"stage", "choose", "tweak"}

Buffers ==
  /\ havoc_step \in {"idle", "stage", "choose", "tweak", "splice"}
  /\ temp_len \in Nat /\ room \in Nat
  /\ havoc_step # "idle" => havoc_buf \in Seq(Nat) /\ havoc_len <= MaxFileLen
  /\ BuffersHold

Energy ==
  /\ orig_perf \in Nat /\ orig_perf <= HavocMaxMult * 100
  /\ perf_score \in Nat /\ havoc_max \in Nat
  /\ splice_cycle \in Nat /\ (havoc_step = "idle" => splice_cycle = 0)
  /\ havoc_step = "stage" /\ splice_cycle = 0 => perf_score = orig_perf
  /\ OvertimeLimited

Origins ==
  /\ target \in 0 .. Len(queue)
  /\ Running =>
       IF splice_cycle = 0 THEN havoc_buf = orig_in
       ELSE /\ target \notin {0, current_entry}
            /\ LET b == queue[target].data
               IN \E p \in 1 .. Len(b) : havoc_buf = SubSeq(orig_in, 1, p - 1) \o SubSeq(b, p, Len(b))

Inv == Queue /\ Shortcuts /\ Buffers /\ Energy /\ Origins

\* A test case of the queue fits the buffer.
LEMMA QueueData ==
  ASSUME Queue, NEW k \in 1 .. Len(queue)
  PROVE  /\ queue[k] \in Entries
         /\ queue[k].data \in Seq(Nat) /\ Len(queue[k].data) \in 1 .. MaxFileLen
<1>1. queue[k] \in Entries
  BY ElementOfSeq DEF Queue
<1> QED BY <1>1, ContentsAssumption DEF Entries

LEMMA InitInv == HavocInit => Inv
<1> SUFFICES ASSUME HavocInit PROVE Inv
  OBVIOUS
<1>1. PICK d \in Contents, t \in Times, s \in Sizes, h \in Handicaps, depth \in Depths :
        queue = <<[data |-> d, exec_us |-> t, bitmap_size |-> s, handicap |-> h, depth |-> depth]>>
  BY DEF HavocInit
<1>2. queue \in Seq(Entries) /\ Len(queue) = 1
  BY <1>1, EnergyAssumption DEF Entries
<1>3. Queue
  BY <1>2, StrideAssumption DEF HavocInit, Queue
<1>4. 1 \div Stride = 0
  <2>1. 1 = 0 * Stride + 1 /\ 1 \in 0 .. Stride - 1 /\ 1 \in Nat /\ 0 \in Nat
    BY StrideAssumption
  <2> QED BY <2>1, Quotient, StrideAssumption
<1>5. Shortcuts
  BY <1>2, <1>4 DEF HavocInit, Shortcuts, Mark
<1>6. Buffers
  BY DEF HavocInit, Buffers, BuffersHold
<1>7. Energy
  BY EnergyAssumption DEF HavocInit, Energy, OvertimeLimited
<1>8. Origins
  BY <1>2 DEF HavocInit, Origins, Running
<1> QED BY <1>3, <1>5, <1>6, <1>7, <1>8 DEF Inv

\* Nothing of the queue is left behind by steps that leave it alone.
LEMMA SameQueue ==
  ASSUME Inv, UNCHANGED queueVars, UNCHANGED current_entry
  PROVE  /\ Queue' /\ Shortcuts' /\ orig_in' = orig_in
         /\ UNCHANGED <<splice_cycle, target, havoc_buf>> /\ (Running' => Running) => Origins'
<1>1. UNCHANGED <<queue, next_100, q_prev100, current_entry>>
  BY DEF queueVars
<1> QED BY <1>1 DEF Inv, Queue, Shortcuts, Origins, orig_in, Mark

\* The programme of a stage is set by the time it starts.
LEMMA SameProgramme ==
  ASSUME UNCHANGED <<splice_cycle, doing_det, orig_perf>>
  PROVE  StageMax(orig_perf)' = StageMax(orig_perf)
BY DEF StageMax, Programme

LEMMA TakeInv == Inv /\ TakeForHavoc => Inv'
<1> SUFFICES ASSUME Inv, TakeForHavoc PROVE Inv'
  OBVIOUS
<1>1. PICK c \in 1 .. Len(queue) :
        /\ current_entry' = c /\ havoc_buf' = queue[c].data
        /\ orig_perf' = Score(queue[c])
        /\ queue' = [queue EXCEPT ![c].handicap = HandicapLeft(@)]
  BY DEF TakeForHavoc
<1>2. /\ queue[c] \in Entries
      /\ queue[c].data \in Seq(Nat) /\ Len(queue[c].data) \in 1 .. MaxFileLen
  BY QueueData DEF Inv
<1>3. HandicapLeft(queue[c].handicap) \in Nat
  BY <1>2 DEF Entries, HandicapLeft
<1>4. [queue[c] EXCEPT !.handicap = HandicapLeft(@)] \in Entries
  BY <1>2, <1>3 DEF Entries
<1>5. /\ queue' \in Seq(Entries) /\ Len(queue') = Len(queue)
      /\ queue'[c] = [queue[c] EXCEPT !.handicap = HandicapLeft(@)]
  <2>1. queue' = [queue EXCEPT ![c] = [queue[c] EXCEPT !.handicap = HandicapLeft(@)]]
    BY <1>1
  <2>2. queue \in Seq(Entries)
    BY DEF Inv, Queue
  <2> QED BY <1>4, <2>1, <2>2, ExceptSeq
<1>6. orig_in' = queue[c].data
  BY <1>1, <1>2, <1>5 DEF orig_in, Entries
<1>7. Queue'
  BY <1>1, <1>5 DEF Inv, Queue
<1>8. Shortcuts'
  BY <1>5 DEF TakeForHavoc, Inv, Shortcuts, Mark
<1>9. Buffers'
  BY <1>1, <1>2 DEF TakeForHavoc, Buffers, BuffersHold
<1>10. Energy'
  BY <1>1, <1>2, ScoreBounded DEF TakeForHavoc, Inv, Energy, OvertimeLimited, spliceVars
<1>11. Origins'
  BY <1>1, <1>5, <1>6 DEF TakeForHavoc, Inv, Energy, Origins, Running, spliceVars
<1> QED BY <1>7, <1>8, <1>9, <1>10, <1>11 DEF Inv

LEMMA StartStageInv == Inv /\ StartStage => Inv'
<1> SUFFICES ASSUME Inv, StartStage PROVE Inv'
  OBVIOUS
<1>1. perf_score' = orig_perf
  BY DEF StartStage, Inv, Energy
<1>2. UNCHANGED <<splice_cycle, doing_det, orig_perf, target, havoc_buf, havoc_len, room>>
  BY DEF StartStage, scoreVars, spliceVars
<1>3. StageMax(orig_perf)' = StageMax(orig_perf) /\ StageMax(perf_score)' = StageMax(orig_perf)
  BY <1>1, <1>2 DEF StageMax, Programme
<1>4. havoc_max' = StageMax(orig_perf)
  BY <1>1 DEF StartStage
<1>5. Queue' /\ Shortcuts' /\ Origins'
  BY <1>2, SameQueue DEF StartStage, Running
<1>6. Buffers'
  BY <1>2 DEF StartStage, Inv, Buffers, BuffersHold, AtMost
<1>7. Energy'
  BY <1>1, <1>2, <1>3, <1>4, StageMaxNat, EnergyAssumption DEF StartStage, Inv, Energy, OvertimeLimited
<1> QED BY <1>5, <1>6, <1>7 DEF Inv

\* What is left of a step that has its buffers in order.
LEMMA SameEnergy ==
  ASSUME Inv, UNCHANGED energyVars, UNCHANGED scoreVars, UNCHANGED spliceVars,
         havoc_step' # "idle", havoc_step' # "stage", havoc_step' \in {"choose", "tweak"} => havoc_step \in {"choose", "tweak"}
  PROVE  Energy'
<1>1. UNCHANGED <<splice_cycle, doing_det, orig_perf, perf_score, havoc_max>>
  BY DEF energyVars, scoreVars, spliceVars
<1> QED BY <1>1, SameProgramme DEF Inv, Energy, OvertimeLimited

LEMMA TweakInv ==
  ASSUME Inv, Tweak, temp_len' \in Nat, room' \in Nat, temp_len' \in 1 .. AtMost(room', MaxFileLen)
  PROVE  Inv'
<1>1. havoc_step = "tweak" /\ havoc_step' = "tweak" /\ UNCHANGED <<havoc_buf, havoc_len, splice_cycle, target>>
  BY DEF Tweak, spliceVars
<1>2. Queue' /\ Shortcuts' /\ Origins'
  BY <1>1, SameQueue DEF Tweak, Running
<1>3. Buffers'
  BY <1>1 DEF Inv, Buffers, BuffersHold
<1>4. Energy'
  BY <1>1, SameEnergy DEF Tweak
<1> QED BY <1>2, <1>3, <1>4 DEF Inv

LEMMA TweaksInv == Inv /\ (TweakInPlace \/ DeleteBytes \/ InsertBytes) => Inv'
<1> SUFFICES ASSUME Inv, TweakInPlace \/ DeleteBytes \/ InsertBytes PROVE Inv'
  OBVIOUS
<1>1. Tweak /\ havoc_step = "tweak"
  BY DEF TweakInPlace, DeleteBytes, InsertBytes, Tweak
<1>2. /\ temp_len \in Nat /\ room \in Nat /\ MaxFileLen \in Nat /\ BlkXL \in Nat
      /\ temp_len \in 1 .. AtMost(room, MaxFileLen)
  BY <1>1, BlocksAssumption DEF Inv, Buffers, BuffersHold
<1>3. temp_len >= 1 /\ temp_len <= room /\ temp_len <= MaxFileLen
  BY <1>2 DEF AtMost
<1>4. CASE TweakInPlace
  BY <1>1, <1>2, <1>4, TweakInv DEF TweakInPlace
<1>5. CASE DeleteBytes
  <2>1. PICK n \in BlockLens(temp_len - 1) : temp_len' = temp_len - n
    BY <1>5 DEF DeleteBytes, Deletable
  <2>2. n \in 1 .. temp_len - 1
    <3>1. temp_len - 1 \in Nat
      BY <1>2, <1>3
    <3> QED BY <2>1, <3>1, BlockLensBounded
  <2>3. temp_len' \in Nat /\ temp_len' >= 1 /\ temp_len' <= temp_len /\ room' = room
    BY <1>2, <1>5, <2>1, <2>2 DEF DeleteBytes
  <2>4. temp_len' \in 1 .. AtMost(room', MaxFileLen)
    BY <1>2, <1>3, <2>3 DEF AtMost
  <2> QED BY <1>1, <1>2, <2>3, <2>4, TweakInv
<1>6. CASE InsertBytes
  <2>1. PICK n \in BlockLens(temp_len) \cup BlockLens(BlkXL) \cup ExtraLens :
          /\ \/ temp_len + BlkXL < MaxFileLen /\ n \in BlockLens(temp_len) \cup BlockLens(BlkXL)
             \/ temp_len + n < MaxFileLen /\ n \in ExtraLens
          /\ temp_len' = temp_len + n /\ room' = temp_len'
    BY <1>6 DEF InsertBytes
  <2>2. n \in Nat /\ n >= 1 /\ temp_len + n < MaxFileLen
    <3>1. CASE n \in BlockLens(BlkXL) /\ temp_len + BlkXL < MaxFileLen
      BY <1>2, <3>1, BlockLensBounded
    <3>2. CASE n \in ExtraLens /\ temp_len + n < MaxFileLen
      BY <3>2, BlocksAssumption
    <3>3. CASE n \in BlockLens(temp_len) /\ temp_len + BlkXL < MaxFileLen
      <4>1. n \in 1 .. temp_len /\ n <= BlkXL
        BY <1>2, <3>3, BlockLensBounded, BlocksAssumption DEF BlockLens, AtMost
      <4> QED BY <1>2, <3>3, <4>1
    <3> QED BY <2>1, <3>1, <3>2, <3>3
  <2>3. temp_len' \in 1 .. AtMost(room', MaxFileLen) /\ temp_len' \in Nat /\ room' \in Nat
    BY <1>2, <2>1, <2>2 DEF AtMost
  <2> QED BY <1>1, <2>3, TweakInv
<1> QED BY <1>4, <1>5, <1>6

LEMMA ChooseInv == Inv /\ (ChooseStack \/ StageOver) => Inv'
<1> SUFFICES ASSUME Inv, ChooseStack \/ StageOver PROVE Inv'
  OBVIOUS
<1>1. /\ havoc_step = "choose" /\ havoc_step' \in {"tweak", "splice"}
      /\ UNCHANGED <<havoc_buf, havoc_len, temp_len, room, current_entry>>
      /\ UNCHANGED queueVars /\ UNCHANGED scoreVars /\ UNCHANGED energyVars /\ UNCHANGED spliceVars
  BY DEF ChooseStack, StageOver
<1>2. Queue' /\ Shortcuts' /\ Origins'
  BY <1>1, SameQueue DEF Running, spliceVars
<1>3. Buffers'
  BY <1>1 DEF Inv, Buffers, BuffersHold
<1>4. Energy'
  BY <1>1, SameEnergy
<1> QED BY <1>2, <1>3, <1>4 DEF Inv

LEMMA RunInv == Inv /\ Run => Inv'
<1> SUFFICES ASSUME Inv, Run PROVE Inv'
  OBVIOUS
<1>1. /\ havoc_step = "tweak" /\ havoc_step' = "choose" /\ temp_len' = havoc_len /\ room' = RestoredRoom
      /\ UNCHANGED <<current_entry, havoc_buf, havoc_len, doing_det, orig_perf, splice_cycle, target>>
  BY DEF Run, scoreVars, spliceVars
<1>2. /\ queue' \in Seq(Entries) /\ Len(queue') >= Len(queue) /\ Len(queue') <= MaxPaths
      /\ Len(queue) \in Nat /\ Len(queue') \in Nat
      /\ \A k \in 1 .. Len(queue) : queue'[k] = queue[k]
      /\ Shortcuts'
  <2>1. Len(queue) \in Nat /\ Queue /\ Shortcuts /\ MaxPaths \in Nat
    BY LenProperties, StrideAssumption DEF Inv, Queue
  <2>2. CASE UNCHANGED queueVars
    BY <1>1, <2>1, <2>2, SameQueue DEF queueVars, Queue
  <2>3. CASE ~UNCHANGED queueVars
    <3>1. PICK e \in Entries : AddToQueue(e) /\ Len(queue) < MaxPaths
      BY <2>3, EnergyAssumption DEF Run, Entries
    <3> QED BY <2>1, <3>1, AddKeepsShortcuts
  <2> QED BY <2>2, <2>3
<1>3. Queue' /\ orig_in' = orig_in
  BY <1>1, <1>2 DEF Inv, Queue, orig_in
<1>4. Buffers'
  <2>1. /\ temp_len \in Nat /\ room \in Nat /\ havoc_len \in Nat /\ havoc_len >= 1 /\ havoc_len <= MaxFileLen
        /\ temp_len <= room /\ MaxFileLen \in Nat
    <3>1. havoc_len = Len(havoc_buf) /\ havoc_len \in Nat /\ havoc_len >= 1
      BY <1>1, LenProperties DEF Inv, Buffers, BuffersHold
    <3>2. temp_len \in 1 .. AtMost(room, MaxFileLen) /\ temp_len \in Nat /\ room \in Nat
      BY <1>1 DEF Inv, Buffers, BuffersHold
    <3>3. havoc_len <= MaxFileLen
      BY <1>1 DEF Inv, Buffers
    <3> QED BY <3>1, <3>2, <3>3, BlocksAssumption DEF AtMost
  <2>2. room' \in Nat /\ havoc_len <= room'
    BY <1>1, <2>1 DEF RestoredRoom
  <2>3. temp_len' \in 1 .. AtMost(room', MaxFileLen)
    BY <1>1, <2>1, <2>2 DEF AtMost
  <2> QED BY <1>1, <2>1, <2>2, <2>3 DEF Inv, Buffers, BuffersHold
<1>5. Energy'
  <2>1. StageMax(orig_perf)' = StageMax(orig_perf) /\ StageMax(orig_perf) \in Nat
    BY <1>1, SameProgramme, StageMaxNat DEF Inv, Energy
  <2>2. \/ perf_score' = perf_score /\ havoc_max' = havoc_max
        \/ perf_score' = 2 * perf_score /\ havoc_max' = 2 * havoc_max /\ Longer
    BY DEF Run
  <2>3. /\ perf_score \in Nat /\ havoc_max \in Nat /\ orig_perf \in Nat /\ HavocMaxMult \in Nat
        /\ perf_score <= 2 * HavocMaxMult * 100
        /\ havoc_max * orig_perf = StageMax(orig_perf) * perf_score
    BY <1>1, EnergyAssumption DEF Inv, Energy, OvertimeLimited
  <2> DEFINE m == StageMax(orig_perf)
             p == perf_score
             x == havoc_max
             o == orig_perf
  <2>4. m \in Nat /\ p \in Nat /\ x \in Nat /\ o \in Nat /\ x * o = m * p
    BY <2>1, <2>3
  <2> HIDE DEF m, p, x, o
  <2>5. (2 * x) * o = m * (2 * p)
    <3>1. (2 * x) * o = 2 * (x * o) /\ m * (2 * p) = 2 * (m * p)
      BY <2>4
    <3> QED BY <2>4, <3>1
  <2>6. CASE perf_score' = perf_score /\ havoc_max' = havoc_max
    BY <1>1, <2>1, <2>3, <2>6 DEF Inv, Energy, OvertimeLimited
  <2>7. CASE perf_score' = 2 * perf_score /\ havoc_max' = 2 * havoc_max /\ Longer
    <3>1. perf_score' <= 2 * HavocMaxMult * 100 /\ perf_score' \in Nat /\ havoc_max' \in Nat
      BY <2>3, <2>7 DEF Longer
    <3>2. havoc_max' * orig_perf' = StageMax(orig_perf)' * perf_score'
      BY <1>1, <2>1, <2>5, <2>7 DEF m, p, x, o
    <3> QED BY <1>1, <3>1, <3>2 DEF Inv, Energy, OvertimeLimited
  <2> QED BY <2>2, <2>6, <2>7
<1>6. Origins'
  <2>1. target \in 0 .. Len(queue) /\ target' = target
    BY <1>1 DEF Inv, Origins
  <2>2. target # 0 => queue'[target] = queue[target]
    BY <1>2, <2>1
  <2>3. target' \in 0 .. Len(queue')
    BY <1>2, <2>1
  <2>4. CASE splice_cycle = 0
    BY <1>1, <1>3, <2>3, <2>4 DEF Inv, Origins, Running
  <2>5. CASE splice_cycle # 0
    <3> DEFINE b == queue[target].data
               Mixed(x, y) == \E p \in 1 .. Len(y) : havoc_buf = SubSeq(x, 1, p - 1) \o SubSeq(y, p, Len(y))
    <3>1. target \notin {0, current_entry} /\ Mixed(orig_in, b)
      BY <1>1, <2>5 DEF Inv, Origins, Running
    <3>2. queue'[target].data = b /\ target' = target /\ orig_in' = orig_in /\ havoc_buf' = havoc_buf
      BY <1>1, <1>3, <2>1, <2>2, <3>1
    <3>3. (\E p \in 1 .. Len(queue[target].data) :
             havoc_buf = SubSeq(orig_in, 1, p - 1) \o SubSeq(queue[target].data, p, Len(queue[target].data)))'
      BY <3>1, <3>2
    <3> QED BY <1>1, <2>3, <2>5, <3>1, <3>3 DEF Origins
  <2> QED BY <2>4, <2>5
<1> QED BY <1>2, <1>3, <1>4, <1>5, <1>6 DEF Inv
-----------------------------------------------------------------------------
(* Splicing. *)

\* The head of one test case and the tail of another.
LEMMA SplicedShape ==
  ASSUME NEW a \in Seq(Nat), NEW b \in Seq(Nat), NEW p \in Nat, p < Len(b), p <= Len(a),
         NEW s, s \in [1 .. Len(b) -> Nat],
         \A k \in 1 .. Len(b) : s[k] = IF k <= p THEN a[k] ELSE b[k]
  PROVE  /\ s \in Seq(Nat) /\ Len(s) = Len(b)
         /\ s = SubSeq(a, 1, p) \o SubSeq(b, p + 1, Len(b))
<1> DEFINE n == Len(b)
           front == SubSeq(a, 1, p)
           back == SubSeq(b, p + 1, n)
<1>1. /\ n \in Nat /\ Len(a) \in Nat
      /\ \A k \in 1 .. n : b[k] \in Nat
      /\ \A k \in 1 .. Len(a) : a[k] \in Nat
  BY LenProperties, ElementOfSeq
<1>2. s \in Seq(Nat) /\ Len(s) = n /\ \A k \in 1 .. n : s[k] = IF k <= p THEN a[k] ELSE b[k]
  <2>1. s \in [1 .. n -> Nat] /\ \A k \in 1 .. n : s[k] = IF k <= p THEN a[k] ELSE b[k]
    OBVIOUS
  <2> HIDE DEF n
  <2>2. s \in Seq(Nat) /\ Len(s) = n
    BY <1>1, <2>1
  <2> QED BY <2>1, <2>2
<1>3. front \in Seq(Nat) /\ Len(front) = p /\ \A k \in 1 .. p : front[k] = a[k]
  <2>1. \A k \in 1 .. p : a[k] \in Nat
    BY <1>1
  <2> QED BY <2>1, SubSeqProperties
<1>4. back \in Seq(Nat) /\ Len(back) = n - p /\ \A k \in 1 .. n - p : back[k] = b[k + p]
  <2>1. \A k \in p + 1 .. n : b[k] \in Nat
    BY <1>1
  <2>2. /\ back \in Seq(Nat)
        /\ Len(back) = IF p + 1 <= n THEN n - (p + 1) + 1 ELSE 0
        /\ \A k \in 1 .. n - (p + 1) + 1 : back[k] = b[p + 1 + k - 1]
    BY <1>1, <2>1, SubSeqProperties
  <2>3. Len(back) = n - p
    BY <1>1, <2>2
  <2>4. ASSUME NEW k \in 1 .. n - p PROVE back[k] = b[k + p]
    <3>1. k \in 1 .. n - (p + 1) + 1 /\ p + 1 + k - 1 = k + p
      BY <1>1
    <3> QED BY <2>2, <3>1
  <2> QED BY <2>2, <2>3, <2>4
<1> HIDE DEF front, back, n
<1>5. /\ front \o back \in Seq(Nat) /\ Len(front \o back) = Len(front) + Len(back)
      /\ \A k \in 1 .. Len(front) + Len(back) :
           (front \o back)[k] = IF k <= Len(front) THEN front[k] ELSE back[k - Len(front)]
  <2>1. front \in Seq(Nat) /\ back \in Seq(Nat)
    BY <1>3, <1>4
  <2> QED BY <2>1, ConcatProperties
<1>6. Len(front) + Len(back) = n
  BY <1>1, <1>3, <1>4
<1>7. ASSUME NEW k \in 1 .. n PROVE (front \o back)[k] = s[k]
  <2>1. CASE k <= p
    <3>1. k \in 1 .. p /\ k \in 1 .. Len(front) + Len(back)
      BY <1>6, <2>1
    <3>2. s[k] = a[k] /\ front[k] = a[k]
      BY <1>2, <1>3, <2>1, <3>1
    <3>3. (front \o back)[k] = front[k]
      BY <1>3, <1>5, <2>1, <3>1
    <3> QED BY <3>2, <3>3
  <2>2. CASE ~(k <= p)
    <3>1. k - p \in 1 .. n - p /\ (k - p) + p = k
      BY <1>1, <2>2
    <3>2. back[k - p] = b[(k - p) + p]
      BY <1>4, <3>1
    <3> QED BY <1>2, <1>3, <1>5, <1>6, <2>2, <3>1, <3>2
  <2> QED BY <2>1, <2>2
<1>8. s = front \o back
  <2>1. Len(s) = Len(front \o back) /\ \A k \in 1 .. Len(s) : s[k] = (front \o back)[k]
    BY <1>2, <1>5, <1>6, <1>7
  <2> QED BY <1>2, <1>5, <2>1, SeqEqual
<1> QED BY <1>2, <1>8 DEF front, back, n

LEMMA SpliceInv == Inv /\ Splice => Inv'
<1> SUFFICES ASSUME Inv, Splice PROVE Inv'
  OBVIOUS
<1> USE DEF Queue
<1>1. /\ havoc_step = "splice" /\ splice_cycle' = splice_cycle + 1 /\ splice_cycle \in Nat
      /\ UNCHANGED <<current_entry, temp_len, orig_perf, doing_det, perf_score, havoc_max>>
      /\ UNCHANGED queueVars
  BY DEF Splice, Counted, scoreVars, energyVars, Inv, Energy
<1>2. Queue' /\ Shortcuts' /\ orig_in' = orig_in /\ queue' = queue
  BY <1>1, SameQueue DEF queueVars
<1>3. /\ Len(queue) \in Nat /\ MaxFileLen \in Nat
      /\ orig_in \in Seq(Nat) /\ Len(orig_in) \in 1 .. MaxFileLen
  BY LenProperties, QueueData, BlocksAssumption DEF Inv, orig_in
<1>4. Energy'
  BY <1>1, EnergyAssumption DEF Splice, SpliceWith, Inv, Energy, OvertimeLimited
<1>5. CASE /\ havoc_buf' = orig_in /\ havoc_len' = Len(orig_in) /\ UNCHANGED <<room, havoc_step>>
           /\ target' \in 0 .. Len(queue)
  <2>1. Buffers'
    BY <1>1, <1>3, <1>5 DEF Inv, Buffers, BuffersHold
  <2>2. Origins'
    BY <1>1, <1>2, <1>5 DEF Origins, Running
  <2> QED BY <1>2, <1>4, <2>1, <2>2 DEF Inv
<1>6. ASSUME NEW k \in 1 .. Len(queue), k # current_entry, SpliceWith(queue[k].data),
             target' = k, Splits(queue[k].data) # {}, havoc_step' = "stage"
      PROVE  Inv'
  <2> DEFINE b == queue[k].data
  <2>1. b \in Seq(Nat) /\ Len(b) \in 1 .. MaxFileLen
    BY QueueData DEF Inv
  <2>2. PICK p \in Splits(b) :
          havoc_buf' = Spliced(b, p) /\ havoc_len' = Len(b) /\ room' = Len(b)
    BY <1>1, <1>6 DEF SpliceWith
  <2>3. p \in Nat /\ p < Len(b) /\ p <= Len(orig_in)
    <3>1. Len(b) \in Nat /\ Len(orig_in) \in Nat /\ p \in 0 .. Len(b)
      BY <1>3, <2>1, <2>2 DEF Splits
    <3>2. PICK l \in Differ(orig_in, b) : p < l - 1
      BY <2>2 DEF Splits
    <3>3. l \in Nat /\ l <= Len(b) /\ l <= Len(orig_in)
      BY <3>1, <3>2 DEF Differ, AtMost
    <3> QED BY <3>1, <3>2, <3>3
  <2>4. havoc_buf' = [m \in 1 .. Len(b) |-> IF m <= p THEN orig_in[m] ELSE b[m]]
    BY <2>2 DEF Spliced
  <2> HIDE DEF b
  <2>5. /\ havoc_buf' \in Seq(Nat) /\ Len(havoc_buf') = Len(b)
        /\ havoc_buf' = SubSeq(orig_in, 1, p) \o SubSeq(b, p + 1, Len(b))
    <3> DEFINE a == orig_in
               s == havoc_buf'
    <3>1. a \in Seq(Nat) /\ b \in Seq(Nat) /\ p \in Nat /\ p < Len(b) /\ p <= Len(a)
          /\ s = [m \in 1 .. Len(b) |-> IF m <= p THEN a[m] ELSE b[m]]
      BY <1>3, <2>1, <2>3, <2>4
    <3> HIDE DEF a, s
    <3>2. /\ \A m \in 1 .. Len(b) : b[m] \in Nat
          /\ \A m \in 1 .. Len(a) : a[m] \in Nat
          /\ Len(a) \in Nat /\ Len(b) \in Nat
      BY <3>1, ElementOfSeq, LenProperties
    <3>3. s \in [1 .. Len(b) -> Nat] /\ \A m \in 1 .. Len(b) : s[m] = IF m <= p THEN a[m] ELSE b[m]
      BY <3>1, <3>2
    <3>4. /\ s \in Seq(Nat) /\ Len(s) = Len(b)
          /\ s = SubSeq(a, 1, p) \o SubSeq(b, p + 1, Len(b))
      <4>1. a \in Seq(Nat) /\ b \in Seq(Nat) /\ p \in Nat /\ p < Len(b) /\ p <= Len(a)
        BY <3>1
      <4> QED BY <3>3, <4>1, SplicedShape
    <3> QED BY <3>4 DEF a, s
  <2>6. Buffers'
    <3>1. havoc_buf' \in Seq(Nat) /\ havoc_len' = Len(havoc_buf') /\ havoc_len' >= 1 /\ havoc_len' <= MaxFileLen
          /\ havoc_len' \in Nat /\ room' = havoc_len'
      <4>1. havoc_len' = Len(b) /\ room' = Len(b)
        BY <2>2
      <4>2. havoc_buf' \in Seq(Nat) /\ Len(havoc_buf') = Len(b)
        BY <2>5
      <4> QED BY <1>3, <2>1, <4>1, <4>2
    <3>2. havoc_step' = "stage" /\ temp_len' \in Nat
      BY <1>1, <1>6 DEF Inv, Buffers
    <3> QED BY <3>1, <3>2 DEF Buffers, BuffersHold
  <2>7. \E q \in 1 .. Len(b) : havoc_buf' = SubSeq(orig_in, 1, q - 1) \o SubSeq(b, q, Len(b))
    <3>1. p + 1 \in 1 .. Len(b) /\ (p + 1) - 1 = p
      BY <2>1, <2>3
    <3> QED BY <2>5, <3>1
  <2>8. Origins'
    <3>1. target' \notin {0, current_entry'} /\ target' \in 0 .. Len(queue') /\ splice_cycle' # 0
      BY <1>1, <1>2, <1>3, <1>6
    <3>2. (\E q \in 1 .. Len(queue[target].data) :
             havoc_buf = SubSeq(orig_in, 1, q - 1) \o SubSeq(queue[target].data, q, Len(queue[target].data)))'
      BY <1>2, <1>6, <2>7 DEF b
    <3> QED BY <3>1, <3>2 DEF Origins
  <2> QED BY <1>2, <1>4, <2>6, <2>8 DEF Inv
<1>7. PICK tid \in (0 .. Len(queue) - 1) \ {current_entry - 1} : \E from \in Sought(tid) :
        IF FirstSuitable(from) = {}
          THEN /\ havoc_buf' = orig_in /\ havoc_len' = Len(orig_in) /\ target' = 0
               /\ UNCHANGED <<room, havoc_step>>
          ELSE \E k \in FirstSuitable(from) : SpliceWith(queue[k].data) /\ target' = k
  BY DEF Splice
<1>8. PICK from \in Sought(tid) :
        IF FirstSuitable(from) = {}
          THEN /\ havoc_buf' = orig_in /\ havoc_len' = Len(orig_in) /\ target' = 0
               /\ UNCHANGED <<room, havoc_step>>
          ELSE \E k \in FirstSuitable(from) : SpliceWith(queue[k].data) /\ target' = k
  BY <1>7
<1>9. from \in Nat /\ from >= 1
  <2>1. PICK way \in Hops(tid \div Stride) : from = way[tid \div Stride] + (tid % Stride)
    BY <1>8 DEF Sought
  <2>2. tid \in Nat
    BY <1>3
  <2>3. tid \div Stride \in Nat /\ tid % Stride \in Nat
    BY <2>2, StrideAssumption
  <2>4. way[tid \div Stride] \in 1 .. Len(queue)
    BY <2>1, <2>3 DEF Hops
  <2> QED BY <1>3, <2>1, <2>3, <2>4
<1>10. CASE FirstSuitable(from) = {}
  BY <1>3, <1>5, <1>8, <1>10
<1>11. CASE FirstSuitable(from) # {}
  <2>1. PICK k \in FirstSuitable(from) : SpliceWith(queue[k].data) /\ target' = k
    BY <1>8, <1>11
  <2>2. k \in 1 .. Len(queue) /\ k # current_entry
    BY <1>3, <1>9, <2>1 DEF FirstSuitable, Suitable
  <2>3. CASE havoc_step' = "stage" /\ Splits(queue[k].data) # {}
    BY <1>6, <2>1, <2>2, <2>3
  <2>4. CASE ~(havoc_step' = "stage" /\ Splits(queue[k].data) # {})
    BY <1>3, <1>5, <2>1, <2>2, <2>4 DEF SpliceWith
  <2> QED BY <2>3, <2>4
<1> QED BY <1>10, <1>11

LEMMA LeaveInv == Inv /\ (Done \/ AbandonHavoc) => Inv'
<1> SUFFICES ASSUME Inv, Leave PROVE Inv'
  BY DEF Done, AbandonHavoc
<1>1. UNCHANGED <<queue, next_100, q_prev100>> /\ current_entry' = 1 /\ havoc_step' = "idle"
  BY DEF Leave, queueVars
<1>2. Len(queue) \in Nat /\ Len(queue) >= 1
  BY LenProperties DEF Inv, Queue
<1>3. Queue' /\ Shortcuts'
  BY <1>1, <1>2 DEF Inv, Queue, Shortcuts, Mark
<1>4. Buffers'
  BY <1>1 DEF Leave, Buffers, BuffersHold
<1>5. Energy'
  BY <1>1, EnergyAssumption DEF Leave, Energy, OvertimeLimited
<1>6. Origins'
  BY <1>1, <1>2 DEF Leave, Origins, Running
<1> QED BY <1>3, <1>4, <1>5, <1>6 DEF Inv

LEMMA NextInv == Inv /\ [HavocNext]_havocVars => Inv'
<1> SUFFICES ASSUME Inv, [HavocNext]_havocVars PROVE Inv'
  OBVIOUS
<1>1. CASE UNCHANGED havocVars
  <2>1. UNCHANGED <<queue, next_100, q_prev100, current_entry, havoc_buf, havoc_len, temp_len, room,
                    doing_det, orig_perf, perf_score, havoc_max, splice_cycle, target, havoc_step>>
    BY <1>1 DEF havocVars, queueVars, scoreVars, energyVars, spliceVars
  <2>2. Queue' /\ Shortcuts' /\ Origins'
    BY <2>1, SameQueue DEF queueVars, Running
  <2>3. Buffers' /\ Energy'
    BY <2>1, SameProgramme DEF Inv, Buffers, BuffersHold, Energy, OvertimeLimited
  <2> QED BY <2>2, <2>3 DEF Inv
<1> QED
  BY <1>1, TakeInv, StartStageInv, ChooseInv, TweaksInv, RunInv, SpliceInv, LeaveInv
  DEF HavocNext, InEntry
-----------------------------------------------------------------------------
(* The theorems. *)

LEMMA Invariance == HavocSpec => []Inv
BY InitInv, NextInv, PTL DEF HavocSpec

\* Whatever is deleted, inserted, spliced and found, no run of the havoc stage
\* reads beyond its buffer or is longer than MAX_FILE, and no stage lasts longer
\* than its score allows.
THEOREM HavocIsBounded == HavocSpec => []HavocBounded
<1>1. Inv => HavocBounded
  BY DEF Inv, Buffers, Energy, HavocBounded
<1> QED BY <1>1, Invariance, PTL

\* The shortcuts lead to an entry however the queue has grown, and what is
\* spliced is the entry at hand and another one.
THEOREM SplicesAreOfTwoEntries == HavocSpec => []SplicesAreOfTwo
<1>1. Inv => EntriesAreFound
  BY ShortcutsLead DEF Inv, EntriesAreFound
<1>2. Inv => SplicesAreOfTwo
  BY <1>1 DEF Inv, Origins, Running, SplicesAreOfTwo
<1> QED BY <1>2, Invariance, PTL

-----------------------------------------------------------------------------
(* Sorting: what qsort() returns is the list in another order. *)

Orders(n) == {p \in [1 .. n -> 1 .. n] : \A a, b \in 1 .. n : a # b => p[a] # p[b]}

\* r is list in another order.
Sorts(r, list, p) ==
  /\ p \in Orders(Len(list))
  /\ r = [k \in 1 .. Len(list) |-> list[p[k]]]

LEMMA OrderReachesAll ==
  ASSUME NEW n \in Nat, NEW p \in Orders(n), NEW b \in 1 .. n
  PROVE  \E a \in 1 .. n : p[a] = b
  <1>1. p \in Injection(1 .. n, 1 .. n)
    BY DEF Orders, Injection, IsInjective
  <1>2. IsFiniteSet(1 .. n)
    BY FS_Interval
  <1>3. p \in Surjection(1 .. n, 1 .. n)
    BY <1>1, <1>2, FS_Injection
  <1> QED BY <1>3 DEF Surjection

LEMMA RankingSorts ==
  ASSUME NEW S, NEW list \in Seq(S), NEW r \in Rankings(list)
  PROVE  \E p : Sorts(r, list, p)
  <1>1. DOMAIN list = 1 .. Len(list)
    OBVIOUS
  <1>2. PICK p \in [DOMAIN list -> DOMAIN list] :
          /\ \A a, b \in DOMAIN list : a # b => p[a] # p[b]
          /\ r = [k \in DOMAIN list |-> list[p[k]]]
    BY DEF Rankings
  <1> QED BY <1>1, <1>2 DEF Sorts, Orders

LEMMA BySizeSorts ==
  ASSUME NEW S, NEW list \in Seq(S), NEW r \in BySize(list)
  PROVE  \E p : Sorts(r, list, p)
  <1>1. DOMAIN list = 1 .. Len(list)
    OBVIOUS
  <1>2. PICK p \in [DOMAIN list -> DOMAIN list] :
          /\ \A a, b \in DOMAIN list : a # b => p[a] # p[b]
          /\ r = [k \in DOMAIN list |-> list[p[k]]]
    BY DEF BySize
  <1> QED BY <1>1, <1>2 DEF Sorts, Orders

LEMMA SortedAgain ==
  ASSUME NEW S, NEW list \in Seq(S), NEW r, NEW p, Sorts(r, list, p)
  PROVE  /\ r \in Seq(S) /\ Len(r) = Len(list)
         /\ \A k \in 1 .. Len(list) : p[k] \in 1 .. Len(list) /\ r[k] = list[p[k]]
         /\ \A k \in 1 .. Len(list) : \E a \in 1 .. Len(list) : r[a] = list[k]
  <1>1. \A k \in 1 .. Len(list) : p[k] \in 1 .. Len(list) /\ r[k] = list[p[k]]
    BY DEF Sorts, Orders
  <1>2. r \in Seq(S) /\ Len(r) = Len(list)
    BY <1>1 DEF Sorts
  <1>3. \A k \in 1 .. Len(list) : \E a \in 1 .. Len(list) : r[a] = list[k]
    <2>1. p \in Orders(Len(list)) /\ Len(list) \in Nat
      BY DEF Sorts
    <2> TAKE k \in 1 .. Len(list)
    <2>2. PICK a \in 1 .. Len(list) : p[a] = k
      BY <2>1, OrderReachesAll
    <2> QED BY <1>1, <2>2
  <1> QED BY <1>1, <1>2, <1>3

-----------------------------------------------------------------------------
(* The dictionaries. *)

AutoExtra == [data : Seq(Byte), hit_cnt : Nat]

DictTypes ==
  /\ extras \in Seq(Seq(Byte)) /\ dict_type \in {"original", "optimized"}
  /\ a_extras \in Seq(AutoExtra) /\ auto_changed \in BOOLEAN
  /\ auto_files \in Seq(Seq(Byte)) /\ old_files \in Seq(Seq(Byte))
  /\ saving \in Nat
  /\ phase \in {"load", "extras", "run", "writing", "down"}

\* The tokens of the user by length, as load_extras() leaves them.
ExtrasSorted == \A a, b \in 1 .. Len(extras) : a < b => Len(extras[a]) <= Len(extras[b])

\* The files below n hold the tokens below n.
InFiles(n) == \A k \in 1 .. n : auto_files[k] = a_extras[k].data

\* What is on disk: nothing until the session fuzzes, the tokens passed by
\* save_auto() while it is under way, all those in use when it is done.
OnDisk ==
  /\ phase \in {"load", "extras"} => auto_files = <<>> /\ (~auto_changed => a_extras = <<>>)
  /\ phase = "extras" => saving = 0
  /\ phase \in {"run", "writing"} => Len(auto_files) <= Saved
  /\ phase \in {"run", "writing"} /\ saving # 0 =>
       ~auto_changed /\ saving <= Saved /\ saving - 1 <= Len(auto_files) /\ InFiles(saving - 1)
  /\ phase = "writing" => saving # 0 /\ saving <= Len(auto_files)
  /\ phase = "run" /\ saving = 0 /\ ~auto_changed => Len(auto_files) = Saved /\ InFiles(Saved)

DictInv == DictTypes /\ ExtrasSorted /\ TokensDistinct /\ UsedAreBest /\ OnDisk

-----------------------------------------------------------------------------
(* maybe_add_auto() *)

Distinct(list) ==
  \A a, b \in 1 .. Len(list) : SameNoCase(list[a].data, list[b].data) => a = b

LEMMA SameIsSymmetric ==
  ASSUME NEW s, NEW t, SameNoCase(s, t)
  PROVE  SameNoCase(t, s)
  BY DEF SameNoCase

LEMMA SameAsItself ==
  ASSUME NEW s
  PROVE  SameNoCase(s, s)
  BY DEF SameNoCase

LEMMA SmallerOfTwo ==
  ASSUME NEW x \in Nat, NEW y \in Nat
  PROVE  /\ Smaller(x, y) \in Nat /\ Smaller(x, y) <= x /\ Smaller(x, y) <= y
         /\ \A z \in Nat : y <= z => Smaller(x, y) <= Smaller(x, z)
  BY DEF Smaller

\* What the list is before it is sorted: its tokens are those there were, with
\* at most one more, or the new one in place of one of the bottom half.
LEMMA CandidateList ==
  ASSUME DictInv, NEW t \in Seq(Byte), NEW list \in Candidates(t)
  PROVE  /\ list \in Seq(AutoExtra) /\ Len(list) >= Len(a_extras) /\ Len(list) <= MaxAutoExtras
         /\ Distinct(list) /\ list # <<>>
         /\ \A k \in 1 .. Len(list) :
              (\E a \in Autos : list[k].data = a_extras[a].data) \/ (Known(t) = {} /\ list[k].data = t)
         /\ \A k \in Used : \E a \in 1 .. Len(list) : list[a].data = a_extras[k].data
  <1> DEFINE new == [data |-> t, hit_cnt |-> 0]
             n == Len(a_extras)
  <1>1. /\ a_extras \in Seq(AutoExtra) /\ n \in Nat /\ n <= MaxAutoExtras /\ Distinct(a_extras)
        /\ \A k \in 1 .. n : a_extras[k] \in AutoExtra
    BY DEF DictInv, DictTypes, TokensDistinct, Distinct, Autos
  <1>2. new \in AutoExtra /\ new.data = t
    BY DEF AutoExtra
  <1>3. Smaller(UseAutoExtras, n) <= UseAutoExtras /\ Smaller(UseAutoExtras, n) \in Nat
        /\ Smaller(UseAutoExtras, n) <= n
    BY <1>1, SmallerOfTwo, TablesAssumption
  <1>4. CASE Known(t) # {}
    <2>1. PICK k \in Known(t) : list = [a_extras EXCEPT ![k].hit_cnt = @ + 1]
      BY <1>4 DEF Candidates
    <2>2. k \in 1 .. n
      BY DEF Known
    <2>3. /\ list \in Seq(AutoExtra) /\ Len(list) = n
          /\ \A a \in 1 .. n : list[a].data = a_extras[a].data
      <3>1. [a_extras[k] EXCEPT !.hit_cnt = @ + 1] \in AutoExtra
            /\ [a_extras[k] EXCEPT !.hit_cnt = @ + 1].data = a_extras[k].data
        <4>1. a_extras[k] \in [data : Seq(Byte), hit_cnt : Nat]
          BY <1>1, <2>2 DEF AutoExtra
        <4> QED BY <4>1 DEF AutoExtra
      <3> QED BY <1>1, <2>1, <2>2, <3>1
    <2> QED BY <1>1, <1>3, <2>2, <2>3 DEF Distinct, Autos, Used
  <1>5. CASE Known(t) = {} /\ n < MaxAutoExtras
    <2>1. list = Append(a_extras, new)
      BY <1>5 DEF Candidates
    <2>2. /\ list \in Seq(AutoExtra) /\ Len(list) = n + 1 /\ list[n + 1] = new
          /\ \A a \in 1 .. n : list[a] = a_extras[a]
      BY <1>1, <1>2, <2>1
    <2>3. \A a \in 1 .. n : ~SameNoCase(a_extras[a].data, t) /\ ~SameNoCase(t, a_extras[a].data)
      BY <1>5, SameIsSymmetric DEF Known
    <2>4. Distinct(list)
      <3> SUFFICES ASSUME NEW a \in 1 .. n + 1, NEW b \in 1 .. n + 1, SameNoCase(list[a].data, list[b].data)
                   PROVE  a = b
        BY <2>2 DEF Distinct
      <3>1. CASE a \in 1 .. n /\ b \in 1 .. n
        BY <1>1, <2>2, <3>1 DEF Distinct
      <3>2. CASE a \in 1 .. n /\ b = n + 1
        BY <1>2, <2>2, <2>3, <3>2
      <3>3. CASE a = n + 1 /\ b \in 1 .. n
        BY <1>2, <2>2, <2>3, <3>3
      <3> QED BY <1>1, <3>1, <3>2, <3>3
    <2>5. \A k \in 1 .. n + 1 : (k \in 1 .. n /\ list[k].data = a_extras[k].data) \/ list[k].data = t
      BY <1>1, <1>2, <2>2
    <2>6. \A k \in 1 .. n : k \in 1 .. n + 1
      BY <1>1
    <2> HIDE DEF n, new
    <2>7. list # <<>> /\ n + 1 >= n /\ n + 1 <= MaxAutoExtras
      BY <1>1, <1>5, <2>2, TablesAssumption
    <2> QED BY <1>3, <1>5, <2>2, <2>4, <2>5, <2>6, <2>7 DEF Autos, Used, n
  <1>6. CASE Known(t) = {} /\ ~(n < MaxAutoExtras)
    <2>1. PICK e \in Evictable : list = [a_extras EXCEPT ![e] = new]
      BY <1>6 DEF Candidates
    <2>2. n = MaxAutoExtras /\ e \in 1 .. n /\ e > UseAutoExtras
      BY <1>1, <1>6, TablesAssumption DEF Evictable
    <2>3. /\ list \in Seq(AutoExtra) /\ Len(list) = n /\ list[e] = new
          /\ \A a \in 1 .. n : a # e => list[a] = a_extras[a]
      BY <1>1, <1>2, <2>1, <2>2
    <2>4. \A a \in 1 .. n : ~SameNoCase(a_extras[a].data, t) /\ ~SameNoCase(t, a_extras[a].data)
      BY <1>6, SameIsSymmetric DEF Known
    <2>5. Distinct(list)
      <3> SUFFICES ASSUME NEW a \in 1 .. n, NEW b \in 1 .. n, SameNoCase(list[a].data, list[b].data)
                   PROVE  a = b
        BY <2>3 DEF Distinct
      <3>1. CASE a # e /\ b # e
        BY <1>1, <2>3, <3>1 DEF Distinct
      <3>2. CASE a # e /\ b = e
        BY <1>2, <2>3, <2>4, <3>2
      <3>3. CASE a = e /\ b # e
        BY <1>2, <2>3, <2>4, <3>3
      <3> QED BY <3>1, <3>2, <3>3
    <2>6. \A k \in 1 .. n : list[k].data = a_extras[k].data \/ list[k].data = t
      BY <1>2, <2>3
    <2>7. \A k \in 1 .. Smaller(UseAutoExtras, n) : k \in 1 .. n /\ list[k].data = a_extras[k].data
      BY <1>1, <1>3, <2>2, <2>3, TablesAssumption
    <2> QED BY <1>1, <1>6, <2>2, <2>3, <2>5, <2>6, <2>7 DEF Autos, Used
  <1> QED BY <1>4, <1>5, <1>6

\* The tokens after a call for t: those of before and perhaps t, sorted, and
\* none of those in use is gone.
AddedTo(t) ==
  /\ \A k \in 1 .. Len(a_extras') :
       (\E a \in Autos : a_extras'[k].data = a_extras[a].data) \/ (Known(t) = {} /\ a_extras'[k].data = t)
  /\ \A k \in Used : \E a \in 1 .. Len(a_extras') : a_extras'[a].data = a_extras[k].data

LEMMA TokenAdded ==
  ASSUME DictInv, NEW t \in Seq(Byte), MaybeAddAuto(t), ~Refused(t)
  PROVE  /\ a_extras' \in Seq(AutoExtra) /\ a_extras' # <<>> /\ auto_changed' = TRUE
         /\ Len(a_extras') >= Len(a_extras)
         /\ TokensDistinct' /\ UsedAreBest' /\ AddedTo(t)
  <1>1. PICK list \in Candidates(t) : a_extras' \in Rankings(list)
    BY DEF MaybeAddAuto
  <1>2. /\ list \in Seq(AutoExtra) /\ Len(list) >= Len(a_extras) /\ Len(list) <= MaxAutoExtras
        /\ Distinct(list) /\ list # <<>>
        /\ \A k \in 1 .. Len(list) :
             (\E a \in Autos : list[k].data = a_extras[a].data) \/ (Known(t) = {} /\ list[k].data = t)
        /\ \A k \in Used : \E a \in 1 .. Len(list) : list[a].data = a_extras[k].data
    BY <1>1, CandidateList
  <1>3. PICK p : Sorts(a_extras', list, p)
    BY <1>1, <1>2, RankingSorts
  <1>4. /\ a_extras' \in Seq(AutoExtra) /\ Len(a_extras') = Len(list)
        /\ \A k \in 1 .. Len(list) : p[k] \in 1 .. Len(list) /\ a_extras'[k] = list[p[k]]
        /\ \A k \in 1 .. Len(list) : \E a \in 1 .. Len(list) : a_extras'[a] = list[k]
    BY <1>2, <1>3, SortedAgain
  <1>5. TokensDistinct'
    <2>1. \A a, b \in 1 .. Len(list) : a # b => p[a] # p[b]
      BY <1>3 DEF Sorts, Orders
    <2>2. ASSUME NEW a \in 1 .. Len(list), NEW b \in 1 .. Len(list),
                 SameNoCase(a_extras'[a].data, a_extras'[b].data)
          PROVE  a = b
      <3>1. SameNoCase(list[p[a]].data, list[p[b]].data)
        BY <1>4, <2>2
      <3>2. p[a] = p[b]
        BY <1>2, <1>4, <3>1 DEF Distinct
      <3> QED BY <2>1, <3>2
    <2>3. \A a, b \in 1 .. Len(a_extras') : SameNoCase(a_extras'[a].data, a_extras'[b].data) => a = b
      BY <1>4, <2>2
    <2> QED BY <1>2, <1>4, <2>3 DEF TokensDistinct, Autos, SameNoCase
  <1>6. UsedAreBest'
    <2> DEFINE use == Smaller(UseAutoExtras, Len(list))
    <2>1. DOMAIN list = 1 .. Len(list)
      BY <1>2
    <2>2. /\ \A a \in 1 .. Len(list), b \in 1 .. Len(list) :
               a < b /\ b > use => a_extras'[a].hit_cnt >= a_extras'[b].hit_cnt
          /\ \A a, b \in 1 .. use : a < b => Len(a_extras'[a].data) <= Len(a_extras'[b].data)
      BY <1>1, <2>1 DEF Rankings
    <2>3. use \in Nat /\ use <= Len(list)
      <3>1. Len(list) \in Nat /\ UseAutoExtras \in Nat
        BY <1>2, TablesAssumption
      <3> QED BY <3>1, SmallerOfTwo
    <2>4. Autos' = 1 .. Len(list) /\ Used' = 1 .. use
      BY <1>4 DEF Autos, Used
    <2> HIDE DEF use
    <2>5. \A a \in 1 .. use, b \in (1 .. Len(list)) \ (1 .. use) :
            a \in 1 .. Len(list) /\ b \in 1 .. Len(list) /\ a < b /\ b > use
      BY <1>2, <2>3
    <2> QED BY <2>2, <2>4, <2>5 DEF UsedAreBest
  <1>7. AddedTo(t)
    <2>1. \A k \in 1 .. Len(a_extras') :
            (\E a \in Autos : a_extras'[k].data = a_extras[a].data) \/ (Known(t) = {} /\ a_extras'[k].data = t)
      <3> TAKE k \in 1 .. Len(a_extras')
      <3>1. k \in 1 .. Len(list) /\ p[k] \in 1 .. Len(list) /\ a_extras'[k] = list[p[k]]
        BY <1>4
      <3>2. (\E a \in Autos : list[p[k]].data = a_extras[a].data) \/ (Known(t) = {} /\ list[p[k]].data = t)
        BY <1>2, <3>1
      <3> QED BY <3>1, <3>2
    <2>2. ASSUME NEW k \in Used PROVE \E a \in 1 .. Len(a_extras') : a_extras'[a].data = a_extras[k].data
      <3>1. PICK a \in 1 .. Len(list) : list[a].data = a_extras[k].data
        BY <1>2
      <3>2. PICK b \in 1 .. Len(list) : a_extras'[b] = list[a]
        BY <1>4
      <3> QED BY <1>4, <3>1, <3>2
    <2> QED BY <2>1, <2>2 DEF AddedTo
  <1>8. a_extras' # <<>> /\ Len(a_extras') >= Len(a_extras)
    BY <1>2, <1>4
  <1> QED BY <1>4, <1>5, <1>6, <1>7, <1>8 DEF MaybeAddAuto

\* What is on disk is less than what is used, whatever is added.
LEMMA SavedGrows ==
  ASSUME DictTypes, a_extras' \in Seq(AutoExtra), Len(a_extras') >= Len(a_extras)
  PROVE  Saved \in Nat /\ Saved' \in Nat /\ Saved <= Saved'
  <1>1. Len(a_extras) \in Nat /\ Len(a_extras') \in Nat /\ UseAutoExtras \in Nat /\ Len(a_extras) <= Len(a_extras')
    BY TablesAssumption DEF DictTypes
  <1>2. Saved = Smaller(UseAutoExtras, Len(a_extras)) /\ Saved' = Smaller(UseAutoExtras, Len(a_extras'))
    BY DEF Saved
  <1> QED BY <1>1, <1>2, SmallerOfTwo

\* A call of maybe_add_auto() while nothing is being saved.
LEMMA AddKeepsInv ==
  ASSUME DictInv, NEW t \in Seq(Byte), MaybeAddAuto(t),
         UNCHANGED <<extras, dict_type, auto_files, old_files, phase>>,
         \/ phase = "load" /\ saving' = saving + 1
         \/ phase = "run" /\ saving = 0 /\ saving' = saving
  PROVE  DictInv'
  <1>1. CASE Refused(t)
    <2>1. UNCHANGED <<a_extras, auto_changed>>
      BY <1>1 DEF MaybeAddAuto
    <2>2. DictTypes' /\ ExtrasSorted' /\ TokensDistinct' /\ UsedAreBest'
      BY <2>1 DEF DictInv, DictTypes, ExtrasSorted, TokensDistinct, UsedAreBest, Autos, Used
    <2>3. OnDisk'
      BY <2>1 DEF DictInv, DictTypes, OnDisk, InFiles, Saved
    <2> QED BY <2>2, <2>3 DEF DictInv
  <1>2. CASE ~Refused(t)
    <2>1. /\ a_extras' \in Seq(AutoExtra) /\ a_extras' # <<>> /\ auto_changed' = TRUE
          /\ Len(a_extras') >= Len(a_extras) /\ TokensDistinct' /\ UsedAreBest'
      BY <1>2, TokenAdded
    <2>2. DictTypes' /\ ExtrasSorted'
      BY <2>1 DEF DictInv, DictTypes, ExtrasSorted
    <2>3. Saved \in Nat /\ Saved' \in Nat /\ Saved <= Saved'
      BY <2>1, SavedGrows DEF DictInv
    <2>4. OnDisk'
      BY <2>1, <2>3 DEF DictInv, DictTypes, OnDisk
    <2> QED BY <2>1, <2>2, <2>4 DEF DictInv
  <1> QED BY <1>1, <1>2

\* What is new to the list is new to both dictionaries: InExtras() meets every
\* token of the user that is as long.
LEMMA NewTokens ==
  ASSUME DictInv, NEW t \in Seq(Byte), MaybeAddAuto(t), a_extras' # a_extras,
         NEW k \in DOMAIN a_extras', \A a \in Autos : a_extras[a].data # a_extras'[k].data
  PROVE  /\ \A a \in Autos : ~SameNoCase(a_extras[a].data, a_extras'[k].data)
         /\ \A a \in 1 .. Len(extras) : ~SameNoCase(extras[a], a_extras'[k].data)
  <1>1. ~Refused(t)
    BY DEF MaybeAddAuto
  <1>2. a_extras' \in Seq(AutoExtra) /\ AddedTo(t)
    BY <1>1, TokenAdded
  <1>3. Known(t) = {} /\ a_extras'[k].data = t
    BY <1>2 DEF AddedTo
  <1>4. ASSUME NEW a \in 1 .. Len(extras), SameNoCase(extras[a], t) PROVE FALSE
    <2> DEFINE T == {b \in 1 .. Len(extras) : Len(extras[b]) = Len(t)}
    <2>1. extras \in Seq(Seq(Byte)) /\ ExtrasSorted /\ Len(t) \in Nat
          /\ \A b \in 1 .. Len(extras) : Len(extras[b]) \in Nat
      BY DEF DictInv, DictTypes
    <2>2. a \in T
      BY <1>4 DEF SameNoCase
    <2>3. PICK f \in T : \A b \in T : f <= b
      <3>1. T \subseteq Nat /\ T # {}
        BY <2>2
      <3> HIDE DEF T
      <3> QED BY <3>1, LeastNumber
    <2>4. f \in 1 .. Len(extras) /\ Len(extras[f]) = Len(t) /\ Len(extras[a]) = Len(t) /\ f <= a
      BY <2>2, <2>3
    <2>5. \A b \in 1 .. f - 1 : Len(extras[b]) < Len(t)
      <3> TAKE b \in 1 .. f - 1
      <3>1. b \in 1 .. Len(extras) /\ b < f
        BY <2>1, <2>4
      <3>2. b \notin T
        BY <2>3, <3>1
      <3>3. Len(extras[b]) # Len(t) /\ Len(extras[b]) <= Len(extras[f])
        BY <2>1, <2>4, <3>1, <3>2 DEF ExtrasSorted
      <3> QED BY <2>1, <2>4, <3>1, <3>3
    <2>6. \A b \in f .. a : Len(extras[b]) = Len(t)
      <3> TAKE b \in f .. a
      <3>1. b \in 1 .. Len(extras) /\ (b = f \/ f < b) /\ (b = a \/ b < a)
        BY <2>1, <2>4
      <3>2. (f < b => Len(extras[f]) <= Len(extras[b])) /\ (b < a => Len(extras[b]) <= Len(extras[a]))
        BY <2>1, <2>4, <3>1 DEF ExtrasSorted
      <3> QED BY <2>1, <2>4, <3>1, <3>2
    <2>7. InExtras(t)
      BY <1>4, <2>4, <2>5, <2>6 DEF InExtras
    <2> QED BY <1>1, <2>7 DEF Refused
  <1>5. \A a \in Autos : ~SameNoCase(a_extras[a].data, t)
    BY <1>3 DEF Known, Autos
  <1> QED BY <1>3, <1>4, <1>5

\* The list as it is: its tokens, their order and the number of files.
LEMMA ListKept ==
  ASSUME DictInv, UNCHANGED a_extras
  PROVE  TokensDistinct' /\ UsedAreBest' /\ Saved' = Saved /\ Saved \in Nat
  <1>1. Len(a_extras) \in Nat /\ UseAutoExtras \in Nat
    BY TablesAssumption DEF DictInv, DictTypes
  <1> QED BY <1>1, SmallerOfTwo DEF DictInv, TokensDistinct, UsedAreBest, Autos, Used, Saved

LEMMA NothingYet == <<>> \in Seq(AutoExtra) /\ <<>> \in Seq(Seq(Byte))
  OBVIOUS

LEMMA LoadAutoInv ==
  ASSUME DictInv, LoadAuto
  PROVE  DictInv'
  <1> DEFINE t == old_files[saving + 1]
  <1>1. t \in Seq(Byte)
    BY DEF LoadAuto, DictInv, DictTypes
  <1>2. CASE Len(t) \in MinAutoExtra .. MaxAutoExtra
    BY <1>1, <1>2, AddKeepsInv DEF LoadAuto
  <1>3. CASE Len(t) \notin MinAutoExtra .. MaxAutoExtra
    <2>1. UNCHANGED <<a_extras, auto_changed>>
      BY <1>3 DEF LoadAuto
    <2>2. TokensDistinct' /\ UsedAreBest'
      BY <2>1, ListKept
    <2> QED BY <2>1, <2>2 DEF LoadAuto, DictInv, DictTypes, ExtrasSorted, OnDisk
  <1> QED BY <1>2, <1>3

LEMMA DiscoverInv ==
  ASSUME DictInv, Discover
  PROVE  DictInv'
  <1>1. PICK t \in Tokens : MaybeAddAuto(t)
    BY DEF Discover
  <1>2. t \in Seq(Byte)
    BY TokensAssumption
  <1> QED BY <1>1, <1>2, AddKeepsInv DEF Discover

LEMMA LoadExtrasInv ==
  ASSUME DictInv, LoadExtras
  PROVE  DictInv'
  <1>1. TokensDistinct' /\ UsedAreBest' /\ Saved' = Saved
    BY ListKept DEF LoadExtras
  <1>2. extras' \in Seq(Seq(Byte)) /\ ExtrasSorted' /\ dict_type' \in {"original", "optimized"}
    <2>1. CASE extras' = <<>> /\ dict_type' = "original"
      BY <2>1 DEF ExtrasSorted
    <2>2. CASE ~(extras' = <<>> /\ dict_type' = "original")
      <3>1. PICK n \in 1 .. MaxUser, kind \in {"plain", "optimized", "directory"} :
              \E list \in [1 .. n -> Tokens] :
                 dict_type' = (IF kind = "optimized" THEN kind ELSE "original") /\ extras' \in BySize(list)
        BY <2>2 DEF LoadExtras
      <3>2. PICK list \in [1 .. n -> Tokens] :
               dict_type' = (IF kind = "optimized" THEN kind ELSE "original") /\ extras' \in BySize(list)
        BY <3>1
      <3>3. list \in Seq(Seq(Byte)) /\ Len(list) \in Nat /\ DOMAIN list = 1 .. Len(list)
        BY TokensAssumption, TablesAssumption
      <3>4. PICK p : Sorts(extras', list, p)
        BY <3>2, <3>3, BySizeSorts
      <3>5. extras' \in Seq(Seq(Byte)) /\ Len(extras') = Len(list)
        BY <3>3, <3>4, SortedAgain
      <3>6. \A a, b \in 1 .. Len(list) : a < b => Len(extras'[a]) <= Len(extras'[b])
        BY <3>2, <3>3 DEF BySize
      <3> QED BY <3>2, <3>5, <3>6 DEF ExtrasSorted
    <2> QED BY <2>1, <2>2
  <1>3. DictTypes'
    BY <1>2 DEF LoadExtras, DictInv, DictTypes
  <1>4. Len(auto_files') = 0 /\ (~auto_changed' => a_extras' = <<>>) /\ phase' = "run" /\ saving' = 0
    BY DEF LoadExtras, DictInv, OnDisk
  <1>5. Saved \in Nat /\ (a_extras' = <<>> => Saved' = 0)
    <2>1. Len(a_extras) \in Nat /\ UseAutoExtras \in Nat
      BY TablesAssumption DEF DictInv, DictTypes
    <2>2. a_extras' = <<>> => Len(a_extras') = 0
      OBVIOUS
    <2> QED BY <2>1, <2>2, SmallerOfTwo, ListKept DEF Saved, LoadExtras, Smaller
  <1>6. OnDisk'
    BY <1>1, <1>4, <1>5 DEF OnDisk, InFiles
  <1> QED BY <1>1, <1>2, <1>3, <1>6 DEF DictInv

LEMMA SaveAutoInv ==
  ASSUME DictInv, SaveAuto
  PROVE  DictInv'
  <1>1. TokensDistinct' /\ UsedAreBest' /\ Saved' = Saved /\ Saved \in Nat
    BY ListKept DEF SaveAuto
  <1>2. DictTypes' /\ ExtrasSorted'
    BY DEF SaveAuto, DictInv, DictTypes, ExtrasSorted
  <1>3. CASE a_extras = <<>>
    <2>1. Saved = 0
      BY <1>3, TablesAssumption DEF Saved, Smaller
    <2>2. Len(auto_files) \in Nat /\ Len(auto_files) <= Saved
      BY DEF SaveAuto, DictInv, DictTypes, OnDisk
    <2> QED BY <1>1, <1>2, <1>3, <2>1, <2>2 DEF SaveAuto, DictInv, OnDisk, InFiles
  <1>4. CASE a_extras # <<>>
    <2>1. Saved >= 1
      <3>1. Len(a_extras) \in Nat \ {0} /\ UseAutoExtras \in Nat \ {0}
        BY <1>4, TablesAssumption DEF DictInv, DictTypes
      <3> QED BY <3>1 DEF Saved, Smaller
    <2>2. Len(auto_files) \in Nat /\ Len(auto_files) <= Saved
      BY DEF SaveAuto, DictInv, DictTypes, OnDisk
    <2> QED BY <1>1, <1>2, <1>4, <2>1, <2>2 DEF SaveAuto, DictInv, OnDisk, InFiles
  <1> QED BY <1>3, <1>4

LEMMA TruncateInv ==
  ASSUME DictInv, Truncate
  PROVE  DictInv'
  <1>1. TokensDistinct' /\ UsedAreBest' /\ Saved' = Saved /\ Saved \in Nat
    BY ListKept DEF Truncate
  <1>2. /\ auto_files \in Seq(Seq(Byte)) /\ saving \in Nat /\ saving # 0 /\ saving <= Saved
        /\ Len(auto_files) <= Saved /\ saving - 1 <= Len(auto_files) /\ InFiles(saving - 1) /\ ~auto_changed
    BY DEF Truncate, DictInv, DictTypes, OnDisk
  <1>3. /\ auto_files' \in Seq(Seq(Byte)) /\ Len(auto_files') <= Saved /\ saving <= Len(auto_files')
        /\ \A k \in 1 .. saving - 1 : auto_files'[k] = auto_files[k]
    <2>1. <<>> \in Seq(Byte)
      OBVIOUS
    <2>2. CASE saving > Len(auto_files)
      BY <1>1, <1>2, <2>1, <2>2 DEF Truncate
    <2>3. CASE ~(saving > Len(auto_files))
      <3>1. auto_files' = [auto_files EXCEPT ![saving] = <<>>]
        BY <2>3 DEF Truncate
      <3> QED BY <1>1, <1>2, <2>1, <2>3, <3>1
    <2> QED BY <2>2, <2>3
  <1>4. DictTypes' /\ ExtrasSorted'
    BY <1>3 DEF Truncate, DictInv, DictTypes, ExtrasSorted
  <1>5. OnDisk'
    BY <1>1, <1>2, <1>3 DEF Truncate, OnDisk, InFiles
  <1> QED BY <1>1, <1>4, <1>5 DEF DictInv

LEMMA WriteFileInv ==
  ASSUME DictInv, WriteFile
  PROVE  DictInv'
  <1>1. TokensDistinct' /\ UsedAreBest' /\ Saved' = Saved /\ Saved \in Nat
    BY ListKept DEF WriteFile
  <1>2. /\ auto_files \in Seq(Seq(Byte)) /\ saving \in Nat /\ saving # 0 /\ saving <= Saved
        /\ Len(auto_files) <= Saved /\ saving <= Len(auto_files) /\ InFiles(saving - 1) /\ ~auto_changed
    BY DEF WriteFile, DictInv, DictTypes, OnDisk
  <1>3. saving \in 1 .. Len(a_extras) /\ a_extras[saving].data \in Seq(Byte)
    <2>1. a_extras \in Seq(AutoExtra) /\ Len(a_extras) \in Nat /\ UseAutoExtras \in Nat
      BY TablesAssumption DEF DictInv, DictTypes
    <2>2. Saved <= Len(a_extras)
      BY <2>1, SmallerOfTwo DEF Saved
    <2>3. saving \in 1 .. Len(a_extras)
      BY <1>1, <1>2, <2>1, <2>2
    <2>4. a_extras[saving] \in AutoExtra
      BY <2>1, <2>3
    <2> QED BY <2>3, <2>4 DEF AutoExtra
  <1>4. /\ auto_files' \in Seq(Seq(Byte)) /\ Len(auto_files') = Len(auto_files)
        /\ \A k \in 1 .. saving : auto_files'[k] = a_extras'[k].data
    <2>1. auto_files' = [auto_files EXCEPT ![saving] = a_extras[saving].data] /\ a_extras' = a_extras
      BY DEF WriteFile
    <2>2. saving \in 1 .. Len(auto_files)
      BY <1>2
    <2>3. \A k \in 1 .. saving : k = saving \/ k \in 1 .. saving - 1
      BY <1>2
    <2> QED BY <1>2, <1>3, <2>1, <2>2, <2>3 DEF InFiles
  <1>5. saving' \in Nat
    BY <1>2 DEF WriteFile
  <1>6. DictTypes' /\ ExtrasSorted'
    BY <1>4, <1>5 DEF WriteFile, DictInv, DictTypes, ExtrasSorted
  <1>7. OnDisk'
    <2>1. CASE saving >= Saved
      <3>1. saving = Saved /\ Len(auto_files') = Saved /\ saving' = 0
        <4>1. Len(auto_files) \in Nat
          BY <1>2
        <4>2. saving = Saved
          BY <1>1, <1>2, <2>1
        <4>3. Len(auto_files') = Saved
          BY <1>1, <1>2, <1>4, <4>1, <4>2
        <4>4. saving' = 0
          BY <2>1 DEF WriteFile
        <4> QED BY <4>2, <4>3, <4>4
      <3> QED BY <1>1, <1>2, <1>4, <3>1 DEF WriteFile, OnDisk, InFiles
    <2>2. CASE ~(saving >= Saved)
      <3>1. saving' = saving + 1 /\ saving' <= Saved /\ saving' # 0 /\ saving' - 1 = saving
        BY <1>1, <1>2, <2>2 DEF WriteFile
      <3> QED BY <1>1, <1>2, <1>4, <3>1 DEF WriteFile, OnDisk, InFiles
    <2> QED BY <2>1, <2>2
  <1> QED BY <1>1, <1>6, <1>7 DEF DictInv

\* An end leaves the list, a start empties it.
LEMMA SessionsInv ==
  ASSUME DictInv, Pivot \/ LoadFails \/ Kill \/ Restart
  PROVE  DictInv'
  <1>1. CASE Pivot \/ LoadFails \/ Kill
    <2>1. UNCHANGED <<extras, dict_type, a_extras, auto_changed, auto_files>>
          /\ old_files' \in {old_files, <<>>} /\ saving' \in {saving, 0}
          /\ phase' \in {"extras", "down"}
          /\ (phase' = "extras" => phase = "load" /\ saving' = 0)
      BY <1>1 DEF Pivot, LoadFails, Kill
    <2>2. TokensDistinct' /\ UsedAreBest'
      BY <2>1, ListKept
    <2>3. DictTypes' /\ ExtrasSorted'
      <3>1. old_files' \in Seq(Seq(Byte)) /\ saving' \in Nat
        <4>1. old_files \in Seq(Seq(Byte)) /\ saving \in Nat
          BY DEF DictInv, DictTypes
        <4>2. (old_files' = old_files \/ old_files' = <<>>) /\ (saving' = saving \/ saving' = 0)
          BY <2>1
        <4>3. old_files' \in Seq(Seq(Byte))
          BY <4>1, <4>2, NothingYet, Zenon
        <4> QED BY <4>1, <4>2, <4>3
      <3> QED BY <2>1, <3>1 DEF DictInv, DictTypes, ExtrasSorted
    <2>4. OnDisk'
      BY <2>1 DEF DictInv, OnDisk
    <2> QED BY <2>2, <2>3, <2>4 DEF DictInv
  <1>2. CASE Restart
    <2>1. /\ extras' = <<>> /\ a_extras' = <<>> /\ auto_files' = <<>> /\ phase' = "load"
          /\ dict_type' = "original" /\ auto_changed' = FALSE /\ saving' = 0
          /\ old_files' \in {old_files, auto_files}
      BY <1>2 DEF Restart
    <2>2. DictTypes'
      BY <2>1, NothingYet DEF DictInv, DictTypes
    <2>5. ExtrasSorted' /\ OnDisk'
      BY <2>1 DEF ExtrasSorted, OnDisk
    <2>3. Autos' = {} /\ Used' = {} /\ Len(a_extras') = 0
      BY <2>1, TablesAssumption DEF Autos, Used, Smaller
    <2>4. TokensDistinct' /\ UsedAreBest'
      BY <2>3, TablesAssumption DEF TokensDistinct, UsedAreBest
    <2> QED BY <2>2, <2>4, <2>5 DEF DictInv
  <1> QED BY <1>1, <1>2

LEMMA DictStutters ==
  ASSUME DictInv, UNCHANGED dictVars
  PROVE  DictInv'
  <1> USE DEF dictVars
  <1>1. TokensDistinct' /\ UsedAreBest' /\ Saved' = Saved
    BY ListKept
  <1>2. DictTypes' /\ ExtrasSorted'
    BY DEF DictInv, DictTypes, ExtrasSorted
  <1>3. OnDisk'
    BY <1>1 DEF DictInv, OnDisk, InFiles
  <1> QED BY <1>1, <1>2, <1>3 DEF DictInv

LEMMA DictInvAtStart == DictStart => DictInv
  <1> SUFFICES ASSUME DictStart PROVE DictInv
    OBVIOUS
  <1>1. DictTypes
    BY NothingYet DEF DictStart, DictTypes
  <1>3. ExtrasSorted /\ OnDisk
    BY DEF DictStart, ExtrasSorted, OnDisk
  <1>2. Autos = {} /\ Used = {} /\ Len(a_extras) = 0
    BY TablesAssumption DEF DictStart, Autos, Used, Smaller
  <1> QED BY <1>1, <1>2, <1>3, TablesAssumption DEF DictInv, TokensDistinct, UsedAreBest

LEMMA DictInvNext ==
  ASSUME DictInv, [DictNext]_dictVars
  PROVE  DictInv'
  <1>1. CASE UNCHANGED dictVars
    BY <1>1, DictStutters
  <1>2. CASE DictNext
    BY <1>2, LoadAutoInv, LoadExtrasInv, DiscoverInv, SaveAutoInv, TruncateInv, WriteFileInv, SessionsInv
       DEF DictNext
  <1> QED BY <1>1, <1>2

\* What the saved tokens are when save_auto() is done.
LEMMA FilesAreTheUsed == DictInv => SavedAreUsed
  <1> SUFFICES ASSUME DictInv, phase = "run", saving = 0, ~auto_changed
               PROVE  {auto_files[k] : k \in 1 .. Len(auto_files)} = {a_extras[k].data : k \in Used}
    BY DEF SavedAreUsed
  <1>1. Len(auto_files) = Saved /\ \A k \in 1 .. Saved : auto_files[k] = a_extras[k].data
    BY DEF DictInv, OnDisk, InFiles
  <1>2. Used = 1 .. Saved
    BY DEF Used, Saved
  <1> QED BY <1>1, <1>2

\* For any tokens, limits and number of sessions, and however qsort() orders equals
\* and whichever token is evicted (maybe_add_auto(), load_auto(), save_auto(),
\* load_extras()): no token is held twice, those used most are in use, those in use
\* are on disk, and what is taken in is new to both dictionaries.
THEOREM TokensAreExact == DictSpec => TokensExact
  <1> DEFINE Fresh == \A n \in DOMAIN a_extras' :
                        LET t == a_extras'[n].data
                        IN (\A k \in Autos : a_extras[k].data # t) =>
                             /\ \A k \in Autos : ~SameNoCase(a_extras[k].data, t)
                             /\ \A k \in 1 .. Len(extras) : ~SameNoCase(extras[k], t)
             Stay == \A k \in Used : \E n \in DOMAIN a_extras' : a_extras'[n].data = a_extras[k].data
  <1>1. DictInit => DictInv
    BY DictInvAtStart DEF DictInit
  <1>2. DictInv /\ [DictNext]_dictVars => DictInv'
    BY DictInvNext
  <1>3. DictInv => TokensDistinct /\ UsedAreBest /\ SavedAreUsed
    BY FilesAreTheUsed DEF DictInv
  <1>4. ASSUME DictInv, [DictNext]_dictVars, phase = "run", a_extras' # a_extras
        PROVE  Fresh /\ Stay
    <2>1. Discover
      BY <1>4 DEF DictNext, dictVars, LoadAuto, Pivot, LoadExtras, LoadFails, SaveAuto, Truncate,
                  WriteFile, Kill, Restart
    <2>2. PICK t \in Tokens : MaybeAddAuto(t)
      BY <2>1 DEF Discover
    <2>3. t \in Seq(Byte) /\ ~Refused(t)
      BY <1>4, <2>2, TokensAssumption DEF MaybeAddAuto
    <2>4. a_extras' \in Seq(AutoExtra) /\ AddedTo(t)
      BY <1>4, <2>2, <2>3, TokenAdded
    <2>5. Fresh
      BY <1>4, <2>2, <2>3, NewTokens
    <2>6. Stay
      <3>1. DOMAIN a_extras' = 1 .. Len(a_extras')
        BY <2>4
      <3> QED BY <2>4, <3>1 DEF AddedTo
    <2> QED BY <2>5, <2>6
  <1>5. DictInv /\ [DictNext]_dictVars => [phase = "run" /\ a_extras' # a_extras => Fresh /\ Stay]_dictVars
    BY <1>4
  <1>6. DictSpec => [](TokensDistinct /\ UsedAreBest /\ SavedAreUsed)
    BY <1>1, <1>2, <1>3, PTL DEF DictSpec
  <1>7. DictSpec => [][phase = "run" /\ a_extras' # a_extras => Fresh /\ Stay]_dictVars
    BY <1>1, <1>2, <1>5, PTL DEF DictSpec
  <1> QED BY <1>6, <1>7, PTL DEF TokensExact, OnlyNewTokens

-----------------------------------------------------------------------------
(* The stages that collect tokens and use them. *)

ByLength(list) == \A a, b \in 1 .. Len(list) : a < b => Len(list[a]) <= Len(list[b])

TokenTypes ==
  /\ in_buf \in Seq(Byte) /\ out_buf \in Seq(Byte)
  /\ q_extras \in Seq(Seq(Byte)) /\ ByLength(q_extras)
  /\ a_collect \in Seq(Byte) /\ a_len \in Nat /\ cksums \in Seq(Cksums \cup {Orig})
  /\ i \in Nat \ {0} /\ j \in Nat \ {0} /\ last_len \in Nat
  /\ step \in {"idle", "collect", "effector", "over", "insert", "autoover"}

\* Nothing is left of the entry before.
Cleared == a_collect = <<>> /\ a_len = 0 /\ prev_cksum = Orig /\ cksums = <<>> /\ offered = {}

\* The dictionaries stay while an entry is fuzzed, but for tokens found.
Begun ==
  /\ step # "idle" => phase = "run" /\ saving = 0 /\ in_buf # <<>>
  /\ step = "idle" => i = 1 /\ Cleared
  /\ step \in {"idle", "collect", "effector"} => j = 1 /\ last_len = 0 /\ ran = {}
  /\ step \in {"collect", "effector"} => out_buf = in_buf

-----------------------------------------------------------------------------
(* bitflip 1/1 *)

\* The bytes from a to b form a token of the right length.
IsToken(a, b) == a <= b /\ InLimits(b - a + 1) /\ IsRun(a, b)

\* What is offered is the runs that end at n at the latest, single bytes apart.
OfferedUpTo(n) ==
  /\ \A t \in offered : Len(t) > 1 =>
       \E a, b \in 1 .. len : b <= n /\ IsToken(a, b) /\ t = SubSeq(in_buf, a, b)
  /\ \A a, b \in 1 .. len : a < b /\ b <= n /\ IsToken(a, b) => SubSeq(in_buf, a, b) \in offered

\* The token under way begins where the checksum became what it is.
UnderWay ==
  /\ Len(cksums) = i - 1
  /\ prev_cksum = IF i = 1 THEN Orig ELSE cksums[i - 1]
  /\ prev_cksum = Orig => a_len = 0
  /\ prev_cksum # Orig =>
       /\ a_len \in 1 .. i - 1
       /\ \A k \in i - a_len .. i - 1 : cksums[k] = prev_cksum
       /\ i - a_len > 1 => cksums[i - a_len - 1] # prev_cksum
  /\ a_len <= MaxAutoExtra => a_collect = SubSeq(in_buf, i - a_len, i - 1)

Collecting ==
  /\ step = "collect" => i \in 1 .. len /\ UnderWay /\ OfferedUpTo(i - 2)
  /\ step = "effector" => Len(cksums) = len /\ OfferedUpTo(len)

-----------------------------------------------------------------------------
(* user extras (over), auto extras (over) *)

\* Token n was run at offset k, or need not be.
TriedIn(k, n, runs) ==
  LET t == OverTokens[n]
  IN Len(t) > len - k + 1 \/ ~Effective(k, Len(t)) \/ Over(in_buf, k, t) \in runs \cup {in_buf}

\* The tokens grow, so that the one at hand covers what the last one left.
Overwriting ==
  step \in {"over", "autoover"} =>
    /\ i \in 1 .. len + 1 /\ j \in 1 .. Len(OverTokens) + 1
    /\ i = len + 1 => j = 1
    /\ j = 1 => last_len = 0
    /\ last_len <= len - i + 1
    /\ \A n \in j .. Len(OverTokens) : last_len <= Len(OverTokens[n])
    /\ Len(out_buf) = len /\ out_buf \in ran \cup {in_buf}
    /\ \A k \in 1 .. len : k \notin i .. i + last_len - 1 => out_buf[k] = in_buf[k]
    /\ \A b \in ran : \E k \in 1 .. len, n \in 1 .. Len(OverTokens) : b = Over(in_buf, k, OverTokens[n])
    /\ \A k \in 1 .. len, n \in 1 .. Len(OverTokens) : k < i \/ (k = i /\ n < j) => TriedIn(k, n, ran)

-----------------------------------------------------------------------------
(* user extras (insert) *)

Inserted(k, t) == SubSeq(in_buf, 1, k) \o t \o SubSeq(in_buf, k + 1, len)

Inserting ==
  step = "insert" =>
    /\ i \in 1 .. len + 2 /\ j \in 1 .. Len(UserTokens) + 1 /\ last_len = 0
    /\ i = len + 2 => j = 1
    /\ i <= len + 1 => Len(out_buf) >= i - 1 /\ \A k \in 1 .. i - 1 : out_buf[k] = in_buf[k]
    /\ \A b \in ran : \E k \in 0 .. len, n \in 1 .. Len(UserTokens) : b = Inserted(k, UserTokens[n])
    /\ \A k \in 0 .. len, n \in 1 .. Len(UserTokens) : k + 1 < i \/ (k + 1 = i /\ n < j) =>
         len + Len(UserTokens[n]) > MaxFile \/ Inserted(k, UserTokens[n]) \in ran

\* The invariant of the stages.
TokenInv == DictInv /\ TokenTypes /\ Begun /\ Collecting /\ Overwriting /\ Inserting

-----------------------------------------------------------------------------
(* Collecting: lemmas about runs of checksums. *)

LEMMA OneByte ==
  ASSUME NEW s \in Seq(Byte), NEW n \in 1 .. Len(s)
  PROVE  SubSeq(s, n, n) = <<s[n]>>
  <1>1. s[n] \in Byte
    OBVIOUS
  <1>2. SubSeq(s, n, n) \in Seq(Byte) /\ Len(SubSeq(s, n, n)) = 1 /\ SubSeq(s, n, n)[1] = s[n]
    OBVIOUS
  <1>3. <<s[n]>> \in Seq(Byte) /\ Len(<<s[n]>>) = 1 /\ <<s[n]>>[1] = s[n]
    BY <1>1
  <1> DEFINE x == SubSeq(s, n, n)
             y == <<s[n]>>
  <1> HIDE DEF x, y
  <1>4. \A k \in 1 .. Len(x) : x[k] = y[k]
    BY <1>2, <1>3 DEF x, y
  <1>5. x = y
    BY <1>2, <1>3, <1>4, SeqEqual DEF x, y
  <1> QED BY <1>5 DEF x, y

LEMMA OneMoreByte ==
  ASSUME NEW s \in Seq(Byte), NEW m \in 1 .. Len(s), NEW n \in Nat, m <= n + 1, n + 1 <= Len(s)
  PROVE  SubSeq(s, m, n + 1) = Append(SubSeq(s, m, n), s[n + 1])
  <1>1. CASE m = n + 1
    <2>1. SubSeq(s, m, n) = <<>>
      BY <1>1, SubSeqEmpty
    <2>2. SubSeq(s, m, n + 1) = <<s[n + 1]>>
      BY <1>1, OneByte
    <2> QED BY <2>1, <2>2
  <1>2. CASE m <= n
    <2>1. n + 1 \in m .. Len(s) /\ (n + 1) - 1 = n
      BY <1>2
    <2>2. SubSeq(s, m, n + 1) = SubSeq(s, m, n) \o << s[n + 1] >>
      BY <2>1, SubSeqRecursiveSecond
    <2>3. SubSeq(s, m, n) \in Seq(Byte) /\ s[n + 1] \in Byte
      BY <1>2
    <2> QED BY <2>2, <2>3, AppendIsConcat
  <1> QED BY <1>1, <1>2

\* IsRun for the checksums cs.
RunIn(cs, a, b) ==
  /\ \A k \in a .. b : cs[k] = cs[a] /\ cs[k] # Orig
  /\ a > 1 => cs[a - 1] # cs[a]
  /\ b < len => cs[b + 1] # cs[b]

TokenIn(cs, a, b) == a <= b /\ InLimits(b - a + 1) /\ RunIn(cs, a, b)

AllOffered(set, cs, n) ==
  /\ \A t \in set : Len(t) > 1 =>
       \E a, b \in 1 .. len : b <= n /\ TokenIn(cs, a, b) /\ t = SubSeq(in_buf, a, b)
  /\ \A a, b \in 1 .. len : a < b /\ b <= n /\ TokenIn(cs, a, b) => SubSeq(in_buf, a, b) \in set

LEMMA OfferedIn ==
  ASSUME NEW n
  PROVE  OfferedUpTo(n) <=> AllOffered(offered, cksums, n)
  BY DEF OfferedUpTo, AllOffered, IsToken, TokenIn, IsRun, RunIn

LEMMA OneRunEndsThere ==
  ASSUME NEW cs, NEW b \in Nat, NEW a \in 1 .. b, NEW d \in 1 .. b, RunIn(cs, a, b), RunIn(cs, d, b)
  PROVE  a = d
  <1>1. ASSUME NEW x \in 1 .. b, NEW y \in 1 .. b, RunIn(cs, x, b), RunIn(cs, y, b), x < y PROVE FALSE
    <2>1. y - 1 \in x .. b /\ y \in x .. b /\ y > 1
      BY <1>1
    <2>2. cs[y - 1] = cs[x] /\ cs[y] = cs[x]
      BY <1>1, <2>1 DEF RunIn
    <2> QED BY <1>1, <2>1, <2>2 DEF RunIn
  <1>2. a < d \/ d < a \/ a = d
    OBVIOUS
  <1> QED BY <1>1, <1>2

\* One more checksum changes no run that had ended.
LEMMA RunsStay ==
  ASSUME NEW cs \in Seq(Cksums \cup {Orig}), NEW c, NEW b \in Nat, b + 1 <= Len(cs), NEW a \in 1 .. b
  PROVE  RunIn(Append(cs, c), a, b) <=> RunIn(cs, a, b)
  <1> DEFINE ds == Append(cs, c)
  <1>1. \A k \in 1 .. Len(cs) : ds[k] = cs[k]
    OBVIOUS
  <1>2. b + 1 \in 1 .. Len(cs) /\ b \in 1 .. Len(cs) /\ a \in 1 .. Len(cs) /\ (a > 1 => a - 1 \in 1 .. Len(cs))
        /\ \A k \in a .. b : k \in 1 .. Len(cs)
    OBVIOUS
  <1> HIDE DEF ds
  <1>3. ds[b + 1] = cs[b + 1] /\ ds[b] = cs[b] /\ ds[a] = cs[a] /\ (a > 1 => ds[a - 1] = cs[a - 1])
        /\ \A k \in a .. b : ds[k] = cs[k]
    BY <1>1, <1>2
  <1>4. RunIn(ds, a, b) <=> RunIn(cs, a, b)
    BY <1>3 DEF RunIn
  <1> QED BY <1>4 DEF ds

-----------------------------------------------------------------------------
(* One byte. *)

LEMMA UnderWayNext ==
  ASSUME TokenTypes, step = "collect", i \in 1 .. len, UnderWay, NEW c \in Cksums \cup {Orig}, Collect(c),
         cksums' = Append(cksums, c), i' = i + 1, in_buf' = in_buf
  PROVE  UnderWay'
  <1> DEFINE ends == c # prev_cksum
             old == IF ends THEN <<>> ELSE a_collect
  <1>1. /\ prev_cksum' = c
        /\ a_collect' = IF c = Orig THEN old ELSE IF ends THEN <<in_buf[i]>> ELSE Grown(a_collect)
        /\ a_len' = (IF ends THEN 0 ELSE a_len) + IF c = Orig THEN 0 ELSE 1
    BY DEF Collect
  <1>2. /\ i \in Nat /\ i >= 1 /\ i <= Len(in_buf) /\ Len(in_buf) \in Nat /\ in_buf \in Seq(Byte)
        /\ cksums \in Seq(Cksums \cup {Orig}) /\ Len(cksums) = i - 1 /\ a_len \in Nat
        /\ MaxAutoExtra \in Nat
    BY LengthsAssumption DEF TokenTypes, UnderWay, len
  <1>3. /\ Len(cksums') = i /\ cksums'[i] = c /\ \A k \in 1 .. i - 1 : cksums'[k] = cksums[k]
    BY <1>2
  <1>4. Len(cksums') = i' - 1 /\ prev_cksum' = cksums'[i' - 1] /\ i' # 1 /\ i' - 1 = i
    BY <1>1, <1>2, <1>3
  <1>5. CASE c = Orig
    <2>1. a_len' = 0
      BY <1>1, <1>5, <1>2 DEF UnderWay
    <2>2. a_collect' = <<>>
      <3>1. CASE ends
        BY <1>1, <1>5, <3>1
      <3>2. CASE ~ends
        <4>1. a_len = 0 /\ a_collect = SubSeq(in_buf, i - a_len, i - 1)
          BY <1>2, <1>5, <3>2 DEF UnderWay
        <4>2. a_collect = <<>>
          BY <1>2, <4>1
        <4> QED BY <1>1, <1>5, <3>2, <4>2
      <3> QED BY <3>1, <3>2
    <2>3. SubSeq(in_buf, i' - a_len', i' - 1) = <<>>
      <3>1. i' - a_len' = i + 1 /\ i' - 1 = i
        BY <1>2, <2>1
      <3> QED BY <1>2, <3>1
    <2> QED BY <1>1, <1>4, <1>5, <2>1, <2>2, <2>3 DEF UnderWay
  <1>6. CASE c # Orig /\ ends
    <2>1. a_len' = 1 /\ a_collect' = <<in_buf[i]>>
      BY <1>1, <1>6
    <2>2. i' - a_len' = i /\ i' - 1 = i
      BY <1>2, <2>1
    <2>3. i > 1 => cksums'[i - 1] # c
      BY <1>2, <1>3, <1>6 DEF UnderWay
    <2>4. SubSeq(in_buf, i, i) = <<in_buf[i]>>
      BY <1>2, OneByte
    <2>5. \A k \in i' - a_len' .. i' - 1 : cksums'[k] = c
      BY <1>2, <1>3, <2>2
    <2>6. a_len' \in 1 .. i' - 1
      BY <1>2, <2>1
    <2> QED BY <1>1, <1>4, <1>6, <2>1, <2>2, <2>3, <2>4, <2>5, <2>6 DEF UnderWay
  <1>7. CASE c # Orig /\ ~ends
    <2>1. a_len' = a_len + 1 /\ a_collect' = Grown(a_collect)
      BY <1>1, <1>2, <1>7
    <2>2. /\ a_len \in 1 .. i - 1 /\ c = prev_cksum
          /\ \A k \in i - a_len .. i - 1 : cksums[k] = c
          /\ (i - a_len > 1 => cksums[i - a_len - 1] # c)
      BY <1>7 DEF UnderWay
    <2>3. i' - a_len' = i - a_len /\ i' - 1 = i /\ a_len' \in 1 .. i' - 1
      BY <1>2, <2>1, <2>2
    <2>4. \A k \in i - a_len .. i : cksums'[k] = c
      <3> TAKE k \in i - a_len .. i
      <3>1. k = i \/ (k \in i - a_len .. i - 1 /\ k \in 1 .. i - 1)
        BY <1>2, <2>2
      <3> QED BY <1>3, <2>2, <3>1
    <2>5. i - a_len > 1 => cksums'[i - a_len - 1] # c
      BY <1>2, <1>3, <2>2
    <2>6. a_len' <= MaxAutoExtra => a_collect' = SubSeq(in_buf, i - a_len, i)
      <3> SUFFICES ASSUME a_len' <= MaxAutoExtra PROVE a_collect' = SubSeq(in_buf, i - a_len, i)
        OBVIOUS
      <3>1. a_len < MaxAutoExtra /\ a_collect = SubSeq(in_buf, i - a_len, i - 1)
        BY <1>2, <2>1 DEF UnderWay
      <3>2. a_collect' = Append(a_collect, in_buf[i])
        BY <2>1, <3>1 DEF Grown
      <3>3. i - a_len \in 1 .. Len(in_buf) /\ i - 1 \in Nat /\ i - a_len <= (i - 1) + 1 /\ (i - 1) + 1 = i
        BY <1>2, <2>2
      <3> QED BY <1>2, <3>1, <3>2, <3>3, OneMoreByte
    <2> QED BY <1>1, <1>4, <1>7, <2>1, <2>3, <2>4, <2>5, <2>6 DEF UnderWay
  <1> QED BY <1>5, <1>6, <1>7

\* What one byte adds to the tokens offered: the run that ends before it, or, at
\* the end of the file, with it.
LEMMA OfferedNext ==
  ASSUME TokenTypes, step = "collect", i \in 1 .. len, UnderWay, AllOffered(offered, cksums, i - 2),
         NEW c \in Cksums \cup {Orig}, Collect(c)
  PROVE  AllOffered(offered', Append(cksums, c), IF i = len THEN len ELSE i - 1)
  <1> DEFINE ds == Append(cksums, c)
             ends == c # prev_cksum
             h == i - a_len
  <1>1. /\ i \in Nat /\ i >= 1 /\ i <= Len(in_buf) /\ Len(in_buf) \in Nat /\ in_buf \in Seq(Byte) /\ len = Len(in_buf)
        /\ cksums \in Seq(Cksums \cup {Orig}) /\ Len(cksums) = i - 1 /\ a_len \in Nat
        /\ MaxAutoExtra \in Nat /\ MinAutoExtra \in Nat \ {0} /\ len \in Nat
    BY LengthsAssumption DEF TokenTypes, UnderWay, len
  <1>2. Len(ds) = i /\ ds[i] = c /\ \A k \in 1 .. i - 1 : ds[k] = cksums[k]
    BY <1>1
  <1>3. \A a, b \in 1 .. len : a <= b /\ b <= i - 2 => (TokenIn(ds, a, b) <=> TokenIn(cksums, a, b))
    <2> TAKE a, b \in 1 .. len
    <2> SUFFICES ASSUME a <= b, b <= i - 2 PROVE RunIn(ds, a, b) <=> RunIn(cksums, a, b)
      BY DEF TokenIn
    <2>1. b \in Nat /\ b + 1 <= Len(cksums) /\ a \in 1 .. b
      BY <1>1
    <2> QED BY <1>1, <2>1, RunsStay
  <1> HIDE DEF ds
  <1>4. \A b \in 1 .. i - 1 : prev_cksum = cksums[i - 1] /\ ds[i - 1] = prev_cksum
    BY <1>1, <1>2 DEF UnderWay
  \* The run that was under way, if there is one.
  <1>5. ASSUME prev_cksum # Orig
        PROVE  /\ h \in 1 .. i - 1 /\ i - 1 >= 1
               /\ \A k \in h .. i - 1 : ds[k] = prev_cksum
               /\ h > 1 => ds[h - 1] # prev_cksum
    <2>1. /\ a_len \in 1 .. i - 1
          /\ \A k \in i - a_len .. i - 1 : cksums[k] = prev_cksum
          /\ i - a_len > 1 => cksums[i - a_len - 1] # prev_cksum
      BY <1>5 DEF UnderWay
    <2>2. h \in 1 .. i - 1 /\ i - 1 >= 1 /\ (h > 1 => h - 1 \in 1 .. i - 1) /\ \A k \in h .. i - 1 : k \in 1 .. i - 1
      BY <1>1, <2>1
    <2> QED BY <1>2, <2>1, <2>2
  <1>6. ASSUME NEW a \in 1 .. len, NEW b \in 1 .. len, a < b, b = i - 1, b < len, RunIn(ds, a, b)
        PROVE  c # prev_cksum /\ prev_cksum # Orig /\ a = h
    <2>1. ds[b + 1] = c /\ ds[b] = prev_cksum /\ b \in 1 .. i - 1
      BY <1>1, <1>2, <1>4, <1>6
    <2>2. ds[b + 1] # ds[b] /\ ds[b] # Orig
      BY <1>1, <1>6 DEF RunIn
    <2>3. RunIn(ds, h, b)
      BY <1>5, <1>6, <2>1, <2>2 DEF RunIn
    <2>4. a \in 1 .. b /\ h \in 1 .. b
      BY <1>5, <1>6, <2>1, <2>2
    <2>5. a = h
      BY <1>6, <2>1, <2>3, <2>4, OneRunEndsThere
    <2> QED BY <2>1, <2>2, <2>5
  \* A checksum that changes: the run before this byte has ended.
  <1>7. CASE ends
    <2>1. offered' = IF InLimits(a_len) THEN offered \cup {a_collect} ELSE offered
      BY <1>7 DEF Collect, Offer, NoOffer
    <2>2. ASSUME InLimits(a_len)
          PROVE  /\ prev_cksum # Orig /\ h \in 1 .. len /\ i - 1 \in 1 .. len
                 /\ TokenIn(ds, h, i - 1) /\ a_collect = SubSeq(in_buf, h, i - 1)
      <3>1. a_len >= 1 /\ a_len <= MaxAutoExtra
        BY <1>1, <2>2 DEF InLimits
      <3>2. prev_cksum # Orig
        BY <1>1, <3>1 DEF UnderWay
      <3>3. h \in 1 .. i - 1 /\ i - 1 >= 1
        BY <1>5, <3>2
      <3>4. ds[i] = c /\ ds[i - 1] = prev_cksum
        BY <1>1, <1>2, <1>4, <3>3
      <3>5. (i - 1) - h + 1 = a_len /\ (i - 1) + 1 = i
        BY <1>1
      <3>6. RunIn(ds, h, i - 1)
        BY <1>5, <1>7, <3>2, <3>3, <3>4, <3>5 DEF RunIn
      <3>7. h \in 1 .. len /\ i - 1 \in 1 .. len /\ h <= i - 1
        BY <1>1, <3>3
      <3> QED BY <2>2, <3>1, <3>2, <3>5, <3>6, <3>7 DEF UnderWay, TokenIn
    <2>3. ASSUME NEW t \in offered', Len(t) > 1
          PROVE  \E a, b \in 1 .. len : b <= i - 1 /\ TokenIn(ds, a, b) /\ t = SubSeq(in_buf, a, b)
      <3>1. CASE t \in offered
        <4>1. PICK a \in 1 .. len, b \in 1 .. len : b <= i - 2 /\ TokenIn(cksums, a, b) /\ t = SubSeq(in_buf, a, b)
          BY <2>3, <3>1 DEF AllOffered
        <4>2. TokenIn(ds, a, b) /\ b <= i - 1
          BY <1>1, <1>3, <4>1 DEF TokenIn
        <4> QED BY <4>1, <4>2
      <3>2. CASE t \notin offered
        <4>1. InLimits(a_len) /\ t = a_collect
          BY <2>1, <2>3, <3>2
        <4>2. h \in 1 .. len /\ i - 1 \in 1 .. len /\ i - 1 <= i - 1 /\ TokenIn(ds, h, i - 1) /\ t = SubSeq(in_buf, h, i - 1)
          BY <1>1, <2>2, <4>1
        <4> QED BY ONLY <4>2
      <3> QED BY <3>1, <3>2
    <2>4. ASSUME NEW a \in 1 .. len, NEW b \in 1 .. len, a < b, b <= i - 1, b < len, TokenIn(ds, a, b)
          PROVE  SubSeq(in_buf, a, b) \in offered'
      <3>1. CASE b <= i - 2
        <4>1. TokenIn(cksums, a, b)
          BY <1>1, <1>3, <2>4, <3>1
        <4> QED BY <2>1, <2>4, <3>1, <4>1 DEF AllOffered
      <3>2. CASE b = i - 1
        <4>1. a = h /\ prev_cksum # Orig
          BY <1>6, <2>4, <3>2 DEF TokenIn
        <4>2. InLimits(a_len)
          <5>1. b - a + 1 = a_len
            BY <1>1, <3>2, <4>1
          <5> QED BY <2>4, <5>1 DEF TokenIn
        <4> QED BY <2>1, <2>2, <3>2, <4>1, <4>2
      <3> QED BY <1>1, <2>4, <3>1, <3>2
    <2>5. CASE i # len
      <3>1. i - 1 < len /\ \A b \in 1 .. len : b <= i - 1 => b < len
        BY <1>1, <2>5
      <3> QED BY <2>3, <2>4, <2>5, <3>1 DEF AllOffered, ds
    <2>6. CASE i = len
      \* A run of two bytes or more does not end with the byte that changes it.
      <3>1. ASSUME NEW a \in 1 .. len, a < len, RunIn(ds, a, len) PROVE FALSE
        <4>1. len - 1 \in a .. len /\ len \in a .. len /\ i - 1 \in 1 .. i - 1 /\ len - 1 = i - 1
          BY <1>1, <2>6, <3>1
        <4>2. ds[len - 1] = ds[len]
          BY <3>1, <4>1 DEF RunIn
        <4> QED BY <1>2, <1>4, <1>7, <2>6, <4>1, <4>2
      <3>2. ASSUME NEW a \in 1 .. len, NEW b \in 1 .. len, a < b, b <= len, TokenIn(ds, a, b)
            PROVE  SubSeq(in_buf, a, b) \in offered'
        <4>1. b # len
          BY <3>1, <3>2 DEF TokenIn
        <4>2. b < len /\ b <= i - 1
          BY <1>1, <2>6, <3>2, <4>1
        <4> QED BY <2>4, <3>2, <4>2
      <3>3. \A t \in offered' : Len(t) > 1 =>
              \E a, b \in 1 .. len : b <= len /\ TokenIn(ds, a, b) /\ t = SubSeq(in_buf, a, b)
        <4> SUFFICES ASSUME NEW t \in offered', Len(t) > 1
                     PROVE  \E a, b \in 1 .. len : b <= len /\ TokenIn(ds, a, b) /\ t = SubSeq(in_buf, a, b)
          OBVIOUS
        <4>1. PICK a \in 1 .. len, b \in 1 .. len : b <= i - 1 /\ TokenIn(ds, a, b) /\ t = SubSeq(in_buf, a, b)
          BY <2>3
        <4>2. b <= len
          BY <1>1
        <4> QED BY <4>1, <4>2
      <3>4. \A a, b \in 1 .. len : a < b /\ b <= len /\ TokenIn(ds, a, b) => SubSeq(in_buf, a, b) \in offered'
        BY <3>2
      <3> QED BY <2>6, <3>3, <3>4 DEF AllOffered, ds
    <2> QED BY <2>5, <2>6
  <1>8. CASE ~ends /\ i # len
    <2>1. offered' = offered
      BY <1>8 DEF Collect, NoOffer
    <2>2. ASSUME NEW t \in offered, Len(t) > 1
          PROVE  \E a, b \in 1 .. len : b <= i - 1 /\ TokenIn(ds, a, b) /\ t = SubSeq(in_buf, a, b)
      <3>1. PICK a \in 1 .. len, b \in 1 .. len : b <= i - 2 /\ TokenIn(cksums, a, b) /\ t = SubSeq(in_buf, a, b)
        BY <2>2 DEF AllOffered
      <3>2. TokenIn(ds, a, b) /\ b <= i - 1
        BY <1>1, <1>3, <3>1 DEF TokenIn
      <3> QED BY <3>1, <3>2
    <2>3. ASSUME NEW a \in 1 .. len, NEW b \in 1 .. len, a < b, b <= i - 1, TokenIn(ds, a, b)
          PROVE  SubSeq(in_buf, a, b) \in offered
      <3>1. b < len
        BY <1>1, <1>8, <2>3
      <3>2. b # i - 1
        BY <1>6, <1>8, <2>3, <3>1 DEF TokenIn
      <3>3. b <= i - 2
        BY <1>1, <2>3, <3>2
      <3>4. TokenIn(cksums, a, b)
        BY <1>1, <1>3, <2>3, <3>3
      <3> QED BY <2>3, <3>3, <3>4 DEF AllOffered
    <2> QED BY <1>8, <2>1, <2>2, <2>3 DEF AllOffered, ds
  <1>9. CASE ~ends /\ i = len
    <2>1. offered' = IF InLimits(a_len + 1) THEN offered \cup {Grown(a_collect)} ELSE offered
      BY <1>9 DEF Collect, Offer, NoOffer
    <2>2. ds[len] = prev_cksum
      BY <1>2, <1>9
    <2>3. ASSUME prev_cksum # Orig
          PROVE  h \in 1 .. len /\ RunIn(ds, h, len) /\ len - h + 1 = a_len + 1
      <3>1. h \in 1 .. len - 1
        BY <1>5, <1>9, <2>3
      <3>2. \A k \in h .. len : ds[k] = prev_cksum
        <4> TAKE k \in h .. len
        <4>1. k = len \/ k \in h .. i - 1
          BY <1>1, <1>9, <3>1
        <4> QED BY <1>5, <2>2, <2>3, <4>1
      <3> QED BY <1>1, <1>5, <1>9, <2>3, <3>1, <3>2 DEF RunIn
    <2>4. ASSUME InLimits(a_len + 1), Len(Grown(a_collect)) > 1
          PROVE  prev_cksum # Orig /\ Grown(a_collect) = SubSeq(in_buf, h, len)
      <3>1. a_len < MaxAutoExtra /\ a_len <= MaxAutoExtra
        BY <1>1, <2>4 DEF InLimits
      <3>2. Grown(a_collect) = Append(a_collect, in_buf[i]) /\ a_collect = SubSeq(in_buf, h, i - 1)
        BY <3>1 DEF Grown, UnderWay
      <3>3. prev_cksum # Orig
        <4> SUFFICES ASSUME prev_cksum = Orig PROVE FALSE
          OBVIOUS
        <4>1. a_len = 0
          BY DEF UnderWay
        <4>2. a_collect = <<>>
          BY <1>1, <3>2, <4>1, SubSeqEmpty
        <4>3. Len(Append(<<>>, in_buf[i])) = 1
          <5>1. <<>> \in Seq(Byte) /\ in_buf[i] \in Byte /\ Len(<<>>) = 0
            BY <1>1
          <5> QED BY <5>1, AppendProperties
        <4>4. Len(Grown(a_collect)) = 1
          <5>1. Grown(a_collect) = Append(<<>>, in_buf[i])
            BY <3>2, <4>2
          <5> QED BY <4>3, <5>1
        <4> QED BY <2>4, <4>4
      <3>4. h \in 1 .. Len(in_buf) /\ i - 1 \in Nat /\ h <= (i - 1) + 1 /\ (i - 1) + 1 = i /\ i = len
        BY <1>1, <1>5, <1>9, <3>3
      <3> QED BY <1>1, <3>2, <3>3, <3>4, OneMoreByte
    <2>5. ASSUME NEW t \in offered', Len(t) > 1
          PROVE  \E a, b \in 1 .. len : b <= len /\ TokenIn(ds, a, b) /\ t = SubSeq(in_buf, a, b)
      <3>1. CASE t \in offered
        <4>1. PICK a \in 1 .. len, b \in 1 .. len : b <= i - 2 /\ TokenIn(cksums, a, b) /\ t = SubSeq(in_buf, a, b)
          BY <2>5, <3>1 DEF AllOffered
        <4>2. TokenIn(ds, a, b) /\ b <= len
          BY <1>1, <1>3, <4>1 DEF TokenIn
        <4> QED BY <4>1, <4>2
      <3>2. CASE t \notin offered
        <4>1. InLimits(a_len + 1) /\ t = Grown(a_collect)
          BY <2>1, <2>5, <3>2
        <4>2. h \in 1 .. len /\ TokenIn(ds, h, len) /\ t = SubSeq(in_buf, h, len)
          BY <1>1, <2>3, <2>4, <2>5, <4>1 DEF TokenIn
        <4>3. len \in 1 .. len /\ len <= len
          BY <1>1
        <4> QED BY <4>2, <4>3
      <3> QED BY <3>1, <3>2
    <2>6. ASSUME NEW a \in 1 .. len, NEW b \in 1 .. len, a < b, b <= len, TokenIn(ds, a, b)
          PROVE  SubSeq(in_buf, a, b) \in offered'
      <3>1. CASE b <= i - 2
        <4>1. TokenIn(cksums, a, b)
          BY <1>1, <1>3, <2>6, <3>1
        <4> QED BY <2>1, <2>6, <3>1, <4>1 DEF AllOffered
      <3>2. b # i - 1
        <4>1. b = i - 1 => b < len
          BY <1>1, <1>9
        <4> QED BY <1>6, <1>9, <2>6, <4>1 DEF TokenIn
      <3>3. CASE b = len
        <4>1. RunIn(ds, a, len) /\ InLimits(len - a + 1)
          BY <2>6, <3>3 DEF TokenIn
        <4>2. ds[len] # Orig
          BY <1>1, <2>6, <3>3, <4>1 DEF RunIn
        <4>3. prev_cksum # Orig
          BY <2>2, <4>2
        <4>4. h \in 1 .. len /\ RunIn(ds, h, len) /\ len - h + 1 = a_len + 1
          BY <2>3, <4>3
        <4>5. a = h
          BY <1>1, <2>6, <3>3, <4>1, <4>4, OneRunEndsThere
        <4>6. InLimits(a_len + 1) /\ a_len < MaxAutoExtra
          BY <1>1, <4>1, <4>4, <4>5 DEF InLimits
        <4>7. Grown(a_collect) = SubSeq(in_buf, h, len)
          <5>1. Grown(a_collect) = Append(a_collect, in_buf[i]) /\ a_collect = SubSeq(in_buf, h, i - 1)
            BY <1>1, <4>6 DEF Grown, UnderWay
          <5>2. h \in 1 .. Len(in_buf) /\ i - 1 \in Nat /\ h <= (i - 1) + 1 /\ (i - 1) + 1 = i /\ i = len
            BY <1>1, <1>9, <4>4
          <5>3. SubSeq(in_buf, h, (i - 1) + 1) = Append(SubSeq(in_buf, h, i - 1), in_buf[(i - 1) + 1])
            BY <1>1, <5>2, OneMoreByte
          <5>4. SubSeq(in_buf, h, len) = Append(SubSeq(in_buf, h, i - 1), in_buf[i])
            BY ONLY <5>2, <5>3
          <5> QED BY ONLY <5>1, <5>4
        <4> QED BY <2>1, <3>3, <4>5, <4>6, <4>7
      <3> QED BY <1>1, <1>9, <2>6, <3>1, <3>2, <3>3
    <2> QED BY <1>9, <2>5, <2>6 DEF AllOffered, ds
  <1> QED BY <1>7, <1>8, <1>9

LEMMA NoCollectLeft ==
  ASSUME step' \notin {"collect", "effector"}
  PROVE  Collecting'
  BY DEF Collecting

LEMMA CollectByteInv ==
  ASSUME TokenInv, CollectByte
  PROVE  TokenInv'
  <1>1. PICK c \in Cksums \cup {Orig} : Collect(c) /\ cksums' = Append(cksums, c)
    BY DEF CollectByte
  <1>2. /\ step = "collect" /\ i' = i + 1 /\ step' = (IF i = len THEN "effector" ELSE step)
        /\ UNCHANGED <<extras, dict_type, auto_files, old_files, saving, starts, phase>>
        /\ UNCHANGED <<in_buf, out_buf, eff_map, q_extras, j, last_len, ran>>
    BY DEF CollectByte, entryVars
  <1>3. /\ TokenTypes /\ DictInv /\ i \in 1 .. len /\ UnderWay /\ OfferedUpTo(i - 2)
        /\ phase = "run" /\ saving = 0 /\ in_buf # <<>> /\ j = 1 /\ last_len = 0 /\ ran = {} /\ out_buf = in_buf
    BY <1>2 DEF TokenInv, Begun, Collecting
  <1>4. in_buf \in Seq(Byte) /\ len \in Nat /\ in_buf[i] \in Byte /\ Grown(a_collect) \in Seq(Byte)
        /\ a_collect \in Seq(Byte) /\ <<in_buf[i]>> \in Seq(Byte) /\ <<>> \in Seq(Byte) /\ len = Len(in_buf)
    <2>1. in_buf \in Seq(Byte) /\ len \in Nat /\ in_buf[i] \in Byte /\ a_collect \in Seq(Byte) /\ len = Len(in_buf)
      BY <1>3 DEF TokenTypes, len
    <2> QED BY <2>1 DEF Grown
  <1>5. DictInv'
    <2>1. CASE UNCHANGED <<a_extras, auto_changed>>
      <3>1. UNCHANGED dictVars
        BY <1>2, <2>1 DEF dictVars
      <3> QED BY <1>3, <3>1, DictStutters
    <2>2. ASSUME NEW t \in Seq(Byte), MaybeAddAuto(t) PROVE DictInv'
      BY <1>2, <1>3, <2>2, AddKeepsInv
    <2>3. Offer(Grown(a_collect)) \/ Offer(a_collect) \/ NoOffer
      BY <1>1 DEF Collect
    <2> QED BY <1>4, <2>1, <2>2, <2>3 DEF Offer, NoOffer
  <1>6. TokenTypes'
    <2>1. /\ a_collect' \in {<<>>, a_collect, <<in_buf[i]>>, Grown(a_collect)}
          /\ a_len' \in {0, 1, a_len, a_len + 1}
      <3>1. a_len \in Nat
        BY <1>3 DEF TokenTypes
      <3> QED BY <1>1, <3>1 DEF Collect
    <2>2. a_collect' \in Seq(Byte) /\ a_len' \in Nat
      <3>1. a_len \in Nat
        BY <1>3 DEF TokenTypes
      <3>2. a_len' \in Nat
        BY <2>1, <3>1
      <3>3. a_collect' \in Seq(Byte)
        BY <1>4, <2>1
      <3> QED BY <3>2, <3>3
    <2>3. cksums' \in Seq(Cksums \cup {Orig})
      BY <1>1, <1>3 DEF TokenTypes
    <2>4. i' \in Nat \ {0}
      BY <1>2, <1>3
    <2> QED BY <1>2, <1>3, <2>2, <2>3, <2>4 DEF TokenTypes, ByLength
  <1>7. Begun'
    BY <1>2, <1>3 DEF Begun
  <1>8. Collecting'
    <2>1. UnderWay'
      BY <1>1, <1>2, <1>3, UnderWayNext
    <2>2. AllOffered(offered, cksums, i - 2)
      BY <1>3, OfferedIn
    <2>3. AllOffered(offered', cksums', IF i = len THEN len ELSE i - 1)
      BY <1>1, <1>2, <1>3, <2>2, OfferedNext
    <2>4. len' = len
      BY <1>2 DEF len
    <2>5. ASSUME NEW n, AllOffered(offered', cksums', n) PROVE OfferedUpTo(n)'
      BY <1>2, <2>4, <2>5 DEF OfferedUpTo, AllOffered, IsToken, TokenIn, IsRun, RunIn
    <2>6. CASE i = len
      <3>1. step' = "effector"
        BY <1>2, <2>6
      <3>2. Len(cksums') = len'
        BY <1>2, <1>3, <1>4, <2>1, <2>4, <2>6 DEF UnderWay
      <3>3. OfferedUpTo(len)'
        BY <2>3, <2>4, <2>5, <2>6 DEF OfferedUpTo
      <3> QED BY <3>1, <3>2, <3>3 DEF Collecting
    <2>7. CASE i # len
      <3>1. step' = "collect" /\ i' \in 1 .. len' /\ i' - 2 = i - 1
        BY <1>2, <1>3, <1>4, <2>4, <2>7
      <3>2. AllOffered(offered', cksums', i' - 2)
        BY <2>3, <2>7, <3>1
      <3>3. OfferedUpTo(i - 2)'
        BY <2>5, <3>2
      <3> QED BY <2>1, <3>1, <3>3 DEF Collecting
    <2> QED BY <2>6, <2>7
  <1>9. Overwriting' /\ Inserting'
    BY <1>2 DEF Overwriting, Inserting
  <1> QED BY <1>5, <1>6, <1>7, <1>8, <1>9 DEF TokenInv

LEMMA TakeEntryInv ==
  ASSUME TokenInv, Take
  PROVE  TokenInv'
  <1>1. /\ step = "idle" /\ phase = "run" /\ saving = 0 /\ in_buf' \in Inputs /\ out_buf' = in_buf'
        /\ UNCHANGED dictVars /\ UNCHANGED <<a_collect, a_len, prev_cksum, offered, cksums, i, j, last_len, ran>>
        /\ (step' = "collect" \/ step' = "over")
    BY DEF Take, collectVars, loopVars
  <1>2. /\ TokenTypes /\ DictInv /\ i = 1 /\ Cleared /\ j = 1 /\ last_len = 0 /\ ran = {}
    BY <1>1 DEF TokenInv, Begun
  <1>3. /\ phase' = phase /\ saving' = saving /\ extras' = extras /\ dict_type' = dict_type /\ a_extras' = a_extras
    BY <1>1 DEF dictVars
  <1>4. in_buf' \in Seq(Byte) /\ in_buf' # <<>> /\ len' \in Nat \ {0} /\ len' = Len(in_buf')
    BY <1>1, InputsAssumption DEF len
  <1>5. DictInv'
    BY <1>1, <1>2, DictStutters
  <1>6. extras \in Seq(Seq(Byte)) /\ ByLength(extras) /\ Len(extras) \in Nat
    BY <1>2 DEF DictInv, DictTypes, ExtrasSorted, ByLength
  <1>7. q_extras' \in Seq(Seq(Byte)) /\ ByLength(q_extras)'
    <2>1. CASE q_extras' = <<>>
      <3>1. Len(q_extras') = 0
        BY <2>1
      <3> QED BY <2>1, <3>1 DEF ByLength
    <2>2. CASE q_extras' # <<>>
      <3>1. PICK reached \in SUBSET (1 .. Len(extras)) : q_extras' \in EntryExtras(reached)
        BY <2>2 DEF Take
      <3> DEFINE first == {k \in reached : \A a \in reached : a < k => extras[a] # extras[k]}
                 m == Cardinality(first)
      <3>2. m \in Nat
        <4>1. IsFiniteSet(1 .. Len(extras))
          BY <1>6, FS_Interval
        <4>2. first \subseteq 1 .. Len(extras)
          BY <3>1
        <4> HIDE DEF first
        <4>3. IsFiniteSet(first)
          BY <4>1, <4>2, FS_Subset
        <4> QED BY <4>3, FS_CardinalityType
      <3>3. PICK p \in [1 .. m -> first] :
               /\ \A a, b \in 1 .. m : a < b => p[a] < p[b]
               /\ q_extras' = [k \in 1 .. m |-> extras[p[k]]]
        BY <3>1 DEF EntryExtras
      <3>4. \A k \in 1 .. m : p[k] \in 1 .. Len(extras)
        BY <3>1
      <3> HIDE DEF m, first
      <3>5. q_extras' \in Seq(Seq(Byte)) /\ Len(q_extras') = m
        BY <1>6, <3>2, <3>3, <3>4
      <3>6. \A a, b \in 1 .. m : a < b => Len(q_extras'[a]) <= Len(q_extras'[b])
        BY <1>6, <3>3, <3>4 DEF ByLength
      <3> QED BY <3>5, <3>6 DEF ByLength
    <2> QED BY <2>1, <2>2
  <1>8. TokenTypes'
    BY <1>1, <1>2, <1>4, <1>7 DEF TokenTypes
  <1>9. Begun'
    BY <1>1, <1>2, <1>3, <1>4 DEF Begun
  <1>10. Collecting'
    <2>1. CASE step' = "over"
      BY <2>1, NoCollectLeft
    <2>2. CASE step' = "collect"
      <3>1. /\ cksums' = <<>> /\ Len(cksums') = i' - 1 /\ prev_cksum' = Orig /\ a_len' = 0 /\ a_collect' = <<>>
            /\ i' = 1 /\ offered' = {}
        BY <1>1, <1>2 DEF Cleared
      <3>2. SubSeq(in_buf', i' - a_len', i' - 1) = <<>>
        <4>1. i' - a_len' = 1 /\ i' - 1 = 0
          BY <3>1
        <4> QED BY <4>1
      <3>3. UnderWay'
        BY <3>1, <3>2 DEF UnderWay
      <3>4. OfferedUpTo(i - 2)'
        BY <1>4, <3>1 DEF OfferedUpTo
      <3>5. i' \in 1 .. len'
        BY <1>4, <3>1
      <3> QED BY <2>2, <3>3, <3>4, <3>5 DEF Collecting
    <2> QED BY <1>1, <2>1, <2>2
  <1>11. Overwriting'
    <2> SUFFICES ASSUME step' = "over" PROVE Overwriting'
      BY <1>1 DEF Overwriting
    <2>1. OverTokens' \in Seq(Seq(Byte)) /\ Len(OverTokens') \in Nat /\ \A n \in 1 .. Len(OverTokens') : Len(OverTokens'[n]) \in Nat
      BY <1>3, <1>6, <1>7 DEF OverTokens, UserTokens
    <2>2. i' = 1 /\ j' = 1 /\ last_len' = 0 /\ ran' = {} /\ out_buf' = in_buf'
      BY <1>1, <1>2
    <2>3. \A k \in 1 .. len', n \in 1 .. Len(OverTokens') : ~(k < 1 \/ (k = 1 /\ n < 1))
      OBVIOUS
    <2> HIDE DEF OverTokens
    <2> QED BY <1>4, <2>1, <2>2, <2>3 DEF Overwriting
  <1>12. Inserting'
    BY <1>1 DEF Inserting
  <1> QED BY <1>5, <1>8, <1>9, <1>10, <1>11, <1>12 DEF TokenInv

\* The tokens of a stage grow.
LEMMA TokensGrow ==
  ASSUME DictInv, TokenTypes
  PROVE  /\ UserTokens \in Seq(Seq(Byte)) /\ ByLength(UserTokens)
         /\ AutoTokens \in Seq(Seq(Byte)) /\ ByLength(AutoTokens)
  <1>1. UserTokens \in Seq(Seq(Byte)) /\ ByLength(UserTokens)
    BY DEF UserTokens, DictInv, DictTypes, ExtrasSorted, TokenTypes, ByLength
  <1>2. a_extras \in Seq(AutoExtra) /\ Len(a_extras) \in Nat /\ UsedAreBest
    BY DEF DictInv, DictTypes
  <1>3. Used = 1 .. Saved /\ Saved \in Nat /\ Saved <= Len(a_extras)
    <2>1. UseAutoExtras \in Nat
      BY TablesAssumption
    <2> QED BY <1>2, <2>1, SmallerOfTwo DEF Used, Saved
  <1>4. \A k \in 1 .. Saved : a_extras[k].data \in Seq(Byte)
    <2> TAKE k \in 1 .. Saved
    <2>1. k \in 1 .. Len(a_extras)
      BY <1>2, <1>3
    <2>2. a_extras[k] \in AutoExtra
      BY <1>2, <2>1
    <2> QED BY <2>2 DEF AutoExtra
  <1>5. AutoTokens = [k \in 1 .. Saved |-> a_extras[k].data]
    BY <1>3 DEF AutoTokens
  <1>6. AutoTokens \in Seq(Seq(Byte)) /\ Len(AutoTokens) = Saved
    BY <1>3, <1>4, <1>5
  <1>7. \A a, b \in 1 .. Saved : a < b => Len(AutoTokens[a]) <= Len(AutoTokens[b])
    BY <1>2, <1>3, <1>5 DEF UsedAreBest
  <1> QED BY <1>1, <1>6, <1>7 DEF ByLength

LEMMA OverTokensGrow ==
  ASSUME DictInv, TokenTypes
  PROVE  OverTokens \in Seq(Seq(Byte)) /\ ByLength(OverTokens)
  BY TokensGrow DEF OverTokens

LEMMA SameTokens ==
  ASSUME UNCHANGED dictVars, q_extras' = q_extras
  PROVE  UserTokens' = UserTokens /\ AutoTokens' = AutoTokens
  BY DEF dictVars, UserTokens, AutoTokens, Used

\* A stage begins.
LEMMA OverBegins ==
  ASSUME TokenInv, UNCHANGED dictVars, UNCHANGED <<in_buf, q_extras>>, step' \in {"over", "autoover"},
         i' = 1, j' = 1, last_len' = 0, ran' = {}, out_buf' = in_buf
  PROVE  Overwriting'
  <1>1. in_buf \in Seq(Byte) /\ len' = Len(in_buf) /\ len' \in Nat
    BY DEF TokenInv, TokenTypes, len
  <1>2. /\ UserTokens \in Seq(Seq(Byte)) /\ AutoTokens \in Seq(Seq(Byte))
        /\ UserTokens' = UserTokens /\ AutoTokens' = AutoTokens
    BY TokensGrow, SameTokens DEF TokenInv
  <1>3. OverTokens' \in Seq(Seq(Byte)) /\ Len(OverTokens') \in Nat
        /\ \A n \in 1 .. Len(OverTokens') : Len(OverTokens'[n]) \in Nat
    BY <1>2 DEF OverTokens
  <1>4. \A k \in 1 .. len', n \in 1 .. Len(OverTokens') : ~(k < 1 \/ (k = 1 /\ n < 1))
    OBVIOUS
  <1> HIDE DEF OverTokens
  <1>5. in_buf' = in_buf
    OBVIOUS
  <1> QED BY <1>1, <1>3, <1>4, <1>5 DEF Overwriting

LEMMA EffectorInv ==
  ASSUME TokenInv, Effector
  PROVE  TokenInv'
  <1>1. /\ step = "effector" /\ step' = "over" /\ i' = 1 /\ UNCHANGED dictVars
        /\ UNCHANGED <<in_buf, out_buf, q_extras, j, last_len, ran>>
        /\ a_collect' = <<>> /\ a_len' = 0 /\ cksums' = <<>>
    BY DEF Effector, Forget
  <1>2. /\ TokenTypes /\ DictInv /\ j = 1 /\ last_len = 0 /\ ran = {} /\ out_buf = in_buf
        /\ phase = "run" /\ saving = 0 /\ in_buf # <<>>
    BY <1>1 DEF TokenInv, Begun
  <1>3. DictInv'
    BY <1>1, <1>2, DictStutters
  <1>4. TokenTypes'
    BY <1>1, <1>2 DEF TokenTypes, ByLength
  <1>5. Begun'
    BY <1>1, <1>2 DEF Begun, dictVars
  <1>6. Overwriting'
    BY <1>1, <1>2, OverBegins
  <1> QED BY <1>1, <1>3, <1>4, <1>5, <1>6, NoCollectLeft DEF TokenInv, Inserting

LEMMA LeaveEntryInv ==
  ASSUME TokenInv, NextEntry
  PROVE  TokenInv'
  <1>1. /\ step' = "idle" /\ UNCHANGED dictVars /\ in_buf' = <<>> /\ out_buf' = <<>> /\ q_extras' = <<>>
        /\ i' = 1 /\ j' = 1 /\ last_len' = 0 /\ ran' = {} /\ Cleared'
    BY DEF NextEntry, Forget, Cleared
  <1>2. DictInv'
    BY <1>1, DictStutters DEF TokenInv
  <1>3. TokenTypes'
    <2>1. <<>> \in Seq(Byte) /\ <<>> \in Seq(Seq(Byte)) /\ <<>> \in Seq(Cksums \cup {Orig}) /\ Len(<<>>) = 0
      OBVIOUS
    <2> QED BY <1>1, <2>1 DEF TokenTypes, ByLength, Cleared
  <1>4. Begun'
    BY <1>1 DEF Begun, Cleared
  <1> QED BY <1>1, <1>2, <1>3, <1>4, NoCollectLeft DEF TokenInv, Inserting, Overwriting

\* The start of a session: between Init and the first entry.
LEMMA StartInv ==
  ASSUME TokenInv, Pivot \/ LoadExtras, UNCHANGED <<entryVars, collectVars, loopVars, step>>
  PROVE  TokenInv'
  <1>1. UNCHANGED <<in_buf, out_buf, q_extras, a_collect, a_len, prev_cksum, offered, cksums, i, j, last_len, ran, step>>
    BY DEF entryVars, collectVars, loopVars
  <1>2. phase # "run"
    BY DEF Pivot, LoadExtras
  <1>3. step = "idle"
    BY <1>2 DEF TokenInv, Begun
  <1>4. DictInv'
    BY SessionsInv, LoadExtrasInv DEF TokenInv
  <1>5. TokenTypes'
    BY <1>1 DEF TokenInv, TokenTypes, ByLength
  <1>6. Begun'
    BY <1>1, <1>3 DEF TokenInv, Begun, Cleared
  <1> QED BY <1>1, <1>3, <1>4, <1>5, <1>6, NoCollectLeft DEF TokenInv, Inserting, Overwriting

LEMMA TokensAtStart == TokensInit => TokenInv
  <1> SUFFICES ASSUME TokensInit PROVE TokenInv
    OBVIOUS
  <1>1. DictInv
    BY DictInvAtStart DEF TokensInit, DictInit
  <1>2. TokenTypes
    <2>1. <<>> \in Seq(Byte) /\ <<>> \in Seq(Seq(Byte)) /\ <<>> \in Seq(Cksums \cup {Orig}) /\ Len(<<>>) = 0
      OBVIOUS
    <2> QED BY <2>1 DEF TokensInit, TokensStart, TokenTypes, ByLength
  <1> QED BY <1>1, <1>2 DEF TokensInit, TokensStart, TokenInv, Begun, Cleared, Collecting, Overwriting, Inserting

-----------------------------------------------------------------------------
(* Writing over: lemmas about Over(). *)

LEMMA OverValues ==
  ASSUME NEW b \in Seq(Byte), NEW p \in Nat \ {0}, NEW t \in Seq(Byte)
  PROVE  /\ Over(b, p, t) \in Seq(Byte) /\ Len(Over(b, p, t)) = Len(b)
         /\ \A k \in 1 .. Len(b) :
              Over(b, p, t)[k] = IF k \in p .. p + Len(t) - 1 THEN t[k - p + 1] ELSE b[k]
  <1>1. \A k \in 1 .. Len(b) : k \in p .. p + Len(t) - 1 => k - p + 1 \in 1 .. Len(t)
    OBVIOUS
  <1> QED BY <1>1 DEF Over

LEMMA OverIs ==
  ASSUME NEW b \in Seq(Byte), NEW p \in Nat \ {0}, NEW t \in Seq(Byte), NEW x, x = Over(b, p, t)
  PROVE  /\ x \in Seq(Byte) /\ Len(x) = Len(b)
         /\ \A k \in 1 .. Len(b) : x[k] = IF k \in p .. p + Len(t) - 1 THEN t[k - p + 1] ELSE b[k]
  BY OverValues

\* What is written covers all that differs.
LEMMA OverSame ==
  ASSUME NEW b \in Seq(Byte), NEW d \in Seq(Byte), Len(b) = Len(d), NEW p \in Nat \ {0}, NEW t \in Seq(Byte),
         \A k \in 1 .. Len(b) : k \notin p .. p + Len(t) - 1 => b[k] = d[k]
  PROVE  Over(b, p, t) = Over(d, p, t)
  <1> DEFINE x == Over(b, p, t)
             y == Over(d, p, t)
  <1>1. x \in Seq(Byte) /\ Len(x) = Len(b)
        /\ \A k \in 1 .. Len(b) : x[k] = IF k \in p .. p + Len(t) - 1 THEN t[k - p + 1] ELSE b[k]
    BY OverValues
  <1>2. y \in Seq(Byte) /\ Len(y) = Len(d)
        /\ \A k \in 1 .. Len(d) : y[k] = IF k \in p .. p + Len(t) - 1 THEN t[k - p + 1] ELSE d[k]
    BY OverValues
  <1> HIDE DEF x, y
  <1>3. \A k \in 1 .. Len(x) : x[k] = y[k]
    BY <1>1, <1>2
  <1>4. x = y
    BY <1>1, <1>2, <1>3, SeqEqual
  <1> QED BY <1>4 DEF x, y

\* A token that is there already changes nothing.
LEMMA OverItself ==
  ASSUME NEW b \in Seq(Byte), NEW p \in Nat \ {0}, NEW t \in Seq(Byte), p + Len(t) - 1 <= Len(b),
         SubSeq(b, p, p + Len(t) - 1) = t
  PROVE  Over(b, p, t) = b
  <1> DEFINE x == Over(b, p, t)
             u == SubSeq(b, p, p + Len(t) - 1)
  <1>1. x \in Seq(Byte) /\ Len(x) = Len(b)
        /\ \A k \in 1 .. Len(b) : x[k] = IF k \in p .. p + Len(t) - 1 THEN t[k - p + 1] ELSE b[k]
    BY OverValues
  <1>2. \A k \in 1 .. Len(t) : u[k] = b[p + k - 1]
    OBVIOUS
  <1> HIDE DEF x, u
  <1>3. u = t
    BY DEF u
  <1>4. \A k \in 1 .. Len(b) : k \in p .. p + Len(t) - 1 => t[k - p + 1] = b[k]
    <2> SUFFICES ASSUME NEW k \in 1 .. Len(b), k \in p .. p + Len(t) - 1 PROVE t[k - p + 1] = b[k]
      OBVIOUS
    <2>1. k - p + 1 \in 1 .. Len(t) /\ p + (k - p + 1) - 1 = k
      OBVIOUS
    <2> QED BY <1>2, <1>3, <2>1
  <1>5. \A k \in 1 .. Len(x) : x[k] = b[k]
    BY <1>1, <1>4
  <1>6. x = b
    BY <1>1, <1>5, SeqEqual
  <1> QED BY <1>6 DEF x

\* b differs from d in the n bytes from p at most; t is what d has there.
DiffersOnly(b, d, p, n) == \A k \in 1 .. Len(b) : k \notin p .. p + n - 1 => b[k] = d[k]
TakenFrom(t, d, p) == \A k \in 1 .. Len(t) : t[k] = d[p + k - 1]

\* The memcpy() that restores what was clobbered.
LEMMA RestoredIsWhole ==
  ASSUME NEW b \in Seq(Byte), NEW d \in Seq(Byte), Len(b) = Len(d), NEW p \in 1 .. Len(b),
         NEW t \in Seq(Byte), NEW n \in Nat, n <= Len(b) - p + 1, Len(t) = n,
         TakenFrom(t, d, p), DiffersOnly(b, d, p, n)
  PROVE  Over(b, p, t) = d
  <1> DEFINE x == Over(b, p, t)
  <1>1. /\ t \in Seq(Byte) /\ Len(t) = n /\ \A k \in 1 .. n : t[k] = d[p + k - 1]
        /\ \A k \in 1 .. Len(b) : k \notin p .. p + n - 1 => b[k] = d[k]
    BY DEF TakenFrom, DiffersOnly
  <1>2. x \in Seq(Byte) /\ Len(x) = Len(b)
        /\ \A k \in 1 .. Len(b) : x[k] = IF k \in p .. p + Len(t) - 1 THEN t[k - p + 1] ELSE b[k]
    BY <1>1, OverIs, SMTT(30)
  <1> HIDE DEF x
  <1>3. \A k \in 1 .. Len(x) : x[k] = d[k]
    <2> TAKE k \in 1 .. Len(x)
    <2>1. CASE k \in p .. p + n - 1
      <3>1. k - p + 1 \in 1 .. n /\ p + (k - p + 1) - 1 = k
        BY <2>1
      <3> QED BY <1>1, <1>2, <2>1, <3>1
    <2>2. CASE k \notin p .. p + n - 1
      BY <1>1, <1>2, <2>2
    <2> QED BY <2>1, <2>2
  <1>4. x = d
    BY <1>2, <1>3, SeqEqual
  <1> QED BY <1>4 DEF x

-----------------------------------------------------------------------------
(* One token at one offset. *)

\* What every step of the two stages leaves as it is.
LEMMA OverKeeps ==
  ASSUME TokenInv, step \in {"over", "autoover"}, step' \in {"over", "autoover"},
         UNCHANGED dictVars, UNCHANGED <<in_buf, eff_map, q_extras, collectVars>>,
         out_buf' \in Seq(Byte), i' \in Nat \ {0}, j' \in Nat \ {0}, last_len' \in Nat,
         Overwriting'
  PROVE  TokenInv'
  <1>1. DictInv'
    BY DictStutters DEF TokenInv
  <1>2. TokenTypes'
    BY DEF TokenInv, TokenTypes, ByLength, collectVars
  <1>3. Begun'
    BY DEF TokenInv, Begun, dictVars
  <1> QED BY <1>1, <1>2, <1>3, NoCollectLeft DEF TokenInv, Inserting

LEMMA TriedStays ==
  ASSUME UNCHANGED <<in_buf, eff_map>>, OverTokens' = OverTokens, NEW k, NEW n, NEW runs, NEW more,
         runs \subseteq more, TriedIn(k, n, runs)
  PROVE  TriedIn(k, n, more)'
  BY DEF TriedIn, len, Effective

LEMMA OverTokenInv ==
  ASSUME TokenInv, OverToken
  PROVE  TokenInv'
  <1> DEFINE t == OverTokens[j]
             all == OverTokens
  <1>1. /\ step \in {"over", "autoover"} /\ i <= len /\ j <= Len(OverTokens) /\ j' = j + 1
        /\ UNCHANGED dictVars /\ UNCHANGED <<in_buf, eff_map, q_extras, collectVars, i, step>>
        /\ IF Redundant(t) THEN UNCHANGED <<out_buf, last_len, ran>>
           ELSE out_buf' = Over(out_buf, i, t) /\ last_len' = Len(t) /\ ran' = ran \cup {out_buf'}
    BY DEF OverToken
  <1>2. /\ in_buf \in Seq(Byte) /\ len = Len(in_buf) /\ len \in Nat /\ len' = len /\ out_buf \in Seq(Byte)
        /\ i \in Nat \ {0} /\ j \in Nat \ {0} /\ last_len \in Nat
    BY <1>1 DEF TokenInv, TokenTypes, len
  <1>3. /\ all \in Seq(Seq(Byte)) /\ ByLength(all) /\ Len(all) \in Nat
        /\ \A n \in 1 .. Len(all) : all[n] \in Seq(Byte) /\ Len(all[n]) \in Nat
    BY OverTokensGrow DEF TokenInv
  <1>4. OverTokens' = all
    BY <1>1, SameTokens DEF OverTokens
  <1>5. j \in 1 .. Len(all) /\ t \in Seq(Byte) /\ Len(t) \in Nat
    BY <1>1, <1>2, <1>3
  <1>6. /\ last_len <= Len(t) /\ last_len <= len - i + 1 /\ Len(out_buf) = len /\ out_buf \in ran \cup {in_buf}
        /\ \A n \in j .. Len(all) : last_len <= Len(all[n])
        /\ \A k \in 1 .. len : k \notin i .. i + last_len - 1 => out_buf[k] = in_buf[k]
        /\ \A b \in ran : \E k \in 1 .. len, n \in 1 .. Len(all) : b = Over(in_buf, k, all[n])
        /\ \A k \in 1 .. len, n \in 1 .. Len(all) : k < i \/ (k = i /\ n < j) => TriedIn(k, n, ran)
    BY <1>1, <1>5 DEF TokenInv, Overwriting
  <1> HIDE DEF all, t
  <1>7. Over(out_buf, i, t) = Over(in_buf, i, t)
    <2>1. \A k \in 1 .. Len(out_buf) : k \notin i .. i + Len(t) - 1 => out_buf[k] = in_buf[k]
      BY <1>2, <1>5, <1>6
    <2>2. Len(out_buf) = Len(in_buf)
      BY <1>2, <1>6
    <2> QED BY <1>2, <1>5, <2>1, <2>2, OverSame
  <1>8. TriedIn(i, j, ran') /\ ran \subseteq ran'
    <2>1. CASE Redundant(t)
      <3>1. ran' = ran
        BY <1>1, <2>1
      <3>2. CASE SubSeq(out_buf, i, i + Len(t) - 1) = t /\ ~(Len(t) > len - i + 1)
        <4>1. Over(out_buf, i, t) = out_buf
          <5>1. i + Len(t) - 1 <= Len(out_buf)
            BY <1>2, <1>5, <1>6, <3>2
          <5> QED BY <1>2, <1>5, <3>2, <5>1, OverItself
        <4>2. Over(in_buf, i, t) \in ran \cup {in_buf}
          BY <1>6, <1>7, <4>1
        <4> QED BY <3>1, <4>2 DEF TriedIn, t
      <3>3. CASE Len(t) > len - i + 1 \/ ~Effective(i, Len(t))
        BY <3>1, <3>3 DEF TriedIn, t
      <3> QED BY <2>1, <3>2, <3>3 DEF Redundant
    <2>2. CASE ~Redundant(t)
      <3>1. ran' = ran \cup {Over(in_buf, i, t)}
        BY <1>1, <1>7, <2>2
      <3> QED BY <3>1 DEF TriedIn, t
    <2> QED BY <2>1, <2>2
  <1>9. \A k \in 1 .. len, n \in 1 .. Len(all) : k < i \/ (k = i /\ n < j + 1) => TriedIn(k, n, ran)'
    <2> SUFFICES ASSUME NEW k \in 1 .. len, NEW n \in 1 .. Len(all), k < i \/ (k = i /\ n < j + 1)
                 PROVE  TriedIn(k, n, ran)'
      OBVIOUS
    <2>1. (k < i \/ (k = i /\ n < j)) \/ (k = i /\ n = j)
      BY <1>2, <1>5
    <2>2. \E runs : runs \subseteq ran' /\ TriedIn(k, n, runs)
      BY <1>6, <1>8, <2>1
    <2> QED BY <1>1, <1>4, <2>2, TriedStays DEF all
  <1>10. /\ out_buf' \in Seq(Byte) /\ Len(out_buf') = len /\ out_buf' \in ran' \cup {in_buf}
         /\ last_len' \in Nat /\ last_len' <= len - i + 1 /\ last_len' <= Len(t)
         /\ \A k \in 1 .. len : k \notin i .. i + last_len' - 1 => out_buf'[k] = in_buf[k]
         /\ \A b \in ran' : \E k \in 1 .. len, n \in 1 .. Len(all) : b = Over(in_buf, k, all[n])
    <2>1. CASE Redundant(t)
      <3>1. UNCHANGED <<out_buf, last_len, ran>>
        BY <1>1, <2>1
      <3> QED BY <1>2, <1>6, <3>1
    <2>2. CASE ~Redundant(t)
      <3>1. out_buf' = Over(in_buf, i, t) /\ last_len' = Len(t) /\ ran' = ran \cup {out_buf'}
        BY <1>1, <1>7, <2>2
      <3>2. out_buf' \in Seq(Byte) /\ Len(out_buf') = Len(in_buf)
            /\ \A k \in 1 .. Len(in_buf) :
                 out_buf'[k] = IF k \in i .. i + Len(t) - 1 THEN t[k - i + 1] ELSE in_buf[k]
        BY <1>2, <1>5, <3>1, OverIs
      <3>3. Len(t) <= len - i + 1
        BY <1>2, <1>5, <2>2 DEF Redundant
      <3>4. i \in 1 .. len /\ t = all[j]
        BY <1>1, <1>2 DEF t, all
      <3>5. \A b \in ran' : \E k \in 1 .. len, n \in 1 .. Len(all) : b = Over(in_buf, k, all[n])
        BY <1>5, <1>6, <3>1, <3>4
      <3>6. \A k \in 1 .. len : k \notin i .. i + last_len' - 1 => out_buf'[k] = in_buf[k]
        BY <1>2, <3>1, <3>2
      <3> QED BY <1>2, <1>5, <3>1, <3>2, <3>3, <3>5, <3>6
    <2> QED BY <2>1, <2>2
  <1>11. \A n \in j + 1 .. Len(all) : last_len' <= Len(all[n])
    <2> TAKE n \in j + 1 .. Len(all)
    <2>1. n \in 1 .. Len(all) /\ j < n
      BY <1>2, <1>3
    <2>2. Len(t) <= Len(all[n])
      BY <1>3, <1>5, <2>1 DEF ByLength, t, all
    <2> QED BY <1>3, <1>5, <1>10, <2>1, <2>2
  <1>12. Overwriting'
    <2>1. i' = i /\ j' = j + 1 /\ j' # 1 /\ j' \in 1 .. Len(all) + 1 /\ i \in 1 .. len + 1 /\ i # len + 1
          /\ len' = len /\ in_buf' = in_buf /\ OverTokens' = all
      BY <1>1, <1>2, <1>3, <1>4, <1>5 DEF all
    <2> HIDE DEF TriedIn
    <2> QED BY <1>9, <1>10, <1>11, <2>1 DEF Overwriting
  <1> QED BY <1>1, <1>2, <1>10, <1>12, OverKeeps

\* The bytes under the last token come back when the offset changes.
LEMMA OverNextOffsetInv ==
  ASSUME TokenInv, OverNextOffset
  PROVE  TokenInv'
  <1> DEFINE all == OverTokens
  <1>1. /\ step \in {"over", "autoover"} /\ i <= len /\ j > Len(OverTokens)
        /\ out_buf' = Restored /\ i' = i + 1 /\ j' = 1 /\ last_len' = 0
        /\ UNCHANGED dictVars /\ UNCHANGED <<in_buf, eff_map, q_extras, collectVars, ran, step>>
    BY DEF OverNextOffset
  <1>2. /\ in_buf \in Seq(Byte) /\ len = Len(in_buf) /\ len \in Nat /\ len' = len /\ out_buf \in Seq(Byte)
        /\ i \in Nat \ {0} /\ j \in Nat \ {0} /\ last_len \in Nat
    BY <1>1 DEF TokenInv, TokenTypes, len
  <1>3. /\ all \in Seq(Seq(Byte)) /\ Len(all) \in Nat
        /\ \A n \in 1 .. Len(all) : all[n] \in Seq(Byte) /\ Len(all[n]) \in Nat
    BY OverTokensGrow DEF TokenInv
  <1>4. OverTokens' = all
    BY <1>1, SameTokens DEF OverTokens
  <1>5. /\ last_len <= len - i + 1 /\ Len(out_buf) = len /\ j <= Len(all) + 1
        /\ \A k \in 1 .. len : k \notin i .. i + last_len - 1 => out_buf[k] = in_buf[k]
        /\ \A b \in ran : \E k \in 1 .. len, n \in 1 .. Len(all) : b = Over(in_buf, k, all[n])
        /\ \A k \in 1 .. len, n \in 1 .. Len(all) : k < i \/ (k = i /\ n < j) => TriedIn(k, n, ran)
    BY <1>1 DEF TokenInv, Overwriting
  <1>6. j > Len(all)
    BY <1>1
  <1> HIDE DEF all
  <1>7. out_buf' = in_buf
    <2>1. Len(out_buf) = Len(in_buf) /\ i \in 1 .. Len(out_buf) /\ last_len <= Len(out_buf) - i + 1
      BY <1>1, <1>2, <1>5
    <2>2. DiffersOnly(out_buf, in_buf, i, last_len)
      BY <1>2, <1>5 DEF DiffersOnly
    <2> DEFINE back == SubSeq(in_buf, i, i + last_len - 1)
    <2>3. out_buf' = Over(out_buf, i, back)
      BY <1>1 DEF Restored
    <2>4. back \in Seq(Byte) /\ Len(back) = last_len /\ TakenFrom(back, in_buf, i)
      BY <1>2, <2>1 DEF TakenFrom
    <2> HIDE DEF back
    <2>5. Over(out_buf, i, back) = in_buf
      <3>1. in_buf \in Seq(Byte) /\ out_buf \in Seq(Byte) /\ Len(out_buf) = Len(in_buf) /\ last_len \in Nat
            /\ i \in 1 .. Len(out_buf) /\ last_len <= Len(out_buf) - i + 1
        BY <1>2, <2>1
      <3> QED BY ONLY <2>2, <2>4, <3>1, RestoredIsWhole
    <2> QED BY <2>3, <2>5
  <1>8. \A k \in 1 .. len, n \in 1 .. Len(all) : k < i + 1 \/ (k = i + 1 /\ n < 1) => TriedIn(k, n, ran)'
    <2> SUFFICES ASSUME NEW k \in 1 .. len, NEW n \in 1 .. Len(all), k < i + 1 \/ (k = i + 1 /\ n < 1)
                 PROVE  TriedIn(k, n, ran)'
      OBVIOUS
    <2>1. k < i \/ (k = i /\ n < j)
      BY <1>2, <1>3, <1>6
    <2>2. TriedIn(k, n, ran) /\ ran \subseteq ran'
      BY <1>1, <1>5, <2>1
    <2> QED BY <1>1, <1>4, <2>2, TriedStays DEF all
  <1>9. Overwriting'
    <2>1. i' = i + 1 /\ j' = 1 /\ i + 1 \in 1 .. len + 1 /\ len' = len /\ in_buf' = in_buf /\ OverTokens' = all
          /\ last_len' = 0 /\ ran' = ran /\ 0 <= len - (i + 1) + 1
      BY <1>1, <1>2, <1>4
    <2>2. 1 \in 1 .. Len(all) + 1 /\ \A n \in 1 .. Len(all) : 0 <= Len(all[n])
      BY <1>3
    <2> HIDE DEF TriedIn
    <2> QED BY <1>2, <1>5, <1>7, <1>8, <2>1, <2>2 DEF Overwriting
  <1>10. i' \in Nat \ {0} /\ j' \in Nat \ {0} /\ last_len' \in Nat
    BY <1>1, <1>2
  <1> QED BY <1>1, <1>2, <1>7, <1>9, <1>10, OverKeeps

-----------------------------------------------------------------------------
(* One token inserted at one offset. *)

LEMMA InsertKeeps ==
  ASSUME TokenInv, step = "insert", step' = "insert",
         UNCHANGED dictVars, UNCHANGED <<in_buf, eff_map, q_extras, collectVars, last_len>>,
         out_buf' \in Seq(Byte), i' \in Nat \ {0}, j' \in Nat \ {0},
         Inserting'
  PROVE  TokenInv'
  <1>1. DictInv'
    BY DictStutters DEF TokenInv
  <1>2. TokenTypes'
    BY DEF TokenInv, TokenTypes, ByLength, collectVars
  <1>3. Begun'
    BY DEF TokenInv, Begun, dictVars
  <1> QED BY <1>1, <1>2, <1>3, NoCollectLeft DEF TokenInv, Overwriting

\* Sequences that agree at the start.
LEMMA SameHead ==
  ASSUME NEW b \in Seq(Byte), NEW d \in Seq(Byte), NEW n \in Nat, n <= Len(b), n <= Len(d),
         \A k \in 1 .. n : b[k] = d[k]
  PROVE  SubSeq(b, 1, n) = SubSeq(d, 1, n)
  <1> DEFINE x == SubSeq(b, 1, n)
             y == SubSeq(d, 1, n)
  <1>1. x \in Seq(Byte) /\ Len(x) = n /\ \A k \in 1 .. n : x[k] = b[k]
    OBVIOUS
  <1>2. y \in Seq(Byte) /\ Len(y) = n /\ \A k \in 1 .. n : y[k] = d[k]
    OBVIOUS
  <1> HIDE DEF x, y
  <1>3. \A k \in 1 .. Len(x) : x[k] = y[k]
    BY <1>1, <1>2
  <1>4. x = y
    BY <1>1, <1>2, <1>3, SeqEqual
  <1> QED BY <1>4 DEF x, y

\* The first bytes of what is put together.
LEMMA FirstOf ==
  ASSUME NEW h \in Seq(Byte), NEW t \in Seq(Byte), NEW u \in Seq(Byte)
  PROVE  /\ h \o t \o u \in Seq(Byte) /\ Len(h \o t \o u) >= Len(h)
         /\ \A k \in 1 .. Len(h) : (h \o t \o u)[k] = h[k]
  <1> DEFINE x == h \o t
  <1>1. x \in Seq(Byte) /\ Len(x) = Len(h) + Len(t) /\ \A k \in 1 .. Len(h) : x[k] = h[k]
    OBVIOUS
  <1>2. Len(h) \in Nat /\ Len(t) \in Nat /\ Len(u) \in Nat
    OBVIOUS
  <1> HIDE DEF x
  <1>3. x \o u \in Seq(Byte) /\ Len(x \o u) = Len(x) + Len(u) /\ \A k \in 1 .. Len(x) : (x \o u)[k] = x[k]
    BY <1>1
  <1>4. Len(x \o u) >= Len(h) /\ \A k \in 1 .. Len(h) : (x \o u)[k] = h[k]
    BY <1>1, <1>2, <1>3
  <1> QED BY <1>3, <1>4 DEF x

LEMMA InsertTokenInv ==
  ASSUME TokenInv, InsertToken
  PROVE  TokenInv'
  <1> DEFINE t == UserTokens[j]
             all == UserTokens
             tmp == SubSeq(out_buf, 1, i - 1) \o t \o SubSeq(in_buf, i, len)
             head == SubSeq(in_buf, 1, i - 1)
             tail == SubSeq(in_buf, i, len)
  <1>1. /\ step = "insert" /\ i <= len + 1 /\ j <= Len(all) /\ j' = j + 1
        /\ UNCHANGED dictVars /\ UNCHANGED <<in_buf, eff_map, q_extras, collectVars, i, last_len, step>>
        /\ IF len + Len(t) > MaxFile THEN UNCHANGED <<out_buf, ran>>
           ELSE out_buf' = tmp /\ ran' = ran \cup {tmp}
    BY DEF InsertToken
  <1>2. /\ in_buf \in Seq(Byte) /\ len = Len(in_buf) /\ len \in Nat /\ len' = len /\ out_buf \in Seq(Byte)
        /\ i \in Nat \ {0} /\ j \in Nat \ {0} /\ last_len = 0 /\ Len(out_buf) \in Nat
    BY <1>1 DEF TokenInv, TokenTypes, len, Inserting
  <1>3. all \in Seq(Seq(Byte)) /\ Len(all) \in Nat
    BY TokensGrow DEF TokenInv
  <1>4. UserTokens' = all
    BY <1>1, SameTokens
  <1>5. j \in 1 .. Len(all) /\ t \in Seq(Byte)
    BY <1>1, <1>2, <1>3
  <1>6. /\ Len(out_buf) >= i - 1 /\ \A k \in 1 .. i - 1 : out_buf[k] = in_buf[k]
        /\ \A b \in ran : \E k \in 0 .. len, n \in 1 .. Len(all) : b = Inserted(k, all[n])
        /\ \A k \in 0 .. len, n \in 1 .. Len(all) : k + 1 < i \/ (k + 1 = i /\ n < j) =>
             len + Len(all[n]) > MaxFile \/ Inserted(k, all[n]) \in ran
    BY <1>1 DEF TokenInv, Inserting
  <1>7. SubSeq(out_buf, 1, i - 1) = head
    <2>1. i - 1 \in Nat /\ i - 1 <= Len(out_buf) /\ i - 1 <= Len(in_buf)
      BY <1>1, <1>2, <1>6
    <2> QED BY <1>2, <1>6, <2>1, SameHead
  <1>8. tmp = head \o t \o tail /\ tmp = Inserted(i - 1, t) /\ i - 1 \in 0 .. len
    <2>1. (i - 1) + 1 = i /\ i - 1 \in 0 .. len
      BY <1>1, <1>2
    <2> QED BY <1>7, <2>1 DEF Inserted
  <1>9. head \in Seq(Byte) /\ tail \in Seq(Byte) /\ Len(head) = i - 1 /\ \A k \in 1 .. i - 1 : head[k] = in_buf[k]
    BY <1>1, <1>2
  <1>10. t = all[j]
    OBVIOUS
  <1> HIDE DEF t, all, head, tail, tmp
  <1>11. tmp \in Seq(Byte) /\ Len(tmp) >= i - 1 /\ \A k \in 1 .. i - 1 : tmp[k] = in_buf[k]
    <2>1. /\ head \o t \o tail \in Seq(Byte) /\ Len(head \o t \o tail) >= Len(head)
          /\ \A k \in 1 .. Len(head) : (head \o t \o tail)[k] = head[k]
      BY <1>5, <1>9, FirstOf
    <2>2. tmp \in Seq(Byte) /\ Len(tmp) >= i - 1 /\ \A k \in 1 .. i - 1 : tmp[k] = head[k]
      BY <1>8, <1>9, <2>1
    <2> QED BY <1>9, <2>2
  <1>12. out_buf' \in Seq(Byte) /\ Len(out_buf') >= i - 1 /\ \A k \in 1 .. i - 1 : out_buf'[k] = in_buf[k]
    BY <1>1, <1>2, <1>6, <1>11
  <1>13. \A b \in ran' : \E k \in 0 .. len, n \in 1 .. Len(all) : b = Inserted(k, all[n])
    BY <1>1, <1>5, <1>6, <1>8, <1>10
  <1>14. \A k \in 0 .. len, n \in 1 .. Len(all) : k + 1 < i \/ (k + 1 = i /\ n < j + 1) =>
             len + Len(all[n]) > MaxFile \/ Inserted(k, all[n]) \in ran'
    <2> SUFFICES ASSUME NEW k \in 0 .. len, NEW n \in 1 .. Len(all), k + 1 < i \/ (k + 1 = i /\ n < j + 1)
                 PROVE  len + Len(all[n]) > MaxFile \/ Inserted(k, all[n]) \in ran'
      OBVIOUS
    <2>1. (k + 1 < i \/ (k + 1 = i /\ n < j)) \/ (k = i - 1 /\ n = j)
      BY <1>2
    <2>2. ran \subseteq ran'
      BY <1>1
    <2>3. CASE k + 1 < i \/ (k + 1 = i /\ n < j)
      BY <1>6, <2>2, <2>3
    <2>4. CASE k = i - 1 /\ n = j
      BY <1>1, <1>8, <1>10, <2>4
    <2> QED BY <2>1, <2>3, <2>4
  <1>15. Inserting'
    <2>1. /\ i' = i /\ j' = j + 1 /\ j + 1 \in 1 .. Len(all) + 1 /\ i \in 1 .. len + 2 /\ i # len + 2
          /\ len' = len /\ in_buf' = in_buf /\ UserTokens' = all /\ last_len' = 0
      BY <1>1, <1>2, <1>3, <1>4, <1>5
    <2>2. \A k, n : Inserted(k, n)' = Inserted(k, n')
      BY <2>1 DEF Inserted
    <2>3. \A k, n : Inserted(k, UserTokens[n])' = Inserted(k, all[n])
      BY <2>1 DEF Inserted
    <2>4. \A b \in ran' : \E k \in 0 .. len', n \in 1 .. Len(UserTokens') : b = Inserted(k, UserTokens[n])'
      BY <1>13, <2>1, <2>3
    <2>5. \A k \in 0 .. len', n \in 1 .. Len(UserTokens') : k + 1 < i' \/ (k + 1 = i' /\ n < j') =>
            len' + Len(UserTokens'[n]) > MaxFile \/ Inserted(k, UserTokens[n])' \in ran'
      BY <1>14, <2>1, <2>3, ZenonT(30)
    <2>6. i' <= len' + 1 => Len(out_buf') >= i' - 1 /\ \A k \in 1 .. i' - 1 : out_buf'[k] = in_buf'[k]
      BY <1>12, <2>1
    <2>7. i' \in 1 .. len' + 2 /\ j' \in 1 .. Len(UserTokens') + 1 /\ last_len' = 0 /\ (i' = len' + 2 => j' = 1)
      BY <2>1
    <2> QED BY <2>4, <2>5, <2>6, <2>7 DEF Inserting
  <1>16. i' \in Nat \ {0} /\ j' \in Nat \ {0} /\ step' = "insert"
    BY <1>1, <1>2
  <1> QED BY <1>1, <1>12, <1>15, <1>16, InsertKeeps

\* "Copy head": one more byte in front of the tokens.
LEMMA InsertNextOffsetInv ==
  ASSUME TokenInv, InsertNextOffset
  PROVE  TokenInv'
  <1> DEFINE all == UserTokens
             head == SubSeq(out_buf, 1, i - 1)
             last == IF i <= len THEN <<in_buf[i]>> ELSE <<>>
  <1>1. /\ step = "insert" /\ i <= len + 1 /\ j > Len(all) /\ out_buf' = HeadCopied /\ i' = i + 1 /\ j' = 1
        /\ UNCHANGED dictVars /\ UNCHANGED <<in_buf, eff_map, q_extras, collectVars, last_len, ran, step>>
    BY DEF InsertNextOffset
  <1>2. /\ in_buf \in Seq(Byte) /\ len = Len(in_buf) /\ len \in Nat /\ len' = len /\ out_buf \in Seq(Byte)
        /\ i \in Nat \ {0} /\ j \in Nat \ {0} /\ last_len = 0 /\ Len(out_buf) \in Nat
    BY <1>1 DEF TokenInv, TokenTypes, len, Inserting
  <1>3. all \in Seq(Seq(Byte)) /\ Len(all) \in Nat
    BY TokensGrow DEF TokenInv
  <1>4. UserTokens' = all
    BY <1>1, SameTokens
  <1>5. /\ Len(out_buf) >= i - 1 /\ \A k \in 1 .. i - 1 : out_buf[k] = in_buf[k]
        /\ \A b \in ran : \E k \in 0 .. len, n \in 1 .. Len(all) : b = Inserted(k, all[n])
        /\ \A k \in 0 .. len, n \in 1 .. Len(all) : k + 1 < i \/ (k + 1 = i /\ n < j) =>
             len + Len(all[n]) > MaxFile \/ Inserted(k, all[n]) \in ran
    BY <1>1 DEF TokenInv, Inserting
  <1>6. head \in Seq(Byte) /\ Len(head) = i - 1 /\ \A k \in 1 .. i - 1 : head[k] = in_buf[k]
    BY <1>2, <1>5
  <1>7. last \in Seq(Byte)
    <2>1. <<>> \in Seq(Byte)
      OBVIOUS
    <2>2. i <= len => <<in_buf[i]>> \in Seq(Byte)
      BY <1>2
    <2> QED BY <2>1, <2>2
  <1>8. out_buf' = head \o last
    BY <1>1 DEF HeadCopied
  <1>9. i <= len => Len(last) = 1 /\ last[1] = in_buf[i]
    OBVIOUS
  <1> HIDE DEF all, head, last
  <1>10. out_buf' \in Seq(Byte)
    BY <1>6, <1>7, <1>8
  <1>11. i <= len => Len(out_buf') >= i /\ \A k \in 1 .. i : out_buf'[k] = in_buf[k]
    <2> SUFFICES ASSUME i <= len PROVE Len(head \o last) >= i /\ \A k \in 1 .. i : (head \o last)[k] = in_buf[k]
      BY <1>8
    <2>1. Len(last) = 1 /\ last[1] = in_buf[i]
      BY <1>9
    <2>2. Len(head \o last) = (i - 1) + 1
      <3>1. Len(head \o last) = Len(head) + Len(last)
        BY <1>6, <1>7, ConcatProperties
      <3> QED BY <1>6, <2>1, <3>1
    <2>3. \A k \in 1 .. i : (head \o last)[k] = IF k <= i - 1 THEN head[k] ELSE last[k - (i - 1)]
      <3>1. \A k \in 1 .. Len(head) + Len(last) :
              (head \o last)[k] = IF k <= Len(head) THEN head[k] ELSE last[k - Len(head)]
        BY <1>6, <1>7, ConcatProperties
      <3>2. Len(head) = i - 1 /\ Len(head) + Len(last) = i
        BY <1>2, <1>6, <2>1
      <3> QED BY <3>1, <3>2
    <2>4. \A k \in 1 .. i : k <= i - 1 \/ (k = i /\ k - (i - 1) = 1)
      BY <1>2
    <2>5. \A k \in 1 .. i : (head \o last)[k] = in_buf[k]
      <3> TAKE k \in 1 .. i
      <3>1. CASE k <= i - 1
        <4>1. k \in 1 .. i - 1
          BY <1>2, <3>1
        <4> QED BY <1>6, <2>3, <3>1, <4>1
      <3>2. CASE k = i
        <4>1. ~(k <= i - 1) /\ k - (i - 1) = 1
          BY <1>2, <3>2
        <4> QED BY <2>1, <2>3, <3>2, <4>1
      <3> QED BY <2>4, <3>1, <3>2
    <2> QED BY <1>2, <2>2, <2>5
  <1>12. \A k \in 0 .. len, n \in 1 .. Len(all) : k + 1 < i + 1 \/ (k + 1 = i + 1 /\ n < 1) =>
             len + Len(all[n]) > MaxFile \/ Inserted(k, all[n]) \in ran
    <2> TAKE k \in 0 .. len, n \in 1 .. Len(all)
    <2> SUFFICES ASSUME k + 1 < i + 1 \/ (k + 1 = i + 1 /\ n < 1)
                 PROVE  len + Len(all[n]) > MaxFile \/ Inserted(k, all[n]) \in ran
      OBVIOUS
    <2>1. k + 1 < i \/ (k + 1 = i /\ n < j)
      BY <1>1, <1>2, <1>3
    <2> QED BY <1>5, <2>1
  <1>13. Inserting'
    <2>1. /\ i' = i + 1 /\ j' = 1 /\ 1 \in 1 .. Len(all) + 1 /\ i + 1 \in 1 .. len + 2
          /\ len' = len /\ in_buf' = in_buf /\ UserTokens' = all /\ last_len' = 0 /\ ran' = ran
      BY <1>1, <1>2, <1>3, <1>4
    <2>2. \A k, n : Inserted(k, UserTokens[n])' = Inserted(k, all[n])
      BY <2>1 DEF Inserted
    <2>3. \A b \in ran' : \E k \in 0 .. len', n \in 1 .. Len(UserTokens') : b = Inserted(k, UserTokens[n])'
      <3> TAKE b \in ran'
      <3>1. PICK k \in 0 .. len, n \in 1 .. Len(all) : b = Inserted(k, all[n])
        BY <1>5, <2>1
      <3>2. b = Inserted(k, UserTokens[n])'
        BY <2>2, <3>1
      <3> QED BY <2>1, <3>1, <3>2
    <2>4. \A k \in 0 .. len', n \in 1 .. Len(UserTokens') : k + 1 < i' \/ (k + 1 = i' /\ n < j') =>
            len' + Len(UserTokens'[n]) > MaxFile \/ Inserted(k, UserTokens[n])' \in ran'
      BY <1>12, <2>1, <2>2
    <2>5. i' <= len' + 1 => Len(out_buf') >= i' - 1 /\ \A k \in 1 .. i' - 1 : out_buf'[k] = in_buf'[k]
      <3>1. i' <= len' + 1 => i <= len
        BY <1>2, <2>1
      <3>2. i' - 1 = i
        BY <1>2, <2>1
      <3> QED BY <1>11, <2>1, <3>1, <3>2
    <2>6. i' \in 1 .. len' + 2 /\ j' \in 1 .. Len(UserTokens') + 1 /\ last_len' = 0 /\ (i' = len' + 2 => j' = 1)
      BY <2>1
    <2> QED BY <2>3, <2>4, <2>5, <2>6 DEF Inserting
  <1>14. i' \in Nat \ {0} /\ j' \in Nat \ {0} /\ step' = "insert"
    BY <1>1, <1>2
  <1> QED BY <1>1, <1>10, <1>13, <1>14, InsertKeeps

-----------------------------------------------------------------------------
(* From one stage to the next. *)

\* Behind the last offset the buffer is whole.
LEMMA WholeAtTheEnd ==
  ASSUME TokenInv, step \in {"over", "autoover"}, j = 1
  PROVE  out_buf = in_buf
  <1>1. in_buf \in Seq(Byte) /\ out_buf \in Seq(Byte) /\ len = Len(in_buf) /\ i \in Nat
    BY DEF TokenInv, TokenTypes, len
  <1>2. last_len = 0 /\ Len(out_buf) = len
        /\ \A k \in 1 .. len : k \notin i .. i + last_len - 1 => out_buf[k] = in_buf[k]
    BY DEF TokenInv, Overwriting
  <1>3. \A k \in 1 .. Len(out_buf) : out_buf[k] = in_buf[k]
    BY <1>1, <1>2
  <1> QED BY <1>1, <1>2, <1>3, SeqEqual

LEMMA StageDoneInv ==
  ASSUME TokenInv, StageDone
  PROVE  TokenInv'
  <1>1. /\ step \in {"over", "insert"} /\ i' = 1 /\ j' = 1 /\ ran' = {}
        /\ UNCHANGED dictVars /\ UNCHANGED <<in_buf, eff_map, q_extras, collectVars, last_len>>
        /\ step' \in {"insert", "autoover"}
        /\ step' = "insert" => out_buf' = <<>> /\ step = "over"
        /\ step' = "autoover" => out_buf' = IF step = "insert" THEN in_buf ELSE out_buf
    BY DEF StageDone
  <1>2. in_buf \in Seq(Byte) /\ len = Len(in_buf) /\ len \in Nat /\ len' = len /\ i \in Nat
    BY <1>1 DEF TokenInv, TokenTypes, len
  <1>3. step = "over" => j = 1 /\ last_len = 0
    <2>1. step = "over" => i = len + 1
      BY <1>2 DEF StageDone, TokenInv, Overwriting
    <2> QED BY <2>1 DEF TokenInv, Overwriting
  <1>4. last_len = 0 /\ last_len' = 0
    BY <1>1, <1>3 DEF TokenInv, Inserting
  <1>5. step' = "autoover" => out_buf' = in_buf
    BY <1>1, <1>3, WholeAtTheEnd
  <1>6. out_buf' \in Seq(Byte)
    <2>1. <<>> \in Seq(Byte)
      OBVIOUS
    <2> QED BY <1>1, <1>2, <1>5, <2>1
  <1>7. DictInv'
    BY <1>1, DictStutters DEF TokenInv
  <1>8. TokenTypes'
    BY <1>1, <1>4, <1>6 DEF TokenInv, TokenTypes, ByLength, collectVars
  <1>9. Begun'
    BY <1>1 DEF TokenInv, Begun, dictVars
  <1>10. Overwriting'
    <2>1. CASE step' = "autoover"
      BY <1>1, <1>4, <1>5, <2>1, OverBegins
    <2>2. CASE step' = "insert"
      BY <2>2 DEF Overwriting
    <2> QED BY <1>1, <2>1, <2>2
  <1>11. Inserting'
    <2> SUFFICES ASSUME step' = "insert" PROVE Inserting'
      BY DEF Inserting
    <2>1. out_buf' = <<>> /\ Len(out_buf') = 0
      BY <1>1
    <2>2. UserTokens' \in Seq(Seq(Byte))
      BY <1>1, SameTokens, TokensGrow DEF TokenInv
    <2>3. 1 \in 1 .. len' + 2 /\ 1 \in 1 .. Len(UserTokens') + 1 /\ 1 # len' + 2
      BY <1>2, <2>2
    <2>4. \A k \in 0 .. len', n \in 1 .. Len(UserTokens') : ~(k + 1 < 1 \/ (k + 1 = 1 /\ n < 1))
      BY <1>2
    <2> HIDE DEF UserTokens, Inserted
    <2> QED BY <1>1, <1>4, <2>1, <2>3, <2>4 DEF Inserting
  <1> QED BY <1>1, <1>7, <1>8, <1>9, <1>10, <1>11, NoCollectLeft DEF TokenInv

-----------------------------------------------------------------------------
(* Every step. *)

LEMMA TokenStutters ==
  ASSUME TokenInv, UNCHANGED tokenVars
  PROVE  TokenInv'
  <1>1. UNCHANGED dictVars /\ UNCHANGED <<in_buf, out_buf, eff_map, q_extras, a_collect, a_len, prev_cksum, offered,
                                           cksums, i, j, last_len, ran, step>>
    BY DEF tokenVars, entryVars, collectVars, loopVars
  <1>2. len' = len /\ UserTokens' = UserTokens /\ OverTokens' = OverTokens
    BY <1>1, SameTokens DEF len, OverTokens
  <1>3. DictInv'
    BY <1>1, DictStutters DEF TokenInv
  <1>4. TokenTypes'
    BY <1>1 DEF TokenInv, TokenTypes, ByLength
  <1>5. Begun'
    BY <1>1 DEF TokenInv, Begun, Cleared, dictVars
  <1>6. Collecting'
    <2>1. Collecting
      BY DEF TokenInv
    <2>2. UnderWay => UnderWay'
      BY <1>1, <1>2 DEF UnderWay
    <2>3. \A n : OfferedUpTo(n) => OfferedUpTo(n)'
      <3>1. \A a, b : IsToken(a, b)' <=> IsToken(a, b)
        BY <1>1, <1>2 DEF IsToken, IsRun
      <3> QED BY <1>1, <1>2, <3>1 DEF OfferedUpTo
    <2>4. OfferedUpTo(i - 2) => OfferedUpTo(i - 2)'
      BY <1>1, <2>3
    <2>5. OfferedUpTo(len) => OfferedUpTo(len)'
      BY <1>2, <2>3
    <2> QED BY <1>1, <1>2, <2>1, <2>2, <2>4, <2>5 DEF Collecting
  <1>7. Overwriting'
    <2>1. Overwriting
      BY DEF TokenInv
    <2>2. \A k, n : TriedIn(k, n, ran)' <=> TriedIn(k, n, ran)
      BY <1>1, <1>2 DEF TriedIn, Effective
    <2> QED BY <1>1, <1>2, <2>1, <2>2 DEF Overwriting
  <1>8. Inserting'
    <2>1. Inserting
      BY DEF TokenInv
    <2>2. \A k, n : Inserted(k, UserTokens[n])' = Inserted(k, UserTokens[n])
      BY <1>1, <1>2 DEF Inserted
    <2> SUFFICES ASSUME step = "insert" PROVE Inserting'
      BY <1>1 DEF Inserting
    <2>3. \A b \in ran' : \E k \in 0 .. len', n \in 1 .. Len(UserTokens') : b = Inserted(k, UserTokens[n])'
      <3> TAKE b \in ran'
      <3>1. PICK k \in 0 .. len, n \in 1 .. Len(UserTokens) : b = Inserted(k, UserTokens[n])
        BY <1>1, <2>1 DEF Inserting
      <3>2. b = Inserted(k, UserTokens[n])'
        BY <2>2, <3>1
      <3> QED BY <1>2, <3>1, <3>2
    <2>4. \A k \in 0 .. len', n \in 1 .. Len(UserTokens') : k + 1 < i' \/ (k + 1 = i' /\ n < j') =>
            len' + Len(UserTokens'[n]) > MaxFile \/ Inserted(k, UserTokens[n])' \in ran'
      <3> TAKE k \in 0 .. len', n \in 1 .. Len(UserTokens')
      <3>1. k \in 0 .. len /\ n \in 1 .. Len(UserTokens)
        BY <1>2
      <3>2. k + 1 < i \/ (k + 1 = i /\ n < j) =>
              len + Len(UserTokens[n]) > MaxFile \/ Inserted(k, UserTokens[n]) \in ran
        BY <2>1, <3>1 DEF Inserting
      <3> QED BY <1>1, <1>2, <2>2, <3>2
    <2>5. /\ i' <= len' + 1 => Len(out_buf') >= i' - 1 /\ \A k \in 1 .. i' - 1 : out_buf'[k] = in_buf'[k]
          /\ i' \in 1 .. len' + 2 /\ j' \in 1 .. Len(UserTokens') + 1 /\ last_len' = 0 /\ (i' = len' + 2 => j' = 1)
      BY <1>1, <1>2, <2>1 DEF Inserting
    <2> QED BY <2>3, <2>4, <2>5 DEF Inserting
  <1> QED BY <1>3, <1>4, <1>5, <1>6, <1>7, <1>8 DEF TokenInv

LEMMA TokenInvNext == TokenInv /\ [TokensNext]_tokenVars => TokenInv'
  <1> SUFFICES ASSUME TokenInv, [TokensNext]_tokenVars PROVE TokenInv'
    OBVIOUS
  <1>1. CASE Take
    BY <1>1, TakeEntryInv
  <1>2. CASE CollectByte
    BY <1>2, CollectByteInv
  <1>3. CASE Effector
    BY <1>3, EffectorInv
  <1>4. CASE OverToken
    BY <1>4, OverTokenInv
  <1>5. CASE OverNextOffset
    BY <1>5, OverNextOffsetInv
  <1>6. CASE InsertToken
    BY <1>6, InsertTokenInv
  <1>7. CASE InsertNextOffset
    BY <1>7, InsertNextOffsetInv
  <1>8. CASE StageDone
    BY <1>8, StageDoneInv
  <1>9. CASE AbandonEntry \/ EntryDone
    BY <1>9, LeaveEntryInv DEF AbandonEntry, EntryDone
  <1>10. CASE (Pivot \/ LoadExtras) /\ UNCHANGED <<entryVars, collectVars, loopVars, step>>
    BY <1>10, StartInv
  <1>11. CASE UNCHANGED tokenVars
    BY <1>11, TokenStutters
  <1> QED BY <1>1, <1>2, <1>3, <1>4, <1>5, <1>6, <1>7, <1>8, <1>9, <1>10, <1>11 DEF TokensNext

-----------------------------------------------------------------------------
(* What is collected and tried. *)

LEMMA RunsCollected == TokenInv => TokensAreRuns
  <1> SUFFICES ASSUME TokenInv, step = "effector" PROVE TokensAreRuns
    BY DEF TokensAreRuns
  <1> DEFINE pairs == {p \in (1 .. len) \X (1 .. len) : p[1] <= p[2] /\ InLimits(p[2] - p[1] + 1) /\ IsRun(p[1], p[2])}
             runs == {SubSeq(in_buf, p[1], p[2]) : p \in pairs}
  <1>1. OfferedUpTo(len) /\ in_buf \in Seq(Byte) /\ len = Len(in_buf) /\ len \in Nat
    BY DEF TokenInv, Collecting, TokenTypes, len
  <1>2. ASSUME NEW a \in 1 .. len, NEW b \in 1 .. len, IsToken(a, b) PROVE SubSeq(in_buf, a, b) \in runs
    <2>1. <<a, b>> \in pairs
      BY <1>2 DEF IsToken
    <2>2. SubSeq(in_buf, <<a, b>>[1], <<a, b>>[2]) \in runs
      BY ONLY <2>1
    <2> QED BY <2>2
  <1>3. ASSUME NEW t \in runs PROVE \E a, b \in 1 .. len : IsToken(a, b) /\ t = SubSeq(in_buf, a, b)
    <2>1. PICK p \in pairs : t = SubSeq(in_buf, p[1], p[2])
      OBVIOUS
    <2>2. p[1] \in 1 .. len /\ p[2] \in 1 .. len /\ IsToken(p[1], p[2])
      BY DEF IsToken
    <2> QED BY <2>1, <2>2
  <1> HIDE DEF runs
  <1>4. ASSUME NEW t \in offered, Len(t) > 1 PROVE t \in runs
    <2>1. PICK a, b \in 1 .. len : IsToken(a, b) /\ t = SubSeq(in_buf, a, b)
      BY <1>1, <1>4 DEF OfferedUpTo
    <2> QED BY <1>2, <2>1
  <1>5. ASSUME NEW t \in runs, Len(t) > 1 PROVE t \in offered
    <2>1. PICK a, b \in 1 .. len : IsToken(a, b) /\ t = SubSeq(in_buf, a, b)
      BY <1>3
    <2>2. a <= b /\ a \in Int /\ b \in Int /\ b <= len
      BY <1>1, <2>1 DEF IsToken
    <2>3. Len(SubSeq(in_buf, a, a)) = 1
      BY <1>1
    <2>4. a < b
      BY <1>5, <2>1, <2>2, <2>3
    <2> QED BY <1>1, <2>1, <2>2, <2>4 DEF OfferedUpTo
  <1>6. {t \in offered : Len(t) > 1} = {t \in runs : Len(t) > 1}
    BY <1>4, <1>5
  <1> QED BY <1>6 DEF TokensAreRuns, runs

LEMMA OneAtATime == TokenInv => OneTokenAtATime
  <1> SUFFICES ASSUME TokenInv PROVE OneTokenAtATime
    OBVIOUS
  <1>1. ASSUME step \in {"over", "autoover"}
        PROVE  /\ \A b \in ran : \E k \in 1 .. len, t \in {OverTokens[n] : n \in 1 .. Len(OverTokens)} :
                    b = Over(in_buf, k, t)
               /\ j = 1 => out_buf = in_buf
    <2>1. \A b \in ran : \E k \in 1 .. len, n \in 1 .. Len(OverTokens) : b = Over(in_buf, k, OverTokens[n])
      BY <1>1 DEF TokenInv, Overwriting
    <2>2. j = 1 => out_buf = in_buf
      BY <1>1, WholeAtTheEnd
    <2> HIDE DEF OverTokens
    <2> QED BY <2>1, <2>2
  <1>2. ASSUME step = "insert"
        PROVE  \A b \in ran : \E k \in 0 .. len, t \in {UserTokens[n] : n \in 1 .. Len(UserTokens)} :
                 b = SubSeq(in_buf, 1, k) \o t \o SubSeq(in_buf, k + 1, len)
    <2>1. \A b \in ran : \E k \in 0 .. len, n \in 1 .. Len(UserTokens) : b = Inserted(k, UserTokens[n])
      BY <1>2 DEF TokenInv, Inserting
    <2> QED BY <2>1 DEF Inserted
  <1> QED BY <1>1, <1>2 DEF OneTokenAtATime

LEMMA AllTried == TokenInv => EveryTokenTried
  <1> SUFFICES ASSUME TokenInv PROVE EveryTokenTried
    OBVIOUS
  <1>1. len \in Nat /\ i \in Nat
    BY DEF TokenInv, TokenTypes, len
  <1>2. ASSUME step \in {"over", "autoover"}, i > len, NEW k \in 1 .. len, NEW n \in 1 .. Len(OverTokens)
        PROVE  TriedIn(k, n, ran)
    <2>1. k < i
      BY <1>1, <1>2
    <2> QED BY <1>2, <2>1 DEF TokenInv, Overwriting
  <1>3. ASSUME step = "insert", i > len + 1, NEW k \in 0 .. len, NEW n \in 1 .. Len(UserTokens)
        PROVE  len + Len(UserTokens[n]) > MaxFile \/ Inserted(k, UserTokens[n]) \in ran
    <2>1. k + 1 < i
      BY <1>1, <1>3
    <2> QED BY <1>3, <2>1 DEF TokenInv, Inserting
  <1> QED BY <1>2, <1>3 DEF EveryTokenTried, TriedIn, Inserted

\* For any entry, dictionaries, limits and checksums (the collection in "bitflip
\* 1/1" and the three dictionary stages of fuzz_one()): what is offered as a token
\* is the runs of bytes that share a checksum, each input run is the entry with one
\* token, although the buffer is not restored between two tokens of an offset, and
\* no token is left out at any offset.
THEOREM TokensAreTried == TokensSpec => []TokenStagesExact
  <1>1. TokenInv => TokenStagesExact
    BY RunsCollected, OneAtATime, AllTried DEF TokenStagesExact
  <1> QED BY <1>1, TokensAtStart, TokenInvNext, PTL DEF TokensSpec

-----------------------------------------------------------------------------
(* The deterministic stages. *)

\* Value w was run at offset k, or need not be: EveryValueTried says this.
Settled(k, w) ==
  \/ Put(k, w) = in_buf \/ Put(k, w) \in tried
  \/ NoEffect(Put(k, w)) \/ CouldBeBitflip(Xor(Get(k, Len(w)), w))

SumsSettled(n) ==
  \A k \in Offsets(n), delta \in Sums :
    \A w \in {Plus(Get(k, n), delta), PlusBE(Get(k, n), delta)} : Settled(k, w)

ValuesSettled(n) ==
  \A k \in Offsets(n), w \in Interesting(n) : Settled(k, w) /\ Settled(k, Swap(w))

\* What has been settled by the stages passed.
StagesInv ==
  LET late == {"int8", "int16", "int32", "done"}
  IN /\ in_buf \in Seq(Byte)
     /\ ~no_arith =>
          /\ stage \in {"arith16", "arith32"} \cup late => SumsSettled(1)
          /\ stage \in {"arith32"} \cup late => SumsSettled(2)
          /\ stage \in late => SumsSettled(4)
          /\ stage \in {"int16", "int32", "done"} => ValuesSettled(1)
          /\ stage \in {"int32", "done"} => ValuesSettled(2)
          /\ stage = "done" => ValuesSettled(4)

-----------------------------------------------------------------------------
(* Sums: the carry, and what a sum without one leaves alone. *)

\* v has n bytes.
IsValue(v, n) == v \in Seq(Byte) /\ Len(v) = n

LEMMA ValueBytes ==
  ASSUME NEW n \in Nat, NEW v, IsValue(v, n)
  PROVE  v \in Seq(Byte) /\ Len(v) = n /\ \A k \in 1 .. n : v[k] \in Byte /\ v[k] \in 0 .. 255 /\ v[k] \in Int
  <1>1. v \in Seq(Byte) /\ Len(v) = n
    BY DEF IsValue
  <1>2. \A k \in 1 .. n : v[k] \in Byte
    BY <1>1
  <1>3. \A b \in Byte : b \in 0 .. 255 /\ b \in Int
    BY DEF Byte
  <1> QED BY <1>1, <1>2, <1>3

\* Bytes carry nothing by themselves; the carry out of the second byte.
LEMMA NoCarry ==
  ASSUME NEW a \in 0 .. 255
  PROVE  (a + 0) \div 256 = 0 /\ (a + 0) % 256 = a
  OBVIOUS

LEMMA NoCarryOfSum ==
  ASSUME NEW a \in 0 .. 255, NEW m \in Int, 0 <= a + m, a + m <= 255
  PROVE  (a + m) \div 256 = 0
  <1> DEFINE t == a + m
  <1>1. t \in 0 .. 255
    OBVIOUS
  <1> HIDE DEF t
  <1>2. t \div 256 = 0
    BY <1>1
  <1> QED BY <1>2 DEF t

CarryOfTwo(a, b, m) == (b + (a + m) \div 256) \div 256

FitsTwo(a, b, m) == 0 <= a + 256 * b + m /\ a + 256 * b + m <= 65535

LEMMA NoCarryOfTwo ==
  ASSUME NEW a \in 0 .. 255, NEW b \in 0 .. 255, NEW m \in Int, FitsTwo(a, b, m)
  PROVE  CarryOfTwo(a, b, m) = 0
  <1> DEFINE t == a + m
             q == t \div 256
  <1>1. t \in Int /\ 0 <= t + 256 * b /\ t + 256 * b <= 65535
    BY DEF FitsTwo
  <1> HIDE DEF t
  <1>2. q \in Int /\ 256 * q <= t /\ t < 256 * q + 256
    BY <1>1
  <1> HIDE DEF q
  <1>3. b + q >= 0 /\ b + q <= 255 /\ b + q \in Int
    BY <1>1, <1>2
  <1>4. (b + q) \div 256 = 0
    <2> DEFINE z == b + q
    <2>1. z \in 0 .. 255
      BY <1>3
    <2> HIDE DEF z
    <2>2. z \div 256 = 0
      BY <2>1
    <2> QED BY <2>2 DEF z
  <1> QED BY <1>4 DEF q, t, CarryOfTwo

\* c holds the carries of v + m from byte to byte.
IsCarry(c, v, m) ==
  /\ c \in [0 .. Len(v) -> Int] /\ c[0] = m
  /\ \A k \in 1 .. Len(v) : c[k] = (v[k] + c[k - 1]) \div 256

LEMMA PlusUnfolds ==
  ASSUME NEW v \in Seq(Byte), NEW m \in Int
  PROVE  \E c : IsCarry(c, v, m) /\ Plus(v, m) = [k \in 1 .. Len(v) |-> (v[k] + c[k - 1]) % 256]
  <1> DEFINE N == Len(v)
             next == [k \in 1 .. N |-> [x \in Int |-> (v[k] + x) \div 256]]
             Is(f) == f = [k \in 0 .. N |-> IF k = 0 THEN m ELSE (v[k] + f[k - 1]) \div 256]
             carry == CHOOSE f : Is(f)
  <1>1. N \in Nat /\ \A k \in 1 .. N : v[k] \in Int
    <2>1. N \in Nat /\ \A k \in 1 .. N : v[k] \in Byte
      OBVIOUS
    <2>2. \A b \in Byte : b \in Int
      BY DEF Byte
    <2> QED BY <2>1, <2>2
  <1>2. next \in StepsOf(N, Int)
    BY <1>1 DEF StepsOf
  <1>3. \A k \in 1 .. N, x \in Int : next[k][x] = (v[k] + x) \div 256
    OBVIOUS
  <1> HIDE DEF N, next
  <1>4. PICK f : RunsThrough(f, N, Int, m, next)
    BY <1>1, <1>2, Recursion
  <1>5. /\ f \in [0 .. N -> Int] /\ f[0] = m
        /\ \A k \in 1 .. N : f[k] = (v[k] + f[k - 1]) \div 256
    <2>1. f \in [0 .. N -> Int] /\ f[0] = m /\ \A k \in 1 .. N : f[k] = next[k][f[k - 1]]
      BY <1>4 DEF RunsThrough
    <2>2. \A k \in 1 .. N : f[k - 1] \in Int
      BY <1>1, <2>1
    <2> QED BY <1>3, <2>1, <2>2
  <1>6. \A k \in 0 .. N : f[k] = IF k = 0 THEN m ELSE (v[k] + f[k - 1]) \div 256
    BY <1>1, <1>5
  <1>7. Is(f)
    BY <1>5, <1>6
  <1>8. Is(carry)
    <2> HIDE DEF Is
    <2> QED BY <1>7
  <1>9. Plus(v, m) = [k \in 1 .. N |-> (v[k] + carry[k - 1]) % 256]
    BY DEF Plus, N
  <1> HIDE DEF carry
  <1>10. carry = f
    <2>1. \A k \in 0 .. N : carry[k] = IF k = 0 THEN m ELSE (v[k] + carry[k - 1]) \div 256
      BY <1>8
    <2> DEFINE T == {k \in 0 .. N : carry[k] = f[k]}
    <2>2. 0 \in T
      BY <1>1, <1>5, <2>1
    <2>3. ASSUME NEW k \in 0 .. N - 1, k \in T PROVE k + 1 \in T
      BY <1>1, <1>6, <2>1, <2>3
    <2>4. \A k \in 0 .. N : k \in T
      <3> HIDE DEF T
      <3> QED BY <1>1, <2>2, <2>3, UpTo
    <2>5. carry = [k \in 0 .. N |-> carry[k]]
      BY <1>8
    <2>6. \A k \in 0 .. N : carry[k] = f[k]
      BY <2>4
    <2> QED BY <1>5, <2>5, <2>6
  <1> HIDE DEF Is
  <1>11. IsCarry(f, v, m)
    BY <1>5 DEF IsCarry, N
  <1> QED BY <1>9, <1>10, <1>11 DEF N

LEMMA SumIsValue ==
  ASSUME NEW n \in Nat, NEW v, IsValue(v, n), NEW m \in Int
  PROVE  IsValue(Plus(v, m), n)
  <1>1. v \in Seq(Byte) /\ Len(v) = n /\ \A k \in 1 .. n : v[k] \in Int
    BY ValueBytes
  <1>2. PICK c : IsCarry(c, v, m) /\ Plus(v, m) = [k \in 1 .. Len(v) |-> (v[k] + c[k - 1]) % 256]
    BY <1>1, PlusUnfolds
  <1>3. \A k \in 1 .. n : (v[k] + c[k - 1]) % 256 \in Byte
    <2> TAKE k \in 1 .. n
    <2>1. c[k - 1] \in Int
      BY <1>1, <1>2 DEF IsCarry
    <2>2. v[k] + c[k - 1] \in Int
      BY <1>1, <2>1
    <2> QED BY <2>2 DEF Byte
  <1>4. Plus(v, m) = [k \in 1 .. n |-> (v[k] + c[k - 1]) % 256]
    BY <1>1, <1>2
  <1> QED BY <1>3, <1>4 DEF IsValue

LEMMA SwapIsValue ==
  ASSUME NEW n \in Nat, NEW v, IsValue(v, n)
  PROVE  IsValue(Swap(v), n) /\ \A k \in 1 .. n : Swap(v)[k] = v[n + 1 - k]
  <1>1. \A k \in 1 .. n : n + 1 - k \in 1 .. n
    OBVIOUS
  <1> QED BY <1>1 DEF IsValue, Swap

LEMMA SwapTwice ==
  ASSUME NEW n \in Nat, NEW v, IsValue(v, n)
  PROVE  Swap(Swap(v)) = v
  <1> DEFINE u == Swap(v)
             w == Swap(u)
  <1>1. IsValue(u, n) /\ \A k \in 1 .. n : u[k] = v[n + 1 - k]
    BY SwapIsValue
  <1> HIDE DEF u
  <1>2. IsValue(w, n) /\ \A k \in 1 .. n : w[k] = u[n + 1 - k]
    BY <1>1, SwapIsValue
  <1> HIDE DEF w
  <1>3. \A k \in 1 .. n : w[k] = v[k]
    BY <1>1, <1>2
  <1>4. w = v
    BY <1>2, <1>3, SeqEqual DEF IsValue
  <1> QED BY <1>4 DEF u, w

LEMMA BESumIsValue ==
  ASSUME NEW n \in Nat, NEW v, IsValue(v, n), NEW m \in Int
  PROVE  IsValue(PlusBE(v, m), n)
  BY SwapIsValue, SumIsValue DEF PlusBE

\* Carries() for n bytes, the low half h of them.
LEMMA PlusPart ==
  ASSUME NEW v, NEW h \in {1, 2}, NEW n, n = 2 * h, IsValue(v, n), NEW m \in Int, ~Carries(v, m)
  PROVE  Plus(v, m) = Over(v, 1, Plus(SubSeq(v, 1, h), m))
  <1> DEFINE u == SubSeq(v, 1, h)
             p == Plus(v, m)
             q == Plus(u, m)
             x == Over(v, 1, q)
  <1>0. n \in Nat /\ h \in Nat /\ n \in {2, 4}
    OBVIOUS
  <1>1. v \in Seq(Byte) /\ Len(v) = n /\ \A k \in 1 .. n : v[k] \in 0 .. 255 /\ v[k] \in Int
    BY <1>0, ValueBytes
  <1>2. IsValue(u, h) /\ \A k \in 1 .. h : u[k] = v[k]
    BY <1>0, <1>1 DEF IsValue
  <1>3. PICK c : IsCarry(c, v, m) /\ p = [k \in 1 .. Len(v) |-> (v[k] + c[k - 1]) % 256]
    BY <1>1, PlusUnfolds
  <1> HIDE DEF u
  <1>4. PICK d : IsCarry(d, u, m) /\ q = [k \in 1 .. Len(u) |-> (u[k] + d[k - 1]) % 256]
    BY <1>2, PlusUnfolds, ZenonT(30) DEF IsValue
  <1>5. IsValue(p, n) /\ IsValue(q, h)
    BY <1>0, <1>2, SumIsValue
  <1> HIDE DEF p, q
  <1>6. x \in Seq(Byte) /\ Len(x) = n /\ \A k \in 1 .. n : x[k] = IF k \in 1 .. 1 + h - 1 THEN q[k - 1 + 1] ELSE v[k]
    <2>1. 1 \in Nat \ {0} /\ q \in Seq(Byte) /\ Len(q) = h
      BY <1>5 DEF IsValue
    <2> QED BY <1>1, <2>1, OverIs, SMTT(30)
  <1> HIDE DEF x
  <1>7. /\ c[0] = m /\ \A k \in 1 .. n : c[k - 1] \in Int /\ c[k] = (v[k] + c[k - 1]) \div 256
        /\ d[0] = m /\ \A k \in 1 .. h : d[k - 1] \in Int /\ d[k] = (u[k] + d[k - 1]) \div 256
        /\ \A k \in 1 .. n : p[k] = (v[k] + c[k - 1]) % 256
        /\ \A k \in 1 .. h : q[k] = (u[k] + d[k - 1]) % 256
    <2>1. Len(v) = n /\ Len(u) = h
      BY <1>1, <1>2 DEF IsValue
    <2>2. c \in [0 .. n -> Int] /\ d \in [0 .. h -> Int]
      BY <1>3, <1>4, <2>1 DEF IsCarry
    <2>3. /\ \A k \in 1 .. n : c[k - 1] \in Int /\ c[k] = (v[k] + c[k - 1]) \div 256
          /\ \A k \in 1 .. h : d[k - 1] \in Int /\ d[k] = (u[k] + d[k - 1]) \div 256
          /\ c[0] = m /\ d[0] = m
      BY <1>0, <1>3, <1>4, <2>1, <2>2 DEF IsCarry
    <2>4. p = [k \in 1 .. n |-> (v[k] + c[k - 1]) % 256] /\ q = [k \in 1 .. h |-> (u[k] + d[k - 1]) % 256]
      BY <1>3, <1>4, <2>1
    <2> QED BY <2>3, <2>4
  <1>8. CASE n = 2
    <2>1. h = 1 /\ v[1] \in 0 .. 255 /\ v[2] \in 0 .. 255 /\ v[1] \in Int
      BY <1>0, <1>1, <1>8
    <2>2. v[1] + m <= 255 /\ v[1] + m >= 0
      BY <1>1, <1>8, <2>1 DEF Carries, LowHalf
    <2>3. /\ c[1 - 1] = m /\ c[1] = (v[1] + m) \div 256 /\ p[1] = (v[1] + m) % 256
          /\ c[2 - 1] = c[1] /\ p[2] = (v[2] + c[1]) % 256
          /\ q[1] = (u[1] + m) % 256 /\ u[1] = v[1]
      BY <1>2, <1>7, <1>8, <2>1
    <2>4. c[1] = 0
      BY <2>1, <2>2, <2>3, NoCarryOfSum
    <2>5. p[1] = q[1] /\ p[2] = v[2]
      <3>1. p[1] = q[1] /\ p[2] = (v[2] + 0) % 256
        BY ONLY <2>3, <2>4
      <3> QED BY <2>1, <3>1, NoCarry
    <2>6. \A k \in 1 .. n : p[k] = x[k]
      BY <1>6, <1>8, <2>1, <2>5
    <2> QED BY <1>5, <1>6, <2>6, SeqEqual DEF IsValue, p, x, q, u
  <1>9. CASE n = 4
    <2>1. h = 2 /\ v[1] \in 0 .. 255 /\ v[2] \in 0 .. 255 /\ v[3] \in 0 .. 255 /\ v[4] \in 0 .. 255
      BY <1>0, <1>1, <1>9
    <2>2. v[1] + 256 * v[2] + m <= 65535 /\ v[1] + 256 * v[2] + m >= 0
      BY <1>1, <1>9, <2>1 DEF Carries, LowHalf
    <2>3. /\ c[1 - 1] = m /\ c[1] = (v[1] + m) \div 256 /\ p[1] = (v[1] + m) % 256
          /\ c[2 - 1] = c[1] /\ c[2] = (v[2] + c[1]) \div 256 /\ p[2] = (v[2] + c[1]) % 256 /\ c[1] \in Int
          /\ c[3 - 1] = c[2] /\ c[3] = (v[3] + c[2]) \div 256 /\ p[3] = (v[3] + c[2]) % 256
          /\ c[4 - 1] = c[3] /\ p[4] = (v[4] + c[3]) % 256
      BY <1>7, <1>9
    <2>4. /\ d[1] = (u[1] + m) \div 256 /\ q[1] = (u[1] + m) % 256
          /\ q[2] = (u[2] + d[1]) % 256 /\ u[1] = v[1] /\ u[2] = v[2]
      BY <1>2, <1>7, <2>1
    <2>5. c[2] = 0
      <3>1. c[2] = CarryOfTwo(v[1], v[2], m)
        BY <2>3 DEF CarryOfTwo
      <3>2. FitsTwo(v[1], v[2], m)
        BY <2>1, <2>2 DEF FitsTwo
      <3>3. CarryOfTwo(v[1], v[2], m) = 0
        BY <2>1, <3>2, NoCarryOfTwo
      <3> QED BY <3>1, <3>3
    <2>6. c[3] = 0
      <3>1. c[3] = (v[3] + 0) \div 256
        BY ONLY <2>3, <2>5
      <3> QED BY <2>1, <3>1, NoCarry
    <2>7. p[1] = q[1] /\ p[2] = q[2]
      BY <2>3, <2>4
    <2>8. p[3] = v[3] /\ p[4] = v[4]
      <3>1. p[3] = (v[3] + 0) % 256 /\ p[4] = (v[4] + 0) % 256
        BY ONLY <2>3, <2>5, <2>6
      <3> QED BY <2>1, <3>1, NoCarry
    <2>9. \A k \in 1 .. n : p[k] = x[k]
      BY <1>6, <1>9, <2>1, <2>7, <2>8
    <2> QED BY <1>5, <1>6, <2>9, SeqEqual DEF IsValue, p, x, q, u
  <1> QED BY <1>8, <1>9

\* The same in the other byte order: the part is the upper one.
LEMMA PlusBEPart ==
  ASSUME NEW v, NEW h \in {1, 2}, NEW n, n = 2 * h, IsValue(v, n), NEW m \in Int, ~Carries(Swap(v), m)
  PROVE  PlusBE(v, m) = Over(v, h + 1, PlusBE(SubSeq(v, h + 1, n), m))
  <1> DEFINE s == Swap(v)
             low == SubSeq(s, 1, h)
             tail == SubSeq(v, h + 1, n)
             q == Plus(low, m)
             p == Plus(s, m)
             be == Swap(q)
             w == Swap(p)
             x == Over(v, h + 1, be)
  <1>0. n \in Nat /\ h \in Nat /\ n \in {2, 4}
    OBVIOUS
  <1>1. h \in Nat /\ n \in Nat /\ v \in Seq(Byte) /\ Len(v) = n
    BY <1>0 DEF IsValue
  <1>2. IsValue(s, n) /\ \A k \in 1 .. n : s[k] = v[n + 1 - k]
    BY <1>1, SwapIsValue
  <1>3. IsValue(tail, h) /\ \A k \in 1 .. h : tail[k] = v[h + k]
    <2>1. tail \in Seq(Byte) /\ Len(tail) = n - (h + 1) + 1 /\ n - (h + 1) + 1 = h
      BY <1>0, <1>1
    <2>2. \A k \in 1 .. h : tail[k] = v[(h + 1) + k - 1] /\ (h + 1) + k - 1 = h + k
      BY <1>0, <1>1, <2>1
    <2> QED BY <2>1, <2>2 DEF IsValue
  <1>4. IsValue(Swap(tail), h) /\ \A k \in 1 .. h : Swap(tail)[k] = tail[h + 1 - k]
    <2> HIDE DEF tail
    <2> QED BY <1>1, <1>3, SwapIsValue
  <1>5. p = Over(s, 1, q)
    <2> HIDE DEF s
    <2> QED BY <1>1, <1>2, PlusPart DEF s
  <1> HIDE DEF s
  <1>6. IsValue(low, h) /\ \A k \in 1 .. h : low[k] = s[k]
    BY <1>1, <1>2 DEF IsValue
  <1> HIDE DEF low, tail
  <1>7. low = Swap(tail)
    <2>1. \A k \in 1 .. h : h + 1 - k \in 1 .. h /\ h + (h + 1 - k) = n + 1 - k /\ k \in 1 .. n
      BY <1>1
    <2>2. \A k \in 1 .. h : low[k] = Swap(tail)[k]
      BY <1>2, <1>3, <1>4, <1>6, <2>1
    <2> QED BY <1>4, <1>6, <2>2, SeqEqual DEF IsValue
  <1>8. IsValue(q, h)
    BY <1>1, <1>6, SumIsValue
  <1>9. be = PlusBE(tail, m) /\ IsValue(be, h) /\ \A k \in 1 .. h : be[k] = q[h + 1 - k]
    <2>1. IsValue(Swap(q), h) /\ \A k \in 1 .. h : Swap(q)[k] = q[h + 1 - k]
      <3> HIDE DEF q
      <3> QED BY <1>1, <1>8, SwapIsValue
    <2> QED BY <1>7, <2>1 DEF PlusBE
  <1>10. IsValue(p, n)
    BY <1>1, <1>2, SumIsValue
  <1>11. IsValue(w, n) /\ \A k \in 1 .. n : w[k] = p[n + 1 - k]
    <2> HIDE DEF p
    <2> QED BY <1>1, <1>10, SwapIsValue
  <1> HIDE DEF q, be
  <1>12. \A k \in 1 .. n : p[k] = IF k \in 1 .. 1 + h - 1 THEN q[k - 1 + 1] ELSE s[k]
    <2>1. 1 \in Nat \ {0} /\ q \in Seq(Byte) /\ Len(q) = h /\ s \in Seq(Byte) /\ Len(s) = n
      BY <1>2, <1>8 DEF IsValue
    <2> QED BY <1>5, <2>1, OverIs
  <1> HIDE DEF p
  <1>13. x \in Seq(Byte) /\ Len(x) = n
         /\ \A k \in 1 .. n : x[k] = IF k \in h + 1 .. h + 1 + h - 1 THEN be[k - (h + 1) + 1] ELSE v[k]
    <2>1. h + 1 \in Nat \ {0} /\ be \in Seq(Byte) /\ Len(be) = h
      BY <1>1, <1>9 DEF IsValue
    <2>2. x \in Seq(Byte) /\ Len(x) = Len(v)
          /\ \A k \in 1 .. Len(v) : x[k] = IF k \in h + 1 .. h + 1 + Len(be) - 1 THEN be[k - (h + 1) + 1] ELSE v[k]
      BY <1>1, <2>1, OverIs DEF IsValue
    <2> HIDE DEF x
    <2> QED BY <1>1, <2>1, <2>2 DEF IsValue
  <1> HIDE DEF x, w
  <1>14. \A k \in 1 .. n : w[k] = x[k]
    <2> TAKE k \in 1 .. n
    <2>1. n + 1 - k \in 1 .. n /\ n + 1 - (n + 1 - k) = k
      BY <1>1
    <2>2. CASE k > h
      <3>1. /\ n + 1 - k \in 1 .. 1 + h - 1 /\ k \in h + 1 .. h + 1 + h - 1
            /\ k - (h + 1) + 1 \in 1 .. h /\ h + 1 - (k - (h + 1) + 1) = n + 1 - k /\ n + 1 - k - 1 + 1 = n + 1 - k
        BY <1>1, <2>2
      <3> QED BY <1>9, <1>11, <1>12, <1>13, <2>1, <3>1
    <2>3. CASE k <= h
      <3>1. n + 1 - k \notin 1 .. 1 + h - 1 /\ k \notin h + 1 .. h + 1 + h - 1
        BY <1>1, <2>3
      <3> QED BY <1>2, <1>11, <1>12, <1>13, <2>1, <3>1
    <2> QED BY <1>1, <2>2, <2>3
  <1>15. w = x
    BY <1>11, <1>13, <1>14, SeqEqual DEF IsValue
  <1>16. PlusBE(v, m) = w
    BY DEF PlusBE, w, p, s
  <1> QED BY <1>9, <1>15, <1>16 DEF x, tail

-----------------------------------------------------------------------------
(* A value that differs from the entry in a part of it is the entry with that *)
(* part written over it, for the buffer and for the bits that differ.         *)

LEMMA GetIs ==
  ASSUME in_buf \in Seq(Byte), NEW n \in Nat \ {0}, NEW k \in Offsets(n)
  PROVE  /\ k \in Nat \ {0} /\ k + n - 1 <= len /\ len \in Nat
         /\ IsValue(Get(k, n), n) /\ \A x \in 1 .. n : Get(k, n)[x] = in_buf[k + x - 1]
  <1>1. len \in Nat /\ len = Len(in_buf) /\ k \in 1 .. len - n + 1
    BY DEF Offsets, len
  <1>2. k \in Nat \ {0} /\ k + n - 1 <= len
    BY <1>1
  <1> DEFINE v == SubSeq(in_buf, k, k + n - 1)
  <1>3. v \in Seq(Byte) /\ Len(v) = (k + n - 1) - k + 1 /\ \A x \in 1 .. (k + n - 1) - k + 1 : v[x] = in_buf[k + x - 1]
    BY <1>1, <1>2
  <1>4. (k + n - 1) - k + 1 = n
    BY <1>2
  <1> QED BY <1>1, <1>2, <1>3, <1>4 DEF Get, IsValue

LEMMA PutIs ==
  ASSUME in_buf \in Seq(Byte), NEW n \in Nat \ {0}, NEW k \in Nat \ {0}, NEW w, IsValue(w, n)
  PROVE  /\ Put(k, w) \in Seq(Byte) /\ Len(Put(k, w)) = len
         /\ \A x \in 1 .. len : Put(k, w)[x] = IF x \in k .. k + n - 1 THEN w[x - k + 1] ELSE in_buf[x]
  <1>1. w \in Seq(Byte) /\ Len(w) = n
    BY DEF IsValue
  <1> DEFINE z == Put(k, w)
  <1>2. z = Over(in_buf, k, w)
    BY DEF Put
  <1> HIDE DEF z
  <1>3. /\ z \in Seq(Byte) /\ Len(z) = Len(in_buf)
        /\ \A x \in 1 .. Len(in_buf) : z[x] = IF x \in k .. k + Len(w) - 1 THEN w[x - k + 1] ELSE in_buf[x]
    BY <1>1, <1>2, OverIs
  <1> QED BY <1>1, <1>3 DEF len, z

\* w is the value at k with u written over it from its byte p.
IsPart(k, n, w, p, m, u) ==
  /\ k \in Offsets(n) /\ IsValue(w, n) /\ IsValue(u, m)
  /\ p \in 1 .. n /\ p + m - 1 <= n
  /\ w = Over(Get(k, n), p, u)

LEMMA PartBytes ==
  ASSUME in_buf \in Seq(Byte), NEW n \in Nat \ {0}, NEW m \in Nat \ {0}, NEW k, NEW w, NEW p, NEW u,
         IsPart(k, n, w, p, m, u), NEW h, h = k + p - 1
  PROVE  /\ h \in Offsets(m) /\ h \in Nat \ {0} /\ k \in Nat \ {0} /\ p \in Nat \ {0}
         /\ k + n - 1 <= len /\ p + m - 1 <= n /\ len \in Nat
         /\ \A x \in 1 .. n : x \notin p .. p + m - 1 => w[x] = Get(k, n)[x]
         /\ \A x \in p .. p + m - 1 : w[x] = u[x - p + 1] /\ Get(k, n)[x] = Get(h, m)[x - p + 1]
  <1> DEFINE v == Get(k, n)
             a == Get(h, m)
  <1>1. k \in Offsets(n) /\ p \in 1 .. n /\ p + m - 1 <= n /\ IsValue(w, n) /\ IsValue(u, m) /\ w = Over(v, p, u)
    BY DEF IsPart
  <1>2. /\ k \in Nat \ {0} /\ k + n - 1 <= len /\ len \in Nat
        /\ IsValue(v, n) /\ \A x \in 1 .. n : v[x] = in_buf[k + x - 1]
    BY <1>1, GetIs
  <1>3. p \in Nat \ {0}
    BY <1>1
  <1>4. h \in Offsets(m) /\ h \in Nat \ {0}
    BY <1>1, <1>2, <1>3 DEF Offsets
  <1>5. \A x \in 1 .. m : a[x] = in_buf[h + x - 1]
    BY <1>4, GetIs
  <1> HIDE DEF v, a
  <1>6. v \in Seq(Byte) /\ u \in Seq(Byte) /\ Len(u) = m /\ Len(v) = n
    BY <1>1, <1>2 DEF IsValue
  <1>7. \A x \in 1 .. Len(v) : w[x] = IF x \in p .. p + Len(u) - 1 THEN u[x - p + 1] ELSE v[x]
    BY <1>1, <1>3, <1>6, OverIs
  <1>8. \A x \in 1 .. n : w[x] = IF x \in p .. p + m - 1 THEN u[x - p + 1] ELSE v[x]
    BY <1>6, <1>7
  <1>9. \A x \in p .. p + m - 1 : w[x] = u[x - p + 1] /\ v[x] = a[x - p + 1]
    <2> TAKE x \in p .. p + m - 1
    <2>1. x \in 1 .. n /\ x - p + 1 \in 1 .. m /\ h + (x - p + 1) - 1 = k + x - 1
      BY <1>1, <1>2, <1>3
    <2>2. w[x] = u[x - p + 1]
      BY <1>8, <2>1
    <2>3. v[x] = in_buf[k + x - 1]
      BY <1>2, <2>1
    <2>4. a[x - p + 1] = in_buf[h + (x - p + 1) - 1]
      BY ONLY <1>5, <2>1
    <2> QED BY <2>1, <2>2, <2>3, <2>4
  <1>10. \A x \in 1 .. n : x \notin p .. p + m - 1 => w[x] = v[x]
    BY <1>8
  <1> QED BY <1>1, <1>2, <1>3, <1>4, <1>9, <1>10 DEF v, a

LEMMA PutPart ==
  ASSUME in_buf \in Seq(Byte), NEW n \in Nat \ {0}, NEW m \in Nat \ {0}, NEW k, NEW w, NEW p, NEW u,
         IsPart(k, n, w, p, m, u), NEW h, h = k + p - 1
  PROVE  Put(k, w) = Put(h, u)
  <1> DEFINE z == Put(k, w)
             y == Put(h, u)
  <1>1. /\ h \in Nat \ {0} /\ k \in Nat \ {0} /\ p \in Nat \ {0} /\ k + n - 1 <= len /\ p + m - 1 <= n /\ len \in Nat
        /\ \A x \in 1 .. n : x \notin p .. p + m - 1 => w[x] = Get(k, n)[x]
        /\ \A x \in p .. p + m - 1 : w[x] = u[x - p + 1]
    BY PartBytes
  <1>2. IsValue(w, n) /\ IsValue(u, m) /\ k \in Offsets(n)
    BY DEF IsPart
  <1>3. \A x \in 1 .. n : Get(k, n)[x] = in_buf[k + x - 1]
    BY <1>2, GetIs
  <1>4. /\ z \in Seq(Byte) /\ Len(z) = len
        /\ \A x \in 1 .. len : z[x] = IF x \in k .. k + n - 1 THEN w[x - k + 1] ELSE in_buf[x]
    BY <1>1, <1>2, PutIs
  <1>5. /\ y \in Seq(Byte) /\ Len(y) = len
        /\ \A x \in 1 .. len : y[x] = IF x \in h .. h + m - 1 THEN u[x - h + 1] ELSE in_buf[x]
    BY <1>1, <1>2, PutIs
  <1> HIDE DEF z, y
  <1>6. \A x \in 1 .. len : z[x] = y[x]
    <2> TAKE x \in 1 .. len
    <2>1. CASE x \in h .. h + m - 1
      <3>1. x \in k .. k + n - 1 /\ x - k + 1 \in p .. p + m - 1 /\ (x - k + 1) - p + 1 = x - h + 1
        BY <1>1, <2>1
      <3>2. z[x] = w[x - k + 1] /\ y[x] = u[x - h + 1]
        BY <1>4, <1>5, <2>1, <3>1
      <3>3. w[x - k + 1] = u[(x - k + 1) - p + 1]
        BY <1>1, <3>1
      <3> QED BY <3>1, <3>2, <3>3
    <2>2. CASE x \in k .. k + n - 1 /\ x \notin h .. h + m - 1
      <3>1. x - k + 1 \in 1 .. n /\ x - k + 1 \notin p .. p + m - 1 /\ k + (x - k + 1) - 1 = x
        BY <1>1, <2>2
      <3>2. z[x] = w[x - k + 1] /\ y[x] = in_buf[x]
        BY <1>4, <1>5, <2>2
      <3>3. w[x - k + 1] = Get(k, n)[x - k + 1]
        BY <1>1, <3>1
      <3>4. Get(k, n)[x - k + 1] = in_buf[k + (x - k + 1) - 1]
        BY <1>3, <3>1
      <3> QED BY <3>1, <3>2, <3>3, <3>4
    <2>3. CASE x \notin k .. k + n - 1
      <3>1. x \notin h .. h + m - 1
        BY <1>1, <2>3
      <3> QED BY <1>4, <1>5, <2>3, <3>1
    <2> QED BY <2>1, <2>2, <2>3
  <1>7. z = y
    BY <1>4, <1>5, <1>6, SeqEqual
  <1> QED BY <1>7 DEF z, y

\* Bit x of a byte string: its byte and its place there.
LEMMA BitPlace ==
  ASSUME NEW a \in Nat, NEW q \in 0 .. 7
  PROVE  (8 * a + q) \div 8 = a /\ (8 * a + q) % 8 = q
  OBVIOUS

LEMMA BitOfPlace ==
  ASSUME NEW n \in Nat, NEW x \in 0 .. 8 * n - 1
  PROVE  \E a \in 0 .. n - 1, q \in 0 .. 7 : x = 8 * a + q /\ x \div 8 = a /\ x % 8 = q
  <1> DEFINE a == x \div 8
             q == x % 8
  <1>1. a \in 0 .. n - 1 /\ q \in 0 .. 7 /\ x = 8 * a + q
    OBVIOUS
  <1> QED BY <1>1

\* Bit q of a byte.
Bit(b, q) == (b \div 2 ^ q) % 2
Shifted(S, d) == {b + d : b \in S}

LEMMA XorIs ==
  ASSUME NEW a, NEW b
  PROVE  Xor(a, b) = {x \in 0 .. 8 * Len(a) - 1 : Bit(a[x \div 8 + 1], x % 8) # Bit(b[x \div 8 + 1], x % 8)}
  BY DEF Xor, Bit

LEMMA XorPart ==
  ASSUME in_buf \in Seq(Byte), NEW n \in Nat \ {0}, NEW m \in Nat \ {0}, NEW k, NEW w, NEW p, NEW u,
         IsPart(k, n, w, p, m, u), NEW h, h = k + p - 1
  PROVE  Xor(Get(k, n), w) = Shifted(Xor(Get(h, m), u), 8 * (p - 1))
  <1> DEFINE v == Get(k, n)
             a == Get(h, m)
             X == Xor(v, w)
             Y == Xor(a, u)
  <1>0. /\ h \in Offsets(m) /\ p \in Nat \ {0} /\ p + m - 1 <= n
        /\ \A x \in 1 .. n : x \notin p .. p + m - 1 => w[x] = v[x]
        /\ \A x \in p .. p + m - 1 : w[x] = u[x - p + 1] /\ v[x] = a[x - p + 1]
    BY PartBytes
  <1>1. k \in Offsets(n)
    BY DEF IsPart
  <1>2. Len(v) = n /\ Len(a) = m
    BY <1>0, <1>1, GetIs DEF IsValue
  <1> HIDE DEF v, a
  <1>3. X = {x \in 0 .. 8 * n - 1 : Bit(v[x \div 8 + 1], x % 8) # Bit(w[x \div 8 + 1], x % 8)}
    BY <1>2, XorIs
  <1>4. Y = {x \in 0 .. 8 * m - 1 : Bit(a[x \div 8 + 1], x % 8) # Bit(u[x \div 8 + 1], x % 8)}
    BY <1>2, XorIs
  <1> HIDE DEF X, Y
  <1>5. ASSUME NEW x \in X PROVE \E y \in Y : x = y + 8 * (p - 1)
    <2>1. x \in 0 .. 8 * n - 1 /\ Bit(v[x \div 8 + 1], x % 8) # Bit(w[x \div 8 + 1], x % 8)
      BY <1>3
    <2>2. PICK b \in 0 .. n - 1, q \in 0 .. 7 : x = 8 * b + q /\ x \div 8 = b /\ x % 8 = q
      BY <2>1, BitOfPlace
    <2>3. v[b + 1] # w[b + 1] /\ Bit(v[b + 1], q) # Bit(w[b + 1], q)
      BY <2>1, <2>2
    <2>4. b + 1 \in p .. p + m - 1
      BY <1>0, <2>3
    <2>5. v[b + 1] = a[(b + 1) - p + 1] /\ w[b + 1] = u[(b + 1) - p + 1]
      BY <1>0, <2>4
    <2> DEFINE c == b - (p - 1)
               y == 8 * c + q
    <2>6. c \in 0 .. m - 1 /\ (b + 1) - p + 1 = c + 1
      BY <1>0, <2>4
    <2>7. y \in 0 .. 8 * m - 1 /\ x = y + 8 * (p - 1)
      BY <1>0, <2>2, <2>6
    <2> HIDE DEF c
    <2>8. y \div 8 = c /\ y % 8 = q
      BY <2>6, BitPlace
    <2> HIDE DEF y
    <2>9. Bit(a[c + 1], q) # Bit(u[c + 1], q)
      BY <2>3, <2>5, <2>6
    <2>10. y \in Y
      BY <1>4, <2>7, <2>8, <2>9
    <2> QED BY <2>7, <2>10
  <1>6. ASSUME NEW y \in Y PROVE y + 8 * (p - 1) \in X
    <2>1. y \in 0 .. 8 * m - 1 /\ Bit(a[y \div 8 + 1], y % 8) # Bit(u[y \div 8 + 1], y % 8)
      BY <1>4
    <2>2. PICK c \in 0 .. m - 1, q \in 0 .. 7 : y = 8 * c + q /\ y \div 8 = c /\ y % 8 = q
      BY <2>1, BitOfPlace
    <2> DEFINE b == c + (p - 1)
               x == 8 * b + q
    <2>3. b \in 0 .. n - 1 /\ b \in Nat /\ b + 1 \in p .. p + m - 1 /\ (b + 1) - p + 1 = c + 1
      BY <1>0, <2>2
    <2>4. x \in 0 .. 8 * n - 1 /\ x = y + 8 * (p - 1)
      BY <1>0, <2>2, <2>3
    <2> HIDE DEF b
    <2>5. x \div 8 = b /\ x % 8 = q
      BY <2>3, BitPlace
    <2> HIDE DEF x
    <2>6. w[b + 1] = u[(b + 1) - p + 1] /\ v[b + 1] = a[(b + 1) - p + 1]
      BY <1>0, <2>3
    <2>7. Bit(v[b + 1], q) # Bit(w[b + 1], q)
      BY <2>1, <2>2, <2>3, <2>6
    <2>8. x \in X
      BY <1>3, <2>4, <2>5, <2>7
    <2> QED BY <2>4, <2>8
  <1>7. X = Shifted(Y, 8 * (p - 1))
    BY <1>5, <1>6 DEF Shifted
  <1> QED BY <1>7 DEF X, Y, v, a

LEMMA MinIs ==
  ASSUME NEW S, S \subseteq Nat, S # {}
  PROVE  Min(S) \in S /\ \A y \in S : Min(S) <= y
  <1>1. \E x \in S : \A y \in S : x <= y
    BY LeastNumber
  <1> QED BY <1>1 DEF Min

\* The same flips, some bytes further on.
LEMMA BitflipShifted ==
  ASSUME NEW S, S \subseteq Nat, NEW d \in Nat, CouldBeBitflip(S)
  PROVE  CouldBeBitflip(Shifted(S, 8 * d))
  <1> DEFINE R == Shifted(S, 8 * d)
  <1>1. CASE S = {}
    <2>1. R = {}
      BY <1>1 DEF Shifted
    <2> QED BY <2>1 DEF CouldBeBitflip
  <1>2. CASE S # {}
    <2>1. R \subseteq Nat /\ R # {}
      <3>1. 8 * d \in Nat
        OBVIOUS
      <3>2. \A b \in S : b + 8 * d \in Nat
        BY <3>1
      <3> QED BY <1>2, <3>2 DEF Shifted
    <2>2. Min(S) \in S /\ \A y \in S : Min(S) <= y
      BY <1>2, MinIs
    <2>3. Min(R) \in R /\ \A y \in R : Min(R) <= y
      <3> HIDE DEF R
      <3> QED BY <2>1, MinIs
    <2>4. Min(R) = Min(S) + 8 * d
      <3>1. PICK y \in S : Min(R) = y + 8 * d
        BY <2>3 DEF Shifted
      <3>2. Min(S) + 8 * d \in R
        BY <2>2 DEF Shifted
      <3>3. Min(R) <= Min(S) + 8 * d /\ Min(S) <= y /\ Min(S) \in Nat /\ y \in Nat
        BY <2>2, <2>3, <3>1, <3>2
      <3> HIDE DEF R
      <3> QED BY <3>1, <3>3
    <2>5. {b - Min(R) : b \in R} = {b - Min(S) : b \in S}
      <3>1. ASSUME NEW b \in R PROVE \E c \in S : b - Min(R) = c - Min(S)
        <4>1. PICK c \in S : b = c + 8 * d
          BY DEF Shifted
        <4>2. c \in Nat /\ Min(S) \in Nat
          BY <2>2
        <4> QED BY <2>4, <4>1, <4>2
      <3>2. ASSUME NEW c \in S PROVE \E b \in R : b - Min(R) = c - Min(S)
        <4>1. c + 8 * d \in R
          BY DEF Shifted
        <4>2. c \in Nat /\ Min(S) \in Nat
          BY <2>2
        <4>3. (c + 8 * d) - Min(R) = c - Min(S)
          BY <2>4, <4>2
        <4> QED BY <4>1, <4>3
      <3> HIDE DEF R
      <3> QED BY <3>1, <3>2
    <2>6. Min(R) % 8 = Min(S) % 8
      <3>1. Min(S) \in Nat
        BY <2>2
      <3> QED BY <2>4, <3>1
    <2> HIDE DEF R
    <2>7. CouldBeBitflip(R)
      BY <1>2, <2>5, <2>6 DEF CouldBeBitflip
    <2> QED BY <2>7 DEF R
  <1> QED BY <1>1, <1>2

LEMMA SettledPart ==
  ASSUME in_buf \in Seq(Byte), NEW n \in Nat \ {0}, NEW m \in Nat \ {0}, NEW k, NEW w, NEW p, NEW u,
         IsPart(k, n, w, p, m, u), NEW h, h = k + p - 1, Settled(h, u)
  PROVE  Settled(k, w)
  <1>1. Put(k, w) = Put(h, u)
    BY PutPart
  <1>2. Len(w) = n /\ Len(u) = m
    BY DEF IsPart, IsValue
  <1>3. ASSUME CouldBeBitflip(Xor(Get(h, m), u)) PROVE CouldBeBitflip(Xor(Get(k, n), w))
    <2>1. Xor(Get(k, n), w) = Shifted(Xor(Get(h, m), u), 8 * (p - 1))
      BY XorPart
    <2>2. p - 1 \in Nat
      BY DEF IsPart
    <2>3. Xor(Get(h, m), u) \subseteq Nat
      BY XorIs
    <2> QED BY <1>3, <2>1, <2>2, <2>3, BitflipShifted
  <1> QED BY <1>1, <1>2, <1>3 DEF Settled

\* What needs no run.
LEMMA SameSettled ==
  ASSUME in_buf \in Seq(Byte), NEW n \in Nat \ {0}, NEW k \in Offsets(n)
  PROVE  Settled(k, Get(k, n))
  <1> DEFINE v == Get(k, n)
             z == Put(k, v)
  <1>1. /\ k \in Nat \ {0} /\ k + n - 1 <= len /\ len \in Nat
        /\ IsValue(v, n) /\ \A x \in 1 .. n : v[x] = in_buf[k + x - 1]
    BY GetIs
  <1> HIDE DEF v
  <1>2. /\ z \in Seq(Byte) /\ Len(z) = len
        /\ \A x \in 1 .. len : z[x] = IF x \in k .. k + n - 1 THEN v[x - k + 1] ELSE in_buf[x]
    BY <1>1, PutIs
  <1> HIDE DEF z
  <1>3. \A x \in 1 .. len : z[x] = in_buf[x]
    <2> TAKE x \in 1 .. len
    <2>1. x \in k .. k + n - 1 => x - k + 1 \in 1 .. n /\ k + (x - k + 1) - 1 = x
      BY <1>1
    <2> QED BY <1>1, <1>2, <2>1
  <1>4. z = in_buf
    BY <1>2, <1>3, SeqEqual DEF len
  <1> QED BY <1>4 DEF Settled, z, v

LEMMA WithoutEffect ==
  ASSUME in_buf \in Seq(Byte), NEW n \in Nat \ {0}, NEW k \in Offsets(n), NEW w, IsValue(w, n), ~Effective(k, n)
  PROVE  Settled(k, w)
  <1>1. k \in Nat \ {0}
    BY GetIs
  <1>2. \A x \in 1 .. len : Put(k, w)[x] = IF x \in k .. k + n - 1 THEN w[x - k + 1] ELSE in_buf[x]
    BY <1>1, PutIs
  <1>3. NoEffect(Put(k, w))
    BY <1>2 DEF NoEffect, Effective
  <1> QED BY <1>3 DEF Settled

-----------------------------------------------------------------------------
(* A sum that a stage leaves out was made by the stage for the half width.    *)

Widths == {1, 2, 4}

LEMMA SumsAreInts ==
  ASSUME NEW delta \in Sums
  PROVE  delta \in Int
  BY StagesAssumption DEF Sums

\* The bytes from p to e of the value at k are the value of m bytes at h.
PartAt(k, n, p, e, h, m) ==
  /\ n \in Nat \ {0} /\ m \in Nat \ {0} /\ k \in Offsets(n)
  /\ p \in 1 .. n /\ e = p + m - 1 /\ e <= n /\ h = k + p - 1

LEMMA GetOfGet ==
  ASSUME in_buf \in Seq(Byte), NEW n, NEW m, NEW k, NEW p, NEW e, NEW h, PartAt(k, n, p, e, h, m)
  PROVE  h \in Offsets(m) /\ SubSeq(Get(k, n), p, e) = Get(h, m)
  <1> DEFINE v == Get(k, n)
             a == Get(h, m)
             s == SubSeq(v, p, e)
  <1>0. /\ n \in Nat \ {0} /\ m \in Nat \ {0} /\ k \in Offsets(n)
        /\ p \in 1 .. n /\ e = p + m - 1 /\ e <= n /\ h = k + p - 1
    BY DEF PartAt
  <1>1. /\ k \in Nat \ {0} /\ k + n - 1 <= len /\ len \in Nat
        /\ IsValue(v, n) /\ \A x \in 1 .. n : v[x] = in_buf[k + x - 1]
    BY <1>0, GetIs
  <1>2. h \in Offsets(m)
    <2>1. h \in Nat \ {0} /\ h + m - 1 <= len
      BY <1>0, <1>1
    <2> QED BY <1>0, <1>1, <2>1 DEF Offsets
  <1>3. IsValue(a, m) /\ \A x \in 1 .. m : a[x] = in_buf[h + x - 1]
    BY <1>0, <1>2, GetIs
  <1> HIDE DEF v, a
  <1>4. v \in Seq(Byte) /\ Len(v) = n
    BY <1>1 DEF IsValue
  <1>5. s \in Seq(Byte) /\ Len(s) = m /\ \A x \in 1 .. m : s[x] = v[p + x - 1]
    <2>1. e - p + 1 = m /\ p \in Nat \ {0} /\ p <= e /\ e <= n /\ e \in Nat
      BY <1>0
    <2>2. s \in Seq(Byte) /\ Len(s) = e - p + 1 /\ \A x \in 1 .. e - p + 1 : s[x] = v[p + x - 1]
      BY <1>4, <2>1
    <2> QED BY <2>1, <2>2
  <1> HIDE DEF s
  <1>6. \A x \in 1 .. m : s[x] = a[x]
    <2> TAKE x \in 1 .. m
    <2>1. p + x - 1 \in 1 .. n /\ k + (p + x - 1) - 1 = h + x - 1
      BY <1>0, <1>1
    <2>2. s[x] = v[p + x - 1] /\ a[x] = in_buf[h + x - 1]
      BY <1>3, <1>5
    <2>3. v[p + x - 1] = in_buf[k + (p + x - 1) - 1]
      BY <1>1, <2>1
    <2> QED BY <2>1, <2>2, <2>3
  <1>7. s = a
    BY <1>3, <1>5, <1>6, SeqEqual DEF IsValue
  <1> QED BY <1>2, <1>7 DEF s, a, v

LEMMA SwapOfOne ==
  ASSUME NEW v, IsValue(v, 1)
  PROVE  Swap(v) = v
  <1> DEFINE u == Swap(v)
  <1>1. IsValue(u, 1) /\ \A k \in 1 .. 1 : u[k] = v[1 + 1 - k]
    BY SwapIsValue
  <1> HIDE DEF u
  <1>2. \A k \in 1 .. 1 : u[k] = v[k]
    BY <1>1
  <1>3. u = v
    BY <1>1, <1>2, SeqEqual DEF IsValue
  <1> QED BY <1>3 DEF u

\* The part of w at byte p of the value is settled, and the rest is as it was.
LEMMA PartSettles ==
  ASSUME in_buf \in Seq(Byte), NEW n \in Nat \ {0}, NEW m \in Nat \ {0}, NEW k \in Offsets(n),
         NEW p \in 1 .. n, p + m - 1 <= n, NEW w, IsValue(w, n), NEW u, IsValue(u, m),
         w = Over(Get(k, n), p, u), NEW h, h = k + p - 1, Settled(h, u)
  PROVE  Settled(k, w)
  <1>1. IsPart(k, n, w, p, m, u)
    BY DEF IsPart
  <1> QED BY <1>1, SettledPart

LEMMA SumSettles ==
  ASSUME in_buf \in Seq(Byte), NEW h \in {1, 2}, NEW n, n = 2 * h, SumsSettled(h),
         NEW k \in Offsets(n), NEW delta \in Sums, ~Carries(Get(k, n), delta)
  PROVE  Settled(k, Plus(Get(k, n), delta))
  <1> DEFINE v == Get(k, n)
             u == Get(k, h)
             w == Plus(v, delta)
             t == Plus(u, delta)
  <1>0. n \in Nat \ {0} /\ h \in Nat \ {0} /\ delta \in Int /\ h \in Nat /\ n \in Nat
    BY SumsAreInts
  <1>1. k \in Nat \ {0} /\ IsValue(v, n)
    BY <1>0, GetIs
  <1>2. k \in Offsets(h) /\ SubSeq(v, 1, h) = u
    <2> DEFINE p == 1
    <2>1. PartAt(k, n, p, h, k, h)
      BY <1>0, <1>1 DEF PartAt
    <2> HIDE DEF p
    <2>2. k \in Offsets(h) /\ SubSeq(v, p, h) = u
      BY <2>1, GetOfGet
    <2> QED BY <2>2 DEF p
  <1>3. IsValue(u, h)
    BY <1>0, <1>2, GetIs
  <1>4. Settled(k, t)
    BY <1>2 DEF SumsSettled
  <1>5. ~Carries(v, delta)
    OBVIOUS
  <1> HIDE DEF v, u
  <1>6. w = Over(v, 1, t)
    BY <1>0, <1>1, <1>2, <1>5, PlusPart
  <1>7. IsValue(w, n) /\ IsValue(t, h)
    BY <1>0, <1>1, <1>3, SumIsValue
  <1> HIDE DEF w, t
  <1>8. 1 \in 1 .. n /\ 1 + h - 1 <= n /\ k = k + 1 - 1
    BY <1>0, <1>1
  <1>9. Settled(k, w)
    BY <1>0, <1>4, <1>6, <1>7, <1>8, PartSettles DEF v
  <1> QED BY <1>9 DEF w, v

LEMMA BESumSettles ==
  ASSUME in_buf \in Seq(Byte), NEW h \in {1, 2}, NEW n, n = 2 * h, SumsSettled(h),
         NEW k \in Offsets(n), NEW delta \in Sums, ~Carries(Swap(Get(k, n)), delta)
  PROVE  Settled(k, PlusBE(Get(k, n), delta))
  <1> DEFINE v == Get(k, n)
             g == k + h
             u == Get(g, h)
             w == PlusBE(v, delta)
             t == PlusBE(u, delta)
             p == h + 1
  <1>0. n \in Nat \ {0} /\ h \in Nat \ {0} /\ delta \in Int /\ h \in Nat /\ n \in Nat
    BY SumsAreInts
  <1>1. k \in Nat \ {0} /\ IsValue(v, n)
    BY <1>0, GetIs
  <1>2. p \in 1 .. n /\ p + h - 1 <= n /\ g = k + p - 1 /\ n = p + h - 1
    BY <1>0, <1>1
  <1> HIDE DEF g
  <1>3. g \in Offsets(h) /\ SubSeq(v, p, n) = u
    <2>1. PartAt(k, n, p, n, g, h)
      BY <1>0, <1>2 DEF PartAt
    <2> HIDE DEF p
    <2> QED BY <2>1, GetOfGet
  <1>4. IsValue(u, h)
    BY <1>0, <1>3, GetIs
  <1>5. Settled(g, t)
    BY <1>3 DEF SumsSettled
  <1>6. ~Carries(Swap(v), delta)
    OBVIOUS
  <1> HIDE DEF v, u
  <1>7. w = Over(v, p, t)
    <2>1. w = Over(v, h + 1, PlusBE(SubSeq(v, h + 1, n), delta))
      BY <1>0, <1>1, <1>6, PlusBEPart
    <2> QED BY <1>3, <2>1
  <1>8. IsValue(w, n) /\ IsValue(t, h)
    BY <1>0, <1>1, <1>4, BESumIsValue
  <1> HIDE DEF w, t, p
  <1>9. Settled(k, w)
    BY <1>0, <1>2, <1>5, <1>7, <1>8, PartSettles DEF v
  <1> QED BY <1>9 DEF w, v

\* "arith 8n" settles the sums of n bytes, given those of half the width.
LEMMA ArithSettles ==
  ASSUME in_buf \in Seq(Byte), NEW n \in Widths,
         n # 1 => SumsSettled(n \div 2),
         NEW k \in Offsets(n), NEW delta \in Sums, NEW w \in {Plus(Get(k, n), delta), PlusBE(Get(k, n), delta)}
  PROVE  Settled(k, w) \/ Put(k, w) \in ArithStage(n)
  <1> DEFINE v == Get(k, n)
  <1>0. n \in Nat \ {0} /\ n \in Nat /\ delta \in Int
    BY SumsAreInts DEF Widths
  <1>1. IsValue(v, n) /\ Len(v) = n
    BY <1>0, GetIs DEF IsValue
  <1>2. IsValue(w, n) /\ Len(w) = n
    <2> HIDE DEF v
    <2>1. IsValue(Plus(v, delta), n) /\ IsValue(PlusBE(v, delta), n)
      BY <1>0, <1>1, SumIsValue, BESumIsValue
    <2>2. w \in {Plus(v, delta), PlusBE(v, delta)}
      BY DEF v
    <2>3. IsValue(w, n)
      BY <2>1, <2>2
    <2> QED BY <2>3 DEF IsValue
  <1>3. n # 1 => \E h \in {1, 2} : n = 2 * h /\ SumsSettled(h)
    <2>1. n = 2 => n \div 2 = 1 /\ n = 2 * 1
      OBVIOUS
    <2>2. n = 4 => n \div 2 = 2 /\ n = 2 * 2
      OBVIOUS
    <2> QED BY <2>1, <2>2 DEF Widths
  <1>4. CASE ~Effective(k, n)
    BY <1>0, <1>2, <1>4, WithoutEffect
  <1>5. CASE CouldBeBitflip(Xor(v, w))
    BY <1>2, <1>5 DEF Settled
  <1>6. CASE Effective(k, n) /\ w \in ArithTried(v)
    BY <1>6 DEF ArithStage
  <1>7. CASE ~CouldBeBitflip(Xor(v, w)) /\ w \notin ArithTried(v)
    <2>1. CASE w = Plus(v, delta)
      <3>1. ~Carries(v, delta)
        BY <1>7, <2>1 DEF ArithTried
      <3>2. n # 1
        BY <1>1, <3>1 DEF Carries
      <3>3. PICK h \in {1, 2} : n = 2 * h /\ SumsSettled(h)
        BY <1>3, <3>2
      <3> QED BY <2>1, <3>1, <3>3, SumSettles
    <2>2. CASE w = PlusBE(v, delta) /\ n # 1
      <3>1. n > 1
        BY <1>0, <2>2
      <3>2. ~Carries(Swap(v), delta)
        <4> HIDE DEF v
        <4> QED BY <1>1, <1>7, <2>2, <3>1 DEF ArithTried
      <3>3. PICK h \in {1, 2} : n = 2 * h /\ SumsSettled(h)
        BY <1>3, <2>2
      <3> QED BY <2>2, <3>2, <3>3, BESumSettles
    <2>3. CASE w = PlusBE(v, delta) /\ n = 1
      <3>1. Swap(v) = v
        BY <1>1, <2>3, SwapOfOne
      <3>2. IsValue(Plus(v, delta), 1)
        BY <1>0, <1>1, <2>3, SumIsValue
      <3>3. w = Plus(v, delta)
        BY <2>3, <3>1, <3>2, SwapOfOne DEF PlusBE
      <3>4. Carries(v, delta)
        BY <1>1, <2>3 DEF Carries
      <3> QED BY <1>7, <3>3, <3>4 DEF ArithTried
    <2> QED BY <2>1, <2>2, <2>3
  <1> QED BY <1>4, <1>5, <1>6, <1>7

-----------------------------------------------------------------------------
(* An interesting value that a stage leaves out was written by an earlier one. *)

\* The n bytes w differ from v in one part of m bytes, which becomes b.
Part(v, m, at) == SubSeq(v, m * at + 1, m * at + m)

LEMMA PartIs ==
  ASSUME NEW n \in Nat, NEW m \in Nat \ {0}, NEW v, IsValue(v, n), NEW at \in Nat, NEW a \in Nat, a = m * at, a + m <= n
  PROVE  IsValue(Part(v, m, at), m) /\ \A r \in 1 .. m : Part(v, m, at)[r] = v[a + r]
  <1> DEFINE p == a + 1
             e == a + m
             s == SubSeq(v, p, e)
  <1>1. v \in Seq(Byte) /\ Len(v) = n
    BY DEF IsValue
  <1>2. /\ p \in Nat \ {0} /\ p <= e /\ e <= n /\ e \in Nat
        /\ e - p + 1 = m /\ \A r \in 1 .. m : p + r - 1 = a + r
    OBVIOUS
  <1>3. Part(v, m, at) = s
    BY DEF Part
  <1> HIDE DEF p, e
  <1>4. s \in Seq(Byte) /\ Len(s) = e - p + 1 /\ \A r \in 1 .. e - p + 1 : s[r] = v[p + r - 1]
    BY <1>1, <1>2
  <1> HIDE DEF s
  <1> QED BY <1>2, <1>3, <1>4 DEF IsValue

\* m divides n, for widths.
LEMMA PartsOf ==
  ASSUME NEW n \in Widths, NEW m \in Widths, m <= n
  PROVE  /\ \A at \in 0 .. n \div m - 1 : at \in Nat /\ m * at \in Nat /\ m * at + m <= n
         /\ \A x \in 1 .. n : \E at \in 0 .. n \div m - 1, r \in 1 .. m : x = m * at + r
  <1>1. CASE m = 1
    <2>1. n \div 1 = n /\ n \in Nat
      BY DEF Widths
    <2>2. \A x \in 1 .. n : x - 1 \in 0 .. n - 1 /\ 1 \in 1 .. 1 /\ x = 1 * (x - 1) + 1
      BY <2>1
    <2> QED BY <1>1, <2>1, <2>2
  <1>2. CASE m = 2
    <2>1. (n = 2 /\ n \div 2 = 1) \/ (n = 4 /\ n \div 2 = 2)
      BY <1>2 DEF Widths
    <2>2. \A x \in 1 .. 4 : x = 2 * ((x - 1) \div 2) + (((x - 1) % 2) + 1) /\ ((x - 1) % 2) + 1 \in 1 .. 2
                            /\ (x - 1) \div 2 \in 0 .. 1 /\ (x <= 2 => (x - 1) \div 2 = 0)
      OBVIOUS
    <2>3. \A x \in 1 .. n : (x - 1) \div 2 \in 0 .. n \div 2 - 1 /\ x \in 1 .. 4
      BY <2>1, <2>2
    <2> QED BY <1>2, <2>1, <2>2, <2>3
  <1>3. CASE m = 4
    <2>1. n = 4 /\ n \div 4 = 1
      BY <1>3 DEF Widths
    <2>2. \A x \in 1 .. 4 : x = 4 * 0 + x /\ 0 \in 0 .. 0
      OBVIOUS
    <2> QED BY <1>3, <2>1, <2>2
  <1> QED BY <1>1, <1>2, <1>3 DEF Widths

LEMMA OnePart ==
  ASSUME NEW n \in Widths, NEW m \in Widths, m <= n, NEW v, IsValue(v, n), NEW w, IsValue(w, n),
         NEW at, Differing(v, w, m) = {at}
  PROVE  /\ at \in Nat /\ m * at + 1 \in 1 .. n /\ m * at + m <= n
         /\ IsValue(Part(v, m, at), m) /\ IsValue(Part(w, m, at), m)
         /\ w = Over(v, m * at + 1, Part(w, m, at))
  <1> DEFINE D == Differing(v, w, m)
             b == Part(w, m, at)
             p == m * at + 1
             z == Over(v, p, b)
  <1>0. n \in Nat /\ m \in Nat \ {0} /\ v \in Seq(Byte) /\ Len(v) = n /\ w \in Seq(Byte) /\ Len(w) = n
    BY DEF Widths, IsValue
  <1>1. D = {y \in 0 .. n \div m - 1 : Part(v, m, y) # Part(w, m, y)}
    BY <1>0 DEF Differing, Part
  <1>2. \A y \in 0 .. n \div m - 1 : y # at => Part(v, m, y) = Part(w, m, y)
    BY <1>1
  <1>3. at \in 0 .. n \div m - 1
    BY <1>1
  <1> HIDE DEF D
  <1>4. at \in Nat /\ m * at \in Nat /\ m * at + m <= n
    BY <1>3, PartsOf
  <1>5. /\ IsValue(b, m) /\ \A r \in 1 .. m : b[r] = w[m * at + r]
        /\ IsValue(Part(v, m, at), m)
    BY <1>0, <1>4, PartIs
  <1> DEFINE a == m * at
  <1>6. a \in Nat /\ a + m <= n /\ p = a + 1 /\ \A r \in 1 .. m : b[r] = w[a + r]
    BY <1>4, <1>5
  <1> HIDE DEF b, p, a
  <1>7. z \in Seq(Byte) /\ Len(z) = n /\ \A x \in 1 .. n : z[x] = IF x \in p .. p + m - 1 THEN b[x - p + 1] ELSE v[x]
    <2>1. p \in Nat \ {0} /\ b \in Seq(Byte) /\ Len(b) = m
      BY <1>5, <1>6 DEF IsValue
    <2>2. z \in Seq(Byte) /\ Len(z) = Len(v)
          /\ \A x \in 1 .. Len(v) : z[x] = IF x \in p .. p + Len(b) - 1 THEN b[x - p + 1] ELSE v[x]
      BY <1>0, <2>1, OverIs
    <2> HIDE DEF z
    <2> QED BY <1>0, <2>1, <2>2
  <1> HIDE DEF z
  <1>8. \A x \in 1 .. n : z[x] = w[x]
    <2> TAKE x \in 1 .. n
    <2>1. CASE x \in p .. p + m - 1
      <3>1. x - p + 1 \in 1 .. m /\ a + (x - p + 1) = x
        BY <1>0, <1>6, <2>1
      <3> QED BY <1>6, <1>7, <2>1, <3>1
    <2>2. CASE x \notin p .. p + m - 1
      <3>1. PICK y \in 0 .. n \div m - 1, r \in 1 .. m : x = m * y + r
        BY PartsOf
      <3>2. y # at
        <4>1. a + r \in p .. p + m - 1
          BY <1>0, <1>6, <3>1
        <4> QED BY <2>2, <3>1, <4>1 DEF a
      <3> DEFINE c == m * y
      <3>3. y \in Nat /\ c \in Nat /\ c + m <= n
        BY PartsOf
      <3>4. c = m * y /\ x = c + r
        BY <3>1
      <3> HIDE DEF c
      <3>5. Part(v, m, y)[r] = v[c + r] /\ Part(w, m, y)[r] = w[c + r]
        BY <1>0, <3>3, <3>4, PartIs
      <3> QED BY <1>2, <1>7, <2>2, <3>2, <3>4, <3>5
    <2> QED BY <2>1, <2>2
  <1>9. w = z
    BY <1>0, <1>7, <1>8, SeqEqual
  <1>10. p \in 1 .. n /\ p = m * at + 1 /\ b = Part(w, m, at)
    BY <1>0, <1>6 DEF p, b, a
  <1>11. w = Over(v, p, b)
    BY <1>9 DEF z
  <1> QED BY <1>4, <1>5, <1>10, <1>11

\* One part of the width m is off by a sum.
NearIn(v, w, m) ==
  \E at \in Differing(v, w, m) :
    Differing(v, w, m) = {at} /\ \E delta \in Sums : Part(w, m, at) \in {Plus(Part(v, m, at), delta), PlusBE(Part(v, m, at), delta)}

LEMMA CouldBeArithIs ==
  ASSUME NEW v, NEW w, CouldBeArith(v, w)
  PROVE  v = w \/ NearIn(v, w, 1) \/ (Len(v) > 1 /\ NearIn(v, w, 2)) \/ (Len(v) = 4 /\ NearIn(v, w, 4))
  BY DEF CouldBeArith, NearIn, Part

LEMMA NearSettles ==
  ASSUME in_buf \in Seq(Byte), NEW n \in Widths, NEW m \in Widths, m <= n, SumsSettled(m),
         NEW k \in Offsets(n), NEW w, IsValue(w, n), NearIn(Get(k, n), w, m)
  PROVE  Settled(k, w)
  <1> DEFINE v == Get(k, n)
  <1>0. n \in Nat \ {0} /\ m \in Nat \ {0}
    BY DEF Widths
  <1>1. IsValue(v, n) /\ k \in Nat \ {0}
    BY <1>0, GetIs
  <1>2. PICK at \in Differing(v, w, m), delta \in Sums :
          Differing(v, w, m) = {at} /\ Part(w, m, at) \in {Plus(Part(v, m, at), delta), PlusBE(Part(v, m, at), delta)}
    BY DEF NearIn
  <1> DEFINE u == Part(w, m, at)
             p == m * at + 1
             e == m * at + m
             h == k + p - 1
  <1>3. at \in Nat /\ p \in 1 .. n /\ e <= n /\ IsValue(u, m) /\ w = Over(v, p, u)
    <2> HIDE DEF v
    <2> QED BY <1>1, <1>2, OnePart
  <1>4. m * at \in Nat
    BY <1>0, <1>3
  <1>5. e = p + m - 1 /\ p + m - 1 <= n
    BY <1>0, <1>3, <1>4
  <1>6. PartAt(k, n, p, e, h, m)
    BY <1>0, <1>3, <1>5 DEF PartAt
  <1>7. Part(v, m, at) = SubSeq(v, p, e)
    BY DEF Part
  <1>8. h = k + p - 1
    OBVIOUS
  <1> HIDE DEF u, p, e, h
  <1>9. h \in Offsets(m) /\ Part(v, m, at) = Get(h, m)
    BY <1>6, <1>7, GetOfGet
  <1>10. Settled(h, u)
    <2>1. Settled(h, Plus(Get(h, m), delta)) /\ Settled(h, PlusBE(Get(h, m), delta))
      BY <1>9 DEF SumsSettled
    <2> QED BY <1>2, <1>9, <2>1 DEF u
  <1> QED BY <1>0, <1>3, <1>5, <1>8, <1>10, PartSettles

LEMMA ArithRefusalSettles ==
  ASSUME in_buf \in Seq(Byte), NEW n \in Widths, SumsSettled(1), SumsSettled(2), SumsSettled(4),
         NEW k \in Offsets(n), NEW w, IsValue(w, n), CouldBeArith(Get(k, n), w)
  PROVE  Settled(k, w)
  <1> DEFINE v == Get(k, n)
  <1>0. n \in Nat \ {0} /\ 1 \in Widths /\ 2 \in Widths /\ 4 \in Widths /\ 1 <= n
    BY DEF Widths
  <1>1. Len(v) = n
    BY <1>0, GetIs DEF IsValue
  <1>2. v = w \/ NearIn(v, w, 1) \/ (n > 1 /\ NearIn(v, w, 2)) \/ (n = 4 /\ NearIn(v, w, 4))
    BY <1>1, CouldBeArithIs
  <1>3. n > 1 => 2 <= n
    BY DEF Widths
  <1>4. CASE v = w
    BY <1>0, <1>4, SameSettled
  <1>5. CASE NearIn(v, w, 1)
    BY <1>0, <1>5, NearSettles
  <1>6. CASE n > 1 /\ NearIn(v, w, 2)
    BY <1>0, <1>3, <1>6, NearSettles
  <1>7. CASE n = 4 /\ NearIn(v, w, 4)
    BY <1>0, <1>7, NearSettles
  <1> QED BY <1>2, <1>4, <1>5, <1>6, <1>7

LEMMA InterestingIsValue ==
  ASSUME NEW n \in Widths, NEW u \in Interesting(n)
  PROVE  IsValue(u, n) /\ IsValue(Swap(u), n)
  <1>1. u \in [1 .. n -> Byte]
    BY InterestingAssumption DEF Widths, Interesting
  <1>2. n \in Nat
    BY DEF Widths
  <1>3. IsValue(u, n)
    BY <1>1, <1>2 DEF IsValue
  <1> QED BY <1>2, <1>3, SwapIsValue

LEMMA ValueSettles ==
  ASSUME in_buf \in Seq(Byte), NEW n \in Widths, NEW m \in Widths, ValuesSettled(m),
         NEW k \in Offsets(n), NEW p \in 1 .. n, p + m - 1 <= n, NEW u \in Interesting(m),
         NEW x \in {u, Swap(u)}, NEW w, IsValue(w, n), w = Over(Get(k, n), p, x)
  PROVE  Settled(k, w)
  <1> DEFINE h == k + p - 1
             e == p + m - 1
  <1>1. n \in Nat \ {0} /\ m \in Nat \ {0} /\ h = k + p - 1 /\ e <= n
    BY DEF Widths
  <1>2. PartAt(k, n, p, e, h, m)
    BY <1>1 DEF PartAt
  <1> HIDE DEF h, e
  <1>3. h \in Offsets(m)
    BY <1>2, GetOfGet
  <1>4. Settled(h, x)
    BY <1>3 DEF ValuesSettled
  <1>5. IsValue(x, m)
    BY InterestingIsValue
  <1> QED BY <1>1, <1>4, <1>5, PartSettles

\* What could_be_interest refuses is the entry itself, has been settled for a
\* smaller width, or is another value of the stage in little-endian order.
LEMMA InterestRefusalSettles ==
  ASSUME in_buf \in Seq(Byte), NEW n \in Widths, n # 1 => ValuesSettled(1), n = 4 => ValuesSettled(2),
         NEW k \in Offsets(n), NEW w, IsValue(w, n), NEW le \in BOOLEAN, n # 1,
         CouldBeInterest(Get(k, n), w, le)
  PROVE  Settled(k, w) \/ (le /\ w \in Interesting(n))
  <1> DEFINE v == Get(k, n)
  <1>0. n \in Nat \ {0} /\ n \in {2, 4} /\ 1 \in Widths /\ 2 \in Widths
    BY DEF Widths
  <1>1. IsValue(v, n) /\ v \in Seq(Byte) /\ Len(v) = n
    BY <1>0, GetIs DEF IsValue
  <1>2. \/ v = w
        \/ \E at \in 1 .. n, u \in Interesting(1) : w = Over(v, at, u)
        \/ /\ n = 4 \/ le
           /\ \E at \in 1 .. n - 1, u \in Interesting(2) : w = Over(v, at, u) \/ (n = 4 /\ w = Over(v, at, Swap(u)))
        \/ n = 4 /\ le /\ w \in Interesting(4)
    BY <1>1 DEF CouldBeInterest, Interesting
  <1>3. CASE v = w
    BY <1>0, <1>3, SameSettled
  <1>4. CASE \E at \in 1 .. n, u \in Interesting(1) : w = Over(v, at, u)
    <2>1. PICK at \in 1 .. n, u \in Interesting(1) : w = Over(v, at, u)
      BY <1>4
    <2>2. at + 1 - 1 <= n /\ u \in {u, Swap(u)} /\ ValuesSettled(1)
      BY <1>0, <2>1
    <2> QED BY <1>0, <2>1, <2>2, ValueSettles
  <1>5. CASE n = 4 /\ \E at \in 1 .. n - 1, u \in Interesting(2) : w = Over(v, at, u) \/ w = Over(v, at, Swap(u))
    <2>1. PICK at \in 1 .. n - 1, u \in Interesting(2) : \E x \in {u, Swap(u)} : w = Over(v, at, x)
      BY <1>5
    <2>2. PICK x \in {u, Swap(u)} : w = Over(v, at, x)
      BY <2>1
    <2>3. at \in 1 .. n /\ at + 2 - 1 <= n /\ ValuesSettled(2)
      BY <1>5, <2>1
    <2> QED BY <1>0, <2>2, <2>3, ValueSettles
  <1>6. CASE n = 2 /\ le /\ \E at \in 1 .. n - 1, u \in Interesting(2) : w = Over(v, at, u)
    <2>1. PICK u \in Interesting(2) : w = Over(v, 1, u)
      BY <1>6
    <2>2. IsValue(u, 2)
      BY <1>0, InterestingIsValue
    <2> HIDE DEF v
    <2>3. \A x \in 1 .. 2 : w[x] = IF x \in 1 .. 1 + 2 - 1 THEN u[x - 1 + 1] ELSE v[x]
      <3>1. 1 \in Nat \ {0} /\ u \in Seq(Byte) /\ Len(u) = 2
        BY <2>2 DEF IsValue
      <3> QED BY <1>1, <1>6, <2>1, <3>1, OverIs
    <2>4. \A x \in 1 .. 2 : w[x] = u[x]
      BY <2>3
    <2>5. w = u
      BY <1>6, <2>2, <2>4, SeqEqual DEF IsValue
    <2> QED BY <1>6, <2>1, <2>5
  <1> QED BY <1>0, <1>2, <1>3, <1>4, <1>5, <1>6

\* "interest 8n" settles the values of n bytes.
LEMMA InterestSettles ==
  ASSUME in_buf \in Seq(Byte), NEW n \in Widths, SumsSettled(1), SumsSettled(2), SumsSettled(4),
         n # 1 => ValuesSettled(1), n = 4 => ValuesSettled(2),
         NEW k \in Offsets(n), NEW u \in Interesting(n), NEW w \in {u, Swap(u)}
  PROVE  Settled(k, w) \/ Put(k, w) \in InterestStage(n)
  <1> DEFINE v == Get(k, n)
             new(x, le) ==
               /\ ~CouldBeBitflip(Xor(v, x)) /\ ~CouldBeArith(v, x)
               /\ n > 1 => ~CouldBeInterest(v, x, le)
             done(x) == Settled(k, x) \/ Put(k, x) \in InterestStage(n)
  <1>0. n \in Nat \ {0} /\ (n # 1 <=> n > 1)
    BY DEF Widths
  <1>1. Len(v) = n
    BY <1>0, GetIs DEF IsValue
  <1>2. IsValue(u, n) /\ IsValue(Swap(u), n) /\ Len(u) = n /\ Len(Swap(u)) = n
    BY InterestingIsValue DEF IsValue
  <1>3. InterestTried(v) = {x \in Interesting(n) : new(x, FALSE)}
          \cup IF n = 1 THEN {} ELSE {x \in {Swap(y) : y \in {y \in Interesting(n) : y # Swap(y)}} : new(x, TRUE)}
    BY <1>1 DEF InterestTried
  <1>4. ASSUME NEW x, x \in InterestTried(v) PROVE done(x)
    <2>1. CASE Effective(k, n)
      BY <1>4, <2>1 DEF InterestStage
    <2>2. CASE ~Effective(k, n)
      <3>1. IsValue(x, n)
        <4>1. \E y \in Interesting(n) : x \in {y, Swap(y)}
          BY <1>3, <1>4
        <4> QED BY <4>1, InterestingIsValue
      <3> QED BY <1>0, <2>2, <3>1, WithoutEffect
    <2> QED BY <2>1, <2>2
  <1>5. ASSUME NEW x, IsValue(x, n), NEW le \in BOOLEAN, ~new(x, le) PROVE Settled(k, x) \/ (le /\ x \in Interesting(n))
    <2>1. CASE CouldBeBitflip(Xor(v, x))
      <3>1. Len(x) = n
        BY <1>5 DEF IsValue
      <3> QED BY <2>1, <3>1 DEF Settled
    <2>2. CASE CouldBeArith(v, x)
      BY <1>5, <2>2, ArithRefusalSettles
    <2>3. CASE n > 1 /\ CouldBeInterest(v, x, le)
      BY <1>0, <1>5, <2>3, InterestRefusalSettles
    <2> QED BY <1>5, <2>1, <2>2, <2>3
  <1> HIDE DEF v, new
  <1>6. \A x \in Interesting(n) : done(x)
    <2> TAKE x \in Interesting(n)
    <2>1. CASE new(x, FALSE)
      <3>1. x \in InterestTried(v)
        BY <1>3, <2>1
      <3> QED BY <1>4, <3>1
    <2>2. CASE ~new(x, FALSE)
      BY <1>5, <2>2, InterestingIsValue
    <2> QED BY <2>1, <2>2
  <1>7. CASE w = u \/ Swap(u) = u
    BY <1>6, <1>7
  <1>8. CASE w = Swap(u) /\ Swap(u) # u
    <2>1. n # 1
      BY <1>2, <1>8, SwapOfOne
    <2>2. CASE new(w, TRUE)
      <3>1. w \in InterestTried(v)
        BY <1>3, <1>8, <2>1, <2>2
      <3> QED BY <1>4, <3>1
    <2>3. CASE ~new(w, TRUE)
      <3>1. Settled(k, w) \/ w \in Interesting(n)
        BY <1>2, <1>5, <1>8, <2>3
      <3> QED BY <1>6, <3>1
    <2> QED BY <2>2, <2>3
  <1> QED BY <1>7, <1>8

-----------------------------------------------------------------------------
(* The order of the stages. *)

\* What is settled stays so, and what is run is settled.
LEMMA SettledStays ==
  ASSUME in_buf' = in_buf, eff_map' = eff_map, tried \subseteq tried', NEW k, NEW w,
         Settled(k, w) \/ Put(k, w) \in tried'
  PROVE  Settled(k, w)'
  <1>1. Put(k, w)' = Put(k, w) /\ Xor(Get(k, Len(w)), w)' = Xor(Get(k, Len(w)), w)
    BY DEF Put, Get
  <1>2. NoEffect(Put(k, w)) => NoEffect(Put(k, w))'
    BY <1>1 DEF NoEffect, len, EffPos
  <1>3. CouldBeBitflip(Xor(Get(k, Len(w)), w)) => CouldBeBitflip(Xor(Get(k, Len(w)), w))'
    BY <1>1
  <1> QED BY <1>1, <1>2, <1>3 DEF Settled

LEMMA SumsStay ==
  ASSUME in_buf' = in_buf, eff_map' = eff_map, tried \subseteq tried', NEW n,
         \A k \in Offsets(n), delta \in Sums : \A w \in {Plus(Get(k, n), delta), PlusBE(Get(k, n), delta)} :
           Settled(k, w) \/ Put(k, w) \in tried'
  PROVE  SumsSettled(n)'
  <1>1. Offsets(n)' = Offsets(n) /\ \A k : Get(k, n)' = Get(k, n)
    BY DEF Offsets, len, Get
  <1>2. ASSUME NEW k \in Offsets(n), NEW delta \in Sums, NEW w \in {Plus(Get(k, n), delta), PlusBE(Get(k, n), delta)}
        PROVE  Settled(k, w)'
    BY SettledStays
  <1> QED BY <1>1, <1>2 DEF SumsSettled

LEMMA ValuesStay ==
  ASSUME in_buf' = in_buf, eff_map' = eff_map, tried \subseteq tried', NEW n,
         \A k \in Offsets(n), u \in Interesting(n) : \A w \in {u, Swap(u)} :
           Settled(k, w) \/ Put(k, w) \in tried'
  PROVE  ValuesSettled(n)'
  <1>1. Offsets(n)' = Offsets(n)
    BY DEF Offsets, len
  <1>2. ASSUME NEW k \in Offsets(n), NEW u \in Interesting(n)
        PROVE  Settled(k, u)' /\ Settled(k, Swap(u))'
    <2> DEFINE x == Swap(u)
    <2>1. Settled(k, u) \/ Put(k, u) \in tried'
      OBVIOUS
    <2>2. Settled(k, x) \/ Put(k, x) \in tried'
      OBVIOUS
    <2> HIDE DEF x
    <2>3. Settled(k, u)' /\ Settled(k, x)'
      BY <2>1, <2>2, SettledStays
    <2> QED BY <2>3 DEF x
  <1> QED BY <1>1, <1>2 DEF ValuesSettled

LEMMA NothingThere ==
  ASSUME in_buf \in Seq(Byte), NEW n \in Nat, len < n
  PROVE  Offsets(n) = {} /\ SumsSettled(n) /\ ValuesSettled(n)
  <1>1. len \in Nat
    BY DEF len
  <1>2. \A k \in Int : ~(1 <= k /\ k <= len - n + 1)
    BY <1>1
  <1>3. Offsets(n) = {}
    BY <1>1, <1>2 DEF Offsets
  <1> QED BY <1>3 DEF SumsSettled, ValuesSettled

\* A step that runs a stage.
LEMMA StageStep ==
  ASSUME in_buf \in Seq(Byte), NEW name, NEW inputs, NEW next, Runs(name, inputs, next), eff_map' = eff_map
  PROVE  /\ in_buf' \in Seq(Byte) /\ no_arith' = no_arith /\ stage = name /\ stage' = next
         /\ \A n : SumsSettled(n) => SumsSettled(n)'
         /\ \A n : ValuesSettled(n) => ValuesSettled(n)'
         /\ \A n \in Widths : inputs = ArithStage(n) /\ (n # 1 => SumsSettled(n \div 2)) => SumsSettled(n)'
         /\ \A n \in Widths : /\ inputs = InterestStage(n)
                              /\ SumsSettled(1) /\ SumsSettled(2) /\ SumsSettled(4)
                              /\ n # 1 => ValuesSettled(1)
                              /\ n = 4 => ValuesSettled(2)
                              => ValuesSettled(n)'
  <1>1. in_buf' = in_buf /\ no_arith' = no_arith /\ stage = name /\ stage' = next /\ tried' = tried \cup inputs
    BY DEF Runs
  <1>2. tried \subseteq tried' /\ inputs \subseteq tried'
    BY <1>1
  <1>3. ASSUME NEW n, SumsSettled(n) PROVE SumsSettled(n)'
    <2>1. \A k \in Offsets(n), delta \in Sums : \A w \in {Plus(Get(k, n), delta), PlusBE(Get(k, n), delta)} :
            Settled(k, w) \/ Put(k, w) \in tried'
      BY <1>3 DEF SumsSettled
    <2> QED BY <1>1, <1>2, <2>1, SumsStay
  <1>4. ASSUME NEW n, ValuesSettled(n) PROVE ValuesSettled(n)'
    <2>1. \A k \in Offsets(n), u \in Interesting(n) : \A w \in {u, Swap(u)} : Settled(k, w) \/ Put(k, w) \in tried'
      BY <1>4 DEF ValuesSettled
    <2> QED BY <1>1, <1>2, <2>1, ValuesStay
  <1>5. ASSUME NEW n \in Widths, inputs = ArithStage(n), n # 1 => SumsSettled(n \div 2) PROVE SumsSettled(n)'
    <2>1. ASSUME NEW k \in Offsets(n), NEW delta \in Sums, NEW w \in {Plus(Get(k, n), delta), PlusBE(Get(k, n), delta)}
          PROVE  Settled(k, w) \/ Put(k, w) \in tried'
      <3>1. Settled(k, w) \/ Put(k, w) \in ArithStage(n)
        BY <1>5, ArithSettles
      <3> QED BY <1>2, <1>5, <3>1
    <2> QED BY <1>1, <1>2, <2>1, SumsStay
  <1>6. ASSUME NEW n \in Widths, inputs = InterestStage(n), SumsSettled(1), SumsSettled(2), SumsSettled(4),
               n # 1 => ValuesSettled(1), n = 4 => ValuesSettled(2)
        PROVE  ValuesSettled(n)'
    <2>1. ASSUME NEW k \in Offsets(n), NEW u \in Interesting(n), NEW w \in {u, Swap(u)}
          PROVE  Settled(k, w) \/ Put(k, w) \in tried'
      <3>1. Settled(k, w) \/ Put(k, w) \in InterestStage(n)
        BY <1>6, InterestSettles
      <3> QED BY <1>2, <1>6, <3>1
    <2> QED BY <1>1, <1>2, <2>1, ValuesStay
  <1> QED BY <1>1, <1>3, <1>4, <1>5, <1>6

LEMMA FlipsInv ==
  ASSUME StagesInv, Flip1 \/ Flip2 \/ Flip4 \/ Flip8 \/ Flip16 \/ Flip32
  PROVE  StagesInv'
  <1>1. in_buf' = in_buf /\ no_arith' = no_arith
    BY DEF Flip1, Flip2, Flip4, Flip8, Flip16, Flip32, Runs
  <1>2. stage' \in {"flip2", "flip4", "flip8", "flip16", "flip32", "arith8"} \/ no_arith
    BY DEF Flip1, Flip2, Flip4, Flip8, Flip16, Flip32, Runs
  <1> QED BY <1>1, <1>2 DEF StagesInv

LEMMA ArithInv ==
  ASSUME StagesInv, Arith8 \/ Arith16 \/ Arith32
  PROVE  StagesInv'
  <1>0. in_buf \in Seq(Byte) /\ 1 \in Widths /\ 2 \in Widths /\ 4 \in Widths /\ len \in Nat
    BY DEF StagesInv, Widths, len
  <1>1. CASE Arith8
    <2>1. Runs("arith8", ArithStage(1), IF len < 2 THEN "int8" ELSE "arith16") /\ eff_map' = eff_map
      BY <1>1 DEF Arith8
    <2>2. /\ in_buf' \in Seq(Byte) /\ stage' = (IF len < 2 THEN "int8" ELSE "arith16") /\ SumsSettled(1)'
          /\ \A n : SumsSettled(n) => SumsSettled(n)'
      BY <1>0, <2>1, StageStep
    <2>3. len < 2 => SumsSettled(2)' /\ SumsSettled(4)'
      <3>1. len < 2 => SumsSettled(2) /\ SumsSettled(4)
        BY <1>0, NothingThere
      <3> QED BY <2>2, <3>1
    <2> QED BY <2>2, <2>3 DEF StagesInv
  <1>2. CASE Arith16
    <2>1. Runs("arith16", ArithStage(2), IF len < 4 THEN "int8" ELSE "arith32") /\ eff_map' = eff_map
      BY <1>2 DEF Arith16
    <2>2. /\ in_buf' \in Seq(Byte) /\ stage' = (IF len < 4 THEN "int8" ELSE "arith32")
          /\ no_arith' = no_arith /\ stage = "arith16"
          /\ \A n : SumsSettled(n) => SumsSettled(n)'
          /\ SumsSettled(1) => SumsSettled(2)'
      <3>1. 2 \div 2 = 1
        OBVIOUS
      <3> QED BY <1>0, <2>1, <3>1, StageStep
    <2>3. len < 4 => SumsSettled(4)'
      <3>1. len < 4 => SumsSettled(4)
        BY <1>0, NothingThere
      <3> QED BY <2>2, <3>1
    <2>4. ~no_arith => SumsSettled(1)
      BY <2>2 DEF StagesInv
    <2> QED BY <2>2, <2>3, <2>4 DEF StagesInv
  <1>3. CASE Arith32
    <2>1. Runs("arith32", ArithStage(4), "int8") /\ eff_map' = eff_map
      BY <1>3 DEF Arith32
    <2>2. /\ in_buf' \in Seq(Byte) /\ stage' = "int8" /\ no_arith' = no_arith /\ stage = "arith32"
          /\ \A n : SumsSettled(n) => SumsSettled(n)'
          /\ SumsSettled(2) => SumsSettled(4)'
      <3>1. 4 \div 2 = 2
        OBVIOUS
      <3> QED BY <1>0, <2>1, <3>1, StageStep
    <2>3. ~no_arith => SumsSettled(1) /\ SumsSettled(2)
      BY <2>2 DEF StagesInv
    <2> QED BY <2>2, <2>3 DEF StagesInv
  <1> QED BY <1>1, <1>2, <1>3

LEMMA InterestInv ==
  ASSUME StagesInv, Int8 \/ Int16 \/ Int32
  PROVE  StagesInv'
  <1>0. in_buf \in Seq(Byte) /\ 1 \in Widths /\ 2 \in Widths /\ 4 \in Widths /\ len \in Nat
    BY DEF StagesInv, Widths, len
  <1>1. CASE Int8
    <2>1. Runs("int8", InterestStage(1), IF no_arith \/ len < 2 THEN "done" ELSE "int16") /\ eff_map' = eff_map
      BY <1>1 DEF Int8
    <2>2. /\ in_buf' \in Seq(Byte) /\ stage' = (IF no_arith \/ len < 2 THEN "done" ELSE "int16")
          /\ no_arith' = no_arith /\ stage = "int8"
          /\ \A n : SumsSettled(n) => SumsSettled(n)'
          /\ \A n : ValuesSettled(n) => ValuesSettled(n)'
          /\ SumsSettled(1) /\ SumsSettled(2) /\ SumsSettled(4) => ValuesSettled(1)'
      BY <1>0, <2>1, StageStep
    <2>3. len < 2 => ValuesSettled(2)' /\ ValuesSettled(4)'
      <3>1. len < 2 => ValuesSettled(2) /\ ValuesSettled(4)
        BY <1>0, NothingThere
      <3> QED BY <2>2, <3>1
    <2>4. ~no_arith => SumsSettled(1) /\ SumsSettled(2) /\ SumsSettled(4)
      BY <2>2 DEF StagesInv
    <2> QED BY <2>2, <2>3, <2>4 DEF StagesInv
  <1>2. CASE Int16
    <2>1. Runs("int16", InterestStage(2), IF len < 4 THEN "done" ELSE "int32") /\ eff_map' = eff_map
      BY <1>2 DEF Int16
    <2>2. /\ in_buf' \in Seq(Byte) /\ stage' = (IF len < 4 THEN "done" ELSE "int32")
          /\ no_arith' = no_arith /\ stage = "int16"
          /\ \A n : SumsSettled(n) => SumsSettled(n)'
          /\ \A n : ValuesSettled(n) => ValuesSettled(n)'
          /\ SumsSettled(1) /\ SumsSettled(2) /\ SumsSettled(4) /\ ValuesSettled(1) => ValuesSettled(2)'
      BY <1>0, <2>1, StageStep
    <2>3. len < 4 => ValuesSettled(4)'
      <3>1. len < 4 => ValuesSettled(4)
        BY <1>0, NothingThere
      <3> QED BY <2>2, <3>1
    <2>4. ~no_arith => SumsSettled(1) /\ SumsSettled(2) /\ SumsSettled(4) /\ ValuesSettled(1)
      BY <2>2 DEF StagesInv
    <2> QED BY <2>2, <2>3, <2>4 DEF StagesInv
  <1>3. CASE Int32
    <2>1. Runs("int32", InterestStage(4), "done") /\ eff_map' = eff_map
      BY <1>3 DEF Int32
    <2>2. /\ in_buf' \in Seq(Byte) /\ stage' = "done" /\ no_arith' = no_arith /\ stage = "int32"
          /\ \A n : SumsSettled(n) => SumsSettled(n)'
          /\ \A n : ValuesSettled(n) => ValuesSettled(n)'
          /\ SumsSettled(1) /\ SumsSettled(2) /\ SumsSettled(4) /\ ValuesSettled(1) /\ ValuesSettled(2) => ValuesSettled(4)'
      BY <1>0, <2>1, StageStep
    <2>3. ~no_arith => SumsSettled(1) /\ SumsSettled(2) /\ SumsSettled(4) /\ ValuesSettled(1) /\ ValuesSettled(2)
      BY <2>2 DEF StagesInv
    <2> QED BY <2>2, <2>3 DEF StagesInv
  <1> QED BY <1>1, <1>2, <1>3

LEMMA StagesStutter ==
  ASSUME StagesInv, UNCHANGED stageVars
  PROVE  StagesInv'
  <1>1. in_buf' = in_buf /\ no_arith' = no_arith /\ eff_map' = eff_map /\ tried' = tried /\ stage' = stage
    BY DEF stageVars
  <1>2. ASSUME NEW n, SumsSettled(n) PROVE SumsSettled(n)'
    <2>1. \A k \in Offsets(n), delta \in Sums : \A w \in {Plus(Get(k, n), delta), PlusBE(Get(k, n), delta)} :
            Settled(k, w) \/ Put(k, w) \in tried'
      BY <1>2 DEF SumsSettled
    <2> QED BY <1>1, <2>1, SumsStay
  <1>3. ASSUME NEW n, ValuesSettled(n) PROVE ValuesSettled(n)'
    <2>1. \A k \in Offsets(n), u \in Interesting(n) : \A w \in {u, Swap(u)} : Settled(k, w) \/ Put(k, w) \in tried'
      BY <1>3 DEF ValuesSettled
    <2> QED BY <1>1, <2>1, ValuesStay
  <1> QED BY <1>1, <1>2, <1>3 DEF StagesInv

LEMMA StagesInvAtStart == StagesInit => StagesInv
  <1> SUFFICES ASSUME StagesInit PROVE StagesInv
    OBVIOUS
  <1>1. in_buf \in Inputs /\ stage = "flip1"
    BY DEF StagesInit, StagesStart
  <1> QED BY <1>1, InputsAssumption DEF StagesInv

LEMMA StagesInvNext == StagesInv /\ [StagesNext]_stageVars => StagesInv'
  <1> SUFFICES ASSUME StagesInv, [StagesNext]_stageVars PROVE StagesInv'
    OBVIOUS
  <1>1. CASE Abandon
    BY <1>1 DEF Abandon, StagesInv
  <1>2. CASE UNCHANGED stageVars
    BY <1>2, StagesStutter
  <1> QED BY <1>1, <1>2, FlipsInv, ArithInv, InterestInv DEF StagesNext

LEMMA EverythingSettled == StagesInv => EveryValueTried
  <1> SUFFICES ASSUME StagesInv, stage = "done", ~no_arith,
                      NEW n \in Widths, NEW k \in Offsets(n), NEW w \in Promised(Get(k, n))
               PROVE  Settled(k, w) /\ Len(w) = n
    BY DEF EveryValueTried, Settled, Widths
  <1>1. in_buf \in Seq(Byte) /\ SumsSettled(n) /\ ValuesSettled(n)
    BY DEF StagesInv, Widths
  <1>2. n \in Nat \ {0} /\ n \in Nat
    BY DEF Widths
  <1> DEFINE v == Get(k, n)
  <1>3. IsValue(v, n) /\ Len(v) = n
    BY <1>1, <1>2, GetIs DEF IsValue
  <1>4. CASE \E delta \in Sums : w \in {Plus(v, delta), PlusBE(v, delta)}
    <2>1. PICK delta \in Sums : w \in {Plus(v, delta), PlusBE(v, delta)}
      BY <1>4
    <2>2. Settled(k, w)
      BY <1>1, <2>1 DEF SumsSettled
    <2>3. IsValue(w, n)
      <3> HIDE DEF v
      <3>1. delta \in Int
        BY SumsAreInts
      <3>2. IsValue(Plus(v, delta), n) /\ IsValue(PlusBE(v, delta), n)
        BY <1>2, <1>3, <3>1, SumIsValue, BESumIsValue
      <3> QED BY <2>1, <3>2
    <2> QED BY <2>2, <2>3 DEF IsValue
  <1>5. CASE \E u \in Interesting(n) : w \in {u, Swap(u)}
    <2>1. PICK u \in Interesting(n) : w \in {u, Swap(u)}
      BY <1>5
    <2>2. Settled(k, w)
      BY <1>1, <2>1 DEF ValuesSettled
    <2>3. IsValue(w, n)
      BY <2>1, InterestingIsValue
    <2> QED BY <2>2, <2>3 DEF IsValue
  <1>6. (\E delta \in Sums : w \in {Plus(v, delta), PlusBE(v, delta)}) \/ (\E u \in Interesting(n) : w \in {u, Swap(u)})
    BY <1>3 DEF Promised
  <1> QED BY <1>4, <1>5, <1>6

\* For any entry, effector map, ARITH_MAX and tables of interesting values:
\* what could_be_bitflip, could_be_arith and could_be_interest (afl-fuzz.c),
\* the halves that carry nothing and the effector map let the stages leave
\* out has been run by an earlier stage, or falls under one of the exceptions
\* EveryValueTried names.
THEOREM ValuesAreTried == StagesSpec => []EveryValueTried
  <1>1. StagesSpec => []StagesInv
    BY StagesInvAtStart, StagesInvNext, PTL DEF StagesSpec
  <1>2. StagesInv => EveryValueTried
    BY EverythingSettled
  <1> QED BY <1>1, <1>2, PTL
=============================================================================
