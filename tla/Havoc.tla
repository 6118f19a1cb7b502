---------------------------------- MODULE Havoc ----------------------------------
(***************************************************************************)
(* The random half of fuzz_one(): the havoc stage, whose runs each start   *)
(* from the entry again after a stack of random tweaks, and splicing,      *)
(* which gives it the head of the entry and the tail of another, up to     *)
(* SPLICE_CYCLES times.  Of out_buf only its size and the length of what   *)
(* it holds are modelled, of in_buf the bytes.  The queue grows meanwhile, *)
(* with the shortcuts add_to_queue() leaves in it; entries count from 1.   *)
(***************************************************************************)
EXTENDS HavocBounds, FiniteSets

VARIABLES
  queue,          \* entries: data, exec_us, bitmap_size, depth, handicap
  next_100,       \* for each entry, the one its next_100 points at, or 0
  q_prev100,
  current_entry,
  havoc_buf, havoc_len,  \* in_buf and len, which splicing makes differ from orig_in's
  temp_len,       \* length of what out_buf holds
  room,           \* and the bytes allocated for it
  doing_det, use_splicing,
  orig_perf, perf_score,
  havoc_cur, havoc_max, havoc_queued,
  stack,          \* tweaks to go before the next run
  splice_cycle,
  splicing_with,  \* from 0, as in the names of files; -1 for none
  target,         \* the entry spliced with, 0 for none
  havoc_step      \* "idle", "stage", "choose", "tweak" or "splice"

queueVars == <<queue, next_100, q_prev100>>
scoreVars == <<doing_det, use_splicing, orig_perf>>
energyVars == <<perf_score, havoc_cur, havoc_max, havoc_queued>>
spliceVars == <<splice_cycle, splicing_with, target>>
havocVars == <<queueVars, current_entry, havoc_buf, havoc_len, temp_len, room, scoreVars,
               energyVars, stack, spliceVars, havoc_step>>

orig_in == queue[current_entry].data

AtMost(x, y) == IF x <= y THEN x ELSE y
AtLeast(x, y) == IF x >= y THEN x ELSE y

-----------------------------------------------------------------------------
(* add_to_queue(): after each Stride entries the last one so marked points at *)
(* the new one.                                                               *)

AddToQueue(entry) ==
  LET n == Len(queue) + 1
  IN /\ queue' = Append(queue, entry)
     /\ IF n % Stride = 0
          THEN /\ next_100' = [next_100 EXCEPT ![q_prev100] = n]
               /\ q_prev100' = n
          ELSE UNCHANGED <<next_100, q_prev100>>

\* The ways from the first entry over h shortcuts, and the entry tid, counted
\* from 0, that splicing seeks along one.
Hops(h) ==
  {way \in [0 .. h -> 1 .. Len(queue)] :
     way[0] = 1 /\ \A k \in 1 .. h : way[k] = next_100[way[k - 1]]}
Sought(tid) == {way[tid \div Stride] + (tid % Stride) : way \in Hops(tid \div Stride)}

-----------------------------------------------------------------------------
(* calculate_score(), in whole numbers. *)

ByTime(t) ==
  CASE t > 10 * AvgTime -> 10 [] t > 4 * AvgTime /\ t <= 10 * AvgTime -> 25
    [] t > 2 * AvgTime /\ t <= 4 * AvgTime -> 50
    [] 3 * t > 4 * AvgTime /\ t <= 2 * AvgTime -> 75
    [] 4 * t < AvgTime -> 300
    [] 4 * t >= AvgTime /\ 3 * t < AvgTime -> 200
    [] 3 * t >= AvgTime /\ 2 * t < AvgTime -> 150
    [] OTHER -> 100

ByMapSize(p, s) ==
  CASE 3 * s > 10 * AvgSize -> 3 * p
    [] s > 2 * AvgSize /\ 3 * s <= 10 * AvgSize -> 2 * p
    [] 3 * s > 4 * AvgSize /\ s <= 2 * AvgSize -> (3 * p) \div 2
    [] 3 * s < AvgSize -> p \div 4
    [] 3 * s >= AvgSize /\ 2 * s < AvgSize -> p \div 2
    [] 2 * s >= AvgSize /\ 3 * s < 2 * AvgSize -> (3 * p) \div 4
    [] OTHER -> p

ByHandicap(p, h) == IF h >= 4 THEN 4 * p ELSE IF h > 0 THEN 2 * p ELSE p
HandicapLeft(h) == IF h >= 4 THEN h - 4 ELSE IF h > 0 THEN h - 1 ELSE 0

ByDepth(p, d) ==
  p * (CASE d \in 0 .. 3 -> 1 [] d \in 4 .. 7 -> 2 [] d \in 8 .. 13 -> 3 [] d \in 14 .. 25 -> 4 [] OTHER -> 5)

Score(q) ==
  AtMost(ByDepth(ByHandicap(ByMapSize(ByTime(q.exec_us), q.bitmap_size), q.handicap), q.depth),
         HavocMaxMult * 100)

-----------------------------------------------------------------------------
(* choose_block_len(): the lengths it may return. *)

BlockLens(limit) ==
  UNION {LET least == IF r[1] >= limit THEN 1 ELSE r[1] IN least .. AtMost(r[2], limit) :
           r \in {<<1, BlkSmall>>, <<BlkSmall, BlkMedium>>, <<BlkMedium, BlkLarge>>, <<BlkLarge, BlkXL>>}}

-----------------------------------------------------------------------------
(* The stage. *)

\* fuzz_one() comes to havoc: at once or after the deterministic stages.
TakeForHavoc ==
  /\ havoc_step = "idle"
  /\ \E c \in 1 .. Len(queue), det \in BOOLEAN, splicing \in BOOLEAN :
       /\ current_entry' = c
       /\ havoc_buf' = queue[c].data
       /\ doing_det' = det /\ use_splicing' = splicing
       /\ orig_perf' = Score(queue[c])
       /\ queue' = [queue EXCEPT ![c].handicap = HandicapLeft(@)]
  /\ havoc_len' = Len(havoc_buf') /\ temp_len' = havoc_len' /\ room' = havoc_len'
  /\ perf_score' = orig_perf'
  /\ havoc_step' = "stage"
  /\ UNCHANGED <<next_100, q_prev100, havoc_cur, havoc_max, havoc_queued, stack, spliceVars>>

Programme == IF splice_cycle > 0 THEN SpliceHavoc ELSE IF doing_det THEN HavocCyclesInit ELSE HavocCycles

\* How many runs the stage is for.
StageMax(score) == AtLeast(((Programme * score) \div HavocDiv) \div 100, HavocMin)

StartStage ==
  /\ havoc_step = "stage"
  /\ perf_score' = IF splice_cycle = 0 THEN perf_score ELSE orig_perf
  /\ havoc_max' = StageMax(perf_score')
  /\ havoc_cur' = 0
  /\ temp_len' = havoc_len
  /\ havoc_queued' = Len(queue)
  /\ havoc_step' = "choose"
  /\ UNCHANGED <<queueVars, current_entry, havoc_buf, havoc_len, room, scoreVars, stack, spliceVars>>

ChooseStack ==
  /\ havoc_step = "choose" /\ havoc_cur < havoc_max
  /\ \E k \in 1 .. StackPow2 : stack' = 2 ^ k
  /\ havoc_step' = "tweak"
  /\ UNCHANGED <<queueVars, current_entry, havoc_buf, havoc_len, temp_len, room, scoreVars, energyVars, spliceVars>>

Tweak ==
  /\ havoc_step = "tweak" /\ stack > 0
  /\ stack' = stack - 1
  /\ UNCHANGED <<queueVars, current_entry, havoc_buf, havoc_len, scoreVars, energyVars, spliceVars, havoc_step>>

\* Cases 0-10, 14 and 15, and every case that does not fit.
TweakInPlace == Tweak /\ UNCHANGED <<temp_len, room>>

Deletable == temp_len - 1

\* Cases 11 and 12.
DeleteBytes ==
  /\ Tweak /\ temp_len >= 2
  /\ \E n \in BlockLens(Deletable) : temp_len' = temp_len - n
  /\ UNCHANGED room

\* Cases 13 and 16: out_buf is a new one.
InsertBytes ==
  /\ Tweak
  /\ \E n \in BlockLens(temp_len) \cup BlockLens(BlkXL) \cup ExtraLens :
       /\ \/ temp_len + BlkXL < MaxFileLen /\ n \in BlockLens(temp_len) \cup BlockLens(BlkXL)
          \/ temp_len + n < MaxFileLen /\ n \in ExtraLens
       /\ temp_len' = temp_len + n
       /\ room' = temp_len'

\* out_buf grows again only when less than the input is left in it.
RestoredRoom == IF temp_len < havoc_len THEN havoc_len ELSE room

\* (faulty) the limit is the one of the score at the start.
LongerByStart == orig_perf <= HavocMaxMult * 100

Longer == perf_score <= HavocMaxMult * 100

\* The run and what may come of it, and out_buf as it was.
Run ==
  /\ havoc_step = "tweak" /\ stack = 0
  /\ \/ UNCHANGED queueVars
     \/ /\ Len(queue) < MaxPaths
        /\ \E d \in Contents, t \in Times, s \in Sizes, h \in Handicaps, depth \in Depths :
             AddToQueue([data |-> d, exec_us |-> t, bitmap_size |-> s, handicap |-> h, depth |-> depth])
  /\ room' = RestoredRoom
  /\ temp_len' = havoc_len
  /\ LET longer == Len(queue') # havoc_queued /\ Longer
     IN /\ havoc_max' = IF longer THEN 2 * havoc_max ELSE havoc_max
        /\ perf_score' = IF longer THEN 2 * perf_score ELSE perf_score
  /\ havoc_queued' = Len(queue')
  /\ havoc_cur' = havoc_cur + 1
  /\ havoc_step' = "choose"
  /\ UNCHANGED <<current_entry, havoc_buf, havoc_len, scoreVars, stack, spliceVars>>

StageOver ==
  /\ havoc_step = "choose" /\ havoc_cur >= havoc_max
  /\ havoc_step' = "splice"
  /\ UNCHANGED <<queueVars, current_entry, havoc_buf, havoc_len, temp_len, room, scoreVars, energyVars, stack, spliceVars>>

-----------------------------------------------------------------------------
(* Splicing. *)

Differ(a, b) == {p \in 1 .. AtMost(Len(a), Len(b)) : a[p] # b[p]}

\* (faulty) a splice of a splice.
SplicedAgain(b, p) == [k \in 1 .. Len(b) |-> IF k <= p THEN havoc_buf[k] ELSE b[k]]

\* The first p bytes of the entry and the rest of b.
Spliced(b, p) == [k \in 1 .. Len(b) |-> IF k <= p THEN orig_in[k] ELSE b[k]]

\* The entries an attempt may look at from one on: long enough, and not this one.
Suitable(k) == Len(queue[k].data) >= 2 /\ k # current_entry
FirstSuitable(from) ==
  {k \in from .. Len(queue) : Suitable(k) /\ \A i \in from .. k - 1 : ~Suitable(i)}

\* How many bytes the entry may give to a splice with b: a number between the
\* first and the last place the two differ, if those are apart (f and l count
\* from 0 in the code: f_diff < 0 || l_diff < 2 || f_diff == l_diff is no good).
Splits(b) ==
  LET diff == Differ(orig_in, b)
  IN {p \in 0 .. Len(b) :
        (\E f \in diff : f - 1 <= p) /\ (\E l \in diff : l >= 3 /\ p < l - 1)}

SpliceWith(b) ==
  \/ /\ Splits(b) = {}
     /\ havoc_buf' = orig_in /\ havoc_len' = Len(orig_in)
     /\ UNCHANGED <<room, havoc_step>>
  \/ /\ \E p \in Splits(b) : havoc_buf' = Spliced(b, p)
     /\ havoc_len' = Len(b) /\ room' = Len(b)
     /\ havoc_step' = "stage"

\* (faulty) an attempt that fails does not count.
CountedIfSpliced == IF havoc_step' = "stage" THEN splice_cycle + 1 ELSE splice_cycle

Counted == splice_cycle + 1

SpliceOn == use_splicing /\ splice_cycle < SpliceCycles /\ Len(queue) > 1 /\ Len(orig_in) > 1

Splice ==
  /\ havoc_step = "splice" /\ SpliceOn
  /\ \E tid \in (0 .. Len(queue) - 1) \ {current_entry - 1} : \E from \in Sought(tid) :
       IF FirstSuitable(from) = {}
         THEN /\ havoc_buf' = orig_in /\ havoc_len' = Len(orig_in)
              /\ splicing_with' = tid + Len(queue) + 1 - from
              /\ target' = 0
              /\ UNCHANGED <<room, havoc_step>>
         ELSE \E k \in FirstSuitable(from) :
              /\ SpliceWith(queue[k].data)
              /\ splicing_with' = tid + k - from
              /\ target' = k
  /\ splice_cycle' = Counted
  /\ UNCHANGED <<queueVars, current_entry, temp_len, scoreVars, energyVars, stack>>

Leave ==
  /\ havoc_step' = "idle"
  /\ current_entry' = 1 /\ havoc_buf' = <<>> /\ havoc_len' = 0 /\ temp_len' = 0 /\ room' = 0
  /\ doing_det' = FALSE /\ use_splicing' = FALSE /\ orig_perf' = 0
  /\ perf_score' = 0 /\ havoc_cur' = 0 /\ havoc_max' = 0 /\ havoc_queued' = 0
  /\ stack' = 0
  /\ splice_cycle' = 0 /\ splicing_with' = -1 /\ target' = 0
  /\ UNCHANGED queueVars

Done == havoc_step = "splice" /\ ~SpliceOn /\ Leave

\* common_fuzz_stuff() says so.
AbandonHavoc == havoc_step = "tweak" /\ stack = 0 /\ Leave

HavocInit ==
  /\ \E d \in Contents, t \in Times, s \in Sizes, h \in Handicaps, depth \in Depths :
       queue = <<[data |-> d, exec_us |-> t, bitmap_size |-> s, handicap |-> h, depth |-> depth]>>
  /\ next_100 = [k \in 1 .. MaxPaths |-> 0]
  /\ q_prev100 = 1
  /\ current_entry = 1 /\ havoc_buf = <<>> /\ havoc_len = 0 /\ temp_len = 0 /\ room = 0
  /\ doing_det = FALSE /\ use_splicing = FALSE /\ orig_perf = 0
  /\ perf_score = 0 /\ havoc_cur = 0 /\ havoc_max = 0 /\ havoc_queued = 0
  /\ stack = 0
  /\ splice_cycle = 0 /\ splicing_with = -1 /\ target = 0
  /\ havoc_step = "idle"

InEntry ==
  \/ StartStage \/ ChooseStack \/ TweakInPlace \/ DeleteBytes \/ InsertBytes
  \/ Run \/ StageOver \/ Splice \/ Done \/ AbandonHavoc

HavocNext == TakeForHavoc \/ InEntry

\* fuzz_one() is sequential code, and every run of the target ends.
HavocSpec == HavocInit /\ [][HavocNext]_havocVars /\ WF_havocVars(InEntry)

-----------------------------------------------------------------------------
(* Properties. *)

\* Through deletions, insertions and splices the buffer that runs is never
\* empty, never longer than what is allocated for it, nor than MAX_FILE; and
\* when a stack of tweaks starts, it has the room and the length of the input.
BuffersHold ==
  havoc_step # "idle" =>
    /\ havoc_len = Len(havoc_buf) /\ havoc_len >= 1
    /\ havoc_step \in {"choose", "tweak"} => temp_len \in 1 .. AtMost(room, MaxFileLen)
    /\ havoc_step = "choose" => temp_len = havoc_len
    /\ havoc_step = "stage" => havoc_len <= room

\* "Pick a random queue entry and seek to it": however the queue grows, the
\* shortcuts lead to an entry from wherever splicing starts to walk.
EntriesAreFound == havoc_step = "splice" => \A tid \in 0 .. Len(queue) - 1 : Sought(tid) # {}

\* "splices them together at some offset": what havoc gets is the entry itself
\* or the head of it and the tail of one other entry, never a splice of a
\* splice, and whatever the attempts before have left.
SplicesAreOfTwo ==
  /\ EntriesAreFound
  /\ havoc_step \in {"stage", "choose", "tweak"} =>
       IF splice_cycle = 0 THEN havoc_buf = orig_in
       ELSE /\ target \notin {0, current_entry}
            /\ LET b == queue[target].data
               IN \E p \in 1 .. Len(b) : havoc_buf = SubSeq(orig_in, 1, p - 1) \o SubSeq(b, p, Len(b))

\* "run for a bit longer, limits permitting": a stage is as many times longer
\* than it was to be as its score is higher, and that is limited however much
\* is found.
OvertimeLimited ==
  havoc_step \in {"choose", "tweak"} =>
    /\ perf_score <= 2 * HavocMaxMult * 100
    /\ havoc_max * orig_perf = StageMax(orig_perf) * perf_score

\* Neither the buffers nor the time an entry gets grow beyond their limits.
HavocBounded == BuffersHold /\ OvertimeLimited

\* An entry is left in the end, whatever is found on it and however many
\* attempts to splice it come to nothing.
EntryIsLeft == havoc_step # "idle" ~> havoc_step = "idle"

\* "Splicing with which test case?", and the names of the files it leads to:
\* the entry spliced with has that number.
SplicingWithIsTarget == target # 0 => splicing_with = target - 1
=============================================================================
