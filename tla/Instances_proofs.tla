----------------------------- MODULE Instances_proofs -----------------------------
(***************************************************************************)
(* Several instances, for any number of them.  What they take from each    *)
(* other: NoneSkipped of Sync, when none of the overlaps happens, and      *)
(* KeptIsNew, whichever happen.  How they start: CoreIsFree of FreeCpu on  *)
(* any number of cores, and SetUpHolds of OutDir.                          *)
(***************************************************************************)
EXTENDS Sync, FreeCpu, OutDir, Functions, FiniteSetTheorems, SequenceTheorems, TLAPS

-----------------------------------------------------------------------------
(* What the instances take from each other. *)

\* What f has on disk: _resume as long as it is there, its queue otherwise.
Full(f) == IF old[f] = <<>> THEN queue[f] ELSE old[f]

Up(f) == pc[f] \notin {"down", "pivot"}

Prefix(s, t) == Len(s) <= Len(t) /\ \A i \in 1 .. Len(s) : s[i] = t[i]

Visit == [peer : Fuzzers, session : Nat, size : Nat, seen : SUBSET Nat, next : Nat]

Types ==
  /\ queue \in [Fuzzers -> Seq(Cases)]
  /\ old \in [Fuzzers -> Seq(Cases)]
  /\ synced \in [Fuzzers -> [Fuzzers -> Nat]]
  /\ starts \in [Fuzzers -> Nat \ {0}]
  /\ pc \in [Fuzzers -> {"fuzz", "sync", "scan", "pivot", "down"}]
  /\ covered \in [Fuzzers -> SUBSET Edges]
  /\ parties \in [Fuzzers -> SUBSET Fuzzers]
  /\ scan \in [Fuzzers -> Visit]

\* The queue is a part of what is on disk, all of it when the instance is up;
\* then it knows what its queue covers, and no more.
Stored ==
  \A f \in Fuzzers :
    /\ Full(f) # <<>>
    /\ Prefix(queue[f], Full(f))
    /\ Up(f) => old[f] = <<>> /\ covered[f] = Content(queue[f])
    /\ pc[f] = "pivot" => old[f] # <<>>

\* While f reads the queue of a peer that queue only grows, and what f has seen
\* there its own queue covers.
VisitOK(f) ==
  pc[f] = "scan" =>
    /\ scan[f].session = starts[scan[f].peer]
    /\ scan[f].size <= Len(queue[scan[f].peer])
    /\ scan[f].next <= Larger(scan[f].size, synced[f][scan[f].peer])
    /\ \A n \in scan[f].seen :
         n < scan[f].size /\ queue[scan[f].peer][n + 1] \subseteq Content(queue[f])

Visits == \A f \in Fuzzers : VisitOK(f)

\* .synced counts cases that are on the peer's disk, and what they cover is on
\* that of f: this outlives the end of either.
Counted ==
  \A f, p \in Fuzzers :
    /\ synced[f][p] <= Len(Full(p))
    /\ \A i \in 1 .. synced[f][p] : Full(p)[i] \subseteq Content(Full(f))

Inv == Types /\ Stored /\ Visits /\ Counted

-----------------------------------------------------------------------------
(* Sequences of cases. *)

LEMMA ContentAppend ==
  ASSUME NEW s \in Seq(Cases), NEW c \in Cases
  PROVE  /\ Append(s, c) \in Seq(Cases)
         /\ Prefix(s, Append(s, c))
         /\ Append(s, c) # <<>>
         /\ Content(Append(s, c)) = Content(s) \cup c
<1>1. /\ Append(s, c) \in Seq(Cases)
      /\ Len(Append(s, c)) = Len(s) + 1
      /\ \A i \in 1 .. Len(s) : Append(s, c)[i] = s[i]
      /\ Append(s, c)[Len(s) + 1] = c
  OBVIOUS
<1>2. Len(s) \in Nat
  OBVIOUS
<1>3. Prefix(s, Append(s, c))
  BY <1>1, <1>2 DEF Prefix
<1>4. Append(s, c) # <<>>
  BY <1>1, <1>2
<1>5. 1 .. Len(Append(s, c)) = 1 .. Len(s) \cup {Len(s) + 1}
  BY <1>1, <1>2
<1>6. Content(Append(s, c)) = Content(s) \cup c
  <2> DEFINE t == Append(s, c)
  <2>1. \A x : x \in Content(t) <=> \E i \in 1 .. Len(t) : x \in t[i]
    BY DEF Content
  <2>2. \A x : x \in Content(s) <=> \E i \in 1 .. Len(s) : x \in s[i]
    BY DEF Content
  <2>3. \A x : x \in Content(t) <=> x \in Content(s) \cup c
    BY <2>1, <2>2, <1>1, <1>2, <1>5
  <2> QED
    BY <2>3
<1> QED
  BY <1>1, <1>3, <1>4, <1>6

LEMMA ContentGrows ==
  ASSUME NEW s \in Seq(Cases), NEW t \in Seq(Cases), Prefix(s, t)
  PROVE  Content(s) \subseteq Content(t)
<1>1. Len(s) \in Nat /\ Len(t) \in Nat
  OBVIOUS
<1>2. \A i \in 1 .. Len(s) : i \in 1 .. Len(t) /\ s[i] = t[i]
  BY <1>1 DEF Prefix
<1> QED
  BY <1>2 DEF Content

LEMMA ContentIn ==
  ASSUME NEW s \in Seq(Cases), NEW i \in 1 .. Len(s)
  PROVE  s[i] \in Cases /\ s[i] \subseteq Content(s) /\ s[i] \subseteq Edges
BY DEF Content, Edges

LEMMA ContentEdges ==
  ASSUME NEW s \in Seq(Cases)
  PROVE  Content(s) \subseteq Edges
BY ContentIn DEF Content, Edges

LEMMA PrefixRefl ==
  ASSUME NEW s \in Seq(Cases)
  PROVE  Prefix(s, s)
BY DEF Prefix

LEMMA PrefixEmpty ==
  ASSUME NEW s \in Seq(Cases)
  PROVE  Prefix(<<>>, s)
BY DEF Prefix

LEMMA PrefixWhole ==
  ASSUME NEW s \in Seq(Cases), NEW t \in Seq(Cases), Prefix(s, t), ~(Len(s) < Len(t))
  PROVE  s = t
<1>1. Len(s) \in Nat /\ Len(t) \in Nat /\ Len(s) = Len(t)
  BY DEF Prefix
<1>2. \A i \in 1 .. Len(s) : s[i] = t[i]
  BY DEF Prefix
<1> QED
  BY <1>1, <1>2

LEMMA PrefixNext ==
  ASSUME NEW s \in Seq(Cases), NEW t \in Seq(Cases), Prefix(s, t), Len(s) < Len(t)
  PROVE  t[Len(s) + 1] \in Cases /\ Prefix(Append(s, t[Len(s) + 1]), t)
<1>1. Len(s) \in Nat /\ Len(t) \in Nat
  OBVIOUS
<1>2. t[Len(s) + 1] \in Cases
  BY <1>1
<1> DEFINE u == Append(s, t[Len(s) + 1])
<1>3. /\ Len(u) = Len(s) + 1
      /\ \A i \in 1 .. Len(s) : u[i] = s[i]
      /\ u[Len(s) + 1] = t[Len(s) + 1]
  BY <1>2
<1>4. Len(u) <= Len(t) /\ \A i \in 1 .. Len(u) : u[i] = t[i]
  BY <1>1, <1>3 DEF Prefix
<1> QED
  BY <1>2, <1>4 DEF Prefix

LEMMA CardinalityUpTo ==
  ASSUME NEW n \in Nat
  PROVE  Cardinality(1 .. n) = n
<1>1. Cardinality(1 .. n) = IF 1 > n THEN 0 ELSE n - 1 + 1
  BY FS_Interval
<1> QED
  BY <1>1

\* A directory without empty files is what NonEmpty() takes it for.
LEMMA NonEmptyWhole ==
  ASSUME NEW s \in Seq(Cases)
  PROVE  NonEmpty(s) = s
<1>1. Len(s) \in Nat /\ \A i \in 1 .. Len(s) : s[i] \in Cases
  OBVIOUS
<1> DEFINE kept == {i \in 1 .. Len(s) : s[i] # {}}
<1>2. kept = 1 .. Len(s)
  BY <1>1, CasesAssumption
<1>3. Cardinality(kept) = Len(s)
  <2> HIDE DEF kept
  <2> QED
    BY <1>1, <1>2, CardinalityUpTo
<1>4. ASSUME NEW i \in kept
      PROVE  Cardinality({j \in kept : j <= i}) = i
  <2> DEFINE below == {j \in kept : j <= i}
  <2>1. i \in Nat /\ i >= 1 /\ i <= Len(s)
    BY <1>1, <1>2
  <2>2. below = 1 .. i
    BY <1>1, <1>2, <2>1
  <2> HIDE DEF below, kept
  <2>3. Cardinality(below) = i
    BY <2>1, <2>2, CardinalityUpTo
  <2> QED
    BY <2>3 DEF below
<1>5. ASSUME NEW k \in 1 .. Len(s)
      PROVE  (CHOOSE i \in kept : Cardinality({j \in kept : j <= i}) = k) = k
  <2>1. k \in kept
    BY <1>2
  <2>2. Cardinality({j \in kept : j <= k}) = k
    BY <2>1, <1>4
  <2>3. \A i \in kept : Cardinality({j \in kept : j <= i}) = k => i = k
    BY <1>4
  <2> HIDE DEF kept
  <2> QED
    BY <2>1, <2>2, <2>3
<1>6. NonEmpty(s) = [k \in 1 .. Len(s) |-> s[CHOOSE i \in kept : Cardinality({j \in kept : j <= i}) = k]]
  BY <1>3 DEF NonEmpty
<1>7. NonEmpty(s) = [k \in 1 .. Len(s) |-> s[k]]
  <2> HIDE DEF kept
  <2> QED
    BY <1>5, <1>6
<1> QED
  BY <1>1, <1>7

-----------------------------------------------------------------------------
(* What every step that only adds to the queues keeps. *)

LEMMA FullTyped ==
  ASSUME Types, NEW f \in Fuzzers
  PROVE  Full(f) \in Seq(Cases)
BY DEF Types, Full

\* A visit that goes on while the two queues it is about grow.
LEMMA VisitKept ==
  ASSUME Types, Types', NEW g \in Fuzzers, VisitOK(g),
         pc'[g] = "scan" => pc[g] = "scan" /\ scan'[g] = scan[g],
         synced'[g] = synced[g],
         pc[g] = "scan" => /\ starts'[scan[g].peer] = starts[scan[g].peer]
                           /\ Prefix(queue[scan[g].peer], queue'[scan[g].peer])
                           /\ Prefix(queue[g], queue'[g])
  PROVE  VisitOK(g)'
<1> SUFFICES ASSUME pc'[g] = "scan"
             PROVE  /\ scan'[g].session = starts'[scan'[g].peer]
                    /\ scan'[g].size <= Len(queue'[scan'[g].peer])
                    /\ scan'[g].next <= Larger(scan'[g].size, synced'[g][scan'[g].peer])
                    /\ \A n \in scan'[g].seen :
                         n < scan'[g].size /\ queue'[scan'[g].peer][n + 1] \subseteq Content(queue'[g])
  BY DEF VisitOK
<1> DEFINE v == scan[g]
           p == v.peer
<1>1. pc[g] = "scan" /\ scan'[g] = v /\ v \in Visit /\ p \in Fuzzers
  BY DEF Types, Visit
<1>2. /\ v.session = starts[p]
      /\ v.size <= Len(queue[p])
      /\ v.next <= Larger(v.size, synced[g][p])
      /\ \A n \in v.seen : n < v.size /\ queue[p][n + 1] \subseteq Content(queue[g])
  BY <1>1 DEF VisitOK
<1>3. /\ queue[p] \in Seq(Cases) /\ queue'[p] \in Seq(Cases)
      /\ queue[g] \in Seq(Cases) /\ queue'[g] \in Seq(Cases)
      /\ Len(queue[p]) \in Nat /\ Len(queue'[p]) \in Nat
      /\ v.size \in Nat /\ v.seen \subseteq Nat
  <2>1. /\ queue[p] \in Seq(Cases) /\ queue'[p] \in Seq(Cases)
        /\ queue[g] \in Seq(Cases) /\ queue'[g] \in Seq(Cases)
    BY <1>1 DEF Types
  <2>2. Len(queue[p]) \in Nat /\ Len(queue'[p]) \in Nat
    BY <2>1
  <2>3. v.size \in Nat /\ v.seen \subseteq Nat
    BY <1>1 DEF Visit
  <2> QED
    BY <2>1, <2>2, <2>3
<1>4. Content(queue[g]) \subseteq Content(queue'[g])
  BY <1>1, <1>3, ContentGrows
<1>5. Len(queue[p]) <= Len(queue'[p]) /\ \A i \in 1 .. Len(queue[p]) : queue[p][i] = queue'[p][i]
  BY <1>1 DEF Prefix
<1>6. v.size <= Len(queue'[p])
  BY <1>2, <1>3, <1>5
<1>7. ASSUME NEW n \in v.seen
      PROVE  n < v.size /\ queue'[p][n + 1] \subseteq Content(queue'[g])
  <2>1. n \in Nat /\ n < v.size /\ n + 1 \in 1 .. Len(queue[p])
    BY <1>2, <1>3
  <2>2. queue'[p][n + 1] = queue[p][n + 1]
    BY <2>1, <1>5
  <2> QED
    BY <2>1, <2>2, <1>2, <1>4
<1> QED
  BY <1>1, <1>2, <1>6, <1>7

LEMMA VisitUpdate ==
  ASSUME NEW v \in Visit, NEW n \in Nat, NEW m \in Nat
  PROVE  LET w == [v EXCEPT !.seen = @ \cup {n}, !.next = m]
         IN  /\ w.peer = v.peer /\ w.session = v.session /\ w.size = v.size
             /\ w.seen = v.seen \cup {n} /\ w.next = m
             /\ w \in Visit
BY DEF Visit

\* The counters, as long as what is on disk only grows.
LEMMA CountedKept ==
  ASSUME Types, Counted, Types', synced' = synced,
         \A p \in Fuzzers : Prefix(Full(p), Full(p)')
  PROVE  Counted'
<1> SUFFICES ASSUME NEW f \in Fuzzers, NEW p \in Fuzzers
             PROVE  /\ synced'[f][p] <= Len(Full(p)')
                    /\ \A i \in 1 .. synced'[f][p] : Full(p)'[i] \subseteq Content(Full(f)')
  BY DEF Counted, Content, Full
<1>1. /\ synced[f][p] <= Len(Full(p))
      /\ \A i \in 1 .. synced[f][p] : Full(p)[i] \subseteq Content(Full(f))
  BY DEF Counted
<1>2. /\ Full(p) \in Seq(Cases) /\ Full(f) \in Seq(Cases)
      /\ synced[f][p] \in Nat /\ Len(Full(p)) \in Nat
  BY FullTyped, SMTT(30) DEF Types
<1>3. Full(p)' \in Seq(Cases) /\ Full(f)' \in Seq(Cases) /\ Len(Full(p)') \in Nat
  BY SMTT(30) DEF Types, Full
<1>4. Content(Full(f)) \subseteq Content(Full(f)')
  BY <1>2, <1>3, ContentGrows
<1>5. Len(Full(p)) <= Len(Full(p)') /\ \A i \in 1 .. Len(Full(p)) : Full(p)[i] = Full(p)'[i]
  BY DEF Prefix
<1>6. synced[f][p] <= Len(Full(p)')
  BY <1>1, <1>2, <1>3, <1>5
<1>7. ASSUME NEW i \in 1 .. synced[f][p]
      PROVE  Full(p)'[i] \subseteq Content(Full(f)')
  <2>1. i \in 1 .. Len(Full(p))
    BY <1>1, <1>2
  <2>2. Full(p)'[i] = Full(p)[i]
    BY <2>1, <1>5
  <2> QED
    BY <2>2, <1>1, <1>4
<1> QED
  BY <1>6, <1>7

\* A case that is kept: the queue and the knowledge of f grow by the same.
LEMMA SaveKept ==
  ASSUME Types, Stored, NEW f \in Fuzzers, NEW c \in Cases, Up(f),
         queue' = [queue EXCEPT ![f] = Append(@, c)],
         covered' = [covered EXCEPT ![f] = @ \cup c],
         old' = old, pc' = pc
  PROVE  /\ queue' \in [Fuzzers -> Seq(Cases)]
         /\ covered' \in [Fuzzers -> SUBSET Edges]
         /\ Stored'
         /\ \A p \in Fuzzers : Prefix(queue[p], queue'[p]) /\ Prefix(Full(p), Full(p)')
         /\ c \subseteq Content(queue'[f])
<1>1. queue[f] \in Seq(Cases) /\ covered[f] \subseteq Edges /\ c \subseteq Edges
  BY DEF Types, Edges
<1>2. old[f] = <<>> /\ covered[f] = Content(queue[f])
  BY DEF Stored
<1>3. /\ queue'[f] = Append(queue[f], c) /\ covered'[f] = covered[f] \cup c
      /\ \A p \in Fuzzers : p # f => queue'[p] = queue[p] /\ covered'[p] = covered[p]
  BY DEF Types
<1>4. /\ queue'[f] \in Seq(Cases) /\ Prefix(queue[f], queue'[f]) /\ queue'[f] # <<>>
      /\ Content(queue'[f]) = Content(queue[f]) \cup c
  BY <1>1, <1>3, ContentAppend
<1>5. Full(f)' = queue'[f] /\ Full(f) = queue[f]
  BY <1>2 DEF Full
<1>6. \A p \in Fuzzers : p # f => Full(p)' = Full(p)
  BY <1>3 DEF Full
<1>7. \A p \in Fuzzers : Prefix(queue[p], queue'[p]) /\ Prefix(Full(p), Full(p)')
  <2> SUFFICES ASSUME NEW p \in Fuzzers
               PROVE  Prefix(queue[p], queue'[p]) /\ Prefix(Full(p), Full(p)')
    OBVIOUS
  <2>1. CASE p = f
    BY <2>1, <1>4, <1>5
  <2>2. CASE p # f
    <3>1. queue'[p] = queue[p] /\ Full(p)' = Full(p)
      BY <2>2, <1>3, <1>6
    <3>2. queue[p] \in Seq(Cases) /\ Full(p) \in Seq(Cases)
      BY FullTyped DEF Types
    <3> QED
      BY <3>1, <3>2, PrefixRefl
  <2> QED
    BY <2>1, <2>2
<1>8. queue' \in [Fuzzers -> Seq(Cases)]
  BY <1>4 DEF Types
<1>9. covered' \in [Fuzzers -> SUBSET Edges]
  BY <1>1 DEF Types
<1>10. Stored'
  <2> SUFFICES ASSUME NEW p \in Fuzzers
               PROVE  /\ Full(p)' # <<>>
                      /\ Prefix(queue'[p], Full(p)')
                      /\ Up(p)' => old'[p] = <<>> /\ covered'[p] = Content(queue'[p])
                      /\ pc'[p] = "pivot" => old'[p] # <<>>
    BY DEF Stored, Full, Up, Content, Prefix
  <2>1. CASE p = f
    <3>1. Prefix(queue'[f], queue'[f])
      BY <1>4, PrefixRefl
    <3>2. pc'[f] # "pivot"
      BY DEF Up
    <3> QED
      BY <2>1, <3>1, <3>2, <1>2, <1>3, <1>4, <1>5
  <2>2. CASE p # f
    <3>1. queue'[p] = queue[p] /\ Full(p)' = Full(p) /\ covered'[p] = covered[p] /\ (Up(p)' <=> Up(p))
      BY <2>2, <1>3, <1>6 DEF Up
    <3> QED
      BY <3>1 DEF Stored
  <2> QED
    BY <2>1, <2>2
<1> QED
  BY <1>4, <1>7, <1>8, <1>9, <1>10

-----------------------------------------------------------------------------
(* One lemma per action. *)

LEMMA BeginSyncInv ==
  ASSUME Inv, Races = {}, NEW f \in Fuzzers, BeginSync(f)
  PROVE  Inv'
<1> USE DEF Inv
<1>1. Types'
  BY DEF Types, BeginSync, disk
<1>a. \A p \in Fuzzers : /\ queue'[p] = queue[p] /\ Prefix(queue[p], queue'[p])
                         /\ Prefix(Full(p), Full(p)')
  <2> SUFFICES ASSUME NEW p \in Fuzzers
               PROVE  queue'[p] = queue[p] /\ Prefix(queue[p], queue'[p]) /\ Prefix(Full(p), Full(p)')
    OBVIOUS
  <2>1. queue'[p] = queue[p] /\ Full(p)' = Full(p)
    BY DEF BeginSync, disk, Full
  <2>2. queue[p] \in Seq(Cases) /\ Full(p) \in Seq(Cases)
    BY FullTyped DEF Types
  <2> QED
    BY <2>1, <2>2, PrefixRefl
<1>2. Stored'
  <2> SUFFICES ASSUME NEW p \in Fuzzers
               PROVE  /\ Full(p)' # <<>>
                      /\ Prefix(queue'[p], Full(p)')
                      /\ Up(p)' => old'[p] = <<>> /\ covered'[p] = Content(queue'[p])
                      /\ pc'[p] = "pivot" => old'[p] # <<>>
    BY DEF Stored, Full, Up, Content, Prefix
  <2>1. queue' = queue /\ Full(p)' = Full(p) /\ old' = old
    BY DEF BeginSync, disk, Full
  <2>2. (Up(p)' => Up(p) /\ covered'[p] = covered[p]) /\ (pc'[p] = "pivot" => pc[p] = "pivot")
    BY DEF Types, Up, BeginSync
  <2> QED
    BY <2>1, <2>2 DEF Stored
<1>3. Visits'
  <2> SUFFICES ASSUME NEW g \in Fuzzers
               PROVE  VisitOK(g)'
    BY DEF Visits, VisitOK, Content
  <2>1. /\ pc'[g] = "scan" => pc[g] = "scan" /\ scan'[g] = scan[g]
        /\ synced'[g] = synced[g] /\ starts' = starts
    BY DEF Types, BeginSync, disk
  <2>2. VisitOK(g) /\ scan[g].peer \in Fuzzers
    BY DEF Visits, Types, Visit
  <2> QED
    BY <2>1, <2>2, <1>1, <1>a, VisitKept
<1>4. Counted'
  BY <1>1, <1>a, CountedKept DEF BeginSync, disk
<1> QED
  BY <1>1, <1>2, <1>3, <1>4 DEF Inv

LEMMA EndSyncInv ==
  ASSUME Inv, Races = {}, NEW f \in Fuzzers, EndSync(f)
  PROVE  Inv'
<1> USE DEF Inv
<1>1. Types'
  BY DEF Types, EndSync, disk
<1>a. \A p \in Fuzzers : /\ queue'[p] = queue[p] /\ Prefix(queue[p], queue'[p])
                         /\ Prefix(Full(p), Full(p)')
  <2> SUFFICES ASSUME NEW p \in Fuzzers
               PROVE  queue'[p] = queue[p] /\ Prefix(queue[p], queue'[p]) /\ Prefix(Full(p), Full(p)')
    OBVIOUS
  <2>1. queue'[p] = queue[p] /\ Full(p)' = Full(p)
    BY DEF EndSync, disk, Full
  <2>2. queue[p] \in Seq(Cases) /\ Full(p) \in Seq(Cases)
    BY FullTyped DEF Types
  <2> QED
    BY <2>1, <2>2, PrefixRefl
<1>2. Stored'
  <2> SUFFICES ASSUME NEW p \in Fuzzers
               PROVE  /\ Full(p)' # <<>>
                      /\ Prefix(queue'[p], Full(p)')
                      /\ Up(p)' => old'[p] = <<>> /\ covered'[p] = Content(queue'[p])
                      /\ pc'[p] = "pivot" => old'[p] # <<>>
    BY DEF Stored, Full, Up, Content, Prefix
  <2>1. queue' = queue /\ Full(p)' = Full(p) /\ old' = old
    BY DEF EndSync, disk, Full
  <2>2. (Up(p)' => Up(p) /\ covered'[p] = covered[p]) /\ (pc'[p] = "pivot" => pc[p] = "pivot")
    BY DEF Types, Up, EndSync
  <2> QED
    BY <2>1, <2>2 DEF Stored
<1>3. Visits'
  <2> SUFFICES ASSUME NEW g \in Fuzzers
               PROVE  VisitOK(g)'
    BY DEF Visits, VisitOK, Content
  <2>1. /\ pc'[g] = "scan" => pc[g] = "scan" /\ scan'[g] = scan[g]
        /\ synced'[g] = synced[g] /\ starts' = starts
    BY DEF Types, EndSync, disk
  <2>2. VisitOK(g) /\ scan[g].peer \in Fuzzers
    BY DEF Visits, Types, Visit
  <2> QED
    BY <2>1, <2>2, <1>1, <1>a, VisitKept
<1>4. Counted'
  BY <1>1, <1>a, CountedKept DEF EndSync, disk
<1> QED
  BY <1>1, <1>2, <1>3, <1>4 DEF Inv

LEMMA StopsInv ==
  ASSUME Inv, Races = {}, NEW f \in Fuzzers, Stops(f)
  PROVE  Inv'
<1> USE DEF Inv
<1>0. NoScan \in Visit
  BY DEF NoScan, Visit
<1>1. Types'
  BY <1>0 DEF Types, Stops, Exit, disk
<1>a. \A p \in Fuzzers : /\ queue'[p] = queue[p] /\ Prefix(queue[p], queue'[p])
                         /\ Prefix(Full(p), Full(p)')
  <2> SUFFICES ASSUME NEW p \in Fuzzers
               PROVE  queue'[p] = queue[p] /\ Prefix(queue[p], queue'[p]) /\ Prefix(Full(p), Full(p)')
    OBVIOUS
  <2>1. queue'[p] = queue[p] /\ Full(p)' = Full(p)
    BY DEF Stops, Exit, disk, Full
  <2>2. queue[p] \in Seq(Cases) /\ Full(p) \in Seq(Cases)
    BY FullTyped DEF Types
  <2> QED
    BY <2>1, <2>2, PrefixRefl
<1>2. Stored'
  <2> SUFFICES ASSUME NEW p \in Fuzzers
               PROVE  /\ Full(p)' # <<>>
                      /\ Prefix(queue'[p], Full(p)')
                      /\ Up(p)' => old'[p] = <<>> /\ covered'[p] = Content(queue'[p])
                      /\ pc'[p] = "pivot" => old'[p] # <<>>
    BY DEF Stored, Full, Up, Content, Prefix
  <2>1. queue' = queue /\ Full(p)' = Full(p) /\ old' = old
    BY DEF Stops, Exit, disk, Full
  <2>2. (Up(p)' => Up(p) /\ covered'[p] = covered[p]) /\ (pc'[p] = "pivot" => pc[p] = "pivot")
    BY DEF Types, Up, Stops, Exit
  <2> QED
    BY <2>1, <2>2 DEF Stored
<1>3. Visits'
  <2> SUFFICES ASSUME NEW g \in Fuzzers
               PROVE  VisitOK(g)'
    BY DEF Visits, VisitOK, Content
  <2>1. /\ pc'[g] = "scan" => pc[g] = "scan" /\ scan'[g] = scan[g]
        /\ synced'[g] = synced[g] /\ starts' = starts
    BY DEF Types, Stops, Exit, disk
  <2>2. VisitOK(g) /\ scan[g].peer \in Fuzzers
    BY DEF Visits, Types, Visit
  <2> QED
    BY <2>1, <2>2, <1>1, <1>a, VisitKept
<1>4. Counted'
  BY <1>1, <1>a, CountedKept DEF Stops, Exit, disk
<1> QED
  BY <1>1, <1>2, <1>3, <1>4 DEF Inv

LEMMA OpenQueueInv ==
  ASSUME Inv, Races = {}, NEW f \in Fuzzers, OpenQueue(f)
  PROVE  Inv'
<1> USE DEF Inv
<1> PICK r \in parties[f] :
       /\ parties' = [parties EXCEPT ![f] = @ \ {r}]
       /\ scan' = [scan EXCEPT ![f] = [peer |-> r, session |-> starts[r], size |-> Len(queue[r]),
                                       seen |-> {}, next |-> synced[f][r]]]
  BY DEF OpenQueue
<1> DEFINE v == [peer |-> r, session |-> starts[r], size |-> Len(queue[r]), seen |-> {}, next |-> synced[f][r]]
<1>0. r \in Fuzzers /\ v \in Visit /\ Len(queue[r]) \in Nat
  BY DEF Types, Visit
<1>1. Types'
  BY <1>0 DEF Types, OpenQueue, disk
<1>a. \A p \in Fuzzers : /\ queue'[p] = queue[p] /\ Prefix(queue[p], queue'[p])
                         /\ Prefix(Full(p), Full(p)')
  <2> SUFFICES ASSUME NEW p \in Fuzzers
               PROVE  queue'[p] = queue[p] /\ Prefix(queue[p], queue'[p]) /\ Prefix(Full(p), Full(p)')
    OBVIOUS
  <2>1. queue'[p] = queue[p] /\ Full(p)' = Full(p)
    BY DEF OpenQueue, disk, Full
  <2>2. queue[p] \in Seq(Cases) /\ Full(p) \in Seq(Cases)
    BY FullTyped DEF Types
  <2> QED
    BY <2>1, <2>2, PrefixRefl
<1>2. Stored'
  <2> SUFFICES ASSUME NEW p \in Fuzzers
               PROVE  /\ Full(p)' # <<>>
                      /\ Prefix(queue'[p], Full(p)')
                      /\ Up(p)' => old'[p] = <<>> /\ covered'[p] = Content(queue'[p])
                      /\ pc'[p] = "pivot" => old'[p] # <<>>
    BY DEF Stored, Full, Up, Content, Prefix
  <2>1. queue' = queue /\ Full(p)' = Full(p) /\ old' = old
    BY DEF OpenQueue, disk, Full
  <2>2. (Up(p)' => Up(p) /\ covered'[p] = covered[p]) /\ (pc'[p] = "pivot" => pc[p] = "pivot")
    BY DEF Types, Up, OpenQueue
  <2> QED
    BY <2>1, <2>2 DEF Stored
<1>3. Visits'
  <2> SUFFICES ASSUME NEW g \in Fuzzers
               PROVE  VisitOK(g)'
    BY DEF Visits, VisitOK, Content
  <2>1. CASE g = f
    <3>1. scan'[f] = v
      BY DEF Types
    <3>2. queue' = queue /\ starts' = starts /\ synced' = synced
      BY DEF OpenQueue, disk
    <3>3. v.next <= Larger(v.size, synced[f][r])
      BY <1>0 DEF Types, Larger
    <3> HIDE DEF v
    <3>4. v.peer = r /\ v.session = starts[r] /\ v.size = Len(queue[r]) /\ v.seen = {}
      BY DEF v
    <3>5. Len(queue[r]) <= Len(queue[r])
      BY <1>0
    <3> QED
      BY <2>1, <3>1, <3>2, <3>3, <3>4, <3>5 DEF VisitOK
  <2>2. CASE g # f
    <3>1. /\ pc'[g] = "scan" => pc[g] = "scan" /\ scan'[g] = scan[g]
          /\ synced'[g] = synced[g] /\ starts' = starts
      BY <2>2 DEF Types, OpenQueue, disk
    <3>2. VisitOK(g) /\ scan[g].peer \in Fuzzers
      BY DEF Visits, Types, Visit
    <3> QED
      BY <3>1, <3>2, <1>1, <1>a, VisitKept
  <2> QED
    BY <2>1, <2>2
<1>4. Counted'
  BY <1>1, <1>a, CountedKept DEF OpenQueue, disk
<1> QED
  BY <1>1, <1>2, <1>3, <1>4 DEF Inv

LEMMA CloseQueueInv ==
  ASSUME Inv, Races = {}, NEW f \in Fuzzers, CloseQueue(f)
  PROVE  Inv'
<1> USE DEF Inv
<1>0. NoScan \in Visit /\ scan[f] \in Visit /\ scan[f].peer \in Fuzzers /\ scan[f].next \in Nat
  BY DEF Types, NoScan, Visit
<1>1. Types'
  BY <1>0 DEF Types, CloseQueue
<1>a. \A p \in Fuzzers : /\ queue'[p] = queue[p] /\ Prefix(queue[p], queue'[p])
                         /\ Prefix(Full(p), Full(p)')
  <2> SUFFICES ASSUME NEW p \in Fuzzers
               PROVE  queue'[p] = queue[p] /\ Prefix(queue[p], queue'[p]) /\ Prefix(Full(p), Full(p)')
    OBVIOUS
  <2>1. queue'[p] = queue[p] /\ Full(p)' = Full(p)
    BY DEF CloseQueue, disk, Full
  <2>2. queue[p] \in Seq(Cases) /\ Full(p) \in Seq(Cases)
    BY FullTyped DEF Types
  <2> QED
    BY <2>1, <2>2, PrefixRefl
<1>2. Stored'
  <2> SUFFICES ASSUME NEW p \in Fuzzers
               PROVE  /\ Full(p)' # <<>>
                      /\ Prefix(queue'[p], Full(p)')
                      /\ Up(p)' => old'[p] = <<>> /\ covered'[p] = Content(queue'[p])
                      /\ pc'[p] = "pivot" => old'[p] # <<>>
    BY DEF Stored, Full, Up, Content, Prefix
  <2>1. queue' = queue /\ Full(p)' = Full(p) /\ old' = old
    BY DEF CloseQueue, disk, Full
  <2>2. (Up(p)' => Up(p) /\ covered'[p] = covered[p]) /\ (pc'[p] = "pivot" => pc[p] = "pivot")
    BY DEF Types, Up, CloseQueue
  <2> QED
    BY <2>1, <2>2 DEF Stored
<1>3. Visits'
  <2> SUFFICES ASSUME NEW g \in Fuzzers
               PROVE  VisitOK(g)'
    BY DEF Visits, VisitOK, Content
  <2>1. CASE g = f
    <3>1. pc'[f] = "sync"
      BY DEF Types, CloseQueue
    <3> QED
      BY <2>1, <3>1 DEF VisitOK
  <2>2. CASE g # f
    <3>1. /\ pc'[g] = "scan" => pc[g] = "scan" /\ scan'[g] = scan[g]
          /\ synced'[g] = synced[g] /\ starts' = starts
      BY <2>2 DEF Types, CloseQueue
    <3>2. VisitOK(g) /\ scan[g].peer \in Fuzzers
      BY DEF Visits, Types, Visit
    <3> QED
      BY <3>1, <3>2, <1>1, <1>a, VisitKept
  <2> QED
    BY <2>1, <2>2
<1>4. Counted'
  <2> DEFINE v == scan[f]
             q == v.peer
  <2>1. /\ pc[f] = "scan" /\ q \in Fuzzers /\ v.size \in Nat /\ v.next \in Nat
        /\ queue[q] \in Seq(Cases) /\ Len(queue[q]) \in Nat
        /\ synced[f][q] \in Nat
    BY DEF Types, Visit, CloseQueue
  <2>2. /\ v.session = starts[q]
        /\ v.size <= Len(queue[q])
        /\ v.next <= Larger(v.size, synced[f][q])
        /\ \A n \in v.seen : n < v.size /\ queue[q][n + 1] \subseteq Content(queue[f])
    BY <2>1 DEF Visits, VisitOK
  <2>3. \A n \in synced[f][q] .. v.size - 1 : n \in v.seen
    BY <2>1, <2>2 DEF CloseQueue, Due, MinAccept, SameQueue
  <2>4. /\ Prefix(queue[q], Full(q)) /\ Full(q) \in Seq(Cases) /\ Len(Full(q)) \in Nat
        /\ Full(f) = queue[f]
    BY <2>1, FullTyped DEF Stored, Up, Full
  <2>5. /\ synced[f][q] <= Len(Full(q))
        /\ \A i \in 1 .. synced[f][q] : Full(q)[i] \subseteq Content(queue[f])
    BY <2>1, <2>4 DEF Counted
  <2>6. v.next <= Len(Full(q))
    BY <2>1, <2>2, <2>4, <2>5 DEF Prefix, Larger
  <2>7. ASSUME NEW i \in 1 .. v.next
        PROVE  Full(q)[i] \subseteq Content(queue[f])
    <3>1. CASE i <= synced[f][q]
      BY <2>1, <2>5, <3>1
    <3>2. CASE ~(i <= synced[f][q])
      <4>1. i - 1 \in synced[f][q] .. v.size - 1 /\ i \in 1 .. Len(queue[q])
        BY <2>1, <2>2, <3>2 DEF Larger
      <4>2. queue[q][(i - 1) + 1] \subseteq Content(queue[f])
        BY <4>1, <2>2, <2>3
      <4>3. (i - 1) + 1 = i
        BY <2>1
      <4>4. Full(q)[i] = queue[q][i]
        BY <4>1, <2>4 DEF Prefix
      <4> QED
        BY <4>2, <4>3, <4>4
    <3> QED
      BY <3>1, <3>2
  <2> SUFFICES ASSUME NEW g \in Fuzzers, NEW p \in Fuzzers
               PROVE  /\ synced'[g][p] <= Len(Full(p)')
                      /\ \A i \in 1 .. synced'[g][p] : Full(p)'[i] \subseteq Content(Full(g)')
    BY DEF Counted, Content, Full
  <2>8. Full(p)' = Full(p) /\ Full(g)' = Full(g)
    BY DEF CloseQueue, Full
  <2>9. CASE g = f /\ p = q
    <3>1. synced'[g][p] = v.next
      BY <2>9, <2>1 DEF CloseQueue, Types
    <3> QED
      BY <2>9, <3>1, <2>4, <2>6, <2>7, <2>8
  <2>10. CASE ~(g = f /\ p = q)
    <3>1. synced'[g][p] = synced[g][p]
      BY <2>10, <2>1 DEF CloseQueue, Types
    <3> QED
      BY <3>1, <2>8 DEF Counted
  <2> QED
    BY <2>9, <2>10
<1> QED
  BY <1>1, <1>2, <1>3, <1>4 DEF Inv

LEMMA FindInv ==
  ASSUME Inv, Races = {}, NEW f \in Fuzzers, Find(f)
  PROVE  Inv'
<1> USE DEF Inv
<1>0. PICK c \in Cases : Save(f, c, "fuzz")
  BY DEF Find
<1>b. /\ queue' = [queue EXCEPT ![f] = Append(@, c)]
      /\ covered' = [covered EXCEPT ![f] = @ \cup c]
      /\ old' = old /\ pc' = pc /\ synced' = synced /\ starts' = starts
      /\ parties' = parties /\ scan' = scan
  BY <1>0 DEF Save, Find
<1>c. Up(f)
  BY DEF Find, Up
<1>a. /\ queue' \in [Fuzzers -> Seq(Cases)]
      /\ covered' \in [Fuzzers -> SUBSET Edges]
      /\ Stored'
      /\ \A p \in Fuzzers : Prefix(queue[p], queue'[p]) /\ Prefix(Full(p), Full(p)')
  BY <1>b, <1>c, SaveKept
<1>1. Types'
  BY <1>a, <1>b DEF Types
<1>2. Stored'
  BY <1>a
<1>3. Visits'
  <2> SUFFICES ASSUME NEW g \in Fuzzers
               PROVE  VisitOK(g)'
    BY DEF Visits, VisitOK, Content
  <2>1. /\ pc'[g] = "scan" => pc[g] = "scan" /\ scan'[g] = scan[g]
        /\ synced'[g] = synced[g] /\ starts' = starts
    BY <1>b
  <2>2. VisitOK(g) /\ scan[g].peer \in Fuzzers
    BY DEF Visits, Types, Visit
  <2> QED
    BY <2>1, <2>2, <1>1, <1>a, VisitKept
<1>4. Counted'
  BY <1>1, <1>a, <1>b, CountedKept
<1> QED
  BY <1>1, <1>2, <1>3, <1>4 DEF Inv

LEMMA LookInv ==
  ASSUME Inv, Races = {}, NEW f \in Fuzzers, Look(f)
  PROVE  Inv'
<1> USE DEF Inv
<1> DEFINE v == scan[f]
           q == queue[v.peer]
<1>0. /\ pc[f] = "scan" /\ v \in Visit /\ v.peer \in Fuzzers /\ v.size \in Nat /\ v.next \in Nat
      /\ v.seen \subseteq Nat /\ q \in Seq(Cases) /\ Len(q) \in Nat /\ synced[f][v.peer] \in Nat
  BY DEF Look, Types, Visit
<1>b. /\ v.session = starts[v.peer]
      /\ v.size <= Len(q)
      /\ v.next <= Larger(v.size, synced[f][v.peer])
      /\ \A n \in v.seen : n < v.size /\ q[n + 1] \subseteq Content(queue[f])
  BY <1>0 DEF Visits, VisitOK
<1>c. Added(f) = {}
  BY DEF Added
<1>d. PICK n \in Due(f) :
        /\ scan' = [scan EXCEPT ![f].seen = @ \cup {n}, ![f].next = Larger(@, n + 1)]
        /\ LET c == IF n < Len(q) THEN q[n + 1] ELSE {}
           IN  IF c # {} /\ Interesting(f, c)
                 THEN Save(f, c, "scan")
                 ELSE UNCHANGED <<queue, covered, file, pc, back>>
  BY <1>c DEF Look
<1>e. n \in Nat /\ n < v.size /\ n < Len(q) /\ n + 1 \in 1 .. Len(q)
  BY <1>0, <1>b DEF Due, MinAccept
<1> DEFINE c == q[n + 1]
<1>f. c \in Cases /\ c # {}
  <2> HIDE DEF q
  <2> QED
    BY <1>0, <1>e, ContentIn, CasesAssumption
<1>g. old' = old /\ synced' = synced /\ starts' = starts /\ parties' = parties
  BY DEF Look
<1>h. Up(f)
  BY <1>0 DEF Up
<1>a. /\ queue' \in [Fuzzers -> Seq(Cases)]
      /\ covered' \in [Fuzzers -> SUBSET Edges]
      /\ Stored'
      /\ \A p \in Fuzzers : Prefix(queue[p], queue'[p]) /\ Prefix(Full(p), Full(p)')
      /\ c \subseteq Content(queue'[f])
      /\ pc' = pc
  <2>1. CASE Interesting(f, c)
    <3>1. Save(f, c, "scan")
      BY <2>1, <1>d, <1>e, <1>f
    <3>2. /\ queue' = [queue EXCEPT ![f] = Append(@, c)]
          /\ covered' = [covered EXCEPT ![f] = @ \cup c]
          /\ pc' = pc
      BY <3>1 DEF Save
    <3> HIDE DEF c
    <3> QED
      BY <3>2, <1>f, <1>g, <1>h, SaveKept
  <2>2. CASE ~Interesting(f, c)
    <3>1. queue' = queue /\ covered' = covered /\ pc' = pc
      BY <2>2, <1>d, <1>e
    <3>2. c \subseteq Content(queue[f])
      BY <2>2, <1>h DEF Interesting, Stored
    <3>3. \A p \in Fuzzers : Full(p)' = Full(p)
      BY <3>1, <1>g DEF Full
    <3>4. \A p \in Fuzzers : Prefix(queue[p], queue'[p]) /\ Prefix(Full(p), Full(p)')
      BY <3>1, <3>3, FullTyped, PrefixRefl DEF Types
    <3>5. Stored'
      BY <3>1, <3>3, <1>g DEF Stored, Up
    <3> QED
      BY <3>1, <3>2, <3>4, <3>5 DEF Types
  <2> QED
    BY <2>1, <2>2
<1> DEFINE m == Larger(v.next, n + 1)
           w == [v EXCEPT !.seen = @ \cup {n}, !.next = m]
<1>i. /\ scan'[f] = w
      /\ \A g \in Fuzzers : g # f => scan'[g] = scan[g]
  BY <1>d DEF Types
<1>j. /\ w.peer = v.peer /\ w.session = v.session /\ w.size = v.size
      /\ w.seen = v.seen \cup {n} /\ w.next = m
      /\ w \in Visit
  <2>1. m \in Nat
    BY <1>0, <1>e DEF Larger
  <2> HIDE DEF m, v
  <2> QED
    BY <2>1, <1>0, <1>e, VisitUpdate
<1>k. scan' \in [Fuzzers -> Visit]
  <2>1. scan' = [scan EXCEPT ![f] = w]
    BY <1>d DEF Types
  <2> HIDE DEF w
  <2> QED
    BY <2>1, <1>j DEF Types
<1>1. Types'
  BY <1>a, <1>g, <1>k DEF Types
<1>2. Stored'
  BY <1>a
<1>3. Visits'
  <2> SUFFICES ASSUME NEW g \in Fuzzers
               PROVE  VisitOK(g)'
    BY DEF Visits, VisitOK, Content
  <2>1. CASE g = f
    <3>1. /\ queue'[v.peer] \in Seq(Cases) /\ Len(queue'[v.peer]) \in Nat
          /\ Len(q) <= Len(queue'[v.peer])
          /\ \A i \in 1 .. Len(q) : queue'[v.peer][i] = q[i]
      <4>1. queue'[v.peer] \in Seq(Cases) /\ Prefix(q, queue'[v.peer])
        BY <1>0, <1>a
      <4> HIDE DEF q, v
      <4> QED
        BY <4>1 DEF Prefix
    <3>2. Content(queue[f]) \subseteq Content(queue'[f])
      BY <1>a, ContentGrows DEF Types
    <3>3. ASSUME NEW k \in v.seen \cup {n}
          PROVE  k < v.size /\ queue'[v.peer][k + 1] \subseteq Content(queue'[f])
      <4>1. k \in Nat /\ k < v.size /\ k + 1 \in 1 .. Len(q)
        BY <1>0, <1>b, <1>e
      <4>2. queue'[v.peer][k + 1] = q[k + 1]
        BY <4>1, <3>1
      <4>3. CASE k = n
        BY <4>1, <4>2, <4>3, <1>a
      <4>4. CASE k \in v.seen
        BY <4>1, <4>2, <4>4, <1>b, <3>2
      <4> QED
        BY <4>3, <4>4
    <3>4. Larger(v.next, n + 1) <= Larger(v.size, synced[f][v.peer])
      BY <1>0, <1>b, <1>e DEF Larger
    <3>5. v.size <= Len(queue'[v.peer])
      BY <1>0, <1>b, <3>1
    <3> QED
      BY <2>1, <3>3, <3>4, <3>5, <1>b, <1>g, <1>i, <1>j DEF VisitOK
  <2>2. CASE g # f
    <3>1. /\ pc'[g] = "scan" => pc[g] = "scan" /\ scan'[g] = scan[g]
          /\ synced'[g] = synced[g] /\ starts' = starts
      BY <2>2, <1>a, <1>g, <1>i
    <3>2. VisitOK(g) /\ scan[g].peer \in Fuzzers
      BY DEF Visits, Types, Visit
    <3> QED
      BY <3>1, <3>2, <1>1, <1>a, VisitKept
  <2> QED
    BY <2>1, <2>2
<1>4. Counted'
  BY <1>1, <1>a, <1>g, CountedKept
<1> QED
  BY <1>1, <1>2, <1>3, <1>4 DEF Inv

LEMMA ResumeSessionInv ==
  ASSUME Inv, Races = {}, NEW f \in Fuzzers, ResumeSession(f)
  PROVE  Inv'
<1> USE DEF Inv
<1>0. /\ pc[f] = "down" /\ queue[f] \in Seq(Cases) /\ old[f] \in Seq(Cases)
      /\ NonEmpty(queue[f]) = queue[f]
  BY NonEmptyWhole DEF ResumeSession, Types
<1>b. /\ old' = [old EXCEPT ![f] = Full(f)]
      /\ queue' = [queue EXCEPT ![f] = <<>>]
      /\ starts' = [starts EXCEPT ![f] = @ + 1]
      /\ pc' = [pc EXCEPT ![f] = "pivot"]
      /\ synced' = synced /\ covered' = covered /\ parties' = parties /\ scan' = scan
  BY <1>0 DEF ResumeSession, Full, Types
<1>c. Full(f) \in Seq(Cases) /\ Full(f) # <<>>
  BY FullTyped DEF Stored
<1>1. Types'
  BY <1>b, <1>c DEF Types
<1>d. \A p \in Fuzzers : Full(p)' = Full(p)
  BY <1>b, <1>c DEF Full, Types
<1>a. \A p \in Fuzzers : Prefix(Full(p), Full(p)')
  BY <1>d, FullTyped, PrefixRefl
<1>2. Stored'
  <2> SUFFICES ASSUME NEW p \in Fuzzers
               PROVE  /\ Full(p)' # <<>>
                      /\ Prefix(queue'[p], Full(p)')
                      /\ Up(p)' => old'[p] = <<>> /\ covered'[p] = Content(queue'[p])
                      /\ pc'[p] = "pivot" => old'[p] # <<>>
    BY DEF Stored, Full, Up, Content, Prefix
  <2>1. CASE p = f
    <3>1. queue'[f] = <<>> /\ old'[f] = Full(f) /\ pc'[f] = "pivot"
      BY <1>b DEF Types
    <3>2. Prefix(<<>>, Full(f))
      BY <1>c, PrefixEmpty
    <3> QED
      BY <2>1, <3>1, <3>2, <1>c, <1>d DEF Up
  <2>2. CASE p # f
    <3>1. queue'[p] = queue[p] /\ old'[p] = old[p] /\ pc'[p] = pc[p] /\ covered' = covered
      BY <1>b, <2>2 DEF Types
    <3> QED
      BY <3>1, <1>d DEF Stored, Up
  <2> QED
    BY <2>1, <2>2
<1>3. Visits'
  <2> SUFFICES ASSUME NEW g \in Fuzzers
               PROVE  VisitOK(g)'
    BY DEF Visits, VisitOK, Content
  <2>1. CASE pc[g] # "scan"
    BY <2>1, <1>b DEF VisitOK, Types
  <2>2. CASE pc[g] = "scan"
    <3> DEFINE p == scan[g].peer
    <3>1. g # f /\ p \in Fuzzers /\ VisitOK(g)
      BY <1>0, <2>2 DEF Types, Visit, Visits
    <3>2. scan[g].session = starts[p] /\ starts[p] > 0
      BY <2>2, <3>1, SMTT(30) DEF VisitOK, Types
    <3>3. p # f
      BY <2>2, <3>2 DEF ResumeSession, Scanned
    <3>4. queue'[p] = queue[p] /\ queue'[g] = queue[g] /\ starts'[p] = starts[p]
      BY <1>b, <3>1, <3>3 DEF Types
    <3>5. Prefix(queue[p], queue'[p]) /\ Prefix(queue[g], queue'[g])
      BY <3>1, <3>4, PrefixRefl DEF Types
    <3>6. scan'[g] = scan[g] /\ synced'[g] = synced[g]
      BY <1>b
    <3> QED
      BY <2>2, <3>1, <3>4, <3>5, <3>6, <1>1, VisitKept
  <2> QED
    BY <2>1, <2>2
<1>4. Counted'
  BY <1>1, <1>a, <1>b, CountedKept
<1> QED
  BY <1>1, <1>2, <1>3, <1>4 DEF Inv

LEMMA PivotInv ==
  ASSUME Inv, Races = {}, NEW f \in Fuzzers, Pivot(f)
  PROVE  Inv'
<1> USE DEF Inv
<1>0. /\ pc[f] = "pivot" /\ queue[f] \in Seq(Cases) /\ old[f] \in Seq(Cases)
      /\ old[f] # <<>> /\ Full(f) = old[f] /\ Prefix(queue[f], old[f])
  BY DEF Pivot, Types, Stored, Full
<1>b. synced' = synced /\ starts' = starts /\ parties' = parties /\ scan' = scan
  BY DEF Pivot
<1>c. CASE Len(queue[f]) < Len(old[f])
  <2> DEFINE c == old[f][Len(queue[f]) + 1]
  <2>1. /\ queue' = [queue EXCEPT ![f] = Append(@, c)]
        /\ old' = old /\ covered' = covered /\ pc' = pc
    BY <1>c DEF Pivot, Types
  <2>2. c \in Cases /\ Prefix(Append(queue[f], c), old[f])
    BY <1>0, <1>c, PrefixNext
  <2>3. Append(queue[f], c) \in Seq(Cases) /\ Prefix(queue[f], Append(queue[f], c))
    BY <1>0, <2>2, ContentAppend
  <2> HIDE DEF c
  <2>4. queue'[f] = Append(queue[f], c) /\ \A p \in Fuzzers : p # f => queue'[p] = queue[p]
    BY <2>1 DEF Types
  <2>5. Types'
    BY <2>1, <2>3, <1>b DEF Types
  <2>6. \A p \in Fuzzers : Full(p)' = Full(p)
    BY <2>1, <2>4, <1>0 DEF Full
  <2>7. \A p \in Fuzzers : Prefix(queue[p], queue'[p]) /\ Prefix(Full(p), Full(p)')
    <3> SUFFICES ASSUME NEW p \in Fuzzers
                 PROVE  Prefix(queue[p], queue'[p]) /\ Prefix(Full(p), Full(p)')
      OBVIOUS
    <3>1. Prefix(Full(p), Full(p)')
      BY <2>6, FullTyped, PrefixRefl
    <3>2. CASE p = f
      BY <2>3, <2>4, <3>1, <3>2
    <3>3. CASE p # f
      <4>1. queue'[p] = queue[p] /\ queue[p] \in Seq(Cases)
        BY <3>3, <2>4 DEF Types
      <4> QED
        BY <4>1, <3>1, PrefixRefl
    <3> QED
      BY <3>2, <3>3
  <2>8. Stored'
    <3> SUFFICES ASSUME NEW p \in Fuzzers
                 PROVE  /\ Full(p)' # <<>>
                        /\ Prefix(queue'[p], Full(p)')
                        /\ Up(p)' => old'[p] = <<>> /\ covered'[p] = Content(queue'[p])
                        /\ pc'[p] = "pivot" => old'[p] # <<>>
      BY DEF Stored, Full, Up, Content, Prefix
    <3>1. CASE p = f
      BY <3>1, <2>1, <2>2, <2>4, <2>6, <1>0 DEF Up
    <3>2. CASE p # f
      <4>1. queue'[p] = queue[p] /\ (Up(p)' <=> Up(p))
        BY <3>2, <2>1, <2>4 DEF Up
      <4> QED
        BY <4>1, <2>1, <2>6 DEF Stored
    <3> QED
      BY <3>1, <3>2
  <2>9. Visits'
    <3> SUFFICES ASSUME NEW g \in Fuzzers
                 PROVE  VisitOK(g)'
      BY DEF Visits, VisitOK, Content
    <3>1. VisitOK(g) /\ scan[g].peer \in Fuzzers
      BY DEF Visits, Types, Visit
    <3> QED
      BY <3>1, <2>1, <2>5, <2>7, <1>b, VisitKept
  <2>10. Counted'
    BY <2>5, <2>7, <1>b, CountedKept
  <2> QED
    BY <2>5, <2>8, <2>9, <2>10 DEF Inv
<1>d. CASE ~(Len(queue[f]) < Len(old[f]))
  <2>1. /\ queue' = queue
        /\ old' = [old EXCEPT ![f] = <<>>]
        /\ covered' = [covered EXCEPT ![f] = Content(queue[f])]
        /\ pc' = [pc EXCEPT ![f] = "fuzz"]
    BY <1>d DEF Pivot
  <2>2. queue[f] = old[f]
    BY <1>0, <1>d, PrefixWhole
  <2>3. Content(queue[f]) \subseteq Edges
    BY <1>0, ContentEdges
  <2>4. Types'
    <3>1. <<>> \in Seq(Cases)
      OBVIOUS
    <3> QED
      BY <2>1, <2>3, <3>1, <1>b DEF Types
  <2>5. \A p \in Fuzzers : Full(p)' = Full(p)
    BY <2>1, <2>2, <1>0 DEF Full, Types
  <2>6. \A p \in Fuzzers : Prefix(queue[p], queue'[p]) /\ Prefix(Full(p), Full(p)')
    BY <2>1, <2>5, FullTyped, PrefixRefl DEF Types
  <2>7. Stored'
    <3> SUFFICES ASSUME NEW p \in Fuzzers
                 PROVE  /\ Full(p)' # <<>>
                        /\ Prefix(queue'[p], Full(p)')
                        /\ Up(p)' => old'[p] = <<>> /\ covered'[p] = Content(queue'[p])
                        /\ pc'[p] = "pivot" => old'[p] # <<>>
      BY DEF Stored, Full, Up, Content, Prefix
    <3>1. CASE p = f
      <4>1. old'[f] = <<>> /\ covered'[f] = Content(queue'[f]) /\ pc'[f] = "fuzz"
        BY <2>1 DEF Types
      <4> QED
        BY <3>1, <4>1, <2>1, <2>5 DEF Stored
    <3>2. CASE p # f
      <4>1. old'[p] = old[p] /\ covered'[p] = covered[p] /\ pc'[p] = pc[p]
        BY <3>2, <2>1 DEF Types
      <4> QED
        BY <4>1, <2>1, <2>5 DEF Stored, Up
    <3> QED
      BY <3>1, <3>2
  <2>8. Visits'
    <3> SUFFICES ASSUME NEW g \in Fuzzers
                 PROVE  VisitOK(g)'
      BY DEF Visits, VisitOK, Content
    <3>1. VisitOK(g) /\ scan[g].peer \in Fuzzers
      BY DEF Visits, Types, Visit
    <3>2. pc'[g] = "scan" => pc[g] = "scan"
      BY <2>1 DEF Types
    <3> QED
      BY <3>1, <3>2, <2>4, <2>6, <1>b, VisitKept
  <2>9. Counted'
    BY <2>4, <2>6, <1>b, CountedKept
  <2> QED
    BY <2>4, <2>7, <2>8, <2>9 DEF Inv
<1> QED
  BY <1>c, <1>d

-----------------------------------------------------------------------------
LEMMA InitInv ==
  ASSUME Init
  PROVE  Inv
<1>0. /\ <<Seed>> \in Seq(Cases) /\ <<>> \in Seq(Cases) /\ <<Seed>> # <<>>
      /\ Seed \subseteq Edges /\ Content(<<Seed>>) = Seed
  BY CasesAssumption DEF Edges, Content
<1>1. ASSUME NEW f \in Fuzzers
      PROVE  NoScan \in Visit
  BY DEF NoScan, Visit
<1>2. Types
  BY <1>0, <1>1 DEF Types, Init
<1>3. ASSUME NEW f \in Fuzzers
      PROVE  Full(f) = <<Seed>>
  BY DEF Init, Full
<1>4. Stored
  BY <1>0, <1>3, PrefixRefl DEF Stored, Init, Up
<1>5. Visits
  BY DEF Visits, VisitOK, Init
<1>6. Counted
  BY <1>0, <1>3 DEF Counted, Init
<1> QED
  BY <1>2, <1>4, <1>5, <1>6 DEF Inv

LEMMA NextInv ==
  ASSUME Inv, Races = {}, [Next]_vars
  PROVE  Inv'
<1>1. CASE UNCHANGED vars
  <2>1. /\ queue' = queue /\ old' = old /\ synced' = synced /\ starts' = starts
        /\ pc' = pc /\ covered' = covered /\ parties' = parties /\ scan' = scan
    BY <1>1 DEF vars, disk, proc
  <2>2. Types'
    BY <2>1 DEF Inv, Types
  <2>3. Stored'
    BY <2>1 DEF Inv, Stored, Full, Up, Prefix, Content
  <2>4. Visits'
    BY <2>1 DEF Inv, Visits, VisitOK, Content
  <2>5. Counted'
    BY <2>1 DEF Inv, Counted, Full, Content
  <2> QED
    BY <2>2, <2>3, <2>4, <2>5 DEF Inv
<1>2. CASE Next
  <2> PICK f \in Fuzzers :
        \/ Find(f) \/ Trim(f) \/ Write(f)
        \/ BeginSync(f) \/ OpenQueue(f) \/ Look(f) \/ CloseQueue(f) \/ EndSync(f)
        \/ Stops(f) \/ ResumeSession(f) \/ Pivot(f) \/ NewSession(f)
    BY <1>2 DEF Next
  <2>1. ~Trim(f) /\ ~NewSession(f)
    BY DEF Trim, NewSession
  <2>2. ~Write(f)
    BY DEF Write, Inv, Types
  <2> QED
    BY <2>1, <2>2, FindInv, BeginSyncInv, OpenQueueInv, LookInv, CloseQueueInv, EndSyncInv,
       StopsInv, ResumeSessionInv, PivotInv
<1> QED
  BY <1>1, <1>2

LEMMA InvNoneSkipped ==
  ASSUME Inv
  PROVE  NoneSkipped
<1> SUFFICES ASSUME NEW f \in Fuzzers, NEW p \in Fuzzers \ {f}, pc[f] \notin {"down", "pivot"},
                    NEW i \in 1 .. Len(queue[p]), i <= synced[f][p]
             PROVE  queue[p][i] \subseteq covered[f]
  BY DEF NoneSkipped
<1>1. Full(f) = queue[f] /\ covered[f] = Content(queue[f])
  BY DEF Inv, Stored, Up, Full
<1>2. queue[p][i] = Full(p)[i]
  BY DEF Inv, Stored, Prefix
<1>3. i \in 1 .. synced[f][p]
  BY DEF Inv, Types
<1> QED
  BY <1>1, <1>2, <1>3 DEF Inv, Counted

\* NoneSkipped, for any instances, cases and numbers of sessions, when no file is
\* seen half-written, a directory is listed as it was when it was opened, nobody
\* moves a queue that is being read and nobody starts over an old directory: an
\* instance has tried every case that .synced says it has, however often it or
\* the peer was stopped or killed, in a visit or half-way through a resume.
THEOREM NothingSkipped ==
  ASSUME Races = {}
  PROVE  Spec => []NoneSkipped
<1>1. Init => Inv
  BY InitInv
<1>2. Inv /\ [Next]_vars => Inv'
  BY NextInv
<1>3. Inv => NoneSkipped
  BY InvNoneSkipped
<1> QED
  BY <1>1, <1>2, <1>3, PTL DEF Spec
-----------------------------------------------------------------------------
(* KeptIsNew, whatever overlaps. *)

Files == Cases \cup {{}}

\* Every case of s covers something that those before it do not.
Fresh(s) == \A i \in 1 .. Len(s) : s[i] # {} => ~(s[i] \subseteq UNION {s[j] : j \in 1 .. i - 1})

LEMMA FreshAppend ==
  ASSUME NEW s \in Seq(Files), NEW c \in Files, Fresh(s), ~(c \subseteq Content(s))
  PROVE  Fresh(Append(s, c)) /\ Content(Append(s, c)) = Content(s) \cup c
<1> DEFINE t == Append(s, c)
<1>1. Len(s) \in Nat /\ Len(t) = Len(s) + 1 /\ t[Len(s) + 1] = c /\ \A i \in 1 .. Len(s) : t[i] = s[i]
  OBVIOUS
<1>2. 1 .. Len(t) = 1 .. Len(s) \cup {Len(s) + 1}
  BY <1>1
<1> HIDE DEF t
<1>3. Content(t) = Content(s) \cup c
  <2>1. \A x : x \in Content(t) <=> \E i \in 1 .. Len(t) : x \in t[i]
    BY DEF Content
  <2>2. \A x : x \in Content(s) <=> \E i \in 1 .. Len(s) : x \in s[i]
    BY DEF Content
  <2>3. \A x : x \in Content(t) <=> x \in Content(s) \cup c
    BY <1>1, <1>2, <2>1, <2>2
  <2> QED  BY <2>3
<1>4. ASSUME NEW i \in 1 .. Len(t), t[i] # {}
      PROVE  ~(t[i] \subseteq UNION {t[j] : j \in 1 .. i - 1})
  <2>1. \A j \in 1 .. i - 1 : t[j] = s[j] /\ j \in 1 .. Len(s)
    BY <1>1
  <2>2. UNION {t[j] : j \in 1 .. i - 1} = UNION {s[j] : j \in 1 .. i - 1}
    BY <2>1
  <2>3. CASE i \in 1 .. Len(s)
    BY <1>1, <1>4, <2>2, <2>3 DEF Fresh
  <2>4. CASE i = Len(s) + 1
    <3>1. i - 1 = Len(s)  BY <1>1, <2>4
    <3> QED  BY <1>1, <2>2, <2>4, <3>1 DEF Content
  <2> QED  BY <1>2, <2>3, <2>4
<1> QED  BY <1>3, <1>4 DEF Fresh, t

\* Files that are lost or emptied, and files at the end that are not there yet,
\* make nothing less new.
LEMMA FreshLess ==
  ASSUME NEW s \in Seq(Files), NEW t \in Seq(Files), Fresh(s), Len(t) <= Len(s),
         \A i \in 1 .. Len(t) : t[i] \in {s[i], {}}
  PROVE  Fresh(t) /\ Content(t) \subseteq Content(s)
<1>1. Len(s) \in Nat /\ Len(t) \in Nat
  OBVIOUS
<1>2. ASSUME NEW i \in 1 .. Len(t), t[i] # {}
      PROVE  ~(t[i] \subseteq UNION {t[j] : j \in 1 .. i - 1})
  <2>1. i \in 1 .. Len(s) /\ t[i] = s[i]
    BY <1>1, <1>2
  <2>2. \A j \in 1 .. i - 1 : t[j] \subseteq s[j]
    BY <1>1
  <2>3. UNION {t[j] : j \in 1 .. i - 1} \subseteq UNION {s[j] : j \in 1 .. i - 1}
    BY <2>2
  <2> QED  BY <1>2, <2>1, <2>3 DEF Fresh
<1>3. Content(t) \subseteq Content(s)
  <2>1. \A i \in 1 .. Len(t) : i \in 1 .. Len(s) /\ t[i] \subseteq s[i]
    BY <1>1
  <2> QED  BY <2>1 DEF Content
<1> QED  BY <1>2, <1>3 DEF Fresh

\* What NonEmpty() leaves out: the k-th file it keeps is the k-th that is not
\* empty, so the order stays.
LEMMA FreshNonEmpty ==
  ASSUME NEW s \in Seq(Files), Fresh(s)
  PROVE  NonEmpty(s) \in Seq(Files) /\ Fresh(NonEmpty(s))
<1> DEFINE kept == {i \in 1 .. Len(s) : s[i] # {}}
           upTo(i) == {j \in kept : j <= i}
           rank == [i \in kept |-> Cardinality(upTo(i))]
           n == Cardinality(kept)
           at(k) == CHOOSE i \in kept : Cardinality({j \in kept : j <= i}) = k
<1>1. /\ Len(s) \in Nat /\ kept \subseteq 1 .. Len(s) /\ kept \subseteq Int
      /\ \A i \in kept : s[i] \in Files
  OBVIOUS
<1>2. NonEmpty(s) = [k \in 1 .. n |-> s[at(k)]]
  BY DEF NonEmpty
<1>3. IsFiniteSet(kept)
  <2>1. IsFiniteSet(1 .. Len(s))  BY <1>1, FS_Interval
  <2> HIDE DEF kept
  <2> QED  BY <1>1, <2>1, FS_Subset
<1>4. n \in Nat
  BY <1>3, FS_CardinalityType
<1> HIDE DEF kept
<1>5. ASSUME NEW i \in kept
      PROVE  IsFiniteSet(upTo(i)) /\ Cardinality(upTo(i)) \in 1 .. n
  <2>1. upTo(i) \subseteq kept /\ i \in upTo(i)  BY <1>1
  <2>2. IsFiniteSet(upTo(i)) /\ Cardinality(upTo(i)) <= n  BY <1>3, <2>1, FS_Subset
  <2>3. Cardinality(upTo(i)) # 0  BY <2>1, <2>2, FS_EmptySet
  <2>4. Cardinality(upTo(i)) \in Nat  BY <2>2, FS_CardinalityType
  <2> QED  BY <1>4, <2>2, <2>3, <2>4
<1>6. ASSUME NEW i \in kept, NEW j \in kept, i < j
      PROVE  Cardinality(upTo(i)) < Cardinality(upTo(j))
  <2>1. upTo(i) \subseteq upTo(j) /\ j \in upTo(j) /\ j \notin upTo(i)
    <3>1. i \in Int /\ j \in Int  BY <1>1
    <3>2. ~(j <= i) /\ j <= j  BY <3>1, <1>6
    <3>3. ASSUME NEW h \in kept, h <= i  PROVE h <= j
      <4>1. h \in Int  BY <1>1
      <4> QED  BY <1>6, <3>1, <3>3, <4>1
    <3> QED  BY <3>2, <3>3
  <2>2. Cardinality(upTo(i)) <= Cardinality(upTo(j)) /\ Cardinality(upTo(i)) # Cardinality(upTo(j))
    BY <1>5, <2>1, FS_Subset
  <2>3. Cardinality(upTo(i)) \in Nat /\ Cardinality(upTo(j)) \in Nat
    BY <1>5, FS_CardinalityType
  <2> HIDE DEF upTo
  <2> QED  BY <2>2, <2>3
<1> HIDE DEF upTo
<1>7. rank \in Surjection(kept, 1 .. n)
  <2>1. rank \in [kept -> 1 .. n]  BY <1>5
  <2>2. \A i, j \in kept : rank[i] = rank[j] => i = j
    <3>1. \A i, j \in kept : i < j \/ j < i \/ i = j  BY <1>1
    <3>2. \A i \in kept : Cardinality(upTo(i)) \in Nat  BY <1>5
    <3> QED  BY <1>6, <3>1, <3>2
  <2>3. rank \in Injection(kept, 1 .. n)  BY <2>1, <2>2 DEF Injection, IsInjective
  <2>4. IsFiniteSet(1 .. n) /\ Cardinality(1 .. n) = n  BY <1>4, FS_Interval
  <2> HIDE DEF rank
  <2> QED  BY <2>3, <2>4, FS_Injection
<1>8. ASSUME NEW k \in 1 .. n
      PROVE  at(k) \in kept /\ Cardinality(upTo(at(k))) = k
  <2>1. \E i \in kept : rank[i] = k  BY <1>7 DEF Surjection
  <2>2. \E i \in kept : Cardinality(upTo(i)) = k  BY <2>1
  <2> QED  BY <2>2 DEF upTo
<1>9. ASSUME NEW k \in 1 .. n, NEW l \in 1 .. k - 1
      PROVE  l \in 1 .. n /\ at(l) < at(k)
  <2>1. l \in 1 .. n /\ l < k  BY <1>4
  <2>2. at(l) \in kept /\ at(k) \in kept /\ Cardinality(upTo(at(l))) = l /\ Cardinality(upTo(at(k))) = k
    BY <1>8, <2>1
  <2> HIDE DEF at
  <2>3. at(l) < at(k) \/ at(k) < at(l) \/ at(k) = at(l)
    <3>1. at(l) \in Int /\ at(k) \in Int  BY <1>1, <2>2
    <3> QED  BY <3>1
  <2>4. ~(at(k) < at(l))
    <3>1. ASSUME at(k) < at(l)  PROVE k < l  BY <1>6, <2>2, <3>1
    <3> QED  BY <2>1, <3>1
  <2> QED  BY <2>1, <2>2, <2>3, <2>4
<1> DEFINE t == [k \in 1 .. n |-> s[at(k)]]
<1>10. t \in Seq(Files) /\ Len(t) = n /\ \A k \in 1 .. n : t[k] = s[at(k)]
  <2>1. \A k \in 1 .. n : s[at(k)] \in Files  BY <1>1, <1>8
  <2> HIDE DEF n, at
  <2> QED  BY <1>4, <2>1
<1>11. ASSUME NEW k \in 1 .. Len(t)
       PROVE  ~(t[k] \subseteq UNION {t[l] : l \in 1 .. k - 1})
  <2>1. k \in 1 .. n /\ at(k) \in kept /\ t[k] = s[at(k)]  BY <1>8, <1>10
  <2>2. ~(s[at(k)] \subseteq UNION {s[j] : j \in 1 .. at(k) - 1})
    BY <2>1 DEF Fresh, kept
  <2>3. ASSUME NEW l \in 1 .. k - 1
        PROVE  t[l] = s[at(l)] /\ at(l) \in 1 .. at(k) - 1
    <3>1. l \in 1 .. n /\ at(l) < at(k)  BY <1>9, <2>1
    <3>2. at(l) \in 1 .. Len(s) /\ at(k) \in 1 .. Len(s)  BY <1>1, <1>8, <2>1, <3>1
    <3> HIDE DEF t, at, n
    <3>3. at(l) \in 1 .. at(k) - 1  BY <1>1, <3>1, <3>2
    <3> QED  BY <1>10, <3>1, <3>3
  <2>4. UNION {t[l] : l \in 1 .. k - 1} \subseteq UNION {s[j] : j \in 1 .. at(k) - 1}
    <3> HIDE DEF t, at
    <3> QED  BY <2>3
  <2> QED  BY <2>1, <2>2, <2>4
<1>12. Fresh(t)
  <2> HIDE DEF t
  <2> QED  BY <1>11 DEF Fresh
<1>13. NonEmpty(s) = t  BY <1>2
<1> HIDE DEF t
<1> QED  BY <1>10, <1>12, <1>13
-----------------------------------------------------------------------------
(* The queue as it is meant to be. *)

\* The queue of f with the file it is writing.
Written(f) == IF pc[f] = "write" THEN [queue[f] EXCEPT ![file[f][1]] = file[f][2]] ELSE queue[f]

Shapes ==
  /\ queue \in [Fuzzers -> Seq(Files)] /\ old \in [Fuzzers -> Seq(Files)]
  /\ synced \in [Fuzzers -> [Fuzzers -> Nat]]
  /\ pc \in [Fuzzers -> {"fuzz", "write", "sync", "scan", "pivot", "down"}]
  /\ back \in [Fuzzers -> {"fuzz", "scan"}]
  /\ covered \in [Fuzzers -> SUBSET Edges] /\ parties \in [Fuzzers -> SUBSET Fuzzers]
  /\ file \in [Fuzzers -> Nat \X Files]
  /\ scan \in [Fuzzers -> Visit]
  /\ starts \in [Fuzzers -> Nat]

\* What there is of an instance, on disk and in memory: only one that is up
\* knows what its queue covers, a hole in the queue is the file being written or
\* was it when the instance was stopped, and a resume only copies.
Holds(f) ==
  /\ Fresh(old[f]) /\ Fresh(Written(f))
  /\ pc[f] = "write" => file[f][1] \in 1 .. Len(queue[f]) /\ queue[f][file[f][1]] = {}
  /\ pc[f] = "pivot" => Prefix(queue[f], old[f])
  /\ pc[f] \notin {"down", "pivot"} => Content(Written(f)) \subseteq covered[f]

Kept == Shapes /\ \A f \in Fuzzers : Holds(f)

LEMMA WrittenShape ==
  ASSUME Shapes, NEW f \in Fuzzers, Holds(f)
  PROVE  /\ Written(f) \in Seq(Files) /\ Len(Written(f)) = Len(queue[f])
         /\ \A i \in 1 .. Len(queue[f]) : queue[f][i] \in {Written(f)[i], {}}
         /\ Fresh(queue[f]) /\ Content(queue[f]) \subseteq Content(Written(f))
<1>1. queue[f] \in Seq(Files) /\ file[f][2] \in Files  BY DEF Shapes
<1>2. /\ Written(f) \in Seq(Files) /\ Len(Written(f)) = Len(queue[f])
      /\ \A i \in 1 .. Len(queue[f]) : queue[f][i] \in {Written(f)[i], {}}
  <2>1. CASE pc[f] # "write"
    BY <1>1, <2>1 DEF Written
  <2>2. CASE pc[f] = "write"
    <3>1. file[f][1] \in 1 .. Len(queue[f]) /\ queue[f][file[f][1]] = {}
      BY <2>2 DEF Holds
    <3> QED  BY <1>1, <2>2, <3>1, ExceptSeq DEF Written
  <2> QED  BY <2>1, <2>2
<1>3. Len(queue[f]) \in Nat  BY <1>1
<1> QED  BY <1>1, <1>2, <1>3, FreshLess DEF Holds

\* A step of g leaves the others alone.
LEMMA OthersHold ==
  ASSUME NEW f \in Fuzzers, Holds(f),
         queue'[f] = queue[f], old'[f] = old[f], pc'[f] = pc[f], file'[f] = file[f],
         covered'[f] = covered[f]
  PROVE  Holds(f)'
<1>1. Written(f)' = Written(f)  BY DEF Written
<1> QED  BY <1>1 DEF Holds, Fresh, Content, Prefix

\* What is kept is new, and is kept whole or in two steps.
LEMMA SaveHolds ==
  ASSUME Kept, NEW f \in Fuzzers, NEW c \in Files, NEW from \in {"fuzz", "scan"},
         pc[f] = from, c # {}, Interesting(f, c), Save(f, c, from), UNCHANGED old
  PROVE  /\ queue' \in [Fuzzers -> Seq(Files)] /\ covered' \in [Fuzzers -> SUBSET Edges]
         /\ file' \in [Fuzzers -> Nat \X Files]
         /\ pc' \in [Fuzzers -> {"fuzz", "write", "sync", "scan", "pivot", "down"}]
         /\ back' \in [Fuzzers -> {"fuzz", "scan"}]
         /\ \A g \in Fuzzers : Holds(g)'
<1> DEFINE q == queue[f]
<1>1. q \in Seq(Files) /\ Len(q) \in Nat /\ c \subseteq Edges /\ {} \in Files
  <2>1. q \in Seq(Files)  BY DEF Kept, Shapes
  <2>2. c \subseteq Edges  BY DEF Files, Edges
  <2> QED  BY <2>1, <2>2 DEF Files
<1>2. Written(f) = q /\ Holds(f) /\ Shapes
  BY DEF Written, Kept
<1>3. Fresh(q) /\ Fresh(old[f]) /\ Content(q) \subseteq covered[f] /\ ~(c \subseteq Content(q))
  BY <1>2 DEF Holds, Interesting
<1>4. Append(q, c) \in Seq(Files) /\ Fresh(Append(q, c)) /\ Content(Append(q, c)) = Content(q) \cup c
  BY <1>1, <1>3, FreshAppend
<1>5. covered' \in [Fuzzers -> SUBSET Edges] /\ covered'[f] = covered[f] \cup c
      /\ \A g \in Fuzzers : g # f => covered'[g] = covered[g]
  BY <1>1, <1>2 DEF Save, Shapes
<1>6. Content(Append(q, c)) \subseteq covered'[f]
  BY <1>3, <1>4, <1>5
<1>7. /\ queue' \in [Fuzzers -> Seq(Files)] /\ file' \in [Fuzzers -> Nat \X Files]
      /\ pc' \in [Fuzzers -> {"fuzz", "write", "sync", "scan", "pivot", "down"}]
      /\ back' \in [Fuzzers -> {"fuzz", "scan"}]
      /\ \A g \in Fuzzers : g # f => queue'[g] = queue[g] /\ file'[g] = file[g] /\ pc'[g] = pc[g]
      /\ Written(f)' = Append(q, c) /\ pc'[f] \in {"write", from}
      /\ pc'[f] = "write" => file'[f][1] \in 1 .. Len(queue'[f]) /\ queue'[f][file'[f][1]] = {}
  <2>1. CASE "save" \in Races
    <3> DEFINE r == Append(q, {})
               n == Len(q) + 1
    <3>1. /\ r \in Seq(Files) /\ Len(r) = n /\ r[n] = {} /\ n \in 1 .. n /\ n \in Nat
          /\ \A i \in 1 .. Len(q) : r[i] = q[i]
      BY <1>1
    <3>2. /\ queue' = [queue EXCEPT ![f] = r] /\ file' = [file EXCEPT ![f] = <<Len(queue'[f]), c>>]
          /\ pc' = [pc EXCEPT ![f] = "write"] /\ back' = [back EXCEPT ![f] = from]
      BY <2>1 DEF Save
    <3> HIDE DEF r, n, q
    <3>3. queue'[f] = r /\ file'[f] = <<n, c>> /\ pc'[f] = "write"
      BY <1>2, <3>1, <3>2 DEF Shapes
    <3>4. [r EXCEPT ![n] = c] = Append(q, c)
      <4>1. /\ [r EXCEPT ![n] = c] \in Seq(Files) /\ Len([r EXCEPT ![n] = c]) = n
            /\ \A j \in 1 .. n : [r EXCEPT ![n] = c][j] = IF j = n THEN c ELSE r[j]
        BY <3>1, ExceptSeq
      <4>2. /\ Append(q, c) \in Seq(Files) /\ Len(Append(q, c)) = n /\ Append(q, c)[n] = c
            /\ \A i \in 1 .. Len(q) : Append(q, c)[i] = q[i]
        BY <1>1 DEF n
      <4>3. \A j \in 1 .. n : j = n \/ j \in 1 .. Len(q)
        BY <1>1 DEF n
      <4>4. \A j \in 1 .. n : [r EXCEPT ![n] = c][j] = Append(q, c)[j]
        BY <3>1, <4>1, <4>2, <4>3
      <4> QED  BY <4>1, <4>2, <4>4, SeqEqual
    <3>5. Written(f)' = [r EXCEPT ![n] = c]
      BY <3>3 DEF Written
    <3> QED  BY <1>2, <3>1, <3>2, <3>3, <3>4, <3>5 DEF Shapes
  <2>2. CASE "save" \notin Races
    <3>1. queue' = [queue EXCEPT ![f] = Append(q, c)] /\ UNCHANGED <<file, pc, back>>
      BY <2>2 DEF Save
    <3> HIDE DEF q
    <3> QED  BY <1>2, <1>4, <3>1 DEF Shapes, Written
  <2> QED  BY <2>1, <2>2
<1>8. Holds(f)'
  <2> DEFINE w == Append(q, c)
  <2>1. Fresh(Written(f))' /\ Content(Written(f))' \subseteq covered'[f]
    <3>1. Written(f)' = w /\ Fresh(w) /\ Content(w) \subseteq covered'[f]
      BY <1>4, <1>6, <1>7
    <3>2. Fresh(Written(f))' = Fresh(Written(f)') /\ Content(Written(f))' = Content(Written(f)')
      BY DEF Fresh, Content
    <3> HIDE DEF w
    <3> QED  BY <3>1, <3>2
  <2>2. Fresh(old[f])'  BY <1>3 DEF Fresh
  <2> QED  BY <1>7, <2>1, <2>2 DEF Holds
<1>9. \A g \in Fuzzers : g # f => Holds(g)'
  BY <1>5, <1>7, OthersHold DEF Kept
<1> QED  BY <1>5, <1>7, <1>8, <1>9
LEMMA FindHolds ==
  ASSUME Kept, NEW f \in Fuzzers, Find(f)
  PROVE  Kept'
<1>1. PICK c \in Cases : Interesting(f, c) /\ Save(f, c, "fuzz")  BY DEF Find
<1>2. c \in Files /\ c # {}  BY CasesAssumption DEF Files
<1>3. pc[f] = "fuzz" /\ UNCHANGED <<old, synced, starts, parties, scan>>  BY DEF Find
<1>4. /\ queue' \in [Fuzzers -> Seq(Files)] /\ covered' \in [Fuzzers -> SUBSET Edges]
      /\ file' \in [Fuzzers -> Nat \X Files]
      /\ pc' \in [Fuzzers -> {"fuzz", "write", "sync", "scan", "pivot", "down"}]
      /\ back' \in [Fuzzers -> {"fuzz", "scan"}]
      /\ \A g \in Fuzzers : Holds(g)'
  BY <1>1, <1>2, <1>3, SaveHolds
<1> QED  BY <1>3, <1>4 DEF Kept, Shapes

LEMMA LookHolds ==
  ASSUME Kept, NEW f \in Fuzzers, Look(f)
  PROVE  Kept'
<1> DEFINE v == scan[f]
           q == queue[v.peer]
           file_(n) == IF n < Len(q) THEN q[n + 1] ELSE {}
<1>1. /\ pc[f] = "scan" /\ UNCHANGED <<old, synced, starts, parties>>
      /\ v.peer \in Fuzzers /\ v.size \in Nat /\ v.next \in Nat /\ v.seen \in SUBSET Nat
      /\ synced[f][v.peer] \in Nat /\ q \in Seq(Files) /\ Len(q) \in Nat
  BY DEF Look, Kept, Shapes, Visit
<1>2. PICK n \in Due(f) \cup Added(f) :
        /\ scan' = [scan EXCEPT ![f].seen = @ \cup {n}, ![f].next = Larger(@, n + 1)]
        /\ IF file_(n) # {} /\ Interesting(f, file_(n))
             THEN Save(f, file_(n), "scan")
             ELSE UNCHANGED <<queue, covered, file, pc, back>>
  BY DEF Look
<1>3. n \in Nat  BY <1>1 DEF Due, Added, MinAccept
<1> DEFINE c == file_(n)
<1>4. c \in Files
  <2>1. {} \in Files  BY DEF Files
  <2>2. n < Len(q) => n + 1 \in 1 .. Len(q)  BY <1>1, <1>3
  <2> HIDE DEF q
  <2> QED  BY <1>1, <2>1, <2>2, ElementOfSeq
<1>5. /\ queue' \in [Fuzzers -> Seq(Files)] /\ covered' \in [Fuzzers -> SUBSET Edges]
      /\ file' \in [Fuzzers -> Nat \X Files]
      /\ pc' \in [Fuzzers -> {"fuzz", "write", "sync", "scan", "pivot", "down"}]
      /\ back' \in [Fuzzers -> {"fuzz", "scan"}]
      /\ \A g \in Fuzzers : Holds(g)'
  <2> HIDE DEF c
  <2>1. CASE c # {} /\ Interesting(f, c)
    <3>1. Save(f, c, "scan")  BY <1>2, <2>1 DEF c
    <3> QED  BY <1>1, <1>4, <2>1, <3>1, SaveHolds
  <2>2. CASE ~(c # {} /\ Interesting(f, c))
    <3>1. UNCHANGED <<queue, covered, file, pc, back>>  BY <1>2, <2>2 DEF c
    <3>2. \A g \in Fuzzers : Holds(g)'  BY <1>1, <3>1, OthersHold DEF Kept
    <3> QED  BY <3>1, <3>2 DEF Kept, Shapes
  <2> QED  BY <2>1, <2>2
<1>6. scan' \in [Fuzzers -> Visit]
  <2>1. n + 1 \in Nat /\ Larger(v.next, n + 1) \in Nat  BY <1>1, <1>3 DEF Larger
  <2>2. v \in Visit  BY DEF Kept, Shapes
  <2> DEFINE w == [v EXCEPT !.seen = @ \cup {n}, !.next = Larger(v.next, n + 1)]
  <2>3. w \in Visit  BY <1>3, <2>1, <2>2, VisitUpdate
  <2>4. scan' = [scan EXCEPT ![f] = w]  BY <1>2 DEF Kept, Shapes
  <2> HIDE DEF w, c
  <2> QED  BY <2>3, <2>4 DEF Kept, Shapes
<1> QED  BY <1>1, <1>5, <1>6 DEF Kept, Shapes

\* trim_case() has nothing in the place of the case, but will have it there again.
LEMMA TrimHolds ==
  ASSUME Kept, NEW f \in Fuzzers, Trim(f)
  PROVE  Kept'
<1> DEFINE q == queue[f]
<1>1. PICK i \in 1 .. Len(q) :
        queue' = [queue EXCEPT ![f][i] = {}] /\ file' = [file EXCEPT ![f] = <<i, q[i]>>]
  BY DEF Trim
<1>2. /\ pc[f] = "fuzz" /\ pc' = [pc EXCEPT ![f] = "write"] /\ back' = [back EXCEPT ![f] = "fuzz"]
      /\ UNCHANGED <<old, synced, starts, covered, parties, scan>>
  BY DEF Trim
<1>3. Shapes /\ Holds(f) /\ q \in Seq(Files) /\ {} \in Files /\ Len(q) \in Nat /\ i \in Nat
  BY DEF Kept, Shapes, Files
<1> DEFINE r == [q EXCEPT ![i] = {}]
<1> HIDE DEF q
<1>4. r \in Seq(Files) /\ Len(r) = Len(q) /\ \A j \in 1 .. Len(q) : r[j] = IF j = i THEN {} ELSE q[j]
  BY <1>1, <1>3, ExceptSeq
<1>5. queue' = [queue EXCEPT ![f] = r]  BY <1>1, <1>3 DEF q, Shapes
<1>6. [r EXCEPT ![i] = q[i]] = q
  <2>1. q[i] \in Files  BY <1>1, <1>3, ElementOfSeq
  <2> HIDE DEF r
  <2>2. /\ [r EXCEPT ![i] = q[i]] \in Seq(Files) /\ Len([r EXCEPT ![i] = q[i]]) = Len(q)
        /\ \A j \in 1 .. Len(q) : [r EXCEPT ![i] = q[i]][j] = IF j = i THEN q[i] ELSE r[j]
    BY <1>1, <1>4, <2>1, ExceptSeq
  <2>3. \A j \in 1 .. Len(q) : [r EXCEPT ![i] = q[i]][j] = q[j]
    BY <1>4, <2>2
  <2> QED  BY <1>3, <2>2, <2>3, SeqEqual
<1> HIDE DEF r
<1>7. queue'[f] = r /\ file'[f] = <<i, q[i]>> /\ pc'[f] = "write"
  BY <1>1, <1>2, <1>3, <1>5 DEF Shapes
<1>8. Written(f)' = q /\ Written(f) = q
  BY <1>2, <1>6, <1>7 DEF Written, q
<1>9. Holds(f)'
  <2>1. Fresh(Written(f))' = Fresh(Written(f)') /\ Content(Written(f))' = Content(Written(f)')
        /\ Fresh(old[f])' = Fresh(old'[f])
    BY DEF Fresh, Content
  <2>2. Fresh(q) /\ Content(q) \subseteq covered[f] /\ Fresh(old[f])
    BY <1>2, <1>3, <1>8 DEF Holds
  <2> QED  BY <1>1, <1>2, <1>4, <1>7, <1>8, <2>1, <2>2 DEF Holds
<1>10. \A g \in Fuzzers : g # f => Holds(g)'
  <2>1. \A g \in Fuzzers : g # f => queue'[g] = queue[g] /\ file'[g] = file[g] /\ pc'[g] = pc[g]
    BY <1>1, <1>2, <1>3, <1>5 DEF Shapes
  <2> QED  BY <1>2, <2>1, OthersHold DEF Kept
<1>11. Shapes'
  <2>1. q[i] \in Files  BY <1>1, <1>3, ElementOfSeq
  <2> QED  BY <1>1, <1>2, <1>3, <1>4, <1>5, <2>1 DEF Shapes
<1> QED  BY <1>9, <1>10, <1>11 DEF Kept

LEMMA WriteHolds ==
  ASSUME Kept, NEW f \in Fuzzers, Write(f)
  PROVE  Kept'
<1>1. Shapes /\ Holds(f) /\ pc[f] = "write" /\ Written(f) = [queue[f] EXCEPT ![file[f][1]] = file[f][2]]
  BY DEF Kept, Write, Written
<1>2. Written(f) \in Seq(Files)  BY <1>1, WrittenShape
<1>3. queue' = [queue EXCEPT ![f] = Written(f)]  BY <1>1 DEF Write, Shapes
<1>4. /\ file' = [file EXCEPT ![f] = NoFile] /\ pc' = [pc EXCEPT ![f] = back[f]]
      /\ UNCHANGED <<old, synced, starts, back, covered, parties, scan>>
  BY DEF Write
<1>5. back[f] \in {"fuzz", "scan"} /\ NoFile \in Nat \X Files
  BY <1>1 DEF Shapes, NoFile, Files
<1>6. queue'[f] = Written(f) /\ pc'[f] = back[f]  BY <1>1, <1>3, <1>4 DEF Shapes
<1>7. Written(f)' = Written(f)  BY <1>5, <1>6 DEF Written
<1>8. Holds(f)'
  <2>1. Fresh(Written(f))' = Fresh(Written(f)') /\ Content(Written(f))' = Content(Written(f)')
        /\ Fresh(old[f])' = Fresh(old'[f])
    BY DEF Fresh, Content
  <2> QED  BY <1>1, <1>4, <1>5, <1>6, <1>7, <2>1 DEF Holds
<1>9. \A g \in Fuzzers : g # f => Holds(g)'
  <2>1. \A g \in Fuzzers : g # f => queue'[g] = queue[g] /\ file'[g] = file[g] /\ pc'[g] = pc[g]
    BY <1>1, <1>3, <1>4 DEF Shapes
  <2> QED  BY <1>4, <2>1, OthersHold DEF Kept
<1>10. Shapes'
  BY <1>1, <1>2, <1>3, <1>4, <1>5 DEF Shapes
<1> QED  BY <1>8, <1>9, <1>10 DEF Kept

\* Nothing that is saved changes, and the instance stays up.
LEMMA VisitHolds ==
  ASSUME Kept, NEW f \in Fuzzers, BeginSync(f) \/ OpenQueue(f) \/ CloseQueue(f) \/ EndSync(f)
  PROVE  Kept'
<1>1. Shapes /\ Holds(f)  BY DEF Kept
<1>2. UNCHANGED <<queue, old, starts, back, covered, file>>
  BY DEF BeginSync, OpenQueue, CloseQueue, EndSync, disk
<1>3. PICK to \in {"sync", "scan", "fuzz"} : pc' = [pc EXCEPT ![f] = to]
  BY DEF BeginSync, OpenQueue, CloseQueue, EndSync
<1>4. pc[f] \in {"sync", "scan", "fuzz"}
  BY DEF BeginSync, OpenQueue, CloseQueue, EndSync
<1>5. \A g \in Fuzzers : Holds(g)'
  <2>1. pc'[f] = to /\ \A g \in Fuzzers : g # f => pc'[g] = pc[g]
    BY <1>1, <1>3 DEF Shapes
  <2>2. Written(f)' = Written(f)  BY <1>2, <1>3, <1>4, <2>1 DEF Written
  <2>3. Fresh(Written(f))' = Fresh(Written(f)') /\ Content(Written(f))' = Content(Written(f)')
        /\ Fresh(old[f])' = Fresh(old'[f])
    BY DEF Fresh, Content
  <2>4. Holds(f)'  BY <1>1, <1>2, <1>3, <1>4, <2>1, <2>2, <2>3 DEF Holds
  <2> QED  BY <1>2, <2>1, <2>4, OthersHold DEF Kept
<1>6. NoScan.peer \in Fuzzers /\ NoScan \in Visit
  <2>1. (CHOOSE p \in Fuzzers : TRUE) \in Fuzzers  OBVIOUS
  <2> QED  BY <2>1 DEF NoScan, Visit
<1>7. /\ synced' \in [Fuzzers -> [Fuzzers -> Nat]] /\ parties' \in [Fuzzers -> SUBSET Fuzzers]
      /\ scan' \in [Fuzzers -> Visit]
  <2>1. CASE EndSync(f)
    BY <1>1, <2>1 DEF EndSync, disk, Shapes
  <2>4. CASE BeginSync(f)
    BY <1>1, <2>4 DEF BeginSync, disk, Shapes
  <2>2. CASE OpenQueue(f)
    <3> DEFINE w(p) == [peer |-> p, session |-> starts[p], size |-> Len(queue[p]), seen |-> {},
                        next |-> synced[f][p]]
    <3>1. PICK p \in parties[f] :
            /\ parties' = [parties EXCEPT ![f] = @ \ {p}]
            /\ scan' = [scan EXCEPT ![f] = w(p)]
      BY <2>2 DEF OpenQueue
    <3>2. p \in Fuzzers  BY <1>1 DEF Shapes
    <3>3. w(p) \in Visit
      <4>1. starts[p] \in Nat /\ synced[f][p] \in Nat /\ queue[p] \in Seq(Files)
        BY <1>1, <3>2 DEF Shapes
      <4>2. Len(queue[p]) \in Nat  BY <4>1
      <4> QED  BY <3>2, <4>1, <4>2 DEF Visit
    <3>4. synced' = synced  BY <2>2 DEF OpenQueue, disk
    <3> HIDE DEF w
    <3> QED  BY <1>1, <3>1, <3>3, <3>4 DEF Shapes
  <2>3. CASE CloseQueue(f)
    <3>1. scan[f].next \in Nat /\ scan[f].peer \in Fuzzers  BY <1>1 DEF Shapes, Visit
    <3> QED  BY <1>1, <1>6, <2>3, <3>1 DEF CloseQueue, Shapes
  <2> QED  BY <2>1, <2>2, <2>3, <2>4
<1>8. Shapes'
  BY <1>1, <1>2, <1>3, <1>7 DEF Shapes
<1> QED  BY <1>5, <1>8 DEF Kept
\* An instance that is stopped may leave a hole where it was writing.
LEMMA StopsHolds ==
  ASSUME Kept, NEW f \in Fuzzers, Stops(f)
  PROVE  Kept'
<1>1. Shapes /\ Holds(f)  BY DEF Kept
<1>2. UNCHANGED <<queue, old, synced, starts>>  BY DEF Stops, disk
<1>3. /\ pc' = [pc EXCEPT ![f] = "down"] /\ back' = [back EXCEPT ![f] = "fuzz"]
      /\ covered' = [covered EXCEPT ![f] = {}] /\ file' = [file EXCEPT ![f] = NoFile]
      /\ parties' = [parties EXCEPT ![f] = {}] /\ scan' = [scan EXCEPT ![f] = NoScan]
  BY DEF Stops, Exit
<1>4. NoFile \in Nat \X Files  BY DEF NoFile, Files
<1>5. NoScan \in Visit
  <2>1. (CHOOSE p \in Fuzzers : TRUE) \in Fuzzers  OBVIOUS
  <2> QED  BY <2>1 DEF NoScan, Visit
<1>6. Shapes'
  BY <1>1, <1>2, <1>3, <1>4, <1>5 DEF Shapes
<1>7. Holds(f)'
  <2>1. pc'[f] = "down"  BY <1>1, <1>3 DEF Shapes
  <2>2. Written(f)' = queue[f]  BY <1>2, <2>1 DEF Written
  <2>3. Fresh(Written(f))' = Fresh(Written(f)') /\ Fresh(old[f])' = Fresh(old'[f])
    BY DEF Fresh
  <2>4. Fresh(queue[f])  BY <1>1, WrittenShape
  <2> QED  BY <1>1, <1>2, <2>1, <2>2, <2>3, <2>4 DEF Holds
<1>8. \A g \in Fuzzers : g # f => Holds(g)'
  <2>1. \A g \in Fuzzers : g # f => pc'[g] = pc[g] /\ file'[g] = file[g] /\ covered'[g] = covered[g]
    BY <1>1, <1>3 DEF Shapes
  <2> QED  BY <1>2, <2>1, OthersHold DEF Kept
<1> QED  BY <1>6, <1>7, <1>8 DEF Kept

\* An empty queue, and one with a single file.
LEMMA FreshStart ==
  /\ <<>> \in Seq(Files) /\ Fresh(<<>>) /\ Content(<<>>) = {}
  /\ <<Seed>> \in Seq(Files) /\ Fresh(<<Seed>>) /\ Content(<<Seed>>) = Seed
<1>1. <<>> \in Seq(Files) /\ Fresh(<<>>) /\ Content(<<>>) = {}
  BY DEF Fresh, Content
<1>2. Seed \in Files /\ ~(Seed \subseteq {})
  BY CasesAssumption DEF Files
<1>3. <<Seed>> \in Seq(Files) /\ Len(<<Seed>>) = 1 /\ <<Seed>>[1] = Seed
  BY <1>2
<1> DEFINE s == <<Seed>>
<1> HIDE DEF s
<1>4. s \in Seq(Files) /\ 1 .. Len(s) = {1} /\ s[1] = Seed
  BY <1>3 DEF s
<1>5. Content(s) = Seed
  BY <1>4 DEF Content
<1>6. Fresh(s)
  <2>1. UNION {s[j] : j \in 1 .. 1 - 1} = {}  OBVIOUS
  <2> QED  BY <1>2, <1>4, <2>1 DEF Fresh
<1> QED  BY <1>1, <1>3, <1>5, <1>6 DEF s

LEMMA ResumeHolds ==
  ASSUME Kept, NEW f \in Fuzzers, ResumeSession(f)
  PROVE  Kept'
<1>1. Shapes /\ Holds(f) /\ pc[f] = "down"  BY DEF Kept, ResumeSession
<1> DEFINE o == IF old[f] = <<>> THEN NonEmpty(queue[f]) ELSE old[f]
<1>2. /\ starts' = [starts EXCEPT ![f] = @ + 1] /\ old' = [old EXCEPT ![f] = o]
      /\ queue' = [queue EXCEPT ![f] = <<>>] /\ pc' = [pc EXCEPT ![f] = "pivot"]
      /\ UNCHANGED <<synced, back, covered, file, parties, scan>>
  BY <1>1 DEF ResumeSession, Shapes
<1>3. o \in Seq(Files) /\ Fresh(o)
  <2>1. queue[f] \in Seq(Files) /\ old[f] \in Seq(Files) /\ Fresh(old[f])  BY <1>1 DEF Shapes, Holds
  <2>2. Fresh(queue[f])  BY <1>1, WrittenShape
  <2> QED  BY <2>1, <2>2, FreshNonEmpty
<1> HIDE DEF o
<1>4. Shapes'
  BY <1>1, <1>2, <1>3, FreshStart DEF Shapes
<1>5. Holds(f)'
  <2>1. pc'[f] = "pivot" /\ queue'[f] = <<>> /\ old'[f] = o  BY <1>1, <1>2 DEF Shapes
  <2>2. Written(f)' = <<>>  BY <2>1 DEF Written
  <2>3. Fresh(Written(f))' = Fresh(Written(f)') /\ Fresh(old[f])' = Fresh(old'[f])
        /\ Prefix(queue[f], old[f])' = Prefix(queue'[f], old'[f])
    BY DEF Fresh, Prefix
  <2>4. Prefix(<<>>, o)
    <3>1. Len(o) \in Nat  BY <1>3
    <3> QED  BY <3>1 DEF Prefix
  <2> QED  BY <1>3, <2>1, <2>2, <2>3, <2>4, FreshStart DEF Holds
<1>6. \A g \in Fuzzers : g # f => Holds(g)'
  <2>1. \A g \in Fuzzers : g # f => queue'[g] = queue[g] /\ old'[g] = old[g] /\ pc'[g] = pc[g]
    BY <1>1, <1>2 DEF Shapes
  <2> QED  BY <1>2, <2>1, OthersHold DEF Kept
<1> QED  BY <1>4, <1>5, <1>6 DEF Kept

LEMMA PivotHolds ==
  ASSUME Kept, NEW f \in Fuzzers, Pivot(f)
  PROVE  Kept'
<1> DEFINE q == queue[f]
           o == old[f]
<1>1. Shapes /\ Holds(f) /\ pc[f] = "pivot" /\ UNCHANGED <<synced, starts, back, file, parties, scan>>
  BY DEF Kept, Pivot
<1>2. q \in Seq(Files) /\ o \in Seq(Files) /\ Len(q) \in Nat /\ Len(o) \in Nat
      /\ Fresh(o) /\ Fresh(q) /\ Prefix(q, o) /\ Written(f) = q
  <2>1. q \in Seq(Files) /\ o \in Seq(Files)  BY <1>1 DEF Shapes
  <2> QED  BY <1>1, <2>1 DEF Holds, Written
<1> HIDE DEF q, o
<1>3. CASE Len(q) < Len(o)
  <2> DEFINE r == Append(q, o[Len(q) + 1])
  <2>1. queue' = [queue EXCEPT ![f] = r] /\ UNCHANGED <<old, covered, pc>>
    BY <1>3 DEF Pivot, q, o
  <2>2. /\ o[Len(q) + 1] \in Files /\ r \in Seq(Files) /\ Len(r) = Len(q) + 1
        /\ r[Len(q) + 1] = o[Len(q) + 1] /\ \A i \in 1 .. Len(q) : r[i] = q[i]
    <3>1. o[Len(q) + 1] \in Files  BY <1>2, <1>3
    <3> QED  BY <1>2, <3>1
  <2>3. Prefix(r, o)
    <3>1. \A i \in 1 .. Len(r) : i \in 1 .. Len(q) \/ i = Len(q) + 1
      BY <1>2, <2>2
    <3> HIDE DEF r
    <3> QED  BY <1>2, <1>3, <2>2, <3>1 DEF Prefix
  <2> HIDE DEF r
  <2>4. Fresh(r)
    <3>1. Len(r) <= Len(o) /\ \A i \in 1 .. Len(r) : r[i] \in {o[i], {}}  BY <2>3 DEF Prefix
    <3> QED  BY <1>2, <2>2, <3>1, FreshLess
  <2>5. queue'[f] = r /\ \A g \in Fuzzers : g # f => queue'[g] = queue[g]
    BY <1>1, <2>1 DEF Shapes
  <2>6. Holds(f)'
    <3>1. Written(f)' = r /\ old'[f] = o /\ pc'[f] = "pivot"
      BY <1>1, <2>1, <2>5 DEF Written, o
    <3>2. Fresh(Written(f))' = Fresh(Written(f)') /\ Fresh(old[f])' = Fresh(old'[f])
          /\ Prefix(queue[f], old[f])' = Prefix(queue'[f], old'[f])
      BY DEF Fresh, Prefix
    <3> QED  BY <1>2, <2>3, <2>4, <2>5, <3>1, <3>2 DEF Holds
  <2>7. \A g \in Fuzzers : g # f => Holds(g)'
    BY <1>1, <2>1, <2>5, OthersHold DEF Kept
  <2>8. Shapes'
    BY <1>1, <2>1, <2>2 DEF Shapes
  <2> QED  BY <2>6, <2>7, <2>8 DEF Kept
<1>4. CASE ~(Len(q) < Len(o))
  <2>1. /\ old' = [old EXCEPT ![f] = <<>>] /\ covered' = [covered EXCEPT ![f] = Content(q)]
        /\ pc' = [pc EXCEPT ![f] = "fuzz"] /\ UNCHANGED queue
    BY <1>4 DEF Pivot, q, o
  <2>2. Content(q) \subseteq Edges
    <3>1. \A i \in 1 .. Len(q) : q[i] \in Files  BY <1>2
    <3>2. \A c \in Files : c \subseteq Edges  BY DEF Files, Edges
    <3> QED  BY <3>1, <3>2 DEF Content
  <2>3. pc'[f] = "fuzz" /\ old'[f] = <<>> /\ covered'[f] = Content(q)
        /\ \A g \in Fuzzers : g # f => pc'[g] = pc[g] /\ old'[g] = old[g] /\ covered'[g] = covered[g]
    BY <1>1, <2>1, <2>2 DEF Shapes
  <2>4. Holds(f)'
    <3>1. Written(f)' = q  BY <2>1, <2>3 DEF Written, q
    <3>2. Fresh(Written(f))' = Fresh(Written(f)') /\ Content(Written(f))' = Content(Written(f)')
          /\ Fresh(old[f])' = Fresh(old'[f])
      BY DEF Fresh, Content
    <3> QED  BY <1>2, <2>3, <3>1, <3>2, FreshStart DEF Holds
  <2>5. \A g \in Fuzzers : g # f => Holds(g)'
    BY <1>1, <2>1, <2>3, OthersHold DEF Kept
  <2>6. Shapes'
    BY <1>1, <2>1, <2>2, FreshStart DEF Shapes
  <2> QED  BY <2>4, <2>5, <2>6 DEF Kept
<1> QED  BY <1>3, <1>4

LEMMA NewHolds ==
  ASSUME Kept, NEW f \in Fuzzers, NewSession(f)
  PROVE  Kept'
<1>1. Shapes /\ Holds(f) /\ pc[f] = "down"  BY DEF Kept, NewSession
<1>2. /\ starts' = [starts EXCEPT ![f] = @ + 1] /\ queue' = [queue EXCEPT ![f] = <<Seed>>]
      /\ synced' = [synced EXCEPT ![f] = [p \in Fuzzers |-> 0]]
      /\ covered' = [covered EXCEPT ![f] = Seed] /\ pc' = [pc EXCEPT ![f] = "fuzz"]
      /\ UNCHANGED <<old, back, file, parties, scan>>
  BY DEF NewSession
<1>3. Seed \subseteq Edges  BY CasesAssumption DEF Edges
<1>4. Shapes'
  BY <1>1, <1>2, <1>3, FreshStart DEF Shapes
<1>5. pc'[f] = "fuzz" /\ queue'[f] = <<Seed>> /\ covered'[f] = Seed
      /\ \A g \in Fuzzers : g # f => pc'[g] = pc[g] /\ queue'[g] = queue[g] /\ covered'[g] = covered[g]
  BY <1>1, <1>2, <1>3 DEF Shapes
<1>6. Holds(f)'
  <2>1. Written(f)' = <<Seed>>  BY <1>5 DEF Written
  <2>2. Fresh(Written(f))' = Fresh(Written(f)') /\ Content(Written(f))' = Content(Written(f)')
        /\ Fresh(old[f])' = Fresh(old'[f])
    BY DEF Fresh, Content
  <2> QED  BY <1>1, <1>2, <1>5, <2>1, <2>2, FreshStart DEF Holds
<1>7. \A g \in Fuzzers : g # f => Holds(g)'
  BY <1>2, <1>5, OthersHold DEF Kept
<1> QED  BY <1>4, <1>6, <1>7 DEF Kept

LEMMA KeptInit == Init => Kept
<1> SUFFICES ASSUME Init PROVE Kept  OBVIOUS
<1>1. NoFile \in Nat \X Files  BY DEF NoFile, Files
<1>2. \A f \in Fuzzers : NoScan \in Visit
  <2>1. ASSUME NEW f \in Fuzzers  PROVE (CHOOSE p \in Fuzzers : TRUE) \in Fuzzers  OBVIOUS
  <2> QED  BY <2>1 DEF NoScan, Visit
<1>3. Seed \subseteq Edges  BY CasesAssumption DEF Edges
<1>4. Shapes
  BY <1>1, <1>2, <1>3, FreshStart DEF Init, Shapes
<1>5. ASSUME NEW f \in Fuzzers  PROVE Holds(f)
  <2>1. queue[f] = <<Seed>> /\ old[f] = <<>> /\ pc[f] = "fuzz" /\ covered[f] = Seed  BY DEF Init
  <2>2. Written(f) = <<Seed>>  BY <2>1 DEF Written
  <2> QED  BY <2>1, <2>2, FreshStart DEF Holds
<1> QED  BY <1>4, <1>5 DEF Kept

LEMMA KeptNext == Kept /\ [Next]_vars => Kept'
<1> SUFFICES ASSUME Kept, [Next]_vars PROVE Kept'  OBVIOUS
<1>1. CASE UNCHANGED vars
  <2>1. UNCHANGED <<queue, old, synced, starts, pc, back, covered, file, parties, scan>>
    BY <1>1 DEF vars, disk, proc
  <2>2. Shapes'  BY <2>1 DEF Kept, Shapes
  <2>3. \A f \in Fuzzers : Holds(f)'  BY <2>1, OthersHold DEF Kept
  <2> QED  BY <2>2, <2>3 DEF Kept
<1>2. CASE Next
  BY <1>2, FindHolds, TrimHolds, WriteHolds, VisitHolds, LookHolds, StopsHolds, ResumeHolds,
     PivotHolds, NewHolds DEF Next
<1> QED  BY <1>1, <1>2

\* Whatever overlaps: files seen half-written or lost, listings with files added
\* late, queues moved away or started over while they are read, instances
\* stopped at any point and resumed any number of times, no instance ever keeps
\* a case that covers nothing its earlier ones do not.
THEOREM KeptAreNew == Spec => []KeptIsNew
<1>1. Kept => KeptIsNew
  <2> SUFFICES ASSUME Kept, NEW f \in Fuzzers  PROVE Fresh(queue[f])
    BY DEF KeptIsNew, Fresh
  <2> QED  BY WrittenShape DEF Kept
<1> QED  BY <1>1, KeptInit, KeptNext, PTL DEF Spec

-----------------------------------------------------------------------------
(* How they start. *)

CpuTypes ==
  /\ cpu_step \in [CpuJobs -> {"off", "start", "scan", "run", "bound", "refused"}]
  /\ cores_of \in [Processes -> Cores \cup {NoCore}]
  /\ alive \subseteq Processes
  /\ unread \in [CpuJobs -> SUBSET Processes]
  /\ cpu_used \in [CpuJobs -> SUBSET Cores]
  /\ throughout \in [CpuJobs -> SUBSET (Processes \X Cores)]
  /\ sometime \in [CpuJobs -> SUBSET Cores]

\* An instance that is off is bound to nothing, and has flagged nothing before it looks.
Unbound(j) ==
  /\ cpu_step[j] = "off" => cores_of[Fuzzer(j)] = NoCore
  /\ cpu_step[j] \in {"off", "start"} => cpu_used[j] = {}

\* During a scan: a process bound since it began is still to be read or is flagged,
\* and what is flagged, or in use now, was in use at some time of it.
ScanOK(j) ==
  Scanning(j) =>
    /\ throughout[j] \subseteq Bindings
    /\ \A b \in throughout[j] : b[1] \in unread[j] \/ b[2] \in cpu_used[j]
    /\ cpu_used[j] \cup InUse(Bindings) \subseteq sometime[j]

CpuInv == CpuTypes /\ (\A j \in CpuJobs : Unbound(j) /\ ScanOK(j)) /\ CoreIsFree

\* The processes are told apart.
LEMMA ProcessesDiffer ==
  \A j, k \in CpuJobs :
    /\ Fuzzer(j) \in Processes /\ Target(j) \in Processes
    /\ Fuzzer(j) # Target(k)
    /\ Fuzzer(j) = Fuzzer(k) => j = k
    /\ Target(j) = Target(k) => j = k
  BY DEF Fuzzer, Target, Processes

\* What is bound is bound to a core.
LEMMA BindingsTyped ==
  ASSUME CpuTypes
  PROVE  Bindings \subseteq Processes \X Cores /\ InUse(Bindings) \subseteq Cores
  <1>1. Bindings \subseteq Processes \X Cores
    BY DEF CpuTypes, Bindings
  <1> QED BY <1>1 DEF InUse

\* The ghosts of a scan that goes on, and of the others, after a step that calls Witnessed.
LEMMA WitnessedKeeps ==
  ASSUME CpuTypes, CpuTypes', Witnessed, NEW j \in CpuJobs, Scanning(j), Scanning(j)',
         unread'[j] = unread[j], cpu_used'[j] = cpu_used[j], ScanOK(j)
  PROVE  ScanOK(j)'
  <1>1. throughout'[j] = throughout[j] \cap Bindings' /\ sometime'[j] = sometime[j] \cup InUse(Bindings')
    BY DEF Witnessed, Scanning, CpuTypes
  <1>2. InUse(Bindings)' = InUse(Bindings')
    BY DEF InUse
  <1> QED BY <1>1, <1>2 DEF ScanOK

LEMMA CpuInitInv == CpuInit => CpuInv
  <1> SUFFICES ASSUME CpuInit PROVE CpuInv
    OBVIOUS
  <1>1. CpuTypes
    BY DEF CpuInit, CpuTypes, Processes
  <1>2. \A j \in CpuJobs : Unbound(j) /\ ScanOK(j)
    BY ProcessesDiffer DEF CpuInit, Unbound, ScanOK, Scanning
  <1>3. CoreIsFree
    BY DEF CpuInit, CoreIsFree
  <1> QED BY <1>1, <1>2, <1>3 DEF CpuInv

\* A process that starts is bound to nothing, so no scan sees it come.
LEMMA StartJobInv ==
  ASSUME CpuInv, NEW j \in CpuJobs, StartJob(j)
  PROVE  CpuInv'
  <1> USE DEF CpuInv
  <1>1. CpuTypes'
    BY ProcessesDiffer DEF StartJob, CpuTypes
  <1>2. cores_of[Fuzzer(j)] = NoCore
    BY DEF StartJob, Unbound
  <1>3. Bindings' = Bindings
    BY <1>2 DEF StartJob, Bindings
  <1>4. InUse(Bindings)' = InUse(Bindings)
    BY <1>3 DEF InUse
  <1>5. ASSUME NEW k \in CpuJobs PROVE Unbound(k)' /\ ScanOK(k)'
    BY <1>3, <1>4 DEF StartJob, CpuTypes, Unbound, ScanOK, Scanning
  <1>6. CoreIsFree'
    BY DEF StartJob, CpuTypes, CoreIsFree, InUse
  <1> QED BY <1>1, <1>5, <1>6

LEMMA OpenProcInv ==
  ASSUME CpuInv, NEW j \in CpuJobs, OpenProc(j)
  PROVE  CpuInv'
  <1> USE DEF CpuInv
  <1>1. Bindings \subseteq Processes \X Cores /\ InUse(Bindings) \subseteq Cores
    BY BindingsTyped
  <1>2. CpuTypes'
    BY <1>1 DEF OpenProc, CpuTypes
  <1>3. Bindings' = Bindings /\ InUse(Bindings)' = InUse(Bindings)
    BY DEF OpenProc, Bindings, InUse
  <1>4. \A b \in Bindings : b[1] \in alive
    BY DEF Bindings
  <1>5. ASSUME NEW k \in CpuJobs PROVE Unbound(k)' /\ ScanOK(k)'
    <2>1. CASE k = j
      BY <1>3, <1>4, <2>1 DEF OpenProc, CpuTypes, Unbound, ScanOK, Scanning
    <2>2. CASE k # j
      BY <1>3, <2>2 DEF OpenProc, CpuTypes, Unbound, ScanOK, Scanning
    <2> QED BY <2>1, <2>2
  <1>6. CoreIsFree'
    BY DEF OpenProc, CpuTypes, CoreIsFree, InUse
  <1> QED BY <1>2, <1>5, <1>6

LEMMA DoNotBindInv ==
  ASSUME CpuInv, NEW j \in CpuJobs, DoNotBind(j)
  PROVE  CpuInv'
  <1> USE DEF CpuInv
  <1>1. CpuTypes'
    BY DEF DoNotBind, CpuTypes
  <1>2. Bindings' = Bindings /\ InUse(Bindings)' = InUse(Bindings)
    BY DEF DoNotBind, Bindings, InUse
  <1>3. ASSUME NEW k \in CpuJobs PROVE Unbound(k)' /\ ScanOK(k)'
    BY <1>2 DEF DoNotBind, CpuTypes, Unbound, ScanOK, Scanning
  <1>4. CoreIsFree'
    BY DEF DoNotBind, CpuTypes, CoreIsFree, InUse
  <1> QED BY <1>1, <1>3, <1>4

\* A process that is bound is flagged when its status is read.
LEMMA ReadStatusInv ==
  ASSUME CpuInv, NEW j \in CpuJobs, ReadStatus(j)
  PROVE  CpuInv'
  <1> USE DEF CpuInv
  <1>1. Bindings \subseteq Processes \X Cores /\ InUse(Bindings) \subseteq Cores
    BY BindingsTyped
  <1>2. PICK p \in unread[j] \cup alive :
          /\ unread' = [unread EXCEPT ![j] = @ \ {p}]
          /\ cpu_used' = [cpu_used EXCEPT ![j] = @ \cup {b[2] : b \in {x \in Bindings : x[1] = p}}]
    BY DEF ReadStatus
  <1>3. {b[2] : b \in {x \in Bindings : x[1] = p}} \subseteq InUse(Bindings)
    BY DEF InUse
  <1>4. CpuTypes'
    BY <1>1, <1>2, <1>3 DEF ReadStatus, CpuTypes
  <1>5. Bindings' = Bindings /\ InUse(Bindings)' = InUse(Bindings)
    BY DEF ReadStatus, Bindings, InUse
  <1>6. ASSUME NEW k \in CpuJobs PROVE Unbound(k)' /\ ScanOK(k)'
    <2>1. CASE k = j
      <3>1. cpu_step[j] = "scan" /\ throughout[j] \subseteq Bindings
        BY DEF ReadStatus, Scanning, ScanOK
      <3>2. ASSUME NEW b \in throughout[j] PROVE b[1] \in unread'[j] \/ b[2] \in cpu_used'[j]
        <4>1. CASE b[1] = p
          BY <1>2, <3>1, <4>1 DEF CpuTypes
        <4>2. CASE b[1] # p
          BY <1>2, <3>1, <4>2 DEF CpuTypes, ScanOK, Scanning
        <4> QED BY <4>1, <4>2
      <3>3. cpu_used'[j] \subseteq sometime[j]
        BY <1>2, <1>3, <3>1 DEF CpuTypes, ScanOK, Scanning
      <3> QED BY <1>5, <2>1, <3>1, <3>2, <3>3 DEF ReadStatus, Unbound, ScanOK, Scanning
    <2>2. CASE k # j
      BY <1>2, <1>5, <2>2 DEF ReadStatus, CpuTypes, Unbound, ScanOK, Scanning
    <2> QED BY <2>1, <2>2
  <1>7. CoreIsFree'
    BY DEF ReadStatus, CpuTypes, CoreIsFree, InUse
  <1> QED BY <1>4, <1>6, <1>7

\* The core of a binding is one that was not flagged, and what was bound all
\* through the scan has been flagged.
LEMMA BindInv ==
  ASSUME CpuInv, NEW j \in CpuJobs, Bind(j)
  PROVE  CpuInv'
  <1> USE DEF CpuInv
  <1>1. PICK c \in 0 .. CoreCount :
          /\ FirstFree(c, cpu_used[j])
          /\ IF c = CoreCount
               THEN /\ cpu_step' = [cpu_step EXCEPT ![j] = "refused"]
                    /\ alive' = alive \ {Fuzzer(j)}
                    /\ UNCHANGED cores_of
               ELSE /\ cores_of' = [cores_of EXCEPT ![Fuzzer(j)] = c]
                    /\ cpu_step' = [cpu_step EXCEPT ![j] = "bound"]
                    /\ UNCHANGED alive
    BY DEF Bind
  <1>2. /\ cpu_step' \in [CpuJobs -> {"off", "start", "scan", "run", "bound", "refused"}]
        /\ cores_of' \in [Processes -> Cores \cup {NoCore}]
        /\ alive' \subseteq Processes
    BY <1>1, ProcessesDiffer, CpuAssumption DEF CpuAssumption, CpuTypes, Cores
  <1>3. Bindings' \subseteq Processes \X Cores /\ InUse(Bindings') \subseteq Cores
    BY <1>2 DEF Bindings, InUse
  <1>4. CpuTypes'
    BY <1>2, <1>3 DEF Bind, CpuTypes, Witnessed
  <1>5. cpu_step[j] = "scan" /\ unread[j] = {}
    BY DEF Bind, Scanning
  <1>6. throughout'[j] = throughout[j] /\ sometime'[j] = sometime[j]
    BY <1>1, <1>5 DEF Bind, Witnessed, CpuTypes
  <1>7. ASSUME NEW k \in CpuJobs PROVE Unbound(k)' /\ ScanOK(k)'
    <2>1. CASE k = j
      BY <1>1, <1>5, <2>1 DEF CpuTypes, Unbound, ScanOK, Scanning
    <2>2. CASE k # j
      <3>1. Unbound(k)'
        BY <1>1, <2>2, ProcessesDiffer DEF Bind, CpuTypes, Unbound
      <3>2. ScanOK(k)'
        <4>1. CASE Scanning(k)
          BY <1>1, <1>4, <2>2, <4>1, WitnessedKeeps DEF Bind, CpuTypes, Scanning
        <4>2. CASE ~Scanning(k)
          BY <1>1, <2>2, <4>2 DEF CpuTypes, Scanning, ScanOK
        <4> QED BY <4>1, <4>2
      <3> QED BY <3>1, <3>2
    <2> QED BY <2>1, <2>2
  <1>8. InUse(throughout[j]) \subseteq cpu_used[j] /\ cpu_used[j] \subseteq sometime[j]
    BY <1>5 DEF ScanOK, Scanning, InUse
  <1>9. CoreIsFree'
    <2> SUFFICES ASSUME NEW k \in CpuJobs
                 PROVE  /\ cpu_step'[k] = "bound" =>
                              cores_of'[Fuzzer(k)] \in Cores \ {b[2] : b \in throughout'[k]}
                        /\ cpu_step'[k] = "refused" => sometime'[k] = Cores
      BY DEF CoreIsFree, InUse
    <2>1. CASE k = j /\ c = CoreCount
      <3>1. Cores \subseteq cpu_used[j]
        BY <1>1, <2>1, CpuAssumption DEF CpuAssumption, FirstFree, Cores
      <3> QED BY <1>1, <1>6, <1>8, <2>1, <3>1 DEF CpuTypes
    <2>2. CASE k = j /\ c # CoreCount
      <3>1. cores_of'[Fuzzer(j)] = c /\ c \in Cores /\ c \notin cpu_used[j]
        BY <1>1, <2>2, ProcessesDiffer, CpuAssumption DEF CpuAssumption, FirstFree, Cores, CpuTypes
      <3> QED BY <1>1, <1>6, <1>8, <2>2, <3>1 DEF CpuTypes, InUse
    <2>3. CASE k # j
      <3>1. cpu_step'[k] = cpu_step[k] /\ cores_of'[Fuzzer(k)] = cores_of[Fuzzer(k)]
        BY <1>1, <2>3, ProcessesDiffer DEF CpuTypes
      <3>2. cpu_step[k] \in {"bound", "refused"} => throughout'[k] = throughout[k] /\ sometime'[k] = sometime[k]
        BY <3>1 DEF Bind, Witnessed, Scanning
      <3> QED BY <3>1, <3>2 DEF CoreIsFree, InUse
    <2> QED BY <2>1, <2>2, <2>3
  <1> QED BY <1>4, <1>7, <1>9

\* The binding of another process changes, or it ends.
LEMMA TargetInv ==
  ASSUME CpuInv, NEW j \in CpuJobs, RunsTarget(j) \/ TargetGone(j)
  PROVE  CpuInv'
  <1> USE DEF CpuInv
  <1>1. /\ alive' \subseteq Processes
        /\ cores_of' \in [Processes -> Cores \cup {NoCore}]
        /\ \A k \in CpuJobs : cores_of'[Fuzzer(k)] = cores_of[Fuzzer(k)]
        /\ cpu_step' = cpu_step /\ unread' = unread /\ cpu_used' = cpu_used /\ Witnessed
    BY ProcessesDiffer DEF RunsTarget, TargetGone, CpuTypes
  <1>2. Bindings' \subseteq Processes \X Cores /\ InUse(Bindings') \subseteq Cores
    BY <1>1 DEF Bindings, InUse
  <1>3. CpuTypes'
    BY <1>1, <1>2 DEF CpuTypes, Witnessed
  <1>4. ASSUME NEW k \in CpuJobs PROVE Unbound(k)' /\ ScanOK(k)'
    <2>1. CASE Scanning(k)
      BY <1>1, <1>3, <2>1, WitnessedKeeps DEF Scanning, Unbound
    <2>2. CASE ~Scanning(k)
      BY <1>1, <2>2 DEF Scanning, ScanOK, Unbound
    <2> QED BY <2>1, <2>2
  <1>5. \A k \in CpuJobs : cpu_step[k] \in {"bound", "refused"} =>
          throughout'[k] = throughout[k] /\ sometime'[k] = sometime[k]
    BY <1>1 DEF Witnessed, Scanning
  <1>6. CoreIsFree'
    BY <1>1, <1>5 DEF CoreIsFree, InUse
  <1> QED BY <1>3, <1>4, <1>6

LEMMA JobGoneInv ==
  ASSUME CpuInv, NEW j \in CpuJobs, JobGone(j)
  PROVE  CpuInv'
  <1> USE DEF CpuInv
  <1>1. /\ alive' \subseteq Processes
        /\ cores_of' \in [Processes -> Cores \cup {NoCore}]
        /\ cpu_step' \in [CpuJobs -> {"off", "start", "scan", "run", "bound", "refused"}]
        /\ unread' \in [CpuJobs -> SUBSET Processes] /\ cpu_used' \in [CpuJobs -> SUBSET Cores]
    BY ProcessesDiffer DEF JobGone, CpuTypes
  <1>2. Bindings' \subseteq Processes \X Cores /\ InUse(Bindings') \subseteq Cores
    BY <1>1 DEF Bindings, InUse
  <1>3. CpuTypes'
    BY <1>1, <1>2 DEF JobGone, CpuTypes, Witnessed
  <1>4. ASSUME NEW k \in CpuJobs PROVE Unbound(k)' /\ ScanOK(k)'
    <2>1. CASE k = j
      BY <2>1, ProcessesDiffer DEF JobGone, CpuTypes, Unbound, ScanOK, Scanning
    <2>2. CASE k # j
      <3>1. /\ cpu_step'[k] = cpu_step[k] /\ cores_of'[Fuzzer(k)] = cores_of[Fuzzer(k)]
            /\ unread'[k] = unread[k] /\ cpu_used'[k] = cpu_used[k] /\ Witnessed
        BY <2>2, ProcessesDiffer DEF JobGone, CpuTypes
      <3>2. CASE Scanning(k)
        BY <1>3, <3>1, <3>2, WitnessedKeeps DEF Scanning, Unbound
      <3>3. CASE ~Scanning(k)
        BY <3>1, <3>3 DEF Scanning, ScanOK, Unbound
      <3> QED BY <3>2, <3>3
    <2> QED BY <2>1, <2>2
  <1>5. ASSUME NEW k \in CpuJobs, cpu_step'[k] \in {"bound", "refused"}
        PROVE  /\ cpu_step'[k] = cpu_step[k] /\ cores_of'[Fuzzer(k)] = cores_of[Fuzzer(k)]
               /\ throughout'[k] = throughout[k] /\ sometime'[k] = sometime[k]
    <2>1. k # j
      BY <1>5 DEF JobGone, CpuTypes
    <2> QED BY <1>5, <2>1, ProcessesDiffer DEF JobGone, CpuTypes, Witnessed, Scanning
  <1>6. CoreIsFree'
    BY <1>5 DEF CoreIsFree, InUse
  <1> QED BY <1>3, <1>4, <1>6

\* For any number of instances, cores and starts, and however they overlap: an
\* instance takes no core that one process was bound to all the time it looked,
\* and gives up only if each was in use at some time meanwhile (bind_to_free_cpu).
THEOREM CoresAreFree == CpuSpec => []CoreIsFree
  <1>1. CpuInit => CpuInv
    BY CpuInitInv
  <1>2. CpuInv /\ [CpuNext]_cpuVars => CpuInv'
    <2> SUFFICES ASSUME CpuInv, [CpuNext]_cpuVars PROVE CpuInv'
      OBVIOUS
    <2>1. CASE CpuNext
      <3> PICK j \in CpuJobs :
            \/ StartJob(j) \/ OpenProc(j) \/ DoNotBind(j) \/ ReadStatus(j) \/ Bind(j)
            \/ RunsTarget(j) \/ TargetGone(j) \/ JobGone(j)
        BY <2>1 DEF CpuNext
      <3> QED BY StartJobInv, OpenProcInv, DoNotBindInv, ReadStatusInv, BindInv, TargetInv, JobGoneInv
    <2>2. CASE UNCHANGED cpuVars
      BY <2>2 DEF CpuInv, CpuTypes, Unbound, ScanOK, Scanning, Bindings, InUse, CoreIsFree, cpuVars
    <2> QED BY <2>1, <2>2
  <1>3. CpuInv => CoreIsFree
    BY DEF CpuInv
  <1> QED BY <1>1, <1>2, <1>3, PTL DEF CpuSpec

-----------------------------------------------------------------------------
(* One output directory: its names, and what the calls of a set-up need,     *)
(* remove and add.                                                           *)

Kinds == {"deterministic_done", "auto_extras", "redundant_edges", "variable_behavior"}

\* Names of a queue directory and of what is in it.
QueueNames(n) ==
  {<<n>>, <<n, "id">>, <<n, ".state">>}
  \cup {<<n, ".state", k>> : k \in Kinds} \cup {<<n, ".state", k, "id">> : k \in Kinds}

\* All that ever is in an output directory.
OutNames ==
  QueueNames("queue") \cup QueueNames("_resume")
  \cup {<<".synced">>, <<".synced", "id">>, <<"crashes">>, <<"crashes", "id">>,
        <<"crashes", "README.txt">>, <<"hangs">>, <<"hangs", "id">>,
        <<".cur_input">>, <<"fuzz_bitmap">>, <<"plot_data">>}

CallNames == {"move", "delete", "rmdir", "keep", "unlink", "forget", "mkdir", "mkdir?", "read", "link", "stats"}
Calls == {c \in [call : CallNames, on : OutNames \cup {<<"fuzzer_stats">>}] :
            c.call # "forget" /\ c.call # "stats" => c.on \in OutNames}

Under(d) == {p \in OutNames : Len(p) > Len(d) /\ SubSeq(p, 1, Len(d)) = d}

\* What makes a call fail, what is gone after it, what may be new.
Blocks(c) ==
  IF c.call = "mkdir" THEN {c.on}
  ELSE IF c.call = "rmdir" THEN Under(c.on)
  ELSE IF c.call = "delete" THEN Under(c.on) \ {FileIn(c.on)}
  ELSE {}

Removes(c) ==
  IF c.call \in {"unlink", "rmdir"} THEN {c.on}
  ELSE IF c.call = "delete" THEN {c.on, FileIn(c.on)}
  ELSE IF c.call = "keep" THEN Under(c.on) \cup {c.on}
  ELSE {}

Adds(c) ==
  IF c.call \in {"mkdir", "mkdir?"} THEN {c.on}
  ELSE IF c.call = "move" THEN QueueNames("_resume")
  ELSE IF c.call = "link" THEN {<<"queue", "id">>, <<"queue", ".state", "deterministic_done", "id">>}
  ELSE {}

\* The calls s, made where there is at most A, do not fail and leave at most B:
\* what blocks one of them, or is not in B, is removed by one before it, after
\* the last that may have added it.
Clears(s, A, k, p) ==
  /\ p \in A => \E m \in 1 .. k - 1 : p \in Removes(s[m])
  /\ \A a \in 1 .. k - 1 : p \in Adds(s[a]) => \E m \in a + 1 .. k - 1 : p \in Removes(s[m])

Leads(s, A, B) ==
  /\ \A k \in 1 .. Len(s) : \A p \in Blocks(s[k]) : Clears(s, A, k, p)
  /\ \A p \in OutNames \ B : Clears(s, A, Len(s) + 1, p)

LEMMA LeadsEmpty ==
  ASSUME NEW A, NEW B, A \cap OutNames \subseteq B
  PROVE  Leads(<<>>, A, B)
  BY DEF Leads, Clears

LEMMA LeadsLess ==
  ASSUME NEW s, NEW A, NEW B, Leads(s, A, B), NEW C, C \cap OutNames \subseteq A,
         \A k \in 1 .. Len(s) : Blocks(s[k]) \subseteq OutNames
  PROVE  Leads(s, C, B)
  BY DEF Leads, Clears

\* A call more in front.
LEMMA LeadsFirst ==
  ASSUME NEW s \in Seq(Calls), s # <<>>, NEW A, NEW B, NEW C,
         Blocks(s[1]) \cap A = {}, (A \ Removes(s[1])) \cup Adds(s[1]) \subseteq C,
         Leads(Tail(s), C, B)
  PROVE  Leads(s, A, B)
  <1> DEFINE t == Tail(s)
  <1>1. /\ Len(s) \in Nat \ {0} /\ Len(t) = Len(s) - 1
        /\ \A k \in 1 .. Len(t) : t[k] = s[k + 1]
    OBVIOUS
  <1>2. ASSUME NEW k \in 1 .. Len(t) + 1, NEW p, Clears(t, C, k, p) PROVE Clears(s, A, k + 1, p)
    <2>1. ASSUME p \in A PROVE \E m \in 1 .. k : p \in Removes(s[m])
      <3>1. CASE p \in Removes(s[1])
        BY <3>1, <1>1
      <3>2. CASE p \in C
        <4>1. PICK m \in 1 .. k - 1 : p \in Removes(t[m])
          BY <1>2, <3>2 DEF Clears
        <4>2. m + 1 \in 1 .. k /\ t[m] = s[m + 1]
          BY <1>1
        <4> QED BY <4>1, <4>2
      <3> QED BY <2>1, <3>1, <3>2
    <2>2. ASSUME NEW a \in 1 .. k, p \in Adds(s[a])
          PROVE  \E m \in a + 1 .. k : p \in Removes(s[m])
      <3>1. CASE a = 1
        <4>1. PICK m \in 1 .. k - 1 : p \in Removes(t[m])
          BY <1>2, <3>1, <2>2 DEF Clears
        <4>2. m + 1 \in 2 .. k /\ t[m] = s[m + 1]
          BY <1>1
        <4> QED BY <4>1, <4>2, <3>1
      <3>2. CASE a # 1
        <4>1. a - 1 \in 1 .. k - 1 /\ t[a - 1] = s[a]
          BY <3>2, <1>1
        <4>2. PICK m \in (a - 1) + 1 .. k - 1 : p \in Removes(t[m])
          BY <1>2, <4>1, <2>2 DEF Clears
        <4>3. m + 1 \in a + 1 .. k /\ t[m] = s[m + 1]
          BY <1>1, <4>1, <4>2
        <4> QED BY <4>2, <4>3
      <3> QED BY <3>1, <3>2
    <2>3. (k + 1) - 1 = k
      OBVIOUS
    <2> QED BY <2>1, <2>2, <2>3 DEF Clears
  <1>3. ASSUME NEW k \in 1 .. Len(s), NEW p \in Blocks(s[k]) PROVE Clears(s, A, k, p)
    <2>1. CASE k = 1
      BY <2>1, <1>3 DEF Clears
    <2>2. CASE k # 1
      <3>1. k - 1 \in 1 .. Len(t) /\ t[k - 1] = s[k] /\ (k - 1) + 1 = k
        BY <2>2, <1>1
      <3>2. Clears(t, C, k - 1, p)
        BY <3>1, <1>3 DEF Leads
      <3> QED BY <3>1, <3>2, <1>1, <1>2
    <2> QED BY <2>1, <2>2
  <1>4. ASSUME NEW p \in OutNames \ B PROVE Clears(s, A, Len(s) + 1, p)
    <2>1. Clears(t, C, Len(t) + 1, p)
      BY <1>4 DEF Leads
    <2>2. Len(t) + 1 \in 1 .. Len(t) + 1 /\ (Len(t) + 1) + 1 = Len(s) + 1
      BY <1>1
    <2> QED BY <2>1, <2>2, <1>2
  <1> QED BY <1>3, <1>4 DEF Leads

\* The first call has been made.
LEMMA LeadsOn ==
  ASSUME NEW s \in Seq(Calls), s # <<>>, NEW A, NEW B, NEW C, Leads(s, A, B),
         C \subseteq (A \ Removes(s[1])) \cup Adds(s[1])
  PROVE  Leads(Tail(s), C, B)
  <1> DEFINE t == Tail(s)
  <1>1. /\ Len(s) \in Nat \ {0} /\ Len(t) = Len(s) - 1
        /\ \A k \in 1 .. Len(t) : t[k] = s[k + 1]
    OBVIOUS
  <1>2. ASSUME NEW k \in 1 .. Len(t) + 1, NEW p, Clears(s, A, k + 1, p) PROVE Clears(t, C, k, p)
    <2>0. (k + 1) - 1 = k
      OBVIOUS
    <2>1. ASSUME p \in C PROVE \E m \in 1 .. k - 1 : p \in Removes(t[m])
      <3>1. PICK m \in 2 .. k : p \in Removes(s[m])
        <4>1. CASE p \in Adds(s[1])
          <5>1. 1 \in 1 .. k /\ 1 + 1 = 2
            OBVIOUS
          <5> QED BY <1>2, <2>0, <4>1, <5>1 DEF Clears
        <4>2. CASE p \in A /\ p \notin Removes(s[1])
          <5>1. PICK m \in 1 .. k : p \in Removes(s[m])
            BY <1>2, <2>0, <4>2 DEF Clears
          <5>2. m # 1
            BY <5>1, <4>2
          <5> QED BY <5>1, <5>2
        <4> QED BY <2>1, <4>1, <4>2
      <3>2. m - 1 \in 1 .. k - 1 /\ t[m - 1] = s[m]
        BY <1>1
      <3> QED BY <3>1, <3>2
    <2>2. ASSUME NEW a \in 1 .. k - 1, p \in Adds(t[a])
          PROVE  \E m \in a + 1 .. k - 1 : p \in Removes(t[m])
      <3>1. a + 1 \in 1 .. k /\ t[a] = s[a + 1]
        BY <1>1
      <3>2. PICK m \in (a + 1) + 1 .. k : p \in Removes(s[m])
        BY <1>2, <2>0, <3>1, <2>2 DEF Clears
      <3>3. m - 1 \in a + 1 .. k - 1 /\ t[m - 1] = s[m]
        BY <1>1, <3>2
      <3> QED BY <3>2, <3>3
    <2> QED BY <2>1, <2>2 DEF Clears
  <1>3. ASSUME NEW k \in 1 .. Len(t), NEW p \in Blocks(t[k]) PROVE Clears(t, C, k, p)
    <2>1. k + 1 \in 1 .. Len(s) /\ t[k] = s[k + 1] /\ k \in 1 .. Len(t) + 1
      BY <1>1
    <2>2. Clears(s, A, k + 1, p)
      BY <2>1, <1>3 DEF Leads
    <2> QED BY <2>1, <2>2, <1>2
  <1>4. ASSUME NEW p \in OutNames \ B PROVE Clears(t, C, Len(t) + 1, p)
    <2>1. Clears(s, A, Len(s) + 1, p)
      BY <1>4 DEF Leads
    <2>2. Len(t) + 1 \in 1 .. Len(t) + 1 /\ (Len(t) + 1) + 1 = Len(s) + 1
      BY <1>1
    <2> QED BY <2>1, <2>2, <1>2
  <1> QED BY <1>3, <1>4 DEF Leads

-----------------------------------------------------------------------------
(* The paths of the calls. *)

LEMMA JoinedPaths ==
  ASSUME NEW a, NEW b, NEW c, NEW d
  PROVE  /\ <<a>> \o <<b>> = <<a, b>> /\ <<a>> \o <<b, c>> = <<a, b, c>>
         /\ <<a>> \o <<b, c, d>> = <<a, b, c, d>>
         /\ Append(<<a>>, b) = <<a, b>>
  <1> DEFINE S == {a, b, c, d}
  <1>1. \A s, t \in Seq(S) : Len(s) = Len(t) /\ (\A i \in 1 .. Len(s) : s[i] = t[i]) => s = t
    OBVIOUS
  <1>2. \A s, t \in Seq(S) : /\ s \o t \in Seq(S) /\ Len(s \o t) = Len(s) + Len(t)
                             /\ \A i \in 1 .. Len(s) : (s \o t)[i] = s[i]
                             /\ \A i \in 1 .. Len(t) : (s \o t)[Len(s) + i] = t[i]
    OBVIOUS
  <1>3. \A s \in Seq(S), e \in S : /\ Append(s, e) \in Seq(S) /\ Len(Append(s, e)) = Len(s) + 1
                                   /\ \A i \in 1 .. Len(s) : Append(s, e)[i] = s[i]
                                   /\ Append(s, e)[Len(s) + 1] = e
    OBVIOUS
  <1>4. /\ <<a>> \in Seq(S) /\ <<b>> \in Seq(S) /\ <<a, b>> \in Seq(S) /\ <<b, c>> \in Seq(S)
        /\ <<a, b, c>> \in Seq(S) /\ <<b, c, d>> \in Seq(S) /\ <<a, b, c, d>> \in Seq(S)
        /\ a \in S /\ b \in S /\ c \in S /\ d \in S
    OBVIOUS
  <1> HIDE DEF S
  <1>5. <<a>> \o <<b>> = <<a, b>>
    <2> DEFINE s == <<a>> \o <<b>>
    <2>1. s \in Seq(S) /\ Len(s) = 2 /\ s[1] = a /\ s[2] = b
      BY <1>2, <1>4
    <2> HIDE DEF s
    <2>2. s = <<a, b>>
      BY <2>1, <1>1, <1>4
    <2> QED BY <2>2 DEF s
  <1>6. <<a>> \o <<b, c>> = <<a, b, c>>
    <2> DEFINE s == <<a>> \o <<b, c>>
    <2>1. s \in Seq(S) /\ Len(s) = 3 /\ s[1] = a /\ s[2] = b /\ s[3] = c
      BY <1>2, <1>4
    <2> HIDE DEF s
    <2>2. s = <<a, b, c>>
      BY <2>1, <1>1, <1>4
    <2> QED BY <2>2 DEF s
  <1>7. <<a>> \o <<b, c, d>> = <<a, b, c, d>>
    <2> DEFINE s == <<a>> \o <<b, c, d>>
    <2>1. s \in Seq(S) /\ Len(s) = 4 /\ s[1] = a /\ s[2] = b /\ s[3] = c /\ s[4] = d
      BY <1>2, <1>4
    <2> HIDE DEF s
    <2>2. s = <<a, b, c, d>>
      BY <2>1, <1>1, <1>4
    <2> QED BY <2>2 DEF s
  <1>8. Append(<<a>>, b) = <<a, b>>
    <2> DEFINE s == Append(<<a>>, b)
    <2>1. s \in Seq(S) /\ Len(s) = 2 /\ s[1] = a /\ s[2] = b
      BY <1>3, <1>4
    <2> HIDE DEF s
    <2>2. s = <<a, b>>
      BY <2>1, <1>1, <1>4
    <2> QED BY <2>2 DEF s
  <1> QED BY <1>5, <1>6, <1>7, <1>8

LEMMA LongPaths ==
  ASSUME NEW a, NEW b, NEW c, NEW d
  PROVE  Append(<<a, b, c>>, d) = <<a, b, c, d>>
  <1> DEFINE S == {a, b, c, d}
  <1>1. \A s, t \in Seq(S) : Len(s) = Len(t) /\ (\A i \in 1 .. Len(s) : s[i] = t[i]) => s = t
    OBVIOUS
  <1>2. \A s \in Seq(S), e \in S : /\ Append(s, e) \in Seq(S) /\ Len(Append(s, e)) = Len(s) + 1
                                   /\ \A i \in 1 .. Len(s) : Append(s, e)[i] = s[i]
                                   /\ Append(s, e)[Len(s) + 1] = e
    OBVIOUS
  <1>3. <<a, b, c>> \in Seq(S) /\ <<a, b, c, d>> \in Seq(S) /\ d \in S
    OBVIOUS
  <1> HIDE DEF S
  <1> DEFINE s == Append(<<a, b, c>>, d)
  <1>4. s \in Seq(S) /\ Len(s) = 4 /\ s[1] = a /\ s[2] = b /\ s[3] = c /\ s[4] = d
    BY <1>2, <1>3
  <1> HIDE DEF s
  <1>5. s = <<a, b, c, d>>
    BY <1>4, <1>1, <1>3
  <1> QED BY <1>5 DEF s

LEMMA FilesIn ==
  ASSUME NEW a, NEW b, NEW c
  PROVE  FileIn(<<a>>) = <<a, "id">> /\ FileIn(<<a, b, c>>) = <<a, b, c, "id">>
  <1>1. Append(<<a>>, "id") = <<a, "id">>
    BY JoinedPaths
  <1>2. Append(<<a, b, c>>, "id") = <<a, b, c, "id">>
    BY LongPaths
  <1> QED BY <1>1, <1>2 DEF FileIn

LEMMA TuplesAreSeqs ==
  ASSUME NEW S, NEW a \in S, NEW b \in S, NEW c \in S, NEW d \in S
  PROVE  <<a>> \in Seq(S) /\ <<a, b>> \in Seq(S) /\ <<a, b, c>> \in Seq(S) /\ <<a, b, c, d>> \in Seq(S)
  OBVIOUS

PathNames ==
  Kinds \cup {"queue", "_resume", "id", ".state", ".synced", "crashes", "README.txt", "hangs",
             ".cur_input", "fuzz_bitmap", "plot_data"}

LEMMA NamesAreTuples == OutNames \subseteq Seq(PathNames)
  <1>1. ASSUME NEW n \in {"queue", "_resume"}, NEW p \in QueueNames(n) PROVE p \in Seq(PathNames)
    <2>1. n \in PathNames /\ "id" \in PathNames /\ ".state" \in PathNames /\ Kinds \subseteq PathNames
      BY DEF PathNames
    <2>2. \A k \in Kinds : <<n, ".state", k>> \in Seq(PathNames) /\ <<n, ".state", k, "id">> \in Seq(PathNames)
      BY <2>1, TuplesAreSeqs
    <2>3. <<n>> \in Seq(PathNames) /\ <<n, "id">> \in Seq(PathNames) /\ <<n, ".state">> \in Seq(PathNames)
      BY <2>1, TuplesAreSeqs
    <2> QED BY <2>2, <2>3 DEF QueueNames
  <1>2. \A a, b \in PathNames : <<a>> \in Seq(PathNames) /\ <<a, b>> \in Seq(PathNames)
    BY TuplesAreSeqs
  <1>3. {".synced", "crashes", "README.txt", "hangs", ".cur_input", "fuzz_bitmap", "plot_data", "id"} \subseteq PathNames
    BY DEF PathNames
  <1>4. {<<".synced">>, <<".synced", "id">>, <<"crashes">>, <<"crashes", "id">>,
         <<"crashes", "README.txt">>, <<"hangs">>, <<"hangs", "id">>,
         <<".cur_input">>, <<"fuzz_bitmap">>, <<"plot_data">>} \subseteq Seq(PathNames)
    BY <1>2, <1>3
  <1> QED BY <1>1, <1>4 DEF OutNames

\* What is under a directory has its name in front.
LEMMA UnderHead ==
  ASSUME NEW d \in OutNames, NEW p \in Under(d)
  PROVE  p \in OutNames /\ Len(p) > Len(d) /\ \A k \in 1 .. Len(d) : p[k] = d[k]
  <1>1. d \in Seq(PathNames) /\ p \in Seq(PathNames)
    BY NamesAreTuples DEF Under
  <1>2. Len(p) > Len(d) /\ SubSeq(p, 1, Len(d)) = d /\ p \in OutNames
    BY DEF Under
  <1> QED BY <1>1, <1>2

LEMMA UnderQueue ==
  ASSUME NEW n \in {"queue", "_resume"}
  PROVE  /\ Under(<<n>>) \subseteq QueueNames(n) \ {<<n>>}
         /\ Under(<<n, ".state">>) \subseteq
              {<<n, ".state", k>> : k \in Kinds} \cup {<<n, ".state", k, "id">> : k \in Kinds}
         /\ \A k \in Kinds : Under(<<n, ".state", k>>) \subseteq {<<n, ".state", k, "id">>}
  <1>1. /\ <<n>> \in OutNames /\ <<n, ".state">> \in OutNames
        /\ \A k \in Kinds : <<n, ".state", k>> \in OutNames
    BY DEF OutNames, QueueNames
  <1>2. ASSUME NEW p \in OutNames, Len(p) > 1, p[1] = n PROVE p \in QueueNames(n) \ {<<n>>}
    <2>1. \A m \in {"queue", "_resume"} : p \in QueueNames(m) => p[1] = m
      BY DEF QueueNames
    <2>2. p \in QueueNames("queue") \cup QueueNames("_resume")
      BY <1>2 DEF OutNames
    <2>3. p # <<n>>
      <3>1. ASSUME p = <<n>> PROVE FALSE
        <4>1. Len(p) = 1
          BY <3>1
        <4> QED BY <1>2, <4>1
      <3> QED BY <3>1
    <2> QED BY <1>2, <2>1, <2>2, <2>3
  <1>3. /\ Len(<<n>>) = 1 /\ Len(<<n, "id">>) = 2 /\ Len(<<n, ".state">>) = 2
         /\ \A k : Len(<<n, ".state", k>>) = 3
    OBVIOUS
  <1>4. \A p \in QueueNames(n) : Len(p) \in Nat
    BY NamesAreTuples DEF OutNames
  <1>5. \A l \in Nat : (l > 2 => l # 1 /\ l # 2) /\ (l > 3 => l # 1 /\ l # 2 /\ l # 3)
    OBVIOUS
  <1>6. ASSUME NEW p \in QueueNames(n), Len(p) > 2
        PROVE  p \in {<<n, ".state", k>> : k \in Kinds} \cup {<<n, ".state", k, "id">> : k \in Kinds}
    <2>1. Len(p) # 1 /\ Len(p) # 2
      BY <1>6, <1>4, <1>5
    <2>2. p \notin {<<n>>, <<n, "id">>, <<n, ".state">>}
      BY <2>1, <1>3
    <2> QED BY <2>2 DEF QueueNames
  <1>7. ASSUME NEW p \in QueueNames(n), NEW k \in Kinds, Len(p) > 3, p[3] = k
        PROVE  p = <<n, ".state", k, "id">>
    <2>0. Len(p) # 1 /\ Len(p) # 2 /\ Len(p) # 3
      BY <1>7, <1>4, <1>5
    <2>1. p \notin {<<n>>, <<n, "id">>, <<n, ".state">>}
      BY <2>0, <1>3
    <2>2. p \notin {<<n, ".state", c>> : c \in Kinds}
      BY <2>0, <1>3
    <2>3. PICK c \in Kinds : p = <<n, ".state", c, "id">>
      BY <2>1, <2>2 DEF QueueNames
    <2> QED BY <2>3, <1>7
  <1>8. ASSUME NEW p \in Under(<<n>>) PROVE p \in OutNames /\ Len(p) > 1 /\ p[1] = n
    BY <1>1, UnderHead
  <1>9. ASSUME NEW p \in Under(<<n, ".state">>) PROVE p \in OutNames /\ Len(p) > 2 /\ p[1] = n
    BY <1>1, UnderHead
  <1>10. ASSUME NEW k \in Kinds, NEW p \in Under(<<n, ".state", k>>)
        PROVE  p \in OutNames /\ Len(p) > 3 /\ p[1] = n /\ p[3] = k
    <2> DEFINE d == <<n, ".state", k>>
    <2>1. d \in OutNames /\ p \in Under(d) /\ Len(d) = 3 /\ d[1] = n /\ d[3] = k
      BY <1>1
    <2> HIDE DEF d
    <2>2. p \in OutNames /\ Len(p) > Len(d) /\ \A m \in 1 .. Len(d) : p[m] = d[m]
      BY <2>1, UnderHead
    <2>3. 1 \in 1 .. Len(d) /\ 3 \in 1 .. Len(d)
      BY <2>1
    <2> QED BY <2>1, <2>2, <2>3
  <1>11. Under(<<n>>) \subseteq QueueNames(n) \ {<<n>>}
    BY <1>2, <1>8
  <1>12. ASSUME NEW p \in Under(<<n, ".state">>)
        PROVE  p \in {<<n, ".state", k>> : k \in Kinds} \cup {<<n, ".state", k, "id">> : k \in Kinds}
    <2>1. p \in QueueNames(n) /\ Len(p) > 2
      BY <1>2, <1>9, NamesAreTuples
    <2> QED BY <2>1, <1>6
  <1>13. ASSUME NEW k \in Kinds, NEW p \in Under(<<n, ".state", k>>) PROVE p = <<n, ".state", k, "id">>
    <2>1. p \in QueueNames(n) /\ Len(p) > 3 /\ p[3] = k
      BY <1>2, <1>10, NamesAreTuples
    <2> QED BY <2>1, <1>7
  <1> QED BY <1>11, <1>12, <1>13

LEMMA UnderOthers ==
  /\ Under(<<".synced">>) \subseteq {<<".synced", "id">>}
  /\ Under(<<"crashes">>) \subseteq {<<"crashes", "id">>, Readme}
  /\ Under(<<"hangs">>) \subseteq {<<"hangs", "id">>}
  <1>1. /\ <<".synced">> \in OutNames /\ <<"crashes">> \in OutNames /\ <<"hangs">> \in OutNames
    BY DEF OutNames
  <1>2. ASSUME NEW p \in OutNames, Len(p) > 1
        PROVE  /\ p[1] = ".synced" => p = <<".synced", "id">>
               /\ p[1] = "crashes" => p \in {<<"crashes", "id">>, <<"crashes", "README.txt">>}
               /\ p[1] = "hangs" => p = <<"hangs", "id">>
    <2>1. \A n \in {"queue", "_resume"} : p \in QueueNames(n) => p[1] = n
      BY DEF QueueNames
    <2> QED BY <1>2, <2>1 DEF OutNames
  <1>3. ASSUME NEW p \in Under(<<".synced">>) PROVE p \in OutNames /\ Len(p) > 1 /\ p[1] = ".synced"
    BY <1>1, UnderHead
  <1>4. ASSUME NEW p \in Under(<<"crashes">>) PROVE p \in OutNames /\ Len(p) > 1 /\ p[1] = "crashes"
    BY <1>1, UnderHead
  <1>5. ASSUME NEW p \in Under(<<"hangs">>) PROVE p \in OutNames /\ Len(p) > 1 /\ p[1] = "hangs"
    BY <1>1, UnderHead
  <1> QED BY <1>2, <1>3, <1>4, <1>5 DEF Readme

\* delete_files() of the four directories, rmdir(), delete_files() of the cases
\* get rid of a queue directory, whatever is in it.
LEMMA CasesDeleted ==
  ASSUME NEW n \in {"queue", "_resume"}, NEW A
  PROVE  /\ DeleteCases(<<n>>) \in Seq(Calls)
         /\ Leads(DeleteCases(<<n>>), A, A \ QueueNames(n))
  <1> DEFINE s == << Call("delete", <<n, ".state", "deterministic_done">>),
                     Call("delete", <<n, ".state", "auto_extras">>),
                     Call("delete", <<n, ".state", "redundant_edges">>),
                     Call("delete", <<n, ".state", "variable_behavior">>),
                     Call("rmdir", <<n, ".state">>), Call("delete", <<n>>) >>
  <1>1. DeleteCases(<<n>>) = s
    <2>1. Append(<<n>>, ".state") = <<n, ".state">>
      BY JoinedPaths
    <2>2. \A k : <<n>> \o <<".state", k>> = <<n, ".state", k>>
      BY JoinedPaths
    <2> QED BY <2>1, <2>2 DEF DeleteCases
  <1>2. s \in Seq(Calls)
    BY DEF Calls, Call, CallNames, OutNames, QueueNames, Kinds
  <1>3. /\ Len(s) = 6 /\ s[5].call = "rmdir" /\ s[5].on = <<n, ".state">> /\ s[6].call = "delete" /\ s[6].on = <<n>>
        /\ \A k \in 1 .. 4 : s[k].call = "delete" /\ \E kind \in Kinds : s[k].on = <<n, ".state", kind>>
        /\ \A kind \in Kinds : \E k \in 1 .. 4 : s[k].call = "delete" /\ s[k].on = <<n, ".state", kind>>
    BY DEF Call, Kinds
  <1> HIDE DEF s
  <1>4. \A k \in 1 .. 6 : Adds(s[k]) = {}
    <2>1. \A k \in 1 .. 6 : s[k].call \in {"delete", "rmdir"}
      BY <1>3
    <2> QED BY <2>1 DEF Adds
  <1>5. FileIn(<<n>>) = <<n, "id">> /\ \A kind : FileIn(<<n, ".state", kind>>) = <<n, ".state", kind, "id">>
    BY FilesIn
  <1>6. /\ \A kind \in Kinds : \E k \in 1 .. 4 :
             {<<n, ".state", kind>>, <<n, ".state", kind, "id">>} \subseteq Removes(s[k])
        /\ <<n, ".state">> \in Removes(s[5])
        /\ {<<n>>, <<n, "id">>} \subseteq Removes(s[6])
    BY <1>3, <1>5 DEF Removes
  <1>7. /\ \A k \in 1 .. 4 : Blocks(s[k]) = {}
        /\ Blocks(s[5]) \subseteq {<<n, ".state", k>> : k \in Kinds} \cup {<<n, ".state", k, "id">> : k \in Kinds}
        /\ Blocks(s[6]) \subseteq QueueNames(n) \ {<<n>>, <<n, "id">>}
    <2>1. \A k \in 1 .. 4 : Blocks(s[k]) = {}
      <3> TAKE k \in 1 .. 4
      <3>1. PICK kind \in Kinds : s[k].on = <<n, ".state", kind>>
        BY ONLY <1>3
      <3>2. Under(s[k].on) \subseteq {FileIn(s[k].on)}
        BY <3>1, <1>5, UnderQueue
      <3>3. Blocks(s[k]) = Under(s[k].on) \ {FileIn(s[k].on)}
        BY <1>3 DEF Blocks
      <3> QED BY ONLY <3>2, <3>3
    <2>2. Blocks(s[5]) \subseteq {<<n, ".state", k>> : k \in Kinds} \cup {<<n, ".state", k, "id">> : k \in Kinds}
      BY <1>3, UnderQueue DEF Blocks
    <2>3. Blocks(s[6]) \subseteq QueueNames(n) \ {<<n>>, <<n, "id">>}
      BY <1>3, <1>5, UnderQueue DEF Blocks
    <2> QED BY <2>1, <2>2, <2>3
  <1>8. ASSUME NEW p \in QueueNames(n), p \notin {<<n>>, <<n, "id">>}
        PROVE  \/ p = <<n, ".state">> /\ p \in Removes(s[5])
               \/ /\ p \in {<<n, ".state", k>> : k \in Kinds} \cup {<<n, ".state", k, "id">> : k \in Kinds}
                  /\ \E k \in 1 .. 4 : p \in Removes(s[k])
    BY <1>6, <1>8 DEF QueueNames
  <1>9. ASSUME NEW p \in QueueNames(n) PROVE Clears(s, A, 7, p)
    <2>1. \E k \in 1 .. 6 : p \in Removes(s[k])
      BY <1>6, <1>8
    <2> QED BY <2>1, <1>4 DEF Clears
  <1>10. ASSUME NEW k \in 1 .. 6, NEW p \in Blocks(s[k]) PROVE Clears(s, A, k, p)
    <2>1. \E m \in 1 .. k - 1 : p \in Removes(s[m])
      <3>1. k = 5 \/ k = 6
        BY <1>7, <1>10
      <3>2. CASE k = 5
        <4>1. p \in {<<n, ".state", c>> : c \in Kinds} \cup {<<n, ".state", c, "id">> : c \in Kinds}
          BY <1>7, <1>10, <3>2
        <4>2. \E m \in 1 .. 4 : p \in Removes(s[m])
          BY <4>1, <1>6
        <4> QED BY <4>2, <3>2
      <3>3. CASE k = 6
        BY <1>7, <1>8, <1>10, <3>3
      <3> QED BY <3>1, <3>2, <3>3
    <2>2. \A a \in 1 .. k - 1 : Adds(s[a]) = {}
      BY <1>4
    <2> QED BY <2>1, <2>2 DEF Clears
  <1>11. ASSUME NEW p \in OutNames \ (A \ QueueNames(n)) PROVE Clears(s, A, 7, p)
    <2>1. CASE p \in QueueNames(n)
      BY <2>1, <1>9
    <2>2. CASE p \notin A
      BY <2>2, <1>4 DEF Clears
    <2> QED BY <2>1, <2>2, <1>11
  <1>12. Leads(s, A, A \ QueueNames(n))
    BY <1>3, <1>10, <1>11 DEF Leads
  <1> QED BY <1>1, <1>2, <1>12

LEMMA BlocksAreNames ==
  ASSUME NEW c \in Calls
  PROVE  Blocks(c) \subseteq OutNames
  BY DEF Blocks, Calls, Under

\* One sequence of calls after the other.
LEMMA LeadsJoin ==
  ASSUME NEW s \in Seq(Calls), NEW t \in Seq(Calls), NEW A, NEW B, NEW C,
         Leads(s, A, B), Leads(t, B, C)
  PROVE  s \o t \in Seq(Calls) /\ Leads(s \o t, A, C)
  <1> DEFINE r == s \o t
  <1>1. /\ r \in Seq(Calls) /\ Len(s) \in Nat /\ Len(t) \in Nat /\ Len(r) = Len(s) + Len(t)
        /\ \A k \in 1 .. Len(s) : r[k] = s[k]
        /\ \A k \in 1 .. Len(t) : r[Len(s) + k] = t[k]
    OBVIOUS
  <1> HIDE DEF r
  <1>2. ASSUME NEW k \in 1 .. Len(t) + 1, NEW p \in OutNames, Clears(t, B, k, p)
        PROVE  Clears(r, A, Len(s) + k, p)
    <2>1. ASSUME NEW m \in 1 .. k - 1
          PROVE  Len(s) + m \in 1 .. (Len(s) + k) - 1 /\ r[Len(s) + m] = t[m] /\ Len(s) + m > Len(s)
      BY <1>1
    <2>2. CASE p \in B
      <3>1. PICK m \in 1 .. k - 1 : p \in Removes(t[m])
        BY <1>2, <2>2 DEF Clears
      <3>2. Len(s) + m \in 1 .. (Len(s) + k) - 1 /\ p \in Removes(r[Len(s) + m]) /\ Len(s) + m > Len(s)
        BY <2>1, <3>1
      <3>3. ASSUME NEW a \in 1 .. Len(s) PROVE Len(s) + m \in a + 1 .. (Len(s) + k) - 1
        BY <1>1, <3>1
      <3>4. ASSUME NEW a \in 1 .. k - 1, p \in Adds(t[a])
            PROVE  \E n \in (Len(s) + a) + 1 .. (Len(s) + k) - 1 : p \in Removes(r[n])
        <4>1. PICK n \in a + 1 .. k - 1 : p \in Removes(t[n])
          BY <1>2, <3>4 DEF Clears
        <4>2. n \in 1 .. k - 1 /\ Len(s) + n \in (Len(s) + a) + 1 .. (Len(s) + k) - 1
          BY <4>1, <1>1
        <4> QED BY <4>1, <4>2, <2>1
      <3>5. ASSUME NEW a \in 1 .. (Len(s) + k) - 1, p \in Adds(r[a])
            PROVE  \E n \in a + 1 .. (Len(s) + k) - 1 : p \in Removes(r[n])
        <4>1. CASE a <= Len(s)
          <5>1. a \in 1 .. Len(s)
            BY <4>1, <1>1
          <5>2. Len(s) + m \in a + 1 .. (Len(s) + k) - 1
            BY <5>1, <3>3
          <5> QED BY <5>2, <3>2
        <4>2. CASE a > Len(s)
          <5>1. a - Len(s) \in 1 .. k - 1 /\ Len(s) + (a - Len(s)) = a
            BY <4>2, <1>1
          <5>2. p \in Adds(t[a - Len(s)])
            BY <5>1, <3>5, <2>1
          <5> QED BY <5>1, <5>2, <3>4
        <4> QED BY <4>1, <4>2, <1>1
      <3> QED BY <3>2, <3>5 DEF Clears
    <2>3. CASE p \notin B
      <3>1. Clears(s, A, Len(s) + 1, p) /\ (Len(s) + 1) - 1 = Len(s)
        BY <2>3, <1>1 DEF Leads
      <3>2. ASSUME NEW m \in 1 .. Len(s)
            PROVE  m \in 1 .. (Len(s) + k) - 1 /\ r[m] = s[m]
        BY <1>1
      <3>3. p \in A => \E m \in 1 .. (Len(s) + k) - 1 : p \in Removes(r[m])
        BY <3>1, <3>2 DEF Clears
      <3>4. ASSUME NEW a \in 1 .. (Len(s) + k) - 1, p \in Adds(r[a])
            PROVE  \E n \in a + 1 .. (Len(s) + k) - 1 : p \in Removes(r[n])
        <4>1. CASE a <= Len(s)
          <5>1. a \in 1 .. Len(s) /\ p \in Adds(s[a])
            BY <4>1, <3>2, <3>4, <1>1
          <5>2. PICK n \in a + 1 .. Len(s) : p \in Removes(s[n])
            BY <3>1, <5>1 DEF Clears
          <5>3. n \in 1 .. Len(s) /\ n \in a + 1 .. (Len(s) + k) - 1
            BY <5>1, <5>2, <1>1
          <5> QED BY <5>2, <5>3, <3>2
        <4>2. CASE a > Len(s)
          <5>1. a - Len(s) \in 1 .. k - 1 /\ Len(s) + (a - Len(s)) = a
            BY <4>2, <1>1
          <5>2. p \in Adds(t[a - Len(s)])
            BY <5>1, <3>4, <2>1
          <5>3. PICK n \in (a - Len(s)) + 1 .. k - 1 : p \in Removes(t[n])
            BY <1>2, <5>1, <5>2 DEF Clears
          <5>4. n \in 1 .. k - 1 /\ Len(s) + n \in a + 1 .. (Len(s) + k) - 1
            BY <5>1, <5>3, <1>1
          <5> QED BY <5>3, <5>4, <2>1
        <4> QED BY <4>1, <4>2, <1>1
      <3> QED BY <3>3, <3>4 DEF Clears
    <2> QED BY <2>2, <2>3
  <1>3. ASSUME NEW k \in 1 .. Len(r), NEW p \in Blocks(r[k]) PROVE Clears(r, A, k, p)
    <2>1. CASE k <= Len(s)
      <3>1. k \in 1 .. Len(s) /\ \A m \in 1 .. k : r[m] = s[m]
        BY <2>1, <1>1
      <3>2. Clears(s, A, k, p)
        BY <3>1, <1>3 DEF Leads
      <3> QED BY <3>1, <3>2, <1>1 DEF Clears
    <2>2. CASE k > Len(s)
      <3>1. k - Len(s) \in 1 .. Len(t) /\ Len(s) + (k - Len(s)) = k /\ r[k] = t[k - Len(s)]
        <4>1. k - Len(s) \in 1 .. Len(t) /\ Len(s) + (k - Len(s)) = k
          BY <2>2, <1>1
        <4> QED BY <4>1, <1>1
      <3>2. Clears(t, B, k - Len(s), p)
        BY <3>1, <1>3 DEF Leads
      <3>3. p \in OutNames
        BY <1>1, <1>3, BlocksAreNames
      <3>4. k - Len(s) \in 1 .. Len(t) + 1
        BY <3>1, <1>1
      <3> QED BY <3>1, <3>2, <3>3, <3>4, <1>2
    <2> QED BY <2>1, <2>2, <1>1
  <1>4. ASSUME NEW p \in OutNames \ C PROVE Clears(r, A, Len(r) + 1, p)
    <2>1. Clears(t, B, Len(t) + 1, p)
      BY <1>4 DEF Leads
    <2>2. Len(t) + 1 \in 1 .. Len(t) + 1 /\ Len(s) + (Len(t) + 1) = Len(r) + 1
      BY <1>1
    <2>3. Clears(r, A, Len(s) + (Len(t) + 1), p)
      BY <2>1, <2>2, <1>2, <1>4
    <2> QED BY <2>2, <2>3
  <1>5. Leads(r, A, C)
    BY <1>3, <1>4 DEF Leads
  <1> QED BY <1>1, <1>5 DEF r

LEMMA LeadsOne ==
  ASSUME NEW c \in Calls, NEW A, NEW B, Blocks(c) \cap A = {}, (A \ Removes(c)) \cup Adds(c) \subseteq B
  PROVE  <<c>> \in Seq(Calls) /\ Leads(<<c>>, A, B)
  <1> DEFINE s == <<c>>
  <1>1. s \in Seq(Calls) /\ s # <<>> /\ s[1] = c /\ Tail(s) = <<>>
    OBVIOUS
  <1>2. Leads(<<>>, B, B)
    BY LeadsEmpty
  <1> HIDE DEF s
  <1>3. Leads(s, A, B)
    BY <1>1, <1>2, LeadsFirst
  <1> QED BY <1>1, <1>3 DEF s

\* New directories, each made once, where there was none.
LEMMA LeadsMade ==
  ASSUME NEW s \in Seq(Calls), NEW A, NEW B, A \subseteq B,
         \A k \in 1 .. Len(s) :
           /\ s[k].call = "mkdir" /\ s[k].on \notin A /\ s[k].on \in B
           /\ \A a \in 1 .. k - 1 : s[a].on # s[k].on
  PROVE  Leads(s, A, B)
  <1>1. \A k \in 1 .. Len(s) : Blocks(s[k]) = {s[k].on} /\ Adds(s[k]) = {s[k].on}
    BY DEF Blocks, Adds
  <1>2. ASSUME NEW k \in 1 .. Len(s), NEW p \in Blocks(s[k]) PROVE Clears(s, A, k, p)
    <2>1. p = s[k].on
      BY <1>1, <1>2
    <2>2. \A a \in 1 .. k - 1 : a \in 1 .. Len(s)
      OBVIOUS
    <2>3. ASSUME NEW a \in 1 .. k - 1 PROVE p \notin Adds(s[a])
      <3>1. Adds(s[a]) = {s[a].on}
        BY <2>2, <1>1
      <3>2. s[a].on # s[k].on
        OBVIOUS
      <3> QED BY <3>1, <3>2, <2>1
    <2> QED BY <2>1, <2>3 DEF Clears
  <1>3. ASSUME NEW p \in OutNames \ B PROVE Clears(s, A, Len(s) + 1, p)
    <2>1. (Len(s) + 1) - 1 = Len(s)
      OBVIOUS
    <2>2. \A a \in 1 .. Len(s) : p \notin Adds(s[a])
      BY <1>1
    <2> QED BY <2>1, <2>2 DEF Clears
  <1> QED BY <1>2, <1>3 DEF Leads

-----------------------------------------------------------------------------
(* The sequence of calls of a set-up. *)

\* After maybe_delete_out_dir(): what setup_dirs_fds() makes is not there.
Emptied(resume) ==
  OutNames \ (QueueNames("queue") \cup {<<"crashes">>, <<"hangs">>, <<".cur_input">>, <<"plot_data">>}
              \cup (IF resume THEN {} ELSE {<<".synced">>}))

LEMMA NamesAtHand ==
  /\ \A n \in {"queue", "_resume"} : QueueNames(n) \subseteq OutNames
  /\ {<<"queue">>, <<"queue", "id">>, <<"queue", ".state">>, <<"_resume">>, <<"queue", ".state", "deterministic_done", "id">>,
      <<"queue", ".state", "deterministic_done">>, <<"queue", ".state", "auto_extras">>,
      <<"queue", ".state", "redundant_edges">>, <<"queue", ".state", "variable_behavior">>,
      <<".synced">>, <<"crashes">>, <<"crashes", "README.txt">>, <<"hangs">>, <<".cur_input">>,
      <<"fuzz_bitmap">>, <<"plot_data">>} \subseteq OutNames
  <1>1. \A n \in {"queue", "_resume"} : QueueNames(n) \subseteq OutNames
    BY DEF OutNames
  <1>2. \A n \in {"queue", "_resume"} :
          /\ {<<n>>, <<n, "id">>, <<n, ".state">>} \subseteq QueueNames(n)
          /\ \A k \in Kinds : <<n, ".state", k>> \in QueueNames(n) /\ <<n, ".state", k, "id">> \in QueueNames(n)
    BY DEF QueueNames
  <1>3. {"deterministic_done", "auto_extras", "redundant_edges", "variable_behavior"} \subseteq Kinds
    BY DEF Kinds
  <1>4. {<<".synced">>, <<"crashes">>, <<"crashes", "README.txt">>, <<"hangs">>, <<".cur_input">>,
         <<"fuzz_bitmap">>, <<"plot_data">>} \subseteq OutNames
    BY DEF OutNames
  <1> QED BY <1>1, <1>2, <1>3, <1>4

LEMMA OldRemoved ==
  ASSUME NEW resume \in BOOLEAN
  PROVE  /\ DeleteOutDir(resume) \in Seq(Calls)
         /\ Leads(DeleteOutDir(resume), OutNames, Emptied(resume))
  <1> DEFINE s1 == IF resume THEN <<Call("move", Queue)>> ELSE <<Call("delete", <<".synced">>)>>
             B1 == IF resume THEN OutNames ELSE OutNames \ {<<".synced">>}
             B2 == B1 \ QueueNames("queue")
             c3 == IF resume THEN Call("keep", <<"crashes">>) ELSE Call("unlink", Readme)
             B3 == B2 \ Removes(c3)
             c4 == Call("delete", <<"crashes">>)
             B4 == B3 \ {<<"crashes">>}
             s5 == IF resume THEN <<Call("keep", <<"hangs">>)>> ELSE <<>>
             s6 == <<Call("delete", <<"hangs">>), Call("unlink", <<".cur_input">>), Call("unlink", <<"fuzz_bitmap">>)>>
             B6 == B4 \ {<<"hangs">>, <<".cur_input">>}
             s7 == IF resume THEN <<>> ELSE <<Call("forget", <<"fuzzer_stats">>)>>
             s8 == <<Call("unlink", <<"plot_data">>)>>
  <1>1. /\ Call("move", Queue) \in Calls /\ Call("delete", <<".synced">>) \in Calls
        /\ Call("keep", <<"crashes">>) \in Calls /\ Call("unlink", Readme) \in Calls
        /\ c4 \in Calls /\ Call("keep", <<"hangs">>) \in Calls
        /\ Call("delete", <<"hangs">>) \in Calls /\ Call("unlink", <<".cur_input">>) \in Calls
        /\ Call("unlink", <<"fuzz_bitmap">>) \in Calls /\ Call("forget", <<"fuzzer_stats">>) \in Calls
        /\ Call("unlink", <<"plot_data">>) \in Calls
    BY NamesAtHand DEF Calls, Call, CallNames, Queue, Readme
  <1>2. s1 \in Seq(Calls) /\ Leads(s1, OutNames, B1)
    <2>1. CASE resume
      <3>1. Blocks(Call("move", Queue)) = {} /\ Removes(Call("move", Queue)) = {}
            /\ Adds(Call("move", Queue)) = QueueNames("_resume")
        BY DEF Blocks, Removes, Adds, Call
      <3>2. s1 = <<Call("move", Queue)>> /\ B1 = OutNames /\ QueueNames("_resume") \subseteq OutNames
        BY <2>1, NamesAtHand
      <3> HIDE DEF s1, B1
      <3> QED BY <3>1, <3>2, <1>1, LeadsOne
    <2>2. CASE ~resume
      <3> DEFINE c == Call("delete", <<".synced">>)
      <3>1. FileIn(<<".synced">>) = <<".synced", "id">>
        BY FilesIn
      <3>2. Blocks(c) = {} /\ <<".synced">> \in Removes(c) /\ Adds(c) = {}
        BY <3>1, UnderOthers DEF Blocks, Removes, Adds, Call
      <3>3. s1 = <<c>> /\ B1 = OutNames \ {<<".synced">>} /\ c \in Calls
        BY <2>2, <1>1
      <3> HIDE DEF s1, B1, c
      <3> QED BY <3>2, <3>3, LeadsOne
    <2> QED BY <2>1, <2>2
  <1>3. DeleteCases(Queue) \in Seq(Calls) /\ Leads(DeleteCases(Queue), B1, B2)
    <2> HIDE DEF B1
    <2> QED BY CasesDeleted DEF Queue
  <1>4. <<c3>> \in Seq(Calls) /\ Leads(<<c3>>, B2, B3)
    <2>1. c3 \in Calls
      BY <1>1
    <2>2. Blocks(c3) = {} /\ Adds(c3) = {}
      BY DEF Blocks, Adds, Call
    <2> HIDE DEF c3, B2
    <2> QED BY <2>1, <2>2, LeadsOne
  <1>5. <<c4>> \in Seq(Calls) /\ Leads(<<c4>>, B3, B4)
    <2>1. FileIn(<<"crashes">>) = <<"crashes", "id">>
      BY FilesIn
    <2>2. Adds(c4) = {} /\ <<"crashes">> \in Removes(c4)
      BY <2>1 DEF Adds, Removes, Call
    <2>3. Blocks(c4) \cap B3 = {}
      <3>1. Blocks(c4) = Under(<<"crashes">>) \ {<<"crashes", "id">>}
        BY <2>1 DEF Blocks, Call
      <3>2. CASE resume
        BY <3>1, <3>2 DEF Removes, Call
      <3>3. CASE ~resume
        BY <3>1, <3>3, UnderOthers DEF Removes, Call
      <3> QED BY <3>2, <3>3
    <2> HIDE DEF c4, B3
    <2> QED BY <2>2, <2>3, <1>1, LeadsOne
  <1>6. s5 \in Seq(Calls) /\ Leads(s5, B4, B4)
    <2>1. CASE resume
      <3> DEFINE c == Call("keep", <<"hangs">>)
      <3>1. Blocks(c) = {} /\ Adds(c) = {}
        BY DEF Blocks, Adds, Call
      <3>2. s5 = <<c>> /\ c \in Calls
        BY <2>1, <1>1
      <3> HIDE DEF s5, B4, c
      <3> QED BY <3>1, <3>2, LeadsOne
    <2>2. CASE ~resume
      <3>1. s5 = <<>>
        BY <2>2
      <3> HIDE DEF s5, B4
      <3> QED BY <3>1, LeadsEmpty
    <2> QED BY <2>1, <2>2
  <1>7. s6 \in Seq(Calls) /\ Leads(s6, B4, B6)
    <2> DEFINE c == Call("delete", <<"hangs">>)
               d == Call("unlink", <<".cur_input">>)
               e == Call("unlink", <<"fuzz_bitmap">>)
               C == B4 \ {<<"hangs">>}
    <2>1. FileIn(<<"hangs">>) = <<"hangs", "id">>
      BY FilesIn
    <2>2. Blocks(c) = {} /\ <<"hangs">> \in Removes(c) /\ Adds(c) = {}
      BY <2>1, UnderOthers DEF Blocks, Removes, Adds, Call
    <2>3. Blocks(d) = {} /\ <<".cur_input">> \in Removes(d) /\ Adds(d) = {}
      BY DEF Blocks, Removes, Adds, Call
    <2>4. Blocks(e) = {} /\ Adds(e) = {}
      BY DEF Blocks, Adds, Call
    <2>5. s6 \in Seq(Calls) /\ s6[1] = c /\ Tail(s6) = <<d, e>> /\ s6 # <<>>
      BY <1>1
    <2>6. <<d, e>> \in Seq(Calls) /\ <<d, e>>[1] = d /\ Tail(<<d, e>>) = <<e>> /\ <<d, e>> # <<>>
      BY <1>1
    <2>7. c \in Calls /\ d \in Calls /\ e \in Calls
      BY <1>1
    <2>8. B6 = C \ {<<".cur_input">>}
      OBVIOUS
    <2> HIDE DEF c, d, e, B4, B6, s6
    <2>9. Leads(<<e>>, B6, B6)
      BY <2>4, <2>7, LeadsOne
    <2>10. Leads(<<d, e>>, C, B6)
      <3>1. (C \ Removes(d)) \cup Adds(d) \subseteq B6
        BY <2>3, <2>8
      <3> HIDE DEF C
      <3> QED BY <3>1, <2>3, <2>6, <2>9, LeadsFirst
    <2>11. (B4 \ Removes(c)) \cup Adds(c) \subseteq C
      BY <2>2
    <2> HIDE DEF C
    <2>12. Leads(s6, B4, B6)
      BY <2>2, <2>5, <2>10, <2>11, LeadsFirst
    <2> QED BY <2>5, <2>12
  <1>8. s7 \in Seq(Calls) /\ Leads(s7, B6, B6)
    <2>1. CASE ~resume
      <3> DEFINE c == Call("forget", <<"fuzzer_stats">>)
      <3>1. Blocks(c) = {} /\ Adds(c) = {}
        BY DEF Blocks, Adds, Call
      <3>2. s7 = <<c>> /\ c \in Calls
        BY <2>1, <1>1
      <3> HIDE DEF s7, B6, c
      <3> QED BY <3>1, <3>2, LeadsOne
    <2>2. CASE resume
      <3>1. s7 = <<>>
        BY <2>2
      <3> HIDE DEF s7, B6
      <3> QED BY <3>1, LeadsEmpty
    <2> QED BY <2>1, <2>2
  <1>9. s8 \in Seq(Calls) /\ Leads(s8, B6, Emptied(resume))
    <2> DEFINE c == Call("unlink", <<"plot_data">>)
    <2>1. Blocks(c) = {} /\ Adds(c) = {} /\ Removes(c) = {<<"plot_data">>} /\ c \in Calls
      BY <1>1 DEF Blocks, Adds, Removes, Call
    <2>2. B6 \ {<<"plot_data">>} \subseteq Emptied(resume)
      BY DEF Emptied
    <2> HIDE DEF B6, c
    <2>3. (B6 \ Removes(c)) \cup Adds(c) \subseteq Emptied(resume)
      BY <2>1, <2>2
    <2>4. <<c>> \in Seq(Calls) /\ Leads(<<c>>, B6, Emptied(resume))
      BY <2>1, <2>3, LeadsOne
    <2> QED BY <2>4 DEF c
  <1>10. DeleteOutDir(resume) =
           s1 \o DeleteCases(Queue) \o <<c3>> \o <<c4>> \o s5 \o s6 \o s7 \o s8
    BY DEF DeleteOutDir
  <1> HIDE DEF s1, s5, s6, s7, s8, c3, c4, B1, B2, B3, B4, B6
  <1> DEFINE r2 == s1 \o DeleteCases(Queue)
             r3 == r2 \o <<c3>>
             r4 == r3 \o <<c4>>
             r5 == r4 \o s5
             r6 == r5 \o s6
             r7 == r6 \o s7
  <1>11. r2 \in Seq(Calls) /\ Leads(r2, OutNames, B2)
    BY <1>2, <1>3, LeadsJoin
  <1> HIDE DEF r2
  <1>12. r3 \in Seq(Calls) /\ Leads(r3, OutNames, B3)
    BY <1>11, <1>4, LeadsJoin
  <1> HIDE DEF r3
  <1>13. r4 \in Seq(Calls) /\ Leads(r4, OutNames, B4)
    BY <1>12, <1>5, LeadsJoin
  <1> HIDE DEF r4
  <1>14. r5 \in Seq(Calls) /\ Leads(r5, OutNames, B4)
    BY <1>13, <1>6, LeadsJoin
  <1> HIDE DEF r5
  <1>15. r6 \in Seq(Calls) /\ Leads(r6, OutNames, B6)
    BY <1>14, <1>7, LeadsJoin
  <1> HIDE DEF r6
  <1>16. r7 \in Seq(Calls) /\ Leads(r7, OutNames, B6)
    BY <1>15, <1>8, LeadsJoin
  <1> HIDE DEF r7
  <1>17. r7 \o s8 \in Seq(Calls) /\ Leads(r7 \o s8, OutNames, Emptied(resume))
    BY <1>16, <1>9, LeadsJoin
  <1> QED BY <1>10, <1>17 DEF r2, r3, r4, r5, r6, r7

LEMMA NewCreated ==
  ASSUME NEW resume \in BOOLEAN, NEW sync \in BOOLEAN
  PROVE  /\ CreateDirs(resume, sync) \in Seq(Calls)
         /\ Leads(CreateDirs(resume, sync), Emptied(resume), OutNames)
  <1> DEFINE state == {<<"queue", ".state", k>> : k \in Kinds}
             s1 == << Call("mkdir", Queue), Call("mkdir", <<"queue", ".state">>),
                      Call("mkdir", <<"queue", ".state", "deterministic_done">>),
                      Call("mkdir", <<"queue", ".state", "auto_extras">>),
                      Call("mkdir", <<"queue", ".state", "redundant_edges">>),
                      Call("mkdir", <<"queue", ".state", "variable_behavior">>) >>
             B1 == Emptied(resume) \cup {<<"queue">>, <<"queue", ".state">>} \cup state
             c2 == Call(IF resume THEN "mkdir?" ELSE "mkdir", <<".synced">>)
             s2 == IF sync THEN <<c2>> ELSE <<>>
             B2 == B1 \cup {<<".synced">>}
             s3 == <<Call("mkdir", <<"crashes">>), Call("mkdir", <<"hangs">>), Call("mkdir", <<"plot_data">>)>>
  <1>1. s1 \in Seq(Calls) /\ s3 \in Seq(Calls) /\ c2 \in Calls
    <2>1. /\ Call("mkdir", Queue) \in Calls /\ Call("mkdir", <<"queue", ".state">>) \in Calls
          /\ Call("mkdir", <<"queue", ".state", "deterministic_done">>) \in Calls
          /\ Call("mkdir", <<"queue", ".state", "auto_extras">>) \in Calls
          /\ Call("mkdir", <<"queue", ".state", "redundant_edges">>) \in Calls
          /\ Call("mkdir", <<"queue", ".state", "variable_behavior">>) \in Calls
          /\ Call("mkdir", <<"crashes">>) \in Calls /\ Call("mkdir", <<"hangs">>) \in Calls
          /\ Call("mkdir", <<"plot_data">>) \in Calls /\ c2 \in Calls
      BY NamesAtHand DEF Calls, Call, CallNames, Queue
    <2> QED BY <2>1
  <1>2. /\ \A n \in {<<"queue">>, <<"queue", ".state">>} \cup state : n \in QueueNames("queue")
        /\ \A k \in {"deterministic_done", "auto_extras", "redundant_edges", "variable_behavior"} :
             <<"queue", ".state", k>> \in state
    BY DEF QueueNames, Kinds
  <1>3. Leads(s1, Emptied(resume), B1)
    <2>1. Len(s1) = 6 /\ \A k \in 1 .. 6 : s1[k].call = "mkdir"
      BY DEF Call
    <2>2. /\ s1[1].on = <<"queue">> /\ s1[2].on = <<"queue", ".state">>
          /\ s1[3].on = <<"queue", ".state", "deterministic_done">>
          /\ s1[4].on = <<"queue", ".state", "auto_extras">>
          /\ s1[5].on = <<"queue", ".state", "redundant_edges">>
          /\ s1[6].on = <<"queue", ".state", "variable_behavior">>
      BY DEF Call, Queue
    <2> HIDE DEF s1, state
    <2>3. \A k \in 1 .. 6 : s1[k].on \in {<<"queue">>, <<"queue", ".state">>} \cup state
      <3>1. \A k \in 1 .. 6 : k \in {1, 2, 3, 4, 5, 6}
        OBVIOUS
      <3> QED BY <3>1, <2>2, <1>2
    <2>4. \A k \in 1 .. 6 : s1[k].on \notin Emptied(resume) /\ s1[k].on \in B1
      BY <2>3, <1>2 DEF Emptied
    <2>5. \A k \in 1 .. 6 : \A a \in 1 .. k - 1 : s1[a].on # s1[k].on
      <3>1. \A k \in 1 .. 6 : \A a \in 1 .. k - 1 :
              \/ (k = 2 /\ a = 1) \/ (k = 3 /\ a \in {1, 2}) \/ (k = 4 /\ a \in {1, 2, 3})
              \/ (k = 5 /\ a \in {1, 2, 3, 4}) \/ (k = 6 /\ a \in {1, 2, 3, 4, 5})
        OBVIOUS
      <3>2. /\ s1[1].on # s1[2].on
            /\ \A a \in {1, 2} : s1[a].on # s1[3].on
            /\ \A a \in {1, 2, 3} : s1[a].on # s1[4].on
            /\ \A a \in {1, 2, 3, 4} : s1[a].on # s1[5].on
            /\ \A a \in {1, 2, 3, 4, 5} : s1[a].on # s1[6].on
        BY <2>2
      <3> QED BY <3>1, <3>2
    <2>6. Emptied(resume) \subseteq B1
      OBVIOUS
    <2> HIDE DEF B1
    <2> QED BY <1>1, <2>1, <2>4, <2>5, <2>6, LeadsMade
  <1>4. s2 \in Seq(Calls) /\ Leads(s2, B1, B2)
    <2>1. CASE sync
      <3>1. Removes(c2) = {} /\ Adds(c2) = {<<".synced">>}
            /\ Blocks(c2) = IF resume THEN {} ELSE {<<".synced">>}
        BY DEF Removes, Adds, Blocks, Call
      <3>2. ~resume => <<".synced">> \notin B1
        BY DEF Emptied
      <3>3. Blocks(c2) \cap B1 = {}
        BY <3>1, <3>2
      <3>4. s2 = <<c2>>
        BY <2>1
      <3> HIDE DEF s2, B1, c2
      <3> QED BY <3>1, <3>3, <3>4, <1>1, LeadsOne
    <2>2. CASE ~sync
      <3>1. s2 = <<>> /\ B1 \subseteq B2
        BY <2>2
      <3> HIDE DEF s2, B1, B2
      <3> QED BY <3>1, LeadsEmpty
    <2> QED BY <2>1, <2>2
  <1>5. Leads(s3, B2, OutNames)
    <2>1. /\ Len(s3) = 3 /\ \A k \in 1 .. 3 : s3[k].call = "mkdir"
          /\ s3[1].on = <<"crashes">> /\ s3[2].on = <<"hangs">> /\ s3[3].on = <<"plot_data">>
      BY DEF Call
    <2>2. {<<"crashes">>, <<"hangs">>, <<"plot_data">>} \subseteq OutNames \ B2
      BY NamesAtHand DEF Emptied
    <2>3. B2 \subseteq OutNames
      BY NamesAtHand, <1>2 DEF Emptied
    <2> HIDE DEF s3, B2
    <2>4. \A k \in 1 .. 3 : k \in {1, 2, 3}
      OBVIOUS
    <2>5. \A k \in 1 .. 3 : s3[k].on \notin B2 /\ s3[k].on \in OutNames
      BY <2>1, <2>2, <2>4
    <2>6. \A k \in 1 .. 3 : \A a \in 1 .. k - 1 : s3[a].on # s3[k].on
      <3>1. \A k \in 1 .. 3 : \A a \in 1 .. k - 1 : (k = 2 /\ a = 1) \/ (k = 3 /\ a \in {1, 2})
        OBVIOUS
      <3>2. s3[1].on # s3[2].on /\ s3[1].on # s3[3].on /\ s3[2].on # s3[3].on
        BY <2>1
      <3> QED BY <3>1, <3>2
    <2> QED BY <1>1, <2>1, <2>3, <2>5, <2>6, LeadsMade
  <1>6. CreateDirs(resume, sync) = s1 \o s2 \o s3
    BY DEF CreateDirs
  <1> HIDE DEF s1, s2, s3, B1, B2
  <1> DEFINE r2 == s1 \o s2
  <1>7. r2 \in Seq(Calls) /\ Leads(r2, Emptied(resume), B2)
    BY <1>1, <1>3, <1>4, LeadsJoin
  <1> HIDE DEF r2
  <1>8. r2 \o s3 \in Seq(Calls) /\ Leads(r2 \o s3, Emptied(resume), OutNames)
    BY <1>1, <1>5, <1>7, LeadsJoin
  <1> QED BY <1>6, <1>8 DEF r2

LEMMA InputsImported ==
  ASSUME NEW resume \in BOOLEAN
  PROVE  /\ ImportAndStart(resume) \in Seq(Calls) /\ Len(ImportAndStart(resume)) > 0
         /\ Leads(ImportAndStart(resume), OutNames, OutNames)
  <1> DEFINE s1 == IF resume THEN <<Call("read", OldQueue)>> ELSE <<>>
             c2 == Call("link", Queue)
             s3 == IF resume THEN DeleteCases(OldQueue) ELSE <<>>
             c == Call("unlink", <<".cur_input">>)
             d == Call("mkdir", <<".cur_input">>)
             e == Call("stats", <<"fuzzer_stats">>)
             s4 == <<c, d, e>>
             moved == OutNames \ QueueNames("_resume")
             free == OutNames \ {<<".cur_input">>}
             B3 == IF resume THEN moved ELSE OutNames
  <1>1. /\ Call("read", OldQueue) \in Calls /\ c2 \in Calls /\ c \in Calls /\ d \in Calls /\ e \in Calls
    BY NamesAtHand DEF Calls, Call, CallNames, Queue, OldQueue
  <1>2. s1 \in Seq(Calls) /\ Leads(s1, OutNames, OutNames)
    <2>1. CASE resume
      <3> DEFINE r == Call("read", OldQueue)
      <3>1. Blocks(r) = {} /\ Adds(r) = {}
        BY DEF Blocks, Adds, Call
      <3>2. s1 = <<r>> /\ r \in Calls
        BY <2>1, <1>1
      <3> HIDE DEF s1, r
      <3> QED BY <3>1, <3>2, LeadsOne
    <2>2. CASE ~resume
      <3>1. s1 = <<>>
        BY <2>2
      <3> HIDE DEF s1
      <3> QED BY <3>1, LeadsEmpty
    <2> QED BY <2>1, <2>2
  <1>3. <<c2>> \in Seq(Calls) /\ Leads(<<c2>>, OutNames, OutNames)
    <2>1. Blocks(c2) = {} /\ Adds(c2) = {<<"queue", "id">>, <<"queue", ".state", "deterministic_done", "id">>}
      BY DEF Blocks, Adds, Call
    <2>2. (OutNames \ Removes(c2)) \cup Adds(c2) \subseteq OutNames
      BY <2>1, NamesAtHand
    <2> HIDE DEF c2
    <2> QED BY <1>1, <2>1, <2>2, LeadsOne
  <1>4. s3 \in Seq(Calls) /\ Leads(s3, OutNames, B3)
    <2>1. CASE resume
      <3>1. s3 = DeleteCases(<<"_resume">>) /\ B3 = OutNames \ QueueNames("_resume")
        BY <2>1 DEF OldQueue
      <3> HIDE DEF s3, B3
      <3> QED BY <3>1, CasesDeleted
    <2>2. CASE ~resume
      <3>1. s3 = <<>> /\ B3 = OutNames
        BY <2>2
      <3> HIDE DEF s3, B3
      <3> QED BY <3>1, LeadsEmpty
    <2> QED BY <2>1, <2>2
  <1>5. s4 \in Seq(Calls) /\ Leads(s4, B3, OutNames)
    <2>1. Blocks(c) = {} /\ Removes(c) = {<<".cur_input">>} /\ Adds(c) = {}
      BY DEF Blocks, Adds, Removes, Call
    <2>2. Blocks(d) = {<<".cur_input">>} /\ Adds(d) = {<<".cur_input">>}
      BY DEF Blocks, Adds, Call
    <2>3. Blocks(e) = {} /\ Adds(e) = {}
      BY DEF Blocks, Adds, Call
    <2>4. s4 \in Seq(Calls) /\ s4[1] = c /\ Tail(s4) = <<d, e>> /\ s4 # <<>>
      BY <1>1
    <2>5. <<d, e>> \in Seq(Calls) /\ <<d, e>>[1] = d /\ Tail(<<d, e>>) = <<e>> /\ <<d, e>> # <<>>
      BY <1>1
    <2>6. B3 \subseteq OutNames /\ <<".cur_input">> \in OutNames
      BY NamesAtHand
    <2> HIDE DEF c, d, e, s4, B3
    <2>7. Leads(<<e>>, OutNames, OutNames)
      BY <2>3, <1>1, LeadsOne
    <2>8. Leads(<<d, e>>, free, OutNames)
      <3>1. (free \ Removes(d)) \cup Adds(d) \subseteq OutNames /\ Blocks(d) \cap free = {}
        BY <2>2, <2>6
      <3> HIDE DEF free
      <3> QED BY <3>1, <2>5, <2>7, LeadsFirst
    <2>9. (B3 \ Removes(c)) \cup Adds(c) \subseteq free
      BY <2>1, <2>6
    <2> HIDE DEF free
    <2>10. Leads(s4, B3, OutNames)
      BY <2>1, <2>4, <2>8, <2>9, LeadsFirst
    <2> QED BY <2>4, <2>10
  <1>6. ImportAndStart(resume) = s1 \o <<c2>> \o s3 \o s4
    BY DEF ImportAndStart
  <1>7. Len(s4) = 3
    OBVIOUS
  <1> HIDE DEF s1, c2, s3, s4, B3
  <1> DEFINE r2 == s1 \o <<c2>>
             r3 == r2 \o s3
  <1>8. r2 \in Seq(Calls) /\ Leads(r2, OutNames, OutNames)
    BY <1>2, <1>3, LeadsJoin
  <1> HIDE DEF r2
  <1>9. r3 \in Seq(Calls) /\ Leads(r3, OutNames, B3)
    BY <1>4, <1>8, LeadsJoin
  <1> HIDE DEF r3
  <1>10. r3 \o s4 \in Seq(Calls) /\ Leads(r3 \o s4, OutNames, OutNames)
    BY <1>5, <1>9, LeadsJoin
  <1>11. Len(r3 \o s4) > 0
    BY <1>7, <1>5, <1>9
  <1> QED BY <1>6, <1>10, <1>11 DEF r2, r3

\* A whole set-up of a directory that was found, whatever it holds.
LEMMA SetUpLeads ==
  ASSUME NEW resume \in BOOLEAN, NEW sync \in BOOLEAN
  PROVE  LET s == DeleteOutDir(resume) \o CreateDirs(resume, sync) \o ImportAndStart(resume)
         IN s \in Seq(Calls) /\ s # <<>> /\ Leads(s, OutNames, OutNames)
  <1> DEFINE r == DeleteOutDir(resume) \o CreateDirs(resume, sync)
             i == ImportAndStart(resume)
  <1>1. r \in Seq(Calls) /\ Leads(r, OutNames, OutNames)
    BY OldRemoved, NewCreated, LeadsJoin
  <1>2. i \in Seq(Calls) /\ Leads(i, OutNames, OutNames)
    BY InputsImported
  <1> HIDE DEF r
  <1>3. r \o i \in Seq(Calls) /\ Leads(r \o i, OutNames, OutNames)
    BY <1>1, <1>2, LeadsJoin
  <1>4. Len(i) > 0
    BY InputsImported
  <1> HIDE DEF i
  <1>5. Len(r \o i) = Len(r) + Len(i) /\ Len(r) \in Nat /\ Len(i) \in Nat
    BY <1>1, <1>2
  <1>6. r \o i # <<>>
    BY <1>4, <1>5
  <1> QED BY <1>3, <1>6 DEF r, i

LockTypes ==
  /\ locked_by \in SUBSET OutJobs
  /\ out_step \in [OutJobs -> {"off", "mkdir", "flock", "made", "found", "set up", "run", "failed", "refused"}]

\* The first part of SetUpHolds: an instance has the directory for itself once it
\* has locked it.
OneOwner == \A i \in OutJobs : Owns(i) => locked_by = {i}

\* The lock that one has taken is that one's alone, whatever the directory holds.
LockInv == LockTypes /\ OneOwner

LEMMA LockTaken ==
  ASSUME LockInv, NEW i \in OutJobs, Flock(i)
  PROVE  LockInv'
  <1> USE DEF LockInv, LockTypes, OneOwner, Owns, Flock
  <1>1. CASE locked_by # {}
    BY <1>1
  <1>2. CASE locked_by = {}
    <2>1. locked_by' = {i} /\ \A k \in OutJobs \ {i} : out_step'[k] = out_step[k]
      BY <1>2
    <2>2. \A k \in OutJobs : ~Owns(k)
      BY <1>2
    <2> QED BY <1>2, <2>1, <2>2
  <1> QED BY <1>1, <1>2

LEMMA LockLeft ==
  ASSUME LockInv, NEW i \in OutJobs, GoneFrom(i)
  PROVE  LockInv'
  <1> USE DEF LockInv, LockTypes, OneOwner, Owns, GoneFrom
  <1>1. LockTypes'
    OBVIOUS
  <1>2. ASSUME NEW k \in OutJobs, Owns(k)' PROVE locked_by' = {k}
    <2>1. k # i /\ out_step'[k] = out_step[k]
      BY <1>2
    <2> QED BY <1>2, <2>1
  <1> QED BY <1>1, <1>2

\* What an instance goes to next takes no lock, and only who holds it goes on.
LEMMA LockKept ==
  ASSUME LockInv, NEW i \in OutJobs, locked_by' = locked_by,
         NEW s \in {"mkdir", "flock", "set up", "run", "failed", "refused"},
         out_step' = [out_step EXCEPT ![i] = s],
         s \in {"set up", "run", "failed"} => Owns(i)
  PROVE  LockInv'
  <1> USE DEF LockInv, LockTypes, OneOwner, Owns
  <1>1. LockTypes'
    OBVIOUS
  <1>2. ASSUME NEW k \in OutJobs, Owns(k)' PROVE locked_by' = {k}
    <2>1. Owns(k)
      BY <1>2
    <2> QED BY <2>1
  <1> QED BY <1>1, <1>2

-----------------------------------------------------------------------------
(* The instances. *)

\* A call that removes nothing a session has saved.
Harmless(c) ==
  c.call \in {"mkdir", "mkdir?", "link", "stats"} \/ c = Call("unlink", <<".cur_input">>)

DirTypes ==
  /\ paths \subseteq OutNames \cup {<<>>}
  /\ todo_calls \in [OutJobs -> Seq(Calls)]
  /\ in_place \in [OutJobs -> BOOLEAN] /\ made \in [OutJobs -> BOOLEAN]
  /\ run_time \in {"none", "torn", "short", "long"}

\* What is left to do of the set-up of i.
SetUpOf(i) ==
  /\ ~made[i] => Leads(todo_calls[i], paths \cap OutNames, OutNames)
  /\ made[i] => \A k \in 1 .. Len(todo_calls[i]) : Harmless(todo_calls[i][k])
  /\ in_place[i] => \A k \in 1 .. Len(todo_calls[i]) : todo_calls[i][k].call # "forget"
  /\ ~made[i] /\ ~in_place[i] => last_run # "long"

OnItsWay(i) ==
  /\ out_step[i] = "flock" => ~(made[i] /\ in_place[i])
  /\ out_step[i] = "made" => made[i] /\ ~in_place[i]
  /\ out_step[i] = "found" => ~made[i]
  /\ out_step[i] = "failed" => made[i]
  /\ out_step[i] = "set up" => SetUpOf(i)

\* fuzzer_stats tells of a long session, or is torn, until another one fuzzes.
LongIsSeen == last_run = "long" => run_time \in {"torn", "long"}

DirInv == LockInv /\ DirTypes /\ LongIsSeen /\ \A i \in OutJobs : OnItsWay(i)

LEMMA OldNames ==
  ASSUME NEW p \in QueueNames("queue") \ {<<"queue">>}
  PROVE  OldQueue \o Tail(p) \in QueueNames("_resume")
  <1>1. OldQueue = <<"_resume">>
    BY DEF OldQueue
  <1>2. CASE p = <<"queue", "id">>
    <2>1. Tail(p) = <<"id">>
      BY <1>2
    <2>2. <<"_resume">> \o <<"id">> = <<"_resume", "id">>
      BY JoinedPaths
    <2> QED BY <1>1, <2>1, <2>2 DEF QueueNames
  <1>3. CASE p = <<"queue", ".state">>
    <2>1. Tail(p) = <<".state">>
      BY <1>3
    <2>2. <<"_resume">> \o <<".state">> = <<"_resume", ".state">>
      BY JoinedPaths
    <2> QED BY <1>1, <2>1, <2>2 DEF QueueNames
  <1>4. ASSUME NEW k \in Kinds, p = <<"queue", ".state", k>> PROVE OldQueue \o Tail(p) \in QueueNames("_resume")
    <2>1. Tail(p) = <<".state", k>>
      BY <1>4
    <2>2. <<"_resume">> \o <<".state", k>> = <<"_resume", ".state", k>>
      BY JoinedPaths
    <2> QED BY <1>1, <2>1, <2>2 DEF QueueNames
  <1>5. ASSUME NEW k \in Kinds, p = <<"queue", ".state", k, "id">> PROVE OldQueue \o Tail(p) \in QueueNames("_resume")
    <2>1. Tail(p) = <<".state", k, "id">>
      BY <1>5
    <2>2. <<"_resume">> \o <<".state", k, "id">> = <<"_resume", ".state", k, "id">>
      <3>1. \A a, b, c, d : <<a>> \o <<b, c, d>> = <<a, b, c, d>>
        BY JoinedPaths
      <3> QED BY ONLY <3>1
    <2> QED BY <1>1, <2>1, <2>2 DEF QueueNames
  <1> QED BY <1>2, <1>3, <1>4, <1>5 DEF QueueNames

LEMMA Linked ==
  FileIn(Queue) = <<"queue", "id">> /\ DetMark(Queue) = <<"queue", ".state", "deterministic_done", "id">>
  <1>1. <<"queue">> \o <<".state", "deterministic_done">> = <<"queue", ".state", "deterministic_done">>
    BY JoinedPaths
  <1>2. FileIn(<<"queue">>) = <<"queue", "id">>
    BY FilesIn
  <1>3. FileIn(<<"queue", ".state", "deterministic_done">>) = <<"queue", ".state", "deterministic_done", "id">>
    BY FilesIn
  <1> QED BY <1>1, <1>2, <1>3 DEF DetMark, Queue

LEMMA InsideUnder ==
  ASSUME DirTypes, NEW d \in OutNames
  PROVE  Inside(d) = Under(d) \cap paths
  <1>1. Len(d) \in Nat /\ \A l \in Nat : ~(0 > l)
    BY NamesAreTuples
  <1>2. <<>> \notin Inside(d)
    BY <1>1 DEF Inside
  <1>3. paths \subseteq OutNames \cup {<<>>}
    BY DEF DirTypes
  <1> QED BY <1>2, <1>3 DEF Inside, Under

\* What a call leaves.
LEMMA CallMade ==
  ASSUME DirTypes, NEW c \in Calls
  PROVE  /\ Fails(c) => Blocks(c) \cap paths # {}
         /\ Left(c) \subseteq OutNames \cup {<<>>}
         /\ Again(c) => Left(c) \subseteq paths
         /\ ~Again(c) => Left(c) \subseteq (paths \ Removes(c)) \cup Adds(c)
         /\ Harmless(c) => paths \subseteq Left(c) \cup {<<".cur_input">>}
  <1>1. c.call \in CallNames /\ (c.call \notin {"forget", "stats"} => c.on \in OutNames)
        /\ paths \subseteq OutNames \cup {<<>>} /\ Queue \in OutNames /\ OldQueue \in OutNames
    BY NamesAtHand DEF Calls, DirTypes, Queue, OldQueue
  <1>2. CASE c.call \in {"mkdir", "mkdir?"}
    <2>1. Left(c) = paths \cup {c.on} /\ ~Again(c) /\ Removes(c) = {} /\ Adds(c) = {c.on}
      BY <1>2 DEF Left, Again, Removes, Adds
    <2>2. Fails(c) => c.call = "mkdir" /\ c.on \in paths
      BY <1>2 DEF Fails
    <2>3. c.call = "mkdir" => Blocks(c) = {c.on}
      BY DEF Blocks
    <2> QED BY <1>1, <1>2, <2>1, <2>2, <2>3
  <1>3. CASE c.call \in {"unlink", "rmdir"}
    <2>1. Left(c) = paths \ {c.on} /\ ~Again(c) /\ Removes(c) = {c.on}
      BY <1>3 DEF Left, Again, Removes
    <2>2. Fails(c) => c.call = "rmdir" /\ Inside(c.on) # {}
      BY <1>3 DEF Fails
    <2>3. c.call = "rmdir" => Blocks(c) = Under(c.on)
      BY DEF Blocks
    <2>4. Inside(c.on) = Under(c.on) \cap paths
      BY <1>1, <1>3, InsideUnder
    <2>5. Harmless(c) => c.on = <<".cur_input">>
      BY <1>3 DEF Harmless, Call
    <2> QED BY <1>1, <2>1, <2>2, <2>3, <2>4, <2>5
  <1>4. CASE c.call = "delete"
    <2>1. Left(c) = paths \ {IF FileIn(c.on) \in paths THEN FileIn(c.on) ELSE c.on}
      BY <1>4 DEF Left
    <2>2. (Again(c) <=> FileIn(c.on) \in paths) /\ Removes(c) = {c.on, FileIn(c.on)}
          /\ Blocks(c) = Under(c.on) \ {FileIn(c.on)}
      BY <1>4 DEF Again, Removes, Blocks
    <2>3. Fails(c) => FileIn(c.on) \notin paths /\ Inside(c.on) # {}
      BY <1>4 DEF Fails
    <2>4. Inside(c.on) = Under(c.on) \cap paths
      BY <1>1, <1>4, InsideUnder
    <2>5. ~Harmless(c)
      BY <1>4 DEF Harmless, Call
    <2> QED BY <1>1, <2>1, <2>2, <2>3, <2>4, <2>5
  <1>5. CASE c.call = "keep"
    <2>1. Left(c) = paths \ (Inside(c.on) \cup {c.on}) /\ ~Again(c) /\ ~Fails(c)
          /\ Removes(c) = Under(c.on) \cup {c.on}
      BY <1>5 DEF Left, Again, Fails, Removes
    <2>2. Inside(c.on) = Under(c.on) \cap paths
      BY <1>1, <1>5, InsideUnder
    <2>3. ~Harmless(c)
      BY <1>5 DEF Harmless, Call
    <2> QED BY <1>1, <2>1, <2>2, <2>3
  <1>6. CASE c.call = "move"
    <2>1. ~Again(c) /\ ~Fails(c) /\ Removes(c) = {} /\ Adds(c) = QueueNames("_resume") /\ ~Harmless(c)
      BY <1>6 DEF Again, Fails, Removes, Adds, Harmless, Call
    <2>2. Left(c) = IF Queue \notin paths \/ Inside(OldQueue) # {} THEN paths
                    ELSE (paths \ (Inside(Queue) \cup {Queue})) \cup {OldQueue}
                           \cup {OldQueue \o Tail(p) : p \in Inside(Queue)}
      BY <1>6 DEF Left
    <2>3. Inside(Queue) \subseteq QueueNames("queue") \ {<<"queue">>} /\ Queue \in QueueNames("queue")
      <3>1. Inside(Queue) \subseteq Under(Queue)
        BY <1>1, InsideUnder
      <3> QED BY <3>1, UnderQueue DEF Queue, QueueNames
    <2>4. \A p \in Inside(Queue) : OldQueue \o Tail(p) \in QueueNames("_resume")
      BY <2>3, OldNames
    <2>5. OldQueue \in QueueNames("_resume") /\ QueueNames("_resume") \subseteq OutNames
      BY NamesAtHand DEF OldQueue, QueueNames
    <2>6. Left(c) \subseteq paths \cup QueueNames("_resume")
      <3>1. {OldQueue \o Tail(p) : p \in Inside(Queue)} \subseteq QueueNames("_resume")
        BY <2>4
      <3> QED BY <2>2, <2>5, <3>1
    <2> QED BY <1>1, <2>1, <2>5, <2>6
  <1>7. CASE c.call = "link"
    <2>1. ~Again(c) /\ ~Fails(c) /\ Removes(c) = {}
          /\ Adds(c) = {<<"queue", "id">>, <<"queue", ".state", "deterministic_done", "id">>}
      BY <1>7 DEF Again, Fails, Removes, Adds
    <2>2. Left(c) = paths \cup {FileIn(Queue)} \cup (IF DetMark(OldQueue) \in paths THEN {DetMark(Queue)} ELSE {})
      BY <1>7 DEF Left
    <2> QED BY <1>1, <2>1, <2>2, Linked, NamesAtHand
  <1>8. CASE c.call \in {"forget", "read", "stats"}
    <2>1. ~Fails(c) /\ Left(c) = paths /\ Removes(c) = {}
      BY <1>8 DEF Fails, Left, Removes
    <2> QED BY <1>1, <2>1
  <1> QED BY <1>1, <1>2, <1>3, <1>4, <1>5, <1>6, <1>7, <1>8 DEF CallNames

LEMMA LockNext ==
  ASSUME LockInv, [OutNext]_outVars
  PROVE  LockInv'
  <1>1. CASE OutNext
    <2> PICK i \in OutJobs :
          \/ StartOn(i) \/ MakeOutDir(i) \/ Flock(i) \/ TakeOutDir(i)
          \/ NextCall(i) \/ Saves(i) \/ RunsLong(i) \/ GoneFrom(i)
      BY <1>1 DEF OutNext
    <2>1. CASE StartOn(i)
      BY <2>1, LockKept DEF StartOn
    <2>2. CASE MakeOutDir(i)
      BY <2>2, LockKept DEF MakeOutDir
    <2>3. CASE TakeOutDir(i)
      BY <2>3, LockKept DEF TakeOutDir, Owns
    <2>4. CASE NextCall(i)
      <3>1. locked_by' = locked_by /\ out_step[i] = "set up"
        BY <2>4 DEF NextCall
      <3>2. \E s \in {"failed", "refused", "run", "set up"} : out_step' = [out_step EXCEPT ![i] = s]
        BY <2>4 DEF NextCall
      <3> QED BY <3>1, <3>2, LockKept DEF Owns
    <2>5. CASE Saves(i) \/ RunsLong(i)
      BY <2>5 DEF Saves, RunsLong, LockInv, LockTypes, OneOwner, Owns
    <2> QED BY <2>1, <2>2, <2>3, <2>4, <2>5, LockTaken, LockLeft
  <1>2. CASE UNCHANGED outVars
    BY <1>2 DEF outVars, LockInv, LockTypes, OneOwner, Owns
  <1> QED BY <1>1, <1>2

\* An instance that does nothing is not disturbed: while it sets up the directory,
\* nobody else changes what it sees.
LEMMA OthersWait ==
  ASSUME DirInv, NEW k \in OutJobs,
         out_step'[k] = out_step[k], todo_calls'[k] = todo_calls[k],
         made'[k] = made[k], in_place'[k] = in_place[k],
         out_step[k] = "set up" => paths' \cap OutNames = paths \cap OutNames /\ last_run' = last_run
  PROVE  OnItsWay(k)'
  <1>1. OnItsWay(k)
    BY DEF DirInv
  <1>2. out_step[k] = "set up" => SetUpOf(k)'
    BY <1>1 DEF OnItsWay, SetUpOf
  <1> QED BY <1>1, <1>2 DEF OnItsWay

\* Who holds the lock is alone at it.
LEMMA OthersOut ==
  ASSUME DirInv, NEW i \in OutJobs, Owns(i), NEW k \in OutJobs, k # i
  PROVE  out_step[k] # "set up"
  BY DEF DirInv, LockInv, OneOwner, Owns

LEMMA StartOnInv ==
  ASSUME DirInv, NEW i \in OutJobs, StartOn(i)
  PROVE  DirInv'
  <1>1. LockInv'
    BY LockNext DEF DirInv, OutNext
  <1>2. DirTypes' /\ LongIsSeen'
    BY DEF DirInv, DirTypes, LongIsSeen, StartOn
  <1>3. ASSUME NEW k \in OutJobs, k # i PROVE OnItsWay(k)'
    <2>1. /\ out_step'[k] = out_step[k] /\ todo_calls' = todo_calls /\ made' = made
          /\ in_place'[k] = in_place[k] /\ paths' = paths /\ last_run' = last_run
      BY <1>3 DEF StartOn, DirInv, DirTypes, LockInv, LockTypes
    <2> QED BY <2>1, OthersWait
  <1>4. OnItsWay(i)'
    <2>1. out_step'[i] = "mkdir"
      BY DEF StartOn, DirInv, LockInv, LockTypes
    <2> QED BY <2>1 DEF OnItsWay
  <1> QED BY <1>1, <1>2, <1>3, <1>4 DEF DirInv

LEMMA DirIsNoName == <<>> \notin OutNames
  <1>1. /\ \A n \in {"queue", "_resume"} : <<>> \notin QueueNames(n)
    BY DEF QueueNames
  <1> QED BY <1>1 DEF OutNames

LEMMA MakeOutDirInv ==
  ASSUME DirInv, NEW i \in OutJobs, MakeOutDir(i)
  PROVE  DirInv'
  <1>1. LockInv'
    BY LockNext DEF DirInv, OutNext
  <1>2. DirTypes' /\ LongIsSeen'
    BY DEF DirInv, DirTypes, LongIsSeen, MakeOutDir
  <1>3. ASSUME NEW k \in OutJobs, k # i PROVE OnItsWay(k)'
    <2>1. /\ out_step'[k] = out_step[k] /\ todo_calls' = todo_calls /\ made'[k] = made[k]
          /\ in_place' = in_place /\ last_run' = last_run
      BY <1>3 DEF MakeOutDir, DirInv, DirTypes, LockInv, LockTypes
    <2>2. paths' \cap OutNames = paths \cap OutNames
      BY DirIsNoName DEF MakeOutDir
    <2> QED BY <2>1, <2>2, OthersWait
  <1>4. OnItsWay(i)'
    <2>1. /\ out_step'[i] \in {"refused", "flock"}
          /\ out_step'[i] = "flock" => ~(made'[i] /\ in_place'[i])
      BY DEF MakeOutDir, DirInv, DirTypes, LockInv, LockTypes
    <2> QED BY <2>1 DEF OnItsWay
  <1> QED BY <1>1, <1>2, <1>3, <1>4 DEF DirInv

LEMMA FlockInv ==
  ASSUME DirInv, NEW i \in OutJobs, Flock(i)
  PROVE  DirInv'
  <1>1. LockInv'
    BY LockNext DEF DirInv, OutNext
  <1>2. DirTypes' /\ LongIsSeen'
    BY DEF DirInv, DirTypes, LongIsSeen, Flock
  <1>3. ASSUME NEW k \in OutJobs, k # i PROVE OnItsWay(k)'
    <2>1. /\ out_step'[k] = out_step[k] /\ todo_calls' = todo_calls /\ made' = made
          /\ in_place' = in_place /\ paths' = paths /\ last_run' = last_run
      BY <1>3 DEF Flock, DirInv, DirTypes, LockInv, LockTypes
    <2> QED BY <2>1, OthersWait
  <1>4. OnItsWay(i)'
    <2>1. ~(made[i] /\ in_place[i]) /\ made[i] \in BOOLEAN /\ in_place[i] \in BOOLEAN
      BY DEF Flock, DirInv, DirTypes, OnItsWay
    <2>2. /\ made'[i] = made[i] /\ in_place'[i] = in_place[i]
          /\ out_step'[i] \in {"refused", "made", "found"}
          /\ (out_step'[i] = "made" => made[i]) /\ (out_step'[i] = "found" => ~made[i])
      BY DEF Flock, DirInv, LockInv, LockTypes
    <2> QED BY <2>1, <2>2 DEF OnItsWay
  <1> QED BY <1>1, <1>2, <1>3, <1>4 DEF DirInv

LEMMA SavesInv ==
  ASSUME DirInv, NEW i \in OutJobs, Saves(i) \/ RunsLong(i)
  PROVE  DirInv'
  <1>1. LockInv'
    BY LockNext DEF DirInv, OutNext
  <1>2. paths' \subseteq OutNames \cup {<<>>}
    <2>1. Saveable \subseteq OutNames
      <3>1. \A n \in {".synced", "crashes", "hangs"} : FileIn(<<n>>) = <<n, "id">> /\ <<n, "id">> \in OutNames
        BY FilesIn DEF OutNames
      <3>2. FileIn(Queue) \in OutNames
        BY Linked, NamesAtHand
      <3>3. ASSUME NEW d \in InState(Queue) PROVE FileIn(d) \in OutNames
        <4>1. PICK k \in Kinds : d = Queue \o <<".state", k>>
          BY DEF InState, Kinds
        <4>2. Queue \o <<".state", k>> = <<"queue", ".state", k>>
          BY JoinedPaths DEF Queue
        <4>3. FileIn(<<"queue", ".state", k>>) = <<"queue", ".state", k, "id">>
          BY FilesIn
        <4> QED BY <4>1, <4>2, <4>3 DEF OutNames, QueueNames
      <3>4. Readme \in OutNames /\ <<"fuzz_bitmap">> \in OutNames
        BY NamesAtHand DEF Readme
      <3> QED BY <3>1, <3>2, <3>3, <3>4 DEF Saveable
    <2>2. \A f \in OutFinds : f \subseteq OutNames
      BY <2>1, OutAssumption
    <2> QED BY <2>2 DEF Saves, RunsLong, DirInv, DirTypes
  <1>3. DirTypes' /\ LongIsSeen'
    BY <1>2 DEF DirInv, DirTypes, LongIsSeen, Saves, RunsLong
  <1>4. out_step[i] = "run" /\ out_step' = out_step /\ todo_calls' = todo_calls /\ made' = made /\ in_place' = in_place
    BY DEF Saves, RunsLong
  <1>5. ASSUME NEW k \in OutJobs PROVE OnItsWay(k)'
    <2>1. out_step[k] # "set up"
      BY <1>4, OthersOut DEF Owns
    <2> QED BY <2>1, <1>4, OthersWait
  <1> QED BY <1>1, <1>3, <1>5 DEF DirInv

LEMMA GoneFromInv ==
  ASSUME DirInv, NEW i \in OutJobs, GoneFrom(i)
  PROVE  DirInv'
  <1>1. LockInv'
    BY LockNext DEF DirInv, OutNext
  <1>2. DirTypes' /\ LongIsSeen'
    BY DEF DirInv, DirTypes, LongIsSeen, GoneFrom
  <1>3. ASSUME NEW k \in OutJobs, k # i PROVE OnItsWay(k)'
    <2>1. /\ out_step'[k] = out_step[k] /\ todo_calls'[k] = todo_calls[k] /\ made'[k] = made[k]
          /\ in_place'[k] = in_place[k] /\ paths' = paths /\ last_run' = last_run
      BY <1>3 DEF GoneFrom, DirInv, DirTypes, LockInv, LockTypes
    <2> QED BY <2>1, OthersWait
  <1>4. OnItsWay(i)'
    <2>1. out_step'[i] = "off"
      BY DEF GoneFrom, DirInv, LockInv, LockTypes
    <2> QED BY <2>1 DEF OnItsWay
  <1> QED BY <1>1, <1>2, <1>3, <1>4 DEF DirInv

\* Nothing is removed from a directory that was just made, and a resumed session
\* keeps fuzzer_stats.
LEMMA MadeCalls ==
  ASSUME NEW sync \in BOOLEAN
  PROVE  CreateDirs(FALSE, sync) \o ImportAndStart(FALSE) \in Seq({c \in Calls : Harmless(c)})
  <1> DEFINE S == {c \in Calls : Harmless(c)}
  <1>1. /\ \A d \in OutNames : Call("mkdir", d) \in S /\ Call("link", d) \in S
        /\ Call("stats", <<"fuzzer_stats">>) \in S /\ Call("unlink", <<".cur_input">>) \in S
    BY NamesAtHand DEF Calls, Call, CallNames, Harmless
  <1> HIDE DEF S
  <1>2. CreateDirs(FALSE, sync) \in Seq(S)
    <2>1. /\ Call("mkdir", Queue) \in S /\ Call("mkdir", <<"queue", ".state">>) \in S
          /\ Call("mkdir", <<"queue", ".state", "deterministic_done">>) \in S
          /\ Call("mkdir", <<"queue", ".state", "auto_extras">>) \in S
          /\ Call("mkdir", <<"queue", ".state", "redundant_edges">>) \in S
          /\ Call("mkdir", <<"queue", ".state", "variable_behavior">>) \in S
          /\ Call("mkdir", <<".synced">>) \in S /\ Call("mkdir", <<"crashes">>) \in S
          /\ Call("mkdir", <<"hangs">>) \in S /\ Call("mkdir", <<"plot_data">>) \in S
      BY <1>1, NamesAtHand DEF Queue
    <2> QED BY <2>1 DEF CreateDirs
  <1>3. ImportAndStart(FALSE) \in Seq(S)
    <2>1. /\ Call("link", Queue) \in S /\ Call("mkdir", <<".cur_input">>) \in S
      BY <1>1, NamesAtHand DEF Queue
    <2> QED BY <1>1, <2>1 DEF ImportAndStart
  <1>4. CreateDirs(FALSE, sync) \o ImportAndStart(FALSE) \in Seq(S)
    <2> DEFINE a == CreateDirs(FALSE, sync)
               b == ImportAndStart(FALSE)
    <2>1. a \in Seq(S) /\ b \in Seq(S)
      BY <1>2, <1>3
    <2> HIDE DEF a, b
    <2>2. a \o b \in Seq(S)
      BY <2>1
    <2> QED BY <2>2 DEF a, b
  <1> QED BY <1>4 DEF S

LEMMA ResumeCalls ==
  ASSUME NEW sync \in BOOLEAN
  PROVE  DeleteOutDir(TRUE) \o CreateDirs(TRUE, sync) \o ImportAndStart(TRUE)
           \in Seq({c \in Calls : c.call # "forget"})
  <1> DEFINE S == {c \in Calls : c.call # "forget"}
  <1>1. \A d \in OutNames, n \in CallNames : n # "forget" => Call(n, d) \in S
    BY DEF Calls, Call
  <1>2. Call("stats", <<"fuzzer_stats">>) \in S
    BY DEF Calls, Call, CallNames
  <1> HIDE DEF S
  <1>3. \A d \in OutNames :
          /\ Call("move", d) \in S /\ Call("delete", d) \in S /\ Call("rmdir", d) \in S
          /\ Call("keep", d) \in S /\ Call("unlink", d) \in S /\ Call("mkdir", d) \in S
          /\ Call("mkdir?", d) \in S /\ Call("read", d) \in S /\ Call("link", d) \in S
    BY <1>1 DEF CallNames
  <1>4. ASSUME NEW n \in {"queue", "_resume"} PROVE DeleteCases(<<n>>) \in Seq(S)
    <2>1. /\ <<n>> \o <<".state", "deterministic_done">> = <<n, ".state", "deterministic_done">>
          /\ <<n>> \o <<".state", "auto_extras">> = <<n, ".state", "auto_extras">>
          /\ <<n>> \o <<".state", "redundant_edges">> = <<n, ".state", "redundant_edges">>
          /\ <<n>> \o <<".state", "variable_behavior">> = <<n, ".state", "variable_behavior">>
          /\ Append(<<n>>, ".state") = <<n, ".state">>
      <3> DEFINE T(a, b) == <<n>> \o <<a, b>> = <<n, a, b>>
      <3>1. \A a, b : T(a, b)
        BY JoinedPaths
      <3>2. Append(<<n>>, ".state") = <<n, ".state">>
        BY JoinedPaths
      <3> QED BY ONLY <3>1, <3>2
    <2>2. <<n>> \in OutNames /\ <<n, ".state">> \in OutNames /\ \A k \in Kinds : <<n, ".state", k>> \in OutNames
      BY DEF OutNames, QueueNames
    <2>3. /\ <<n, ".state", "deterministic_done">> \in OutNames /\ <<n, ".state", "auto_extras">> \in OutNames
          /\ <<n, ".state", "redundant_edges">> \in OutNames /\ <<n, ".state", "variable_behavior">> \in OutNames
      BY <2>2 DEF Kinds
    <2>4. << Call("delete", <<n, ".state", "deterministic_done">>), Call("delete", <<n, ".state", "auto_extras">>),
             Call("delete", <<n, ".state", "redundant_edges">>), Call("delete", <<n, ".state", "variable_behavior">>),
             Call("rmdir", <<n, ".state">>), Call("delete", <<n>>) >> \in Seq(S)
      BY <1>3, <2>2, <2>3
    <2> QED BY <2>1, <2>4 DEF DeleteCases
  <1>5. DeleteOutDir(TRUE) \in Seq(S)
    <2>1. /\ Call("move", Queue) \in S /\ Call("keep", <<"crashes">>) \in S /\ Call("delete", <<"crashes">>) \in S
          /\ Call("keep", <<"hangs">>) \in S /\ Call("delete", <<"hangs">>) \in S
          /\ Call("unlink", <<".cur_input">>) \in S /\ Call("unlink", <<"fuzz_bitmap">>) \in S
          /\ Call("unlink", <<"plot_data">>) \in S
      BY <1>3, NamesAtHand DEF Queue
    <2>2. DeleteCases(Queue) \in Seq(S)
      BY <1>4 DEF Queue
    <2> QED BY <2>1, <2>2 DEF DeleteOutDir
  <1>6. CreateDirs(TRUE, sync) \in Seq(S)
    <2>1. /\ Call("mkdir", Queue) \in S /\ Call("mkdir", <<"queue", ".state">>) \in S
          /\ Call("mkdir", <<"queue", ".state", "deterministic_done">>) \in S
          /\ Call("mkdir", <<"queue", ".state", "auto_extras">>) \in S
          /\ Call("mkdir", <<"queue", ".state", "redundant_edges">>) \in S
          /\ Call("mkdir", <<"queue", ".state", "variable_behavior">>) \in S
          /\ Call("mkdir?", <<".synced">>) \in S /\ Call("mkdir", <<"crashes">>) \in S
          /\ Call("mkdir", <<"hangs">>) \in S /\ Call("mkdir", <<"plot_data">>) \in S
      BY <1>3, NamesAtHand DEF Queue
    <2> QED BY <2>1 DEF CreateDirs
  <1>7. ImportAndStart(TRUE) \in Seq(S)
    <2>1. /\ Call("read", OldQueue) \in S /\ Call("link", Queue) \in S
          /\ Call("unlink", <<".cur_input">>) \in S /\ Call("mkdir", <<".cur_input">>) \in S
      BY <1>3, NamesAtHand DEF Queue, OldQueue
    <2>2. DeleteCases(OldQueue) \in Seq(S)
      BY <1>4 DEF OldQueue
    <2> QED BY <1>2, <2>1, <2>2 DEF ImportAndStart
  <1>8. DeleteOutDir(TRUE) \o CreateDirs(TRUE, sync) \o ImportAndStart(TRUE) \in Seq(S)
    <2> DEFINE a == DeleteOutDir(TRUE)
               b == CreateDirs(TRUE, sync)
               e == ImportAndStart(TRUE)
    <2>1. a \in Seq(S) /\ b \in Seq(S) /\ e \in Seq(S)
      BY <1>5, <1>6, <1>7
    <2> HIDE DEF a, b, e
    <2>2. a \o b \o e \in Seq(S)
      BY <2>1
    <2> QED BY <2>2 DEF a, b, e
  <1> QED BY <1>8 DEF S

LEMMA TakeOutDirInv ==
  ASSUME DirInv, NEW i \in OutJobs, TakeOutDir(i)
  PROVE  DirInv'
  <1>1. LockInv'
    BY LockNext DEF DirInv, OutNext
  <1>2. ASSUME NEW k \in OutJobs, k # i PROVE OnItsWay(k)'
    <2>1. /\ out_step'[k] = out_step[k] /\ todo_calls'[k] = todo_calls[k] /\ made' = made
          /\ in_place' = in_place /\ paths' = paths /\ last_run' = last_run
      BY <1>2 DEF TakeOutDir, DirInv, DirTypes, LockInv, LockTypes
    <2> QED BY <2>1, OthersWait
  <1>3. /\ paths' = paths /\ in_place' = in_place /\ made' = made /\ run_time' = run_time /\ last_run' = last_run
        /\ in_place[i] \in BOOLEAN /\ made[i] \in BOOLEAN /\ DirTypes /\ LongIsSeen /\ OnItsWay(i)
        /\ out_step[i] \in {"made", "found"} /\ i \in DOMAIN out_step /\ i \in DOMAIN todo_calls
    BY DEF TakeOutDir, DirInv, DirTypes, LockInv, LockTypes
  <1>4. CASE ~MayTake(i)
    <2>1. out_step'[i] = "refused" /\ todo_calls' = todo_calls
      BY <1>3, <1>4 DEF TakeOutDir
    <2>2. OnItsWay(i)'
      BY <2>1 DEF OnItsWay
    <2>3. DirTypes' /\ LongIsSeen'
      BY <1>3, <2>1 DEF DirTypes, LongIsSeen
    <2> QED BY <1>1, <1>2, <2>2, <2>3 DEF DirInv
  <1>5. CASE MayTake(i)
    <2> DEFINE s(sync) == (IF out_step[i] = "found" THEN DeleteOutDir(in_place[i]) ELSE <<>>)
                            \o CreateDirs(in_place[i], sync) \o ImportAndStart(in_place[i])
    <2>1. out_step'[i] = "set up" /\ \E sync \in BOOLEAN : todo_calls' = [todo_calls EXCEPT ![i] = s(sync)]
      BY <1>3, <1>5 DEF TakeOutDir
    <2>2. PICK sync \in BOOLEAN : todo_calls' = [todo_calls EXCEPT ![i] = s(sync)]
      BY <2>1
    <2>3. todo_calls'[i] = s(sync)
      BY <1>3, <2>2
    <2>4. s(sync) \in Seq(Calls) /\ SetUpOf(i)'
      <3>1. CASE out_step[i] = "made"
        <4>1. made[i] /\ ~in_place[i]
          BY <1>3, <3>1 DEF OnItsWay
        <4>2. CreateDirs(FALSE, sync) \in Seq(Calls) /\ ImportAndStart(FALSE) \in Seq(Calls)
          BY NewCreated, InputsImported
        <4>3. <<>> \o CreateDirs(FALSE, sync) = CreateDirs(FALSE, sync)
          BY <4>2
        <4>4. in_place[i] = FALSE
          BY <4>1, <1>3
        <4>5. s(sync) = CreateDirs(FALSE, sync) \o ImportAndStart(FALSE)
          BY <3>1, <4>3, <4>4
        <4>6. s(sync) \in Seq({c \in Calls : Harmless(c)})
          BY <4>5, MadeCalls
        <4> HIDE DEF s
        <4>7. s(sync) \in Seq(Calls) /\ \A k \in 1 .. Len(s(sync)) : Harmless(s(sync)[k])
          BY <4>6
        <4> QED BY <1>3, <2>3, <4>1, <4>7 DEF SetUpOf
      <3>2. CASE out_step[i] = "found"
        <4>1. ~made[i]
          BY <1>3, <3>2 DEF OnItsWay
        <4>2. s(sync) = DeleteOutDir(in_place[i]) \o CreateDirs(in_place[i], sync) \o ImportAndStart(in_place[i])
          BY <3>2
        <4>3. s(sync) \in Seq(Calls) /\ Leads(s(sync), OutNames, OutNames)
          BY <1>3, <4>2, SetUpLeads
        <4>4. in_place[i] => \A k \in 1 .. Len(s(sync)) : s(sync)[k].call # "forget"
          <5> SUFFICES ASSUME in_place[i] PROVE \A k \in 1 .. Len(s(sync)) : s(sync)[k].call # "forget"
            OBVIOUS
          <5>1. in_place[i] = TRUE
            BY <1>3
          <5>2. s(sync) \in Seq({c \in Calls : c.call # "forget"})
            BY <4>2, <5>1, ResumeCalls
          <5> HIDE DEF s
          <5> QED BY <5>2
        <4>5. ~in_place[i] => last_run # "long"
          BY <1>3, <1>5, <3>2 DEF MayTake, LongIsSeen
        <4> HIDE DEF s
        <4>6. \A k \in 1 .. Len(s(sync)) : Blocks(s(sync)[k]) \subseteq OutNames
          BY <4>3, BlocksAreNames
        <4>7. Leads(s(sync), paths \cap OutNames, OutNames)
          BY <4>3, <4>6, LeadsLess
        <4> QED BY <1>3, <2>3, <4>1, <4>3, <4>4, <4>5, <4>7 DEF SetUpOf
      <3> QED BY <1>3, <3>1, <3>2
    <2> HIDE DEF s
    <2>5. DirTypes' /\ LongIsSeen'
      BY <1>3, <2>2, <2>4 DEF DirTypes, LongIsSeen
    <2>6. OnItsWay(i)'
      BY <2>1, <2>4 DEF OnItsWay
    <2> QED BY <1>1, <1>2, <2>5, <2>6 DEF DirInv
  <1> QED BY <1>4, <1>5

LEMMA FirstCall ==
  ASSUME NEW s \in Seq(Calls), s # <<>>
  PROVE  /\ Head(s) = s[1] /\ Head(s) \in Calls /\ (\A k \in 1 .. Len(s) : s[k] \in Calls)
         /\ 1 \in 1 .. Len(s) /\ Tail(s) \in Seq(Calls) /\ Len(Tail(s)) = Len(s) - 1
         /\ \A k \in 1 .. Len(Tail(s)) : k + 1 \in 1 .. Len(s) /\ Tail(s)[k] = s[k + 1]
  <1>1. Len(s) \in Nat \ {0} /\ Tail(s) \in Seq(Calls) /\ Len(Tail(s)) = Len(s) - 1
    OBVIOUS
  <1>2. 1 \in 1 .. Len(s) /\ \A k \in 1 .. Len(s) : s[k] \in Calls
    BY <1>1
  <1>3. \A k \in 1 .. Len(Tail(s)) : k + 1 \in 1 .. Len(s) /\ Tail(s)[k] = s[k + 1]
    BY <1>1
  <1> QED BY <1>1, <1>2, <1>3

LEMMA NextCallInv ==
  ASSUME DirInv, NEW i \in OutJobs, NextCall(i)
  PROVE  /\ DirInv'
         /\ last_run = "long" /\ (Results \cap paths) \ paths' # {} => i \in locked_by /\ in_place[i] /\ out_step[i] = "set up"
  <1>1. LockInv'
    BY LockNext DEF DirInv, OutNext
  <1> DEFINE s == todo_calls[i]
             c == Head(s)
  <1>2. /\ out_step[i] = "set up" /\ s \in Seq(Calls) /\ s # <<>> /\ SetUpOf(i) /\ DirTypes /\ LongIsSeen
        /\ in_place' = in_place /\ made' = made /\ in_place[i] \in BOOLEAN /\ made[i] \in BOOLEAN
        /\ i \in DOMAIN out_step /\ i \in DOMAIN todo_calls /\ locked_by = {i}
    BY DEF NextCall, DirInv, DirTypes, LockInv, LockTypes, OnItsWay, OneOwner, Owns
  <1>3. c = s[1] /\ c \in Calls /\ (\A k \in 1 .. Len(s) : s[k] \in Calls) /\ 1 \in 1 .. Len(s) /\ Tail(s) \in Seq(Calls)
        /\ Len(Tail(s)) = Len(s) - 1 /\ \A k \in 1 .. Len(Tail(s)) : k + 1 \in 1 .. Len(s) /\ Tail(s)[k] = s[k + 1]
    <2>1. s \in Seq(Calls) /\ s # <<>>
      BY <1>2
    <2> HIDE DEF s
    <2> QED BY <2>1, FirstCall
  <1>4. ASSUME NEW k \in OutJobs, k # i PROVE OnItsWay(k)'
    <2>1. out_step'[k] = out_step[k] /\ todo_calls'[k] = todo_calls[k]
      BY <1>4, <1>2 DEF NextCall, DirTypes, DirInv, LockInv, LockTypes
    <2>2. out_step[k] # "set up"
      BY <1>2, <1>4, OthersOut DEF Owns
    <2> QED BY <1>2, <2>1, <2>2, OthersWait
  <1>5. ~made[i] => ~Fails(c)
    <2>1. ASSUME ~made[i], Fails(c) PROVE FALSE
      <3>1. PICK p \in Blocks(c) : p \in paths
        BY <1>2, <1>3, <2>1, CallMade
      <3>2. p \in OutNames
        BY <1>3, BlocksAreNames
      <3>3. Clears(s, paths \cap OutNames, 1, p)
        BY <1>2, <1>3, <2>1 DEF SetUpOf, Leads
      <3> QED BY <3>1, <3>2, <3>3 DEF Clears
    <2> QED BY <2>1
  <1>6. CASE /\ out_step' = [out_step EXCEPT ![i] = "failed"] \/ out_step' = [out_step EXCEPT ![i] = "refused"]
             /\ UNCHANGED <<paths, run_time, todo_calls, last_run>>
    <2>1. out_step'[i] = "failed" => made[i]
      BY <1>2, <1>5, <1>6 DEF NextCall
    <2>2. OnItsWay(i)'
      BY <1>2, <1>6, <2>1 DEF OnItsWay
    <2>3. DirTypes' /\ LongIsSeen'
      BY <1>2, <1>6 DEF DirTypes, LongIsSeen
    <2> QED BY <1>1, <1>4, <1>6, <2>2, <2>3 DEF DirInv
  <1>7. CASE /\ ~Fails(c)
             /\ paths' = Left(c)
             /\ todo_calls' = [todo_calls EXCEPT ![i] = IF Again(c) THEN @ ELSE Tail(@)]
             /\ run_time' = (CASE c.call = "forget" -> "none"
                               [] c.call = "stats" -> IF Again(c) THEN "torn" ELSE "short"
                               [] OTHER -> run_time)
             /\ last_run' = IF c.call = "stats" /\ ~Again(c) THEN "short" ELSE last_run
             /\ out_step' = [out_step EXCEPT ![i] = IF todo_calls'[i] = <<>> THEN "run" ELSE @]
    <2>1. todo_calls'[i] = IF Again(c) THEN s ELSE Tail(s)
      BY <1>2, <1>7
    <2>2. todo_calls'[i] \in Seq(Calls) /\ out_step'[i] \in {"run", "set up"}
      BY <1>2, <1>3, <1>7, <2>1
    <2>3. /\ c.call = "forget" => run_time' = "none" /\ last_run' = last_run
          /\ c.call = "stats" /\ Again(c) => run_time' = "torn" /\ last_run' = last_run
          /\ c.call = "stats" /\ ~Again(c) => run_time' = "short" /\ last_run' = "short"
          /\ c.call \notin {"forget", "stats"} => run_time' = run_time /\ last_run' = last_run
      BY <1>7
    <2>4. c.call = "forget" => last_run # "long"
      <3>1. made[i] => ~(c.call = "forget")
        <4>1. made[i] => Harmless(c)
          BY <1>2, <1>3 DEF SetUpOf
        <4>2. Harmless(c) => c.call \in {"mkdir", "mkdir?", "link", "stats", "unlink"}
          BY DEF Harmless, Call
        <4> QED BY <4>1, <4>2
      <3>2. in_place[i] => c.call # "forget"
        BY <1>2, <1>3 DEF SetUpOf
      <3> QED BY <1>2, <3>1, <3>2 DEF SetUpOf
    <2>5. DirTypes'
      <3>1. paths' \subseteq OutNames \cup {<<>>}
        BY <1>2, <1>3, <1>7, CallMade
      <3>2. run_time' \in {"none", "torn", "short", "long"}
        BY <1>2, <2>3 DEF DirTypes
      <3> QED BY <1>2, <1>7, <2>1, <2>2, <3>1, <3>2 DEF DirTypes
    <2>6. LongIsSeen'
      BY <1>2, <2>3, <2>4 DEF LongIsSeen
    <2>7. SetUpOf(i)'
      <3>1. ASSUME ~made[i] PROVE Leads(todo_calls'[i], paths' \cap OutNames, OutNames)
        <4>1. Leads(s, paths \cap OutNames, OutNames)
          BY <1>2, <3>1 DEF SetUpOf
        <4>2. CASE Again(c)
          <5>1. \A k \in 1 .. Len(s) : Blocks(s[k]) \subseteq OutNames
            <6> HIDE DEF s
            <6>1. \A k \in 1 .. Len(s) : s[k] \in Calls
              BY <1>3
            <6> QED BY <6>1, BlocksAreNames
          <5>2. (paths' \cap OutNames) \cap OutNames \subseteq paths \cap OutNames
            BY <1>2, <1>3, <1>7, <4>2, CallMade
          <5>3. Leads(s, paths' \cap OutNames, OutNames)
            BY <4>1, <5>1, <5>2, LeadsLess
          <5> QED BY <2>1, <4>2, <5>3
        <4>3. CASE ~Again(c)
          <5>1. paths' \cap OutNames \subseteq ((paths \cap OutNames) \ Removes(s[1])) \cup Adds(s[1])
            BY <1>2, <1>3, <1>7, <4>3, CallMade
          <5>2. Leads(Tail(s), paths' \cap OutNames, OutNames)
            BY <1>2, <4>1, <5>1, LeadsOn
          <5> QED BY <2>1, <4>3, <5>2
        <4> QED BY <4>2, <4>3
      <3>2. ASSUME made[i], NEW k \in 1 .. Len(todo_calls'[i]) PROVE Harmless(todo_calls'[i][k])
        BY <1>2, <1>3, <2>1, <3>2 DEF SetUpOf
      <3>3. ASSUME in_place[i], NEW k \in 1 .. Len(todo_calls'[i]) PROVE todo_calls'[i][k].call # "forget"
        BY <1>2, <1>3, <2>1, <3>3 DEF SetUpOf
      <3>4. ~made[i] /\ ~in_place[i] => last_run' # "long"
        BY <1>2, <2>3 DEF SetUpOf
      <3> QED BY <1>2, <3>1, <3>2, <3>3, <3>4 DEF SetUpOf
    <2>8. OnItsWay(i)'
      BY <2>2, <2>7 DEF OnItsWay
    <2>9. ASSUME last_run = "long", (Results \cap paths) \ paths' # {} PROVE in_place[i]
      <3>1. ASSUME ~in_place[i] PROVE FALSE
        <4>1. made[i]
          BY <1>2, <2>9, <3>1 DEF SetUpOf
        <4>2. Harmless(c)
          BY <1>2, <1>3, <4>1 DEF SetUpOf
        <4>3. paths \subseteq paths' \cup {<<".cur_input">>}
          BY <1>2, <1>3, <1>7, <4>2, CallMade
        <4>4. <<".cur_input">> \notin Results
          <5>1. /\ FileIn(Queue) = <<"queue", "id">> /\ FileIn(OldQueue) = <<"_resume", "id">>
                /\ FileIn(<<"crashes">>) = <<"crashes", "id">> /\ FileIn(<<"hangs">>) = <<"hangs", "id">>
            BY FilesIn DEF Queue, OldQueue
          <5> QED BY <5>1 DEF Results
        <4> QED BY <2>9, <4>3, <4>4
      <3> QED BY <3>1
    <2> QED BY <1>1, <1>2, <1>4, <2>5, <2>6, <2>8, <2>9 DEF DirInv
  <1> QED BY <1>6, <1>7 DEF NextCall

\* However starts, kills, failed set-ups and sessions follow each other and overlap
\* (maybe_delete_out_dir(), setup_dirs_fds(), nuke_resume_dir()): one instance at
\* a time has the output directory; one that has found it can set it up, whatever
\* the ones before have left; what a long session has saved is deleted by a
\* resumed session alone.
THEOREM DirectorySetUp == OutSpec => SetUpHolds
  <1> DEFINE deletes == (Results \cap paths) \ paths' # {}
             resumes == \E i \in locked_by : in_place[i] /\ out_step[i] = "set up"
  <1>1. OutInit => DirInv
    <2> SUFFICES ASSUME OutInit PROVE DirInv
      OBVIOUS
    <2>1. LockInv
      BY DEF OutInit, LockInv, LockTypes, OneOwner, Owns
    <2>2. DirTypes
      BY DEF OutInit, DirTypes
    <2> QED BY <2>1, <2>2 DEF OutInit, DirInv, LongIsSeen, OnItsWay
  <1>2. DirInv /\ [OutNext]_outVars => DirInv' /\ [last_run = "long" /\ deletes => resumes]_outVars
    <2> SUFFICES ASSUME DirInv, [OutNext]_outVars
                 PROVE  DirInv' /\ [last_run = "long" /\ deletes => resumes]_outVars
      OBVIOUS
    <2>1. CASE OutNext
      <3> PICK i \in OutJobs :
            \/ StartOn(i) \/ MakeOutDir(i) \/ Flock(i) \/ TakeOutDir(i)
            \/ NextCall(i) \/ Saves(i) \/ RunsLong(i) \/ GoneFrom(i)
        BY <2>1 DEF OutNext
      <3>1. CASE NextCall(i)
        BY <3>1, NextCallInv
      <3>2. CASE StartOn(i) \/ MakeOutDir(i) \/ Flock(i) \/ TakeOutDir(i) \/ Saves(i) \/ RunsLong(i) \/ GoneFrom(i)
        <4>1. paths \subseteq paths'
          BY <3>2 DEF StartOn, MakeOutDir, Flock, TakeOutDir, Saves, RunsLong, GoneFrom
        <4>2. ~deletes
          BY <4>1
        <4>3. DirInv'
          BY <3>2, StartOnInv, MakeOutDirInv, FlockInv, TakeOutDirInv, SavesInv, GoneFromInv
        <4> QED BY <4>2, <4>3
      <3> QED BY <3>1, <3>2
    <2>2. CASE UNCHANGED outVars
      <3> USE <2>2 DEF outVars
      <3>1. LockInv'
        BY LockNext DEF DirInv
      <3>2. DirTypes' /\ LongIsSeen'
        BY DEF DirInv, DirTypes, LongIsSeen
      <3>3. \A k \in OutJobs : OnItsWay(k)'
        BY OthersWait
      <3> QED BY <3>1, <3>2, <3>3 DEF DirInv
    <2> QED BY <2>1, <2>2
  <1>3. DirInv => /\ \A i \in OutJobs : Owns(i) => locked_by = {i}
                  /\ \A i \in OutJobs : out_step[i] = "failed" => made[i]
    BY DEF DirInv, LockInv, OneOwner, OnItsWay
  <1> QED BY <1>1, <1>2, <1>3, PTL DEF OutSpec, SetUpHolds
=============================================================================
