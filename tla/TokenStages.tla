------------------------------- MODULE TokenStages -------------------------------
(***************************************************************************)
(* What fuzz_one() does with the dictionaries: it collects tokens while it *)
(* flips the lowest bit of each byte, writes the user's tokens over the    *)
(* input at each offset, inserts them at each offset, and writes the       *)
(* tokens of the session over it.  The buffer is not restored between two  *)
(* tokens of one offset, and the input with an insertion is built up from  *)
(* offset to offset.  A checksum is "orig", the entry's own, or another.   *)
(***************************************************************************)
EXTENDS Dictionary, Entry

CONSTANTS
  Cksums,    \* checksums other than the entry's own
  MaxFile    \* MAX_FILE

ASSUME MaxFileAssumption == MaxFile \in Nat

VARIABLES
  out_buf,      \* what runs; ex_tmp while tokens are inserted
  q_extras,     \* queue_cur->extras
  a_collect, a_len, prev_cksum,
  i, j,         \* offset and token of the loops, from 1
  last_len,
  offered,      \* what maybe_add_auto() was called with
  cksums,       \* the checksums of the runs, by offset
  ran,          \* the inputs run by the stage at hand
  step

entryVars == <<in_buf, out_buf, eff_map, q_extras>>
collectVars == <<a_collect, a_len, prev_cksum, offered, cksums>>
loopVars == <<i, j, last_len, ran>>
tokenVars == <<dictVars, entryVars, collectVars, loopVars, step>>

Orig == "orig"

-----------------------------------------------------------------------------
(* calibrate_case(): the tokens of an optimized dictionary that belong to    *)
(* what the entry reaches, in the order of extras[], none twice.             *)

EntryExtras(reached) ==
  LET first == {k \in reached : \A a \in reached : a < k => extras[a] # extras[k]}
  IN {[k \in 1 .. Cardinality(first) |-> extras[p[k]]] :
        p \in {p \in [1 .. Cardinality(first) -> first] :
                 \A a, b \in 1 .. Cardinality(first) : a < b => p[a] < p[b]}}

\* An entry is taken: with -d only an optimized dictionary brings it here,
\* without an effector map.
Take ==
  /\ step = "idle" /\ phase = "run" /\ saving = 0
  /\ in_buf' \in Inputs
  /\ out_buf' = in_buf'
  /\ IF dict_type = "optimized"
       THEN \E reached \in SUBSET (1 .. Len(extras)) : q_extras' \in EntryExtras(reached)
       ELSE q_extras' = <<>>
  /\ \/ step' = "collect"
     \/ step' = "over" /\ dict_type = "optimized"
  /\ eff_map' = 0 .. (Len(in_buf') - 1) \div EffScale    \* without a map all counts
  /\ UNCHANGED <<dictVars, collectVars, loopVars>>

-----------------------------------------------------------------------------
(* bitflip 1/1 *)

\* One more byte of a token: a_len goes on past the room there is.
Grown(tok) == IF a_len < MaxAutoExtra THEN Append(tok, in_buf[i]) ELSE tok
InLimits(n) == n \in MinAutoExtra .. MaxAutoExtra

Offer(t) == offered' = offered \cup {t} /\ MaybeAddAuto(t)
NoOffer == UNCHANGED <<offered, a_extras, auto_changed>>

\* (faulty) the token goes on when one distinct checksum follows another.
CollectNoReset(c) ==
  LET last == i = len
      ends == c # prev_cksum
  IN /\ IF last /\ c = prev_cksum
          THEN IF InLimits(a_len + 1) THEN Offer(Grown(a_collect)) ELSE NoOffer
          ELSE IF ends /\ c = Orig /\ InLimits(a_len) THEN Offer(a_collect) ELSE NoOffer
     /\ prev_cksum' = c
     /\ LET drop == ends /\ c = Orig
        IN /\ a_collect' = IF c # Orig THEN (IF drop THEN <<in_buf[i]>> ELSE Grown(a_collect)) ELSE IF drop THEN <<>> ELSE a_collect
           /\ a_len' = (IF drop THEN 0 ELSE a_len) + IF c # Orig THEN 1 ELSE 0

\* The lowest bit of byte i was flipped and the run had checksum c: at the end
\* of the file a token that goes on is offered with this byte; a checksum that
\* changes ends one; a byte that matters is added.
Collect(c) ==
  LET last == i = len
      ends == c # prev_cksum
  IN /\ IF last /\ ~ends
          THEN IF InLimits(a_len + 1) THEN Offer(Grown(a_collect)) ELSE NoOffer
          ELSE IF ends /\ InLimits(a_len) THEN Offer(a_collect) ELSE NoOffer
     /\ prev_cksum' = c
     /\ LET old == IF ends THEN <<>> ELSE a_collect
        IN /\ a_collect' = IF c = Orig THEN old
                           ELSE IF ends THEN <<in_buf[i]>> ELSE Grown(a_collect)
           /\ a_len' = (IF ends THEN 0 ELSE a_len) + IF c = Orig THEN 0 ELSE 1

CollectByte ==
  /\ step = "collect"
  /\ \E c \in Cksums \cup {Orig} : Collect(c) /\ cksums' = Append(cksums, c)
  /\ i' = i + 1
  /\ step' = IF i = len THEN "effector" ELSE step
  /\ UNCHANGED <<extras, dict_type, auto_files, old_files, saving, starts, phase,
                 entryVars, j, last_len, ran>>

\* What is collected is forgotten.
Forget ==
  /\ a_collect' = <<>> /\ a_len' = 0 /\ prev_cksum' = Orig
  /\ cksums' = <<>> /\ offered' = {}

\* The stages of DetStages: the first and the last offset always count, the
\* others as the runs of "bitflip 8/8" showed.
Effector ==
  /\ step = "effector"
  /\ \E some \in SUBSET (0 .. EffLen - 1) : eff_map' = some \cup {0, EffLen - 1}
  /\ step' = "over"
  /\ i' = 1
  /\ Forget
  /\ UNCHANGED <<dictVars, in_buf, out_buf, q_extras, j, last_len, ran>>

-----------------------------------------------------------------------------
(* The dictionary stages. *)

UserTokens == IF dict_type = "optimized" THEN q_extras ELSE extras
AutoTokens == [k \in Used |-> a_extras[k].data]
OverTokens == IF step = "over" THEN UserTokens ELSE AutoTokens

\* Nothing to write: too long, there already, or of no effect.
Redundant(t) ==
  \/ Len(t) > len - i + 1
  \/ SubSeq(out_buf, i, i + Len(t) - 1) = t
  \/ ~Effective(i, Len(t))

\* The end of the inner loop restores what the last token clobbered.
Restored == Over(out_buf, i, SubSeq(in_buf, i, i + last_len - 1))

\* One token at one offset.
OverToken ==
  /\ step \in {"over", "autoover"} /\ i <= len /\ j <= Len(OverTokens)
  /\ LET t == OverTokens[j]
     IN IF Redundant(t) THEN UNCHANGED <<out_buf, last_len, ran>>
        ELSE /\ out_buf' = Over(out_buf, i, t)
             /\ last_len' = Len(t)
             /\ ran' = ran \cup {out_buf'}
  /\ j' = j + 1
  /\ UNCHANGED <<dictVars, in_buf, eff_map, q_extras, collectVars, i, step>>

OverNextOffset ==
  /\ step \in {"over", "autoover"} /\ i <= len /\ j > Len(OverTokens)
  /\ out_buf' = Restored
  /\ i' = i + 1 /\ j' = 1 /\ last_len' = 0
  /\ UNCHANGED <<dictVars, in_buf, eff_map, q_extras, collectVars, ran, step>>

\* ex_tmp grows with the token and the tail behind the head.
InsertToken ==
  /\ step = "insert" /\ i <= len + 1 /\ j <= Len(UserTokens)
  /\ LET t == UserTokens[j]
         tmp == SubSeq(out_buf, 1, i - 1) \o t \o SubSeq(in_buf, i, len)
     IN IF len + Len(t) > MaxFile THEN UNCHANGED <<out_buf, ran>>
        ELSE out_buf' = tmp /\ ran' = ran \cup {tmp}
  /\ j' = j + 1
  /\ UNCHANGED <<dictVars, in_buf, eff_map, q_extras, collectVars, i, last_len, step>>

\* "Copy head"; behind the last byte of out_buf whatever is there is copied to
\* where it is never run.
HeadCopied == SubSeq(out_buf, 1, i - 1) \o (IF i <= len THEN <<in_buf[i]>> ELSE <<>>)

InsertNextOffset ==
  /\ step = "insert" /\ i <= len + 1 /\ j > Len(UserTokens)
  /\ out_buf' = HeadCopied
  /\ i' = i + 1 /\ j' = 1
  /\ UNCHANGED <<dictVars, in_buf, eff_map, q_extras, collectVars, last_len, ran, step>>

\* The entry is left.
NextEntry ==
  /\ step' = "idle"
  /\ in_buf' = <<>> /\ out_buf' = <<>> /\ eff_map' = {} /\ q_extras' = <<>>
  /\ i' = 1 /\ j' = 1 /\ last_len' = 0 /\ ran' = {}
  /\ Forget
  /\ UNCHANGED dictVars

StageDone ==
  /\ \/ step = "over" /\ i > len
     \/ step = "insert" /\ i > len + 1
  /\ step' = IF step = "over" /\ extras # <<>> THEN "insert" ELSE "autoover"
  /\ out_buf' = IF step' = "insert" THEN <<>> ELSE IF step = "insert" THEN in_buf ELSE out_buf
  /\ i' = 1 /\ j' = 1 /\ ran' = {}
  /\ UNCHANGED <<dictVars, in_buf, eff_map, q_extras, collectVars, last_len>>

\* Stopped, skipped, or too many timeouts, at any run.
AbandonEntry == step # "idle" /\ NextEntry

EntryDone == step = "autoover" /\ i > len /\ NextEntry

TokensStart ==
  /\ in_buf = <<>> /\ out_buf = <<>> /\ eff_map = {} /\ q_extras = <<>>
  /\ a_collect = <<>> /\ a_len = 0 /\ prev_cksum = Orig
  /\ i = 1 /\ j = 1 /\ last_len = 0
  /\ offered = {} /\ cksums = <<>> /\ ran = {} /\ step = "idle"

\* From where a start has read the dictionaries; what it has saved and how it
\* ends is in Dictionary.
TokensInit == DictInit /\ TokensStart

TokensNext ==
  \/ Take \/ CollectByte \/ Effector \/ OverToken \/ OverNextOffset
  \/ InsertToken \/ InsertNextOffset \/ StageDone \/ AbandonEntry \/ EntryDone
  \/ (Pivot \/ LoadExtras) /\ UNCHANGED <<entryVars, collectVars, loopVars, step>>

TokensSpec == TokensInit /\ [][TokensNext]_tokenVars

-----------------------------------------------------------------------------
(* Properties. *)

\* The bytes from a to b form a token: flipping any of them gives the same
\* checksum, not the entry's own, and their neighbours give another.
IsRun(a, b) ==
  /\ \A k \in a .. b : cksums[k] = cksums[a] /\ cksums[k] # Orig
  /\ a > 1 => cksums[a - 1] # cksums[a]
  /\ b < len => cksums[b + 1] # cksums[b]

\* "touching any character in the IHDR string always produces the same,
\* distinctive path": what is offered as a token is a whole such run, and every
\* run of the right length (and of two bytes at least) is offered, wherever in
\* the file it lies.
TokensAreRuns ==
  step = "effector" =>
    LET runs == {SubSeq(in_buf, p[1], p[2]) : p \in {p \in (1 .. len) \X (1 .. len) :
                  p[1] <= p[2] /\ InLimits(p[2] - p[1] + 1) /\ IsRun(p[1], p[2])}}
    IN {t \in offered : Len(t) > 1} = {t \in runs : Len(t) > 1}

\* "we don't have to worry about restoring the buffer in between writes at a
\* particular offset": every input the dictionary stages run is the entry with
\* one token written over it, or inserted, and the buffer is whole again when
\* the offset changes.
OneTokenAtATime ==
  /\ step \in {"over", "autoover"} =>
       /\ \A b \in ran : \E k \in 1 .. len, t \in {OverTokens[n] : n \in 1 .. Len(OverTokens)} :
            b = Over(in_buf, k, t)
       /\ j = 1 => out_buf = in_buf
  /\ step = "insert" =>
       \A b \in ran : \E k \in 0 .. len, t \in {UserTokens[n] : n \in 1 .. Len(UserTokens)} :
         b = SubSeq(in_buf, 1, k) \o t \o SubSeq(in_buf, k + 1, len)

\* No token is left out: at the end of a stage each was run at each offset where
\* it fits (and may have an effect), unless the input has it there already.
EveryTokenTried ==
  /\ step \in {"over", "autoover"} /\ i > len =>
       \A k \in 1 .. len, n \in 1 .. Len(OverTokens) :
         LET t == OverTokens[n]
         IN \/ Len(t) > len - k + 1
            \/ ~Effective(k, Len(t))
            \/ Over(in_buf, k, t) \in ran \cup {in_buf}
  /\ step = "insert" /\ i > len + 1 =>
       \A k \in 0 .. len, n \in 1 .. Len(UserTokens) :
         LET t == UserTokens[n]
         IN len + Len(t) > MaxFile \/ SubSeq(in_buf, 1, k) \o t \o SubSeq(in_buf, k + 1, len) \in ran

\* What is collected is what the input has, and what runs is what was collected.
TokenStagesExact == TokensAreRuns /\ OneTokenAtATime /\ EveryTokenTried
=============================================================================
