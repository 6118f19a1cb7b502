------------------------------- MODULE Dictionary -------------------------------
(***************************************************************************)
(* The two dictionaries of a session: extras, the user's (-x), and         *)
(* a_extras, the tokens found on the way, which are ranked, evicted, saved *)
(* under queue/.state/auto_extras and loaded again by the next session.    *)
(* A token is a sequence of bytes.  What finds tokens is left open here    *)
(* (see TokenStages); a start reads the saved ones, empties the old        *)
(* directory and then reads the user's file.                               *)
(***************************************************************************)
EXTENDS Values, FiniteSets

CONSTANTS
  Tokens,          \* what a -x file, or the input, may contain
  MinAutoExtra,    \* MIN_AUTO_EXTRA and MAX_AUTO_EXTRA, lengths
  MaxAutoExtra,
  MaxDictFile,     \* MAX_DICT_FILE, a length
  UseAutoExtras,   \* USE_AUTO_EXTRAS and MAX_AUTO_EXTRAS, numbers of tokens
  MaxAutoExtras,
  MaxUser,         \* bound on the entries of a -x file
  MaxHits,         \* bound on hit_cnt
  MaxStarts        \* bound on the sessions over one directory

ASSUME TokensAssumption == Tokens \subseteq (Seq(Byte) \ {<<>>})
ASSUME LengthsAssumption == MinAutoExtra \in Nat \ {0} /\ MaxAutoExtra \in Nat /\ MaxDictFile \in Nat
ASSUME TablesAssumption ==
  /\ UseAutoExtras \in Nat \ {0} /\ MaxAutoExtras \in Nat
  /\ 2 * UseAutoExtras <= MaxAutoExtras     \* ten times, in config.h
  /\ MaxHits \in Nat /\ MaxUser \in Nat /\ MaxStarts \in Nat

VARIABLES
  extras,        \* tokens of the user, sorted by length
  dict_type,     \* "original" or "optimized"
  a_extras,      \* records of data and hit_cnt
  auto_changed,
  auto_files,    \* queue/.state/auto_extras/auto_NNNNNN, by number from 1
  old_files,     \* the same of the directory the session starts from
  saving,        \* the next file save_auto() writes, 0 outside it
  starts,
  phase

dictVars == <<extras, dict_type, a_extras, auto_changed, auto_files, old_files, saving, starts, phase>>

-----------------------------------------------------------------------------
(* Tokens. *)

Lower(b) == IF b \in 65 .. 90 THEN b + 32 ELSE b

\* memcmp_nocase(): equal but for the case of letters.
SameNoCase(s, t) == Len(s) = Len(t) /\ \A k \in 1 .. Len(s) : Lower(s[k]) = Lower(t[k])

\* "Skip runs of identical bytes": a single byte is one.
RunOfOne(t) == \A k \in 1 .. Len(t) : t[k] = t[1]

\* (u16 against s16, both promoted to int: a negative value matches swapped only)
Builtin(t) ==
  \/ Len(t) = 2 /\ \E x \in Interesting16 : (x[2] < 128 /\ t = x) \/ t = Swap(x)
  \/ Len(t) = 4 /\ \E x \in Interesting32 : t = x \/ t = Swap(x)

\* The search of maybe_add_auto(): from the first token that is as long, as
\* far as tokens are that long.
InExtras(t) ==
  \E f, i \in 1 .. Len(extras) :
    /\ f <= i
    /\ \A k \in 1 .. f - 1 : Len(extras[k]) < Len(t)
    /\ \A k \in f .. i : Len(extras[k]) = Len(t)
    /\ SameNoCase(extras[i], t)

-----------------------------------------------------------------------------
(* Sorting; qsort() leaves the order of equals open. *)

Smaller(x, y) == IF x <= y THEN x ELSE y

\* Sorted by use, then the first UseAutoExtras by length.
Rankings(list) ==
  {r \in {[i \in DOMAIN list |-> list[p[i]]] : p \in {p \in [DOMAIN list -> DOMAIN list] :
                                                   \A i, j \in DOMAIN list : i # j => p[i] # p[j]}} :
     LET use == Smaller(UseAutoExtras, Len(list))
     IN /\ \A i \in DOMAIN list, j \in DOMAIN list : i < j /\ j > use => r[i].hit_cnt >= r[j].hit_cnt
        /\ \A i, j \in 1 .. use : i < j => Len(r[i].data) <= Len(r[j].data)}

\* The user's tokens by length.
BySize(list) ==
  {r \in {[i \in DOMAIN list |-> list[p[i]]] : p \in {p \in [DOMAIN list -> DOMAIN list] :
                                                   \A i, j \in DOMAIN list : i # j => p[i] # p[j]}} :
     \A i, j \in DOMAIN list : i < j => Len(r[i]) <= Len(r[j])}

-----------------------------------------------------------------------------
(* maybe_add_auto() *)

Refused(t) == RunOfOne(t) \/ Builtin(t) \/ InExtras(t)

Known(t) == {i \in 1 .. Len(a_extras) : SameNoCase(a_extras[i].data, t)}

\* The bottom half of a full list, counted from 1.
Evictable == MaxAutoExtras \div 2 + 1 .. MaxAutoExtras

\* The list before it is sorted: a hit for the token, a place at the end, or
\* the place of another.
Candidates(t) ==
  IF Known(t) # {}
    THEN {[a_extras EXCEPT ![i].hit_cnt = @ + 1] : i \in {i \in Known(t) : \A k \in Known(t) : i <= k}}
    ELSE IF Len(a_extras) < MaxAutoExtras
           THEN {Append(a_extras, [data |-> t, hit_cnt |-> 0])}
           ELSE {[a_extras EXCEPT ![i] = [data |-> t, hit_cnt |-> 0]] : i \in Evictable}

\* (faulty) a hit is no change.
MaybeAddAutoNewOnly(t) ==
  IF Refused(t) THEN UNCHANGED <<a_extras, auto_changed>>
  ELSE /\ \A i \in Known(t) : a_extras[i].hit_cnt < MaxHits
       /\ \E list \in Candidates(t) : a_extras' \in Rankings(list)
       /\ auto_changed' = (auto_changed \/ Known(t) = {})

MaybeAddAuto(t) ==
  IF Refused(t) THEN UNCHANGED <<a_extras, auto_changed>>
  ELSE /\ \A i \in Known(t) : a_extras[i].hit_cnt < MaxHits
       /\ \E list \in Candidates(t) : a_extras' \in Rankings(list)
       /\ auto_changed' = TRUE

-----------------------------------------------------------------------------
(* A session. *)

\* load_auto(): the file with the next number, if it is there and its length
\* is right, while there are files.
LoadAuto ==
  /\ phase = "load" /\ saving < Len(old_files) /\ saving < UseAutoExtras
  /\ saving' = saving + 1
  /\ LET t == old_files[saving + 1]
     IN IF Len(t) \in MinAutoExtra .. MaxAutoExtra THEN MaybeAddAuto(t)
        ELSE UNCHANGED <<a_extras, auto_changed>>
  /\ UNCHANGED <<extras, dict_type, auto_files, old_files, starts, phase>>

\* pivot_inputs() ends with nuke_resume_dir().
Pivot ==
  /\ phase = "load" /\ (saving = Len(old_files) \/ saving = UseAutoExtras)
  /\ old_files' = <<>>
  /\ saving' = 0
  /\ phase' = "extras"
  /\ UNCHANGED <<extras, dict_type, a_extras, auto_changed, auto_files, starts>>

\* load_extras(): no -x, a file of either type (a plain one loses the tokens
\* it repeats) or a directory, of which each file is a token.
LoadExtras ==
  /\ phase = "extras"
  /\ \/ extras' = <<>> /\ dict_type' = "original"
     \/ \E n \in 1 .. MaxUser, kind \in {"plain", "optimized", "directory"} :
          \E list \in [1 .. n -> Tokens] :
            /\ \A i \in 1 .. n : Len(list[i]) <= MaxDictFile
            /\ kind = "plain" => \A i, j \in 1 .. n : list[i] = list[j] => i = j
            /\ dict_type' = IF kind = "optimized" THEN kind ELSE "original"
            /\ extras' \in BySize(list)
  /\ phase' = "run"
  /\ UNCHANGED <<a_extras, auto_changed, auto_files, old_files, saving, starts>>

\* A token too long, a malformed line or a dictionary made for another build
\* ends the start.
LoadFails ==
  /\ phase = "extras"
  /\ phase' = "down"
  /\ UNCHANGED <<extras, dict_type, a_extras, auto_changed, auto_files, old_files, saving, starts>>

\* A token is found.
Discover ==
  /\ phase = "run" /\ saving = 0
  /\ \E t \in Tokens : Len(t) \in MinAutoExtra .. MaxAutoExtra /\ MaybeAddAuto(t)
  /\ UNCHANGED <<extras, dict_type, auto_files, old_files, saving, starts, phase>>

\* save_auto(), file by file.
SaveAuto ==
  /\ phase = "run" /\ saving = 0 /\ auto_changed
  /\ auto_changed' = FALSE
  /\ saving' = IF a_extras = <<>> THEN 0 ELSE 1
  /\ UNCHANGED <<extras, dict_type, a_extras, auto_files, old_files, starts, phase>>

\* open(O_TRUNC) and the write that follows.
Truncate ==
  /\ phase = "run" /\ saving # 0
  /\ auto_files' = IF saving > Len(auto_files) THEN Append(auto_files, <<>>)
                   ELSE [auto_files EXCEPT ![saving] = <<>>]
  /\ phase' = "writing"
  /\ UNCHANGED <<extras, dict_type, a_extras, auto_changed, old_files, saving, starts>>

Saved == Smaller(UseAutoExtras, Len(a_extras))

WriteFile ==
  /\ phase = "writing"
  /\ auto_files' = [auto_files EXCEPT ![saving] = a_extras[saving].data]
  /\ saving' = IF saving >= Saved THEN 0 ELSE saving + 1
  /\ phase' = "run"
  /\ UNCHANGED <<extras, dict_type, a_extras, auto_changed, old_files, starts>>

\* The session ends, at any point.
Kill ==
  /\ phase # "down"
  /\ phase' = "down"
  /\ UNCHANGED <<extras, dict_type, a_extras, auto_changed, auto_files, old_files, saving, starts>>

\* -i- : the old queue becomes the input directory.  If the last start was
\* ended before it had emptied _resume, that is still the input.
Restart ==
  /\ phase = "down" /\ starts < MaxStarts
  /\ old_files' = IF old_files = <<>> THEN auto_files ELSE old_files
  /\ auto_files' = <<>>
  /\ extras' = <<>> /\ dict_type' = "original"
  /\ a_extras' = <<>> /\ auto_changed' = FALSE
  /\ saving' = 0
  /\ starts' = starts + 1
  /\ phase' = "load"

DictStart ==
  /\ extras = <<>> /\ dict_type = "original"
  /\ a_extras = <<>> /\ auto_changed = FALSE
  /\ auto_files = <<>> /\ old_files = <<>>
  /\ saving = 0 /\ starts = 1 /\ phase = "load"

DictInit == DictStart

DictNext ==
  \/ LoadAuto \/ Pivot \/ LoadExtras \/ LoadFails \/ Discover
  \/ SaveAuto \/ Truncate \/ WriteFile \/ Kill \/ Restart

DictSpec == DictInit /\ [][DictNext]_dictVars

-----------------------------------------------------------------------------
(* Properties. *)

Autos == 1 .. Len(a_extras)
Used  == 1 .. Smaller(UseAutoExtras, Len(a_extras))

\* No token is kept twice, in whatever case, and there are never more than
\* MAX_AUTO_EXTRAS, through hits, evictions, sorting, saving and loading.
TokensDistinct ==
  /\ Len(a_extras) <= MaxAutoExtras
  /\ \A i, j \in Autos : SameNoCase(a_extras[i].data, a_extras[j].data) => i = j

\* The tokens in use are those used most: no eviction, hit or sorting leaves a
\* token outside that has more hits than one inside; and they are sorted by
\* size, which the stages rely on.
UsedAreBest ==
  /\ \A i \in Used, j \in Autos \ Used : a_extras[i].hit_cnt >= a_extras[j].hit_cnt
  /\ \A i, j \in Used : i < j => Len(a_extras[i].data) <= Len(a_extras[j].data)

\* "Reject anything that matches existing extras": while the session runs, a
\* token that is new to the list is new, in any case, to both dictionaries, and
\* the one that makes room for it is not among those in use.
OnlyNewTokens ==
  [][phase = "run" /\ a_extras' # a_extras =>
       /\ \A n \in DOMAIN a_extras' :
            LET t == a_extras'[n].data
            IN (\A k \in Autos : a_extras[k].data # t) =>
                 /\ \A k \in Autos : ~SameNoCase(a_extras[k].data, t)
                 /\ \A k \in 1 .. Len(extras) : ~SameNoCase(extras[k], t)
       /\ \A k \in Used : \E n \in DOMAIN a_extras' : a_extras'[n].data = a_extras[k].data]_dictVars

\* The tokens in use are on disk once they are saved: the next start, however
\* this one ends, reads the same set.
SavedAreUsed ==
  phase = "run" /\ saving = 0 /\ ~auto_changed =>
    {auto_files[i] : i \in 1 .. Len(auto_files)} = {a_extras[i].data : i \in Used}

\* The list through hits, evictions, sorting, saving and loading: no token
\* twice, the best in use, those in use on disk, none taken in that is known.
TokensExact == [](TokensDistinct /\ UsedAreBest /\ SavedAreUsed) /\ OnlyNewTokens

\* "Reject builtin interesting values."
BuiltinsRejected == \A i \in Autos : a_extras[i].data \notin Interesting16 \cup Interesting32
=============================================================================
