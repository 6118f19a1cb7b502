-------------------------------- MODULE MCFuzzOne --------------------------------
(***************************************************************************)
(* The parts of fuzz_one() side by side: trimming, the deterministic       *)
(* stages, the dictionary stages with the dictionaries, havoc and          *)
(* splicing.  `part' says which of them a behaviour is about, the state of *)
(* the others stays as it starts.                                          *)
(***************************************************************************)
EXTENDS DetStages, TokenStages, Trim, Havoc

VARIABLE part

MCContents == {<<1>>, <<1, 1, 1, 1>>, <<2, 1, 2, 2>>, <<3, 3, 3, 3>>}

Bytes(x, n) == [k \in 1 .. n |-> ((x \div 256 ^ (k - 1)) % 256)]

MC8 == {-128, -1, 0, 1, 16, 32, 64, 100, 127}
MC16 == MC8 \cup {-32768, -129, 128, 255, 256, 512, 1000, 1024, 4096, 32767}
MC32 == MC16 \cup {-32769, 32768, 65535, 65536, -100663046, 100663045, 2147483647}
MCInteresting8 == {Bytes(x, 1) : x \in MC8}
MCInteresting16 == {Bytes(x, 2) : x \in MC16}
MCInteresting32 == {Bytes(x, 4) : x \in MC32} \cup {<<0, 0, 0, 128>>}

\* For the deterministic stages: values of one to four bytes around the
\* carries of each width; for the tokens: two runs that touch.
MCInputs ==
  {<<0>>, <<127>>, <<224, 0>>, <<255, 127>>, <<128, 128>>, <<0, 254>>, <<36, 0>>,
   <<7, 100, 255>>, <<255, 255, 0, 0>>, <<224, 255, 0, 16>>, <<0, 0, 0, 0>>,
   <<127, 255, 255, 255>>, <<65, 70, 76, 10>>, <<1, 0, 0, 128>>, <<67, 65, 66, 68>>}
MCTokenInputs == {<<67, 65, 66, 68>>}
MCTrimInputs == {[k \in 1 .. n |-> k] : n \in {2, 11, 16, 21}}

\* Two tokens that differ in case only, one that contains another.
MCTokens == {<<65, 66>>, <<97, 66>>, <<65, 66, 67>>}

stagesOnly == <<no_arith, tried, stage>>
tokensOnly == <<out_buf, q_extras, collectVars, loopVars, step>>
trimOnly ==
  <<q_len, len_p2, remove_len, remove_pos, needs_write, stage_cur, stage_max, disk, same, trim_step>>

StagesIdle == no_arith = FALSE /\ tried = {} /\ stage = "flip1"
TokensIdle ==
  /\ out_buf = <<>> /\ q_extras = <<>>
  /\ a_collect = <<>> /\ a_len = 0 /\ prev_cksum = Orig
  /\ i = 1 /\ j = 1 /\ last_len = 0
  /\ offered = {} /\ cksums = <<>> /\ ran = {} /\ step = "idle"
TrimIdle ==
  /\ q_len = 0 /\ len_p2 = 0 /\ remove_len = 0 /\ remove_pos = 0 /\ needs_write = FALSE
  /\ stage_cur = 0 /\ stage_max = 0 /\ disk = <<>> /\ same = {<<>>} /\ trim_step = "start"

HavocIdle ==
  /\ HavocInit
  /\ queue = <<[data |-> <<1>>, exec_us |-> 2, bitmap_size |-> 1, handicap |-> 1, depth |-> 1]>>

MCInit ==
  \/ part = "stages" /\ StagesInit /\ DictStart /\ TokensIdle /\ TrimIdle /\ HavocIdle
  \/ part = "tokens" /\ TokensInit /\ StagesIdle /\ TrimIdle /\ HavocIdle
  \/ part = "dictionary" /\ DictInit /\ TokensStart /\ StagesIdle /\ TrimIdle /\ HavocIdle
  \/ part = "trim" /\ TrimInit /\ StagesIdle /\ DictStart /\ TokensIdle /\ HavocIdle
  \/ part = "havoc" /\ HavocInit /\ StagesIdle /\ DictStart /\ TokensStart /\ TrimIdle

MCNext ==
  /\ \/ part = "stages" /\ StagesNext /\ UNCHANGED <<dictVars, tokensOnly, trimOnly, havocVars>>
     \/ part = "tokens" /\ TokensNext /\ in_buf' \in MCTokenInputs \cup {<<>>} /\ UNCHANGED <<stagesOnly, trimOnly, havocVars>>
     \/ part = "dictionary" /\ DictNext /\ UNCHANGED <<entryVars, tokensOnly, stagesOnly, trimOnly, havocVars>>
     \/ part = "trim" /\ TrimNext /\ UNCHANGED <<stagesOnly, dictVars, tokensOnly, havocVars>>
     \/ part = "havoc" /\ HavocNext /\ UNCHANGED <<stagesOnly, dictVars, entryVars, tokensOnly, trimOnly>>
  /\ UNCHANGED part

MCSpec ==
  /\ MCInit
  /\ [][MCNext]_<<part, stagesOnly, dictVars, entryVars, tokensOnly, trimOnly, havocVars>>
  /\ WF_<<part, trimVars>>(part = "trim" /\ MCNext)
  /\ WF_<<part, havocVars>>(part = "havoc" /\ InEntry /\ MCNext)

\* fuzz_one() returns: trimming ends and is short, however many blocks go or stay,
\* and havoc and splicing end, whatever is found and however many attempts fail.
EntryEnds == TrimEnds /\ EntryIsLeft
=============================================================================
