------------------------- MODULE MCWaitWithErrorCheck -------------------------
(* Instances of WaitWithErrorCheck for TLC: wait and error blocks. *)
EXTENDS WaitWithErrorCheck

\* Nothing, each thing alone, and each way of waiting for two or all three.
WaitBlocks ==
  { {}, {"rollout"}, {"conditions"}, {"fields"}, {"conditions", "fields"},
    {"rollout", "fields"}, {"rollout", "conditions", "fields"},
    {"rollout", "conditions", "unparsable"} }

\* No entries; a bad pattern before and behind an entry that may match.
ErrorBlocks == { <<>>, <<"badregex", "match">>, <<"match", "badregex">> }
=============================================================================
