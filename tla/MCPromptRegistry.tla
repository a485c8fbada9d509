---- MODULE MCPromptRegistry ----
(***************************************************************************)
(* Two tasks seeded with one version each, two more versions to register   *)
(* and three pointer moves to make, by any number of processes.            *)
(***************************************************************************)
EXTENDS PromptRegistry, TLC

CONSTANTS classify, memo, classify_v1, memo_v1, text_c, text_d

TwoTasks == {classify, memo}
InOrder == <<memo, classify>>
FourTexts == {classify_v1, memo_v1, text_c, text_d}
Seeds == classify :> classify_v1 @@ memo :> memo_v1
Interchangeable == Permutations({text_c, text_d})
====
