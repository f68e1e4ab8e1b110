---------------------------- MODULE CompletionMC ----------------------------
(* Small instances of Completion for TLC: the vocabularies, the prompts and *)
(* the limits that the configurations choose from.                          *)
EXTENDS Completion

(* x ends in a one-byte character and y in a longer one; h is the first part *)
(* of a character and t the rest.                                            *)
XYWords == {"x", "y"}
AllWords == {"x", "h", "t"}
Kind == [w \in {"x", "y", "h", "t"} |->
           CASE w = "x" -> "ascii" [] w = "y" -> "whole"
             [] w = "h" -> "lead"  [] w = "t" -> "tail"]
XYKind == [w \in XYWords |-> Kind[w]]
AllKind == [w \in AllWords |-> Kind[w]]

AnyCall == AllKinds
ModelCalls == {"completion", "embedding", "rerank", "bench", "clear"}
OnlyCompletion == {"completion"}
OnlyEmbedding == {"embedding"}

(* A short prompt, one that differs from it in the middle of a character,   *)
(* one longer than a window.                                                *)
Short == <<"x", "x">>
Other == <<"x", "h", "t">>
Long == <<"x", "x", "h", "t", "x", "x", "h", "t">>
OtherOrLong == {Other, Long}
XYPrompts == {Short, <<"x", "y", "y">>}
ThreePrompts == {Short, Other, <<"x", "x", "h", "t", "x">>}
OneWord == {<<"x">>}
AgainAndLonger == {Short, <<"x", "x", "y", "x">>}
Texts == {<<"x">>, Short, <<"x", "x", "x">>}

OneOrNot == {-1, 1}
Limits == {-1, 0, 1, 2, Unset}
NoLimit == {-1}
OneToken == {1}

(* The program when nothing stops a call: what is left undone is left so by *)
(* a generation that came to its end.                                       *)
UnstoppedSpec == Init /\ [][Next /\ ~is_interrupted']_vars
=============================================================================
