--------------------------- MODULE SlotManagerMC ---------------------------
(* Small instances of SlotManager for TLC.                                 *)
EXTENDS SlotManagerRefinement

Plain == [task |-> "completion", valid |-> TRUE, sampler |-> TRUE,
          load |-> FALSE, checkpoint |-> FALSE, media |-> FALSE,
          prompt |-> 2, docs |-> 1, predict |-> 2]
Stateful  == [Plain EXCEPT !.load = TRUE, !.checkpoint = TRUE,
                           !.prompt = 3, !.predict = 0]
Media     == [Plain EXCEPT !.media = TRUE, !.checkpoint = TRUE,
                           !.prompt = 1, !.predict = 1]
NoSampler == [Plain EXCEPT !.sampler = FALSE]
Embedding == [Plain EXCEPT !.task = "embedding", !.prompt = 1]
Rerank    == [Plain EXCEPT !.task = "rerank", !.prompt = 1, !.docs = 2]
Invalid   == [Embedding EXCEPT !.valid = FALSE]

Completions == {Plain, Stateful, Media}
PlainOnly   == {Plain}
Crowd       == {[Stateful EXCEPT !.prompt = 2], [Rerank EXCEPT !.docs = 1],
                [Media EXCEPT !.predict = 2]}
AllShapes   == Completions \cup {NoSampler, Embedding, Rerank, Invalid}
=============================================================================
