---------------------------- MODULE SlotCacheMC -----------------------------
(* Small instances of SlotCache for TLC. *)
EXTENDS SlotCache

Text == {"a", "b"}
Both == BOOLEAN

Plain == [task |-> "completion", prompts |-> << <<"a", "b">> >>, media |-> FALSE,
          load |-> FALSE, save |-> FALSE, checkpoint |-> FALSE,
          load_size |-> 0, save_size |-> 0]
Ask(texts) == [Plain EXCEPT !.prompts = texts]

Saves == [Plain EXCEPT !.save = TRUE, !.checkpoint = TRUE]
Loads == [Ask(<< <<"a", "b", "a">> >>) EXCEPT !.load = TRUE, !.checkpoint = TRUE]
LoadsLess == [Ask(<< <<"b", "a">> >>) EXCEPT !.load = TRUE, !.load_size = 1,
                                             !.save = TRUE, !.save_size = 2]
Image == [Ask(<< <<"a", Null, "b">> >>) EXCEPT !.media = TRUE, !.load = TRUE, !.save = TRUE]
NewImage == [Image EXCEPT !.load = FALSE]
Embedding == [Ask(<< <<"a", "b">> >>) EXCEPT !.task = "embedding"]
Rerank == [Ask(<< <<"a", "b">>, <<"a", "a">> >>) EXCEPT !.task = "rerank"]

AllShapes == {Saves, Loads, LoadsLess, Image, NewImage, Embedding, Rerank}
TextShapes == {Saves, Loads}
ImageShapes == {Plain, NewImage}
Standard == {FALSE}
=============================================================================
