----------------------------- MODULE MCAnswerLoop -----------------------------
(* AnswerLoop on a small instance: a document of one space, a short question  *)
(* that it does not answer and a long one of which it has a word, and a       *)
(* repaired gap of the short one, which stands again or, while the document   *)
(* is rejected, is a gap for another reason.                                  *)
EXTENDS AnswerLoop, TLC

MCLibrary ==
  <<[status |-> "ready", review |-> "active", space |-> "product",
     chunks |-> << <<"refund">>, <<"price", "list">> >>]>>

MCQuestions == {<<"shops">>, <<"list", "of", "shops">>}
MCLong == {<<"list", "of", "shops">>}
MCCut == <<"list", "...">>

MCBacklog == {[id |-> 0, space |-> "product", question |-> <<"shops">>,
               reason |-> "no_matching_chunks", status |-> "resolved"]}

Interchangeable == Permutations(Workers) \cup Permutations(Conversations)
=============================================================================
