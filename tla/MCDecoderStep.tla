----------------------------- MODULE MCDecoderStep -----------------------------
(* Four small models: olmoe, qwen3_moe with a window and a dense layer,     *)
(* qwen3_5_moe, and qwen3_5_moe with a router that breaks on one token.     *)
EXTENDS DecoderStep

\* Router probabilities of each token, two of them with ties.
Rows == (0 :> <<3, 5, 4>>) @@ (1 :> <<2, 2, 2>>) @@ (2 :> <<1, 0, 1>>)
BrokenRows == [Rows EXCEPT ![2] = <<NaN, 0, 1>>]

Olmoe == [kinds |-> <<"full", "full">>, sparse |-> {1, 2}, shared |-> FALSE,
          window |-> 0, kernel |-> 1, topK |-> 2, normalize |-> FALSE,
          vocab |-> 3, gate |-> Rows]
Qwen3 == [Olmoe EXCEPT !.sparse = {2}, !.window = 2, !.normalize = TRUE]
Qwen35 == [Olmoe EXCEPT !.kinds = <<"linear", "full">>, !.shared = TRUE, !.kernel = 3,
           !.normalize = TRUE]
Broken == [Qwen35 EXCEPT !.kinds = <<"linear", "linear">>, !.kernel = 1, !.gate = BrokenRows]

MCModels == {Olmoe, Qwen3, Qwen35, Broken}

MCTexts == {[p \in Session \X Batches |-> IF p = <<CHOOSE s \in Session : TRUE, 1>>
                                         THEN <<0, 1, 2, 0, 1>> ELSE <<1, 0, 0, 1, 2>>]}

=============================================================================
