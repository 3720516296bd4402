---------------------------- MODULE MCSampledRequests ----------------------------
(* A base request with one field varied at a time, beside a fixed seeded one.*)
EXTENDS SampledRequests

CONSTANTS first, second

Word(bytes, ids) == [bytes |-> bytes, ids |-> ids]
Hello == Word(2, <<1>>)
Space == Word(1, <<>>)
Alien == Word(2, <<9>>)

MCRoleWord == [role \in {"system", "user", "assistant"} |->
                 Word(1, IF role = "user" THEN <<2>> ELSE <<>>)]

Chat == [kind |-> "chat", features |-> {}, parallel |-> None,
         messages |-> <<[role |-> "user", text |-> <<Hello>>, named |-> FALSE]>>,
         prompt |-> <<>>, temperature |-> None, topP |-> None, topK |-> None,
         minP |-> None, repeat |-> None, frequency |-> None, presence |-> None,
         lastN |-> None, seed |-> None, maxTokens |-> None, numCtx |-> None,
         stop |-> <<>>]
Completion == [Chat EXCEPT !.kind = "completion", !.messages = <<>>, !.prompt = <<Hello>>,
                           !.temperature = <<1, 2>>]

With(request, field, values) == {[request EXCEPT ![field] = value] : value \in values}

Message(role, text, named) == <<[role |-> role, text |-> text, named |-> named]>>

Chats ==
    {Chat}
    \cup With(Chat, "messages", {<<>>, Message("tool", <<Hello>>, FALSE),
                                 Message("user", <<Hello>>, TRUE),
                                 Message("assistant", <<>>, FALSE)})
    \cup With(Chat, "features", {{"tools"}, {"mirostat"}})
    \cup With(Chat, "parallel", {1, 2})
    \cup With(Chat, "temperature", {Zero, <<-1, 1>>, NotFinite, <<1, 2>>})
    \cup With(Chat, "topP", {Zero, <<1, 2>>, <<3, 4>>, <<2, 1>>})
    \cup With(Chat, "topK", {-1, 1, 2})
    \cup With(Chat, "minP", {<<1, 2>>, <<2, 1>>})
    \cup With(Chat, "repeat", {Zero, <<2, 1>>, <<1, 2>>})
    \cup With(Chat, "frequency", {NotFinite, One})
    \cup With(Chat, "seed", {-1, 1})

Discouraged == [Completion EXCEPT !.repeat = <<2, 1>>, !.frequency = One, !.presence = One,
                                  !.temperature = One]

Completions ==
    {Completion}
    \cup With(Completion, "features", {{"suffix"}})
    \cup With(Completion, "prompt", {<<>>, <<Alien>>, <<Space>>, <<Hello, Hello>>,
                                     <<Hello, Hello, Space>>, <<Hello, Hello, Hello>>})
    \cup With(Completion, "maxTokens", {0, 1, 3, 4})
    \cup With(Completion, "numCtx", {3, 9})
    \cup With(Completion, "stop", {<<1>>, <<1, 0>>})
    \cup With(Completion, "presence", {NotFinite, <<-1, 1>>})
    \cup With(Discouraged, "lastN", {None, -1, -2, 0, 1})
    \cup With(Discouraged, "topP", {<<1, 2>>})
    \cup With(Discouraged, "frequency", {<<1, 2>>, <<-3, 2>>})
    \cup With(Discouraged, "presence", {<<3, 2>>})

Fixed == [Completion EXCEPT !.seed = 1, !.temperature = One, !.maxTokens = 2]

MCRequests == (first :> (Chats \cup Completions)) @@ (second :> {Fixed})

Base == [positions |-> 6, vocab |-> 3, eos |-> <<2>>, maxContext |-> 9, maxGenerated |-> 3,
         maxInput |-> 6, concurrency |-> 2, defaultMax |-> 2, system |-> None,
         messages |-> <<>>, template |-> "generic"]

MCServices == {Base,
               [Base EXCEPT !.maxContext = 4, !.eos = <<>>, !.system = <<Space>>,
                            !.messages = Message("assistant", <<Hello>>, FALSE)],
               [Base EXCEPT !.positions = 7, !.maxContext = 12, !.maxGenerated = 4, !.defaultMax = 4],
               [Base EXCEPT !.template = "broken", !.maxInput = 3]}

MCLogits == (0 :> (0 :> 2 @@ 1 :> 0 @@ 2 :> 0)) @@ (1 :> (0 :> 0 @@ 1 :> 2 @@ 2 :> -2))
            @@ (2 :> (0 :> 2 @@ 1 :> 2 @@ 2 :> 0))

MCStream == [seed \in 0..1 |-> IF seed = 0 THEN <<0, 5, 7, 2>> ELSE <<6, 1, 4, 3>>]

=============================================================================
