---------------------------- MODULE RequestPreparation ----------------------------
(***************************************************************************)
(* From a chat or completion request to what the worker is given           *)
(* (src/service/request.rs, with the policy of src/service/backend.rs and  *)
(* the manifest of src/service/load.rs), and the checks of admission       *)
(* (src/continuous/scheduler.rs) it meets there.                           *)
(*                                                                         *)
(* A text is a sequence of words, each with its bytes and the tokens the   *)
(* tokenizer makes of it; an optional field is None or a value.            *)
(***************************************************************************)
EXTENDS Sampler

CONSTANTS None,
          MaxU32,     \* the largest u32
          Seeds,      \* 2^64: seeds are taken modulo it
          Bos,        \* the special token a completion starts with
          RoleWord    \* [role -> the word the chat template renders it as]

Field(value, default) == IF value = None THEN default ELSE value
Least(a, b) == IF a <= b THEN a ELSE b
Flat(seqs) == FlattenSeq(seqs)

-----------------------------------------------------------------------------
(* The service: limits, the loaded model and its manifest.                  *)

\* OlmoeBackendConfig::validate and the validated limits.
ValidService(service) ==
    /\ service.maxContext > 0 /\ service.maxGenerated > 0 /\ service.maxInput > 0
    /\ service.concurrency > 0
    /\ service.defaultMax \in 1..service.maxGenerated

\* power_manifest: a context length that is not a u32 is left out.
ContextLength(service) ==
    IF service.positions <= MaxU32 THEN service.positions ELSE None

\* Mutation: the manifest overrides the limit of the service.
ContextOfManifest(service) == Field(ContextLength(service), service.maxContext)
\* prompt_policy.
MaxContext(service) ==
    Least(Field(ContextLength(service), service.maxContext), service.maxContext)

-----------------------------------------------------------------------------
(* Validation of what the request asks for.                                 *)

\* validate_chat_capabilities, validate_completion_capabilities and
\* reject_unsupported_controls: every unsupported field is one of `features'.
Supported(request, service) ==
    /\ request.features = {}
    /\ request.parallel \in {None, service.concurrency}

ValidMessages(messages) ==
    \A k \in DOMAIN messages :
        messages[k].role \in {"system", "user", "assistant"} /\ ~messages[k].named

\* The system prompt and the messages of the manifest come first.
AllMessages(request, service) ==
    (IF service.system = None THEN <<>> ELSE
       <<[role |-> "system", text |-> service.system, named |-> FALSE]>>)
    \o service.messages \o request.messages

\* The generic chat template (external).
Rendered(messages) ==
    Flat([k \in DOMAIN messages |-> <<RoleWord[messages[k].role]>> \o messages[k].text])

Bytes(text) == FoldLeft(LAMBDA sum, word : sum + word.bytes, 0, text)

\* MoeTokenizer::encode; the tokens of a word are the tokenizer's (external).
Encoded(text, special, service) ==
    LET tokens == (IF special THEN <<Bos>> ELSE <<>>)
                  \o Flat([k \in DOMAIN text |-> text[k].ids])
    IN  IF \A k \in DOMAIN tokens : tokens[k] < service.vocab THEN tokens ELSE Refused

\* sampling_config; lastN is NotFinite where the code has no limit.
SamplingConfig(request) ==
    LET config ==
          [temperature |-> Field(request.temperature, One),
           topP        |-> Field(request.topP, One),
           topK        |-> Field(request.topK, 0),
           minP        |-> Field(request.minP, Zero),
           repeat      |-> Field(request.repeat, One),
           frequency   |-> Field(request.frequency, Zero),
           presence    |-> Field(request.presence, Zero),
           lastN       |-> IF request.lastN \in {None, -1} THEN NotFinite ELSE request.lastN,
           seed        |-> Field(request.seed, 0) % Seeds]
    IN  IF Field(request.topK, 0) < 0 \/ Field(request.lastN, 0) < -1 \/ ~ValidSampling(config)
        THEN Refused ELSE config

-----------------------------------------------------------------------------
(* prepare_text, prepare_chat and prepare_completion.                       *)

PrepareText(text, special, request, service) ==
    LET tokens    == Encoded(text, special, service)
        maxNew    == Field(request.maxTokens, service.defaultMax)
        requested == Len(tokens) + maxNew
        sampling  == SamplingConfig(request)
    IN  IF text = <<>> \/ Bytes(text) > service.maxInput \/ tokens \in {Refused, <<>>}
        THEN Refused
        ELSE IF /\ maxNew \in 1..service.maxGenerated
                /\ requested <= MaxContext(service)
                /\ requested <= Field(request.numCtx, requested)
                /\ \A k \in DOMAIN request.stop : request.stop[k] > 0
                /\ sampling # Refused
        THEN [prompt |-> tokens, sampling |-> sampling, maxNew |-> maxNew,
              stop |-> request.stop]
        ELSE Refused

PrepareChat(request, service) ==
    LET messages == AllMessages(request, service) IN
    IF /\ Supported(request, service) /\ request.messages # <<>>
       /\ ValidMessages(messages)
       /\ service.template # "broken"
    THEN PrepareText(Rendered(messages), FALSE, request, service)
    ELSE Refused

PrepareCompletion(request, service) ==
    IF Supported(request, service)
    THEN PrepareText(request.prompt, TRUE, request, service)
    ELSE Refused

Prepare(request, service) ==
    IF request.kind = "chat" THEN PrepareChat(request, service)
    ELSE PrepareCompletion(request, service)

-----------------------------------------------------------------------------
(* Admission.                                                               *)

\* validate_generation_request of the model.
ValidGeneration(prompt, maxNew, service) ==
    /\ prompt # <<>> /\ \A k \in DOMAIN prompt : prompt[k] < service.vocab
    /\ Len(prompt) + maxNew <= service.positions

\* validate_request of the scheduler.
ValidRequest(prepared, service) ==
    /\ ValidGeneration(prepared.prompt, prepared.maxNew, service)
    /\ prepared.maxNew <= service.maxGenerated
    /\ Len(prepared.prompt) + prepared.maxNew <= service.maxContext
    /\ \A k \in DOMAIN service.eos : service.eos[k] < service.vocab
    /\ IsInjective(service.eos)
    /\ ValidSampling(prepared.sampling)

=============================================================================
