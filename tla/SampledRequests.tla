----------------------------- MODULE SampledRequests -----------------------------
(***************************************************************************)
(* Requests on their way through preparation, admission and the sampling   *)
(* of their rows, with what src/continuous/scheduler.rs keeps for each: a  *)
(* token history and a sampler.  A step works on copies, samples row after *)
(* row, and either publishes the copies or puts the originals back.        *)
(*                                                                         *)
(* The logits of a row depend on its own history alone (DecoderStep).      *)
(* Roster, positions and Power's ledger are ContinuousScheduler's, streams *)
(* are GenerationWorker's.                                                 *)
(***************************************************************************)
EXTENDS RequestPreparation

CONSTANTS Slot,        \* requests
          Services,    \* bound: the services of the runs
          Requests,    \* bound: [Slot -> what may be submitted]
          LogitsOf,    \* what the model answers, [last token -> logits]
          Stream,      \* the generator, [seed -> sequence of draws]
          Draws        \* draws are in 0..(Draws - 1)

ASSUME RequestAssumption ==
    /\ MaxU32 \in Nat /\ Seeds \in Nat \ {0} /\ MaxFinite \in Nat /\ Draws \in Nat \ {0}
    /\ \A service \in Services : ValidService(service)
    /\ \A seed \in 0..(Seeds - 1) : Range(Stream[seed]) \subseteq 0..(Draws - 1)

\* The configuration of a loaded model was validated: its end-of-sequence tokens
\* are tokens of its vocabulary, each named once.
ASSUME ModelAssumption ==
    /\ None \notin Nat
    /\ \A service \in Services :
         /\ {service.positions, service.maxContext, service.maxGenerated} \subseteq Nat
         /\ \A k \in DOMAIN service.eos : service.eos[k] < service.vocab
         /\ IsInjective(service.eos)

\* The tokenizer (external) makes a sequence of tokens of a prompt.
ASSUME TokenizerAssumption ==
    \A service \in Services, i \in Slot : \A request \in Requests[i] :
        LET prompt == Prepare(request, service) IN
        prompt = Refused \/ prompt.prompt \in Seq(Nat)

VARIABLES service,    \* the loaded model with its limits
          phase,      \* [Slot -> "new", "refused", "queued", "rejected", "active",
                      \*          "completed", "cancelled"]
          prepared,   \* [Slot -> PreparedGeneration, or Refused]
          member,     \* [Slot -> generated tokens and state of the sampler]
          working,    \* the copies of the running step, [rows -> member]
          todo        \* rows of the running step still to sample

vars == <<service, phase, prepared, member, working, todo>>

NoStep == working = <<>>
NewMember == [generated |-> <<>>, random |-> 0]

Init ==
    /\ service \in Services
    /\ phase = [i \in Slot |-> "new"]
    /\ prepared = [i \in Slot |-> Refused]
    /\ member = [i \in Slot |-> NewMember]
    /\ working = <<>> /\ todo = {}

\* chat and complete: prepared at once, then given to the worker.
Submit(i, request) ==
    /\ phase[i] = "new"
    /\ prepared' = [prepared EXCEPT ![i] = Prepare(request, service)]
    /\ phase' = [phase EXCEPT ![i] = IF prepared'[i] = Refused THEN "refused" ELSE "queued"]
    /\ UNCHANGED <<service, member, working, todo>>

\* admit: a member with a new sampler, or an error for this request.
Admit(i) ==
    /\ phase[i] = "queued"
    /\ phase' = [phase EXCEPT ![i] =
                   IF ValidRequest(prepared[i], service) THEN "active" ELSE "rejected"]
    /\ UNCHANGED <<service, prepared, member, working, todo>>

\* The active members become the rows of a step.
StartStep ==
    /\ NoStep
    /\ LET rows == {i \in Slot : phase[i] = "active"} IN
       /\ rows # {}
       /\ working' = [i \in rows |-> member[i]]
       /\ todo' = rows
    /\ UNCHANGED <<service, phase, prepared, member>>

HistoryOf(i, m) == prepared[i].prompt \o m.generated
LogitsAfter(history) == LogitsOf[Last(history)]
DrawAt(config, n) == Stream[config.seed][n + 1]

\* The token that member m of slot i draws next.
TokenOf(i, m) ==
    Sample(LogitsAfter(HistoryOf(i, m)), HistoryOf(i, m), prepared[i].sampling,
           DrawAt(prepared[i].sampling, m.random), Draws)

Sampled(i, m, token) ==
    [generated |-> Append(m.generated, token),
     random    |-> m.random + DrawsTaken(prepared[i].sampling)]

\* prepare_commit, one row; rows whose token has fired are not sampled.
SampleRow(i) ==
    /\ i \in todo
    /\ IF phase[i] = "cancelled" THEN UNCHANGED working
       ELSE LET token == TokenOf(i, working[i]) IN
            /\ token # Refused
            /\ working' = [working EXCEPT ![i] = Sampled(i, @, token)]
    /\ todo' = todo \ {i}
    /\ UNCHANGED <<service, phase, prepared, member>>

\* Mutation: what the failed step did to the samplers stays.
RestoredGenerators ==
    [i \in Slot |-> IF i \in DOMAIN working
                    THEN [member[i] EXCEPT !.random = working[i].random] ELSE member[i]]
\* The originals of the step, as restore_failed_step puts them back.
Restored == member

StepEnds == working' = <<>> /\ todo' = {}

\* Forward, the sampling of a row or the commit fails.
StepFails ==
    /\ ~NoStep
    /\ member' = Restored
    /\ StepEnds
    /\ UNCHANGED <<service, phase, prepared>>

Completed(i, m) ==
    \/ Len(m.generated) >= prepared[i].maxNew
    \/ Last(m.generated) \in ToSet(service.eos)

Publish ==
    /\ ~NoStep /\ todo = {}
    /\ member' = [i \in Slot |->
           IF i \in DOMAIN working /\ phase[i] = "active" THEN working[i] ELSE member[i]]
    /\ phase' = [i \in Slot |->
           IF i \in DOMAIN working /\ phase[i] = "active" /\ Completed(i, working[i])
           THEN "completed" ELSE phase[i]]
    /\ StepEnds
    /\ UNCHANGED <<service, prepared>>

\* The caller's token fires.
Cancel(i) ==
    /\ phase[i] = "active"
    /\ phase' = [phase EXCEPT ![i] = "cancelled"]
    /\ UNCHANGED <<service, prepared, member, working, todo>>

Next ==
    \/ \E i \in Slot : \/ \E request \in Requests[i] : Submit(i, request)
                       \/ Admit(i) \/ SampleRow(i) \/ Cancel(i)
    \/ StartStep \/ StepFails \/ Publish

Spec == Init /\ [][Next]_vars

-----------------------------------------------------------------------------
(* Properties                                                               *)

\* What preparation lets through, admission takes: no request gets past the
\* checks of the service and then fails in the worker.  The exception is a model
\* with more positions than a u32 counts, whose manifest has no context length.
PreparedIsAdmitted ==
    \A i \in Slot : phase[i] = "rejected" => service.positions > MaxU32

\* The tokens of a request generated alone: the n-th is drawn from the history
\* before it, with the n-th draw of the request's own seed.
Alone(i, n) ==
    LET config == prepared[i].sampling
        history[k \in 0..n] ==
          IF k = 0 THEN prepared[i].prompt
          ELSE Append(history[k - 1],
                      Sample(LogitsAfter(history[k - 1]), history[k - 1], config,
                             IF config.temperature = Zero THEN 0 ELSE Stream[config.seed][k],
                             Draws))
    IN  history[n]

\* A request's tokens are reproducible: they are those it generates alone,
\* whatever else was sampled, failed, cancelled or retried in between, and it
\* stops where it would alone.
Reproducible ==
    \A i \in Slot : phase[i] \in {"active", "completed", "cancelled"} =>
        LET tokens == member[i].generated IN
        /\ HistoryOf(i, member[i]) = Alone(i, Len(tokens))
        /\ phase[i] = "active" => Len(tokens) < prepared[i].maxNew
        /\ \A k \in 1..(Len(tokens) - 1) : tokens[k] \notin ToSet(service.eos)

\* The reference of sampling, token by token.
Better(logits, a, b) == logits[a] > logits[b] \/ (logits[a] = logits[b] /\ a < b)
BetterThan(logits, t, tokens) == {u \in tokens : Better(logits, u, t)}

SumOf(f, tokens) == FoldLeft(LAMBDA sum, t : sum + f[t], 0, SetToSeq(tokens))

\* The tokens top_k, min_p and top_p leave, given everybody's weight.
Eligible(logits, weight, config) ==
    LET all   == DOMAIN logits
        top   == {t \in all : config.topK = 0
                              \/ Cardinality(BetterThan(logits, t, all)) < config.topK}
        near  == {t \in top : \A u \in top :
                     weight[t] * config.minP[2] >= weight[u] * config.minP[1]}
        total == SumOf(weight, top)
    IN  {t \in near : SumOf(weight, BetterThan(logits, t, near)) * config.topP[2]
                        < config.topP[1] * total
                      \/ BetterThan(logits, t, near) = {}}

\* Of all draws, a token gets its weight's worth if it is eligible and none if
\* it is not; greedily, the best token gets them all, the lowest among equals.
\* With penalties that discourage, a token loses by having been generated in
\* the last repeat_last_n tokens, and only by that.
SamplesByWeight ==
    \A i \in todo : phase[i] = "active" =>
        LET config  == prepared[i].sampling
            history == HistoryOf(i, working[i])
            logits  == LogitsAfter(history)
            after   == Penalized(logits, history, config)
            least   == CHOOSE l \in {after[t] : t \in DOMAIN after} :
                          \A t \in DOMAIN after : l <= after[t]
            weight  == [t \in DOMAIN after |-> 2^((after[t] - least) * config.temperature[2])]
            chosen  == Eligible(after, weight, config)
            mass    == SumOf(weight, chosen)
            drawn   == [u \in 0..(mass - 1) |-> Sample(logits, history, config, u, mass)]
            recent  == IF config.lastN = NotFinite THEN DOMAIN history
                       ELSE {k \in DOMAIN history : k > Len(history) - config.lastN}
        IN  /\ \A t \in DOMAIN logits :
                 LET lower == t \in {history[k] : k \in recent} IN
                 /\ ~lower => after[t] = logits[t]
                 /\ (lower /\ AtLeast(config.repeat, One) /\ AtLeast(config.frequency, Zero)
                       /\ AtLeast(config.presence, Zero)) => after[t] <= logits[t]
            /\ (\A t \in DOMAIN after : IsFinite(after[t])) =>
                 IF config.temperature = Zero
                 THEN \A u \in DOMAIN drawn :
                        BetterThan(after, drawn[u], DOMAIN after) = {}
                 ELSE \A t \in DOMAIN after :
                        Cardinality({u \in DOMAIN drawn : drawn[u] = t})
                          = IF t \in chosen THEN weight[t] ELSE 0

=============================================================================
