-------------------------- MODULE SampledRequestsProofs --------------------------
(***************************************************************************)
(* What preparation lets through, admission takes, and what a request gets *)
(* is what it would get with the scheduler to itself: for any services,    *)
(* any requests and any number of them, whatever is sampled beside them    *)
(* and whichever steps fail.                                               *)
(***************************************************************************)
EXTENDS SampledRequests, TLAPS, SequenceTheorems, WellFoundedInduction

\* What the text of a request is prepared to.
LEMMA TextPrepared ==
    ASSUME NEW text, NEW special, NEW request, NEW model,
           NEW p, p = PrepareText(text, special, request, model), p # Refused
    PROVE  /\ p.prompt = Encoded(text, special, model)
           /\ p.prompt # Refused /\ p.prompt # <<>>
           /\ p.maxNew \in 1..model.maxGenerated
           /\ Len(p.prompt) + p.maxNew <= MaxContext(model)
           /\ p.sampling = SamplingConfig(request) /\ p.sampling # Refused
BY DEF PrepareText

\* The tokens of an encoded text are tokens of the model.
LEMMA EncodedFits ==
    ASSUME NEW text, NEW special, NEW model, Encoded(text, special, model) # Refused
    PROVE  \A k \in DOMAIN Encoded(text, special, model) :
              Encoded(text, special, model)[k] < model.vocab
BY DEF Encoded

\* Controls that were taken are valid.
LEMMA ControlsValid ==
    ASSUME NEW request, SamplingConfig(request) # Refused
    PROVE  ValidSampling(SamplingConfig(request))
BY DEF SamplingConfig

\* Without a manifest's limit the model's positions bound a prepared request,
\* and so does the limit of the service.
LEMMA PreparedFits ==
    ASSUME NEW model \in Services, model.positions <= MaxU32,
           NEW n \in Nat, n <= MaxContext(model)
    PROVE  n <= model.positions /\ n <= model.maxContext
<1>1. /\ model.positions \in Nat /\ model.maxContext \in Nat
      /\ None \notin Nat
  BY ModelAssumption
<1>2. MaxContext(model) = Least(model.positions, model.maxContext)
  BY <1>1 DEF MaxContext, ContextLength, Field
<1> QED  BY <1>1, <1>2 DEF Least

\* What Prepare returns passes the checks of admission.
LEMMA PreparedIsValid ==
    ASSUME NEW model \in Services, model.positions <= MaxU32,
           NEW i \in Slot, NEW request \in Requests[i],
           NEW p, p = Prepare(request, model), p # Refused
    PROVE  ValidRequest(p, model)
<1>1. PICK text, special : p = PrepareText(text, special, request, model)
  BY DEF Prepare, PrepareChat, PrepareCompletion
<1>2. /\ p.prompt = Encoded(text, special, model)
      /\ p.prompt # Refused /\ p.prompt # <<>>
      /\ p.maxNew \in 1..model.maxGenerated
      /\ Len(p.prompt) + p.maxNew <= MaxContext(model)
      /\ p.sampling = SamplingConfig(request) /\ p.sampling # Refused
  BY <1>1, TextPrepared
<1>3. p.prompt \in Seq(Nat) /\ model.maxGenerated \in Nat
  BY TokenizerAssumption, ModelAssumption
<1>4. Len(p.prompt) + p.maxNew \in Nat /\ p.maxNew <= model.maxGenerated
  BY <1>2, <1>3
<1>5. /\ Len(p.prompt) + p.maxNew <= model.positions
      /\ Len(p.prompt) + p.maxNew <= model.maxContext
  BY <1>2, <1>4, PreparedFits
<1>6. \A k \in DOMAIN p.prompt : p.prompt[k] < model.vocab
  BY <1>2, EncodedFits
<1>7. ValidSampling(p.sampling)
  BY <1>2, ControlsValid
<1>8. (\A k \in DOMAIN model.eos : model.eos[k] < model.vocab) /\ IsInjective(model.eos)
  BY ModelAssumption
<1> QED  BY <1>2, <1>4, <1>5, <1>6, <1>7, <1>8 DEF ValidRequest, ValidGeneration

-----------------------------------------------------------------------------
\* What waits for admission was prepared, for the service that is loaded.
Inv ==
    /\ service \in Services
    /\ DOMAIN phase = Slot /\ DOMAIN prepared = Slot
    /\ \A i \in Slot : phase[i] = "queued" =>
          /\ prepared[i] # Refused
          /\ \E request \in Requests[i] : prepared[i] = Prepare(request, service)
    /\ PreparedIsAdmitted

\* What is queued was prepared from one of its requests for the loaded service.
THEOREM InvariantCorrect == Spec => []Inv
<1>1. Init => Inv
  BY DEF Init, Inv, PreparedIsAdmitted
<1>2. Inv /\ [Next]_vars => Inv'
  <2> SUFFICES ASSUME Inv, [Next]_vars PROVE Inv'
    OBVIOUS
  <2>1. ASSUME NEW i \in Slot, NEW request \in Requests[i], Submit(i, request)
        PROVE  Inv'
    BY <2>1 DEF Submit, Inv, PreparedIsAdmitted
  <2>2. ASSUME NEW i \in Slot, Admit(i)
        PROVE  Inv'
    <3>1. /\ phase[i] = "queued" /\ UNCHANGED <<service, prepared>>
          /\ phase' = [phase EXCEPT ![i] =
                IF ValidRequest(prepared[i], service) THEN "active" ELSE "rejected"]
      BY <2>2 DEF Admit
    <3>2. phase'[i] = "rejected" => service.positions > MaxU32
      <4>1. service \in Services /\ prepared[i] # Refused
            /\ \E request \in Requests[i] : prepared[i] = Prepare(request, service)
        BY <3>1 DEF Inv
      <4>2. service.positions <= MaxU32 => ValidRequest(prepared[i], service)
        BY <4>1, PreparedIsValid
      <4>3. service.positions \in Nat /\ MaxU32 \in Nat
        BY <4>1, ModelAssumption, RequestAssumption
      <4> QED  BY <3>1, <4>2, <4>3 DEF Inv
    <3>3. \A j \in Slot : j # i => phase'[j] = phase[j]
      BY <3>1 DEF Inv
    <3>4. phase'[i] # "queued" /\ DOMAIN phase' = Slot
      BY <3>1 DEF Inv
    <3> QED  BY <3>1, <3>2, <3>3, <3>4 DEF Inv, PreparedIsAdmitted
  <2>3. ASSUME NEW i \in Slot, SampleRow(i)
        PROVE  Inv'
    BY <2>3 DEF SampleRow, Inv, PreparedIsAdmitted
  <2>4. ASSUME NEW i \in Slot, Cancel(i)
        PROVE  Inv'
    BY <2>4 DEF Cancel, Inv, PreparedIsAdmitted
  <2>5. CASE StartStep
    BY <2>5 DEF StartStep, Inv, PreparedIsAdmitted
  <2>6. CASE StepFails
    BY <2>6 DEF StepFails, Inv, PreparedIsAdmitted
  <2>7. CASE Publish
    <3>1. /\ UNCHANGED <<service, prepared>>
          /\ phase' = [j \in Slot |->
                IF j \in DOMAIN working /\ phase[j] = "active" /\ Completed(j, working[j])
                THEN "completed" ELSE phase[j]]
      BY <2>7 DEF Publish
    <3>2. DOMAIN phase' = Slot /\ \A j \in Slot : phase'[j] \in {"completed", phase[j]}
      BY <3>1
    <3> QED  BY <3>1, <3>2 DEF Inv, PreparedIsAdmitted
  <2>8. CASE UNCHANGED vars
    BY <2>8 DEF vars, Inv, PreparedIsAdmitted
  <2> QED  BY <2>1, <2>2, <2>3, <2>4, <2>5, <2>6, <2>7, <2>8 DEF Next
<1> QED  BY <1>1, <1>2, PTL DEF Spec

\* A request that passed the checks of the service never fails at admission,
\* unless the model has more positions than its manifest can say.
THEOREM AdmissionTakesPrepared == Spec => []PreparedIsAdmitted
<1>1. Inv => PreparedIsAdmitted
  BY DEF Inv
<1> QED  BY <1>1, InvariantCorrect, PTL
-----------------------------------------------------------------------------
(* A request's tokens are those it generates alone.                         *)

\* A set of natural numbers that is not empty has a least one.
LEMMA LeastMember ==
    ASSUME NEW T, T \subseteq Nat, T # {}
    PROVE  \E m \in T : \A k \in T : m <= k
<1>1. IsWellFoundedOn(OpToRel(<, Nat), Nat)
  BY NatLessThanWellFounded
<1>2. \A k, m \in Nat : k < m => <<k, m>> \in OpToRel(<, Nat)
  BY DEF OpToRel
<1>3. \E m \in T : \A k \in T : ~ (<<k, m>> \in OpToRel(<, Nat))
  BY <1>1, WFMin, Zenon
<1>4. PICK m \in T : \A k \in T : ~ (<<k, m>> \in OpToRel(<, Nat))
  BY <1>3, Zenon
<1>5. m \in Nat /\ \A k \in T : k \in Nat
  OBVIOUS
<1>6. \A k \in T : ~ (k < m)
  BY <1>2, <1>4, <1>5, Zenon
<1> QED  BY <1>5, <1>6

\* Induction up to n, for the set of numbers with the property to be shown.
LEMMA UpTo ==
    ASSUME NEW n \in Nat, NEW T, 0 \in T, \A k \in 1..n : k - 1 \in T => k \in T
    PROVE  \A k \in 0..n : k \in T
<1> DEFINE Rest == (0..n) \ T
<1>1. SUFFICES ASSUME Rest # {} PROVE FALSE
  OBVIOUS
<1>2. PICK m \in Rest : \A k \in Rest : m <= k
  <2>1. Rest \subseteq Nat
    OBVIOUS
  <2> HIDE DEF Rest
  <2> QED  BY <1>1, <2>1, LeastMember
<1>3. m \in 1..n /\ m - 1 \in 0..n /\ m - 1 \notin Rest /\ m \notin T
  BY <1>2
<1> QED  BY <1>3

\* The k-th token of a request that is alone, after the history `before'.
TokenAlone(p, before, k) ==
    Sample(LogitsAfter(before), before, p.sampling,
           IF p.sampling.temperature = Zero THEN 0 ELSE Stream[p.sampling.seed][k], Draws)

\* The histories of a request that is alone.
GrowsAlone(p, h, n) ==
    h = [k \in 0..n |-> IF k = 0 THEN p.prompt ELSE Append(h[k - 1], TokenAlone(p, h[k - 1], k))]

\* What is appended to the second of two sequences ends them both.
EndsBoth(a, b, e) == Append(a \o b, e) = a \o Append(b, e)

LEMMA AppendBehind ==
    ASSUME NEW S, NEW a \in Seq(S), NEW b \in Seq(S), NEW e \in S
    PROVE  EndsBoth(a, b, e)
<1>1. a \o b \in Seq(S)
  BY ConcatProperties
<1>2. Append(a \o b, e) = (a \o b) \o <<e>> /\ Append(b, e) = b \o <<e>>
  BY <1>1, AppendIsConcat
<1>3. (a \o b) \o <<e>> = a \o (b \o <<e>>)
  <2>1. <<e>> \in Seq(S)
    OBVIOUS
  <2> QED  BY <2>1, ConcatAssociative
<1> QED  BY <1>2, <1>3 DEF EndsBoth

\* Whatever grows like that is what Alone defines.
LEMMA AloneIs ==
    ASSUME NEW i \in Slot, NEW n \in Nat, NEW h, GrowsAlone(prepared[i], h, n)
    PROVE  Alone(i, n) = h[n]
<1> DEFINE p == prepared[i]
           f == CHOOSE g : GrowsAlone(p, g, n)
<1>1. Alone(i, n) = f[n]
  BY DEF Alone, GrowsAlone, TokenAlone
<1>2. GrowsAlone(p, f, n)
  <2>1. \E g : GrowsAlone(p, g, n)
    OBVIOUS
  <2> QED  BY <2>1, Zenon
<1> HIDE DEF p, f
<1> DEFINE T == {k \in 0..n : f[k] = h[k]}
<1>3. GrowsAlone(p, h, n)
  BY DEF p
<1>4. 0 \in T
  BY <1>2, <1>3 DEF GrowsAlone
<1>5. ASSUME NEW k \in 1..n, k - 1 \in T PROVE k \in T
  <2>1. k \in 0..n /\ k # 0 /\ f[k - 1] = h[k - 1]
    BY <1>5
  <2>2. f[k] = Append(f[k - 1], TokenAlone(p, f[k - 1], k))
    BY <1>2, <2>1 DEF GrowsAlone
  <2>3. h[k] = Append(h[k - 1], TokenAlone(p, h[k - 1], k))
    BY <1>3, <2>1 DEF GrowsAlone
  <2> QED  BY <2>1, <2>2, <2>3
<1> HIDE DEF T
<1>6. n \in T
  <2>1. n \in 0..n
    OBVIOUS
  <2> QED  BY <1>4, <1>5, <2>1, UpTo
<1> QED  BY <1>1, <1>6 DEF T

\* Greedy sampling does not look at the draw.
LEMMA GreedyIgnoresDraw ==
    ASSUME NEW logits, NEW history, NEW config, config.temperature = Zero, NEW a, NEW b
    PROVE  Sample(logits, history, config, a, Draws) = Sample(logits, history, config, b, Draws)
BY DEF Sample

\* What a member has generated and drawn is what its request does alone.
AsAlone(p, m) ==
    /\ \E S : p.prompt \in Seq(S) /\ m.generated \in Seq(S)
    /\ m.random = IF p.sampling.temperature = Zero THEN 0 ELSE Len(m.generated)
    /\ \E h : /\ GrowsAlone(p, h, Len(m.generated))
              /\ h[Len(m.generated)] = p.prompt \o m.generated

\* A new member.
LEMMA NewAsAlone ==
    ASSUME NEW p, NEW S, p.prompt \in Seq(S)
    PROVE  AsAlone(p, NewMember)
<1>1. <<>> \in Seq(S) /\ Len(<<>>) = 0 /\ NewMember.generated = <<>> /\ NewMember.random = 0
  BY DEF NewMember
<1>2. p.prompt \o <<>> = p.prompt
  BY ConcatEmptySeq
<1> DEFINE h == [k \in 0..0 |-> p.prompt]
<1>3. GrowsAlone(p, h, 0) /\ h[0] = p.prompt
  BY DEF GrowsAlone
<1> HIDE DEF h
<1> QED  BY <1>1, <1>2, <1>3 DEF AsAlone

\* A member that samples as its request would alone.
LEMMA SampledAsAlone ==
    ASSUME NEW p, NEW m, AsAlone(p, m), NEW next,
           next.generated = Append(m.generated, TokenAlone(p, p.prompt \o m.generated,
                                                           Len(m.generated) + 1)),
           next.random = m.random + DrawsTaken(p.sampling)
    PROVE  /\ AsAlone(p, next) /\ Len(m.generated) \in Nat
           /\ Len(next.generated) = Len(m.generated) + 1
           /\ \A k \in 1..Len(m.generated) : next.generated[k] = m.generated[k]
<1> DEFINE n == Len(m.generated)
           token == TokenAlone(p, p.prompt \o m.generated, n + 1)
<1>1. PICK S : p.prompt \in Seq(S) /\ m.generated \in Seq(S)
  BY DEF AsAlone
<1>2. PICK h : GrowsAlone(p, h, n) /\ h[n] = p.prompt \o m.generated
  BY DEF AsAlone
<1> DEFINE R == S \cup {token}
<1>3. p.prompt \in Seq(R) /\ m.generated \in Seq(R) /\ token \in R
  <2>1. S \subseteq R /\ token \in R
    OBVIOUS
  <2> HIDE DEF R
  <2> QED  BY <1>1, <2>1, SeqMonotonic
<1>4. m.random = IF p.sampling.temperature = Zero THEN 0 ELSE n
  BY DEF AsAlone
<1>5. next.generated = Append(m.generated, token)
  OBVIOUS
<1> HIDE DEF R, token
<1>6. /\ next.generated \in Seq(R) /\ Len(next.generated) = n + 1 /\ n \in Nat
      /\ \A k \in 1..n : next.generated[k] = m.generated[k]
  BY <1>3, <1>5, AppendProperties, LenProperties
<1>7. next.random = IF p.sampling.temperature = Zero THEN 0 ELSE n + 1
  BY <1>4, <1>6 DEF DrawsTaken
<1>8. Append(p.prompt \o m.generated, token) = p.prompt \o next.generated
  <2> DEFINE a == p.prompt  b == m.generated
  <2>1. a \in Seq(R) /\ b \in Seq(R)
    BY <1>3
  <2> HIDE DEF a, b
  <2>2. EndsBoth(a, b, token)
    BY <1>3, <2>1, AppendBehind
  <2> QED  BY <1>5, <2>2 DEF EndsBoth, a, b
<1> DEFINE g == [k \in 0..(n + 1) |-> IF k = n + 1 THEN p.prompt \o next.generated ELSE h[k]]
<1>9. GrowsAlone(p, g, n + 1) /\ g[n + 1] = p.prompt \o next.generated
  <2> HIDE DEF n
  <2>1. ASSUME NEW k \in 0..(n + 1)
        PROVE  g[k] = IF k = 0 THEN p.prompt ELSE Append(g[k - 1], TokenAlone(p, g[k - 1], k))
    <3>1. CASE k = n + 1
      <4>1. k # 0 /\ k - 1 = n /\ n \in 0..(n + 1) /\ n # n + 1
        BY <1>6, <3>1
      <4>2. g[k - 1] = h[n] /\ g[k] = p.prompt \o next.generated
        BY <3>1, <4>1
      <4>3. token = TokenAlone(p, h[n], k)
        BY <1>2, <3>1 DEF token
      <4> HIDE DEF g
      <4> QED  BY <1>2, <1>8, <4>1, <4>2, <4>3
    <3>2. CASE k # n + 1
      <4>1. k \in 0..n /\ (k # 0 => k - 1 \in 0..(n + 1) /\ k - 1 # n + 1)
        BY <1>6, <3>2
      <4>2. h[k] = IF k = 0 THEN p.prompt ELSE Append(h[k - 1], TokenAlone(p, h[k - 1], k))
        BY <1>2, <4>1 DEF GrowsAlone
      <4>3. g[k] = h[k] /\ (k # 0 => g[k - 1] = h[k - 1])
        BY <3>2, <4>1
      <4> HIDE DEF g
      <4> QED  BY <4>2, <4>3
    <3> QED  BY <3>1, <3>2
  <2>2. g[n + 1] = p.prompt \o next.generated
    BY <1>6
  <2> QED  BY <2>1, <2>2 DEF GrowsAlone
<1> HIDE DEF g
<1>10. AsAlone(p, next)
  BY <1>3, <1>6, <1>7, <1>9 DEF AsAlone
<1> QED  BY <1>6, <1>10

\* What SampleRow does to a copy is that.
LEMMA RowAsAlone ==
    ASSUME NEW i \in Slot, NEW m, AsAlone(prepared[i], m), NEW token, token = TokenOf(i, m)
    PROVE  /\ AsAlone(prepared[i], Sampled(i, m, token)) /\ Len(m.generated) \in Nat
           /\ Len(Sampled(i, m, token).generated) = Len(m.generated) + 1
           /\ \A k \in 1..Len(m.generated) :
                Sampled(i, m, token).generated[k] = m.generated[k]
<1> DEFINE p == prepared[i]  n == Len(m.generated)  before == p.prompt \o m.generated
           next == Sampled(i, m, token)
<1>1. token = TokenAlone(p, before, n + 1)
  <2>1. token = Sample(LogitsAfter(before), before, p.sampling,
                       Stream[p.sampling.seed][m.random + 1], Draws)
    BY DEF TokenOf, HistoryOf, DrawAt
  <2>2. CASE p.sampling.temperature = Zero
    <3> HIDE DEF p, before
    <3>1. Sample(LogitsAfter(before), before, p.sampling, Stream[p.sampling.seed][m.random + 1], Draws)
            = Sample(LogitsAfter(before), before, p.sampling, 0, Draws)
      BY <2>2, GreedyIgnoresDraw
    <3> QED  BY <2>1, <2>2, <3>1 DEF TokenAlone
  <2>3. CASE p.sampling.temperature # Zero
    <3>1. m.random = n
      BY <2>3 DEF AsAlone
    <3> QED  BY <2>1, <2>3, <3>1 DEF TokenAlone
  <2> QED  BY <2>2, <2>3
<1>2. next.generated = Append(m.generated, token) /\ next.random = m.random + DrawsTaken(p.sampling)
  BY DEF Sampled
<1>3. AsAlone(p, m)
  OBVIOUS
<1> HIDE DEF next, p
<1>4. /\ AsAlone(p, next) /\ Len(m.generated) \in Nat
      /\ Len(next.generated) = Len(m.generated) + 1
      /\ \A k \in 1..Len(m.generated) : next.generated[k] = m.generated[k]
  BY <1>1, <1>2, <1>3, SampledAsAlone
<1> QED  BY <1>4 DEF next, p

\* No token up to the n-th ends the generation.
Unended(m, n) == \A k \in 1..n : m.generated[k] \notin ToSet(service.eos)

\* Members have what their requests generate alone, and go on only where those
\* would.
MembersAlone ==
    /\ DOMAIN member = Slot
    /\ \A i \in Slot :
         /\ phase[i] \in {"new", "queued"} => member[i] = NewMember
         /\ phase[i] \in {"active", "completed", "cancelled"} =>
              /\ AsAlone(prepared[i], member[i]) /\ prepared[i].maxNew \in Nat
              /\ Unended(member[i], Len(member[i].generated) - 1)
         /\ phase[i] = "active" =>
              /\ Len(member[i].generated) < prepared[i].maxNew
              /\ Unended(member[i], Len(member[i].generated))

\* So have the copies of a running step, which are the originals until they are
\* sampled.
CopiesAlone ==
    /\ DOMAIN working \subseteq Slot /\ todo \subseteq DOMAIN working
    /\ \A i \in DOMAIN working :
         /\ phase[i] \in {"active", "cancelled"}
         /\ AsAlone(prepared[i], working[i])
         /\ Unended(working[i], Len(working[i].generated) - 1)
         /\ i \in todo /\ phase[i] = "active" => working[i] = member[i]

AloneInv == Inv /\ MembersAlone /\ CopiesAlone

\* What was prepared names a budget and a prompt.
LEMMA PreparedTyped ==
    ASSUME NEW model \in Services, NEW i \in Slot, NEW request \in Requests[i],
           NEW p, p = Prepare(request, model), p # Refused
    PROVE  p.prompt \in Seq(Nat) /\ p.maxNew \in Nat \ {0}
<1>1. PICK text, special : p = PrepareText(text, special, request, model)
  BY DEF Prepare, PrepareChat, PrepareCompletion
<1>2. p.maxNew \in 1..model.maxGenerated
  BY <1>1, TextPrepared
<1>3. p.prompt \in Seq(Nat) /\ model.maxGenerated \in Nat
  BY TokenizerAssumption, ModelAssumption
<1> QED  BY <1>2, <1>3

\* The invariant says what is to be shown.
LEMMA AloneReproduces ==
    ASSUME AloneInv
    PROVE  Reproducible
<1> SUFFICES ASSUME NEW i \in Slot, phase[i] \in {"active", "completed", "cancelled"}
             PROVE  LET tokens == member[i].generated IN
                    /\ HistoryOf(i, member[i]) = Alone(i, Len(tokens))
                    /\ phase[i] = "active" => Len(tokens) < prepared[i].maxNew
                    /\ \A k \in 1..(Len(tokens) - 1) : tokens[k] \notin ToSet(service.eos)
  BY DEF Reproducible
<1>1. AsAlone(prepared[i], member[i]) /\ Unended(member[i], Len(member[i].generated) - 1)
  BY DEF AloneInv, MembersAlone
<1>2. PICK h : /\ GrowsAlone(prepared[i], h, Len(member[i].generated))
               /\ h[Len(member[i].generated)] = prepared[i].prompt \o member[i].generated
  BY <1>1 DEF AsAlone
<1>3. Len(member[i].generated) \in Nat
  <2>1. PICK S : member[i].generated \in Seq(S)
    BY <1>1 DEF AsAlone
  <2> QED  BY <2>1, LenProperties
<1>4. Alone(i, Len(member[i].generated)) = h[Len(member[i].generated)]
  BY <1>2, <1>3, AloneIs
<1>5. phase[i] = "active" => Len(member[i].generated) < prepared[i].maxNew
  BY DEF AloneInv, MembersAlone
<1> QED  BY <1>1, <1>2, <1>4, <1>5 DEF HistoryOf, Unended

\* Nothing is generated or copied at first.
LEMMA AloneInit == Init => AloneInv
<1> SUFFICES ASSUME Init PROVE AloneInv
  OBVIOUS
<1>1. Inv
  BY DEF Init, Inv, PreparedIsAdmitted
<1>2. /\ phase = [i \in Slot |-> "new"] /\ member = [i \in Slot |-> NewMember]
      /\ DOMAIN working = {} /\ todo = {}
  BY DEF Init
<1>3. MembersAlone
  BY <1>2 DEF MembersAlone
<1>4. CopiesAlone
  BY <1>2 DEF CopiesAlone
<1> QED  BY <1>1, <1>3, <1>4 DEF AloneInv

\* A request that is prepared, admitted or cancelled leaves members and copies as
\* they are; an admitted one has generated nothing.
LEMMA PhaseAlone ==
    ASSUME AloneInv, NEW i \in Slot, UNCHANGED <<service, member, working, todo>>,
           DOMAIN phase' = Slot,
           \A j \in Slot : j # i => phase'[j] = phase[j] /\ prepared'[j] = prepared[j],
           \* slot i
           phase'[i] \in {"new", "queued"} => phase[i] \in {"new", "queued"},
           \/ /\ phase[i] \in {"new", "queued"}
              /\ phase'[i] \in {"active", "completed", "cancelled"} =>
                   /\ phase'[i] = "active"
                   /\ prepared'[i].prompt \in Seq(Nat) /\ prepared'[i].maxNew \in Nat \ {0}
           \/ phase[i] = "active" /\ phase'[i] = "cancelled" /\ prepared'[i] = prepared[i]
    PROVE  MembersAlone' /\ CopiesAlone'
<1>1. MembersAlone /\ CopiesAlone
  BY DEF AloneInv
<1>2. ASSUME NEW j \in Slot, j # i
      PROVE  /\ phase'[j] \in {"new", "queued"} => member'[j] = NewMember
             /\ phase'[j] \in {"active", "completed", "cancelled"} =>
                  /\ AsAlone(prepared'[j], member'[j]) /\ prepared'[j].maxNew \in Nat
                  /\ Unended(member[j], Len(member[j].generated) - 1)
             /\ phase'[j] = "active" =>
                  /\ Len(member'[j].generated) < prepared'[j].maxNew
                  /\ Unended(member[j], Len(member[j].generated))
  <2>1. phase'[j] = phase[j] /\ prepared'[j] = prepared[j] /\ member'[j] = member[j]
    BY <1>2
  <2> QED  BY <1>1, <2>1 DEF MembersAlone
<1>3. /\ phase'[i] \in {"new", "queued"} => member'[i] = NewMember
      /\ phase'[i] \in {"active", "completed", "cancelled"} =>
           /\ AsAlone(prepared'[i], member'[i]) /\ prepared'[i].maxNew \in Nat
           /\ Unended(member[i], Len(member[i].generated) - 1)
      /\ phase'[i] = "active" =>
           /\ Len(member'[i].generated) < prepared'[i].maxNew
           /\ Unended(member[i], Len(member[i].generated))
  <2>1. CASE phase[i] \in {"new", "queued"}
    <3>1. member'[i] = NewMember /\ member[i] = NewMember
      BY <1>1, <2>1 DEF MembersAlone
    <3>2. SUFFICES ASSUME phase'[i] \in {"active", "completed", "cancelled"}
                   PROVE  /\ AsAlone(prepared'[i], member'[i]) /\ prepared'[i].maxNew \in Nat
                          /\ Unended(member[i], Len(member[i].generated) - 1)
                          /\ Len(member'[i].generated) < prepared'[i].maxNew
                          /\ Unended(member[i], Len(member[i].generated))
      BY <3>1
    <3>3. prepared'[i].prompt \in Seq(Nat) /\ prepared'[i].maxNew \in Nat \ {0}
      BY <2>1, <3>2
    <3>4. AsAlone(prepared'[i], NewMember)
      BY <3>3, NewAsAlone
    <3>5. Len(NewMember.generated) = 0
      BY DEF NewMember
    <3>6. Unended(NewMember, Len(NewMember.generated) - 1) /\ Unended(NewMember, Len(NewMember.generated))
      BY <3>5 DEF Unended
    <3> QED  BY <3>1, <3>3, <3>4, <3>5, <3>6
  <2>2. CASE phase[i] = "active" /\ phase'[i] = "cancelled" /\ prepared'[i] = prepared[i]
    <3>1. member'[i] = member[i]
      OBVIOUS
    <3> QED  BY <1>1, <2>2, <3>1 DEF MembersAlone
  <2> QED  BY <2>1, <2>2
<1>4. MembersAlone'
  <2>1. \A j \in Slot : \A n : Unended(member[j], n) => Unended(member[j], n)'
    BY DEF Unended
  <2>2. DOMAIN member' = Slot
    BY <1>1 DEF MembersAlone
  <2> QED  BY <1>2, <1>3, <2>1, <2>2 DEF MembersAlone
<1>5. CopiesAlone'
  <2>1. ASSUME NEW j \in DOMAIN working
        PROVE  /\ phase'[j] \in {"active", "cancelled"} /\ prepared'[j] = prepared[j]
               /\ phase'[j] = "active" => phase[j] = "active"
    <3>1. phase[j] \in {"active", "cancelled"} /\ j \in Slot
      BY <1>1 DEF CopiesAlone
    <3>2. CASE j = i
      BY <3>1, <3>2
    <3>3. CASE j # i
      BY <3>1, <3>3
    <3> QED  BY <3>2, <3>3
  <2>2. ASSUME NEW j \in DOMAIN working
        PROVE  /\ AsAlone(prepared'[j], working'[j])
               /\ Unended(working[j], Len(working[j].generated) - 1)
               /\ j \in todo' /\ phase'[j] = "active" => working'[j] = member'[j]
    BY <1>1, <2>1 DEF CopiesAlone
  <2>3. \A j \in DOMAIN working : \A n : Unended(working[j], n) => Unended(working[j], n)'
    BY DEF Unended
  <2>4. DOMAIN working' \subseteq Slot /\ todo' \subseteq DOMAIN working' /\ working' = working
    BY <1>1 DEF CopiesAlone
  <2> QED  BY <2>1, <2>2, <2>3, <2>4 DEF CopiesAlone
<1> QED  BY <1>4, <1>5

\* A step starts with copies of its members.
LEMMA StartAlone == ASSUME AloneInv, StartStep PROVE MembersAlone' /\ CopiesAlone'
<1> DEFINE rows == {i \in Slot : phase[i] = "active"}
<1>1. MembersAlone
  BY DEF AloneInv
<1>2. /\ working' = [i \in rows |-> member[i]] /\ todo' = rows
      /\ UNCHANGED <<service, phase, prepared, member>>
  BY DEF StartStep
<1>3. MembersAlone'
  BY <1>1, <1>2 DEF MembersAlone, Unended
<1>4. CopiesAlone'
  <2>1. DOMAIN working' = rows /\ \A i \in rows : working'[i] = member[i]
    BY <1>2
  <2>2. ASSUME NEW i \in rows
        PROVE  /\ phase'[i] = "active" /\ AsAlone(prepared'[i], working'[i])
               /\ Unended(member[i], Len(member[i].generated) - 1)
    BY <1>1, <1>2, <2>1 DEF MembersAlone
  <2>3. \A i \in rows : \A n : Unended(member[i], n) => Unended(working[i], n)'
    BY <1>2, <2>1 DEF Unended
  <2> QED  BY <1>2, <2>1, <2>2, <2>3 DEF CopiesAlone
<1> QED  BY <1>3, <1>4

\* A row is sampled as it would be alone, or left out because its token fired.
LEMMA SampleAlone ==
    ASSUME AloneInv, NEW i \in Slot, SampleRow(i)
    PROVE  MembersAlone' /\ CopiesAlone'
<1>1. MembersAlone /\ CopiesAlone
  BY DEF AloneInv
<1>2. i \in todo /\ todo' = todo \ {i} /\ UNCHANGED <<service, phase, prepared, member>>
  BY DEF SampleRow
<1>3. MembersAlone'
  BY <1>1, <1>2 DEF MembersAlone, Unended
<1>4. CASE phase[i] = "cancelled"
  <2>1. working' = working
    BY <1>4 DEF SampleRow
  <2>2. CopiesAlone'
    BY <1>1, <1>2, <2>1 DEF CopiesAlone, Unended
  <2> QED  BY <1>3, <2>2
<1>5. CASE phase[i] # "cancelled"
  <2> DEFINE token == TokenOf(i, working[i])  next == Sampled(i, working[i], token)
             n == Len(working[i].generated)
  <2>1. working' = [working EXCEPT ![i] = next]
    BY <1>5 DEF SampleRow
  <2>2. i \in DOMAIN working /\ phase[i] = "active" /\ working[i] = member[i]
    BY <1>1, <1>2, <1>5 DEF CopiesAlone
  <2>3. AsAlone(prepared[i], working[i]) /\ Unended(member[i], Len(member[i].generated))
    BY <1>1, <2>2 DEF CopiesAlone, MembersAlone
  <2>4. /\ AsAlone(prepared[i], next) /\ n \in Nat /\ Len(next.generated) = n + 1
        /\ \A k \in 1..n : next.generated[k] = working[i].generated[k]
    BY <2>3, RowAsAlone
  <2>5. Unended(working[i], n)
    BY <2>2, <2>3
  <2> HIDE DEF token, next
  <2>6. Unended(next, Len(next.generated) - 1)
    <3>1. Len(next.generated) - 1 = n
      BY <2>4
    <3> HIDE DEF n
    <3> QED  BY <2>4, <2>5, <3>1 DEF Unended
  <2>7. working'[i] = next /\ DOMAIN working' = DOMAIN working
        /\ \A j \in DOMAIN working : j # i => working'[j] = working[j]
    BY <2>1, <2>2
  <2>8. \A m, k : Unended(m, k) => \A l \in 1..k : m.generated[l] \notin ToSet(service.eos)
    BY DEF Unended
  <2>9. ASSUME NEW j \in DOMAIN working
        PROVE  /\ phase'[j] \in {"active", "cancelled"} /\ AsAlone(prepared'[j], working'[j])
               /\ Unended(working[j], Len(working[j].generated) - 1)'
               /\ j \in todo' /\ phase'[j] = "active" => working'[j] = member'[j]
    <3>1. CASE j = i
      <4>1. phase'[j] = "active" /\ prepared'[j] = prepared[i] /\ j \notin todo' /\ working'[j] = next
        BY <1>2, <2>2, <2>7, <3>1
      <4>2. Unended(working[j], Len(working[j].generated) - 1)'
        BY <1>2, <2>6, <4>1 DEF Unended
      <4> QED  BY <2>4, <4>1, <4>2
    <3>2. CASE j # i
      <4>1. working'[j] = working[j] /\ phase'[j] = phase[j] /\ prepared'[j] = prepared[j]
            /\ member'[j] = member[j] /\ (j \in todo' => j \in todo)
        BY <1>2, <2>7, <3>2
      <4>2. Unended(working[j], Len(working[j].generated) - 1)
        BY <1>1 DEF CopiesAlone
      <4>3. Unended(working[j], Len(working[j].generated) - 1)'
        BY <1>2, <4>1, <4>2 DEF Unended
      <4> QED  BY <1>1, <4>1, <4>3 DEF CopiesAlone
    <3> QED  BY <3>1, <3>2
  <2>10. DOMAIN working' \subseteq Slot /\ todo' \subseteq DOMAIN working'
    BY <1>1, <1>2, <2>7 DEF CopiesAlone
  <2>11. CopiesAlone'
    BY <2>7, <2>9, <2>10 DEF CopiesAlone
  <2> QED  BY <1>3, <2>11
<1> QED  BY <1>4, <1>5

\* A failed step puts the originals back.
LEMMA FailAlone == ASSUME AloneInv, StepFails PROVE MembersAlone' /\ CopiesAlone'
<1>1. MembersAlone /\ UNCHANGED <<service, phase, prepared, member>> /\ working' = <<>> /\ todo' = {}
  BY DEF AloneInv, StepFails, StepEnds, Restored
<1>2. MembersAlone'
  BY <1>1 DEF MembersAlone, Unended
<1>3. CopiesAlone'
  BY <1>1 DEF CopiesAlone
<1> QED  BY <1>2, <1>3

\* The copies of the rows that are still wanted become the members; a request is
\* complete where it would be alone.
LEMMA PublishAlone == ASSUME AloneInv, Publish PROVE MembersAlone' /\ CopiesAlone'
<1>1. MembersAlone /\ CopiesAlone
  BY DEF AloneInv
<1>2. /\ todo = {} /\ working' = <<>> /\ todo' = {} /\ UNCHANGED <<service, prepared>>
      /\ member' = [i \in Slot |->
             IF i \in DOMAIN working /\ phase[i] = "active" THEN working[i] ELSE member[i]]
      /\ phase' = [i \in Slot |->
             IF i \in DOMAIN working /\ phase[i] = "active" /\ Completed(i, working[i])
             THEN "completed" ELSE phase[i]]
  BY DEF Publish, StepEnds
<1>3. CopiesAlone'
  BY <1>2 DEF CopiesAlone
<1>4. ASSUME NEW i \in Slot
      PROVE  /\ phase'[i] \in {"new", "queued"} => member'[i] = NewMember
             /\ phase'[i] \in {"active", "completed", "cancelled"} =>
                  /\ AsAlone(prepared'[i], member'[i]) /\ prepared'[i].maxNew \in Nat
                  /\ Unended(member[i], Len(member[i].generated) - 1)'
             /\ phase'[i] = "active" =>
                  /\ Len(member'[i].generated) < prepared'[i].maxNew
                  /\ Unended(member[i], Len(member[i].generated))'
  <2>1. CASE i \in DOMAIN working /\ phase[i] = "active"
    <3> DEFINE m == working[i]  n == Len(m.generated)
    <3>1. member'[i] = m /\ prepared'[i] = prepared[i] /\ service' = service
          /\ phase'[i] = IF Completed(i, m) THEN "completed" ELSE "active"
      BY <1>2, <2>1
    <3>2. AsAlone(prepared[i], m) /\ prepared[i].maxNew \in Nat /\ Unended(m, n - 1)
      BY <1>1, <2>1 DEF CopiesAlone, MembersAlone
    <3>3. n \in Nat
      <4>1. PICK S : m.generated \in Seq(S)
        BY <3>2 DEF AsAlone
      <4> QED  BY <4>1, LenProperties
    <3>4. ASSUME ~Completed(i, m) PROVE n < prepared[i].maxNew /\ Unended(m, n)
      <4>1. n < prepared[i].maxNew /\ m.generated[n] \notin ToSet(service.eos)
        BY <3>2, <3>3, <3>4 DEF Completed, Last
      <4>2. \A k \in 1..n : k = n \/ k \in 1..(n - 1)
        BY <3>3
      <4> HIDE DEF n
      <4> QED  BY <3>2, <4>1, <4>2 DEF Unended
    <3> HIDE DEF m
    <3>5. \A k : Unended(m, k) => Unended(member[i], k)'
      BY <3>1 DEF Unended
    <3>6. /\ Unended(member[i], Len(member[i].generated) - 1)'
          /\ ~Completed(i, m) => Unended(member[i], Len(member[i].generated))'
      BY <3>1, <3>2, <3>4, <3>5
    <3> QED  BY <3>1, <3>2, <3>4, <3>6
  <2>2. CASE ~(i \in DOMAIN working /\ phase[i] = "active")
    <3>1. member'[i] = member[i] /\ phase'[i] = phase[i] /\ prepared'[i] = prepared[i]
      BY <1>2, <2>2
    <3>2. \A k : Unended(member[i], k) => Unended(member[i], k)'
      BY <1>2, <3>1 DEF Unended
    <3> QED  BY <1>1, <3>1, <3>2 DEF MembersAlone
  <2> QED  BY <2>1, <2>2
<1>5. MembersAlone'
  BY <1>2, <1>4 DEF MembersAlone
<1> QED  BY <1>3, <1>5

\* Every step keeps members and copies to what their requests generate alone.
LEMMA AloneStep == AloneInv /\ Inv' /\ [Next]_vars => AloneInv'
<1> SUFFICES ASSUME AloneInv, [Next]_vars PROVE MembersAlone' /\ CopiesAlone'
  BY DEF AloneInv
<1>1. DOMAIN phase = Slot /\ DOMAIN prepared = Slot
  BY DEF AloneInv, Inv
<1>2. ASSUME NEW i \in Slot, NEW request \in Requests[i], Submit(i, request)
      PROVE  MembersAlone' /\ CopiesAlone'
  <2>1. /\ phase[i] = "new" /\ UNCHANGED <<service, member, working, todo>>
        /\ prepared' = [prepared EXCEPT ![i] = Prepare(request, service)]
        /\ phase' = [phase EXCEPT ![i] = IF prepared'[i] = Refused THEN "refused" ELSE "queued"]
    BY <1>2 DEF Submit
  <2>2. phase'[i] \in {"refused", "queued"} /\ DOMAIN phase' = Slot
        /\ \A j \in Slot : j # i => phase'[j] = phase[j] /\ prepared'[j] = prepared[j]
    BY <1>1, <2>1
  <2> QED  BY <2>1, <2>2, PhaseAlone
<1>3. ASSUME NEW i \in Slot, Admit(i) PROVE MembersAlone' /\ CopiesAlone'
  <2>1. /\ phase[i] = "queued" /\ UNCHANGED <<service, prepared, member, working, todo>>
        /\ phase' = [phase EXCEPT ![i] =
               IF ValidRequest(prepared[i], service) THEN "active" ELSE "rejected"]
    BY <1>3 DEF Admit
  <2>2. phase'[i] \in {"active", "rejected"} /\ DOMAIN phase' = Slot
        /\ \A j \in Slot : j # i => phase'[j] = phase[j] /\ prepared'[j] = prepared[j]
    BY <1>1, <2>1
  <2>3. prepared'[i].prompt \in Seq(Nat) /\ prepared'[i].maxNew \in Nat \ {0}
    <3>1. /\ service \in Services /\ prepared[i] # Refused
          /\ \E request \in Requests[i] : prepared[i] = Prepare(request, service)
      BY <2>1 DEF AloneInv, Inv
    <3> QED  BY <2>1, <3>1, PreparedTyped
  <2> QED  BY <2>1, <2>2, <2>3, PhaseAlone
<1>4. ASSUME NEW i \in Slot, Cancel(i) PROVE MembersAlone' /\ CopiesAlone'
  <2>1. /\ phase[i] = "active" /\ UNCHANGED <<service, prepared, member, working, todo>>
        /\ phase' = [phase EXCEPT ![i] = "cancelled"]
    BY <1>4 DEF Cancel
  <2>2. phase'[i] = "cancelled" /\ DOMAIN phase' = Slot
        /\ \A j \in Slot : j # i => phase'[j] = phase[j] /\ prepared'[j] = prepared[j]
    BY <1>1, <2>1
  <2> QED  BY <2>1, <2>2, PhaseAlone
<1>5. CASE UNCHANGED vars
  <2>1. MembersAlone /\ CopiesAlone /\ UNCHANGED <<service, phase, prepared, member, working, todo>>
    BY <1>5 DEF AloneInv, vars
  <2>2. MembersAlone'
    BY <2>1 DEF MembersAlone, Unended
  <2>3. CopiesAlone'
    BY <2>1 DEF CopiesAlone, Unended
  <2> QED  BY <2>2, <2>3
<1> QED  BY <1>2, <1>3, <1>4, <1>5, StartAlone, SampleAlone, FailAlone, PublishAlone DEF Next

\* The inductive invariant of sampling: members, and the copies of a running step,
\* have generated what their requests generate alone and drawn as often.
THEOREM AloneCorrect == Spec => []AloneInv
<1> QED  BY AloneInit, AloneStep, InvariantCorrect, PTL DEF Spec

\* A request's tokens are those it generates alone, from its prompt and its own
\* generator, whatever is sampled beside it and however often a step fails, and
\* it ends where it would alone.
THEOREM TokensReproducible == Spec => []Reproducible
<1> QED  BY AloneCorrect, AloneReproduces, PTL
=============================================================================
