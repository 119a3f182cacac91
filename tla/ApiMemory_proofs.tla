-------------------------- MODULE ApiMemory_proofs --------------------------
(***************************************************************************)
(* Theorems about what an API process keeps in memory or fills when it     *)
(* starts: the two guards between the agents and a language model, for any *)
(* providers, settings, prompts, answers, callers and times (LlmRouter     *)
(* with its masking, CircuitBreaker), the catalogue, for any number of     *)
(* starts and lines (Catalogue), and the event bus, for any queues and     *)
(* events (EventBus).  They share no state.                                *)
(***************************************************************************)
EXTENDS LlmRouter, CircuitBreaker, Catalogue, EventBus, FiniteSetTheorems, SequenceTheorems,
        TLAPS

(***************************************************************************)
(* The circuit breaker.                                                    *)
(***************************************************************************)

\* The clock and the times that are compared with it.
Times ==
    /\ now \in Nat
    /\ opened \in Nat \cup {Never}
    /\ tripped \in Nat \cup {Never}

\* Until a success is recorded, the breaker is open since its last trip or has
\* cooled down from it.
OpenSinceTrip ==
    (tripped # Never /\ ~ healed) =>
        opened = tripped \/ (opened = Never /\ now - tripped > OpenDuration)

BreakerInv == Times /\ OpenSinceTrip

\* The strengthening is inductive, and no step from it enters a breaker that is
\* still cooling down.
LEMMA BreakerStep ==
    ASSUME BreakerInv, [BreakerNext]_breakerVars
    PROVE  /\ BreakerInv'
           /\ \A k \in Callers :
                 (inside[k] = 0 /\ inside'[k] = 1 /\ tripped # Never /\ ~ healed)
                     => now - tripped > OpenDuration
<1> USE TimesAssumption, NeverAssumption DEF BreakerInv, Times, OpenSinceTrip
<1> DEFINE Entering(k) == inside[k] = 0 /\ inside'[k] = 1
           Rested == tripped # Never /\ ~ healed => now - tripped > OpenDuration
<1>1. ASSUME NEW k \in Callers, Admit(k) PROVE BreakerInv' /\ Rested
  <2>1. CASE opened = Never
    BY <1>1, <2>1 DEF Admit
  <2>2. CASE Cooled
    BY <1>1, <2>2 DEF Admit, Cooled
  <2> QED
    BY <1>1, <2>1, <2>2 DEF Admit
<1>2. ASSUME NEW k \in Callers, Refuse(k) PROVE BreakerInv' /\ \A c \in Callers : ~ Entering(c)
  BY <1>2 DEF Refuse, breakerVars
<1>3. ASSUME NEW k \in Callers, AttemptAgain(k)
      PROVE  BreakerInv' /\ \A c \in Callers : ~ Entering(c)
  BY <1>3 DEF AttemptAgain
<1>4. ASSUME NEW k \in Callers, Succeed(k) PROVE BreakerInv' /\ \A c \in Callers : ~ Entering(c)
  BY <1>4 DEF Succeed
<1>5. ASSUME NEW k \in Callers, Fail(k) PROVE BreakerInv' /\ \A c \in Callers : ~ Entering(c)
  BY <1>5 DEF Fail, OpenedNow
<1>6. CASE Tick
  BY <1>6 DEF Tick
<1>7. CASE UNCHANGED breakerVars
  BY <1>7 DEF breakerVars
<1> QED
  BY <1>1, <1>2, <1>3, <1>4, <1>5, <1>6, <1>7 DEF BreakerNext

\* After the threshold was reached nobody enters for the whole cool-down,
\* counted from the last failure, whatever callers that were inside report
\* meanwhile, unless one of them succeeded (is_open, record_failure).
THEOREM CoolsDownHolds == BreakerSpec => CoolsDown
<1>1. BreakerInit => BreakerInv
  BY DEF BreakerInit, BreakerInv, Times, OpenSinceTrip
<1>2. BreakerInv /\ [BreakerNext]_breakerVars => BreakerInv'
  BY BreakerStep
<1>3. BreakerInv /\ [BreakerNext]_breakerVars =>
          [\A k \in Callers :
              (inside[k] = 0 /\ inside'[k] = 1 /\ tripped # Never /\ ~ healed)
                  => now - tripped > OpenDuration]_breakerVars
  BY BreakerStep
<1> QED
  BY <1>1, <1>2, <1>3, PTL DEF BreakerSpec, CoolsDown

(***************************************************************************)
(* The masker.                                                             *)
(***************************************************************************)

\* What the agents send is made of found items.
LEMMA ItemsOfPrompt ==
    ASSUME NEW p \in Prompts, NEW i \in DOMAIN p
    PROVE  i \in Nat /\ p[i] \in [kind : Kinds, text : Texts]
<1> DEFINE Pieces == [kind : Kinds, text : Texts]
<1>1. p \in Seq(Pieces)
  BY PromptAssumption
<1> HIDE DEF Pieces
<1>2. i \in Nat /\ p[i] \in Pieces
  BY <1>1
<1> QED
  BY <1>2 DEF Pieces

\* A masked prompt holds placeholders only.
LEMMA MaskedIsPlaceholders ==
    ASSUME NEW p \in Prompts, NEW i \in DOMAIN p
    PROVE  Masked(p)[i] \in Placeholder
<1>1. p[i] \in [kind : Kinds, text : Texts]
  BY ItemsOfPrompt
<1>2. i \in Int /\ p[i].kind \in Kinds
  BY <1>1, ItemsOfPrompt
<1>3. IsFiniteSet({j \in 1..i : p[j].kind = p[i].kind})
  <2>1. IsFiniteSet(1..i)
    BY <1>2, FS_Interval
  <2> QED
    BY <2>1, FS_Subset
<1>4. Number(p, i) \in Nat
  BY <1>3, FS_CardinalityType DEF Number
<1> QED
  BY <1>2, <1>4 DEF Masked, Placeholder

\* What an agent wrote is no placeholder.
LEMMA ItemIsNoPlaceholder ==
    ASSUME NEW x \in [kind : Kinds, text : Texts] PROVE x \notin Placeholder
<1>1. DOMAIN x = {"kind", "text"}
  OBVIOUS
<1>2. \A h \in Placeholder : DOMAIN h = {"kind", "no"}
  BY DEF Placeholder
<1> QED
  BY <1>1, <1>2

\* Unmasking leaves no placeholder of the prompt in an answer.
LEMMA UnmaskedIsRestored ==
    ASSUME NEW p \in Prompts, NEW r, NEW i \in DOMAIN r
    PROVE  Unmasked(p, r)[i] \notin ToSet(Masked(p))
<1>1. CASE r[i] \in ToSet(Masked(p))
  <2>1. \E k \in DOMAIN p : Masked(p)[k] = r[i]
    BY <1>1 DEF ToSet, Masked
  <2> DEFINE k == CHOOSE k \in DOMAIN p : Masked(p)[k] = r[i]
  <2>2. k \in DOMAIN p
    BY <2>1
  <2>3. Unmasked(p, r)[i] = p[k]
    BY <1>1 DEF Unmasked, Original
  <2>4. p[k] \in [kind : Kinds, text : Texts]
    BY <2>2, ItemsOfPrompt
  <2>5. p[k] \notin Placeholder
    BY <2>4, ItemIsNoPlaceholder
  <2>6. \A h \in ToSet(Masked(p)) : h \in Placeholder
    BY MaskedIsPlaceholders DEF ToSet, Masked
  <2> QED
    BY <2>3, <2>5, <2>6
<1>2. CASE r[i] \notin ToSet(Masked(p))
  BY <1>2 DEF Unmasked
<1> QED
  BY <1>1, <1>2

(***************************************************************************)
(* The router: types.                                                      *)
(***************************************************************************)

\* A prompt, masked or not, and an answer, unmasked or not, are texts.
LEMMA TextsAreReadable ==
    ASSUME NEW p \in Prompts
    PROVE  /\ p \in Seq(Readable)
           /\ Masked(p) \in Seq(Readable)
           /\ \A r \in Written : r \in Seq(Readable) /\ Unmasked(p, r) \in Seq(Readable)
<1>1. p \in Seq(Readable)
  <2> DEFINE Pieces == [kind : Kinds, text : Texts]
  <2>1. p \in Seq(Pieces) /\ Pieces \subseteq Readable
    BY PromptAssumption DEF Readable
  <2> HIDE DEF Pieces
  <2> QED
    BY <2>1
<1>2. Masked(p) \in Seq(Readable)
  <2>1. DOMAIN p = 1..Len(p) /\ Len(p) \in Nat
    BY <1>1
  <2>2. Masked(p) \in [1..Len(p) -> Readable]
    <3>1. \A i \in 1..Len(p) : Masked(p)[i] \in Readable
      BY <2>1, MaskedIsPlaceholders DEF Readable
    <3>2. Masked(p) = [i \in 1..Len(p) |-> Masked(p)[i]]
      BY <2>1 DEF Masked
    <3> QED
      BY <3>1, <3>2
  <2> QED
    BY <2>1, <2>2
<1>3. ASSUME NEW r \in Written PROVE r \in Seq(Readable) /\ Unmasked(p, r) \in Seq(Readable)
  <2>1. PICK n \in Nat : r \in [1..n -> Writable]
    BY BoundsAssumption DEF Written
  <2>2. \A i \in 1..n : r[i] \in Readable
    BY <2>1 DEF Writable, Readable, Placeholder
  <2>3. \A i \in 1..n : Unmasked(p, r)[i] \in Readable
    <3> SUFFICES ASSUME NEW i \in 1..n PROVE Unmasked(p, r)[i] \in Readable
      OBVIOUS
    <3>1. CASE r[i] \in ToSet(Masked(p))
      <4>1. PICK k \in DOMAIN p : Masked(p)[k] = r[i]
        BY <3>1 DEF ToSet, Masked
      <4>2. Original(p, r[i]) \in [kind : Kinds, text : Texts]
        BY <4>1, ItemsOfPrompt DEF Original
      <4> QED
        BY <2>1, <3>1, <4>2 DEF Unmasked, Readable
    <3>2. CASE r[i] \notin ToSet(Masked(p))
      BY <2>1, <2>2, <3>2 DEF Unmasked
    <3> QED
      BY <3>1, <3>2
  <2>4. Unmasked(p, r) \in [1..n -> Readable]
    <3>1. Unmasked(p, r) = [i \in 1..n |-> Unmasked(p, r)[i]]
      BY <2>1 DEF Unmasked
    <3> QED
      BY <2>3, <3>1
  <2> QED
    BY <2>1, <2>2, <2>4
<1> QED
  BY <1>1, <1>2, <1>3

\* What leaves for a provider is a text.
LEMMA OutgoingIsText ==
    ASSUME TypeOK, NEW c \in Calls, prompt[c] \in Prompts, NEW to
    PROVE  Outgoing(c, to) \in Seq(Readable)
  BY TextsAreReadable DEF Outgoing

\* What the agent is given is a text.
LEMMA HandedIsText ==
    ASSUME TypeOK, NEW c \in Calls, prompt[c] \in Prompts, NEW to, NEW r \in Replies(c, to)
    PROVE  Handed(c, r) \in Seq(Readable)
<1>1. CASE Masks(c)
  BY <1>1, TextsAreReadable DEF Handed, Replies
<1>2. CASE ~ Masks(c)
  BY <1>2, TextsAreReadable DEF Handed, Replies
<1> QED
  BY <1>1, <1>2

\* A call at work has a prompt and attempts left.
Asked ==
    \A c \in Calls :
        /\ pc[c] # "idle" => prompt[c] \in Prompts
        /\ pc[c] \in {"idle", "trying"} => tries[c] < MaxRetries

\* A call that has not begun has no answer and has sent nothing.
Fresh ==
    /\ \A c \in Calls : pc[c] = "idle" => reply[c] = <<>> /\ answered[c] = Unanswered
    /\ \A e \in sent : pc[e.call] # "idle"

\* The steps of a call, one by one: an answer, or a failure.
LEMMA AnswerTypes ==
    ASSUME TypeOK, NEW c \in Calls, prompt[c] \in Prompts, NEW to \in Providers, Answer(c, to)
    PROVE  TypeOK'
<1> USE DEF TypeOK
<1>1. sent' \subseteq [call : Calls, to : Providers, text : Seq(Readable)]
  BY OutgoingIsText DEF Answer
<1>2. reply' \in [Calls -> Seq(Readable)]
  <2>1. PICK r \in Replies(c, to) : reply' = [reply EXCEPT ![c] = Handed(c, r)]
    BY DEF Answer
  <2>2. Handed(c, r) \in Seq(Readable)
    BY HandedIsText
  <2> QED
    BY <2>1, <2>2
<1>3. pc' \in [Calls -> {"idle", "trying", "fallback", "done"}] /\ metered' \in Nat
  BY DEF Answer
<1>4. answered' \in [Calls -> Providers \cup {"error", Unanswered}]
  BY DEF Answer
<1> QED
  BY <1>1, <1>2, <1>3, <1>4 DEF Answer

\* The prompt has left when a provider raises.
LEMMA RaiseTypes ==
    ASSUME TypeOK, NEW c \in Calls, prompt[c] \in Prompts, NEW to \in Providers, Raise(c, to)
    PROVE  sent' \subseteq [call : Calls, to : Providers, text : Seq(Readable)]
  BY OutgoingIsText DEF Raise, TypeOK

\* Settings name providers.
LEMMA ProvidersOfCall ==
    ASSUME TypeOK, NEW c \in Calls
    PROVE  Own(c) \in Providers /\ Fallback(c) \in Providers
  BY DEF TypeOK, Own, Fallback, Roles

\* A step keeps every variable in its type.
LEMMA RouterTypeStep == ASSUME TypeOK, Asked, [Next]_vars PROVE TypeOK'
<1> USE BoundsAssumption DEF TypeOK
<1>1. ASSUME NEW c \in Calls, NEW r \in {"primary", "verifier"}, NEW p \in Prompts, Ask(c, r, p)
      PROVE  TypeOK'
  <2>1. pc' \in [Calls -> {"idle", "trying", "fallback", "done"}]
        /\ answered' \in [Calls -> Providers \cup {"error", Unanswered}]
    BY <1>1 DEF Ask
  <2>2. role' \in [Calls -> {"primary", "verifier"}] /\ prompt' \in [Calls -> Prompts \cup {<<>>}]
    BY <1>1 DEF Ask
  <2> QED
    BY <1>1, <2>1, <2>2 DEF Ask
<1>2. ASSUME NEW c \in Calls, AttemptAnswers(c) PROVE TypeOK'
  BY <1>2, AnswerTypes, ProvidersOfCall DEF AttemptAnswers, Asked
<1>3. ASSUME NEW c \in Calls, AttemptRaises(c) PROVE TypeOK'
  <2>1. sent' \subseteq [call : Calls, to : Providers, text : Seq(Readable)]
    BY <1>3, RaiseTypes, ProvidersOfCall DEF AttemptRaises, Asked
  <2>2. pc' \in [Calls -> {"idle", "trying", "fallback", "done"}]
    BY <1>3 DEF AttemptRaises
  <2>3. tries' \in [Calls -> 0..MaxRetries]
    <3>1. tries[c] < MaxRetries /\ tries[c] \in 0..MaxRetries
      BY <1>3 DEF AttemptRaises, Asked
    <3>2. tries[c] + 1 \in 0..MaxRetries
      BY <3>1
    <3> QED
      BY <1>3, <3>2 DEF AttemptRaises
  <2> QED
    BY <1>3, <2>1, <2>2, <2>3 DEF AttemptRaises, Raise
<1>4. ASSUME NEW c \in Calls, NoFallback(c) PROVE TypeOK'
  BY <1>4 DEF NoFallback
<1>5. ASSUME NEW c \in Calls, FallbackAnswers(c) PROVE TypeOK'
  BY <1>5, AnswerTypes, ProvidersOfCall DEF FallbackAnswers, MayFallBack, Asked
<1>6. ASSUME NEW c \in Calls, FallbackRaises(c) PROVE TypeOK'
  <2>1. sent' \subseteq [call : Calls, to : Providers, text : Seq(Readable)]
    BY <1>6, RaiseTypes, ProvidersOfCall DEF FallbackRaises, MayFallBack, Asked
  <2>2. pc' \in [Calls -> {"idle", "trying", "fallback", "done"}]
        /\ answered' \in [Calls -> Providers \cup {"error", Unanswered}]
    BY <1>6 DEF FallbackRaises
  <2> QED
    BY <1>6, <2>1, <2>2 DEF FallbackRaises, Raise
<1>7. CASE UNCHANGED vars
  BY <1>7 DEF vars
<1> QED
  BY <1>1, <1>2, <1>3, <1>4, <1>5, <1>6, <1>7 DEF Next, Step

\* A step keeps what is known of a call at work.
LEMMA AskedStep == ASSUME TypeOK, Asked, [Next]_vars PROVE Asked'
<1> USE BoundsAssumption DEF TypeOK, Asked, Own
<1>1. ASSUME NEW c \in Calls, NEW r \in {"primary", "verifier"}, NEW p \in Prompts, Ask(c, r, p)
      PROVE  Asked'
  BY <1>1 DEF Ask
<1>2. ASSUME NEW c \in Calls, AttemptAnswers(c) PROVE Asked'
  BY <1>2 DEF AttemptAnswers, Answer
<1>3. ASSUME NEW c \in Calls, AttemptRaises(c) PROVE Asked'
  <2>1. tries[c] + 1 # MaxRetries => tries[c] + 1 < MaxRetries
    BY <1>3 DEF AttemptRaises
  <2>2. UNCHANGED prompt
    BY <1>3 DEF AttemptRaises, Raise
  <2>3. \A d \in Calls : pc'[d] \in {"idle", "trying"} => tries'[d] < MaxRetries
    BY <1>3, <2>1 DEF AttemptRaises, Exhausted
  <2>4. \A d \in Calls : pc'[d] # "idle" => pc[d] # "idle"
    BY <1>3 DEF AttemptRaises
  <2> QED
    BY <2>2, <2>3, <2>4
<1>4. ASSUME NEW c \in Calls, NoFallback(c) PROVE Asked'
  BY <1>4 DEF NoFallback
<1>5. ASSUME NEW c \in Calls, FallbackAnswers(c) PROVE Asked'
  BY <1>5 DEF FallbackAnswers, MayFallBack, Answer
<1>6. ASSUME NEW c \in Calls, FallbackRaises(c) PROVE Asked'
  BY <1>6 DEF FallbackRaises, MayFallBack, Raise
<1>7. CASE UNCHANGED vars
  BY <1>7 DEF vars
<1> QED
  BY <1>1, <1>2, <1>3, <1>4, <1>5, <1>6, <1>7 DEF Next, Step

\* A step gives no answer to a call that has not begun.
LEMMA FreshStep == ASSUME TypeOK, Fresh, [Next]_vars PROVE Fresh'
<1> USE DEF TypeOK, Fresh
<1>1. ASSUME NEW c \in Calls, NEW r \in {"primary", "verifier"}, NEW p \in Prompts, Ask(c, r, p)
      PROVE  Fresh'
  BY <1>1 DEF Ask
<1>2. ASSUME NEW c \in Calls, AttemptAnswers(c) PROVE Fresh'
  BY <1>2 DEF AttemptAnswers, Answer
<1>3. ASSUME NEW c \in Calls, AttemptRaises(c) PROVE Fresh'
  BY <1>3 DEF AttemptRaises, Raise
<1>4. ASSUME NEW c \in Calls, NoFallback(c) PROVE Fresh'
  BY <1>4 DEF NoFallback
<1>5. ASSUME NEW c \in Calls, FallbackAnswers(c) PROVE Fresh'
  BY <1>5 DEF FallbackAnswers, MayFallBack, Answer
<1>6. ASSUME NEW c \in Calls, FallbackRaises(c) PROVE Fresh'
  BY <1>6 DEF FallbackRaises, MayFallBack, Raise
<1>7. CASE UNCHANGED vars
  BY <1>7 DEF vars
<1> QED
  BY <1>1, <1>2, <1>3, <1>4, <1>5, <1>6, <1>7 DEF Next, Step

(***************************************************************************)
(* The router: personal data.                                              *)
(***************************************************************************)

\* What leaves for a provider other than FakeLLM is masked.
LEMMA OutgoingIsMasked ==
    ASSUME NEW c \in Calls, prompt[c] \in Prompts, Own(c) # "fake", NEW to,
           NEW i \in DOMAIN Outgoing(c, to)
    PROVE  Outgoing(c, to)[i] \in Placeholder
<1>1. Outgoing(c, to) = Masked(prompt[c])
  BY DEF Outgoing, Masks
<1>2. DOMAIN Outgoing(c, to) = DOMAIN prompt[c]
  BY <1>1 DEF Masked
<1> QED
  BY <1>1, <1>2, MaskedIsPlaceholders

\* What the agent is given holds no placeholder of its prompt.
LEMMA HandedIsRestored ==
    ASSUME NEW c \in Calls, prompt[c] \in Prompts, Masks(c), NEW r,
           NEW i \in DOMAIN Handed(c, r)
    PROVE  Handed(c, r)[i] \notin ToSet(Masked(prompt[c]))
<1>1. Handed(c, r) = Unmasked(prompt[c], r)
  BY DEF Handed
<1>2. DOMAIN Handed(c, r) = DOMAIN r
  BY <1>1 DEF Unmasked
<1> QED
  BY <1>1, <1>2, UnmaskedIsRestored

\* An answer keeps both halves.
LEMMA AnswerKeeps ==
    ASSUME TypeOK, PersonalDataKept, NEW c \in Calls, prompt[c] \in Prompts,
           NEW to \in Providers, Answer(c, to)
    PROVE  PersonalDataKept'
<1> USE DEF TypeOK, PersonalDataKept
<1>0. \A d \in Calls : Masks(d)' <=> Masks(d)
  BY DEF Answer, Masks, Own
<1>1. OnlyMaskedLeaves'
  <2>1. Masks(c) => \A i \in DOMAIN Outgoing(c, to) : Outgoing(c, to)[i] \in Placeholder
    BY OutgoingIsMasked DEF Masks
  <2> QED
    BY <1>0, <2>1 DEF OnlyMaskedLeaves, Answer
<1>2. AnswersRestored'
  <2>1. PICK r \in Replies(c, to) : reply' = [reply EXCEPT ![c] = Handed(c, r)]
    BY DEF Answer
  <2>2. prompt' = prompt
    BY DEF Answer
  <2>3. ASSUME NEW d \in Calls, Masks(d), NEW i \in DOMAIN reply'[d]
        PROVE  reply'[d][i] \notin ToSet(Masked(prompt[d]))
    <3>1. CASE d = c
      <4>1. reply'[d] = Handed(c, r)
        BY <2>1, <3>1
      <4> QED
        BY <2>3, <3>1, <4>1, HandedIsRestored
    <3>2. CASE d # c
      BY <2>1, <2>3, <3>2 DEF AnswersRestored
    <3> QED
      BY <3>1, <3>2
  <2> QED
    BY <1>0, <2>2, <2>3 DEF AnswersRestored
<1> QED
  BY <1>1, <1>2

\* So does a failure.
LEMMA RaiseKeeps ==
    ASSUME TypeOK, PersonalDataKept, NEW c \in Calls, prompt[c] \in Prompts,
           NEW to \in Providers, Raise(c, to)
    PROVE  PersonalDataKept'
<1>0. \A d \in Calls : Masks(d)' <=> Masks(d)
  BY DEF Raise, Masks, Own
<1>1. Masks(c) => \A i \in DOMAIN Outgoing(c, to) : Outgoing(c, to)[i] \in Placeholder
  BY OutgoingIsMasked DEF Masks
<1>2. OnlyMaskedLeaves'
  BY <1>0, <1>1 DEF OnlyMaskedLeaves, Raise, PersonalDataKept, TypeOK
<1>3. AnswersRestored'
  BY <1>0 DEF AnswersRestored, Raise, PersonalDataKept
<1> QED
  BY <1>2, <1>3 DEF PersonalDataKept

\* Every step keeps both halves.
LEMMA PersonalDataStep ==
    ASSUME TypeOK, Asked, Fresh, PersonalDataKept, [Next]_vars PROVE PersonalDataKept'
<1>1. ASSUME NEW c \in Calls, NEW r \in {"primary", "verifier"}, NEW p \in Prompts, Ask(c, r, p)
      PROVE  PersonalDataKept'
  <2>0. \A d \in Calls : d # c => (Masks(d)' <=> Masks(d))
    BY <1>1 DEF Ask, Masks, Own, TypeOK
  <2>1. OnlyMaskedLeaves'
    <3>1. \A e \in sent : e.call \in Calls /\ e.call # c
      BY <1>1 DEF Ask, Fresh, TypeOK
    <3> QED
      BY <1>1, <2>0, <3>1 DEF Ask, OnlyMaskedLeaves, PersonalDataKept
  <2>2. ASSUME NEW d \in Calls, Masks(d)', NEW i \in DOMAIN reply[d]
        PROVE  reply[d][i] \notin ToSet(Masked(prompt'[d]))
    <3>1. CASE d = c
      BY <1>1, <3>1 DEF Ask, Fresh
    <3>2. CASE d # c
      <4>1. prompt'[d] = prompt[d]
        BY <1>1, <3>2 DEF Ask, TypeOK
      <4> QED
        BY <2>0, <2>2, <3>2, <4>1 DEF PersonalDataKept, AnswersRestored
    <3> QED
      BY <3>1, <3>2
  <2>3. reply' = reply
    BY <1>1 DEF Ask
  <2> QED
    BY <2>1, <2>2, <2>3 DEF PersonalDataKept, AnswersRestored
<1>2. ASSUME NEW c \in Calls, AttemptAnswers(c) PROVE PersonalDataKept'
  BY <1>2, AnswerKeeps, ProvidersOfCall DEF AttemptAnswers, Asked
<1>3. ASSUME NEW c \in Calls, AttemptRaises(c) PROVE PersonalDataKept'
  BY <1>3, RaiseKeeps, ProvidersOfCall DEF AttemptRaises, Asked
<1>4. ASSUME NEW c \in Calls, NoFallback(c) PROVE PersonalDataKept'
  BY <1>4 DEF NoFallback, PersonalDataKept, OnlyMaskedLeaves, AnswersRestored, Masks, Own
<1>5. ASSUME NEW c \in Calls, FallbackAnswers(c) PROVE PersonalDataKept'
  BY <1>5, AnswerKeeps, ProvidersOfCall DEF FallbackAnswers, MayFallBack, Asked
<1>6. ASSUME NEW c \in Calls, FallbackRaises(c) PROVE PersonalDataKept'
  BY <1>6, RaiseKeeps, ProvidersOfCall DEF FallbackRaises, MayFallBack, Asked
<1>7. CASE UNCHANGED vars
  BY <1>7 DEF vars, PersonalDataKept, OnlyMaskedLeaves, AnswersRestored, Masks, Own
<1> QED
  BY <1>1, <1>2, <1>3, <1>4, <1>5, <1>6, <1>7 DEF Next, Step

(***************************************************************************)
(* The router: the verifier's provider.                                    *)
(***************************************************************************)

\* Only the two providers of its role answer a call.
AnsweredByRole ==
    \A c \in Calls : answered[c] \in {Unanswered, "error", Own(c), Fallback(c)}

\* A step lets no other provider answer.
LEMMA AnsweredByRoleStep ==
    ASSUME TypeOK, Fresh, AnsweredByRole, [Next]_vars PROVE AnsweredByRole'
<1> USE DEF TypeOK, AnsweredByRole, Own, Fallback
<1>1. ASSUME NEW c \in Calls, NEW r \in {"primary", "verifier"}, NEW p \in Prompts, Ask(c, r, p)
      PROVE  AnsweredByRole'
  BY <1>1 DEF Ask, Fresh
<1>2. ASSUME NEW c \in Calls, AttemptAnswers(c) PROVE AnsweredByRole'
  BY <1>2 DEF AttemptAnswers, Answer
<1>3. ASSUME NEW c \in Calls, AttemptRaises(c) PROVE AnsweredByRole'
  BY <1>3 DEF AttemptRaises, Raise
<1>4. ASSUME NEW c \in Calls, NoFallback(c) PROVE AnsweredByRole'
  BY <1>4 DEF NoFallback
<1>5. ASSUME NEW c \in Calls, FallbackAnswers(c) PROVE AnsweredByRole'
  BY <1>5 DEF FallbackAnswers, Answer
<1>6. ASSUME NEW c \in Calls, FallbackRaises(c) PROVE AnsweredByRole'
  BY <1>6 DEF FallbackRaises, Raise
<1>7. CASE UNCHANGED vars
  BY <1>7 DEF vars
<1> QED
  BY <1>1, <1>2, <1>3, <1>4, <1>5, <1>6, <1>7 DEF Next, Step

(***************************************************************************)
(* The router: the theorems.                                               *)
(***************************************************************************)

RouterInv ==
    /\ TypeOK
    /\ ValidSettings(conf)
    /\ Asked
    /\ Fresh
    /\ PersonalDataKept
    /\ AnsweredByRole

\* It holds before any call.
LEMMA RouterInvInit == ASSUME Init PROVE RouterInv
<1> USE NamesAssumption, BoundsAssumption DEF Init
<1>1. TypeOK /\ ValidSettings(conf)
  BY DEF TypeOK
<1>2. Asked /\ Fresh /\ AnsweredByRole
  BY DEF Asked, Fresh, AnsweredByRole
<1>3. PersonalDataKept
  BY DEF PersonalDataKept, OnlyMaskedLeaves, AnswersRestored
<1> QED
  BY <1>1, <1>2, <1>3 DEF RouterInv

\* It is inductive; the settings do not change while the program runs.
LEMMA RouterInvStep == ASSUME RouterInv, [Next]_vars PROVE RouterInv'
<1>1. conf' = conf
  BY DEF Next, Step, vars, Ask, AttemptAnswers, Answer, AttemptRaises, Raise, NoFallback,
         FallbackAnswers, FallbackRaises
<1>2. ValidSettings(conf)'
  BY <1>1 DEF RouterInv, ValidSettings
<1> QED
  BY <1>2, RouterTypeStep, AskedStep, FreshStep, PersonalDataStep, AnsweredByRoleStep DEF RouterInv

\* The invariant holds of every run.
LEMMA RouterInvHolds == Spec => []RouterInv
  BY RouterInvInit, RouterInvStep, PTL DEF Spec

\* Every variable of the router keeps its type (complete_with_fallback).
THEOREM RouterTypeCorrect == Spec => []TypeOK
<1>1. RouterInv => TypeOK
  BY DEF RouterInv
<1> QED
  BY <1>1, RouterInvHolds, PTL

\* Whatever the settings, the retries and the fallback: nothing personal goes
\* out to a provider and nothing masked comes back to an agent
\* (complete_with_fallback, mask_pii, unmask_pii).
THEOREM PersonalDataStays == Spec => []PersonalDataKept
<1>1. RouterInv => PersonalDataKept
  BY DEF RouterInv
<1> QED
  BY <1>1, RouterInvHolds, PTL

\* With settings the validator accepts, the primary's provider answers the
\* verifier only as the verifier's named fallback
\* (_verifier_must_differ_in_real_mode, complete_with_fallback).
THEOREM VerifierStaysApart == Spec => []VerifierApart
<1>1. RouterInv => VerifierApart
  <2> SUFFICES ASSUME RouterInv, NEW c \in Calls, role[c] = "verifier",
                      answered[c] = conf["primary"], answered[c] # "fake"
               PROVE  conf["verifier_fallback"] = conf["primary"]
    BY DEF VerifierApart, ChecksItself
  <2>1. conf["primary"] \in Providers
    BY DEF RouterInv, TypeOK, Roles
  <2>2. answered[c] \in {Own(c), Fallback(c)}
    BY <2>1, NamesAssumption DEF RouterInv, AnsweredByRole
  <2>3. answered[c] # Own(c)
    BY DEF RouterInv, ValidSettings, Own
  <2> QED
    BY <2>2, <2>3 DEF Fallback
<1> QED
  BY <1>1, RouterInvHolds, PTL

(***************************************************************************)
(* The catalogue.                                                          *)
(***************************************************************************)

\* A start that seeds items does so for a customer that is there, and one that
\* has not come so far has found no line missing.
Seeds ==
    /\ start \in [Starts -> Start]
    /\ customers \subseteq Starts
    /\ items \subseteq Item
    /\ suppliers \subseteq Supplier
    /\ \A r \in Starts :
          /\ At(r, "items") => start[r].cust \in customers
          /\ start[r].at \in {"off", "customer", "newCustomer"} => start[r].missing = {}

\* A start that is not there owns nothing.
Owners ==
    /\ settled \in [Starts -> BOOLEAN]
    /\ \A r \in Starts : At(r, "off") =>
          /\ ~ settled[r]
          /\ r \notin customers
          /\ \A x \in items : x.by # r

\* Once a start began over a complete catalogue nobody is about to add a
\* customer, so that the customers stay those it is complete for.
Closed ==
    (\E r \in Starts : settled[r]) =>
        Complete /\ \A q \in Starts : ~ At(q, "newCustomer")

\* A start that began so finds no line missing, and so has added none.
FoundAll ==
    \A r \in Starts : settled[r] =>
        /\ r \notin customers
        /\ \A x \in items : x.by # r
        /\ At(r, "items") => start[r].missing = {}

CatalogueInv == Seeds /\ Owners /\ Closed /\ FoundAll

\* A step that neither begins a start nor touches rows keeps the invariant, if
\* its start comes to no customer and to no items.
LEMMA IndexStep ==
    ASSUME CatalogueInv, NEW r \in Starts, NEW s \in Start,
           start' = [start EXCEPT ![r] = s],
           s.at \notin {"off", "customer", "newCustomer", "items"},
           suppliers' \subseteq Supplier,
           UNCHANGED <<customers, items, settled>>
    PROVE  CatalogueInv'
  BY DEF CatalogueInv, Seeds, Owners, Closed, FoundAll, Complete, At

\* Where a start can be.
LEMMA Places ==
    Starting \cup {"off", "serving"} =
        {"off", "customer", "newCustomer", "items", "suppliers", "addSuppliers", "purchases",
         "ensure", "create", "list", "upsert", "serving"}
  BY DEF Starting, Seeding, Indexing

\* A start that forgets its locals is a start.
LEMMA Forgets ==
    ASSUME NEW at \in Starting \cup {"off", "serving"}
    PROVE  Idle(at) \in Start /\ Idle(at).at = at /\ Idle(at).missing = {}
  BY CatalogueAssumption DEF Start, Idle, Collections, Points

\* A start that goes on keeps what it found missing.
LEMMA GoesOn ==
    ASSUME NEW s \in Start, NEW at \in Starting \cup {"off", "serving"}
    PROVE  /\ [s EXCEPT !.at = at] \in Start
           /\ [s EXCEPT !.at = at].at = at
           /\ [s EXCEPT !.at = at].missing = s.missing
  BY DEF Start

\* So does one that has its customer.
LEMMA GoesForCustomer ==
    ASSUME NEW s \in Start, NEW c \in Starts
    PROVE  LET t == [s EXCEPT !.at = "items", !.cust = c]
           IN  t \in Start /\ t.at = "items" /\ t.cust = c /\ t.missing = s.missing
  BY Places DEF Start

\* So is one that creates collections, indexes rows, or turns to the next table.
LEMMA Creates ==
    ASSUME NEW s \in Start, NEW A \in SUBSET Collections, NEW at \in {"create", "list"}
    PROVE  LET t == [s EXCEPT !.absent = A, !.at = at] IN t \in Start /\ t.at = at
  BY Places DEF Start

\* With the rows it read a start comes to the upsert, and stays one.
LEMMA Upserts ==
    ASSUME NEW s \in Start, NEW F \in Points
    PROVE  LET t == [s EXCEPT !.at = "upsert", !.found = F] IN t \in Start /\ t.at = "upsert"
  BY Places DEF Start

\* To turn to the suppliers moves nothing else of a start.
LEMMA Turns ==
    ASSUME NEW s \in Start
    PROVE  LET t == [s EXCEPT !.coll = "suppliers"] IN t \in Start /\ t.at = s.at
  BY DEF Start, Collections

\* The strengthening is inductive: a customer and its items come from starts
\* that were under way before the catalogue was complete.
LEMMA CatalogueStep == CatalogueInv /\ [CatalogueNext]_catalogueVars => CatalogueInv'
<1> SUFFICES ASSUME CatalogueInv, [CatalogueNext]_catalogueVars
             PROVE  CatalogueInv'
  OBVIOUS
<1> USE CatalogueAssumption DEF CatalogueInv, Seeds, At, Goes, Becomes
<1>1. ASSUME NEW r \in Starts, Begin(r)
      PROVE  CatalogueInv'
  <2> DEFINE s == [start[r] EXCEPT !.at = "customer"]
             whole == Complete /\ \A q \in Starts : start[q].at \notin Seeding
  <2>1. /\ s \in Start /\ s.at = "customer" /\ s.missing = start[r].missing
        /\ At(r, "off")
        /\ start' = [start EXCEPT ![r] = s]
        /\ settled' = [settled EXCEPT ![r] = whole]
        /\ UNCHANGED <<customers, items, suppliers>>
    <3>1. start[r] \in Start
      OBVIOUS
    <3>2. s \in Start /\ s.at = "customer" /\ s.missing = start[r].missing
      BY <3>1, GoesOn, Places
    <3> QED
      BY <1>1, <3>2 DEF Begin, dbVars
  <2>2. whole => Complete /\ \A q \in Starts : ~ At(q, "newCustomer")
    BY DEF Seeding
  <2>3. whole \in BOOLEAN
    BY DEF Complete
  <2> HIDE DEF s, whole
  <2>4. Seeds' /\ Owners'
    BY <2>1, <2>3 DEF Owners
  <2>5. Closed'
    BY <2>1, <2>2 DEF Owners, Closed, Complete
  <2>6. FoundAll'
    BY <2>1 DEF Owners, FoundAll
  <2> QED
    BY <2>4, <2>5, <2>6
<1>2. ASSUME NEW r \in Starts, FindCustomer(r)
      PROVE  CatalogueInv'
  <2>1. UNCHANGED <<customers, items, suppliers, settled>>
    BY <1>2 DEF FindCustomer, dbVars, history
  <2>2. CASE \E c \in customers :
               At(r, "customer") /\ Becomes(r, [start[r] EXCEPT !.at = "items", !.cust = c])
    <3>1. PICK c \in customers :
               At(r, "customer") /\ Becomes(r, [start[r] EXCEPT !.at = "items", !.cust = c])
      BY <2>2
    <3> DEFINE s == [start[r] EXCEPT !.at = "items", !.cust = c]
    <3>2. s \in Start /\ s.at = "items" /\ s.cust = c /\ s.missing = {}
      <4>1. start[r] \in Start /\ c \in Starts /\ start[r].missing = {}
        BY <3>1
      <4> QED
        BY <4>1, GoesForCustomer
    <3> HIDE DEF s
    <3>3. start' = [start EXCEPT ![r] = s]
      BY <3>1 DEF s
    <3>4. Seeds' /\ Owners' /\ FoundAll'
      BY <2>1, <3>1, <3>2, <3>3 DEF Owners, FoundAll
    <3>5. Closed'
      BY <2>1, <3>2, <3>3 DEF Closed, Complete
    <3> QED
      BY <3>4, <3>5
  <2>3. CASE customers = {} /\ Goes(r, "customer", "newCustomer")
    <3> DEFINE s == [start[r] EXCEPT !.at = "newCustomer"]
    <3>1. s \in Start /\ s.at = "newCustomer" /\ s.missing = {}
      <4>1. start[r] \in Start /\ start[r].missing = {}
        BY <2>3
      <4> QED
        BY <4>1, GoesOn, Places
    <3> HIDE DEF s
    <3>2. start' = [start EXCEPT ![r] = s] /\ customers = {}
      BY <2>3 DEF s
    <3> QED
      BY <2>1, <3>1, <3>2 DEF Owners, Closed, FoundAll, Complete
  <2> QED
    BY <1>2, <2>2, <2>3 DEF FindCustomer
<1>3. ASSUME NEW r \in Starts, AddCustomer(r)
      PROVE  CatalogueInv'
  <2>1. \A q \in Starts : ~ settled[q]
    BY <1>3 DEF AddCustomer, Closed
  <2> DEFINE s == [start[r] EXCEPT !.at = "items", !.cust = r]
  <2>2. s \in Start /\ s.at = "items" /\ s.cust = r
    <3>1. start[r] \in Start
      OBVIOUS
    <3> QED
      BY <3>1, GoesForCustomer
  <2> HIDE DEF s
  <2>3. /\ start' = [start EXCEPT ![r] = s]
        /\ customers' = customers \cup {r}
        /\ UNCHANGED <<items, suppliers, settled>>
        /\ At(r, "newCustomer")
    BY <1>3 DEF AddCustomer, history, s
  <2> QED
    BY <2>1, <2>2, <2>3 DEF Owners, Closed, FoundAll
<1>4. ASSUME NEW r \in Starts, LookUpItem(r)
      PROVE  CatalogueInv'
  <2> DEFINE k == start[r].next
             s == [start[r] EXCEPT !.next = k + 1,
                                   !.missing = IF Stored(r, k) THEN @ ELSE @ \cup {k}]
  <2>1. k \in 1..Items /\ At(r, "items") /\ start' = [start EXCEPT ![r] = s]
    <3>1. k \in 1..Items + 1 /\ k <= Items
      BY <1>4 DEF LookUpItem, Start
    <3> QED
      BY <1>4, <3>1 DEF LookUpItem
  <2>2. UNCHANGED <<customers, items, suppliers, settled>>
    BY <1>4 DEF LookUpItem, dbVars, history
  <2>3. s \in Start /\ s.at = "items" /\ s.cust = start[r].cust
    <3>1. start[r] \in Start /\ k + 1 \in 1..Items + 1
      BY <2>1
    <3> QED
      BY <2>1, <3>1 DEF Start
  <2>4. settled[r] => s.missing = {}
    <3>1. SUFFICES ASSUME settled[r] PROVE s.missing = {}
      OBVIOUS
    <3>2. Stored(r, k) /\ start[r].missing = {}
      BY <2>1, <3>1 DEF Closed, FoundAll, Complete, Stored
    <3> QED
      BY <2>1, <3>2 DEF Start
  <2> HIDE DEF s, k
  <2>5. Seeds' /\ Owners' /\ FoundAll'
    BY <2>1, <2>2, <2>3, <2>4 DEF Owners, FoundAll
  <2>6. Closed'
    BY <2>1, <2>2, <2>3 DEF Closed, Complete
  <2> QED
    BY <2>5, <2>6
<1>5. ASSUME NEW r \in Starts, CommitItems(r)
      PROVE  CatalogueInv'
  <2> DEFINE new == [by : {r}, cust : {start[r].cust}, line : start[r].missing]
  <2>1. /\ start' = [start EXCEPT ![r] = Idle("suppliers")]
        /\ items' = items \cup new
        /\ UNCHANGED <<customers, suppliers, settled>>
        /\ At(r, "items")
    BY <1>5 DEF CommitItems, history
  <2>2. Idle("suppliers") \in Start /\ Idle("suppliers").at = "suppliers"
    BY Forgets, Places
  <2>3. new \subseteq Item /\ \A x \in new : x.by = r
    <3>1. start[r] \in Start /\ start[r].cust \in Starts
      BY <2>1
    <3> QED
      BY <3>1 DEF Start, Item
  <2>4. settled[r] => new = {}
    BY <2>1 DEF FoundAll
  <2> HIDE DEF new
  <2>5. Seeds'
    BY <2>1, <2>2, <2>3
  <2>6. Owners'
    BY <2>1, <2>2, <2>3 DEF Owners
  <2>7. Closed'
    BY <2>1, <2>2 DEF Closed, Complete
  <2>8. FoundAll'
    BY <2>1, <2>2, <2>3, <2>4 DEF FoundAll
  <2> QED
    BY <2>5, <2>6, <2>7, <2>8
<1>6. ASSUME NEW r \in Starts,
             LookUpSuppliers(r) \/ AddSuppliers(r) \/ AddPurchases(r) \/ EnsureCollections(r)
             \/ CreateCollection(r) \/ ListRows(r) \/ UpsertPoints(r) \/ Fails(r)
      PROVE  CatalogueInv'
  <2> DEFINE s == start'[r]
  <2>1. /\ UNCHANGED <<customers, items, settled>>
        /\ start' = [start EXCEPT ![r] = s]
    BY <1>6 DEF LookUpSuppliers, AddSuppliers, AddPurchases, EnsureCollections, CreateCollection,
                ListRows, UpsertPoints, Fails, dbVars, history
  <2> DEFINE Late == {"suppliers", "addSuppliers", "purchases", "ensure", "create", "list",
                      "upsert", "serving"}
  <2>2. /\ start[r] \in Start
        /\ Late \subseteq Starting \cup {"off", "serving"}
    BY Places
  <2>3. \A at \in Late :
           /\ Idle(at) \in Start /\ Idle(at).at = at
           /\ [start[r] EXCEPT !.at = at] \in Start /\ [start[r] EXCEPT !.at = at].at = at
    BY <2>2, Forgets, GoesOn
  <2>4. AfterIndex(r) \in Start /\ AfterIndex(r).at \in Late
    <3>1. [Idle("ensure") EXCEPT !.coll = "suppliers"] \in Start
          /\ [Idle("ensure") EXCEPT !.coll = "suppliers"].at = "ensure"
      BY <2>3, Turns
    <3> QED
      BY <2>3, <3>1 DEF AfterIndex
  <2>5. s \in Start /\ s.at \in Late
    <3> HIDE DEF s
    <3>1. CASE LookUpSuppliers(r) \/ AddSuppliers(r) \/ AddPurchases(r) \/ Fails(r)
      <4>1. \/ s = Idle("purchases") \/ s = Idle("serving")
            \/ \E at \in Late : s = [start[r] EXCEPT !.at = at]
        BY <3>1 DEF LookUpSuppliers, AddSuppliers, AddPurchases, Fails, AfterError, s
      <4>2. \A at \in Late : s = [start[r] EXCEPT !.at = at] => s \in Start /\ s.at = at
        BY <2>3
      <4>3. s = Idle("purchases") \/ s = Idle("serving") => s \in Start /\ s.at \in Late
        BY <2>3
      <4> QED
        BY <4>1, <4>2, <4>3
    <3>2. CASE EnsureCollections(r)
      <4>1. PICK at \in {"create", "list"} : s = [start[r] EXCEPT !.absent = Missing, !.at = at]
        BY <3>2 DEF EnsureCollections, s
      <4>2. Missing \in SUBSET Collections
        BY DEF Missing
      <4>3. \A to \in {"create", "list"} :
               /\ [start[r] EXCEPT !.absent = Missing, !.at = to] \in Start
               /\ [start[r] EXCEPT !.absent = Missing, !.at = to].at = to
        BY <2>2, <4>2, Creates
      <4> QED
        BY <4>1, <4>3
    <3>3. CASE CreateCollection(r)
      <4> DEFINE c == IF "nsi" \in start[r].absent THEN "nsi" ELSE "suppliers"
                 left == start[r].absent \ {c}
      <4>1. left \in SUBSET Collections
        BY <2>2 DEF Start
      <4>2. \/ s = Idle("serving")
            \/ s = [start[r] EXCEPT !.absent = left, !.at = IF left = {} THEN "list" ELSE @]
        BY <3>3 DEF CreateCollection, AfterError, s
      <4>3. At(r, "create")
        BY <3>3 DEF CreateCollection
      <4> HIDE DEF left
      <4>4. s # Idle("serving") =>
               s = [start[r] EXCEPT !.absent = left, !.at = "list"]
               \/ s = [start[r] EXCEPT !.absent = left, !.at = "create"]
        BY <4>2, <4>3
      <4>5. \A at \in {"create", "list"} :
               /\ [start[r] EXCEPT !.absent = left, !.at = at] \in Start
               /\ [start[r] EXCEPT !.absent = left, !.at = at].at = at
        BY <2>2, <4>1, Creates
      <4> QED
        BY <2>3, <4>4, <4>5
    <3>4. CASE ListRows(r)
      <4>1. Rows(r) \in Points
        BY DEF Rows, AllRows, Points
      <4>2. s = AfterIndex(r) \/ s = [start[r] EXCEPT !.at = "upsert", !.found = Rows(r)]
        BY <3>4 DEF ListRows, s
      <4>3. /\ [start[r] EXCEPT !.at = "upsert", !.found = Rows(r)] \in Start
            /\ [start[r] EXCEPT !.at = "upsert", !.found = Rows(r)].at = "upsert"
        BY <2>2, <4>1, Upserts
      <4> QED
        BY <2>4, <4>2, <4>3
    <3>5. CASE UpsertPoints(r)
      BY <3>5, <2>3, <2>4 DEF UpsertPoints, AfterError, s
    <3> QED
      BY <1>6, <3>1, <3>2, <3>3, <3>4, <3>5
  <2>6. suppliers' \subseteq Supplier
    BY <1>6 DEF LookUpSuppliers, AddSuppliers, AddPurchases, EnsureCollections, CreateCollection,
                ListRows, UpsertPoints, Fails, dbVars, Supplier
  <2> HIDE DEF s, Late
  <2>7. s.at \notin {"off", "customer", "newCustomer", "items"}
    BY <2>5 DEF Late
  <2> QED
    BY <2>1, <2>5, <2>6, <2>7, IndexStep
<1>7. CASE Flip \/ UNCHANGED catalogueVars
  BY <1>7 DEF Flip, dbVars, catalogueVars, history, Owners, Closed, FoundAll, Complete
<1> QED
  BY <1>1, <1>2, <1>3, <1>4, <1>5, <1>6, <1>7 DEF CatalogueNext, Advance

\* A start over a complete catalogue that nobody was seeding adds no customer and
\* no item, for any number of starts, lines and accidents.
THEOREM RestartsAddNothing == CatalogueSpec => []RestartAddsNothing
<1>1. CatalogueInit => CatalogueInv
  BY CatalogueAssumption DEF CatalogueInit, CatalogueInv, Seeds, Owners, Closed, FoundAll,
     Idle, Start, Starting, Collections, Points, At
<1>2. CatalogueInv => RestartAddsNothing
  BY DEF CatalogueInv, FoundAll, RestartAddsNothing
<1> QED
  BY <1>1, <1>2, CatalogueStep, PTL DEF CatalogueSpec

\* What the seeds say nothing of: purchases, the index, accidents.
IndexTypes ==
    /\ purchases \subseteq Starts
    /\ qdrant \in [Collections -> Points \cup {None}]
    /\ answers \in BOOLEAN
    /\ memory \in [Starts -> [Collections -> Points]]
    /\ accidents \in 0..MaxAccidents

\* A start fills a collection, or its own memory, with the rows it read.
LEMMA IndexTypesStep ==
    ASSUME Seeds, IndexTypes, [CatalogueNext]_catalogueVars
    PROVE  IndexTypes'
<1> USE DEF IndexTypes
<1>1. ASSUME NEW r \in Starts
      PROVE  start[r].found \in Points /\ start[r].coll \in Collections
  <2>1. start[r] \in Start
    BY DEF Seeds
  <2> QED
    BY <2>1 DEF Start
<1>2. ASSUME NEW r \in Starts, AddPurchases(r) PROVE IndexTypes'
  BY <1>2 DEF AddPurchases, indexVars, history
<1>3. ASSUME NEW r \in Starts, CreateCollection(r) PROVE IndexTypes'
  <2>1. /\ UNCHANGED <<purchases, answers, memory, accidents>>
        /\ qdrant' = qdrant \/ \E c \in Collections : qdrant' = [qdrant EXCEPT ![c] = {}]
    BY <1>3 DEF CreateCollection, dbVars, history, Collections
  <2>2. {} \in Points
    BY DEF Points
  <2> QED
    BY <2>1, <2>2
<1>4. ASSUME NEW r \in Starts, UpsertPoints(r) PROVE IndexTypes'
  <2> DEFINE c == start[r].coll
  <2>1. c \in Collections /\ start[r].found \in Points
    BY <1>1
  <2>2. UNCHANGED <<purchases, answers, accidents>>
    BY <1>4 DEF UpsertPoints, dbVars, history
  <2>3. \/ UNCHANGED <<qdrant, memory>>
        \/ /\ qdrant[c] # None /\ memory' = memory
           /\ qdrant' = [qdrant EXCEPT ![c] = qdrant[c] \cup start[r].found]
        \/ /\ qdrant' = qdrant
           /\ memory' = [memory EXCEPT ![r] = [memory[r] EXCEPT ![c] = memory[r][c] \cup start[r].found]]
    BY <1>4 DEF UpsertPoints
  <2> HIDE DEF c
  <2>4. qdrant[c] # None => qdrant[c] \cup start[r].found \in Points
    BY <2>1 DEF Points
  <2>5. memory[r][c] \cup start[r].found \in Points
    BY <2>1 DEF Points
  <2>6. qdrant' \in [Collections -> Points \cup {None}]
    BY <2>1, <2>3, <2>4
  <2>7. memory' \in [Starts -> [Collections -> Points]]
    <3>1. [memory[r] EXCEPT ![c] = memory[r][c] \cup start[r].found] \in [Collections -> Points]
      BY <2>5
    <3> QED
      BY <2>3, <3>1
  <2> QED
    BY <2>2, <2>6, <2>7
<1>5. ASSUME NEW r \in Starts,
             \/ Begin(r) \/ FindCustomer(r) \/ AddCustomer(r) \/ LookUpItem(r) \/ CommitItems(r)
             \/ LookUpSuppliers(r) \/ AddSuppliers(r) \/ EnsureCollections(r) \/ ListRows(r)
      PROVE  IndexTypes'
  BY <1>5 DEF Begin, FindCustomer, AddCustomer, LookUpItem, CommitItems, LookUpSuppliers,
              AddSuppliers, EnsureCollections, ListRows, dbVars, indexVars, history
<1>6. ASSUME NEW r \in Starts, Fails(r) PROVE IndexTypes'
  BY <1>6, CatalogueAssumption DEF Fails, Accident, dbVars, indexVars
<1>7. CASE Flip
  BY <1>7, CatalogueAssumption DEF Flip, Accident, dbVars
<1>8. CASE UNCHANGED catalogueVars
  BY <1>8 DEF catalogueVars, dbVars, indexVars, history
<1> HIDE DEF IndexTypes
<1> QED
  BY <1>2, <1>3, <1>4, <1>5, <1>6, <1>7, <1>8 DEF CatalogueNext, Advance

\* Starts, rows, collections and memories keep their types, for any number of
\* starts, lines and accidents.
THEOREM CatalogueTypeCorrect == CatalogueSpec => []CatalogueTypeOK
<1>1. CatalogueInit => CatalogueInv /\ IndexTypes
  BY CatalogueAssumption DEF CatalogueInit, CatalogueInv, Seeds, Owners, Closed, FoundAll,
     Idle, Start, Starting, Collections, Points, At, IndexTypes
<1>2. CatalogueInv /\ IndexTypes => CatalogueTypeOK
  BY DEF CatalogueInv, Seeds, Owners, IndexTypes, CatalogueTypeOK
<1>3. CatalogueInv /\ IndexTypes /\ [CatalogueNext]_catalogueVars => IndexTypes'
  BY IndexTypesStep DEF CatalogueInv
<1> QED
  BY <1>1, <1>2, <1>3, CatalogueStep, PTL DEF CatalogueSpec

(***************************************************************************)
(* What the planner's search finds.                                        *)
(***************************************************************************)
\* Nothing has failed.
Quiet == accidents = 0 /\ answers

\* The collection of the items is created first; a start creates those that it
\* alone found absent, and has both when it comes to index rows.
Order ==
    /\ qdrant["suppliers"] # None => qdrant["nsi"] # None
    /\ \A r \in Starts :
          /\ start[r].at \in Seeding \cup {"off"} => start[r].coll = "nsi"
          /\ At(r, "create") =>
                /\ start[r].coll = "nsi"
                /\ start[r].absent # {}
                /\ \A c \in Collections \ start[r].absent : qdrant[c] # None
          /\ start[r].coll = "suppliers" \/ start[r].at \in {"list", "upsert"} =>
                qdrant["suppliers"] # None

\* The start will index the item, or fail over no collection on the way: what
\* it found absent is absent still, as it is for one start at most.
Carries(p, x) ==
    /\ start[p].coll = "nsi"
    /\ \/ start[p].at \in {"purchases", "ensure", "list"}
       \/ At(p, "create") /\ \A c \in start[p].absent : qdrant[c] = None
       \/ At(p, "upsert") /\ x \in start[p].found

Indexed(x) == qdrant["nsi"] # None /\ x \in qdrant["nsi"]

Reached(x) ==
    IF suppliers = {} THEN start[x.by].at \in {"suppliers", "addSuppliers"}
    ELSE At(x.by, "suppliers") \/ Indexed(x) \/ \E p \in Starts : Carries(p, x)

PlannerInv ==
    /\ accidents \in Nat
    /\ qdrant \in [Collections -> Points \cup {None}]
    /\ Quiet => Order /\ \A x \in items : Reached(x)

\* A start that only moves keeps its other locals.
LEMMA GoesWithAll ==
    ASSUME NEW s \in Start, NEW at \in Starting \cup {"off", "serving"}
    PROVE  LET t == [s EXCEPT !.at = at]
           IN  /\ t \in Start /\ t.at = at
               /\ t.coll = s.coll /\ t.absent = s.absent /\ t.found = s.found
  BY DEF Start

\* A step of one start that empties no collection and adds no supplier keeps the
\* invariant if the start keeps the order, and carries what it carried, or has
\* indexed it.
LEMMA StepOfOne ==
    ASSUME CatalogueInv, PlannerInv, Quiet, NEW r \in Starts, NEW s \in Start,
           start' = [start EXCEPT ![r] = s],
           suppliers' = suppliers,
           \A c \in Collections : qdrant'[c] = None <=> qdrant[c] = None,
           \A x \in items : Indexed(x) => Indexed(x)',
           s.at \in Seeding \cup {"off"} => s.coll = "nsi",
           s.at = "create" =>
               /\ s.coll = "nsi" /\ s.absent # {}
               /\ \A c \in Collections \ s.absent : qdrant[c] # None,
           s.coll = "suppliers" \/ s.at \in {"list", "upsert"} => qdrant["suppliers"] # None,
           \A x \in items : Carries(r, x) => Carries(r, x)' \/ Indexed(x)',
           suppliers = {} /\ start[r].at \in {"suppliers", "addSuppliers"} =>
               s.at \in {"suppliers", "addSuppliers"},
           suppliers # {} /\ At(r, "suppliers") => s.at = "purchases" /\ s.coll = "nsi"
    PROVE  Order' /\ \A x \in items : Reached(x)'
<1> USE DEF CatalogueInv, Seeds, PlannerInv, Order, Reached, At
<1>1. Order'
  BY DEF Collections
<1>2. ASSUME NEW x \in items PROVE Reached(x)'
  <2>1. x.by \in Starts
    BY DEF Item
  <2>2. CASE suppliers = {}
    BY <2>1, <2>2
  <2>3. CASE suppliers # {}
    <3>1. CASE At(x.by, "suppliers")
      <4>1. CASE x.by = r
        <5>1. Carries(r, x)'
          BY <2>3, <3>1, <4>1 DEF Carries
        <5> QED
          BY <2>3, <5>1
      <4> QED
        BY <2>1, <2>3, <3>1, <4>1
    <3>2. CASE Indexed(x)
      BY <2>3, <3>2
    <3>3. ASSUME NEW p \in Starts, Carries(p, x)
          PROVE  Reached(x)'
      <4>1. CASE p = r
        BY <2>3, <3>3, <4>1
      <4>2. CASE p # r
        <5>1. start[p].absent \subseteq Collections /\ start'[p] = start[p]
          BY <4>2 DEF Start
        <5>2. Carries(p, x)'
          BY <3>3, <5>1 DEF Carries
        <5> QED
          BY <2>3, <5>2
      <4> QED
        BY <4>1, <4>2
    <3> QED
      BY <2>3, <3>1, <3>2, <3>3
  <2> QED
    BY <2>2, <2>3
<1> QED
  BY <1>1, <1>2

\* The invariant of the index is inductive: who creates a collection, and who
\* adds the suppliers, indexes every item there is.
LEMMA PlannerStep ==
    ASSUME CatalogueInv, PlannerInv, [CatalogueNext]_catalogueVars PROVE PlannerInv'
<1> USE CatalogueAssumption, NoneIsNoPoints DEF CatalogueInv, Seeds, PlannerInv, At, Goes, Becomes
<1> DEFINE Kept == Order' /\ \A x \in items' : Reached(x)'
<1>1. accidents' \in Nat /\ (Quiet' => Quiet)
  <2>1. ASSUME NEW r \in Starts, Begin(r) \/ Advance(r)
        PROVE  UNCHANGED <<accidents, answers>>
    <3>1. CASE Begin(r) \/ FindCustomer(r) \/ AddCustomer(r) \/ LookUpItem(r) \/ CommitItems(r)
      BY <3>1 DEF Begin, FindCustomer, AddCustomer, LookUpItem, CommitItems, history, indexVars
    <3>2. CASE \/ LookUpSuppliers(r) \/ AddSuppliers(r) \/ AddPurchases(r)
               \/ EnsureCollections(r) \/ CreateCollection(r) \/ ListRows(r) \/ UpsertPoints(r)
      BY <3>2 DEF LookUpSuppliers, AddSuppliers, AddPurchases, EnsureCollections,
         CreateCollection, ListRows, UpsertPoints, history, indexVars
    <3> QED
      BY <2>1, <3>1, <3>2 DEF Advance
  <2>2. CASE (\E r \in Starts : Fails(r)) \/ Flip
    BY <2>2 DEF Fails, Flip, Accident, Quiet
  <2>3. CASE UNCHANGED catalogueVars
    BY <2>3 DEF catalogueVars, history, indexVars, Quiet
  <2> QED
    BY <2>1, <2>2, <2>3 DEF CatalogueNext, Quiet
<1>2. qdrant' \in [Collections -> Points \cup {None}]
  <2>1. ASSUME NEW r \in Starts, CreateCollection(r)
        PROVE  qdrant' \in [Collections -> Points \cup {None}]
    BY <2>1 DEF CreateCollection, Points
  <2>2. ASSUME NEW r \in Starts, UpsertPoints(r)
        PROVE  qdrant' \in [Collections -> Points \cup {None}]
    <3>1. start[r].found \in Points /\ start[r].coll \in Collections
      BY DEF Start
    <3>2. CASE qdrant[start[r].coll] # None
                 /\ qdrant' = [qdrant EXCEPT ![start[r].coll] = @ \cup start[r].found]
      <4>1. qdrant[start[r].coll] \cup start[r].found \in Points
        BY <3>1, <3>2 DEF Points
      <4> QED
        BY <3>1, <3>2, <4>1
    <3> QED
      BY <2>2, <3>2 DEF UpsertPoints
  <2>3. CASE \E r \in Starts : Begin(r) \/ FindCustomer(r) \/ AddCustomer(r) \/ LookUpItem(r)
                               \/ CommitItems(r) \/ LookUpSuppliers(r) \/ AddSuppliers(r)
                               \/ AddPurchases(r) \/ EnsureCollections(r) \/ ListRows(r) \/ Fails(r)
    BY <2>3 DEF Begin, FindCustomer, AddCustomer, LookUpItem, CommitItems, LookUpSuppliers,
       AddSuppliers, AddPurchases, EnsureCollections, ListRows, Fails, indexVars
  <2>4. CASE Flip \/ UNCHANGED catalogueVars
    BY <2>4 DEF Flip, catalogueVars, indexVars
  <2> QED
    BY <2>1, <2>2, <2>3, <2>4 DEF CatalogueNext, Advance
<1> SUFFICES ASSUME Quiet, Quiet' PROVE Kept
  BY <1>1, <1>2
<1>3. ASSUME NEW r \in Starts, Begin(r) PROVE Kept
  <2> DEFINE s == [start[r] EXCEPT !.at = "customer"]
  <2>1. s \in Start /\ s.at = "customer" /\ s.coll = start[r].coll
    BY GoesWithAll, Places
  <2> HIDE DEF s
  <2>2. /\ At(r, "off") /\ start' = [start EXCEPT ![r] = s]
        /\ UNCHANGED <<items, suppliers, qdrant>>
    BY <1>3 DEF Begin, dbVars, indexVars, s
  <2>3. s.coll = "nsi"
    BY <2>1, <2>2 DEF Order
  <2> QED
    BY <2>1, <2>2, <2>3, StepOfOne DEF Carries, Indexed, Seeding
<1>4. ASSUME NEW r \in Starts, FindCustomer(r) \/ AddCustomer(r) \/ LookUpItem(r) PROVE Kept
  <2> DEFINE s == start'[r]
  <2>1. /\ start[r].at \in {"customer", "newCustomer", "items"}
        /\ s.at \in {"newCustomer", "items"} /\ s.coll = start[r].coll
        /\ start' = [start EXCEPT ![r] = s]
        /\ UNCHANGED <<items, suppliers, qdrant>>
    <3>1. start[r] \in Start
      OBVIOUS
    <3>2. CASE FindCustomer(r)
      <4>1. CASE \E c \in customers :
                   /\ At(r, "customer")
                   /\ Becomes(r, [start[r] EXCEPT !.at = "items", !.cust = c])
        <5>1. PICK c \in customers :
                   /\ At(r, "customer")
                   /\ Becomes(r, [start[r] EXCEPT !.at = "items", !.cust = c])
          BY <4>1
        <5> QED
          BY <3>1, <3>2, <5>1 DEF FindCustomer, dbVars, indexVars, Start
      <4>2. CASE customers = {} /\ Goes(r, "customer", "newCustomer")
        BY <3>1, <3>2, <4>2 DEF FindCustomer, dbVars, indexVars, Start
      <4> QED
        BY <3>2, <4>1, <4>2 DEF FindCustomer
    <3>3. CASE AddCustomer(r)
      BY <3>1, <3>3 DEF AddCustomer, indexVars, Start
    <3>4. CASE LookUpItem(r)
      BY <3>1, <3>4 DEF LookUpItem, dbVars, indexVars, Start
    <3> QED
      BY <1>4, <3>2, <3>3, <3>4
  <2>2. s \in Start
    BY CatalogueStep DEF CatalogueInv
  <2> HIDE DEF s
  <2>3. s.coll = "nsi"
    BY <2>1 DEF Order, Seeding
  <2> QED
    BY <2>1, <2>2, <2>3, StepOfOne DEF Carries, Indexed, Seeding
<1>5. ASSUME NEW r \in Starts, CommitItems(r) PROVE Kept
  <2> DEFINE new == [by : {r}, cust : {start[r].cust}, line : start[r].missing]
             s == Idle("suppliers")
  <2>1. /\ At(r, "items") /\ start' = [start EXCEPT ![r] = s]
        /\ UNCHANGED <<suppliers, qdrant>> /\ items' = items \cup new
    BY <1>5 DEF CommitItems, indexVars
  <2>2. s \in Start /\ s.at = "suppliers" /\ s.coll = "nsi"
    BY Forgets, Places DEF Idle
  <2>3. \A x \in new : x.by = r
    OBVIOUS
  <2> HIDE DEF new, s
  <2>4. Order' /\ \A x \in items : Reached(x)'
    BY <2>1, <2>2, StepOfOne DEF Carries, Indexed, Seeding
  <2>5. \A x \in new : Reached(x)'
    BY <2>1, <2>2, <2>3 DEF Reached
  <2> QED
    BY <2>1, <2>4, <2>5
<1>6. ASSUME NEW r \in Starts, LookUpSuppliers(r) PROVE Kept
  <2> DEFINE to == IF suppliers = {} THEN "addSuppliers" ELSE "purchases"
             s == [start[r] EXCEPT !.at = to]
  <2>1. s \in Start /\ s.at = to /\ s.coll = start[r].coll
    BY GoesWithAll, Places
  <2> HIDE DEF s
  <2>2. /\ At(r, "suppliers") /\ start' = [start EXCEPT ![r] = s]
        /\ UNCHANGED <<items, suppliers, qdrant>>
    BY <1>6 DEF LookUpSuppliers, dbVars, indexVars, s
  <2>3. s.coll = "nsi"
    BY <2>1, <2>2 DEF Order, Seeding
  <2> QED
    BY <2>1, <2>2, <2>3, StepOfOne DEF Carries, Indexed, Seeding
<1>7. ASSUME NEW r \in Starts, AddSuppliers(r) PROVE Kept
  <2>1. /\ Idle("purchases") \in Start /\ Idle("purchases").at = "purchases"
        /\ Idle("serving") \in Start /\ Idle("serving").at = "serving"
        /\ Idle("purchases").coll = "nsi" /\ Idle("serving").coll = "nsi"
    BY Forgets, Places DEF Idle
  <2>2. CASE suppliers = {}
    <3>1. /\ start' = [start EXCEPT ![r] = Idle("purchases")]
          /\ suppliers' # {} /\ UNCHANGED <<items, qdrant>>
      BY <1>7, <2>2 DEF AddSuppliers, indexVars
    <3>2. Order'
      BY <2>1, <3>1 DEF Order
    <3>3. \A x : Carries(r, x)'
      BY <2>1, <3>1 DEF Carries
    <3> QED
      BY <3>1, <3>2, <3>3 DEF Reached
  <2>3. CASE suppliers # {}
    <3>1. /\ At(r, "addSuppliers") /\ start' = [start EXCEPT ![r] = Idle("serving")]
          /\ UNCHANGED <<items, suppliers, qdrant>>
      BY <1>7, <2>3 DEF AddSuppliers, AfterError, indexVars
    <3> QED
      BY <2>1, <2>3, <3>1, StepOfOne DEF Carries, Indexed
  <2> QED
    BY <2>2, <2>3
<1>8. ASSUME NEW r \in Starts, AddPurchases(r) PROVE Kept
  <2> DEFINE s == [start[r] EXCEPT !.at = "ensure"]
  <2>1. s \in Start /\ s.at = "ensure" /\ s.coll = start[r].coll
    BY GoesWithAll, Places
  <2> HIDE DEF s
  <2>2. /\ At(r, "purchases") /\ start' = [start EXCEPT ![r] = s]
        /\ UNCHANGED <<items, suppliers, qdrant>>
    BY <1>8 DEF AddPurchases, indexVars, s
  <2>3. s.coll = "nsi"
    BY <2>1, <2>2 DEF Order, Seeding
  <2> QED
    BY <2>1, <2>2, <2>3, StepOfOne DEF Carries, Indexed, Seeding
<1>9. ASSUME NEW r \in Starts, EnsureCollections(r) PROVE Kept
  <2> DEFINE s == start'[r]
  <2>1. /\ At(r, "ensure") /\ start' = [start EXCEPT ![r] = s]
        /\ s.at = (IF Missing = {} THEN "list" ELSE "create")
        /\ s.coll = start[r].coll /\ s.absent = Missing
        /\ UNCHANGED <<items, suppliers, qdrant>>
    <3>1. start[r] \in Start
      OBVIOUS
    <3> QED
      BY <1>9, <3>1 DEF EnsureCollections, dbVars, indexVars, Start
  <2>2. s \in Start
    BY CatalogueStep DEF CatalogueInv
  <2> HIDE DEF s
  <2>3. Missing = {c \in Collections : qdrant[c] = None}
    BY DEF Missing, Quiet
  <2>4. /\ s.at = "create" =>
              s.coll = "nsi" /\ s.absent # {} /\ \A c \in Collections \ s.absent : qdrant[c] # None
        /\ s.coll = "suppliers" \/ s.at = "list" => qdrant["suppliers"] # None
    <3>1. s.coll = "nsi" \/ s.coll = "suppliers"
      BY <2>2 DEF Start, Collections
    <3> QED
      BY <2>1, <2>3, <3>1 DEF Order, Collections
  <2>5. \A x \in items : Carries(r, x) => Carries(r, x)'
    BY <2>1, <2>3 DEF Carries
  <2>6. s.at \in {"list", "create"}
    BY <2>1
  <2> HIDE DEF Kept
  <2>7. Order' /\ \A x \in items : Reached(x)'
    BY <2>1, <2>2, <2>4, <2>5, <2>6, StepOfOne DEF Indexed, Seeding
  <2> QED
    BY <2>1, <2>7 DEF Kept
<1>10. ASSUME NEW r \in Starts, CreateCollection(r) PROVE Kept
  <2> DEFINE c == IF "nsi" \in start[r].absent THEN "nsi" ELSE "suppliers"
             left == start[r].absent \ {c}
             s == start'[r]
  <2>1. /\ At(r, "create") /\ start[r].coll = "nsi" /\ start[r].absent # {}
        /\ start[r].absent \subseteq Collections
        /\ \A d \in Collections \ start[r].absent : qdrant[d] # None
    <3>1. start[r] \in Start
      OBVIOUS
    <3> QED
      BY <1>10, <3>1 DEF CreateCollection, Order, Start
  <2>2. c \in start[r].absent /\ c \in Collections
    BY <2>1 DEF Collections
  <2>3. CASE qdrant[c] # None
    <3>1. /\ start' = [start EXCEPT ![r] = Idle("serving")]
          /\ UNCHANGED <<items, suppliers, qdrant>>
      BY <1>10, <2>3 DEF CreateCollection, AfterError, dbVars
    <3>2. \A x : ~ Carries(r, x)
      BY <2>1, <2>2, <2>3 DEF Carries
    <3>3. /\ Idle("serving") \in Start /\ Idle("serving").at = "serving"
          /\ Idle("serving").coll = "nsi"
      BY Forgets, Places DEF Idle
    <3> QED
      BY <2>1, <3>1, <3>2, <3>3, StepOfOne DEF Indexed, Seeding
  <2>4. CASE qdrant[c] = None
    <3>1. /\ start' = [start EXCEPT ![r] = s]
          /\ s.at = (IF left = {} THEN "list" ELSE "create")
          /\ s.coll = "nsi" /\ s.absent = left
          /\ UNCHANGED <<items, suppliers>>
          /\ qdrant' = [qdrant EXCEPT ![c] = {}]
      <4>1. start[r] \in Start
        OBVIOUS
      <4>2. /\ Becomes(r, [start[r] EXCEPT !.absent = left,
                                           !.at = IF left = {} THEN "list" ELSE @])
            /\ UNCHANGED <<items, suppliers>>
            /\ qdrant' = [qdrant EXCEPT ![c] = {}]
        BY <1>10, <2>4 DEF CreateCollection, dbVars, Quiet
      <4> HIDE DEF left, c
      <4> QED
        BY <2>1, <4>1, <4>2 DEF Start
    <3>2. qdrant' \in [Collections -> Points \cup {None}] /\ {} # None /\ qdrant'[c] = {}
      BY <1>2, <2>2, <3>1 DEF Points
    <3>3. \A d \in Collections : qdrant'[d] = None => qdrant[d] = None /\ d # c
      BY <2>2, <3>1, <3>2
    <3>4. qdrant'["suppliers"] # None => qdrant'["nsi"] # None
      BY <2>1, <2>2, <2>4, <3>1, <3>2 DEF Order, Collections
    <3>5. \A d \in left : qdrant'[d] = None
      BY <2>1, <2>2, <2>4, <3>1 DEF Order, Collections
    <3>6. \A d \in Collections \ left : qdrant'[d] # None
      BY <2>1, <3>2, <3>3
    <3> HIDE DEF left, c, s
    <3>7. Order'
      BY <2>1, <3>1, <3>3, <3>4, <3>6 DEF Order, Collections, Seeding
    <3>8. \A x : Carries(r, x)'
      BY <3>1, <3>5 DEF Carries
    <3>9. \A x \in items : Reached(x)'
      <4>1. SUFFICES ASSUME NEW x \in items, suppliers = {}
                     PROVE  start'[x.by].at \in {"suppliers", "addSuppliers"}
        BY <3>1, <3>8 DEF Reached
      <4>2. x.by \in Starts /\ start[x.by].at \in {"suppliers", "addSuppliers"}
        BY <4>1 DEF Reached, Item
      <4> QED
        BY <2>1, <3>1, <4>2
    <3> QED
      BY <3>1, <3>7, <3>9
  <2> QED
    BY <2>3, <2>4
<1>11. ASSUME NEW r \in Starts, ListRows(r) \/ UpsertPoints(r) PROVE Kept
  <2>1. start[r] \in Start /\ start[r].coll \in Collections
    BY DEF Start
  <2>2. /\ start[r].at \in {"list", "upsert"} /\ qdrant["suppliers"] # None
        /\ qdrant["nsi"] # None
    BY <1>11 DEF ListRows, UpsertPoints, Order
  <2>3. qdrant[start[r].coll] # None
    BY <2>1, <2>2 DEF Collections
  <2>4. /\ AfterIndex(r) \in Start
        /\ AfterIndex(r).at \in {"ensure", "serving"}
    <3>1. /\ Idle("ensure") \in Start /\ Idle("ensure").at = "ensure"
          /\ Idle("serving") \in Start /\ Idle("serving").at = "serving"
      BY Forgets, Places
    <3>2. [Idle("ensure") EXCEPT !.coll = "suppliers"] \in Start
          /\ [Idle("ensure") EXCEPT !.coll = "suppliers"].at = "ensure"
      BY <3>1, Turns
    <3> QED
      BY <3>1, <3>2 DEF AfterIndex
  <2>5. CASE Rows(r) = {} /\ ListRows(r)
    <3>1. start' = [start EXCEPT ![r] = AfterIndex(r)] /\ UNCHANGED <<items, suppliers, qdrant>>
      BY <2>5 DEF ListRows, dbVars, indexVars
    <3>2. \A x \in items : ~ Carries(r, x)
      BY <2>5 DEF Carries, Rows, AllRows
    <3> QED
      BY <2>2, <2>4, <3>1, <3>2, StepOfOne DEF Indexed, Seeding
  <2>6. CASE Rows(r) # {} /\ ListRows(r)
    <3> DEFINE s == [start[r] EXCEPT !.at = "upsert", !.found = Rows(r)]
    <3>1. Rows(r) \in Points
      BY DEF Rows, AllRows, Points
    <3>2. s \in Start /\ s.at = "upsert" /\ s.coll = start[r].coll /\ s.found = Rows(r)
      BY <2>1, <3>1, Places DEF Start
    <3> HIDE DEF s
    <3>3. start' = [start EXCEPT ![r] = s] /\ UNCHANGED <<items, suppliers, qdrant>>
      BY <2>6 DEF ListRows, dbVars, indexVars, s
    <3>4. \A x \in items : Carries(r, x) => Carries(r, x)'
      BY <3>2, <3>3 DEF Carries, Rows, AllRows
    <3> QED
      BY <2>2, <3>2, <3>3, <3>4, StepOfOne DEF Indexed, Seeding
  <2>7. CASE UpsertPoints(r)
    <3> DEFINE c == start[r].coll
    <3>1. /\ start' = [start EXCEPT ![r] = AfterIndex(r)]
          /\ qdrant' = [qdrant EXCEPT ![c] = @ \cup start[r].found]
          /\ At(r, "upsert") /\ UNCHANGED <<items, suppliers>>
      BY <2>3, <2>7 DEF UpsertPoints, dbVars, Quiet
    <3>2. qdrant[c] \cup start[r].found \in Points
      BY <2>1, <2>3 DEF Points, Start
    <3>3. \A d \in Collections : qdrant'[d] = None <=> qdrant[d] = None
      BY <2>1, <2>3, <3>1, <3>2
    <3>4. \A x \in items : Indexed(x) => Indexed(x)'
      BY <2>1, <2>2, <3>1, <3>3 DEF Indexed, Collections
    <3>5. \A x \in items : Carries(r, x) => Indexed(x)'
      BY <2>1, <2>2, <3>1, <3>3 DEF Indexed, Carries, Collections
    <3> HIDE DEF c
    <3> QED
      BY <2>2, <2>4, <3>1, <3>3, <3>4, <3>5, StepOfOne DEF Seeding
  <2> QED
    BY <1>11, <2>5, <2>6, <2>7
<1>12. ASSUME NEW r \in Starts, Fails(r) PROVE Kept
  BY <1>12 DEF Fails, Accident, Quiet
<1>13. CASE Flip
  BY <1>13 DEF Flip, Accident, Quiet
<1>14. CASE UNCHANGED catalogueVars
  BY <1>14 DEF catalogueVars, dbVars, indexVars, Order, Reached, Carries, Indexed
<1> HIDE DEF Kept
<1> QED
  BY <1>3, <1>4, <1>5, <1>6, <1>7, <1>8, <1>9, <1>10, <1>11, <1>12, <1>13, <1>14
  DEF CatalogueNext, Advance

\* While nothing fails, every process finds the items of every customer once all
\* have started, in whatever order they raced, for any number of starts and lines.
THEOREM PlannerFinds == CatalogueSpec => []PlannerCanMatch
<1>1. CatalogueInit => CatalogueInv /\ PlannerInv
  BY CatalogueAssumption, NoneIsNoPoints DEF CatalogueInit, CatalogueInv, Seeds, Owners, Closed,
     FoundAll, PlannerInv, Order, Idle, Start, Starting, Seeding, Indexing, Collections, Points, At
<1>2. CatalogueInv /\ PlannerInv => PlannerCanMatch
  <2> SUFFICES ASSUME CatalogueInv, PlannerInv, Quiet, Complete,
                      \A r \in Starts : start[r].at \notin Starting,
                      NEW r \in Starts, NEW c \in customers
               PROVE  NsiSearch(r, c) # None /\ \E x \in NsiSearch(r, c) : x.cust = c
    BY DEF PlannerCanMatch, Quiet
  <2>1. \A x \in items : Indexed(x)
    BY DEF CatalogueInv, Seeds, PlannerInv, Reached, Carries, At, Item, Starting, Seeding, Indexing
  <2>2. PICK x \in items : x.cust = c
    <3>1. 1 \in 1..Items
      BY CatalogueAssumption
    <3> QED
      BY <3>1 DEF Complete
  <2>3. /\ Scrolled(r, "nsi") = qdrant["nsi"] /\ qdrant["nsi"] # None
        /\ qdrant["nsi"] \in Points /\ x \in qdrant["nsi"]
    BY <2>1, <2>2 DEF Indexed, Scrolled, Quiet, PlannerInv, Collections
  <2> DEFINE own == {y \in qdrant["nsi"] : y.cust = c}
  <2>4. own \in Points /\ x \in own /\ own # None
    BY <2>2, <2>3, NoneIsNoPoints DEF Points
  <2>5. NsiSearch(r, c) = own
    BY <2>3, <2>4 DEF NsiSearch
  <2> QED
    BY <2>2, <2>4, <2>5
<1> QED
  BY <1>1, <1>2, CatalogueStep, PlannerStep, PTL DEF CatalogueSpec

(***************************************************************************)
(* The event bus.                                                          *)
(***************************************************************************)

\* What a client was told of has been published.
OncePublished ==
    \A c \in Clients :
        /\ \A k \in DOMAIN since[c] : state[since[c][k]] = "published"
        /\ \A e \in full[c] : state[e] = "published"

\* A client has no gap but an overflow until it is gone.
NoOtherGap ==
    \A c \in Clients :
        client[c] \in {"away", "connected"} => Remains(seen[c] \o queue[c], since[c], full[c])

BusInv == BusTypeOK /\ OncePublished /\ NoOtherGap

\* Three sequences, put together either way.
LEMMA Associative ==
    ASSUME NEW S, NEW s \in Seq(S), NEW t \in Seq(S), NEW u \in Seq(S)
    PROVE  (s \o t) \o u = s \o (t \o u)
  BY ConcatAssociative

\* The first of what follows may be appended as well.
LEMMA AppendMoves ==
    ASSUME NEW S, NEW s \in Seq(S), NEW t \in Seq(S), NEW e \in S
    PROVE  /\ t # <<>> => Append(s, Head(t)) \o Tail(t) = s \o t
           /\ Append(s \o t, e) = s \o Append(t, e)
<1>1. ASSUME t # <<>> PROVE Append(s, Head(t)) \o Tail(t) = s \o t
  <2> DEFINE d == <<Head(t)>>
             q == Tail(t)
  <2>1. d \in Seq(S) /\ q \in Seq(S) /\ t = d \o q /\ Append(s, Head(t)) = s \o d
    BY <1>1, HeadTailProperties, AppendIsConcat
  <2> HIDE DEF d, q
  <2>2. (s \o d) \o q = s \o (d \o q)
    BY <2>1, Associative
  <2> QED
    BY <2>1, <2>2 DEF q
<1>2. Append(s \o t, e) = s \o Append(t, e)
  <2>1. <<e>> \in Seq(S) /\ s \o t \in Seq(S)
    BY ConcatProperties
  <2>2. \A u \in Seq(S) : (s \o t) \o u = s \o (t \o u)
    BY ConcatAssociative
  <2>3. (s \o t) \o <<e>> = s \o (t \o <<e>>)
    BY <2>1, <2>2
  <2> QED
    BY <2>1, <2>3, AppendIsConcat
<1> QED
  BY <1>1, <1>2

\* What remains of a sequence that ends with one new element to leave out.
LEMMA LeavesOut ==
    ASSUME NEW S, NEW s \in Seq(S), NEW t \in Seq(S), NEW D, Remains(s, t, D), NEW e \in S,
           \A k \in DOMAIN t : t[k] # e
    PROVE  Remains(s, Append(t, e), D \cup {e})
<1> DEFINE u == Append(t, e)
<1>1. /\ DOMAIN t \subseteq DOMAIN u /\ DOMAIN u = DOMAIN t \cup {Len(t) + 1}
      /\ \A k \in DOMAIN t : u[k] = t[k]
      /\ u[Len(t) + 1] = e
  OBVIOUS
<1>2. PICK place \in [DOMAIN s -> DOMAIN t] :
          /\ \A i \in DOMAIN s : s[i] = t[place[i]]
          /\ \A i, j \in DOMAIN s : i < j => place[i] < place[j]
          /\ {place[i] : i \in DOMAIN s} = {k \in DOMAIN t : t[k] \notin D}
  BY DEF Remains
<1> HIDE DEF u
<1>3. {k \in DOMAIN u : u[k] \notin D \cup {e}} = {k \in DOMAIN t : t[k] \notin D}
  BY <1>1
<1>4. place \in [DOMAIN s -> DOMAIN u]
  BY <1>1, <1>2
<1>5. \A i \in DOMAIN s : s[i] = u[place[i]]
  BY <1>1, <1>2
<1> QED
  BY <1>2, <1>3, <1>4, <1>5 DEF Remains, u

\* What remains of one that ends with a new element to keep.
LEMMA LeavesIn ==
    ASSUME NEW S, NEW s \in Seq(S), NEW t \in Seq(S), NEW D, Remains(s, t, D), NEW e \in S, e \notin D
    PROVE  Remains(Append(s, e), Append(t, e), D)
<1> DEFINE u == Append(t, e)
           v == Append(s, e)
<1>1. /\ DOMAIN u = DOMAIN t \cup {Len(t) + 1} /\ Len(t) \in Nat /\ DOMAIN t = 1..Len(t)
      /\ \A k \in DOMAIN t : u[k] = t[k]
      /\ u[Len(t) + 1] = e
      /\ DOMAIN v = DOMAIN s \cup {Len(s) + 1} /\ Len(s) \in Nat /\ DOMAIN s = 1..Len(s)
      /\ \A k \in DOMAIN s : v[k] = s[k]
      /\ v[Len(s) + 1] = e
  OBVIOUS
<1>2. PICK place \in [DOMAIN s -> DOMAIN t] :
          /\ \A i \in DOMAIN s : s[i] = t[place[i]]
          /\ \A i, j \in DOMAIN s : i < j => place[i] < place[j]
          /\ {place[i] : i \in DOMAIN s} = {k \in DOMAIN t : t[k] \notin D}
  BY DEF Remains
<1> HIDE DEF u, v
<1> DEFINE to == [i \in DOMAIN v |-> IF i \in DOMAIN s THEN place[i] ELSE Len(t) + 1]
<1>3. to \in [DOMAIN v -> DOMAIN u] /\ \A i \in DOMAIN v : v[i] = u[to[i]]
  BY <1>1, <1>2
<1>4. \A i, j \in DOMAIN v : i < j => to[i] < to[j]
  <2> SUFFICES ASSUME NEW i \in DOMAIN v, NEW j \in DOMAIN v, i < j PROVE to[i] < to[j]
    OBVIOUS
  <2>1. i \in DOMAIN s /\ to[i] = place[i] /\ place[i] \in 1..Len(t)
    BY <1>1, <1>2
  <2>2. CASE j \in DOMAIN s
    BY <1>2, <2>1, <2>2
  <2>3. CASE j \notin DOMAIN s
    BY <1>1, <2>1, <2>3
  <2> QED
    BY <2>2, <2>3
<1>5. {to[i] : i \in DOMAIN v} = {to[i] : i \in DOMAIN s} \cup {to[Len(s) + 1]}
  <2>1. DOMAIN v = DOMAIN s \cup {Len(s) + 1}
    BY <1>1
  <2> HIDE DEF to
  <2> QED
    BY <2>1
<1>6. {to[i] : i \in DOMAIN s} = {place[i] : i \in DOMAIN s} /\ to[Len(s) + 1] = Len(t) + 1
  <2>1. \A i \in DOMAIN s : to[i] = place[i]
    BY <1>1
  <2>2. Len(s) + 1 \in DOMAIN v /\ Len(s) + 1 \notin DOMAIN s
    BY <1>1
  <2>3. to[Len(s) + 1] = Len(t) + 1
    BY <2>2
  <2> HIDE DEF to
  <2> QED
    BY <2>1, <2>3
<1>7. {k \in DOMAIN u : u[k] \notin D} = {k \in DOMAIN t : t[k] \notin D} \cup {Len(t) + 1}
  BY <1>1
<1> HIDE DEF to
<1>8. {to[i] : i \in DOMAIN v} = {k \in DOMAIN u : u[k] \notin D}
  BY <1>2, <1>5, <1>6, <1>7
<1> QED
  BY <1>3, <1>4, <1>8 DEF Remains, u, v

\* Every step keeps the types.
LEMMA BusTypeStep == ASSUME BusTypeOK, [BusNext]_busVars PROVE BusTypeOK'
<1> USE CapacityAssumption DEF BusTypeOK
<1>1. ASSUME NEW c \in Clients, Connect(c) \/ Leave(c) PROVE BusTypeOK'
  <2>1. home[c] \in Servers /\ bus[home[c]] \cup {c} \in SUBSET Clients
    OBVIOUS
  <2>2. CASE Connect(c)
    BY <2>1, <2>2 DEF Connect
  <2>3. CASE Leave(c)
    BY <2>3 DEF Leave
  <2> QED
    BY <1>1, <2>2, <2>3
<1>2. ASSUME NEW c \in Clients, SendEvent(c) PROVE BusTypeOK'
  <2>1. /\ queue[c] \in Seq(Events) /\ queue[c] # <<>>
        /\ queue' = [queue EXCEPT ![c] = Tail(@)]
    BY <1>2 DEF SendEvent
  <2>2. /\ Tail(queue[c]) \in Seq(Events) /\ Len(Tail(queue[c])) <= Capacity
        /\ Append(seen[c], Head(queue[c])) \in Seq(Events)
    BY <2>1
  <2>3. queue' \in [Clients -> Seq(Events)] /\ \A d \in Clients : Len(queue'[d]) <= Capacity
    BY <2>1, <2>2
  <2>4. CASE client[c] = "connected"
    <3>1. /\ seen' = [seen EXCEPT ![c] = Append(@, Head(queue[c]))]
          /\ UNCHANGED <<state, bus, client, home, since, full>>
      BY <1>2, <2>4 DEF SendEvent
    <3>2. seen' \in [Clients -> Seq(Events)]
      BY <2>2, <3>1
    <3> QED
      BY <2>3, <3>1, <3>2
  <2>5. CASE client[c] # "connected"
    <3>1. /\ client' = [client EXCEPT ![c] = "closed"]
          /\ bus' = [bus EXCEPT ![home[c]] = bus[home[c]] \ {c}]
          /\ UNCHANGED <<state, home, since, full, seen>>
      BY <1>2, <2>5 DEF SendEvent, Close, SubscribersLeft
    <3>2. bus[home[c]] \ {c} \in SUBSET Clients
      OBVIOUS
    <3>3. client' \in [Clients -> {"away", "connected", "gone", "closed"}]
          /\ bus' \in [Servers -> SUBSET Clients]
      BY <3>1, <3>2
    <3> QED
      BY <2>3, <3>1, <3>3
  <2> QED
    BY <2>4, <2>5
<1>3. ASSUME NEW c \in Clients, Ping(c) PROVE BusTypeOK'
  BY <1>3 DEF Ping, Close, SubscribersLeft
<1>4. ASSUME NEW e \in Events, Commit(e) PROVE BusTypeOK'
  BY <1>4 DEF Commit
<1>5. ASSUME NEW e \in Events, NEW p \in Servers, Publish(e, p) PROVE BusTypeOK'
  <2>1. \A c \in Clients :
           /\ Queued(queue[c], e) \in Seq(Events) /\ Len(Queued(queue[c], e)) <= Capacity
           /\ Append(since[c], e) \in Seq(Events)
    <3> SUFFICES ASSUME NEW c \in Clients
                 PROVE  /\ Queued(queue[c], e) \in Seq(Events) /\ Len(Queued(queue[c], e)) <= Capacity
                        /\ Append(since[c], e) \in Seq(Events)
      OBVIOUS
    <3>1. queue[c] \in Seq(Events) /\ Len(queue[c]) <= Capacity /\ since[c] \in Seq(Events)
      OBVIOUS
    <3> QED
      BY <3>1 DEF Queued
  <2>2. /\ queue' = [c \in Clients |-> IF c \in bus[p] THEN Queued(queue[c], e) ELSE queue[c]]
        /\ since' = [c \in Clients |-> IF c \in bus[p] THEN Append(since[c], e) ELSE since[c]]
        /\ full' = [c \in Clients |->
                       IF c \in bus[p] /\ Len(queue[c]) = Capacity THEN full[c] \cup {e} ELSE full[c]]
        /\ state' = [state EXCEPT ![e] = "published"]
        /\ UNCHANGED <<bus, client, home, seen>>
    BY <1>5 DEF Publish
  <2>3. queue' \in [Clients -> Seq(Events)] /\ \A c \in Clients : Len(queue'[c]) <= Capacity
    BY <2>1, <2>2
  <2>4. since' \in [Clients -> Seq(Events)] /\ full' \in [Clients -> SUBSET Events]
    BY <2>1, <2>2
  <2> QED
    BY <2>2, <2>3, <2>4
<1>6. CASE UNCHANGED busVars
  BY <1>6 DEF busVars
<1> QED
  BY <1>1, <1>2, <1>3, <1>4, <1>5, <1>6 DEF BusNext, Work

\* Every step keeps the gaps to overflows.
LEMMA BusStep == ASSUME BusInv, [BusNext]_busVars PROVE BusInv'
<1> USE DEF BusInv
<1>0. BusTypeOK'
  BY BusTypeStep
<1>1. CASE \/ \E c \in Clients : Connect(c) \/ Leave(c) \/ Ping(c)
           \/ UNCHANGED busVars
  <2>1. /\ UNCHANGED <<state, queue, seen, since, full>>
        /\ \A c \in Clients : client'[c] \in {"away", "connected"} =>
                                  client[c] \in {"away", "connected"}
    BY <1>1 DEF Connect, Leave, Ping, Close, busVars, BusTypeOK
  <2> QED
    BY <1>0, <2>1 DEF OncePublished, NoOtherGap
<1>2. ASSUME NEW c \in Clients, SendEvent(c) PROVE BusInv'
  <2>1. /\ queue' = [queue EXCEPT ![c] = Tail(@)] /\ queue[c] # <<>>
        /\ UNCHANGED <<state, since, full>>
    BY <1>2 DEF SendEvent, Close
  <2>2. OncePublished'
    BY <2>1 DEF OncePublished
  <2>3. CASE client[c] = "connected"
    <3>1. seen' = [seen EXCEPT ![c] = Append(@, Head(queue[c]))] /\ UNCHANGED client
      BY <1>2, <2>3 DEF SendEvent
    <3>2. seen'[c] \o queue'[c] = seen[c] \o queue[c]
      <4>1. seen[c] \in Seq(Events) /\ queue[c] \in Seq(Events)
        BY DEF BusTypeOK
      <4>2. Append(seen[c], Head(queue[c])) \o Tail(queue[c]) = seen[c] \o queue[c]
        <5>1. \A s, t \in Seq(Events) : \A e \in Events :
                 t # <<>> => Append(s, Head(t)) \o Tail(t) = s \o t
          BY AppendMoves
        <5>2. Head(queue[c]) \in Events
          BY <2>1, <4>1
        <5> QED
          BY <2>1, <4>1, <5>1, <5>2
      <4> QED
        BY <2>1, <3>1, <4>2 DEF BusTypeOK
    <3>3. \A d \in Clients \ {c} : seen'[d] = seen[d] /\ queue'[d] = queue[d]
      BY <2>1, <3>1 DEF BusTypeOK
    <3>4. NoOtherGap'
      BY <2>1, <3>1, <3>2, <3>3 DEF NoOtherGap
    <3> QED
      BY <1>0, <2>2, <3>4
  <2>4. CASE client[c] # "connected"
    <3>1. client' = [client EXCEPT ![c] = "closed"] /\ UNCHANGED seen
      BY <1>2, <2>4 DEF SendEvent, Close
    <3>2. \A d \in Clients : client'[d] \in {"away", "connected"} =>
              d # c /\ client'[d] = client[d] /\ queue'[d] = queue[d]
      BY <2>1, <3>1 DEF BusTypeOK
    <3>3. NoOtherGap'
      BY <2>1, <3>1, <3>2 DEF NoOtherGap
    <3> QED
      BY <1>0, <2>2, <3>3
  <2> QED
    BY <2>3, <2>4
<1>3. ASSUME NEW e \in Events, Commit(e) PROVE BusInv'
  <2>1. /\ state[e] = "new" /\ state' = [state EXCEPT ![e] = "committed"]
        /\ UNCHANGED <<queue, client, seen, since, full>>
    BY <1>3 DEF Commit
  <2>2. \A d \in Events : state[d] = "published" => state'[d] = "published"
    BY <2>1 DEF BusTypeOK
  <2>3. OncePublished'
    BY <2>1, <2>2 DEF OncePublished, BusTypeOK
  <2> QED
    BY <1>0, <2>1, <2>3 DEF NoOtherGap
<1>4. ASSUME NEW e \in Events, NEW p \in Servers, Publish(e, p) PROVE BusInv'
  <2>1. /\ state[e] = "committed" /\ state' = [state EXCEPT ![e] = "published"]
        /\ queue' = [c \in Clients |-> IF c \in bus[p] THEN Queued(queue[c], e) ELSE queue[c]]
        /\ since' = [c \in Clients |-> IF c \in bus[p] THEN Append(since[c], e) ELSE since[c]]
        /\ full' = [c \in Clients |->
                       IF c \in bus[p] /\ Len(queue[c]) = Capacity THEN full[c] \cup {e} ELSE full[c]]
        /\ UNCHANGED <<bus, client, home, seen>>
    BY <1>4 DEF Publish
  <2>2. /\ \A d \in Events : state[d] = "published" => state'[d] = "published"
        /\ state'[e] = "published"
    BY <2>1 DEF BusTypeOK
  <2>3. ASSUME NEW c \in Clients
        PROVE  /\ queue[c] \in Seq(Events) /\ since[c] \in Seq(Events) /\ seen[c] \in Seq(Events)
               /\ seen[c] \o queue[c] \in Seq(Events)
               /\ full[c] \subseteq Events
               /\ e \notin full[c] /\ \A k \in DOMAIN since[c] : since[c][k] # e
    BY <2>1 DEF BusTypeOK, OncePublished
  <2>4. OncePublished'
    <3>1. ASSUME NEW c \in Clients
          PROVE  /\ \A k \in DOMAIN since'[c] : state'[since'[c][k]] = "published"
                 /\ \A d \in full'[c] : state'[d] = "published"
      <4>1. \A k \in DOMAIN since[c] : state[since[c][k]] = "published" /\ since[c][k] \in Events
        BY <2>3 DEF OncePublished
      <4>2. CASE since'[c] = since[c]
        BY <2>1, <2>2, <2>3, <4>1, <4>2 DEF OncePublished
      <4>3. CASE since'[c] = Append(since[c], e)
        <5>1. \A k \in DOMAIN since'[c] : (k \in DOMAIN since[c] /\ since'[c][k] = since[c][k])
                                          \/ since'[c][k] = e
          BY <2>3, <4>3
        <5> QED
          BY <2>1, <2>2, <2>3, <4>1, <5>1 DEF OncePublished
      <4> QED
        BY <2>1, <4>2, <4>3
    <3> QED
      BY <3>1 DEF OncePublished
  <2>5. NoOtherGap'
    <3> SUFFICES ASSUME NEW c \in Clients, client[c] \in {"away", "connected"}
                 PROVE  Remains(seen[c] \o queue'[c], since'[c], full'[c])
      BY <2>1 DEF NoOtherGap
    <3>1. Remains(seen[c] \o queue[c], since[c], full[c])
      BY DEF NoOtherGap
    <3>2. CASE c \notin bus[p]
      BY <2>1, <3>1, <3>2
    <3>3. CASE c \in bus[p] /\ Len(queue[c]) = Capacity
      <4>1. Remains(seen[c] \o queue[c], Append(since[c], e), full[c] \cup {e})
        BY <2>3, <3>1, LeavesOut
      <4> QED
        BY <2>1, <3>3, <4>1 DEF Queued
    <3>4. CASE c \in bus[p] /\ Len(queue[c]) # Capacity
      <4>1. Remains(Append(seen[c] \o queue[c], e), Append(since[c], e), full[c])
        BY <2>3, <3>1, LeavesIn
      <4>2. Append(seen[c] \o queue[c], e) = seen[c] \o Append(queue[c], e)
        <5>1. \A s, t \in Seq(Events) : Append(s \o t, e) = s \o Append(t, e)
          BY AppendMoves
        <5> QED
          BY <2>3, <5>1
      <4> QED
        BY <2>1, <3>4, <4>1, <4>2 DEF Queued
    <3> QED
      BY <3>2, <3>3, <3>4
  <2> QED
    BY <1>0, <2>4, <2>5
<1> HIDE DEF BusInv
<1> QED
  BY <1>1, <1>2, <1>3, <1>4 DEF BusNext, Work

\* Both hold of every run.
LEMMA BusInvHolds == BusSpec => []BusInv
<1>1. BusInit => BusInv
  <2> SUFFICES ASSUME BusInit PROVE BusInv
    OBVIOUS
  <2>1. BusTypeOK
    BY CapacityAssumption DEF BusInit, BusTypeOK
  <2>2. OncePublished
    BY DEF BusInit, OncePublished
  <2>3. Remains(<<>> \o <<>>, <<>>, {})
    <3>1. <<>> \in Seq(Events) /\ <<>> \o <<>> = <<>> /\ DOMAIN <<>> = {}
      BY ConcatEmptySeq
    <3> DEFINE place == [i \in {} |-> i]
    <3>2. place \in [{} -> {}]
      OBVIOUS
    <3> QED
      BY <3>1, <3>2 DEF Remains
  <2>4. NoOtherGap
    BY <2>3 DEF BusInit, NoOtherGap
  <2> QED
    BY <2>1, <2>2, <2>4 DEF BusInv
<1> QED
  BY <1>1, BusStep, PTL DEF BusSpec

\* The types of the bus, its queues and its clients; no queue is longer than its
\* capacity.
THEOREM BusTypeCorrect == BusSpec => []BusTypeOK
  BY BusInvHolds, PTL DEF BusInv

\* A connected client has been sent, or will be, what its process published since
\* it came, in that order and once, less what met a full queue: for any number of
\* processes, clients and events and any capacity.
THEOREM NoGapButOverflow == BusSpec => []GapsAreOverflows
<1>1. BusInv => GapsAreOverflows
  BY DEF BusInv, NoOtherGap, GapsAreOverflows
<1> QED
  BY <1>1, BusInvHolds, PTL

=============================================================================
