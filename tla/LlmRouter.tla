----------------------------- MODULE LlmRouter ------------------------------
(***************************************************************************)
(* How an agent's question reaches a language model: complete_with_fallback*)
(* with its retries, the fallback chosen by role, the masking of personal  *)
(* data on the way out and back, and the counter of answers                *)
(* (llm/router.py, llm/pii_masker.py, services/metering.py, settings.py).  *)
(*                                                                         *)
(* A prompt is the sequence of what the four patterns of the masker find   *)
(* in it; the words between are left out.  A provider is external: it      *)
(* answers with any mix of the placeholders it knows and invented ones, or *)
(* raises.  FakeLLM is local; it raises on a phrase that breaks the numbers*)
(* it looks for (llm/fake.py:101).                                         *)
(***************************************************************************)
EXTENDS Naturals, Sequences, SequencesExt, FiniteSets

CONSTANTS
    Calls,       \* bound: calls of complete_with_fallback
    Providers,   \* names in _REGISTRY, "fake" among them
    Kinds,       \* what the masker looks for: INN, OGRN, e-mail, phone
    Prompts,     \* sequences of found items [kind, text] the agents may send
    Texts,       \* the strings an item may be
    MaxReply,    \* bound: placeholders in one answer
    MaxRetries,  \* settings.llm.max_retries
    Unanswered   \* no provider has answered yet

ASSUME NamesAssumption == "fake" \in Providers /\ Unanswered \notin Providers /\ "error" \notin Providers
ASSUME BoundsAssumption == MaxRetries \in Nat \ {0} /\ MaxReply \in Nat
ASSUME PromptAssumption == Prompts \subseteq Seq([kind : Kinds, text : Texts])

VARIABLES
    conf,       \* settings.llm: the provider of each role
    installed,  \* providers whose client can be constructed
    pc,         \* where each call is
    role,       \* its role
    prompt,     \* its user prompt
    tries,      \* attempts that raised
    answered,   \* provider that answered, "error" or Unanswered
    reply,      \* text handed to the agent
    sent,       \* what left for which provider (history)
    metered     \* usage_tracker's llm_total_tokens

vars == <<conf, installed, pc, role, prompt, tries, answered, reply, sent, metered>>

Roles == {"primary", "fallback", "verifier", "verifier_fallback"}

\* _verifier_must_differ_in_real_mode
ValidSettings(f) == f["primary"] # "fake" => f["primary"] # f["verifier"]

-----------------------------------------------------------------------------
(***************************************************************************)
(* pii_masker.  A placeholder carries its kind and a number of its own.    *)
(***************************************************************************)
Placeholder == [kind : Kinds, no : Nat]

\* What a text may hold: found items and placeholders.
Readable == Placeholder \cup [kind : Kinds, text : Texts]

\* The number of the i-th item among those of its kind.
Number(p, i) == Cardinality({j \in 1..i : p[j].kind = p[i].kind})

Masked(p) == [i \in DOMAIN p |-> [kind |-> p[i].kind, no |-> Number(p, i)]]

\* The item a placeholder of the mapping stands for.
Original(p, h) == p[CHOOSE i \in DOMAIN p : Masked(p)[i] = h]

\* unmask_pii: what the mapping does not know stays as the model wrote it.
Unmasked(p, r) ==
    [i \in DOMAIN r |->
        IF r[i] \in ToSet(Masked(p)) THEN Original(p, r[i]) ELSE r[i]]

\* What a model may write: placeholders, known or not.
Writable == [kind : Kinds, no : 1..2]
Written == UNION {[1..n -> Writable] : n \in 0..MaxReply}

-----------------------------------------------------------------------------
TypeOK ==
    /\ conf \in [Roles -> Providers]
    /\ installed \subseteq Providers
    /\ pc \in [Calls -> {"idle", "trying", "fallback", "done"}]
    /\ role \in [Calls -> {"primary", "verifier"}]
    /\ prompt \in [Calls -> Prompts \cup {<<>>}]
    /\ tries \in [Calls -> 0..MaxRetries]
    /\ answered \in [Calls -> Providers \cup {"error", Unanswered}]
    /\ reply \in [Calls -> Seq(Readable)]
    /\ sent \subseteq [call : Calls, to : Providers, text : Seq(Readable)]
    /\ metered \in Nat

Init ==
    /\ conf \in {f \in [Roles -> Providers] : ValidSettings(f)}
    /\ installed \in {s \in SUBSET Providers : "fake" \in s}
    /\ pc = [c \in Calls |-> "idle"]
    /\ role = [c \in Calls |-> "primary"]
    /\ prompt = [c \in Calls |-> <<>>]
    /\ tries = [c \in Calls |-> 0]
    /\ answered = [c \in Calls |-> Unanswered]
    /\ reply = [c \in Calls |-> <<>>]
    /\ sent = {}
    /\ metered = 0

-----------------------------------------------------------------------------
\* primary.name: the provider of the call's role.
Own(c) == conf[role[c]]

\* Masking is left out for FakeLLM, and stays as it is for the fallback.
Masks(c) == Own(c) # "fake"

\* Mutant: the fallback is given the prompt as the agent wrote it.
OutgoingOpen(c, to) == IF Masks(c) /\ to = Own(c) THEN Masked(prompt[c]) ELSE prompt[c]

\* masked_user
Outgoing(c, to) == IF Masks(c) THEN Masked(prompt[c]) ELSE prompt[c]

\* Mutant: one fallback for every role.
FallbackShared(c) == conf["fallback"]

\* fallback_name
Fallback(c) ==
    IF role[c] = "verifier" THEN conf["verifier_fallback"] ELSE conf["fallback"]

\* What the agent is given of what the model wrote.
Handed(c, r) == IF Masks(c) THEN Unmasked(prompt[c], r) ELSE r

\* What may come back: FakeLLM repeats what it saw, another model writes anything.
Replies(c, to) ==
    IF to = "fake" /\ ~ Masks(c) THEN {prompt[c]} ELSE Written

\* get_llm stands before the try: a client that cannot be constructed ends
\* the call without a retry and without the fallback.
Ask(c, r, p) ==
    /\ pc[c] = "idle"
    /\ role' = [role EXCEPT ![c] = r]
    /\ prompt' = [prompt EXCEPT ![c] = p]
    /\ IF conf[r] \in installed
       THEN /\ pc' = [pc EXCEPT ![c] = "trying"]
            /\ UNCHANGED answered
       ELSE /\ pc' = [pc EXCEPT ![c] = "done"]
            /\ answered' = [answered EXCEPT ![c] = "error"]
    /\ UNCHANGED <<conf, installed, tries, reply, sent, metered>>

\* One provider call that returns: metrics, cost, unmasking.
Answer(c, to) ==
    /\ sent' = sent \cup {[call |-> c, to |-> to, text |-> Outgoing(c, to)]}
    /\ \E r \in Replies(c, to) : reply' = [reply EXCEPT ![c] = Handed(c, r)]
    /\ answered' = [answered EXCEPT ![c] = to]
    /\ metered' = metered + 1
    /\ pc' = [pc EXCEPT ![c] = "done"]
    /\ UNCHANGED <<conf, installed, role, prompt, tries>>

\* One provider call that raises after the prompt has left.
Raise(c, to) ==
    /\ sent' = sent \cup {[call |-> c, to |-> to, text |-> Outgoing(c, to)]}
    /\ UNCHANGED <<conf, installed, role, prompt, reply, metered>>

AttemptAnswers(c) ==
    /\ pc[c] = "trying"
    /\ Answer(c, Own(c))

\* stop_after_attempt
Exhausted(c) == tries[c] + 1 = MaxRetries

AttemptRaises(c) ==
    /\ pc[c] = "trying"
    /\ Raise(c, Own(c))
    /\ tries' = [tries EXCEPT ![c] = @ + 1]
    /\ pc' = [pc EXCEPT ![c] = IF Exhausted(c) THEN "fallback" ELSE "trying"]
    /\ UNCHANGED answered

\* The exception reaches the agent: the fallback is the provider that failed,
\* or its client cannot be constructed.
NoFallback(c) ==
    /\ pc[c] = "fallback"
    /\ Fallback(c) = Own(c) \/ Fallback(c) \notin installed
    /\ pc' = [pc EXCEPT ![c] = "done"]
    /\ answered' = [answered EXCEPT ![c] = "error"]
    /\ UNCHANGED <<conf, installed, role, prompt, tries, reply, sent, metered>>

MayFallBack(c) ==
    pc[c] = "fallback" /\ Fallback(c) # Own(c) /\ Fallback(c) \in installed

FallbackAnswers(c) ==
    /\ MayFallBack(c)
    /\ Answer(c, Fallback(c))

\* The fallback is asked once.
FallbackRaises(c) ==
    /\ MayFallBack(c)
    /\ Raise(c, Fallback(c))
    /\ answered' = [answered EXCEPT ![c] = "error"]
    /\ pc' = [pc EXCEPT ![c] = "done"]
    /\ UNCHANGED tries

Step(c) ==
    \/ \E r \in {"primary", "verifier"}, p \in Prompts : Ask(c, r, p)
    \/ AttemptAnswers(c)
    \/ AttemptRaises(c)
    \/ NoFallback(c)
    \/ FallbackAnswers(c)
    \/ FallbackRaises(c)

Next == \E c \in Calls : Step(c)

Spec == Init /\ [][Next]_vars

-----------------------------------------------------------------------------
\* Personal data stays here: only FakeLLM ever reads a prompt as it was
\* written, whichever provider answers in the end (complete_with_fallback,
\* mask_pii).  A call FakeLLM was asked first is not masked at all, for its
\* fallback neither: README, section 5.
OnlyMaskedLeaves ==
    \A e \in sent :
        e.to # "fake" /\ Masks(e.call) => \A i \in DOMAIN e.text : e.text[i] \in Placeholder

\* The agent reads no placeholder it could not have resolved: what is left of
\* them in an answer was invented by the model (unmask_pii on both paths).
AnswersRestored ==
    \A c \in Calls : Masks(c) =>
        \A i \in DOMAIN reply[c] : reply[c][i] \notin ToSet(Masked(prompt[c]))

\* Both ways of the masker at once: nothing personal goes out, nothing masked
\* comes back (complete_with_fallback, mask_pii, unmask_pii).
PersonalDataKept == OnlyMaskedLeaves /\ AnswersRestored

\* The primary's provider answers a verifier's question.
ChecksItself(c) ==
    role[c] = "verifier" /\ answered[c] = conf["primary"] /\ answered[c] # "fake"

\* The primary's provider does not check its own work unless the settings name
\* it as the verifier's fallback (complete_with_fallback,
\* _verifier_must_differ_in_real_mode).  That they may is against what
\* router.py:159-160 and settings.py:53-57 say: README, section 5.
VerifierApart ==
    \A c \in Calls : ChecksItself(c) => conf["verifier_fallback"] = conf["primary"]

=============================================================================
