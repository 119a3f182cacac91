----------------------------- MODULE OfferFlow ------------------------------
(***************************************************************************)
(* What happens to the money in the answers of the suppliers, from the     *)
(* parsed offers to the final report: negotiator_node bargains over them   *)
(* one by one, verifier_node scores them one by one, reporter_node ranks   *)
(* them (agents/negotiator.py, agents/verifier.py, agents/reporter.py).    *)
(*                                                                         *)
(* Sums are whole kopecks, discounts and scores whole percents.  A float   *)
(* rounded to two digits is the nearest kopeck; at a tie either neighbour, *)
(* since the binary fraction may lie on either side.  One run: what other  *)
(* runs and crashes do is in LotPipeline.                                  *)
(***************************************************************************)
EXTENDS Integers, Sequences, FiniteSets, FiniteSetsExt

CONSTANTS
    MaxOffers,   \* bound: answers of one lot
    Prices,      \* totals a supplier may ask
    Discounts,   \* discounts the LLM may suggest, in percent, any number
    Scores,      \* confidence_score the LLM may answer, in percent, any number
    ShownOffers,   \* offers the report shows, 3 in the code
    Typicals,    \* qty * typical_price summed over the lot's items
    Nothing

ASSUME PricesAssumption == Prices \subseteq Nat /\ Typicals \subseteq Nat
ASSUME AnswersAssumption == Discounts \subseteq Int /\ Scores \subseteq Int
ASSUME NothingAssumption == Nothing \notin Int /\ Nothing \notin [initial : Nat, final : Nat]
ASSUME BoundsAssumption == MaxOffers \in Nat /\ ShownOffers \in Nat

VARIABLES
    node,         \* the node at work
    i,          \* position in its loop over the answers
    parsed,     \* rfq_emails.parsed_offer of each answer, in list order
    offer,      \* responses[i]["offer"], replaced by a discounted copy
    skipped,    \* answers audited as skip_competitive
    rounds,     \* negotiations row of each answer: initial and final total
    answered,   \* confidence_score as the LLM gave it (audit_log, check_offer)
    score,      \* confidence_score as the code took it (verifications)
    typical,    \* typical_total
    report      \* top_3 and savings of final_report

flowVars == <<node, i, parsed, offer, skipped, rounds, answered, score, typical, report>>

Answers == DOMAIN parsed

Round == [initial : Nat, final : Nat]
Row == [who : 1..MaxOffers, total : Nat, score : Int]
Report == [top : Seq(Row), savings : Nat]

FlowTypeOK ==
    /\ node \in {"bargain", "verify", "report", "done"}
    /\ i \in 1..MaxOffers + 1
    /\ parsed \in UNION {[1..n -> Prices] : n \in 0..MaxOffers}
    /\ offer \in [Answers -> Nat]
    /\ skipped \subseteq Answers
    /\ rounds \in [Answers -> Round \cup {Nothing}]
    /\ answered \in [Answers -> Scores \cup {Nothing}]
    /\ score \in [Answers -> Int]
    /\ typical \in Typicals
    /\ report = Nothing \/ report \in Report

FlowInit ==
    /\ node = "bargain"
    /\ i = 1
    /\ parsed \in UNION {[1..n -> Prices] : n \in 0..MaxOffers}
    /\ offer = parsed
    /\ skipped = {}
    /\ rounds = [a \in Answers |-> Nothing]
    /\ answered = [a \in Answers |-> Nothing]
    /\ score = [a \in Answers |-> 0]
    /\ typical \in Typicals
    /\ report = Nothing

-----------------------------------------------------------------------------
(***************************************************************************)
(* negotiator_node                                                         *)
(***************************************************************************)

\* Whole numbers that round(num / den) may be.
Nearest(num, den) ==
    LET low == num \div den
    IN  {n \in {low, low + 1} : 2 * (n * den - num) \in -den..den}

\* Mutant: no upper bound.
ClampBelow(d) == IF d < 0 THEN 0 ELSE d

\* min(12.0, max(0.0, target_discount))
Clamp(d) == IF d < 0 THEN 0 ELSE IF d > 12 THEN 12 ELSE d

\* Mutant: the minimum of the offers as they stand now.
MinTotalNow == Min({offer[a] : a \in Answers})

\* min_total, taken once before the loop replaces any offer
MinTotal == Min({parsed[a] : a \in Answers})

\* already_within_5pct_of_min
Competitive(a) == 100 * offer[a] <= 105 * MinTotal

\* Mutant: the offer is discounted in place.
RoundInPlace(old, new) == [initial |-> new, final |-> new]

\* initial_offer and final_offer of NegotiationRepo.create
RoundRow(old, new) == [initial |-> old, final |-> new]

\* No answers, or the regulatory filter says no: on to the verifier.
NoBargaining ==
    /\ node = "bargain"
    /\ i = 1
    /\ node' = "verify"
    /\ UNCHANGED <<i, parsed, offer, skipped, rounds, answered, score, typical, report>>

SkipCompetitive ==
    /\ node = "bargain"
    /\ i \in Answers
    /\ Competitive(i)
    /\ skipped' = skipped \cup {i}
    /\ i' = i + 1
    /\ UNCHANGED <<node, parsed, offer, rounds, answered, score, typical, report>>

\* The suggestion is clamped; zero leaves the offer as it is.
NoDiscount(d) ==
    /\ node = "bargain"
    /\ i \in Answers
    /\ ~ Competitive(i)
    /\ Clamp(d) = 0
    /\ i' = i + 1
    /\ UNCHANGED <<node, parsed, offer, skipped, rounds, answered, score, typical, report>>

\* The row keeps the offer as it was; the list gets a discounted copy.
Discount(d) ==
    /\ node = "bargain"
    /\ i \in Answers
    /\ ~ Competitive(i)
    /\ Clamp(d) # 0
    /\ \E new \in Nearest(offer[i] * (100 - Clamp(d)), 100) :
          /\ rounds' = [rounds EXCEPT ![i] = RoundRow(offer[i], new)]
          /\ offer' = [offer EXCEPT ![i] = new]
    /\ i' = i + 1
    /\ UNCHANGED <<node, parsed, skipped, answered, score, typical, report>>

BargainingDone ==
    /\ node = "bargain"
    /\ i \notin Answers
    /\ node' = "verify"
    /\ i' = 1
    /\ UNCHANGED <<parsed, offer, skipped, rounds, answered, score, typical, report>>

-----------------------------------------------------------------------------
(***************************************************************************)
(* verifier_node and reporter_node                                         *)
(***************************************************************************)

\* check.get("confidence_score") or 0.5: a missing score and a zero alike.
ScoreOf(c) == IF c \in {Nothing, 0} THEN 50 ELSE c

Check(c) ==
    /\ node = "verify"
    /\ i \in Answers
    /\ answered' = [answered EXCEPT ![i] = c]
    /\ score' = [score EXCEPT ![i] = ScoreOf(c)]
    /\ i' = i + 1
    /\ UNCHANGED <<node, parsed, offer, skipped, rounds, typical, report>>

VerifyingDone ==
    /\ node = "verify"
    /\ i \notin Answers
    /\ node' = "report"
    /\ UNCHANGED <<i, parsed, offer, skipped, rounds, answered, score, typical, report>>

\* Mutant: the confidence without its sign.
BeforeAscending(a, b) ==
    \/ score[a] < score[b]
    \/ score[a] = score[b] /\ offer[a] < offer[b]
    \/ score[a] = score[b] /\ offer[a] = offer[b] /\ a < b

\* The sort key (-confidence, total); sorted() is stable.
Before(a, b) ==
    \/ score[a] > score[b]
    \/ score[a] = score[b] /\ offer[a] < offer[b]
    \/ score[a] = score[b] /\ offer[a] = offer[b] /\ a < b

\* How many come before an answer.
Place(a) == Cardinality({b \in Answers : Before(b, a)})

Ranked == [k \in Answers |-> CHOOSE a \in Answers : Place(a) = k - 1]

Top == SubSeq(Ranked, 1, Min({ShownOffers, Len(Ranked)}))

\* best_total is 0 when there is no offer.
Savings(best) == IF typical > best THEN typical - best ELSE 0

BuildReport ==
    /\ node = "report"
    /\ report' =
          [top |-> [k \in DOMAIN Top |->
                       [who |-> Top[k], total |-> offer[Top[k]], score |-> score[Top[k]]]],
           savings |-> Savings(IF Top = <<>> THEN 0 ELSE offer[Top[1]])]
    /\ node' = "done"
    /\ UNCHANGED <<i, parsed, offer, skipped, rounds, answered, score, typical>>

FlowNext ==
    \/ NoBargaining \/ SkipCompetitive \/ BargainingDone
    \/ \E d \in Discounts \cup {5} : NoDiscount(d) \/ Discount(d)   \* 5: the LLM failed
    \/ \E c \in Scores \cup {Nothing} : Check(c)
    \/ VerifyingDone \/ BuildReport

FlowSpec == FlowInit /\ [][FlowNext]_flowVars

-----------------------------------------------------------------------------
\* Whatever the LLM suggests, a round takes at most 12% off and adds nothing,
\* up to the rounding of half a kopeck (the clamp of negotiator_node, under the
\* 20% that docs/prompts/negotiator.md forbids to pass).
FloorKept ==
    \A a \in Answers : rounds[a] # Nothing =>
        /\ rounds[a].final <= rounds[a].initial
        /\ 200 * rounds[a].final >= 176 * rounds[a].initial - 100

\* Nobody is asked for a discount while a dearer offer is spared, in whatever
\* order the answers stand in the list and however far a discount undercut the
\* lowest offer meanwhile (min_total is taken once).
DearerNotSpared ==
    \A a, b \in Answers :
        a \in skipped /\ parsed[b] <= parsed[a] => rounds[b] = Nothing

\* The three records of a price agree: the total of a report row is the final
\* offer of that supplier's negotiation, or, when there was none, the offer
\* stored with the incoming e-mail; and the negotiation started from that one
\* (negotiator.py copies the offer before it changes the total).
PricesTraceable ==
    /\ \A a \in Answers : rounds[a] # Nothing => rounds[a].initial = parsed[a]
    /\ report # Nothing =>
          \A k \in DOMAIN report.top :
              LET a == report.top[k].who
              IN  report.top[k].total =
                     (IF rounds[a] = Nothing THEN parsed[a] ELSE rounds[a].final)

\* The report leaves out no offer that beats one it shows, shows none twice, and
\* ShownOffers when there are as many; and the offers the verifier's LLM gave a
\* confidence other than zero, which counts as a missing one, stand in the order
\* it gave (reporter_node's sort and cut, verifier_node's default).
TopIsBest ==
    report # Nothing =>
        LET shown == {report.top[k].who : k \in DOMAIN report.top}
            given(k) == answered[report.top[k].who]
        IN  /\ Cardinality(shown) = Len(report.top)
            /\ Len(report.top) = ShownOffers \/ shown = Answers
            /\ \A a \in shown, b \in Answers \ shown :
                  \/ score[a] > score[b]
                  \/ score[a] = score[b] /\ offer[a] <= offer[b]
            /\ \A k, l \in DOMAIN report.top :
                  k < l /\ {given(k), given(l)} \cap {Nothing, 0} = {} => given(k) >= given(l)

=============================================================================
