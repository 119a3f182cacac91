------------------------------- MODULE MCReruns -------------------------------
(***************************************************************************)
(* For TLC: a lot that is run twice, and the prices of one run.            *)
(* LotPipeline and OfferFlow share no state here, so each moves while the  *)
(* other rests.                                                            *)
(***************************************************************************)
EXTENDS LotPipeline, OfferFlow, TLC

CONSTANTS r1, r2, s1

VARIABLE which

rerunsVars == <<vars, flowVars, which>>

\* Runs are interchangeable; no property names one of them.
Symmetry == Permutations(Runs)

\* What the LLM may say: a markup, nothing, a little, more than allowed.
SuggestedDiscounts == {-3, 0, 1, 25}

RerunsInit ==
    /\ Init
    /\ FlowInit
    /\ which \in {"runs", "prices"}
    /\ which # "prices" => parsed = <<>>

RerunsNext ==
    \/ which = "runs" /\ Next /\ UNCHANGED <<flowVars, which>>
    \/ which = "prices" /\ FlowNext /\ UNCHANGED <<vars, which>>

RerunsSpec == RerunsInit /\ [][RerunsNext]_rerunsVars

=============================================================================
