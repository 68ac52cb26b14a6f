------------------------------ MODULE Evidence ------------------------------
(***************************************************************************)
(* What node_answer_output makes of the ranked documents: the evidence and *)
(* the citations, and the context and history of the prompt, as functions  *)
(* of the documents.  A document is the length of its entry in the prompt  *)
(* and its score, in hundredths, if it has one.                            *)
(***************************************************************************)
EXTENDS Integers, Sequences, FiniteSets, SequencesExt, Ranking

CONSTANTS
    MaxCitations,   \* citation_max_count
    MinScore,       \* answer_min_relevance_score, in hundredths
    Budget          \* answer_context_max_chars

ASSUME EvidenceAssumption == MaxCitations \in Nat \ {0} /\ Budget \in Nat

ScoresOf(docs) ==
    FoldLeft(LAMBDA scores, doc : IF doc.score = NoScore THEN scores ELSE Append(scores, doc.score),
             <<>>, docs)

Highest(scores) == CHOOSE s \in ToSet(scores) : \A r \in ToSet(scores) : r <= s
Sum(numbers) == FoldLeft(LAMBDA x, y : x + y, 0, numbers)

(* _prepare_evidence, _build_citations: at least one document, and one of  *)
(* them good enough when they have scores.  The confidence is kept between *)
(* 0 and 1 (here 300, the weights being 0.7 and 0.3 of a third).           *)
PrepareEvidence(all) ==
    LET docs == FirstOf(all, MaxCitations)
        scores == ScoresOf(docs)
        top == FirstOf(scores, 3)
        weighed == (21 * Highest(top) + (9 * Sum(top)) \div Len(top)) \div 10
        sufficient == docs # <<>> /\ (scores # <<>> => Highest(scores) >= MinScore)
    IN  [sufficient |-> sufficient,
         confidence |-> IF scores = <<>> THEN IF docs = <<>> THEN 0 ELSE 150
                        ELSE IF weighed < 0 THEN 0 ELSE IF weighed > 300 THEN 300 ELSE weighed,
         citations |-> IF sufficient THEN docs ELSE <<>>]

\* mutant: the separators are not counted
FormattedTight(entries, limits) ==
    FoldLeft(LAMBDA out, e :
                IF out.full \/ out.used + e > limits.budget THEN [out EXCEPT !.full = TRUE]
                ELSE [out EXCEPT !.used = @ + e, !.entries = Append(@, e)],
             [used |-> 0, full |-> FALSE, entries |-> <<>>], entries)

(* _format_docs and _format_history: as many entries as fit, each with its *)
(* separator, and none after the first that does not.                      *)
Formatted(entries, limits) ==
    FoldLeft(LAMBDA out, e :
                IF out.full \/ out.used + e > limits.budget THEN [out EXCEPT !.full = TRUE]
                ELSE [out EXCEPT !.used = @ + e + limits.separator, !.entries = Append(@, e)],
             [used |-> 0, full |-> FALSE, entries |-> <<>>], entries)

Remaining(out, budget) == IF out.used > budget THEN 0 ELSE budget - out.used

(* _construct_prompt: the documents first, the history in what they leave. *)
Prompt(all, history) ==
    LET sizes == [i \in DOMAIN FirstOf(all, MaxCitations) |-> all[i].size]
        context == Formatted(sizes, [separator |-> 2, budget |-> Budget])
        room == [separator |-> 1, budget |-> Remaining(context, Budget)]
    IN  [context |-> context.entries, history |-> Formatted(history, room).entries]

----------------------------------------------------------------------------
Joined(entries, separator) ==
    IF entries = <<>> THEN 0 ELSE Sum(entries) + separator * (Len(entries) - 1)

(* The prompt keeps its budget, separators and all; the n-th document in   *)
(* it is the n-th citation, so that [n] in the answer means what the model *)
(* was shown; without evidence nothing is cited, and with some documents,  *)
(* one of them good enough or none of them rated.                          *)
EvidenceMatches(all, history) ==
    LET evidence == PrepareEvidence(all)
        prompt == Prompt(all, history)
    IN  /\ Joined(prompt.context, 2) + Joined(prompt.history, 1) <= Budget
        /\ evidence.sufficient =>
            /\ \A i \in DOMAIN prompt.context : prompt.context[i] = evidence.citations[i].size
            /\ \/ \E i \in DOMAIN evidence.citations : evidence.citations[i].score >= MinScore
               \/ \A i \in DOMAIN evidence.citations : evidence.citations[i].score = NoScore
        /\ ~evidence.sufficient => evidence.citations = <<>>
        /\ evidence.confidence \in 0 .. 300
============================================================================
