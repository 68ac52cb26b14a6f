---------------------------- MODULE MCAlgorithms ----------------------------
(***************************************************************************)
(* The algorithms of the system over bounded inputs: each behaviour takes  *)
(* one input of one algorithm and computes its output.                     *)
(***************************************************************************)
EXTENDS DocumentSplit, MarkdownImages, Ranking, Evidence, ItemAlignment, RequestLimits,
        EvaluationGates

CONSTANTS
    TextLength,   \* how many lines a text has at most
    ListLength,   \* how many results a search has at most
    ArrivalCount  \* how many calls arrive at most

ApprovedMinimum == [pr |-> 2, release |-> 5]

VARIABLES input, output

----------------------------------------------------------------------------
LineForms == {[kind |-> "title", size |-> 1], [kind |-> "fence", size |-> 1],
              [kind |-> "text", size |-> 1], [kind |-> "text", size |-> 3]}

SplitInputs ==
    {[algorithm |-> "split", text |-> [i \in DOMAIN forms |->
        Line(forms[i].kind, i, forms[i].size)]] :
            forms \in SeqOf(LineForms, TextLength) \ {<<>>}}

Tokens == {Text("t"), Link("a", ""), Link("b", "")}

Uploads == SUBSET {"a", "b"}
TwoLines == {<<x, y>> : x, y \in SeqOf(Tokens, 3)}

ImageInputs ==
    {[algorithm |-> "images", text |-> lines, uploaded |-> uploaded] :
        lines \in TwoLines, uploaded \in Uploads}

Addresses(uploaded) == [file \in uploaded |-> IF file = "a" THEN "url-a" ELSE "url-b"]

Searches == {list \in SeqOf(1 .. 4, ListLength) : IsInjective(list)}

FusionInputs == {[algorithm |-> "fusion", lists |-> <<x, y>>] : x, y \in Searches}

Scored(scores) == [i \in DOMAIN scores |-> [key |-> i, score |-> scores[i], content |-> TRUE]]

(* What was merged carries the scores of the retrieval; a web result, the  *)
(* last one, has none.                                                     *)
CutoffInputs ==
    {[algorithm |-> "cutoff", scores |-> scores, fails |-> fails, web |-> web] :
        scores \in SeqOf({-8, 0, 3, 4, 8}, 5), fails \in BOOLEAN, web \in BOOLEAN}

RankedDocs(in) ==
    LET docs == MergeSources(Scored(in.scores), IF in.web THEN
                    <<[key |-> 0, score |-> NoScore, content |-> TRUE]>> ELSE <<>>)
        scores == [k \in 0 .. Len(in.scores) |-> IF k = 0 THEN 5 ELSE in.scores[k]]
    IN  Rerank(docs, scores, in.fails)

Rated == [size : {1, 4, 9}, score : {NoScore, -100, 19, 20, 100}]
Sizes == {1, 3}

EvidenceInputs ==
    {[algorithm |-> "evidence", docs |-> docs, history |-> history] :
        docs \in SeqOf(Rated, 3), history \in SeqOf(Sizes, 2)}

CatalogueItems == [item : {"x", "y"}, score : {59, 60, 85, 86}]
Matches == {list \in SeqOf(CatalogueItems, 2) :
                Len(list) = 2 => list[1].score >= list[2].score /\ list[1].item # list[2].item}
Found == [name : {"x", "y"}, matches : Matches]

AlignmentInputs ==
    {[algorithm |-> "alignment", results |-> results] : results \in SeqOf(Found, 2)}

LimitInputs == {[algorithm |-> "limits", gaps |-> gaps] : gaps \in SeqOf(0 .. 3, ArrivalCount)}

----------------------------------------------------------------------------
(* Six cases, one of each category, of which one is not approved or has    *)
(* the id of another, and responses of which one is not as it should be.   *)
Order == <<"fact", "permission_isolation", "prompt_injection", "unanswerable",
           "bad_citation", "table_image">>

Refused == {"permission_isolation", "prompt_injection", "unanswerable"}

Dataset(pending, same) ==
    [i \in DOMAIN Order |->
        [id |-> IF i = same THEN 1 ELSE i,
         category |-> Order[i],
         refuse |-> Order[i] \in Refused,
         status |-> IF i = pending THEN "needs_human_label" ELSE "approved"]]

Good(i) == [refused |-> Order[i] \in Refused, keywords |-> TRUE,
            citations |-> IF Order[i] \in Refused THEN {} ELSE {"expected"},
            isolated |-> TRUE, leak |-> FALSE, images |-> TRUE, error |-> FALSE,
            missing |-> FALSE, slow |-> FALSE]

Flawed(i) ==
    {[Good(i) EXCEPT !.missing = TRUE]}
    \cup {[Good(i) EXCEPT !.citations = c] : c \in SUBSET CitationKinds}
    \cup {[Good(i) EXCEPT !.refused = ~@], [Good(i) EXCEPT !.keywords = FALSE],
          [Good(i) EXCEPT !.isolated = FALSE], [Good(i) EXCEPT !.leak = TRUE],
          [Good(i) EXCEPT !.images = FALSE], [Good(i) EXCEPT !.error = TRUE],
          [Good(i) EXCEPT !.slow = TRUE]}

FlawedCases == UNION {{i} \X Flawed(i) : i \in DOMAIN Order}
GateOptions == [profile : Profiles, limit : {0, 4}, unapproved : BOOLEAN]

EvaluationInputs ==
    {[algorithm |-> "evaluation", cases |-> Dataset(pending, same), options |-> options,
      responses |-> [j \in DOMAIN Order |-> IF j = at[1] THEN at[2] ELSE Good(j)]] :
        at \in FlawedCases, pending \in 0 .. Len(Order), same \in {0, 2},
        options \in GateOptions}

----------------------------------------------------------------------------
Inputs == SplitInputs \cup ImageInputs \cup FusionInputs \cup CutoffInputs \cup EvidenceInputs
            \cup AlignmentInputs \cup LimitInputs \cup EvaluationInputs

Compute(in) ==
    CASE in.algorithm = "split" -> SplitDocument(in.text)
      [] in.algorithm = "images" -> ReplaceImages(in.text, <<"a", "b">>, Addresses(in.uploaded))
      [] in.algorithm = "fusion" -> Fuse(in.lists)
      [] in.algorithm = "cutoff" -> Cutoff(RankedDocs(in))
      [] in.algorithm = "evidence" -> <<Prompt(in.docs, in.history)>>
      [] in.algorithm = "alignment" -> <<Confirm(in.results)>>
      [] in.algorithm = "limits" -> PacedCalls(in.gaps)
      [] in.algorithm = "evaluation" -> <<RunPasses(in.cases, in.responses, in.options)>>

Init == input \in Inputs /\ output = <<>>

Run == output = <<>> /\ output' = Compute(input) /\ output' # <<>> /\ UNCHANGED input

Next == Run

Spec == Init /\ [][Next]_<<input, output>>

Done(algorithm) == input.algorithm = algorithm /\ output # <<>>

(* Splitting keeps all of the text in its order and every line under its   *)
(* own heading; chunks are neither too long for the model nor needlessly   *)
(* short.                                                                  *)
ChunksSound ==
    Done("split") =>
        /\ NothingLost(input.text, output)
        /\ UnderItsHeading(input.text, output)
        /\ SizeBounded(input.text, output)
        /\ NoFragments(output)

(* Putting the addresses of images into a text changes nothing else. *)
ImagesKeepText ==
    Done("images") => OnlyLinksChange(input.text, <<"a", "b">>, Addresses(input.uploaded))

(* The fusion agrees with the searches where they agree, and the cut after *)
(* the reranker keeps neither too little nor too much.                     *)
RankingSound ==
    /\ Done("fusion") => FusionAgrees(input.lists)
    /\ Done("cutoff") => CutoffBounded(RankedDocs(input), input.fails)

(* Prompt and citations agree, and the prompt keeps its budget. *)
EvidenceSound == Done("evidence") => EvidenceMatches(input.docs, input.history)

(* The items of a question are confirmed, asked about or not found rightly.*)
ItemsAligned == Done("alignment") => AlignmentSound(input.results)

(* The limiter of model calls keeps its limit in every span of a window    *)
(* and drops no call; the middleware's windows let no more through than    *)
(* the limit, the fixed ones of Redis twice the limit around their border. *)
LimitsKept ==
    Done("limits") =>
        /\ WindowsRespected(input.gaps)
        /\ NothingDropped(input.gaps)
        /\ TwiceAtTheBorder(input.gaps)

(* A passing gate vouches for every approved case. *)
GateSound ==
    Done("evaluation") => GateVouches(input.cases, input.responses, input.options)
============================================================================
