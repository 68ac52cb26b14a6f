--------------------------- MODULE MarkdownImages ---------------------------
(***************************************************************************)
(* How NodeMdImg finds the images a Markdown text refers to and puts the   *)
(* address and the summary of each uploaded image in the place of its      *)
(* link.  A line is a sequence of tokens: a text, or the link to an image  *)
(* by its file name, with its address ("" while it is the local file).     *)
(***************************************************************************)
EXTENDS Integers, Sequences, FiniteSets, SequencesExt

CONSTANT Inside   \* <<n, m>>: file name n is a part of file name m

ASSUME InsideAssumption == \A pair \in Inside : Len(pair) = 2

Text(id) == [kind |-> "text", id |-> id, url |-> ""]
Link(file, url) == [kind |-> "image", id |-> file, url |-> url]

\* mutant: the pattern does not spell the name
SpellsAny(token, file) == token.kind = "image"

(* The pattern "!\[.*?\]\(.*?" + name + ".*?\)" of _find_image_in_md and   *)
(* _process_md_file: a link that spells the name, whatever precedes it.    *)
Spells(token, file) ==
    token.kind = "image" /\ (token.id = file \/ <<file, token.id>> \in Inside)

(* _step_2_scan_images: the image files that some line links to. *)
Targeted(text, file) == \E i \in DOMAIN text : \E j \in DOMAIN text[i] : Spells(text[i][j], file)

(* _merge_summary_and_url: of these, the ones that were uploaded. *)
ImageInfo(text, urls) == [file \in {f \in DOMAIN urls : Targeted(text, f)} |-> urls[file]]

(* One token of a substitution.  A match begins at the first link of the   *)
(* line that is not replaced yet and ends at the link that spells the name.*)
Substitute(image, scan, token) ==
    LET begun == scan.match # <<>> \/ token.kind = "image"
    IN  CASE Spells(token, image.id) -> [done |-> Append(scan.done, image), match |-> <<>>]
          [] begun /\ ~Spells(token, image.id) -> [scan EXCEPT !.match = Append(@, token)]
          [] OTHER -> [scan EXCEPT !.done = Append(@, token)]

ReplaceInLine(image, line) ==
    LET scan == FoldLeft(LAMBDA s, token : Substitute(image, s, token),
                         [done |-> <<>>, match |-> <<>>], line)
    IN  scan.done \o scan.match

(* _process_md_file, image by image in the order of the directory: an      *)
(* image that was not uploaded keeps its link.                             *)
ReplaceImages(text, files, urls) ==
    LET info == ImageInfo(text, urls)
    IN  FoldLeft(LAMBDA lines, file :
                    IF file \in DOMAIN info
                    THEN [i \in DOMAIN lines |-> ReplaceInLine(Link(file, info[file]), lines[i])]
                    ELSE lines,
                 text, files)

----------------------------------------------------------------------------
LinksIn(line) == {j \in DOMAIN line : line[j].kind = "image"}

(* In lines with at most one link, and with no file name a part of another,*)
(* exactly the links of the uploaded images change, each to its address.   *)
OnlyLinksChange(text, files, urls) ==
    (Inside = {} /\ \A i \in DOMAIN text : Cardinality(LinksIn(text[i])) <= 1)
        => ReplaceImages(text, files, urls) =
             [i \in DOMAIN text |-> [j \in DOMAIN text[i] |->
                LET token == text[i][j]
                IN  IF token.kind = "image" /\ token.id \in DOMAIN urls \cap Range(files)
                    THEN Link(token.id, urls[token.id]) ELSE token]]
============================================================================
