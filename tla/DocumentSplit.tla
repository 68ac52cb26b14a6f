--------------------------- MODULE DocumentSplit ---------------------------
(***************************************************************************)
(* How NodeDocumentSplit turns the Markdown text of a document into the    *)
(* chunks that are embedded and searched: sections by heading, long        *)
(* sections cut, short neighbours merged.                                  *)
(*                                                                         *)
(* The text is a sequence of lines [kind, id, size]: a heading, the fence  *)
(* of a code block or any other text.  A size stands for a number of       *)
(* characters; the line breaks between lines are not counted.              *)
(***************************************************************************)
EXTENDS Integers, Sequences, FiniteSets, SequencesExt

CONSTANTS
    MaxLength,   \* DEFAULT_MAX_CONTENT_LENGTH
    MinLength    \* MIN_CONTENT_LENGTH

ASSUME SplitAssumption ==
    MinLength \in Nat \ {0} /\ MaxLength \in Nat /\ MinLength < MaxLength

Line(kind, id, size) == [kind |-> kind, id |-> id, size |-> size]

Absent == Line("absent", 0, 0)        \* the key parent_title is not there
Untitled == Line("untitled", 0, 0)    \* the text before the first heading
NoHeading == Line("none", 0, 1)       \* "无标题"

SizeOf(lines) == FoldLeft(LAMBDA n, line : n + line.size, 0, lines)

Section(title, lines, parent, part) ==
    [title |-> title, lines |-> lines, parent |-> parent, part |-> part]

----------------------------------------------------------------------------
(* _flush_section: an empty buffer is skipped. *)
Flush(scan) ==
    IF scan.lines = <<>> THEN scan.sections
    ELSE Append(scan.sections, Section(scan.title, scan.lines, Absent, 0))

(* One line of _step_2_split_by_titles: a fence toggles the code block, a  *)
(* heading outside of it starts a section, the rest joins the section.     *)
ScanLine(scan, line) ==
    CASE line.kind = "fence" ->
            [scan EXCEPT !.code = ~@, !.lines = Append(@, line)]
      [] line.kind = "title" /\ ~scan.code ->
            [scan EXCEPT !.sections = Flush(scan), !.title = line, !.lines = <<line>>,
                         !.titles = @ + 1]
      [] OTHER ->
            [scan EXCEPT !.lines = Append(@, line)]

(* _step_2_split_by_titles and _step_3_handle_no_title: without any        *)
(* heading the whole text is one section.                                  *)
SplitByTitles(text) ==
    LET start == [sections |-> <<>>, title |-> Untitled, lines |-> <<>>, code |-> FALSE,
                  titles |-> 0]
        scan == FoldLeft(ScanLine, start, text)
    IN  IF scan.titles = 0 THEN <<Section(NoHeading, text, Absent, 0)>> ELSE Flush(scan)

----------------------------------------------------------------------------
(* RecursiveCharacterTextSplitter without overlap: it fills each piece as  *)
(* far as it can; a line longer than a piece stays whole.                  *)
PackLine(pieces, line, room) ==
    IF pieces # <<>> /\ SizeOf(Last(pieces)) + line.size <= room
    THEN Append(Front(pieces), Append(Last(pieces), line))
    ELSE Append(pieces, <<line>>)

Pieces(body, room) ==
    FoldLeft(LAMBDA pieces, line : PackLine(pieces, line, room), <<>>, body)

(* The body of a section without the heading it repeats. *)
Body(section) ==
    IF Head(section.lines) = section.title THEN Tail(section.lines) ELSE section.lines

Repeated(title) == IF title = Untitled THEN <<>> ELSE <<title>>

(* _split_long_section: pieces that carry their section's heading. *)
SplitLong(section) ==
    LET room == MaxLength - section.title.size
        pieces == Pieces(Body(section), room)
    IN  IF SizeOf(section.lines) <= MaxLength \/ room <= 0
        THEN <<section>>
        ELSE [i \in DOMAIN pieces |->
                Section(section.title, Repeated(section.title) \o pieces[i], section.title, i)]

----------------------------------------------------------------------------
\* mutant: whatever a merged section begins with is taken for its heading
ContinuationCut(section) == Tail(section.lines)

(* What is appended of a merged section: its leading parent title is not. *)
Continuation(section) ==
    IF section.parent \notin {Absent, Untitled} /\ Head(section.lines) = section.parent
    THEN Tail(section.lines)
    ELSE section.lines

(* Two sections without the key parent_title have the same parent too. *)
Mergeable(short, section) == SizeOf(short.lines) < MinLength /\ short.parent = section.parent

MergeInto(short, section) ==
    [short EXCEPT !.lines = @ \o Continuation(section),
                  !.part = IF section.part = 0 THEN @ ELSE section.part]

MergeNext(merged, section) ==
    IF merged # <<>> /\ Mergeable(Last(merged), section)
    THEN Append(Front(merged), MergeInto(Last(merged), section))
    ELSE Append(merged, section)

(* _merge_short_sections. *)
MergeShort(sections) == FoldLeft(MergeNext, <<>>, sections)

Extend(parts, section) == parts \o SplitLong(section)

(* _step_4_refine_chunks: cut, merge, and name a parent for every chunk. *)
Refine(sections) ==
    LET chunks == MergeShort(FoldLeft(Extend, <<>>, sections))
    IN  [i \in DOMAIN chunks |->
            [chunks[i] EXCEPT !.parent =
                IF @ \in {Absent, Untitled} THEN chunks[i].title ELSE @]]

SplitDocument(text) == Refine(SplitByTitles(text))

----------------------------------------------------------------------------
(* The headings of a text by the definition of Markdown: heading lines     *)
(* with an even number of fences before them.                              *)
IsHeading(text, i) ==
    /\ text[i].kind = "title"
    /\ Cardinality({j \in 1 .. i : text[j].kind = "fence"}) % 2 = 0

(* The last line up to i that satisfies P is a heading; none: the default. *)
HeadingAbove(lines, i, headings, default) ==
    LET above == {j \in 1 .. i : lines[j] \in headings}
    IN  IF above = {} THEN default ELSE lines[CHOOSE j \in above : \A k \in above : k <= j]

Headings(text) == {text[i] : i \in {j \in DOMAIN text : IsHeading(text, j)}}

(* No line of the document is lost, repeated or moved by cutting and       *)
(* merging, except that headings are repeated.                             *)
NothingLost(text, chunks) ==
    LET headings == Headings(text) \cup {NoHeading}
    IN  /\ \A i \in DOMAIN text : \E c \in DOMAIN chunks : Contains(chunks[c].lines, text[i])
        /\ \A c \in DOMAIN chunks :
            ToSet(chunks[c].lines) \subseteq ToSet(text) \cup {NoHeading}
        /\ \A c, d \in DOMAIN chunks :
            \A j \in DOMAIN chunks[c].lines, k \in DOMAIN chunks[d].lines,
               i, l \in DOMAIN text :
                /\ c < d \/ (c = d /\ j < k)
                /\ chunks[c].lines[j] = text[i] /\ text[i] \notin headings
                /\ chunks[d].lines[k] = text[l] /\ text[l] \notin headings
                => i < l

(* Whatever was cut or merged, a line of a chunk is preceded in that chunk *)
(* by the heading it stands under in the document.                         *)
UnderItsHeading(text, chunks) ==
    \A c \in DOMAIN chunks, i \in DOMAIN text : \A j \in DOMAIN chunks[c].lines :
        chunks[c].lines[j] = text[i] =>
            HeadingAbove(chunks[c].lines, j, Headings(text), Untitled)
                = HeadingAbove(text, i, Headings(text), Untitled)

(* A chunk is never larger than a full piece appended to a chunk that was  *)
(* still short, when no single line is too long for a piece.               *)
SizeBounded(text, chunks) ==
    LET headings == Headings(text) \cup {NoHeading}
    IN  (\A t \in headings, i \in DOMAIN text : t.size + text[i].size <= MaxLength)
            => \A c \in DOMAIN chunks : SizeOf(chunks[c].lines) < MinLength + MaxLength

(* Of two neighbouring pieces of one section the first is not short. *)
NoFragments(chunks) ==
    \A c \in 1 .. Len(chunks) - 1 :
        /\ chunks[c].part > 0
        /\ chunks[c + 1].part > 0
        /\ chunks[c].parent = chunks[c + 1].parent
        => SizeOf(chunks[c].lines) >= MinLength
============================================================================
