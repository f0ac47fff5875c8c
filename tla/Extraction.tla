----------------------------- MODULE Extraction ------------------------------
(***************************************************************************)
(* internal/extractor: what a fetched page says.  A page is its tree of    *)
(* nodes in document order, each with its depth; a text is a sequence of   *)
(* characters in which " " is a run of white space.  The inputs grow by    *)
(* one node, header segment or word a step.                                *)
(***************************************************************************)
EXTENDS Naturals, FiniteSets, Sequences, SequencesExt

CONSTANTS MaxNodes, MaxTextChars, MaxStructuredItems, MaxItemChars,
          MaxChars, MaxPassages,    \* PassageConfig
          NodeKinds,                \* nodes without their depth
          PageBound, HeaderBound, WordBound, WordLengths    \* bounds of the inputs

ASSUME ExtractionAssumptions ==
    \A n \in {MaxNodes, MaxTextChars, MaxStructuredItems, MaxItemChars, MaxChars, MaxPassages} :
        n \in Nat \ {0}

-----------------------------------------------------------------------------
(* Nodes: [depth, tag, hide, data]; tag "#text" is a text node, hide stands *)
(* for the attributes and styles that hide, data for the text, the tokens   *)
(* of a robots meta or the target of a canonical link.                      *)

HiddenTags == {"script", "style", "noscript", "template", "svg", "canvas", "nav", "footer", "form",
               "button", "select", "option"}
MetadataTags == {"head", "script", "style", "noscript", "template", "svg", "canvas"}
isHiddenElement(n) == n.tag \in HiddenTags \/ n.hide

cutRunes(s, max) == IF Len(s) <= max THEN s ELSE SubSeq(s, 1, max)
Blank(s) == \A i \in 1..Len(s) : s[i] = " "
\* normalizeSpace of a text whose inner runs of space are already one " ".
normalizeSpace(s) == IF Blank(s) THEN <<>> ELSE
    LET ink == {i \in 1..Len(s) : s[i] # " "}
        first == CHOOSE i \in ink : \A j \in ink : i <= j
        last == CHOOSE i \in ink : \A j \in ink : j <= i
    IN SubSeq(s, first, last)
Joined(parts) == FoldLeft(LAMBDA s, p : IF s = <<>> THEN p ELSE s \o <<" ">> \o p, <<>>, parts)

Subtree(nodes, i) == {j \in (i + 1)..Len(nodes) : \A k \in (i + 1)..j : nodes[k].depth > nodes[i].depth}
\* descendantText stops after the node that carries it over the limit.
descendantText(nodes, i, limit) ==
    FoldLeft(LAMBDA s, j : IF j \in Subtree(nodes, i) /\ nodes[j].tag = "#text" /\ Len(s) <= limit
                           THEN s \o nodes[j].data ELSE s,
             <<>>, [j \in 1..Len(nodes) |-> j])

applyRobots(dst, tokens) ==
    [NoIndex  |-> dst.NoIndex  \/ \E t \in tokens : t \in {"noindex", "none"},
     NoFollow |-> dst.NoFollow \/ \E t \in tokens : t \in {"nofollow", "none"}]
NoDirectives == [NoIndex |-> FALSE, NoFollow |-> FALSE]

\* ResolveCanonical: a link that is not an absolute http URL once resolved is kept raw.
ResolveCanonical(target) ==
    [raw |-> target, valid |-> target \in {"same", "other"}, sameHost |-> target = "same"]
NoCanonical == [raw |-> "", valid |-> FALSE, sameHost |-> FALSE]

EmptyDocument == [title |-> <<>>, canonical |-> NoCanonical, robots |-> NoDirectives,
                  text |-> <<>>, structured |-> <<>>, truncated |-> FALSE]

\* One element: what it says of the page.
Element(doc, nodes, i) == LET n == nodes[i] IN
    CASE n.tag = "title" /\ doc.title = <<>> ->
           [doc EXCEPT !.title = normalizeSpace(descendantText(nodes, i, 4096))]
      [] n.tag = "meta" -> [doc EXCEPT !.robots = applyRobots(@, n.data)]
      [] n.tag = "link" /\ doc.canonical.raw = "" -> [doc EXCEPT !.canonical = ResolveCanonical(n.data)]
      [] n.tag = "script" ->
           LET raw == normalizeSpace(descendantText(nodes, i, MaxItemChars + 1)) IN
           IF raw = <<>> THEN doc
           ELSE IF Len(raw) > MaxItemChars \/ Len(doc.structured) >= MaxStructuredItems
                THEN [doc EXCEPT !.truncated = TRUE]
           ELSE [doc EXCEPT !.structured = Append(@, raw)]
      [] OTHER -> doc

\* Mutant of Hides: only the element itself hides its text.
HidesAlone(nodes, flags, i) == isHiddenElement(nodes[i])
\* walk(c, hidden): an element hands the flag down to its children.
Hides(nodes, flags, i) ==
    isHiddenElement(nodes[i]) \/ (nodes[i].depth > 0 /\ flags[nodes[i].depth].hidden)
isMetadata(nodes, flags, i) ==
    nodes[i].tag \in MetadataTags \/ (nodes[i].depth > 0 /\ flags[nodes[i].depth].metadata)

\* walk: flags[d + 1] are those of the open element at depth d.
Walk(s, nodes, i) == LET n == nodes[i] IN
    IF n.tag # "#text"
    THEN [s EXCEPT !.doc = Element(@, nodes, i),
                   !.flags = SubSeq(@, 1, n.depth) \o
                       <<[hidden |-> Hides(nodes, s.flags, i), metadata |-> isMetadata(nodes, s.flags, i)]>>]
    ELSE LET part == cutRunes(normalizeSpace(n.data), MaxTextChars - s.chars) IN
         IF n.depth > 0 /\ (s.flags[n.depth].hidden \/ s.flags[n.depth].metadata) THEN s
         ELSE IF s.chars >= MaxTextChars \/ part = <<>> THEN s
         ELSE [s EXCEPT !.parts = Append(@, part), !.chars = @ + Len(part)]

ParsePage(nodes) ==
    LET end == FoldLeft(LAMBDA s, i : Walk(s, nodes, i),
                        [doc |-> EmptyDocument, flags |-> <<>>, parts |-> <<>>, chars |-> 0],
                        [i \in 1..Len(nodes) |-> i])
    IN IF Len(nodes) > MaxNodes THEN EmptyDocument
       ELSE [end.doc EXCEPT !.text = cutRunes(normalizeSpace(Joined(end.parts)), MaxTextChars)]

-----------------------------------------------------------------------------
(* X-Robots-Tag: a value is a sequence of segments [agent, tokens]; a name  *)
(* before a colon holds for the rest of its value.                          *)

\* Mutant of Segment: a segment without a name is for every robot.
SegmentForAll(s, seg) == [agent |-> seg.agent,
    out |-> IF seg.agent \in {"", "poiskbot", "*"} THEN applyRobots(s.out, seg.tokens) ELSE s.out]
Segment(s, seg) == LET agent == IF seg.agent # "" THEN seg.agent ELSE s.agent IN
    [agent |-> agent, out |-> IF agent \in {"", "poiskbot", "*"} THEN applyRobots(s.out, seg.tokens) ELSE s.out]
RobotsFromHeaders(values) ==
    FoldLeft(LAMBDA out, v : FoldLeft(Segment, [agent |-> "", out |-> out], v).out, NoDirectives, values)
MergeRobots(base, extra) == [NoIndex  |-> base.NoIndex \/ extra.NoIndex,
                             NoFollow |-> base.NoFollow \/ extra.NoFollow]

-----------------------------------------------------------------------------
(* Passages of a text given as words; a character is <<word, position>>.    *)

Flush(s) == IF s.current = <<>> \/ s.done THEN s
            ELSE [out |-> Append(s.out, s.current), current |-> <<>>,
                  done |-> Len(s.out) + 1 >= MaxPassages]
\* A piece of a word longer than a passage is a passage of its own.
Piece(s, piece) == LET f == Flush(s) IN
    IF f.done THEN f ELSE [out |-> Append(f.out, piece), current |-> <<>>, done |-> Len(f.out) + 1 >= MaxPassages]

\* Mutant of Fits: the space between two words is not counted.
FitsWithoutSpace(s, rest) == s.current = <<>> \/ Len(s.current) + Len(rest) <= MaxChars
Fits(s, rest) == s.current = <<>> \/ Len(s.current) + 1 + Len(rest) <= MaxChars
AddWord(s, word) ==
    LET full == (Len(word) - 1) \div MaxChars
        pieces == [k \in 1..full |-> SubSeq(word, (k - 1) * MaxChars + 1, k * MaxChars)]
        chopped == FoldLeft(Piece, s, pieces)
        rest == SubSeq(word, full * MaxChars + 1, Len(word))
        room == IF Fits(chopped, rest) THEN chopped ELSE Flush(chopped)
    IN IF s.done \/ room.done THEN room
       ELSE [room EXCEPT !.current = IF @ = <<>> THEN rest ELSE @ \o <<" ">> \o rest]
SplitPassages(words) ==
    Flush(FoldLeft(AddWord, [out |-> <<>>, current |-> <<>>, done |-> FALSE], words)).out

-----------------------------------------------------------------------------
(* The inputs.                                                             *)

VARIABLES page, headers, words
extractionVars == <<page, headers, words>>
Leaves == {"#text", "meta", "link"}
Segments == [agent : {"", "poiskbot", "other"}, tokens : {{"noindex"}, {"nofollow"}}]

ExtractionInit == page = <<>> /\ headers = <<>> /\ words = <<>>
AddNode == \E k \in NodeKinds, d \in 0..PageBound :
    /\ Len(page) < PageBound /\ words = <<>> /\ headers = <<>>
    /\ IF page = <<>> THEN d = 0
       ELSE d <= IF Last(page).tag \in Leaves THEN Last(page).depth ELSE Last(page).depth + 1
    /\ page' = Append(page, [depth |-> d, tag |-> k.tag, hide |-> k.hide, data |-> k.data])
    /\ UNCHANGED <<headers, words>>
AddHeader == \E seg \in Segments :
    /\ Len(page) < 2 /\ words = <<>> /\ Len(headers) < HeaderBound
    /\ headers' = Append(headers, <<seg>>)
    /\ UNCHANGED <<page, words>>
AddSegment == \E seg \in Segments :
    /\ Len(page) < 2 /\ words = <<>> /\ headers # <<>> /\ Len(Last(headers)) < HeaderBound
    /\ headers' = Append(Front(headers), Append(Last(headers), seg))
    /\ UNCHANGED <<page, words>>
AddNextWord == \E l \in WordLengths :
    /\ page = <<>> /\ headers = <<>> /\ Len(words) < WordBound
    /\ words' = Append(words, [p \in 1..l |-> <<Len(words) + 1, p>>])
    /\ UNCHANGED <<page, headers>>
ExtractionNext == AddNode \/ AddHeader \/ AddSegment \/ AddNextWord

-----------------------------------------------------------------------------
Ancestors(i) == {j \in 1..(i - 1) : i \in Subtree(page, j)}
VisibleTexts == SelectSeq([i \in 1..Len(page) |-> i], LAMBDA i :
    /\ page[i].tag = "#text" /\ ~Blank(page[i].data)
    /\ \A j \in Ancestors(i) : ~isHiddenElement(page[j]) /\ page[j].tag \notin MetadataTags)

(* The indexed text is what a reader sees: the texts outside every hidden  *)
(* or metadata element at any height, in order, up to the limit (but for a *)
(* space at the cut).  The title is the first that is not blank.           *)
ExtractedIsVisible == Len(page) <= MaxNodes =>
    LET seen == Joined([n \in 1..Len(VisibleTexts) |-> normalizeSpace(page[VisibleTexts[n]].data)])
        titles == {i \in 1..Len(page) : page[i].tag = "title" /\ \E j \in Subtree(page, i) : page[j].tag = "#text" /\ ~Blank(page[j].data)}
    IN /\ normalizeSpace(ParsePage(page).text) = normalizeSpace(cutRunes(seen, MaxTextChars))
       /\ (ParsePage(page).title = <<>>) = (titles = {})

(* A page is kept out of the index exactly when its own meta, anywhere in  *)
(* the tree, or a header segment under this robot's or no name says so.    *)
DirectivesHeeded ==
    LET merged == MergeRobots(ParsePage(page).robots, RobotsFromHeaders(headers))
        says(tokens) == tokens \cap {"noindex", "none"} # {}
        named(v, k) == {j \in 1..k : v[j].agent # ""}
        ours(v, k) == named(v, k) = {} \/ \E j \in named(v, k) :
                          v[j].agent \in {"poiskbot", "*"} /\ \A i \in named(v, k) : i <= j
    IN Len(page) <= MaxNodes =>
       (merged.NoIndex <=>
           \/ \E i \in 1..Len(page) : page[i].tag = "meta" /\ says(page[i].data)
           \/ \E h \in 1..Len(headers) : \E k \in 1..Len(headers[h]) :
                  says(headers[h][k].tokens) /\ ours(headers[h], k))

(* Passages partition the text: none is longer than the limit, their order *)
(* is the text's, and a character is missing only after the last passage   *)
(* the limit allows.                                                       *)
PassagesCoverText ==
    LET out == SplitPassages(words)
        all == FlattenSeq(words)
        got == SelectSeq(FlattenSeq(out), LAMBDA c : c # " ")
    IN /\ Len(out) <= MaxPassages /\ \A i \in 1..Len(out) : Len(out[i]) \in 1..MaxChars
       /\ got = SubSeq(all, 1, Len(got))
       /\ Len(out) < MaxPassages => got = all

(* What goes to the index is what the page says: its visible text, its     *)
(* directives and its passages (html.go, robots.go, passages.go).          *)
ExtractionIsFaithful == ExtractedIsVisible /\ DirectivesHeeded /\ PassagesCoverText
=============================================================================
