---------------------------- MODULE SitemapParser ----------------------------
(***************************************************************************)
(* internal/crawler/sitemap: the streaming parser.  A document is the      *)
(* sequence of tokens a strict XML decoder delivers, <<"start", name>>,    *)
(* <<"text", t>> and <<"end", name>>, properly nested; a blank text is "". *)
(* A location is the sequence of the chunks of text inside it.             *)
(***************************************************************************)
EXTENDS Naturals, FiniteSets, Sequences, SequencesExt

CONSTANTS ParserURLs,       \* MaxURLs
          ParserSitemaps,   \* MaxSitemaps
          ParserDepth,      \* MaxDepth
          ParserSize        \* MaxDecompressedBytes, in tokens

ASSUME ParserAssumptions ==
    /\ ParserURLs \in Nat \ {0} /\ ParserSitemaps \in Nat \ {0}
    /\ ParserDepth \in Nat /\ ParserSize \in Nat \ {0}

ParseFailed == [kind |-> "error", urls |-> <<>>, sitemaps |-> <<>>]
ParserStart == [kind |-> "", urls |-> <<>>, sitemaps |-> <<>>,
                inURL |-> FALSE, inSitemap |-> FALSE, inLoc |-> FALSE, text |-> <<>>]

\* countingReader: the read after the limit was reached fails, so a document
\* of exactly the limit is refused too.
TooLarge(doc) == Len(doc) >= ParserSize

StartElement(s, name) ==
    LET root == IF s.kind # "" THEN s.kind
                ELSE IF name \in {"urlset", "sitemapindex"} THEN name ELSE "error"
        opens == name = "loc" /\ (s.inURL \/ s.inSitemap)
    IN [s EXCEPT !.kind = root,
                 !.inURL = s.inURL \/ name = "url",
                 !.inSitemap = s.inSitemap \/ name = "sitemap",
                 !.inLoc = s.inLoc \/ opens,
                 !.text = IF opens THEN <<>> ELSE s.text]

CharData(s, t) == IF s.inLoc THEN [s EXCEPT !.text = IF t = "" THEN @ ELSE Append(@, t)] ELSE s

\* A location read: it belongs to the url or else to the sitemap around it,
\* which must be what the root promised, within the limit.
Location(s) ==
    CASE s.text = <<>> -> s
      [] s.text # <<>> /\ s.inURL ->
           IF s.kind # "urlset" \/ Len(s.urls) >= ParserURLs THEN [s EXCEPT !.kind = "error"]
           ELSE [s EXCEPT !.urls = Append(s.urls, s.text)]
      [] s.text # <<>> /\ ~s.inURL /\ s.inSitemap ->
           IF s.kind # "sitemapindex" \/ Len(s.sitemaps) >= ParserSitemaps
           THEN [s EXCEPT !.kind = "error"]
           ELSE [s EXCEPT !.sitemaps = Append(s.sitemaps, s.text)]
      [] OTHER -> s

EndElement(s, name) ==
    LET read == IF name = "loc" /\ s.inLoc
                THEN [Location(s) EXCEPT !.inLoc = FALSE, !.text = <<>>] ELSE s
    IN [read EXCEPT !.inURL = read.inURL /\ name # "url",
                    !.inSitemap = read.inSitemap /\ name # "sitemap"]

\* Mutant of ReadToken: the end of an element leaves the location open.
ReadTokenKeepingLoc(s, t) ==
    CASE t[1] = "start" -> StartElement(s, t[2])
      [] t[1] = "text" -> CharData(s, t[2])
      [] t[1] = "end" -> [EndElement(s, t[2]) EXCEPT !.inLoc = s.inLoc, !.text = s.text]

ReadToken(s, t) ==
    CASE t[1] = "start" -> StartElement(s, t[2])
      [] t[1] = "text" -> CharData(s, t[2])
      [] t[1] = "end" -> EndElement(s, t[2])

Parse(doc, depth) ==
    LET step(s, t) == IF s.kind = "error" THEN s ELSE ReadToken(s, t)
        end == FoldLeft(step, ParserStart, doc)
    IN IF depth > ParserDepth \/ TooLarge(doc) \/ end.kind \in {"", "error"} THEN ParseFailed
       ELSE [kind |-> end.kind, urls |-> end.urls, sitemaps |-> end.sitemaps]

=============================================================================
