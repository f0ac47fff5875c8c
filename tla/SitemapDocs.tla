---------------------------- MODULE SitemapDocs -----------------------------
(***************************************************************************)
(* What a sitemap document says, by position and without the parser's      *)
(* flags, and the documents the parser is checked on.                      *)
(***************************************************************************)
EXTENDS SitemapParser

Tags(doc, name, i) == {j \in 1..i : doc[j][1] # "text" /\ doc[j][2] = name}
Within(doc, name, i) == \E j \in Tags(doc, name, i) :
    doc[j][1] = "start" /\ \A k \in Tags(doc, name, i) : k <= j
\* The chunks of text since the last start of a location inside an entry.
LocationAt(doc, i) ==
    LET starts == {j \in 1..(i - 1) : /\ doc[j] = <<"start", "loc">>
                                     /\ \E n \in {"url", "sitemap"} : Within(doc, n, j)}
        last == CHOOSE j \in starts : \A k \in starts : k <= j
    IN IF \/ doc[i] # <<"end", "loc">> \/ starts = {}
          \/ \E k \in last..(i - 1) : doc[k] = <<"end", "loc">> THEN <<>>
       ELSE LET chunks == SelectSeq(SubSeq(doc, last, i), LAMBDA t : t[1] = "text" /\ t[2] # "")
            IN [n \in 1..Len(chunks) |-> chunks[n][2]]
Listed(doc, name) ==
    LET here == {i \in 1..Len(doc) : /\ LocationAt(doc, i) # <<>>
                                     /\ Within(doc, name, i)
                                     /\ (name = "sitemap" => ~Within(doc, "url", i))}
    IN [n \in 1..Cardinality(here) |->
           LocationAt(doc, CHOOSE i \in here : Cardinality({j \in here : j <= i}) = n)]

-----------------------------------------------------------------------------
(* Documents grow by one token, so that every nesting of the elements up   *)
(* to the bound is parsed.                                                 *)

CONSTANTS XmlNames, XmlTexts,
          DocBound, NestBound   \* bounds: tokens of a document, open elements
VARIABLES xmlDoc, xmlOpen
xmlVars == <<xmlDoc, xmlOpen>>
XmlInit == xmlDoc = <<>> /\ xmlOpen = <<>>
Deliver(t, open) == xmlDoc' = Append(xmlDoc, t) /\ xmlOpen' = open
XmlNext ==
    /\ Len(xmlDoc) < DocBound
    /\ \/ \E n \in XmlNames : Len(xmlOpen) < NestBound /\ (xmlDoc = <<>> \/ xmlOpen # <<>>)
                            /\ Deliver(<<"start", n>>, Append(xmlOpen, n))
       \/ \E t \in XmlTexts : xmlOpen # <<>> /\ Deliver(<<"text", t>>, xmlOpen)
       \/ xmlOpen # <<>> /\ Deliver(<<"end", Last(xmlOpen)>>, Front(xmlOpen))

(* The streaming parser reads what the document says, however url, sitemap *)
(* and loc are nested: it returns every location of a url or a child, in   *)
(* order and none of another place, and refuses a document only when it is *)
(* too long, has another root, or lists too much or the wrong kind.        *)
ParsedIsListed ==
    LET p == Parse(xmlDoc, 0)
        root == IF xmlDoc = <<>> THEN "" ELSE xmlDoc[1][2]
    IN IF p # ParseFailed
       THEN /\ p.urls = Listed(xmlDoc, "url") /\ p.sitemaps = Listed(xmlDoc, "sitemap")
            /\ Len(p.urls) <= ParserURLs /\ Len(p.sitemaps) <= ParserSitemaps
       ELSE \/ TooLarge(xmlDoc) \/ root \notin {"urlset", "sitemapindex"}
            \/ Len(Listed(xmlDoc, "url")) > (IF root = "urlset" THEN ParserURLs ELSE 0)
            \/ Len(Listed(xmlDoc, "sitemap")) > (IF root = "urlset" THEN 0 ELSE ParserSitemaps)
=============================================================================
