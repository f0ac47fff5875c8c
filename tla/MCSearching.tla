----------------------------- MODULE MCSearching -----------------------------
(***************************************************************************)
(* The way of a page from its URL to an answer, on small instances: crawl  *)
(* queue, crawl policy, sitemap parser, fetcher, extraction, then search,  *)
(* its quality gate, answers and places.  As in MCServices a behaviour     *)
(* picks a part and only that part moves.                                  *)
(***************************************************************************)
EXTENDS CrawlQueue, CrawlPolicy, SitemapDocs, Fetcher, Extraction, SearchApi, Quality,
        Answers, Geo, TLC

VARIABLE part

\* URLs the fetcher is given; priv is a literal address, 22 a forbidden port.
FetchURL(scheme, user, host, port) == [scheme |-> scheme, user |-> user, host |-> host, port |-> port]
MCFetchURLs ==
  {FetchURL("http", FALSE, "h", 0), FetchURL("https", FALSE, "g", 443),
   FetchURL("http", FALSE, "priv", 80), FetchURL("http", TRUE, "h", 80), FetchURL("http", FALSE, "h", 22)}

\* The language and the description are read like the title.
Kind(tag, hide, data) == [tag |-> tag, hide |-> hide, data |-> data]
MCNodeKinds ==
  {Kind("#text", FALSE, t) : t \in {<<"a">>, <<"b", " ", "c">>, <<"d", "e", "f", "g">>}}
  \cup {Kind(tag, FALSE, <<>>) : tag \in {"div", "nav", "head", "title"}}
  \cup {Kind("div", TRUE, <<>>), Kind("meta", FALSE, {"none"}), Kind("link", FALSE, "same")}

\* q1 has one other spelling; it finds four results, three on one host, but
\* only after the index changes.  Limits 2 and 3 share their calls, 1 does not.
Hit(host, score) == [host |-> host, score |-> score, quality |-> 50, authority |-> 0, spam |-> 0]
MCIndexHits == [q1 |-> <<Hit("a", 3), Hit("a", 2), Hit("a", 1), Hit("b", 1)>>, q2 |-> <<Hit("c", 1)>>]
MCRespelled == [q \in {"q1"} |-> <<"q1", "q2", "">>]
MCPrimaryOf == [raw \in {"q1", "Q1"} |-> "q1"]

\* The cut is 2; one gate asks for everything, one for nothing.
MCDiscount == <<6, 4>>
Gate(queries, least, most) ==
  [MinQueries |-> queries, MinNDCG10 |-> least, MinMRR |-> least, MinRecall10 |-> least,
   MaxZeroResult |-> most, MaxDuplicate10 |-> most]
MCThresholds == {Gate(1, <<1, 2>>, <<0, 1>>), Gate(0, <<0, 1>>, <<1, 1>>)}
JudgedURL(scheme, host, upper, path, fragment) ==
  [scheme |-> scheme, host |-> <<host, upper>>, path |-> path, fragment |-> fragment]
MCJudgedURLs ==
  {JudgedURL("http", "a", FALSE, "", ""), JudgedURL("http", "a", TRUE, "/", ""),
   JudgedURL("http", "b", FALSE, "/x", "f"), JudgedURL("ftp", "a", FALSE, "", "")}
MCSignalGrid ==
  [TextRunes : {0, 299, 300, 1199, 1200}, TitleRunes : {4, 5, 121}, DescriptionRunes : {19, 400},
   Unique : {0, 34, 100}, Duplicate : {0, 50, 100}, Boilerplate : {-1, 100}, External : {35, 101},
   HTTPS : BOOLEAN, Structured : {TRUE}]
AnySignals ==
  [TextRunes |-> 300, TitleRunes |-> 5, DescriptionRunes |-> 400, Unique |-> 100, Duplicate |-> 0,
   Boilerplate |-> 100, External |-> 35, HTTPS |-> TRUE, Structured |-> TRUE]

\* Results with markup, hosts in both cases, no host, no url, short and long snippets.
Finding(host, upper, url, snippet) == [host |-> <<host, upper>>, url |-> url, snippet |-> snippet]
MCFindings ==
  {Finding("a", FALSE, TRUE, <<"w">>), Finding("a", TRUE, TRUE, <<"[[", "q1", "w", "q2">>),
   Finding("b", FALSE, TRUE, <<"w", "w", ".", "q1", "q2">>),
   Finding("a", FALSE, TRUE, <<"<", "q1", ">", "w", "q2", "w">>),
   Finding("b", FALSE, TRUE, <<"w", "w", "<", "q1", "q2">>),
   Finding("c", FALSE, TRUE, <<"q1", "w", "x", "w", "q2">>),
   Finding("c", FALSE, FALSE, <<"q1", "q2">>), Finding("", FALSE, TRUE, <<"q1", "q2">>)}
MCAskedQueries == {<<"q1", "q2">>, <<"x">>}

-----------------------------------------------------------------------------
\* URLs to normalize in pairs: a host is <<name, upper case, final dot>>.
URL(scheme, user, host, port, path, mark, fragment) ==
  [scheme |-> scheme, user |-> user, host |-> host, port |-> port, path |-> path, query |-> <<>>,
   mark |-> mark, fragment |-> fragment]
PlainA == <<"a", FALSE, FALSE>>
MCSpelledURLs ==
  {URL("http", FALSE, PlainA, 0, <<>>, FALSE, FALSE),
   URL("http", FALSE, <<"a", TRUE, TRUE>>, 80, <<Root>>, FALSE, TRUE),
   URL("https", FALSE, PlainA, 80, <<Root>>, FALSE, FALSE),
   URL("https", FALSE, <<"b", TRUE, FALSE>>, 443, <<>>, FALSE, FALSE),
   URL("http", FALSE, PlainA, 0, <<Root>>, TRUE, FALSE),
   URL("ftp", FALSE, PlainA, 0, <<>>, FALSE, FALSE),
   URL("http", TRUE, PlainA, 0, <<>>, FALSE, FALSE),
   URL("http", FALSE, <<"a", TRUE, FALSE>>, 0, <<Root, <<"x", TRUE>>>>, FALSE, FALSE),
   URL("http", FALSE, <<"", FALSE, FALSE>>, 0, <<>>, FALSE, FALSE)}
MCPathSegments == {<<"x", FALSE>>, <<"x", TRUE>>, <<"search", FALSE>>}
Keys == {<<"utm", TRUE>>, <<"q", FALSE>>, <<"sid", TRUE>>}
MCParams == {<<k, 1>> : k \in Keys} \cup {<<<<"q", FALSE>>, 2>>}
MCKeyRank == [k \in Keys |-> CASE k[1] = "utm" -> 1 [] k[1] = "q" -> 2 [] OTHER -> 3]
MCTrapLimits == [length |-> 9, depth |-> 6, params |-> 1]
\* Nothing; all but /search; a page without its pages below; a query, an empty path's too.
Rule(allow, path, query) == [allow |-> allow, path |-> path, query |-> query]
MCRobotGroups ==
  {{}, {Rule(FALSE, <<Root>>, <<>>), Rule(TRUE, <<Root, <<"search", FALSE>>>>, <<>>)},
   {Rule(FALSE, <<Root, <<"x", FALSE>>>>, <<>>)},
   {Rule(FALSE, <<Root>>, <<<<<<"q", FALSE>>, 1>>>>), Rule(FALSE, <<Root, <<"x", TRUE>>>>, <<<<<<"q", FALSE>>, 2>>>>)}}

Domain(id, status, policy, budget, due, demand, quality, next) ==
  [id |-> id, status |-> status, policy |-> policy, budget |-> budget, maxURLs |-> 1, due |-> due,
   demand |-> demand, quality |-> quality, next |-> next]
MCDomainRows ==
  {Domain(i, "ACTIVE", "ALLOW", 1, TRUE, d, q, n) : i \in 1..2, d \in {0, 2, 5}, q \in {1, 2}, n \in {0, 1}}
  \cup {Domain(i, s, p, b, u, 9, 9, 0) :
            i \in 1..2, s \in {"BLOCKED", "ACTIVE"}, p \in {"DENY", "LIMITED"}, b \in {0, 1}, u \in BOOLEAN}
MCFeedbackRows == [domain : 1..2, boost : {1, 4}, expired : BOOLEAN]

\* Places in two cities, on the edges of the viewports, unlocated or inactive.
Place(text, city, at, located, active, quality, sources) ==
  [text |-> text, city |-> city, category |-> "cafe", lat |-> at[1], lon |-> at[2], located |-> located,
   active |-> active, quality |-> quality, sources |-> sources]
MCPlaces ==
  {Place(1, "spb", <<0, 0>>, TRUE, TRUE, 50, 1), Place(2, "spb", <<2, 2>>, TRUE, TRUE, 50, 1),
   Place(1, "spb", <<2, 1>>, TRUE, TRUE, 120, 0), Place(0, "msk", <<1, 0>>, TRUE, TRUE, 50, 1),
   Place(1, "spb", <<0, 0>>, FALSE, TRUE, 90, 2), Place(2, "spb", <<0, 1>>, TRUE, FALSE, 90, 2),
   Place(1, "spb", <<0, 1>>, TRUE, TRUE, 50, 1)}
GeoQuery(text, city, lat, lon, radius, limit) ==
  [text |-> text, city |-> city, category |-> "", lat |-> lat, lon |-> lon, radius |-> radius, limit |-> limit]
MCGeoQueries ==
  {GeoQuery("t", "", 0, 0, 0, 1), GeoQuery("", "spb", 0, 0, 3, 2), GeoQuery("t", "", Absent, Absent, 0, 0),
   GeoQuery("", "", Absent, Absent, 0, 1), GeoQuery("t", "X", Absent, Absent, 0, 1),
   GeoQuery("t", "", 0, Absent, 0, 1), GeoQuery("", "", 9, 0, 0, 1), GeoQuery("", "", 0, 0, 9, 1)}
MapView(min, max, zoom, limit) ==
  [min |-> min, max |-> max, zoom |-> zoom, city |-> "", category |-> "", limit |-> limit]
MCViewports ==
  {MapView(<<0, 0>>, <<2, 2>>, z, l) : z \in {0, 8, 12, 16}, l \in {0, 2}}
  \cup {MapView(<<2, 0>>, <<0, 2>>, 0, 0), MapView(<<0, 0>>, <<1, 1>>, 25, 0), MapView(<<0, 0>>, <<1, 2>>, 0, 9)}
MCSourceBoost == <<0, 140, 220>>
MCDistancePenalty == <<0, 200, 350, 450, 530, 600>>

\* The parts share the model values of their symmetric sets.
Symmetry == Permutations(Reqs)

-----------------------------------------------------------------------------
findVars == <<policyVars, xmlVars, fetchVars, extractionVars>>
showVars == <<searchVars, qualityVars, answerVars, geoVars>>
allVars == <<part, vars, findVars, showVars>>

MCInit ==
  /\ part \in {"crawl", "policy", "sitemap", "fetch", "extract", "search", "gate", "scores", "answer", "geo"}
  /\ part = "policy" \/ spelled = <<>>
  /\ part = "fetch" \/ dns = [h \in HostNames |-> {}]
  /\ dry = IF part = "search" THEN {"q1"} ELSE {}
  /\ part = "scores" \/ signals = AnySignals
  /\ Init /\ PolicyInit /\ XmlInit /\ FetcherInit /\ ExtractionInit
  /\ SearchInit /\ QualityInit /\ AnswersInit /\ GeoInit

\* A longer document is read on only when it has a root, its first five tokens
\* hold a location, and no text outside one follows.
WorthReading == Len(xmlDoc) > 5 =>
  /\ xmlDoc[1][2] \in {"urlset", "sitemapindex"}
  /\ \E i \in 1..5 : xmlDoc[i] = <<"text", "a">> /\ Within(xmlDoc, "loc", i) /\ Within(xmlDoc, "url", i)
  /\ Last(xmlDoc)[1] = "text" => Last(xmlOpen) = "loc" /\ Last(xmlDoc)[2] = "a"

FindStep ==
  \/ part = "policy" /\ PolicyNext /\ UNCHANGED <<xmlVars, fetchVars, extractionVars>>
  \/ /\ part = "sitemap" /\ XmlNext /\ WorthReading' /\ UNCHANGED <<policyVars, fetchVars, extractionVars>>
  \/ part = "fetch" /\ FetcherNext /\ UNCHANGED <<policyVars, xmlVars, extractionVars>>
  \/ part = "extract" /\ ExtractionNext /\ UNCHANGED <<policyVars, xmlVars, fetchVars>>

ShowStep ==
  \/ part = "search" /\ SearchNext /\ UNCHANGED <<qualityVars, answerVars, geoVars>>
  \/ part = "gate" /\ QualityNext /\ UNCHANGED <<searchVars, answerVars, geoVars>>
  \/ part = "answer" /\ AnswersNext /\ UNCHANGED <<searchVars, qualityVars, geoVars>>
  \/ part = "geo" /\ GeoNext /\ UNCHANGED <<searchVars, qualityVars, answerVars>>

MCNext ==
  /\ UNCHANGED part
  /\ \/ part = "crawl" /\ Next /\ UNCHANGED <<findVars, showVars>>
     \/ FindStep /\ UNCHANGED <<vars, showVars>>
     \/ ShowStep /\ UNCHANGED <<vars, findVars>>

MCSpec == MCInit /\ [][MCNext]_allVars
=============================================================================
