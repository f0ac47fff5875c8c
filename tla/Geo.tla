--------------------------------- MODULE Geo ---------------------------------
(***************************************************************************)
(* internal/geo: the search for organizations around a point and the       *)
(* clusters of a map viewport, over the organizations table of Manticore.  *)
(* Coordinates are small integers, a parameter that is absent is Absent,   *)
(* and the two logarithms of the score are increasing tables.  The index   *)
(* grows by one place a step; a request is answered in one.                *)
(***************************************************************************)
EXTENDS Integers, FiniteSets, Sequences, SequencesExt, FiniteSetsExt, Ordering

CONSTANTS IndexedPlaces,    \* [text, city, category, lat, lon, located, active, quality, sources]
          GeoQueries,       \* requests of /search: [text, city, category, lat, lon, radius, limit]
          Viewports,        \* requests of /viewport: [min, max, zoom, city, category, limit]; corners <<lat, lon>>
          SourceBoost, DistancePenalty, \* the logarithms, as increasing sequences from 0
          MaxCandidates,    \* Service.MaxCandidates
          CandidateCap,     \* the most hits ever asked for (200)
          Absent,           \* a model value
          GeoDefault, GeoLimit,         \* 20 and 50, and for a viewport 200
          RadiusDefault, RadiusMax,     \* 5000 m and 100000 m
          LatMax, LonMax,   \* the bounds of a coordinate
          IdCap,            \* PlaceIDs of a cluster (20)
          PlaceBound        \* bound of the index

PlaceRow == [text : Nat, city : STRING, category : STRING, lat : Int, lon : Int, located : BOOLEAN,
             active : BOOLEAN, quality : Int, sources : Nat]
GeoRequest == [text : STRING, city : STRING, category : STRING, lat : Int \cup {Absent}, lon : Int \cup {Absent},
               radius : Int, limit : Int]
ViewportRequest == [min : Int \X Int, max : Int \X Int, zoom : Int, city : STRING, category : STRING, limit : Int]

ASSUME GeoAssumptions ==
    /\ IndexedPlaces \subseteq PlaceRow /\ GeoQueries \subseteq GeoRequest /\ Viewports \subseteq ViewportRequest
    /\ Absent \notin Int /\ Absent \notin (Int \X Int) \X (Int \X Int)
    /\ SourceBoost \in Seq(Int) /\ \A p \in IndexedPlaces : p.sources < Len(SourceBoost)
    /\ \A i, j \in 1..Len(SourceBoost) : i < j => SourceBoost[i] <= SourceBoost[j]
    /\ DistancePenalty \in Seq(Int) /\ RadiusMax \in Nat /\ RadiusMax < Len(DistancePenalty)
    /\ \A i, j \in 1..Len(DistancePenalty) : i < j => DistancePenalty[i] < DistancePenalty[j]
    /\ RadiusDefault \in 0..RadiusMax
    /\ CandidateCap \in Nat /\ MaxCandidates \in 1..CandidateCap
    /\ GeoLimit \in 1..CandidateCap /\ GeoDefault \in 1..GeoLimit
    /\ IdCap \in Nat \ {0}

KeyNames == {"spb", "msk", "cafe"}      \* what keyPattern accepts here

VARIABLES places,       \* the organizations table; the position is the id
          shown         \* what the last request was answered
geoVars == <<places, shown>>

Nothing == [status |-> 0]
GeoInit == places = <<>> /\ shown = Nothing
Outside(x, max) == x < -max \/ x > max
Distance(lat, lon, p) == LET abs(n) == IF n < 0 THEN -n ELSE n IN abs(lat - p.lat) + abs(lon - p.lon)

-----------------------------------------------------------------------------
(* backend.Client.Search: a bool query whose "must" parts all hold.         *)

Matches(q, p) ==
    /\ p.active
    /\ q.text # "" => p.text > 0
    /\ q.city # "" => p.city = q.city
    /\ q.category # "" => p.category = q.category
    /\ q.lat # Absent => p.located /\ Distance(q.lat, q.lon, p) <= q.radius
    /\ q.box # Absent =>
        /\ p.located
        /\ p.lat \in q.box[1][1]..q.box[2][1] /\ p.lon \in q.box[1][2]..q.box[2][2]
TextScore(q, p) == IF q.text = "" THEN 0 ELSE p.text
\* Manticore returns its best matches by weight, ties in any order, at most
\* limit of them.
Hits(q, ids, limit) ==
    {h \in {SubSeq(s, 1, Min({limit, Cardinality(ids)})) : s \in SetToSeqs(ids)} :
        /\ \A i \in 1..Len(h), j \in 1..Len(h) : i < j => TextScore(q, places[h[i]]) >= TextScore(q, places[h[j]])
        /\ \A i \in ids \ ToSet(h), j \in ToSet(h) : TextScore(q, places[i]) <= TextScore(q, places[j])}
BackendSearch(q) == Hits(q, {i \in 1..Len(places) : Matches(q, places[i])}, Min({q.limit, CandidateCap}))

-----------------------------------------------------------------------------
(* Service.Search *)

clamp100(v) == IF v < 0 THEN 0 ELSE IF v > 100 THEN 100 ELSE v
\* Mutant of rankScore: the distance is added to the score.
rankScoreFar(text, quality, sources, distance) ==
    100 * text + 5 * clamp100(quality) + SourceBoost[sources + 1]
        + (IF distance = Absent THEN 0 ELSE DistancePenalty[distance + 1])
rankScore(text, quality, sources, distance) ==
    100 * text + 5 * clamp100(quality) + SourceBoost[sources + 1]
        - (IF distance = Absent THEN 0 ELSE DistancePenalty[distance + 1])
DistanceMeters(q, p) == IF p.located /\ q.lat # Absent THEN Distance(q.lat, q.lon, p) ELSE Absent
Score(q, i) == LET p == places[i] IN rankScore(TextScore(q, p), p.quality, p.sources, DistanceMeters(q, p))
\* Higher scores first, the lower id between equals.
RankedPlaces(q, ids) == InOrder(ids, {e \in ids \X ids :
    Score(q, e[1]) > Score(q, e[2]) \/ (Score(q, e[1]) = Score(q, e[2]) /\ e[1] < e[2])})

validKeys(q) == {q.city, q.category} \subseteq KeyNames \cup {""}
validQuery(q) ==
    /\ validKeys(q)
    /\ (q.lat = Absent) = (q.lon = Absent)
    /\ q.lat # Absent => ~Outside(q.lat, LatMax) /\ ~Outside(q.lon, LonMax) /\ q.radius <= RadiusMax
    /\ q.text # "" \/ q.city # "" \/ q.category # "" \/ q.lat # Absent
Defaulted(q) == [q EXCEPT !.radius = IF q.lat # Absent /\ @ <= 0 THEN RadiusDefault ELSE @,
                          !.limit = IF @ <= 0 THEN GeoDefault ELSE IF @ > GeoLimit THEN GeoLimit ELSE @]
\* Mutant of Candidates: no more hits are asked for than will be shown.
CandidatesShown(limit) == limit
Candidates(limit) == Min({Max({limit, MaxCandidates}), CandidateCap})
GeoSearch(q) ==
    LET r == Defaulted(q)
        asked == [text |-> r.text, city |-> r.city, category |-> r.category, lat |-> r.lat, lon |-> r.lon,
                  radius |-> r.radius, box |-> Absent, limit |-> Candidates(r.limit)]
    IN {[status |-> 200, of |-> r, results |-> SubSeq(RankedPlaces(asked, ToSet(h)), 1, Min({Len(h), r.limit}))] :
            h \in BackendSearch(asked)}

-----------------------------------------------------------------------------
(* Service.Viewport *)

validViewport(v) ==
    /\ v.min[1] >= -LatMax /\ v.max[1] <= LatMax /\ v.min[2] >= -LonMax /\ v.max[2] <= LonMax
    /\ v.min[1] < v.max[1] /\ v.min[2] < v.max[2]
    /\ v.zoom \in 0..24 /\ validKeys(v)
Grid(zoom) == IF zoom >= 16 THEN 64 ELSE IF zoom >= 12 THEN 32 ELSE IF zoom >= 8 THEN 16 ELSE 8
\* Mutant of CellOf: a place on the upper edge falls out of the grid.
CellOfOpen(v, x, k) == ((x - v.min[k]) * Grid(v.zoom)) \div (v.max[k] - v.min[k])
CellOf(v, x, k) ==
    LET n == ((x - v.min[k]) * Grid(v.zoom)) \div (v.max[k] - v.min[k])
    IN IF n < 0 THEN 0 ELSE IF n >= Grid(v.zoom) THEN Grid(v.zoom) - 1 ELSE n
KeyOf(v, i) == <<CellOf(v, places[i].lon, 2), CellOf(v, places[i].lat, 1)>>
clusterViewport(results, v) ==
    LET in(key) == Kept(results, {i \in 1..Len(results) : KeyOf(v, results[i]) = key})
    IN {[id |-> key, count |-> Len(in(key)), ids |-> SubSeq(in(key), 1, Min({IdCap, Len(in(key))})),
         lat |-> SumOf([n \in 1..Len(in(key)) |-> places[in(key)[n]].lat])] : key \in {KeyOf(v, results[i]) : i \in 1..Len(results)}}
Viewport(v) ==
    LET limit == IF v.limit <= 0 \/ v.limit > CandidateCap THEN CandidateCap ELSE v.limit
        q == [text |-> "", city |-> v.city, category |-> v.category, lat |-> Absent, lon |-> Absent,
              radius |-> 0, box |-> <<v.min, v.max>>, limit |-> limit]
    IN {LET r == RankedPlaces(q, {i \in ToSet(h) : places[i].located})
        IN [status |-> 200, viewport |-> v, results |-> r, clusters |-> clusterViewport(r, v)] : h \in BackendSearch(q)}

-----------------------------------------------------------------------------
(* httpapi.Handler *)

IndexPlace == \E p \in IndexedPlaces : /\ Len(places) < PlaceBound
                                       /\ places' = Append(places, p) /\ shown' = Nothing
\* strconv: a parameter that does not parse is never passed on.
Refused(code) == [status |-> 400, code |-> code]
GetGeoSearch == \E q \in GeoQueries :
    /\ shown = Nothing
    /\ \/ (q.lat = Absent) # (q.lon = Absent) /\ shown' = Refused("invalid_location")
       \/ /\ (q.lat = Absent) = (q.lon = Absent) /\ ~validQuery(q)
          /\ shown' = Refused("invalid_geo_query")
       \/ validQuery(q) /\ shown' \in GeoSearch(q)
       \/ validQuery(q) /\ shown' = [status |-> 503]
    /\ UNCHANGED places
GetViewport == \E v \in Viewports :
    /\ shown = Nothing
    /\ \/ ~validViewport(v) /\ shown' = Refused("invalid_viewport")
       \/ validViewport(v) /\ shown' \in Viewport(v)
       \/ validViewport(v) /\ shown' = [status |-> 503]
    /\ UNCHANGED places
GeoNext == IndexPlace \/ GetGeoSearch \/ GetViewport
GeoSpec == GeoInit /\ [][GeoNext]_geoVars

-----------------------------------------------------------------------------
\* The results are matches of q, and the best of them.
RightPlaces(q, results) ==
    LET fits(p) == /\ p.active /\ (q.text # "" => p.text > 0)
                   /\ (q.city # "" => p.city = q.city) /\ (q.category # "" => p.category = q.category)
                   /\ (q.lat # Absent => p.located /\ Distance(q.lat, q.lon, p) <= q.radius)
        all == {i \in 1..Len(places) : fits(places[i])}
        better(p, r) ==
          /\ q.text # "" => p.text >= r.text
          /\ p.quality >= r.quality /\ p.sources >= r.sources
          /\ q.lat # Absent => Distance(q.lat, q.lon, p) < Distance(q.lat, q.lon, r)
    IN /\ ToSet(results) \subseteq all
       /\ Len(results) = Min({q.limit, Cardinality(all)})
       /\ q.lat # Absent /\ Cardinality(all) <= MaxCandidates =>
            \A i \in all \ ToSet(results), j \in ToSet(results) : ~better(places[i], places[j])
\* The clusters are the results, cell by cell.
RightClusters(v, results, clusters) ==
    LET n == Grid(v.zoom)
    IN /\ \A c \in clusters :
            /\ c.id \in (0..(n - 1)) \X (0..(n - 1))
            /\ c.lat >= c.count * v.min[1] /\ c.lat <= c.count * v.max[1]
            /\ ToSet(c.ids) \subseteq ToSet(results) /\ c.ids # <<>>
            /\ \A d \in clusters : c # d => c.id # d.id /\ ToSet(c.ids) \cap ToSet(d.ids) = {}
       /\ Cardinality(UNION {{c.id} \X (1..c.count) : c \in clusters}) = Len(results)
       /\ results # <<>> => \E c \in clusters : Head(results) = Head(c.ids)

(* A search shows the right places (Service.Search): each matches every     *)
(* condition of the request, as many are shown as there are up to the       *)
(* limit, and as long as the matches fit in MaxCandidates no match left out *)
(* is nearer, better liked by the text and of no lower quality than one     *)
(* shown; the cut by text in Manticore does not decide.                     *)
NearestAreShown == shown.status = 200 /\ "of" \in DOMAIN shown => RightPlaces(shown.of, shown.results)

(* The clusters account for the places of the viewport (clusterViewport):   *)
(* every cell lies in the grid, also for a place on its upper edge, the     *)
(* counts add up to the places shown, a cluster names the best of its       *)
(* places, and its centre lies in the viewport.                             *)
ClustersCountPlaces == shown.status = 200 /\ "viewport" \in DOMAIN shown =>
    RightClusters(shown.viewport, shown.results, shown.clusters)

(* Places are found and counted: the search shows the best of those that   *)
(* match and the clusters of a viewport account for all of them            *)
(* (service.go, viewport.go).                                              *)
PlacesAreAccounted == NearestAreShown /\ ClustersCountPlaces
=============================================================================
