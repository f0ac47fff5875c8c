----------------------------- MODULE SitemapQueue -----------------------------
(***************************************************************************)
(* webmaster_sitemaps of one verified site: submissions, the workers that  *)
(* lease, fetch and expand sitemaps (internal/webmaster/sitemap_*.go), and *)
(* the pages and child sitemaps they add.                                  *)
(***************************************************************************)
EXTENDS SitemapParser

CONSTANTS Maps, Pages,
          MapDoc,           \* MapDoc[m]: the document behind sitemap m
          Norm,             \* Norm[raw]: ownedNormalizedURLs, "foreign" if refused
          BlockedPages,     \* pages whose crawl_status is BLOCKED
          MapWorkers,
          WorkerID,         \* WorkerID[w]: "webmaster-<pid>", the same in two containers
          MapBatch,         \* BatchSize
          MaxTries,         \* max_attempts
          MapDepth,         \* the depth AddChildSitemaps refuses (8)
          MaxMapFaults      \* bound: failed fetches, broken statements, dead workers

ASSUME SitemapAssumptions ==
    /\ MapBatch \in Nat \ {0} /\ MaxTries \in Nat \ {0}
    /\ MapDepth \in Nat /\ MaxMapFaults \in Nat
    /\ BlockedPages \subseteq Pages /\ IsFiniteSet(Maps)
    /\ \A w \in MapWorkers : WorkerID[w] # "NONE"

VARIABLES smap,         \* smap[m]: the row of sitemap m
          listedPages,  \* pages with an urls row
          queuedPages,  \* pages with a crawl_queue row
          mworker,      \* mworker[w]: the runner's phase, the batch and the sitemap in hand
          siteOpen,     \* the site's domain is ACTIVE and its policy not BLOCK
          mapAdmit,     \* resource_pressure fresh and not CRITICAL
          mapFaults
mapVars == <<smap, listedPages, queuedPages, mworker, siteOpen, mapAdmit, mapFaults>>

NoMap == [status |-> "NONE", attempts |-> 0, depth |-> 0, due |-> FALSE, live |-> FALSE, owner |-> "NONE"]
Resting == [phase |-> "sweep", batch |-> {}, task |-> "NONE"]
Spent(r) == r.attempts >= MaxTries

SitemapTypeOK ==
    /\ \A m \in Maps : /\ smap[m].status \in {"NONE", "SUBMITTED", "LEASED", "RETRY", "FETCHED", "FAILED"}
                       /\ smap[m].attempts \in 0..MaxTries
                       /\ (smap[m].status = "LEASED") = (smap[m].owner # "NONE")
    /\ queuedPages \subseteq listedPages /\ listedPages \subseteq Pages
    /\ \A w \in MapWorkers : /\ mworker[w].batch \subseteq Maps
                             /\ Cardinality(mworker[w].batch) <= MapBatch
                             /\ mworker[w].phase \in {"sweep", "lease", "next", "store", "complete", "retry"}

SitemapInit ==
    /\ smap = [m \in Maps |-> NoMap]
    /\ listedPages = {} /\ queuedPages = {}
    /\ mworker = [w \in MapWorkers |-> Resting]
    /\ siteOpen = TRUE /\ mapAdmit = TRUE /\ mapFaults = 0

MapFault == mapFaults < MaxMapFaults /\ mapFaults' = mapFaults + 1

-----------------------------------------------------------------------------
(* Submission.  A leased row keeps its lease; no row gets its attempts back. *)

QueueSitemapSubmission(m) == smap' = [smap EXCEPT ![m] =
    IF @.status = "NONE" THEN [NoMap EXCEPT !.status = "SUBMITTED", !.due = TRUE]
    ELSE IF @.status = "LEASED" THEN @
    ELSE [@ EXCEPT !.status = "SUBMITTED", !.due = TRUE]]
\* SubmitSitemap: the URL must be valid and on the verified host.
SubmitSitemap(m) == Norm[<<m>>] # "foreign" /\ QueueSitemapSubmission(m)
PostSitemap ==
    /\ \E m \in Maps : SubmitSitemap(m)
    /\ UNCHANGED <<listedPages, queuedPages, mworker, siteOpen, mapAdmit, mapFaults>>

-----------------------------------------------------------------------------
(* The queue.                                                              *)

Released(r) == IF Spent(r) THEN [r EXCEPT !.status = "FAILED", !.live = FALSE, !.owner = "NONE"]
               ELSE [r EXCEPT !.status = "RETRY", !.live = FALSE, !.owner = "NONE"]

RequeueExpiredSitemaps(w) ==
    /\ mworker[w].phase = "sweep"
    /\ smap' = [m \in Maps |->
           IF smap[m].status = "LEASED" /\ ~smap[m].live
           THEN [Released(smap[m]) EXCEPT !.due = IF Spent(smap[m]) THEN smap[m].due ELSE TRUE]
           ELSE smap[m]]
    /\ mworker' = [mworker EXCEPT ![w].phase = "lease"]
    /\ UNCHANGED <<listedPages, queuedPages, siteOpen, mapAdmit, mapFaults>>

\* Mutant of Leasable: a sitemap that failed once is not picked again.
LeasableNew == {m \in Maps : /\ smap[m].status = "SUBMITTED" /\ smap[m].due
                             /\ ~Spent(smap[m]) /\ siteOpen /\ mapAdmit}
Leasable == {m \in Maps : /\ smap[m].status \in {"SUBMITTED", "RETRY"} /\ smap[m].due
                          /\ ~Spent(smap[m]) /\ siteOpen /\ mapAdmit}

LeaseSitemaps(w) == \E batch \in SUBSET Leasable :
    /\ mworker[w].phase = "lease"
    /\ Cardinality(batch) = IF Cardinality(Leasable) < MapBatch THEN Cardinality(Leasable) ELSE MapBatch
    /\ smap' = [m \in Maps |-> IF m \in batch
           THEN [smap[m] EXCEPT !.status = "LEASED", !.attempts = @ + 1, !.live = TRUE, !.owner = WorkerID[w]]
           ELSE smap[m]]
    /\ mworker' = [mworker EXCEPT ![w] =
           IF batch = {} THEN Resting ELSE [phase |-> "next", batch |-> batch, task |-> "NONE"]]
    /\ UNCHANGED <<listedPages, queuedPages, siteOpen, mapAdmit, mapFaults>>

\* The condition of CompleteSitemap's and RetrySitemap's UPDATE.
Mine(w, m) == smap[m].status = "LEASED" /\ smap[m].owner = WorkerID[w]

NextTask(w) == LET rest == mworker[w].batch \ {mworker[w].task}
               IN IF rest = {} THEN Resting ELSE [phase |-> "next", batch |-> rest, task |-> "NONE"]

CompleteSitemap(w) == LET m == mworker[w].task IN
    /\ mworker[w].phase = "complete"
    /\ IF Mine(w, m)
       THEN /\ smap' = [smap EXCEPT ![m] = [@ EXCEPT !.status = "FETCHED", !.live = FALSE, !.owner = "NONE"]]
            /\ mworker' = [mworker EXCEPT ![w] = NextTask(w)]
       ELSE /\ mworker' = [mworker EXCEPT ![w].phase = "retry"]
            /\ UNCHANGED smap
    /\ UNCHANGED <<listedPages, queuedPages, siteOpen, mapAdmit, mapFaults>>

\* RetrySitemap; when the lease was lost Run returns and the worker restarts.
RetrySitemap(w) == LET m == mworker[w].task IN
    /\ mworker[w].phase = "retry"
    /\ IF Mine(w, m)
       THEN /\ smap' = [smap EXCEPT ![m] = [Released(smap[m]) EXCEPT !.due = smap[m].due /\ Spent(smap[m])]]
            /\ mworker' = [mworker EXCEPT ![w] = NextTask(w)]
       ELSE /\ mworker' = [mworker EXCEPT ![w] = Resting]
            /\ UNCHANGED smap
    /\ UNCHANGED <<listedPages, queuedPages, siteOpen, mapAdmit, mapFaults>>

-----------------------------------------------------------------------------
(* The processor.                                                          *)

SitemapContent == [m \in Maps |-> [d \in 0..MapDepth |-> Parse(MapDoc[m], d)]]
SitemapURLs == [m \in Maps |-> [d \in 0..MapDepth |->
    LET raw == SitemapContent[m][d].urls \o SitemapContent[m][d].sitemaps IN {Norm[raw[i]] : i \in 1..Len(raw)}]]
\* Pages and Maps hold every URL the documents list.
ASSUME SitemapUniverse == \A m \in Maps, d \in 0..MapDepth :
    /\ SitemapContent[m][d].kind = "urlset" => SitemapURLs[m][d] \subseteq Pages \cup {"foreign"}
    /\ SitemapContent[m][d].kind = "sitemapindex" => SitemapURLs[m][d] \subseteq Maps \cup {"foreign"}
SitemapKind(m) == SitemapContent[m][smap[m].depth].kind
ownedNormalizedURLs(m) == SitemapURLs[m][smap[m].depth]
Refused(m) == SitemapKind(m) = "error" \/ "foreign" \in ownedNormalizedURLs(m)

\* Process up to the store: the fetch, the checks of the answer, the parse.
ProcessSitemap(w) == \E m \in mworker[w].batch, ok \in BOOLEAN :
    /\ mworker[w].phase = "next"
    /\ IF ok THEN UNCHANGED mapFaults ELSE MapFault
    /\ mworker' = [mworker EXCEPT ![w].task = m, ![w].phase = IF ok /\ ~Refused(m) THEN "store" ELSE "retry"]
    /\ UNCHANGED <<smap, listedPages, queuedPages, siteOpen, mapAdmit>>

\* Mutant of AddSitemapURLs: a site that is no longer allowed ends it quietly.
AddURLsQuietly(w) == LET m == mworker[w].task  found == ownedNormalizedURLs(m) IN
    /\ mworker[w].phase = "store" /\ SitemapKind(m) = "urlset"
    /\ IF found = {} \/ siteOpen
       THEN /\ listedPages' = listedPages \cup found
            /\ queuedPages' = queuedPages \cup (found \ BlockedPages)
       ELSE UNCHANGED <<listedPages, queuedPages>>
    /\ mworker' = [mworker EXCEPT ![w].phase = "complete"]
    /\ UNCHANGED <<smap, siteOpen, mapAdmit, mapFaults>>

sitemapTaskAllowed == siteOpen
AddSitemapURLs(w) == LET m == mworker[w].task  found == ownedNormalizedURLs(m) IN
    /\ mworker[w].phase = "store" /\ SitemapKind(m) = "urlset"
    /\ IF found = {} \/ sitemapTaskAllowed
       THEN /\ listedPages' = listedPages \cup found
            /\ queuedPages' = queuedPages \cup (found \ BlockedPages)
            /\ mworker' = [mworker EXCEPT ![w].phase = "complete"]
       ELSE /\ mworker' = [mworker EXCEPT ![w].phase = "retry"]
            /\ UNCHANGED <<listedPages, queuedPages>>
    /\ UNCHANGED <<smap, siteOpen, mapAdmit, mapFaults>>

AddChildSitemaps(w) == LET m == mworker[w].task  found == ownedNormalizedURLs(m) IN
    /\ mworker[w].phase = "store" /\ SitemapKind(m) = "sitemapindex"
    /\ IF found = {} \/ (sitemapTaskAllowed /\ smap[m].depth < MapDepth)
       THEN /\ smap' = [c \in Maps |-> IF c \in found /\ smap[c].status = "NONE"
                   THEN [NoMap EXCEPT !.status = "SUBMITTED", !.due = TRUE, !.depth = smap[m].depth + 1]
                   ELSE smap[c]]
            /\ mworker' = [mworker EXCEPT ![w].phase = "complete"]
       ELSE /\ mworker' = [mworker EXCEPT ![w].phase = "retry"]
            /\ UNCHANGED smap
    /\ UNCHANGED <<listedPages, queuedPages, siteOpen, mapAdmit, mapFaults>>

-----------------------------------------------------------------------------
(* Time, the operator, the monitor and failures.                           *)

MapClock == \E m \in Maps :
    /\ smap' = [smap EXCEPT ![m] = IF @.status = "LEASED" THEN [@ EXCEPT !.live = FALSE]
                                   ELSE [@ EXCEPT !.due = TRUE]]
    /\ smap[m].status \in {"LEASED", "RETRY"} /\ smap' # smap
    /\ UNCHANGED <<listedPages, queuedPages, mworker, siteOpen, mapAdmit, mapFaults>>
MapConditionsChange ==
    /\ \/ siteOpen' = ~siteOpen /\ UNCHANGED mapAdmit
       \/ mapAdmit' = ~mapAdmit /\ UNCHANGED siteOpen
    /\ UNCHANGED <<smap, listedPages, queuedPages, mworker, mapFaults>>
\* A broken statement ends Run, a killed process ends it anywhere.
MapWorkerDies(w) ==
    /\ mworker[w] # Resting /\ MapFault
    /\ mworker' = [mworker EXCEPT ![w] = Resting]
    /\ UNCHANGED <<smap, listedPages, queuedPages, siteOpen, mapAdmit>>

MapWorkerStep(w) ==
    \/ RequeueExpiredSitemaps(w) \/ LeaseSitemaps(w) \/ ProcessSitemap(w)
    \/ AddSitemapURLs(w) \/ AddChildSitemaps(w) \/ CompleteSitemap(w) \/ RetrySitemap(w)
SitemapNext ==
    \/ PostSitemap \/ MapClock \/ MapConditionsChange
    \/ \E w \in MapWorkers : MapWorkerStep(w) \/ MapWorkerDies(w)
SitemapFairness ==
    /\ \A w \in MapWorkers : WF_mapVars(MapWorkerStep(w))
    /\ WF_mapVars(MapClock)
SitemapSpec == SitemapInit /\ [][SitemapNext]_mapVars /\ SitemapFairness

-----------------------------------------------------------------------------
(* A sitemap is FETCHED only when everything its document lists is stored: *)
(* the pages with their crawl request, or the child sitemaps - also when   *)
(* its lease ran out and another worker took it over, when two workers     *)
(* carry the same id, or when the domain was blocked while it was fetched. *)
FetchedIsStored == SitemapTypeOK /\ \A m \in Maps :
    smap[m].status = "FETCHED" =>
        /\ ~Refused(m)
        /\ ownedNormalizedURLs(m) \subseteq
              IF SitemapKind(m) = "urlset"
              THEN queuedPages \cup (BlockedPages \cap listedPages)
              ELSE {c \in Maps : smap[c].status # "NONE"}

(* Once the domain stays open and the pressure low, a sitemap that waits   *)
(* with an attempt left is fetched or given up: neither a lost lease, a    *)
(* dead worker, a resubmission nor an index that lists itself keeps it     *)
(* waiting.  (One whose attempts are spent waits for ever when it is       *)
(* submitted again: sitemap_submit.go keeps the attempts.)                 *)
SitemapsSettle == <>[](siteOpen /\ mapAdmit) =>
    \A m \in Maps : (smap[m].status \in {"SUBMITTED", "RETRY", "LEASED"}
                        /\ (smap[m].status = "SUBMITTED" => ~Spent(smap[m])))
                    ~> (smap[m].status \in {"FETCHED", "FAILED"})
=============================================================================
