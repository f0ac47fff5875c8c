----------------------------- MODULE MCProgress ------------------------------
(***************************************************************************)
(* What must eventually happen, on small instances: sitemaps are settled,  *)
(* searches answered, mail goes out and imports are finished.  As in       *)
(* MCServices a behaviour picks a part and only that part moves.           *)
(***************************************************************************)
EXTENDS SitemapQueue, SearchApi, TLC

CONSTANT None
VARIABLES part,
          mail, manual, submits, bounces, pressure, queue, seen, pc, held, cur, mailFaults,
          file, batch, staged, plan, reviews, previews, orgs, origin, links, outbox,
          importer, worker, admit, orgFaults

\* root lists itself and leaf; leaf lists a page.
Entry(name, loc) == << <<"start", name>>, <<"start", "loc">>, <<"text", loc>>,
                       <<"end", "loc">>, <<"end", name>> >>
Document(name, body) == << <<"start", name>> >> \o body \o << <<"end", name>> >>
MCMapDoc ==
  [root |-> Document("sitemapindex", Entry("sitemap", "root") \o Entry("sitemap", "leaf")),
   leaf |-> Document("urlset", Entry("url", "p1"))]
MCNorm == [r \in {<<"root">>, <<"leaf">>, <<"p1">>} |-> r[1]]
MCWorkerID == [w \in MapWorkers |-> "webmaster-7"]

\* q1 has one other spelling.
Hit(host, score) == [host |-> host, score |-> score, quality |-> 50, authority |-> 0, spam |-> 0]
MCIndexHits == [q1 |-> <<Hit("a", 3)>>, q2 |-> <<Hit("c", 1)>>]
MCRespelled == [q \in {"q1"} |-> <<"q1", "q2", "">>]
MCPrimaryOf == [raw \in {"q1"} |-> "q1"]

\* One message to two recipients of one domain, one worker; errors about eve
\* may have a body too long to be recorded, any number of times.
Readers == {"bob", "eve"}
MailMessages == {"m"}
MailDomains == {"host"}
MailWorkers == {"w"}
OneId == {"id"}
MailQueues == {"q"}
OneMessage == [d \in Readers |-> "m"]
OwnReader == [d \in Readers |-> d]
OneDomain == [r \in Readers |-> "host"]
MailIdOf == [w \in MailWorkers |-> "id"]
Mail == INSTANCE MailOutbound WITH
  faults <- mailFaults,
  Messages <- MailMessages, Deliveries <- Readers, Recipients <- Readers, Domains <- MailDomains,
  MessageOf <- OneMessage, RecipientOf <- OwnReader, DomainOf <- OneDomain, Workers <- MailWorkers,
  Ids <- OneId, IdOf <- MailIdOf, NoId <- "no id", QueueIds <- MailQueues, NoQueue <- "no queue",
  NoDelivery <- "no delivery", BatchSize <- 2, MaxAttempts <- 2, AttemptsColumn <- 3,
  MaxManualDeadRetries <- 0, HardBounceThreshold <- 2, CoolThreshold <- 1, MaxFaults <- 1

\* A snapshot of two sources, then one that matches both, a newer snapshot, the
\* same again, or a file that names a source twice.
Shop(phone, website) ==
  [name |-> "n", at |-> [f \in {"phone", "website", "address"} |->
      IF f = "phone" THEN phone ELSE IF f = "website" THEN website ELSE None]]
Row(record, data) == [record |-> record, data |-> data]
First == <<Row("r1", Shop("x", None)), Row("r2", Shop(None, "y"))>>
Then == {<<Row("r3", Shop("x", "y"))>>, <<Row("r1", Shop(None, "y")), Row("r3", None)>>,
         <<Row("r1", Shop("x", None))>>, <<Row("r2", Shop("x", "y")), Row("r2", Shop(None, "y"))>>}
ImportBatches == {1, 2}
ImportFiles == <<{First}, Then>>
ImportRecords == {"r1", "r2", "r3"}
ImportValues == {"n", "x", "y"}
Commands == {"c"}
ImportWorkers == {"w"}
ImportIdOf == [w \in ImportWorkers |-> "id"]
Import == INSTANCE OrgImport WITH
  faults <- orgFaults,
  Batches <- ImportBatches, Files <- ImportFiles, MaxLines <- 2, Records <- ImportRecords,
  Values <- ImportValues, Importers <- Commands, Workers <- ImportWorkers, Ids <- OneId, IdOf <- ImportIdOf,
  PageSize <- 1, MaxPlaces <- 3, MaxPreviews <- 1, MaxFaults <- 1

-----------------------------------------------------------------------------
mailVars == <<mail, manual, submits, bounces, pressure, queue, seen, pc, held, cur, mailFaults>>
orgVars == <<file, batch, staged, plan, reviews, previews, orgs, origin, links, outbox,
             importer, worker, admit, orgFaults>>
allVars == <<part, mapVars, searchVars, mailVars, orgVars>>

MCInit ==
  /\ part \in {"sitemaps", "search", "mail", "import"}
  /\ part = "search" \/ dry = {}
  /\ part = "import" \/ file = <<First, <<Row("r1", Shop("x", None))>>>>
  /\ SitemapInit /\ SearchInit /\ Mail!Init /\ Import!Init

MCNext ==
  /\ UNCHANGED part
  /\ \/ part = "sitemaps" /\ SitemapNext /\ UNCHANGED <<searchVars, mailVars, orgVars>>
     \/ part = "search" /\ SearchNext /\ UNCHANGED <<mapVars, mailVars, orgVars>>
     \/ /\ part = "mail" /\ Mail!Next /\ Cardinality(seen') + mailFaults' <= 1
        /\ cur'["w"].long => cur'["w"].delivery = "eve"
        /\ UNCHANGED <<mapVars, searchVars, orgVars>>
     \/ part = "import" /\ Import!Next /\ UNCHANGED <<mapVars, searchVars, mailVars>>

\* The fairness of the modules, each while its part is the one that moves.
MCFairness ==
  /\ \A w \in MapWorkers : WF_mapVars(part = "sitemaps" /\ MapWorkerStep(w))
  /\ WF_mapVars(part = "sitemaps" /\ MapClock)
  /\ \A r \in Reqs : /\ WF_searchVars(part = "search" /\ SearchStep(r))
                     /\ WF_searchVars(part = "search" /\ DeadlinePasses(r))
  /\ WF_mailVars(part = "mail" /\ Mail!WorkerStep("w"))
  /\ \A d \in Readers : WF_mailVars(part = "mail" /\ Mail!DeadlinePasses(d))
  /\ WF_mailVars(part = "mail" /\ Mail!CooldownEnds("host"))
  /\ \A w \in ImportWorkers : WF_orgVars(part = "import" /\ Import!WorkerStep(w))
  /\ \A b \in ImportBatches : WF_orgVars(part = "import" /\ Import!LeaseExpires(b))

MCSpec == MCInit /\ [][MCNext]_allVars /\ MCFairness

-----------------------------------------------------------------------------
(* Mail that was sent leaves the queue while the MTA's errors are short    *)
(* enough to be recorded, and otherwise leaves it or wears out a row's     *)
(* attempts column (MailOutbound!EventuallyOut: gateway_worker.go,         *)
(* gateway_queue.go).                                                      *)
EventuallyOut == Mail!EventuallyOut

(* A batch that is ready is applied to its end, unless a row conflicts     *)
(* (OrgImport!EventuallyDone: apply_worker.go, apply.go).                  *)
EventuallyDone == Import!EventuallyDone
=============================================================================
