----------------------------- MODULE MCServices -----------------------------
(***************************************************************************)
(* The services around the index on small instances.  They share no state  *)
(* but what AdminConsole composes, so one run explores the union of their  *)
(* state spaces: a behaviour picks a part and only that part moves.        *)
(***************************************************************************)
EXTENDS Accounts, SiteOwnership, SitemapQueue, Billing, Platform, AdminConsole, TLC

VARIABLE part

\* root lists itself and leaf; leaf lists two pages, one of them blocked.
Entry(name, loc) == << <<"start", name>>, <<"start", "loc">>, <<"text", loc>>,
                       <<"end", "loc">>, <<"end", name>> >>
Document(name, body) == << <<"start", name>> >> \o body \o << <<"end", name>> >>
MCMapDoc ==
  [root |-> Document("sitemapindex", Entry("sitemap", "root") \o Entry("sitemap", "leaf")),
   leaf |-> Document("urlset", Entry("url", "p1") \o Entry("url", "p2"))]
MCNorm == [r \in {<<"root">>, <<"leaf">>, <<"p1">>, <<"p2">>} |-> r[1]]
MCWorkerID == [w \in MapWorkers |-> "webmaster-7"]

Plan(code, product, owner, price, quota) ==
  [code |-> code, product |-> product, owner |-> owner, price |-> price, quota |-> quota]
MCCatalogue ==
  {Plan("w1", "WEBMASTER_PRO", "USER", 2, 2), Plan("w2", "WEBMASTER_PRO", "USER", 1, 1),
   Plan("b", "BUSINESS_PRO", "USER", 2, 0), Plan("a", "AGENCY", "AGENCY", 2, 1)}

\* m2 is newer than m1; m3 changed a file, m4 numbered two alike.
SqlFile(v, n, s) == [version |-> v, name |-> n, sha |-> s]
MCRelease ==
  [m1 |-> {SqlFile(1, "a", "x"), SqlFile(2, "b", "x")},
   m2 |-> {SqlFile(1, "a", "x"), SqlFile(2, "b", "x"), SqlFile(3, "c", "x")},
   m3 |-> {SqlFile(1, "a", "x"), SqlFile(2, "b", "y")},
   m4 |-> {SqlFile(1, "a", "x"), SqlFile(1, "b", "x")}]

MCSnapshots ==
  {[results |-> 0, quality |-> 0, freshness |-> 0, spam |-> 100],
   [results |-> 10, quality |-> 90, freshness |-> 90, spam |-> 0]}

EvidenceRow(orgs, indexed) ==
  [orgs |-> orgs, website |-> 1, address |-> orgs, quality |-> 60, sources |-> 2,
   indexed |-> indexed]
Rich == EvidenceRow(5, 1)
MCEvidences == {Rich, EvidenceRow(1, 0), NoEvidence}
MCPageType == [p \in HubPages |-> IF p = 1 THEN "CITY_CATEGORY" ELSE "WEBSITE"]

\* The parts share the model values of their symmetric sets.
Symmetry == Permutations(Clients) \cup Permutations(PaymentIds)

-----------------------------------------------------------------------------
allVars == <<part, accountVars, siteVars, mapVars, billingVars, guardVars, mapVersionVars,
             migrateVars, adminVars>>

ConsoleParts == {"domain", "gap", "page", "review", "mail", "demand", "hub"}

MCInit ==
  /\ part \in {"guesses", "logins", "webmasters", "sites", "sitemaps", "billing", "quota", "guard", "latency",
               "maps", "migrations"} \cup ConsoleParts
  /\ AccountInit /\ OwnershipInit /\ SitemapInit /\ BillingInit /\ GuardInit
  /\ MapVersionsInit /\ MigrationsInit /\ AdminInit
  /\ part \notin {"guesses", "logins", "webmasters"} => \A p \in People : consumer[p].hash = NoHash
  /\ part \notin {"billing", "quota"} => claims = {}
  /\ part # "migrations" => \A v \in MigrationVersions : recorded[v] = Unrecorded
  /\ \A p \in HubPages : evidence[p] = Rich

Events == {e \in PaymentIds : events'[e] # NoEvent}

PortalStep ==
  \/ /\ part = "guesses" /\ AccountNext
     /\ sessions' = sessions /\ wmSessions' = wmSessions
     /\ UNCHANGED <<siteVars, mapVars, billingVars>>
  \/ /\ part = "logins" /\ AccountNext /\ tried' <= 1 /\ opened' <= 1
     /\ UNCHANGED <<siteVars, mapVars, billingVars>>
  \/ /\ part = "webmasters" /\ AccountNext /\ tried' = tried /\ Len(sessions') <= 1
     /\ UNCHANGED <<siteVars, mapVars, billingVars>>
  \/ /\ part = "sites" /\ OwnershipNext
     /\ Cardinality({h \in Hosts : served'[h] # NoProof}) <= 1
     /\ \A h \in Hosts \ PublicHosts : redirect'[h] = h
     /\ UNCHANGED <<accountVars, mapVars, billingVars>>
  \/ /\ part = "sitemaps" /\ SitemapNext /\ mapAdmit'
     /\ UNCHANGED <<accountVars, siteVars, billingVars>>
  \/ /\ part = "billing" /\ BillingNext /\ consuming' = consuming
     /\ UNCHANGED <<accountVars, siteVars, mapVars>>
  \/ /\ part = "quota" /\ BillingNext /\ Cardinality(Events) <= 1
     /\ UNCHANGED <<accountVars, siteVars, mapVars>>

PlatformStep ==
  \/ /\ part = "guard" /\ GuardNext /\ observed' = observed
     /\ UNCHANGED <<mapVersionVars, migrateVars>>
  \/ /\ part = "latency" /\ GuardNext /\ arrived' = arrived /\ clock' = clock
     /\ UNCHANGED <<mapVersionVars, migrateVars>>
  \/ /\ part = "maps" /\ MapVersionsNext
     /\ UNCHANGED <<guardVars, migrateVars>>
  \/ /\ part = "migrations" /\ MigrationsNext
     /\ UNCHANGED <<guardVars, mapVersionVars>>

Building == Cardinality({b \in Builders : batch'[b] # NoBatch})

\* The console's parts move with what else writes their targets.  In the hub
\* only the first page's organizations may cease to be active.
ConsoleStep ==
  \/ part = "domain" /\ (DomainConsole \/ Sessions)
  \/ /\ part = "gap"
     /\ GapConsole \/ Sessions \/ (DemandNext /\ UNCHANGED <<consoleVars, hubVars>>)
     /\ run' = run /\ tick' <= 1
  \/ /\ part = "page"
     /\ PageConsole \/ Sessions \/ (DataHubNext /\ UNCHANGED <<consoleVars, demandVars>>)
     /\ faults' = faults /\ evidence' = evidence /\ page'[2] = page[2] /\ Building <= 1
  \/ part = "review" /\ (ReviewConsole \/ Sessions)
  \/ part = "mail" /\ (MailConsole \/ Sessions)
  \/ part = "demand" /\ DemandNext /\ UNCHANGED <<consoleVars, hubVars>>
  \/ /\ part = "hub" /\ DataHubNext /\ UNCHANGED <<consoleVars, demandVars>>
     /\ Building + faults' <= 2 /\ Active(2)' /\ \E p \in HubPages : evidence'[p] = Rich

MCNext ==
  /\ UNCHANGED part
  /\ \/ PortalStep /\ UNCHANGED <<guardVars, mapVersionVars, migrateVars, adminVars>>
     \/ PlatformStep /\ UNCHANGED <<accountVars, siteVars, mapVars, billingVars, adminVars>>
     \/ ConsoleStep /\ UNCHANGED <<accountVars, siteVars, mapVars, billingVars, guardVars,
                                   mapVersionVars, migrateVars>>

MCSpec == MCInit /\ [][MCNext]_allVars

=============================================================================
