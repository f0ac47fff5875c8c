--------------------------- MODULE SiteOwnership ----------------------------
(***************************************************************************)
(* The webmaster's sites: adding one within the plan's limit and proving   *)
(* that its host is one's own (internal/webmaster and its httpapi).        *)
(*                                                                         *)
(* A handler is a chain of statements and of requests to the host; each    *)
(* that another request may separate from the next is an action.  A token  *)
(* is the number of its challenge.                                         *)
(***************************************************************************)
EXTENDS Naturals, FiniteSets

CONSTANTS Owners, Hosts,
          PublicHosts,      \* the ones the crawler's target validation accepts
          Methods,          \* of DNS_TXT, HTML_FILE, META_TAG, the ones in use
          SiteLimit,        \* EffectiveQuota of "sites"
          MaxPending,       \* bound: requests in flight
          MaxTokens         \* bound: challenges ever created

Tokens == 1..MaxTokens
ASSUME OwnershipAssumptions ==
    /\ Methods \subseteq {"DNS_TXT", "HTML_FILE", "META_TAG"}
    /\ SiteLimit \in Nat /\ PublicHosts \subseteq Hosts
    /\ MaxPending \in Nat /\ MaxTokens \in Nat

VARIABLES site,         \* site[o][h]: status of the webmaster_sites row, "NONE" if none
          challenge,    \* challenge[t]: the webmaster_verifications row of token t
          served,       \* served[h]: the method and token host h shows, or NoProof
          shown,        \* tokens their own host ever showed for their method (history)
          redirect,     \* redirect[h]: the host that answers for h's pages
          pending       \* requests between their first and their last statement
siteVars == <<site, challenge, served, shown, redirect, pending>>

NoChallenge == [owner |-> "NONE", host |-> "NONE", method |-> "NONE", status |-> "NONE", live |-> FALSE]
NoProof == <<>>
Issued == {t \in Tokens : challenge[t] # NoChallenge}
ListSites(o) == {h \in Hosts : site[o][h] # "NONE"}
OwnedSite(o, h, verified) == IF verified THEN site[o][h] = "VERIFIED" ELSE site[o][h] # "NONE"
ValidateSiteOrigin(h) == h \in PublicHosts

StartSiteRequest(r) == Cardinality(pending) < MaxPending /\ pending' = pending \cup {r}
EndSiteRequest(r) == pending' = pending \ {r}

OwnershipTypeOK ==
    /\ site \in [Owners -> [Hosts -> {"NONE", "PENDING", "VERIFIED"}]]
    /\ \A t \in Tokens : challenge[t].status \in {"NONE", "PENDING", "VERIFIED", "REVOKED"}
    /\ served \in [Hosts -> Methods \X Tokens \cup {NoProof}] /\ shown \subseteq Tokens
    /\ redirect \in [Hosts -> Hosts]
    /\ Cardinality(pending) <= MaxPending

OwnershipInit ==
    /\ site = [o \in Owners |-> [h \in Hosts |-> "NONE"]]
    /\ challenge = [t \in Tokens |-> NoChallenge]
    /\ served = [h \in Hosts |-> NoProof] /\ shown = {}
    /\ redirect = [h \in Hosts |-> h]
    /\ pending = {}

-----------------------------------------------------------------------------
(* Sites.  The handler counts the sites and the service inserts later.     *)

PostSite(o) == \E h \in Hosts :
    /\ Cardinality(ListSites(o)) < SiteLimit
    /\ ValidateSiteOrigin(h)
    /\ StartSiteRequest([step |-> "addSite", owner |-> o, host |-> h])
    /\ UNCHANGED <<site, challenge, served, shown, redirect>>

AddSite(o, h) == site' = IF site[o][h] = "NONE" THEN [site EXCEPT ![o][h] = "PENDING"] ELSE site
SiteService(r) ==
    /\ r.step = "addSite" /\ AddSite(r.owner, r.host)
    /\ EndSiteRequest(r)
    /\ UNCHANGED <<challenge, served, shown, redirect>>

-----------------------------------------------------------------------------
(* Verification.                                                           *)

\* The pending challenge of the same method is revoked.
CreateVerification(o, h, m, t) == challenge' = [u \in Tokens |->
    IF u = t THEN [owner |-> o, host |-> h, method |-> m, status |-> "PENDING", live |-> TRUE]
    ELSE IF challenge[u].owner = o /\ challenge[u].host = h /\ challenge[u].method = m
            /\ challenge[u].status = "PENDING" THEN [challenge[u] EXCEPT !.status = "REVOKED"]
    ELSE challenge[u]]
\* NewOpaqueToken: a token that was never used before.
NewOpaqueToken(t) == t \notin Issued /\ \A u \in Tokens \ Issued : t <= u
BeginVerification(o, h, m) == \E t \in Tokens :
    OwnedSite(o, h, FALSE) /\ NewOpaqueToken(t) /\ CreateVerification(o, h, m, t)
PostVerification(o) ==
    /\ \E h \in Hosts, m \in Methods : BeginVerification(o, h, m)
    /\ UNCHANGED <<site, served, shown, redirect, pending>>

\* The three proofs.  A page counts when its final URL is on the host.
sameHost(h) == redirect[h] = h
ProofRecord(h, t) == served[h] = <<"DNS_TXT", t>>
ProofFile(h, t) == sameHost(h) /\ served[h] = <<"HTML_FILE", t>>
hasVerificationMeta(h, t) == served[h] = <<"META_TAG", t>>
ProofPage(h, t) == sameHost(h) /\ hasVerificationMeta(h, t)
\* Mutant of Verify: the page is read wherever the host redirects to.
VerifyAnywhere(h, m, t) == IF m = "DNS_TXT" THEN ProofRecord(h, t) ELSE served[redirect[h]] = <<m, t>>
Verify(h, m, t) ==
    \/ m = "DNS_TXT" /\ ProofRecord(h, t)
    \/ m = "HTML_FILE" /\ ProofFile(h, t)
    \/ m = "META_TAG" /\ ProofPage(h, t)

\* CompleteVerification up to the proof.
CompleteVerification(o, h, m, t) == OwnedSite(o, h, FALSE) /\ Verify(h, m, t)
\* Any token may be sent for any site.
PostVerify(o) == \E h \in Hosts, m \in Methods, t \in Tokens :
    /\ CompleteVerification(o, h, m, t)
    /\ StartSiteRequest([step |-> "mark", owner |-> o, host |-> h, method |-> m, token |-> t])
    /\ UNCHANGED <<site, challenge, served, shown, redirect>>

\* Mutant of Challenged: the challenge is found by its token alone.
ChallengedByToken(r) == challenge[r.token].status = "PENDING" /\ challenge[r.token].live
\* This site's own pending, unexpired challenge of that method.
Challenged(r) == challenge[r.token] = [owner |-> r.owner, host |-> r.host, method |-> r.method,
                                       status |-> "PENDING", live |-> TRUE]
MarkVerified(r) ==
    /\ r.step = "mark"
    /\ IF Challenged(r)
       THEN /\ challenge' = [challenge EXCEPT ![r.token].status = "VERIFIED"]
            /\ site' = [site EXCEPT ![r.owner][r.host] = "VERIFIED"]
       ELSE UNCHANGED <<challenge, site>>
    /\ EndSiteRequest(r)
    /\ UNCHANGED <<served, shown, redirect>>

-----------------------------------------------------------------------------
(* The hosts and time.                                                     *)

Publish == \E h \in Hosts, m \in Methods, t \in Issued :
    /\ served' = [served EXCEPT ![h] = <<m, t>>]
    /\ shown' = IF challenge[t].host = h /\ challenge[t].method = m THEN shown \cup {t} ELSE shown
    /\ UNCHANGED <<site, challenge, redirect, pending>>
Withdraw == \E h \in Hosts :
    /\ served' = [served EXCEPT ![h] = NoProof]
    /\ UNCHANGED <<site, challenge, shown, redirect, pending>>
Redirect == \E h, g \in Hosts :
    /\ redirect[h] # g
    /\ redirect' = [redirect EXCEPT ![h] = g]
    /\ UNCHANGED <<site, challenge, served, shown, pending>>
ChallengeExpires == \E t \in Issued :
    /\ challenge[t].live
    /\ challenge' = [challenge EXCEPT ![t].live = FALSE]
    /\ UNCHANGED <<site, served, shown, redirect, pending>>
SiteRequestFails(r) ==
    /\ EndSiteRequest(r)
    /\ UNCHANGED <<site, challenge, served, shown, redirect>>

OwnershipNext ==
    \/ \E o \in Owners : PostSite(o) \/ PostVerification(o) \/ PostVerify(o)
    \/ \E r \in pending : SiteService(r) \/ MarkVerified(r) \/ SiteRequestFails(r)
    \/ Publish \/ Withdraw \/ Redirect \/ ChallengeExpires

OwnershipSpec == OwnershipInit /\ [][OwnershipNext]_siteVars

-----------------------------------------------------------------------------
(* A verified site rests on a proof of its own: one challenge, issued to   *)
(* its owner for its host, was completed, and the host itself showed that  *)
(* token for that method - whoever else published, redirected or began     *)
(* another challenge between the fetch and the update.                     *)
VerifiedByOwnProof == OwnershipTypeOK /\ \A o \in Owners, h \in Hosts :
    (site[o][h] = "VERIFIED") <=>
        \E t \in Issued : /\ challenge[t].owner = o /\ challenge[t].host = h
                          /\ challenge[t].status = "VERIFIED"
                          /\ t \in shown
=============================================================================
