---------------------------- MODULE PortalProofs ----------------------------
(***************************************************************************)
(* Theorems about the webmaster portal for any number of owners, hosts,    *)
(* tokens and requests.                                                    *)
(*                                                                         *)
(* Sites (SiteOwnership).  The inductive invariant SiteInv adds to         *)
(* VerifiedByOwnProof what is known between the fetch of a proof and the   *)
(* update: a token that a host serves, or that a request has seen served,  *)
(* was issued, and was shown by its own host if it was issued for it.      *)
(*                                                                         *)
(* Sitemaps (SitemapQueue).  MapInv adds to FetchedIsStored what a worker  *)
(* knows about the sitemap in its hands: its row exists, so that its depth *)
(* is fixed, and in phase "complete" everything it lists is stored already *)
(* - whoever holds the lease by then.                                      *)
(*                                                                         *)
(* Billing.  BillInv adds to BillingIsExact that an entry of the ledger    *)
(* belongs to an invoice and to a stored event, so that an event is        *)
(* entered once, and that a request between its read and its write knows   *)
(* the limit of its period, which no step changes.  What was refunded is a *)
(* sum over a set: TotalAdds shows that each entry adds its amount to it,  *)
(* in whatever order the fold takes them.                                  *)
(*                                                                         *)
(* Accounts.  AccountInv adds to AccountsBounded what racing requests can  *)
(* still do: the failures that passed the lock and are not recorded yet    *)
(* (GuessInv), and, for every subset of the webmaster logins between their *)
(* count and their insert, the rows that would be left if just those went  *)
(* through (InsertInv).                                                    *)
(***************************************************************************)
EXTENDS SiteOwnership, SitemapQueue, Billing, Accounts, OrderingProofs

ChallengeRow ==
    [owner : Owners \cup {"NONE"}, host : Hosts \cup {"NONE"}, method : Methods \cup {"NONE"},
     status : {"NONE", "PENDING", "VERIFIED", "REVOKED"}, live : BOOLEAN]
SiteRequests ==
    [step : {"addSite"}, owner : Owners, host : Hosts]
    \cup [step : {"mark"}, owner : Owners, host : Hosts, method : Methods, token : Tokens]

SiteShape ==
    /\ OwnershipTypeOK
    /\ challenge \in [Tokens -> ChallengeRow]
    /\ \A t \in Tokens : challenge[t].status = "NONE" => challenge[t] = NoChallenge
    /\ pending \subseteq SiteRequests /\ IsFiniteSet(pending)

\* A token seen at a host for a method: issued, and shown if meant for them.
SeenAt(t, h, m) ==
    /\ challenge[t].status # "NONE"
    /\ challenge[t].host = h /\ challenge[t].method = m => t \in shown
ServedIsSeen == \A h \in Hosts, m \in Methods, t \in Tokens : served[h] = <<m, t>> => SeenAt(t, h, m)
MarkIsSeen == \A r \in pending : r.step = "mark" => SeenAt(r.token, r.host, r.method)

\* A completed challenge was shown and is one of a verified site; a verified
\* site has one.
CompletedVerifies == \A t \in Tokens : challenge[t].status = "VERIFIED" =>
    /\ t \in shown
    /\ challenge[t].owner \in Owners /\ challenge[t].host \in Hosts
    /\ site[challenge[t].owner][challenge[t].host] = "VERIFIED"
VerifiedHasChallenge == \A o \in Owners, h \in Hosts : site[o][h] = "VERIFIED" =>
    \E t \in Tokens : challenge[t].status = "VERIFIED" /\ challenge[t].owner = o /\ challenge[t].host = h

SiteInv == SiteShape /\ ServedIsSeen /\ MarkIsSeen /\ CompletedVerifies /\ VerifiedHasChallenge

(* SiteInv is strong enough: the equivalence of VerifiedByOwnProof.        *)
LEMMA SiteInvImplies == SiteInv => VerifiedByOwnProof
<1> SUFFICES ASSUME SiteInv PROVE VerifiedByOwnProof
  OBVIOUS
<1> USE DEF SiteInv, SiteShape
<1>1. \A t \in Tokens : challenge[t].status = "VERIFIED" => t \in Issued
  <2> NoChallenge.status = "NONE"
    BY DEF NoChallenge
  <2> QED BY DEF Issued
<1>2. ASSUME NEW o \in Owners, NEW h \in Hosts, site[o][h] = "VERIFIED"
      PROVE  \E t \in Issued : /\ challenge[t].owner = o /\ challenge[t].host = h
                               /\ challenge[t].status = "VERIFIED" /\ t \in shown
  <2>1. PICK t \in Tokens : /\ challenge[t].status = "VERIFIED"
                            /\ challenge[t].owner = o /\ challenge[t].host = h
    BY <1>2 DEF VerifiedHasChallenge
  <2> QED BY <1>1, <2>1 DEF CompletedVerifies
<1>3. ASSUME NEW o \in Owners, NEW h \in Hosts, NEW t \in Issued,
             challenge[t].owner = o, challenge[t].host = h, challenge[t].status = "VERIFIED"
      PROVE  site[o][h] = "VERIFIED"
  <2>1. t \in Tokens
    BY DEF Issued
  <2> QED BY <1>3, <2>1 DEF CompletedVerifies
<1> QED BY <1>2, <1>3 DEF VerifiedByOwnProof

(* No site, challenge or request exists at the start.                      *)
LEMMA SiteInitial == OwnershipInit => SiteInv
<1> SUFFICES ASSUME OwnershipInit PROVE SiteInv
  OBVIOUS
<1> USE OwnershipAssumptions DEF OwnershipAssumptions, OwnershipInit
<1>1. NoChallenge \in ChallengeRow /\ NoChallenge.status = "NONE"
  BY DEF NoChallenge, ChallengeRow
<1>2. /\ challenge \in [Tokens -> ChallengeRow]
      /\ \A t \in Tokens : challenge[t] = NoChallenge /\ challenge[t].status = "NONE"
  BY <1>1
<1>3. pending \subseteq SiteRequests /\ IsFiniteSet(pending) /\ Cardinality(pending) <= MaxPending
  BY FS_EmptySet
<1>4. OwnershipTypeOK
  BY <1>2, <1>3 DEF OwnershipTypeOK
<1>5. SiteShape
  BY <1>2, <1>3, <1>4 DEF SiteShape
<1>6. ServedIsSeen
  BY DEF ServedIsSeen, NoProof
<1>7. MarkIsSeen /\ CompletedVerifies /\ VerifiedHasChallenge
  BY <1>2 DEF MarkIsSeen, CompletedVerifies, VerifiedHasChallenge
<1> QED BY <1>5, <1>6, <1>7 DEF SiteInv

(* The requests in flight: a started or ended one keeps their number       *)
(* within the bound and their shape (StartSiteRequest, EndSiteRequest).    *)
LEMMA SiteRequestStep ==
    ASSUME pending \subseteq SiteRequests, IsFiniteSet(pending), Cardinality(pending) <= MaxPending,
           NEW r,
           (r \in SiteRequests /\ StartSiteRequest(r)) \/ EndSiteRequest(r)
    PROVE  /\ pending' \subseteq SiteRequests /\ IsFiniteSet(pending')
           /\ Cardinality(pending') <= MaxPending
           /\ EndSiteRequest(r) => pending' \subseteq pending
<1> USE OwnershipAssumptions DEF OwnershipAssumptions
<1>0. Cardinality(pending) \in Nat
  BY FS_CardinalityType
<1>1. CASE r \in SiteRequests /\ StartSiteRequest(r)
  <2>1. pending' = pending \cup {r} /\ Cardinality(pending) < MaxPending
    BY <1>1 DEF StartSiteRequest
  <2>2. IsFiniteSet(pending') /\ Cardinality(pending') <= Cardinality(pending) + 1
    BY <1>0, <2>1, FS_AddElement
  <2>3. EndSiteRequest(r) => pending' \subseteq pending
    BY DEF EndSiteRequest
  <2> QED BY <1>0, <1>1, <2>1, <2>2, <2>3, FS_CardinalityType
<1>2. CASE EndSiteRequest(r)
  <2>1. pending' \in SUBSET pending
    BY <1>2 DEF EndSiteRequest
  <2>2. IsFiniteSet(pending') /\ Cardinality(pending') <= Cardinality(pending)
    BY <2>1, FS_Subset
  <2> QED BY <1>0, <2>1, <2>2, FS_CardinalityType
<1> QED BY <1>1, <1>2

(* Every operation of the portal, every host and the clock keep SiteInv.   *)
LEMMA SiteStep == SiteInv /\ [OwnershipNext]_siteVars => SiteInv'
<1> SUFFICES ASSUME SiteInv, [OwnershipNext]_siteVars PROVE SiteInv'
  OBVIOUS
<1> USE OwnershipAssumptions DEF OwnershipAssumptions
<1> DEFINE Untouched == UNCHANGED <<site, challenge, served, shown>>
           Rows == /\ site' \in [Owners -> [Hosts -> {"NONE", "PENDING", "VERIFIED"}]]
                   /\ challenge' \in [Tokens -> ChallengeRow]
                   /\ \A t \in Tokens : challenge'[t].status = "NONE" => challenge'[t] = NoChallenge
           Proofs == /\ served' \in [Hosts -> Methods \X Tokens \cup {NoProof}]
                     /\ shown' \subseteq Tokens /\ redirect' \in [Hosts -> Hosts]
           Requests == /\ pending' \subseteq SiteRequests /\ IsFiniteSet(pending')
                       /\ Cardinality(pending') <= MaxPending
<1>0. /\ site \in [Owners -> [Hosts -> {"NONE", "PENDING", "VERIFIED"}]]
      /\ challenge \in [Tokens -> ChallengeRow]
      /\ \A t \in Tokens : challenge[t].status = "NONE" => challenge[t] = NoChallenge
      /\ served \in [Hosts -> Methods \X Tokens \cup {NoProof}]
      /\ shown \subseteq Tokens /\ redirect \in [Hosts -> Hosts]
      /\ pending \subseteq SiteRequests /\ IsFiniteSet(pending) /\ Cardinality(pending) <= MaxPending
      /\ ServedIsSeen /\ MarkIsSeen /\ CompletedVerifies /\ VerifiedHasChallenge
  BY DEF SiteInv, SiteShape, OwnershipTypeOK
<1>s. ASSUME Rows, Proofs, Requests PROVE SiteShape'
  <2>1. \A t \in Tokens : challenge'[t].status \in {"NONE", "PENDING", "VERIFIED", "REVOKED"}
    BY <1>s DEF ChallengeRow
  <2> QED BY <1>s, <2>1 DEF SiteShape, OwnershipTypeOK, Tokens, SiteRequests, ChallengeRow, NoProof, NoChallenge
<1>u. ASSUME Untouched, redirect' \in [Hosts -> Hosts], Requests,
             \A r \in pending' : r \in pending \/ (r.step = "mark" => SeenAt(r.token, r.host, r.method))
      PROVE  SiteInv'
  <2>1. Rows /\ Proofs
    BY <1>0, <1>u
  <2>2. ServedIsSeen' /\ CompletedVerifies' /\ VerifiedHasChallenge'
    BY <1>0, <1>u DEF ServedIsSeen, CompletedVerifies, VerifiedHasChallenge, SeenAt, Tokens
  <2>3. MarkIsSeen'
    BY <1>0, <1>u DEF MarkIsSeen, SeenAt
  <2> QED BY <1>s, <1>u, <2>1, <2>2, <2>3 DEF SiteInv
<1>1. ASSUME NEW o \in Owners, PostSite(o) PROVE SiteInv'
  <2>1. PICK h \in Hosts : StartSiteRequest([step |-> "addSite", owner |-> o, host |-> h])
    BY <1>1 DEF PostSite
  <2> DEFINE r == [step |-> "addSite", owner |-> o, host |-> h]
  <2>2. r \in SiteRequests /\ r.step = "addSite"
    BY DEF SiteRequests
  <2>3. StartSiteRequest(r) /\ pending' = pending \cup {r}
    BY <2>1 DEF StartSiteRequest
  <2>4. Untouched /\ redirect' = redirect
    BY <1>1 DEF PostSite
  <2> HIDE DEF r
  <2>5. Requests
    BY <1>0, <2>2, <2>3, SiteRequestStep
  <2> QED BY <1>0, <1>u, <2>2, <2>3, <2>4, <2>5
<1>2. ASSUME NEW o \in Owners, PostVerification(o) PROVE SiteInv'
  <2>1. PICK h \in Hosts, m \in Methods, t \in Tokens :
           NewOpaqueToken(t) /\ CreateVerification(o, h, m, t)
    BY <1>2 DEF PostVerification, BeginVerification
  <2> DEFINE new == [owner |-> o, host |-> h, method |-> m, status |-> "PENDING", live |-> TRUE]
             Revoked(u) == [challenge[u] EXCEPT !.status = "REVOKED"]
  <2>2. UNCHANGED <<site, served, shown, redirect, pending>>
    BY <1>2 DEF PostVerification
  <2>3. challenge[t].status = "NONE"
    BY <1>0, <2>1 DEF NewOpaqueToken, Issued, NoChallenge
  <2>4. new \in ChallengeRow /\ new.status = "PENDING"
    BY DEF ChallengeRow
  <2>5. \A u \in Tokens : /\ Revoked(u) \in ChallengeRow /\ Revoked(u).status = "REVOKED"
                          /\ Revoked(u).host = challenge[u].host /\ Revoked(u).method = challenge[u].method
    <3> TAKE u \in Tokens
    <3>1. challenge[u] \in ChallengeRow
      BY <1>0
    <3> QED BY <3>1 DEF ChallengeRow
  <2>6. /\ challenge' = [u \in Tokens |-> challenge'[u]]
        /\ challenge'[t] = new
        /\ \A u \in Tokens \ {t} :
             \/ challenge'[u] = challenge[u]
             \/ challenge[u].status = "PENDING" /\ challenge'[u] = Revoked(u)
    BY <2>1 DEF CreateVerification
  <2> HIDE DEF new, Revoked
  <2>7. \A u \in Tokens \ {t} :
          /\ challenge'[u] \in ChallengeRow
          /\ challenge'[u].host = challenge[u].host /\ challenge'[u].method = challenge[u].method
          /\ challenge[u].status # "NONE" => challenge'[u].status # "NONE"
          /\ challenge'[u].status = "NONE" => challenge'[u] = challenge[u]
          /\ challenge[u].status = "VERIFIED" => challenge'[u] = challenge[u]
          /\ challenge'[u].status = "VERIFIED" => challenge'[u] = challenge[u]
    BY <1>0, <2>5, <2>6
  <2>8. Rows
    <3>1. \A u \in Tokens : challenge'[u] \in ChallengeRow
      BY <2>4, <2>6, <2>7
    <3>2. \A u \in Tokens : challenge'[u].status = "NONE" => challenge'[u] = NoChallenge
      BY <1>0, <2>4, <2>6, <2>7
    <3> QED BY <1>0, <2>2, <2>6, <3>1, <3>2
  <2>9. \A u \in Tokens, g \in Hosts, n \in Methods : SeenAt(u, g, n) => SeenAt(u, g, n)'
    BY <2>2, <2>3, <2>7 DEF SeenAt
  <2>10. ServedIsSeen'
    BY <1>0, <2>2, <2>9 DEF ServedIsSeen, Tokens
  <2>11. MarkIsSeen'
    <3> \A r \in pending : r.step = "mark" => r.token \in Tokens /\ r.host \in Hosts /\ r.method \in Methods
      BY <1>0 DEF SiteRequests
    <3> QED BY <1>0, <2>2, <2>9 DEF MarkIsSeen
  <2>12. CompletedVerifies'
    <3>1. \A u \in Tokens : challenge'[u].status = "VERIFIED" => challenge'[u] = challenge[u]
      BY <2>4, <2>6, <2>7
    <3> QED BY <1>0, <2>2, <3>1 DEF CompletedVerifies, Tokens
  <2>13. VerifiedHasChallenge'
    <3>1. \A u \in Tokens : challenge[u].status = "VERIFIED" => challenge'[u] = challenge[u]
      BY <2>3, <2>7
    <3>2. ASSUME NEW p \in Owners, NEW g \in Hosts, site'[p][g] = "VERIFIED"
          PROVE  \E u \in Tokens : challenge'[u].status = "VERIFIED" /\ challenge'[u].owner = p /\ challenge'[u].host = g
      <4>1. PICK u \in Tokens : challenge[u].status = "VERIFIED" /\ challenge[u].owner = p /\ challenge[u].host = g
        BY <1>0, <2>2, <3>2 DEF VerifiedHasChallenge
      <4> QED BY <3>1, <4>1
    <3>3. Tokens' = Tokens
      BY DEF Tokens
    <3> QED BY <3>2, <3>3 DEF VerifiedHasChallenge
  <2> QED BY <1>0, <1>s, <2>2, <2>8, <2>10, <2>11, <2>12, <2>13 DEF SiteInv
<1>3. ASSUME NEW o \in Owners, PostVerify(o) PROVE SiteInv'
  <2>1. PICK h \in Hosts, m \in Methods, t \in Tokens :
          /\ Verify(h, m, t)
          /\ StartSiteRequest([step |-> "mark", owner |-> o, host |-> h, method |-> m, token |-> t])
    BY <1>3 DEF PostVerify, CompleteVerification
  <2> DEFINE r == [step |-> "mark", owner |-> o, host |-> h, method |-> m, token |-> t]
  <2>2. /\ r \in SiteRequests
        /\ r.token = t /\ r.host = h /\ r.method = m
    BY DEF SiteRequests
  <2>3. StartSiteRequest(r) /\ pending' = pending \cup {r}
    BY <2>1 DEF StartSiteRequest
  <2>4. Untouched /\ redirect' = redirect
    BY <1>3 DEF PostVerify
  <2>5. served[h] = <<m, t>>
    BY <2>1 DEF Verify, ProofRecord, ProofFile, ProofPage, hasVerificationMeta
  <2>6. SeenAt(t, h, m)
    BY <1>0, <2>5 DEF ServedIsSeen
  <2> HIDE DEF r
  <2>7. Requests
    BY <1>0, <2>2, <2>3, SiteRequestStep
  <2> QED BY <1>0, <1>u, <2>2, <2>3, <2>4, <2>6, <2>7
<1>4. ASSUME NEW r \in pending, SiteService(r) PROVE SiteInv'
  <2>1. /\ EndSiteRequest(r) /\ UNCHANGED <<challenge, served, shown, redirect>>
        /\ r.step = "addSite" /\ AddSite(r.owner, r.host)
    BY <1>4 DEF SiteService
  <2>2. Requests /\ pending' \subseteq pending
    BY <1>0, <2>1, SiteRequestStep
  <2>3. r.owner \in Owners /\ r.host \in Hosts
    BY <1>0 DEF SiteRequests
  <2>4. /\ site' \in [Owners -> [Hosts -> {"NONE", "PENDING", "VERIFIED"}]]
        /\ \A o \in Owners, h \in Hosts : site'[o][h] = "VERIFIED" <=> site[o][h] = "VERIFIED"
    BY <1>0, <2>1, <2>3 DEF AddSite
  <2>5. Rows /\ Proofs
    BY <1>0, <2>1, <2>4
  <2>6. ServedIsSeen' /\ MarkIsSeen'
    BY <1>0, <2>1, <2>2 DEF ServedIsSeen, MarkIsSeen, SeenAt, Tokens
  <2>7. CompletedVerifies' /\ VerifiedHasChallenge'
    BY <1>0, <2>1, <2>4 DEF CompletedVerifies, VerifiedHasChallenge, Tokens
  <2> QED BY <1>s, <2>2, <2>5, <2>6, <2>7 DEF SiteInv
<1>5. ASSUME NEW r \in pending, MarkVerified(r) PROVE SiteInv'
  <2>1. EndSiteRequest(r) /\ UNCHANGED <<served, shown, redirect>> /\ r.step = "mark"
    BY <1>5 DEF MarkVerified
  <2>2. Requests /\ pending' \subseteq pending
    BY <1>0, <2>1, SiteRequestStep
  <2>3. r.owner \in Owners /\ r.host \in Hosts /\ r.method \in Methods /\ r.token \in Tokens
    BY <1>0, <2>1 DEF SiteRequests
  <2>4. CASE ~Challenged(r)
    <3>1. Untouched
      BY <1>5, <2>1, <2>4 DEF MarkVerified
    <3> QED BY <1>0, <1>u, <2>1, <2>2, <3>1
  <2>5. CASE Challenged(r)
    <3> DEFINE t == r.token
               done == [challenge[t] EXCEPT !.status = "VERIFIED"]
    <3>1. /\ challenge' = [challenge EXCEPT ![t] = done]
          /\ site' = [site EXCEPT ![r.owner][r.host] = "VERIFIED"]
      BY <1>0, <1>5, <2>3, <2>5 DEF MarkVerified
    <3>2. /\ challenge[t].owner = r.owner /\ challenge[t].host = r.host
          /\ challenge[t].method = r.method /\ challenge[t].status = "PENDING"
      BY <2>5 DEF Challenged
    <3>3. t \in shown
      BY <1>0, <2>1, <3>2 DEF MarkIsSeen, SeenAt
    <3>4. /\ done \in ChallengeRow /\ done.status = "VERIFIED"
          /\ done.owner = r.owner /\ done.host = r.host /\ done.method = r.method
      BY <1>0, <2>3, <3>2, SMTT(40) DEF ChallengeRow
    <3>5. t \in Tokens
      BY <2>3
    <3> HIDE DEF t, done
    <3>6. /\ challenge'[t] = done
          /\ \A u \in Tokens \ {t} : challenge'[u] = challenge[u]
          /\ challenge' = [u \in Tokens |-> challenge'[u]]
      BY <1>0, <3>1, <3>5
    <3>7. /\ site' \in [Owners -> [Hosts -> {"NONE", "PENDING", "VERIFIED"}]]
          /\ site'[r.owner][r.host] = "VERIFIED"
          /\ \A o \in Owners, h \in Hosts : site[o][h] = "VERIFIED" => site'[o][h] = "VERIFIED"
          /\ \A o \in Owners, h \in Hosts : site'[o][h] = "VERIFIED" =>
               site[o][h] = "VERIFIED" \/ (o = r.owner /\ h = r.host)
      BY <1>0, <2>3, <3>1
    <3>8. Rows
      BY <1>0, <3>4, <3>5, <3>6, <3>7
    <3>9. Proofs
      BY <1>0, <2>1
    <3>10. \A u \in Tokens, g \in Hosts, n \in Methods : SeenAt(u, g, n) => SeenAt(u, g, n)'
      BY <2>1, <3>3, <3>4, <3>6 DEF SeenAt
    <3>11. ServedIsSeen'
      BY <1>0, <2>1, <3>10 DEF ServedIsSeen, Tokens
    <3>12. MarkIsSeen'
      <4> \A q \in pending : q.step = "mark" => q.token \in Tokens /\ q.host \in Hosts /\ q.method \in Methods
        BY <1>0 DEF SiteRequests
      <4> QED BY <1>0, <2>2, <3>10 DEF MarkIsSeen
    <3>13. CompletedVerifies'
      <4> SUFFICES ASSUME NEW u \in Tokens, challenge'[u].status = "VERIFIED"
                   PROVE  /\ u \in shown'
                          /\ challenge'[u].owner \in Owners /\ challenge'[u].host \in Hosts
                          /\ site'[challenge'[u].owner][challenge'[u].host] = "VERIFIED"
        BY DEF CompletedVerifies, Tokens
      <4>1. CASE u = t
        BY <2>1, <2>3, <3>3, <3>4, <3>6, <3>7, <4>1
      <4>2. CASE u # t
        <5>1. challenge'[u] = challenge[u]
          BY <3>6, <4>2
        <5> QED BY <1>0, <2>1, <3>7, <5>1 DEF CompletedVerifies
      <4> QED BY <4>1, <4>2
    <3>14. VerifiedHasChallenge'
      <4>1. \A u \in Tokens : challenge[u].status = "VERIFIED" => challenge'[u] = challenge[u]
        BY <3>2, <3>6 DEF t
      <4> SUFFICES ASSUME NEW o \in Owners, NEW h \in Hosts, site'[o][h] = "VERIFIED"
                   PROVE  \E u \in Tokens : /\ challenge'[u].status = "VERIFIED"
                                            /\ challenge'[u].owner = o /\ challenge'[u].host = h
        BY DEF VerifiedHasChallenge, Tokens
      <4>2. CASE o = r.owner /\ h = r.host
        BY <3>4, <3>5, <3>6, <4>2
      <4>3. CASE ~(o = r.owner /\ h = r.host)
        <5>1. PICK u \in Tokens : /\ challenge[u].status = "VERIFIED"
                                  /\ challenge[u].owner = o /\ challenge[u].host = h
          BY <1>0, <3>7, <4>3 DEF VerifiedHasChallenge
        <5> QED BY <4>1, <5>1
      <4> QED BY <4>2, <4>3
    <3> QED BY <1>s, <2>2, <3>8, <3>9, <3>11, <3>12, <3>13, <3>14 DEF SiteInv
  <2> QED BY <2>4, <2>5
<1>6. ASSUME NEW r \in pending, SiteRequestFails(r) PROVE SiteInv'
  <2>1. EndSiteRequest(r) /\ Untouched /\ redirect' = redirect
    BY <1>6 DEF SiteRequestFails
  <2>2. Requests /\ pending' \subseteq pending
    BY <1>0, <2>1, SiteRequestStep
  <2> QED BY <1>0, <1>u, <2>1, <2>2
<1>7. CASE Publish
  <2>1. PICK h \in Hosts, m \in Methods, t \in Issued :
          /\ served' = [served EXCEPT ![h] = <<m, t>>]
          /\ shown' = IF challenge[t].host = h /\ challenge[t].method = m THEN shown \cup {t} ELSE shown
    BY <1>7 DEF Publish
  <2>2. UNCHANGED <<site, challenge, redirect, pending>>
    BY <1>7 DEF Publish
  <2>3. t \in Tokens /\ challenge[t].status # "NONE"
    BY <1>0 DEF Issued
  <2>4. Rows /\ Requests
    BY <1>0, <2>2
  <2>5. Proofs /\ shown \subseteq shown'
    BY <1>0, <2>1, <2>2, <2>3
  <2>6. \A u \in Tokens, g \in Hosts, n \in Methods : SeenAt(u, g, n) => SeenAt(u, g, n)'
    BY <2>2, <2>5 DEF SeenAt
  <2>7. SeenAt(t, h, m)'
    BY <2>1, <2>2, <2>3 DEF SeenAt
  <2>8. ServedIsSeen'
    <3> SUFFICES ASSUME NEW g \in Hosts, NEW n \in Methods, NEW u \in Tokens, served'[g] = <<n, u>>
                 PROVE  SeenAt(u, g, n)'
      BY DEF ServedIsSeen, Tokens
    <3>1. CASE g = h
      BY <1>0, <2>1, <2>7, <3>1
    <3>2. CASE g # h
      BY <1>0, <2>1, <2>6, <3>2 DEF ServedIsSeen
    <3> QED BY <3>1, <3>2
  <2>9. MarkIsSeen'
    <3> \A q \in pending : q.step = "mark" => q.token \in Tokens /\ q.host \in Hosts /\ q.method \in Methods
      BY <1>0 DEF SiteRequests
    <3> QED BY <1>0, <2>2, <2>6 DEF MarkIsSeen
  <2>10. CompletedVerifies' /\ VerifiedHasChallenge'
    BY <1>0, <2>2, <2>5 DEF CompletedVerifies, VerifiedHasChallenge, Tokens
  <2> QED BY <1>s, <2>4, <2>5, <2>8, <2>9, <2>10 DEF SiteInv
<1>8. CASE Withdraw
  <2>1. PICK h \in Hosts : served' = [served EXCEPT ![h] = NoProof]
    BY <1>8 DEF Withdraw
  <2>2. UNCHANGED <<site, challenge, shown, redirect, pending>>
    BY <1>8 DEF Withdraw
  <2>3. Rows /\ Proofs /\ Requests
    BY <1>0, <2>1, <2>2
  <2>4. ServedIsSeen'
    <3> SUFFICES ASSUME NEW g \in Hosts, NEW n \in Methods, NEW u \in Tokens, served'[g] = <<n, u>>
                 PROVE  SeenAt(u, g, n)
      BY <2>2 DEF ServedIsSeen, Tokens, SeenAt
    <3>1. g # h
      BY <1>0, <2>1 DEF NoProof
    <3> QED BY <1>0, <2>1, <3>1 DEF ServedIsSeen
  <2>5. MarkIsSeen' /\ CompletedVerifies' /\ VerifiedHasChallenge'
    BY <1>0, <2>2 DEF MarkIsSeen, SeenAt, CompletedVerifies, VerifiedHasChallenge, Tokens
  <2> QED BY <1>s, <2>3, <2>4, <2>5 DEF SiteInv
<1>9. CASE Redirect
  <2>1. Untouched /\ pending' = pending /\ redirect' \in [Hosts -> Hosts]
    BY <1>0, <1>9 DEF Redirect
  <2>2. Requests
    BY <1>0, <2>1
  <2> QED BY <1>0, <1>u, <2>1, <2>2
<1>10. CASE ChallengeExpires
  <2>1. PICK t \in Issued : challenge' = [challenge EXCEPT ![t].live = FALSE]
    BY <1>10 DEF ChallengeExpires
  <2>2. UNCHANGED <<site, served, shown, redirect, pending>>
    BY <1>10 DEF ChallengeExpires
  <2> DEFINE late == [challenge[t] EXCEPT !.live = FALSE]
  <2>3. t \in Tokens /\ challenge[t].status # "NONE"
    BY <1>0 DEF Issued
  <2>4. /\ late \in ChallengeRow /\ late.status = challenge[t].status
        /\ late.owner = challenge[t].owner /\ late.host = challenge[t].host
        /\ late.method = challenge[t].method
    BY <1>0, <2>3, ZenonT(60) DEF ChallengeRow
  <2>5. challenge' = [challenge EXCEPT ![t] = late]
    BY <1>0, <2>1, <2>3
  <2> HIDE DEF late
  <2>6. \A u \in Tokens :
          /\ challenge'[u] \in ChallengeRow /\ challenge'[u].status = challenge[u].status
          /\ challenge'[u].owner = challenge[u].owner /\ challenge'[u].host = challenge[u].host
          /\ challenge'[u].method = challenge[u].method
          /\ u # t => challenge'[u] = challenge[u]
    BY <1>0, <2>3, <2>4, <2>5
  <2>7. Rows
    BY <1>0, <2>2, <2>3, <2>5, <2>6
  <2>8. Proofs /\ Requests
    BY <1>0, <2>2
  <2>9. \A u \in Tokens, g \in Hosts, n \in Methods : SeenAt(u, g, n) => SeenAt(u, g, n)'
    BY <2>2, <2>6 DEF SeenAt
  <2>10. ServedIsSeen'
    BY <1>0, <2>2, <2>9 DEF ServedIsSeen, Tokens
  <2>11. MarkIsSeen'
    <3> \A q \in pending : q.step = "mark" => q.token \in Tokens /\ q.host \in Hosts /\ q.method \in Methods
      BY <1>0 DEF SiteRequests
    <3> QED BY <1>0, <2>2, <2>9 DEF MarkIsSeen
  <2>12. CompletedVerifies' /\ VerifiedHasChallenge'
    <3>1. CompletedVerifies'
      <4> SUFFICES ASSUME NEW u \in Tokens, challenge'[u].status = "VERIFIED"
                   PROVE  /\ u \in shown'
                          /\ challenge'[u].owner \in Owners /\ challenge'[u].host \in Hosts
                          /\ site'[challenge'[u].owner][challenge'[u].host] = "VERIFIED"
        BY DEF CompletedVerifies, Tokens
      <4> QED BY <1>0, <2>2, <2>6 DEF CompletedVerifies
    <3>2. VerifiedHasChallenge'
      <4> SUFFICES ASSUME NEW o \in Owners, NEW h \in Hosts, site'[o][h] = "VERIFIED"
                   PROVE  \E u \in Tokens : /\ challenge'[u].status = "VERIFIED"
                                            /\ challenge'[u].owner = o /\ challenge'[u].host = h
        BY DEF VerifiedHasChallenge, Tokens
      <4>1. PICK u \in Tokens : /\ challenge[u].status = "VERIFIED"
                                /\ challenge[u].owner = o /\ challenge[u].host = h
        BY <1>0, <2>2 DEF VerifiedHasChallenge
      <4> QED BY <2>6, <4>1
    <3> QED BY <3>1, <3>2
  <2> QED BY <1>s, <2>7, <2>8, <2>10, <2>11, <2>12 DEF SiteInv
<1>11. CASE UNCHANGED siteVars
  <2>1. Untouched /\ pending' = pending /\ redirect' = redirect
    BY <1>11 DEF siteVars
  <2>2. Requests
    BY <1>0, <2>1
  <2> QED BY <1>0, <1>u, <2>1, <2>2
<1> QED BY <1>1, <1>2, <1>3, <1>4, <1>5, <1>6, <1>7, <1>8, <1>9, <1>10, <1>11 DEF OwnershipNext

(* For any number of owners, hosts and requests a site is VERIFIED exactly *)
(* when a challenge of its owner for its host was completed with a proof   *)
(* the host itself showed (webmaster/service.go, verify.go).               *)
THEOREM SitesVerifiedByOwnProof == OwnershipSpec => []VerifiedByOwnProof
<1>1. SiteInv /\ [OwnershipNext]_siteVars => SiteInv'
  BY SiteStep
<1> QED BY <1>1, SiteInitial, SiteInvImplies, PTL DEF OwnershipSpec
-----------------------------------------------------------------------------
MapPhases == {"sweep", "lease", "next", "store", "complete", "retry"}
InHand == {"store", "complete", "retry"}
MapRow ==
    [status : {"NONE", "SUBMITTED", "LEASED", "RETRY", "FETCHED", "FAILED"}, attempts : 0..MaxTries,
     depth : 0..MapDepth, due : BOOLEAN, live : BOOLEAN,
     owner : {WorkerID[w] : w \in MapWorkers} \cup {"NONE"}]
\* A row is leased exactly as long as it has an owner.
LeaseOwned(r) == (r.status = "LEASED") = (r.owner # "NONE")
MapMemory == [phase : MapPhases, batch : SUBSET Maps, task : Maps \cup {"NONE"}]

MapShape ==
    /\ smap \in [Maps -> MapRow]
    /\ \A m \in Maps : LeaseOwned(smap[m])
    /\ queuedPages \subseteq listedPages /\ listedPages \subseteq Pages
    /\ mworker \in [MapWorkers -> MapMemory]
    /\ \A w \in MapWorkers : Cardinality(mworker[w].batch) <= MapBatch

StoredMap(m) ==
    /\ ~Refused(m)
    /\ ownedNormalizedURLs(m) \subseteq
          IF SitemapKind(m) = "urlset"
          THEN queuedPages \cup (BlockedPages \cap listedPages)
          ELSE {c \in Maps : smap[c].status # "NONE"}
FetchedStored == \A m \in Maps : smap[m].status = "FETCHED" => StoredMap(m)

\* What worker w may rely on.
WorkerKnows(w) ==
    /\ \A m \in mworker[w].batch : smap[m].status # "NONE"
    /\ mworker[w].phase \in InHand => mworker[w].task \in mworker[w].batch
    /\ mworker[w].phase = "store" => ~Refused(mworker[w].task)
    /\ mworker[w].phase = "complete" => StoredMap(mworker[w].task)
WorkersKnow == \A w \in MapWorkers : WorkerKnows(w)

MapInv == MapShape /\ FetchedStored /\ WorkersKnow

(* MapInv is FetchedIsStored and more.                                     *)
LEMMA MapInvImplies == MapInv => FetchedIsStored
<1> SUFFICES ASSUME MapInv PROVE FetchedIsStored
  OBVIOUS
<1>1. \A m \in Maps : /\ smap[m].status \in {"NONE", "SUBMITTED", "LEASED", "RETRY", "FETCHED", "FAILED"}
                      /\ smap[m].attempts \in 0..MaxTries
  BY DEF MapInv, MapShape, MapRow
<1>2. \A w \in MapWorkers : mworker[w].batch \subseteq Maps /\ mworker[w].phase \in MapPhases
  BY DEF MapInv, MapShape, MapMemory
<1>3. SitemapTypeOK
  BY <1>1, <1>2 DEF MapInv, MapShape, SitemapTypeOK, LeaseOwned, MapPhases
<1>4. \A m \in Maps : smap[m].status = "FETCHED" => StoredMap(m)
  BY DEF MapInv, FetchedStored
<1> QED BY <1>3, <1>4 DEF FetchedIsStored, StoredMap

(* At the start no sitemap is known and every worker rests.                *)
LEMMA MapInitial == SitemapInit => MapInv
<1> SUFFICES ASSUME SitemapInit PROVE MapInv
  OBVIOUS
<1> USE SitemapAssumptions DEF SitemapAssumptions
<1>1. NoMap \in MapRow /\ LeaseOwned(NoMap) /\ NoMap.status = "NONE"
  BY DEF NoMap, MapRow, LeaseOwned
<1>2. /\ smap \in [Maps -> MapRow]
      /\ \A m \in Maps : LeaseOwned(smap[m]) /\ smap[m].status = "NONE"
  BY <1>1 DEF SitemapInit
<1>3. Resting \in MapMemory /\ Resting.batch = {} /\ Resting.phase = "sweep"
  BY DEF Resting, MapMemory, MapPhases
<1>4. /\ mworker \in [MapWorkers -> MapMemory]
      /\ \A w \in MapWorkers : mworker[w].batch = {} /\ mworker[w].phase = "sweep"
  BY <1>3 DEF SitemapInit
<1>5. MapShape
  BY <1>2, <1>4, FS_EmptySet DEF MapShape, SitemapInit
<1>6. FetchedStored
  BY <1>2 DEF FetchedStored
<1>7. WorkersKnow
  BY <1>4 DEF WorkersKnow, WorkerKnows, InHand
<1> QED BY <1>5, <1>6, <1>7 DEF MapInv

\* What every step does to the tables: rows keep their type, an existing row
\* stays and keeps its depth, pages are only added.
MapGrows ==
    /\ smap' \in [Maps -> MapRow]
    /\ \A m \in Maps : /\ LeaseOwned(smap'[m])
                       /\ smap[m].status # "NONE" => smap'[m].status # "NONE" /\ smap'[m].depth = smap[m].depth
    /\ listedPages \subseteq listedPages' /\ queuedPages \subseteq queuedPages'

(* What is stored stays stored, for a sitemap whose row exists.            *)
LEMMA StoredStays ==
    ASSUME MapGrows, NEW m \in Maps, smap[m].status # "NONE"
    PROVE  /\ SitemapKind(m)' = SitemapKind(m) /\ ownedNormalizedURLs(m)' = ownedNormalizedURLs(m)
           /\ ~Refused(m) => ~Refused(m)'
           /\ StoredMap(m) => StoredMap(m)'
<1>1. smap'[m].depth = smap[m].depth
  BY DEF MapGrows
<1>2. SitemapContent' = SitemapContent /\ SitemapURLs' = SitemapURLs
  BY DEF SitemapContent, SitemapURLs
<1>3. SitemapKind(m)' = SitemapKind(m) /\ ownedNormalizedURLs(m)' = ownedNormalizedURLs(m)
  BY <1>1, <1>2 DEF SitemapKind, ownedNormalizedURLs
<1>4. ~Refused(m) => ~Refused(m)'
  BY <1>3 DEF Refused
<1>5. StoredMap(m) => StoredMap(m)'
  BY <1>3, <1>4 DEF StoredMap, MapGrows
<1> QED BY <1>3, <1>4, <1>5

RowShape(r) ==
    /\ r.attempts \in 0..MaxTries /\ r.depth \in 0..MapDepth /\ r.due \in BOOLEAN /\ r.live \in BOOLEAN
    /\ r.status \in {"NONE", "SUBMITTED", "LEASED", "RETRY", "FETCHED", "FAILED"}
    /\ r.owner \in {WorkerID[v] : v \in MapWorkers} \cup {"NONE"}
\* A row written over r: of its type, in one of these states, at r's depth.
WrittenOver(r, s, statuses) ==
    s \in MapRow /\ LeaseOwned(s) /\ s.status \in statuses /\ s.depth = r.depth

(* What the submission, the lease, the completion and the clock write is a *)
(* row again.                                                              *)
LEMMA MapRows ==
    ASSUME NEW r \in MapRow, LeaseOwned(r)
    PROVE  /\ r.status # "LEASED" =>
                WrittenOver(r, [r EXCEPT !.status = "SUBMITTED", !.due = TRUE], {"SUBMITTED"})
           /\ WrittenOver(r, [r EXCEPT !.status = "FETCHED", !.live = FALSE, !.owner = "NONE"], {"FETCHED"})
           /\ WrittenOver(r, [r EXCEPT !.live = FALSE], {r.status})
           /\ WrittenOver(r, [r EXCEPT !.due = TRUE], {r.status})
<1> USE SitemapAssumptions DEF SitemapAssumptions, WrittenOver
<1>0. RowShape(r)
  BY DEF MapRow, RowShape
<1>1. r.status # "LEASED" =>
        WrittenOver(r, [r EXCEPT !.status = "SUBMITTED", !.due = TRUE], {"SUBMITTED"})
  BY <1>0 DEF MapRow, LeaseOwned, RowShape
<1>2. WrittenOver(r, [r EXCEPT !.status = "FETCHED", !.live = FALSE, !.owner = "NONE"], {"FETCHED"})
  BY <1>0 DEF MapRow, LeaseOwned, RowShape
<1>3. WrittenOver(r, [r EXCEPT !.live = FALSE], {r.status})
  BY <1>0 DEF MapRow, LeaseOwned, RowShape
<1>4. WrittenOver(r, [r EXCEPT !.due = TRUE], {r.status})
  BY <1>0 DEF MapRow, LeaseOwned, RowShape
<1> QED BY <1>1, <1>2, <1>3, <1>4

(* So is a released row, whether it retries or gives up.                   *)
LEMMA ReleasedRow ==
    ASSUME NEW r \in MapRow, LeaseOwned(r), NEW due \in BOOLEAN
    PROVE  WrittenOver(r, [Released(r) EXCEPT !.due = due], {"FAILED", "RETRY"})
<1>1. RowShape(r)
  BY DEF MapRow, RowShape
<1> QED BY <1>1 DEF MapRow, LeaseOwned, RowShape, Released, WrittenOver

(* A lease takes one of the attempts left (LeaseSitemaps).                 *)
LEMMA LeasedRow ==
    ASSUME NEW r \in MapRow, ~Spent(r), NEW w \in MapWorkers
    PROVE  WrittenOver(r, [r EXCEPT !.status = "LEASED", !.attempts = @ + 1, !.live = TRUE,
                                    !.owner = WorkerID[w]], {"LEASED"})
<1> USE SitemapAssumptions DEF SitemapAssumptions
<1>1. RowShape(r)
  BY DEF MapRow, RowShape
<1>2. r.attempts + 1 \in 0..MaxTries
  BY <1>1 DEF Spent, RowShape
<1> QED BY <1>1, <1>2 DEF MapRow, LeaseOwned, RowShape, WrittenOver

(* A child sitemap within the depth is a new row (AddChildSitemaps).       *)
LEMMA ChildRow ==
    ASSUME NEW d \in 0..MapDepth
    PROVE  LET s == [NoMap EXCEPT !.status = "SUBMITTED", !.due = TRUE, !.depth = d]
           IN  s \in MapRow /\ LeaseOwned(s) /\ s.status = "SUBMITTED"
<1> USE SitemapAssumptions DEF SitemapAssumptions
<1>1. NoMap \in MapRow /\ NoMap.owner = "NONE"
  BY DEF NoMap, MapRow
<1>2. RowShape(NoMap)
  BY <1>1 DEF MapRow, RowShape
<1> QED BY <1>1, <1>2 DEF MapRow, LeaseOwned, RowShape

(* The part of the step that is the same for every action: a worker that   *)
(* did not move still knows what it knew, a fetched sitemap is still       *)
(* stored.                                                                 *)
LEMMA MapClosure ==
    ASSUME MapInv, MapGrows,
           queuedPages' \subseteq listedPages' /\ listedPages' \subseteq Pages,
           mworker' \in [MapWorkers -> MapMemory],
           \A m \in Maps : smap'[m].status = "FETCHED" => smap[m].status = "FETCHED" \/ StoredMap(m)',
           \A w \in MapWorkers : mworker'[w] = mworker[w]
                                 \/ (WorkerKnows(w)' /\ Cardinality(mworker'[w].batch) <= MapBatch)
    PROVE  MapInv'
<1>1. MapShape'
  <2>1. \A w \in MapWorkers : Cardinality(mworker'[w].batch) <= MapBatch
    BY DEF MapInv, MapShape
  <2> QED BY <2>1 DEF MapShape, MapGrows, MapRow, MapMemory, MapPhases, LeaseOwned
<1>2. FetchedStored'
  <2> SUFFICES ASSUME NEW m \in Maps, smap'[m].status = "FETCHED"
               PROVE  StoredMap(m)'
    BY DEF FetchedStored
  <2>1. CASE smap[m].status = "FETCHED"
    <3>1. StoredMap(m) /\ smap[m].status # "NONE"
      BY <2>1 DEF MapInv, FetchedStored
    <3> QED BY <3>1, StoredStays
  <2> QED BY <2>1
<1>3. WorkersKnow'
  <2> SUFFICES ASSUME NEW w \in MapWorkers, mworker'[w] = mworker[w]
               PROVE  WorkerKnows(w)'
    BY DEF WorkersKnow
  <2>1. WorkerKnows(w) /\ mworker[w].batch \subseteq Maps
    BY DEF MapInv, WorkersKnow, MapShape, MapMemory
  <2>2. \A m \in mworker[w].batch : smap'[m].status # "NONE"
    BY <2>1 DEF WorkerKnows, MapGrows
  <2>3. mworker[w].phase \in InHand =>
          /\ ~Refused(mworker[w].task) => ~Refused(mworker[w].task)'
          /\ StoredMap(mworker[w].task) => StoredMap(mworker[w].task)'
    <3> SUFFICES ASSUME mworker[w].phase \in InHand
                 PROVE  /\ ~Refused(mworker[w].task) => ~Refused(mworker[w].task)'
                        /\ StoredMap(mworker[w].task) => StoredMap(mworker[w].task)'
      OBVIOUS
    <3> DEFINE m == mworker[w].task
    <3>1. m \in Maps /\ smap[m].status # "NONE" /\ mworker'[w].task = m
      BY <2>1 DEF WorkerKnows
    <3>2. (~Refused(m) => ~Refused(m)') /\ (StoredMap(m) => StoredMap(m)')
      BY <3>1, StoredStays
    <3> QED BY <3>1, <3>2
  <2> QED BY <2>1, <2>2, <2>3 DEF WorkerKnows, InHand
<1> QED BY <1>1, <1>2, <1>3 DEF MapInv

(* The worker goes on to the next sitemap of its batch, or rests: nothing  *)
(* it needs to know is lost.                                               *)
LEMMA NextTaskKnows ==
    ASSUME MapInv, MapGrows, NEW w \in MapWorkers,
           mworker' = [mworker EXCEPT ![w] = NextTask(w)] \/ mworker' = [mworker EXCEPT ![w] = Resting]
    PROVE  /\ mworker' \in [MapWorkers -> MapMemory]
           /\ \A v \in MapWorkers : mworker'[v] = mworker[v]
                                    \/ (WorkerKnows(v)' /\ Cardinality(mworker'[v].batch) <= MapBatch)
<1> USE SitemapAssumptions DEF SitemapAssumptions
<1> DEFINE rest == mworker[w].batch \ {mworker[w].task}
           next == [phase |-> "next", batch |-> rest, task |-> "NONE"]
<1>1. /\ mworker \in [MapWorkers -> MapMemory] /\ mworker[w].batch \in SUBSET Maps
      /\ Cardinality(mworker[w].batch) <= MapBatch /\ WorkerKnows(w)
  BY DEF MapInv, MapShape, WorkersKnow, MapMemory
<1>2. Resting \in MapMemory /\ Resting.batch = {} /\ Resting.phase = "sweep"
  BY DEF Resting, MapMemory, MapPhases
<1>3. next \in MapMemory /\ next.batch = rest /\ next.phase = "next"
  BY <1>1 DEF MapMemory, MapPhases
<1>4. Cardinality(rest) <= MapBatch
  <2>1. IsFiniteSet(mworker[w].batch) /\ rest \in SUBSET mworker[w].batch
    BY <1>1, FS_Subset
  <2>2. Cardinality(rest) <= Cardinality(mworker[w].batch) /\ IsFiniteSet(rest)
    BY <2>1, FS_Subset
  <2> QED BY <1>1, <2>1, <2>2, FS_CardinalityType
<1>5. mworker'[w] \in {next, Resting} /\ \A v \in MapWorkers \ {w} : mworker'[v] = mworker[v]
  BY <1>1 DEF NextTask
<1>6. mworker' \in [MapWorkers -> MapMemory]
  BY <1>1, <1>2, <1>3 DEF NextTask
<1>7. Cardinality(mworker'[w].batch) <= MapBatch
  <2>1. CASE mworker'[w] = next
    BY <1>3, <1>4, <2>1
  <2>2. CASE mworker'[w] = Resting
    <3>1. Cardinality(mworker'[w].batch) = 0
      BY <1>2, <2>2, FS_EmptySet
    <3> QED BY <3>1
  <2> QED BY <1>5, <2>1, <2>2
<1>8. mworker'[w].batch \subseteq mworker[w].batch /\ mworker'[w].phase \in {"next", "sweep"}
  BY <1>2, <1>3, <1>5
<1>9. WorkerKnows(w)'
  BY <1>1, <1>8 DEF WorkerKnows, InHand, MapGrows
<1> QED BY <1>5, <1>6, <1>7, <1>9
(* Every statement of the sitemap queue, every step of its workers and     *)
(* every failure keeps MapInv.                                             *)
LEMMA MapStep == MapInv /\ [SitemapNext]_mapVars => MapInv'
<1> SUFFICES ASSUME MapInv, [SitemapNext]_mapVars PROVE MapInv'
  OBVIOUS
<1> USE SitemapAssumptions DEF SitemapAssumptions
<1> DEFINE PagesKept == UNCHANGED <<listedPages, queuedPages>>
           MapKept(m) == /\ smap'[m] \in MapRow /\ LeaseOwned(smap'[m])
                         /\ smap[m].status # "NONE" => smap'[m].status # "NONE" /\ smap'[m].depth = smap[m].depth
           FetchedKept == \A m \in Maps : smap'[m].status = "FETCHED" =>
                              smap[m].status = "FETCHED" \/ StoredMap(m)'
           WorkersKept == \A v \in MapWorkers : mworker'[v] = mworker[v]
                             \/ (WorkerKnows(v)' /\ Cardinality(mworker'[v].batch) <= MapBatch)
<1>0. /\ smap \in [Maps -> MapRow] /\ \A m \in Maps : LeaseOwned(smap[m])
      /\ queuedPages \subseteq listedPages /\ listedPages \subseteq Pages
      /\ mworker \in [MapWorkers -> MapMemory]
      /\ \A w \in MapWorkers : /\ Cardinality(mworker[w].batch) <= MapBatch /\ WorkerKnows(w)
                               /\ mworker[w].batch \subseteq Maps
  BY DEF MapInv, MapShape, WorkersKnow, MapMemory
<1>g. ASSUME PagesKept, smap' = [m \in Maps |-> smap'[m]], \A m \in Maps : MapKept(m)
      PROVE  /\ MapGrows
             /\ queuedPages' \subseteq listedPages' /\ listedPages' \subseteq Pages
  BY <1>0, <1>g DEF MapGrows
<1>u. ASSUME UNCHANGED smap PROVE smap' = [m \in Maps |-> smap'[m]] /\ (\A m \in Maps : MapKept(m)) /\ FetchedKept
  BY <1>0, <1>u
<1>w. ASSUME UNCHANGED mworker PROVE mworker' \in [MapWorkers -> MapMemory] /\ WorkersKept
  BY <1>0, <1>w
<1>p. ASSUME NEW w \in MapWorkers, NEW p \in MapPhases, mworker' = [mworker EXCEPT ![w].phase = p]
      PROVE  /\ mworker' \in [MapWorkers -> MapMemory]
             /\ mworker'[w].phase = p /\ mworker'[w].batch = mworker[w].batch
             /\ mworker'[w].task = mworker[w].task
             /\ \A v \in MapWorkers \ {w} : mworker'[v] = mworker[v]
  BY <1>0, <1>p DEF MapMemory
<1>n. NoMap \in MapRow /\ LeaseOwned(NoMap) /\ NoMap.status = "NONE"
  BY DEF NoMap, MapRow, LeaseOwned
<1>1. CASE PostSitemap
  <2>1. PICK m \in Maps : QueueSitemapSubmission(m)
    BY <1>1 DEF PostSitemap, SubmitSitemap
  <2>2. PagesKept /\ UNCHANGED mworker
    BY <1>1 DEF PostSitemap
  <2> DEFINE new == [NoMap EXCEPT !.status = "SUBMITTED", !.due = TRUE]
             again == [smap[m] EXCEPT !.status = "SUBMITTED", !.due = TRUE]
  <2>3. smap' = [smap EXCEPT ![m] = IF smap[m].status = "NONE" THEN new
                                    ELSE IF smap[m].status = "LEASED" THEN smap[m] ELSE again]
    BY <1>0, <2>1 DEF QueueSitemapSubmission
  <2>4. WorkersKept /\ mworker' \in [MapWorkers -> MapMemory]
    BY <1>w, <2>2
  <2>5. new \in MapRow /\ LeaseOwned(new) /\ new.status = "SUBMITTED"
    BY <1>n, MapRows DEF WrittenOver
  <2>6. smap[m].status # "LEASED" =>
          again \in MapRow /\ LeaseOwned(again) /\ again.status = "SUBMITTED" /\ again.depth = smap[m].depth
    BY <1>0, MapRows DEF WrittenOver
  <2> HIDE DEF new, again
  <2>7. smap' = [k \in Maps |-> smap'[k]] /\ (\A k \in Maps : MapKept(k)) /\ FetchedKept
    BY <1>0, <2>3, <2>5, <2>6
  <2> QED BY <1>g, <2>2, <2>4, <2>7, MapClosure
<1>2. CASE MapClock
  <2>1. PICK m \in Maps : smap' = [smap EXCEPT ![m] = IF @.status = "LEASED" THEN [@ EXCEPT !.live = FALSE]
                                                     ELSE [@ EXCEPT !.due = TRUE]]
    BY <1>2 DEF MapClock
  <2>2. PagesKept /\ UNCHANGED mworker
    BY <1>2 DEF MapClock
  <2> DEFINE late == [smap[m] EXCEPT !.live = FALSE]
             due == [smap[m] EXCEPT !.due = TRUE]
  <2>3. smap' = [smap EXCEPT ![m] = IF smap[m].status = "LEASED" THEN late ELSE due]
    BY <1>0, <2>1
  <2>4. /\ late \in MapRow /\ LeaseOwned(late) /\ late.status = smap[m].status /\ late.depth = smap[m].depth
        /\ due \in MapRow /\ LeaseOwned(due) /\ due.status = smap[m].status /\ due.depth = smap[m].depth
    BY <1>0, MapRows DEF WrittenOver
  <2> HIDE DEF late, due
  <2>5. smap' = [k \in Maps |-> smap'[k]] /\ (\A k \in Maps : MapKept(k)) /\ FetchedKept
    BY <1>0, <2>3, <2>4
  <2> QED BY <1>g, <1>w, <2>2, <2>5, MapClosure
<1>3. CASE MapConditionsChange
  <2>1. PagesKept /\ UNCHANGED smap /\ UNCHANGED mworker
    BY <1>3 DEF MapConditionsChange
  <2> QED BY <1>g, <1>u, <1>w, <2>1, MapClosure
<1>4. ASSUME NEW w \in MapWorkers, RequeueExpiredSitemaps(w) PROVE MapInv'
  <2> DEFINE due(m) == IF Spent(smap[m]) THEN smap[m].due ELSE TRUE
             back(m) == [Released(smap[m]) EXCEPT !.due = due(m)]
  <2>1. /\ smap' = [m \in Maps |-> IF smap[m].status = "LEASED" /\ ~smap[m].live THEN back(m) ELSE smap[m]]
        /\ mworker' = [mworker EXCEPT ![w].phase = "lease"] /\ PagesKept /\ mworker[w].phase = "sweep"
    BY <1>4 DEF RequeueExpiredSitemaps
  <2>2. \A m \in Maps : /\ back(m) \in MapRow /\ LeaseOwned(back(m))
                        /\ back(m).status \in {"FAILED", "RETRY"} /\ back(m).depth = smap[m].depth
    <3> TAKE m \in Maps
    <3>1. due(m) \in BOOLEAN /\ smap[m] \in MapRow /\ LeaseOwned(smap[m])
      BY <1>0 DEF MapRow
    <3> HIDE DEF due
    <3> QED BY <3>1, ReleasedRow DEF WrittenOver
  <2> HIDE DEF back, due
  <2>3. smap' = [k \in Maps |-> smap'[k]] /\ (\A k \in Maps : MapKept(k)) /\ FetchedKept
    BY <1>0, <2>1, <2>2
  <2>4. MapGrows /\ queuedPages' \subseteq listedPages' /\ listedPages' \subseteq Pages
    BY <1>g, <2>1, <2>3
  <2>5. "lease" \in MapPhases
    BY DEF MapPhases
  <2>6. /\ mworker' \in [MapWorkers -> MapMemory]
        /\ mworker'[w].phase = "lease" /\ mworker'[w].batch = mworker[w].batch
        /\ \A v \in MapWorkers \ {w} : mworker'[v] = mworker[v]
    BY <1>p, <2>1, <2>5
  <2>7. WorkerKnows(w)' /\ Cardinality(mworker'[w].batch) <= MapBatch
    BY <1>0, <2>4, <2>6 DEF WorkerKnows, InHand, MapGrows
  <2> QED BY <2>3, <2>4, <2>6, <2>7, MapClosure
<1>5. ASSUME NEW w \in MapWorkers, LeaseSitemaps(w) PROVE MapInv'
  <2> DEFINE leased(m) == [smap[m] EXCEPT !.status = "LEASED", !.attempts = @ + 1, !.live = TRUE,
                                          !.owner = WorkerID[w]]
  <2>1. PICK took \in SUBSET Leasable :
          /\ Cardinality(took) = IF Cardinality(Leasable) < MapBatch THEN Cardinality(Leasable) ELSE MapBatch
          /\ smap' = [m \in Maps |-> IF m \in took THEN leased(m) ELSE smap[m]]
          /\ mworker' = [mworker EXCEPT ![w] =
               IF took = {} THEN Resting ELSE [phase |-> "next", batch |-> took, task |-> "NONE"]]
    BY <1>5 DEF LeaseSitemaps
  <2>2. PagesKept
    BY <1>5 DEF LeaseSitemaps
  <2>3. took \in SUBSET Maps /\ \A m \in took : ~Spent(smap[m])
    BY DEF Leasable
  <2>4. \A m \in took : /\ leased(m) \in MapRow /\ LeaseOwned(leased(m))
                        /\ leased(m).status = "LEASED" /\ leased(m).depth = smap[m].depth
    <3> TAKE m \in took
    <3>1. smap[m] \in MapRow /\ ~Spent(smap[m])
      BY <1>0, <2>3
    <3> QED BY <3>1, LeasedRow DEF WrittenOver
  <2> HIDE DEF leased
  <2>5. smap' = [k \in Maps |-> smap'[k]] /\ (\A k \in Maps : MapKept(k)) /\ FetchedKept
    BY <1>0, <2>1, <2>4
  <2>6. MapGrows /\ queuedPages' \subseteq listedPages' /\ listedPages' \subseteq Pages
    BY <1>g, <2>2, <2>5
  <2>7. Cardinality(took) <= MapBatch
    <3>1. IsFiniteSet(Leasable)
      BY FS_Subset DEF Leasable
    <3> QED BY <2>1, <3>1, FS_CardinalityType
  <2> DEFINE next == [phase |-> "next", batch |-> took, task |-> "NONE"]
  <2>8. next \in MapMemory /\ next.batch = took /\ next.phase = "next"
    BY <2>3 DEF MapMemory, MapPhases
  <2>9. Resting \in MapMemory /\ Resting.batch = {} /\ Resting.phase = "sweep"
    BY DEF Resting, MapMemory, MapPhases
  <2>10. mworker' = [mworker EXCEPT ![w] = IF took = {} THEN Resting ELSE next]
    BY <2>1
  <2> HIDE DEF next
  <2>11. /\ mworker' \in [MapWorkers -> MapMemory]
         /\ mworker'[w].phase \in {"sweep", "next"} /\ mworker'[w].batch = took
         /\ \A v \in MapWorkers \ {w} : mworker'[v] = mworker[v]
    BY <1>0, <2>8, <2>9, <2>10
  <2>12. \A m \in took : smap'[m].status # "NONE"
    BY <2>1, <2>3, <2>4
  <2>13. WorkerKnows(w)' /\ Cardinality(mworker'[w].batch) <= MapBatch
    BY <2>7, <2>11, <2>12 DEF WorkerKnows, InHand
  <2> QED BY <2>5, <2>6, <2>11, <2>13, MapClosure
<1>6. ASSUME NEW w \in MapWorkers, ProcessSitemap(w) PROVE MapInv'
  <2>1. PICK m \in mworker[w].batch, ok \in BOOLEAN :
          mworker' = [mworker EXCEPT ![w].task = m, ![w].phase = IF ok /\ ~Refused(m) THEN "store" ELSE "retry"]
    BY <1>6 DEF ProcessSitemap
  <2>2. PagesKept /\ UNCHANGED smap
    BY <1>6 DEF ProcessSitemap
  <2> DEFINE phase == IF ok /\ ~Refused(m) THEN "store" ELSE "retry"
  <2>3. phase \in {"store", "retry"} /\ (phase = "store" => ~Refused(m))
    OBVIOUS
  <2> HIDE DEF phase
  <2>4. mworker' = [mworker EXCEPT ![w].task = m, ![w].phase = phase]
    BY <2>1 DEF phase
  <2>5. m \in Maps
    BY <1>0
  <2>6. /\ mworker' \in [MapWorkers -> MapMemory]
        /\ mworker'[w].phase = phase /\ mworker'[w].task = m /\ mworker'[w].batch = mworker[w].batch
        /\ \A v \in MapWorkers \ {w} : mworker'[v] = mworker[v]
    BY <1>0, <2>3, <2>4, <2>5 DEF MapMemory, MapPhases
  <2>7. MapGrows /\ queuedPages' \subseteq listedPages' /\ listedPages' \subseteq Pages /\ FetchedKept
    BY <1>g, <1>u, <2>2
  <2>8. smap[m].status # "NONE"
    BY <1>0 DEF WorkerKnows
  <2>9. ~Refused(m) => ~Refused(m)'
    BY <2>5, <2>7, <2>8, StoredStays
  <2>10. WorkerKnows(w)' /\ Cardinality(mworker'[w].batch) <= MapBatch
    <3>1. \A k \in mworker'[w].batch : smap'[k].status # "NONE"
      BY <1>0, <2>2, <2>6 DEF WorkerKnows
    <3>2. mworker'[w].task \in mworker'[w].batch
      BY <2>6
    <3>3. mworker'[w].phase = "store" => ~Refused(mworker[w].task)'
      <4> SUFFICES ASSUME mworker'[w].phase = "store" PROVE ~Refused(mworker[w].task)'
        OBVIOUS
      <4>1. ~Refused(m)'
        BY <2>3, <2>6, <2>9
      <4> QED BY <2>6, <4>1
    <3>4. mworker'[w].phase # "complete"
      BY <2>3, <2>6
    <3> QED BY <1>0, <2>6, <3>1, <3>2, <3>3, <3>4 DEF WorkerKnows
  <2> QED BY <2>6, <2>7, <2>10, MapClosure
<1>7. ASSUME NEW w \in MapWorkers, AddSitemapURLs(w) PROVE MapInv'
  <2>0. PICK m \in Maps : m = mworker[w].task
    BY <1>0, <1>7 DEF AddSitemapURLs, WorkerKnows, InHand
  <2> DEFINE found == ownedNormalizedURLs(m)
  <2>1. mworker[w].phase = "store" /\ SitemapKind(m) = "urlset" /\ UNCHANGED smap
    BY <1>7, <2>0 DEF AddSitemapURLs
  <2>2. m \in Maps /\ m \in mworker[w].batch /\ smap[m].status # "NONE" /\ ~Refused(m)
    BY <1>0, <2>0, <2>1 DEF WorkerKnows, InHand
  <2>3. smap' = [k \in Maps |-> smap'[k]] /\ (\A k \in Maps : MapKept(k)) /\ FetchedKept
    BY <1>u, <2>1
  <2>4. CASE mworker' = [mworker EXCEPT ![w].phase = "retry"] /\ PagesKept
    <3>1. MapGrows /\ queuedPages' \subseteq listedPages' /\ listedPages' \subseteq Pages
      BY <1>g, <2>3, <2>4
    <3>2. "retry" \in MapPhases
      BY DEF MapPhases
    <3>3. /\ mworker' \in [MapWorkers -> MapMemory]
          /\ mworker'[w].phase = "retry" /\ mworker'[w].batch = mworker[w].batch
          /\ mworker'[w].task = m
          /\ \A v \in MapWorkers \ {w} : mworker'[v] = mworker[v]
      BY <1>p, <2>0, <2>4, <3>2
    <3>4. WorkerKnows(w)' /\ Cardinality(mworker'[w].batch) <= MapBatch
      BY <1>0, <2>1, <2>2, <3>3 DEF WorkerKnows
    <3> QED BY <2>3, <3>1, <3>3, <3>4, MapClosure
  <2>5. CASE /\ mworker' = [mworker EXCEPT ![w].phase = "complete"]
             /\ listedPages' = listedPages \cup found
             /\ queuedPages' = queuedPages \cup (found \ BlockedPages)
    <3>1. found \subseteq Pages
      <4>1. smap[m].depth \in 0..MapDepth
        BY <1>0, <2>2 DEF MapRow
      <4>2. found \subseteq Pages \cup {"foreign"}
        BY <2>1, <2>2, <4>1, SitemapUniverse DEF SitemapUniverse, SitemapKind, ownedNormalizedURLs
      <4>3. "foreign" \notin found
        BY <2>2 DEF Refused
      <4> QED BY <4>2, <4>3
    <3> HIDE DEF found
    <3>2. MapGrows /\ queuedPages' \subseteq listedPages' /\ listedPages' \subseteq Pages
      BY <1>0, <2>3, <2>5, <3>1 DEF MapGrows
    <3>3. "complete" \in MapPhases
      BY DEF MapPhases
    <3>4. /\ mworker' \in [MapWorkers -> MapMemory]
          /\ mworker'[w].phase = "complete" /\ mworker'[w].batch = mworker[w].batch
          /\ mworker'[w].task = m
          /\ \A v \in MapWorkers \ {w} : mworker'[v] = mworker[v]
      BY <1>p, <2>0, <2>5, <3>3
    <3>5. StoredMap(m)'
      <4>1. SitemapKind(m)' = "urlset" /\ ownedNormalizedURLs(m)' = found /\ ~Refused(m)'
        BY <2>1, <2>2, <3>2, StoredStays DEF found
      <4>2. found \subseteq queuedPages' \cup (BlockedPages \cap listedPages')
        BY <2>5, <3>1
      <4> QED BY <4>1, <4>2 DEF StoredMap
    <3>6. WorkerKnows(w)' /\ Cardinality(mworker'[w].batch) <= MapBatch
      <4>1. \A k \in mworker'[w].batch : smap'[k].status # "NONE"
        BY <1>0, <2>1, <3>4 DEF WorkerKnows
      <4>2. StoredMap(mworker[w].task)'
        BY <3>4, <3>5
      <4> QED BY <1>0, <2>2, <3>4, <4>1, <4>2 DEF WorkerKnows
    <3> QED BY <2>3, <3>2, <3>4, <3>6, MapClosure
  <2> QED BY <1>7, <2>0, <2>4, <2>5 DEF AddSitemapURLs
<1>8. ASSUME NEW w \in MapWorkers, AddChildSitemaps(w) PROVE MapInv'
  <2>0. PICK m \in Maps : m = mworker[w].task
    BY <1>0, <1>8 DEF AddChildSitemaps, WorkerKnows, InHand
  <2> DEFINE found == ownedNormalizedURLs(m)
  <2>1. mworker[w].phase = "store" /\ SitemapKind(m) = "sitemapindex" /\ PagesKept
    BY <1>8, <2>0 DEF AddChildSitemaps
  <2>2. m \in Maps /\ m \in mworker[w].batch /\ smap[m].status # "NONE" /\ ~Refused(m)
    BY <1>0, <2>0, <2>1 DEF WorkerKnows, InHand
  <2>3. smap[m].depth \in 0..MapDepth
    BY <1>0, <2>2 DEF MapRow
  <2>4. CASE mworker' = [mworker EXCEPT ![w].phase = "retry"] /\ UNCHANGED smap
    <3>1. /\ MapGrows /\ queuedPages' \subseteq listedPages' /\ listedPages' \subseteq Pages
          /\ FetchedKept
      BY <1>g, <1>u, <2>1, <2>4
    <3>2. "retry" \in MapPhases
      BY DEF MapPhases
    <3>3. /\ mworker' \in [MapWorkers -> MapMemory]
          /\ mworker'[w].phase = "retry" /\ mworker'[w].batch = mworker[w].batch
          /\ mworker'[w].task = m
          /\ \A v \in MapWorkers \ {w} : mworker'[v] = mworker[v]
      BY <1>p, <2>0, <2>4, <3>2
    <3>4. WorkerKnows(w)' /\ Cardinality(mworker'[w].batch) <= MapBatch
      BY <1>0, <2>2, <2>4, <3>3 DEF WorkerKnows
    <3> QED BY <3>1, <3>3, <3>4, MapClosure
  <2> DEFINE child == [NoMap EXCEPT !.status = "SUBMITTED", !.due = TRUE, !.depth = smap[m].depth + 1]
  <2>5. CASE /\ mworker' = [mworker EXCEPT ![w].phase = "complete"]
             /\ found = {} \/ smap[m].depth < MapDepth
             /\ smap' = [c \in Maps |-> IF c \in found /\ smap[c].status = "NONE" THEN child ELSE smap[c]]
    <3>1. found \subseteq Maps
      <4>1. found \subseteq Maps \cup {"foreign"}
        BY <2>1, <2>2, <2>3, SitemapUniverse DEF SitemapUniverse, SitemapKind, ownedNormalizedURLs
      <4>2. "foreign" \notin found
        BY <2>2 DEF Refused
      <4> QED BY <4>1, <4>2
    <3>2. found # {} => child \in MapRow /\ LeaseOwned(child) /\ child.status = "SUBMITTED"
      <4> SUFFICES ASSUME found # {}
                   PROVE  child \in MapRow /\ LeaseOwned(child) /\ child.status = "SUBMITTED"
        OBVIOUS
      <4>1. smap[m].depth + 1 \in 0..MapDepth
        BY <2>3, <2>5
      <4> QED BY <4>1, ChildRow
    <3> HIDE DEF found, child
    <3>3. smap' = [k \in Maps |-> smap'[k]] /\ (\A k \in Maps : MapKept(k)) /\ FetchedKept
      BY <1>0, <2>5, <3>2
    <3>4. MapGrows /\ queuedPages' \subseteq listedPages' /\ listedPages' \subseteq Pages
      BY <1>g, <2>1, <3>3
    <3>5. "complete" \in MapPhases
      BY DEF MapPhases
    <3>6. /\ mworker' \in [MapWorkers -> MapMemory]
          /\ mworker'[w].phase = "complete" /\ mworker'[w].batch = mworker[w].batch
          /\ mworker'[w].task = m
          /\ \A v \in MapWorkers \ {w} : mworker'[v] = mworker[v]
      BY <1>p, <2>0, <2>5, <3>5
    <3>7. StoredMap(m)'
      <4>1. SitemapKind(m)' = "sitemapindex" /\ ownedNormalizedURLs(m)' = found /\ ~Refused(m)'
        BY <2>1, <2>2, <3>4, StoredStays DEF found
      <4>2. \A c \in found : c \in Maps /\ smap'[c].status # "NONE"
        BY <1>0, <2>5, <3>1, <3>2
      <4>3. found \subseteq {c \in Maps : smap'[c].status # "NONE"}
        BY <4>2
      <4> QED BY <4>1, <4>3 DEF StoredMap
    <3>8. WorkerKnows(w)' /\ Cardinality(mworker'[w].batch) <= MapBatch
      <4>1. \A k \in mworker'[w].batch : smap'[k].status # "NONE"
        BY <1>0, <3>3, <3>6 DEF WorkerKnows
      <4>2. StoredMap(mworker[w].task)'
        BY <3>6, <3>7
      <4> QED BY <1>0, <2>2, <3>6, <4>1, <4>2 DEF WorkerKnows
    <3> QED BY <3>3, <3>4, <3>6, <3>8, MapClosure
  <2> QED BY <1>8, <2>0, <2>4, <2>5 DEF AddChildSitemaps
<1>9. ASSUME NEW w \in MapWorkers, CompleteSitemap(w) PROVE MapInv'
  <2>0. PICK m \in Maps : m = mworker[w].task
    BY <1>0, <1>9 DEF CompleteSitemap, WorkerKnows, InHand
  <2> DEFINE done == [smap[m] EXCEPT !.status = "FETCHED", !.live = FALSE, !.owner = "NONE"]
  <2>1. mworker[w].phase = "complete" /\ PagesKept
    BY <1>9 DEF CompleteSitemap
  <2>2. m \in Maps /\ m \in mworker[w].batch /\ smap[m].status # "NONE" /\ StoredMap(m)
    BY <1>0, <2>0, <2>1 DEF WorkerKnows, InHand
  <2>3. CASE mworker' = [mworker EXCEPT ![w].phase = "retry"] /\ UNCHANGED smap
    <3>1. /\ MapGrows /\ queuedPages' \subseteq listedPages' /\ listedPages' \subseteq Pages
          /\ FetchedKept
      BY <1>g, <1>u, <2>1, <2>3
    <3>2. "retry" \in MapPhases
      BY DEF MapPhases
    <3>3. /\ mworker' \in [MapWorkers -> MapMemory]
          /\ mworker'[w].phase = "retry" /\ mworker'[w].batch = mworker[w].batch
          /\ mworker'[w].task = m
          /\ \A v \in MapWorkers \ {w} : mworker'[v] = mworker[v]
      BY <1>p, <2>0, <2>3, <3>2
    <3>4. WorkerKnows(w)' /\ Cardinality(mworker'[w].batch) <= MapBatch
      BY <1>0, <2>2, <2>3, <3>3 DEF WorkerKnows
    <3> QED BY <3>1, <3>3, <3>4, MapClosure
  <2>4. CASE smap' = [smap EXCEPT ![m] = done] /\ mworker' = [mworker EXCEPT ![w] = NextTask(w)]
    <3>1. done \in MapRow /\ LeaseOwned(done) /\ done.status = "FETCHED" /\ done.depth = smap[m].depth
      BY <1>0, <2>2, MapRows DEF WrittenOver
    <3> HIDE DEF done
    <3>2. smap' = [k \in Maps |-> smap'[k]] /\ \A k \in Maps : MapKept(k)
      BY <1>0, <2>2, <2>4, <3>1
    <3>3. MapGrows /\ queuedPages' \subseteq listedPages' /\ listedPages' \subseteq Pages
      BY <1>g, <2>1, <3>2
    <3>4. StoredMap(m)'
      BY <2>2, <3>3, StoredStays
    <3>5. FetchedKept
      <4> SUFFICES ASSUME NEW k \in Maps, smap'[k].status = "FETCHED"
                   PROVE  smap[k].status = "FETCHED" \/ StoredMap(k)'
        OBVIOUS
      <4>1. CASE k = m
        BY <3>4, <4>1
      <4>2. CASE k # m
        BY <1>0, <2>4, <4>2
      <4> QED BY <4>1, <4>2
    <3>6. mworker' \in [MapWorkers -> MapMemory] /\ WorkersKept
      BY <2>4, <3>3, NextTaskKnows
    <3> QED BY <3>3, <3>5, <3>6, MapClosure
  <2> QED BY <1>0, <1>9, <2>0, <2>3, <2>4 DEF CompleteSitemap
<1>10. ASSUME NEW w \in MapWorkers, RetrySitemap(w) PROVE MapInv'
  <2>0. PICK m \in Maps : m = mworker[w].task
    BY <1>0, <1>10 DEF RetrySitemap, WorkerKnows, InHand
  <2> DEFINE due == smap[m].due /\ Spent(smap[m])
             back == [Released(smap[m]) EXCEPT !.due = due]
  <2>1. mworker[w].phase = "retry" /\ PagesKept
    BY <1>10 DEF RetrySitemap
  <2>2. m \in Maps /\ smap[m].status # "NONE"
    BY <1>0, <2>0, <2>1 DEF WorkerKnows, InHand
  <2>3. CASE mworker' = [mworker EXCEPT ![w] = Resting] /\ UNCHANGED smap
    <3>1. /\ MapGrows /\ queuedPages' \subseteq listedPages' /\ listedPages' \subseteq Pages
          /\ FetchedKept
      BY <1>g, <1>u, <2>1, <2>3
    <3>2. mworker' \in [MapWorkers -> MapMemory] /\ WorkersKept
      BY <2>3, <3>1, NextTaskKnows
    <3> QED BY <3>1, <3>2, MapClosure
  <2>4. CASE smap' = [smap EXCEPT ![m] = back] /\ mworker' = [mworker EXCEPT ![w] = NextTask(w)]
    <3>1. due \in BOOLEAN
      OBVIOUS
    <3> HIDE DEF due
    <3>2. /\ back \in MapRow /\ LeaseOwned(back)
          /\ back.status \in {"FAILED", "RETRY"} /\ back.depth = smap[m].depth
      BY <1>0, <2>2, <3>1, ReleasedRow DEF WrittenOver
    <3> HIDE DEF back
    <3>3. smap' = [k \in Maps |-> smap'[k]] /\ (\A k \in Maps : MapKept(k)) /\ FetchedKept
      BY <1>0, <2>2, <2>4, <3>2
    <3>4. MapGrows /\ queuedPages' \subseteq listedPages' /\ listedPages' \subseteq Pages
      BY <1>g, <2>1, <3>3
    <3>5. mworker' \in [MapWorkers -> MapMemory] /\ WorkersKept
      BY <2>4, <3>4, NextTaskKnows
    <3> QED BY <3>3, <3>4, <3>5, MapClosure
  <2>5. CASE Mine(w, m)
    <3>1. mworker' = [mworker EXCEPT ![w] = NextTask(w)]
      BY <1>10, <2>0, <2>5 DEF RetrySitemap
    <3>2. smap' = [smap EXCEPT ![m] = back]
      BY <1>10, <2>0, <2>5 DEF RetrySitemap
    <3> QED BY <2>4, <3>1, <3>2
  <2>6. CASE ~Mine(w, m)
    BY <1>10, <2>0, <2>3, <2>6 DEF RetrySitemap
  <2> QED BY <2>5, <2>6
<1>11. ASSUME NEW w \in MapWorkers, MapWorkerDies(w) PROVE MapInv'
  <2>1. PagesKept /\ UNCHANGED smap /\ mworker' = [mworker EXCEPT ![w] = Resting]
    BY <1>11 DEF MapWorkerDies
  <2>2. /\ MapGrows /\ queuedPages' \subseteq listedPages' /\ listedPages' \subseteq Pages
        /\ FetchedKept
    BY <1>g, <1>u, <2>1
  <2>3. mworker' \in [MapWorkers -> MapMemory] /\ WorkersKept
    BY <2>1, <2>2, NextTaskKnows
  <2> QED BY <2>2, <2>3, MapClosure
<1>12. CASE UNCHANGED mapVars
  <2>1. PagesKept /\ UNCHANGED smap /\ UNCHANGED mworker
    BY <1>12 DEF mapVars
  <2> QED BY <1>g, <1>u, <1>w, <2>1, MapClosure
<1> QED BY <1>1, <1>2, <1>3, <1>4, <1>5, <1>6, <1>7, <1>8, <1>9, <1>10, <1>11, <1>12
        DEF SitemapNext, MapWorkerStep

(* For any documents, workers and batch size a sitemap is FETCHED only     *)
(* when what its document lists is stored - shared worker ids, lost leases *)
(* and a domain blocked half way included (sitemap_worker.go).             *)
THEOREM FetchedSitemapsStored == SitemapSpec => []FetchedIsStored
<1>1. MapInv /\ [SitemapNext]_mapVars => MapInv'
  BY MapStep
<1> QED BY <1>1, MapInitial, MapInvImplies, PTL DEF SitemapSpec

-----------------------------------------------------------------------------
(* Billing: sums over ledger entries.                                      *)

Entry == [invoice : Ids, type : {"INVOICE", "PAYMENT", "REFUND"}, amount : Nat,
          event : PaymentIds \cup {"none"}]

\* The sum that Refunded takes, and the function its definition chooses.
Total(S) == MapThenSumSet(LAMBDA l : l.amount, S)
Picked(s) == CHOOSE x \in s : TRUE
Summed(f, s) == IF s = {} THEN 0 ELSE Picked(s).amount + f[s \ {Picked(s)}]
IsTotal(f, D) == f = [s \in D |-> Summed(f, s)]

(* The definition of the sum has a solution over the subsets of a finite   *)
(* set.                                                                    *)
LEMMA TotalExists ==
    ASSUME NEW S, IsFiniteSet(S)
    PROVE  \E f : IsTotal(f, SUBSET S)
<1> DEFINE Small(n) == {s \in SUBSET S : Cardinality(s) <= n}
           T == {n \in Nat : ~ \E f : IsTotal(f, Small(n))}
<1>0. \A s \in SUBSET S : IsFiniteSet(s) /\ Cardinality(s) \in Nat /\ Cardinality(s) <= Cardinality(S)
  BY FS_Subset, FS_CardinalityType
<1>d. ASSUME NEW s \in SUBSET S, s # {}
      PROVE  /\ Picked(s) \in s /\ s \ {Picked(s)} \in SUBSET S
             /\ Cardinality(s \ {Picked(s)}) = Cardinality(s) - 1
  <2>1. Picked(s) \in s
    BY <1>d DEF Picked
  <2> QED BY <1>0, <2>1, FS_RemoveElement
<1>1. T = {}
  <2> SUFFICES ASSUME T # {} PROVE FALSE
    OBVIOUS
  <2>1. PICK k \in T : \A m \in T : k <= m
    <3>1. T \subseteq Nat
      OBVIOUS
    <3> HIDE DEF T
    <3> QED BY <3>1, LeastNumber
  <2>k. k \in Nat
    OBVIOUS
  <2>2. CASE k = 0
    <3> DEFINE f == [s \in Small(0) |-> 0]
    <3>1. \A s \in Small(0) : s = {}
      BY <1>0, FS_EmptySet
    <3>2. \A s \in Small(0) : Summed(f, s) = 0
      BY <3>1 DEF Summed
    <3>3. IsTotal(f, Small(0))
      BY <3>2 DEF IsTotal
    <3> QED BY <2>1, <2>2, <3>3
  <2>3. CASE k # 0
    <3>1. k - 1 \in Nat /\ k - 1 \notin T
      <4> HIDE DEF T
      <4> QED BY <2>1, <2>3, <2>k
    <3>2. PICK f : IsTotal(f, Small(k - 1))
      BY <3>1
    <3> DEFINE g == [s \in Small(k) |-> Summed(f, s)]
    <3>3. \A s \in Small(k - 1) : f[s] = Summed(f, s) /\ s \in Small(k)
      <4>1. \A s \in Small(k - 1) : f[s] = Summed(f, s)
        BY <3>2 DEF IsTotal
      <4>2. \A s \in Small(k - 1) : s \in Small(k)
        BY <1>0, <2>k, <3>1
      <4> QED BY <4>1, <4>2
    <3>4. ASSUME NEW s \in Small(k) PROVE Summed(f, s) = Summed(g, s)
      <4>1. CASE s = {}
        BY <4>1 DEF Summed
      <4>2. CASE s # {}
        <5>1. s \ {Picked(s)} \in Small(k - 1)
          BY <1>0, <1>d, <2>k, <4>2
        <5>2. g[s \ {Picked(s)}] = f[s \ {Picked(s)}]
          BY <3>3, <5>1
        <5> QED BY <4>2, <5>2 DEF Summed
      <4> QED BY <4>1, <4>2
    <3>5. IsTotal(g, Small(k))
      <4>1. g = [s \in Small(k) |-> g[s]] /\ \A s \in Small(k) : g[s] = Summed(f, s)
        OBVIOUS
      <4> HIDE DEF g
      <4> QED BY <3>4, <4>1 DEF IsTotal
    <3> QED BY <2>1, <3>5
  <2> QED BY <2>2, <2>3
<1>2. Cardinality(S) \in Nat /\ Small(Cardinality(S)) = SUBSET S
  BY <1>0, FS_CardinalityType
<1>3. Cardinality(S) \notin T
  BY <1>1
<1> QED BY <1>2, <1>3

(* Two solutions agree wherever both are defined.                          *)
LEMMA TotalAgrees ==
    ASSUME NEW S, NEW R, IsFiniteSet(S), R \subseteq S,
           NEW f, IsTotal(f, SUBSET S), NEW g, IsTotal(g, SUBSET R)
    PROVE  f[R] = g[R]
<1> DEFINE T == {n \in Nat : \E s \in SUBSET R : Cardinality(s) = n /\ f[s] # g[s]}
<1>0. \A s \in SUBSET R : IsFiniteSet(s) /\ Cardinality(s) \in Nat
  BY FS_Subset, FS_CardinalityType
<1>1. \A s \in SUBSET R : f[s] = Summed(f, s) /\ g[s] = Summed(g, s)
  <2>1. \A s \in SUBSET R : s \in SUBSET S
    OBVIOUS
  <2> QED BY <2>1 DEF IsTotal
<1>2. T = {}
  <2> SUFFICES ASSUME T # {} PROVE FALSE
    OBVIOUS
  <2>1. PICK k \in T : \A m \in T : k <= m
    <3>1. T \subseteq Nat
      OBVIOUS
    <3> HIDE DEF T
    <3> QED BY <3>1, LeastNumber
  <2>2. PICK s \in SUBSET R : Cardinality(s) = k /\ f[s] # g[s]
    OBVIOUS
  <2>3. s # {}
    BY <1>1, <2>2 DEF Summed
  <2>4. Picked(s) \in s
    BY <2>3 DEF Picked
  <2>5. /\ s \ {Picked(s)} \in SUBSET R
        /\ Cardinality(s \ {Picked(s)}) = k - 1 /\ k - 1 \in Nat
    <3>1. IsFiniteSet(s)
      BY <1>0, <2>2
    <3>2. Cardinality(s \ {Picked(s)}) = Cardinality(s) - 1
      BY <2>4, <3>1, FS_RemoveElement
    <3>3. s \ {Picked(s)} \in SUBSET R
      OBVIOUS
    <3>4. Cardinality(s \ {Picked(s)}) \in Nat
      BY <1>0, <3>3
    <3> QED BY <2>2, <3>2, <3>3, <3>4
  <2>6. k - 1 \notin T
    BY <2>1, <2>5
  <2>7. f[s \ {Picked(s)}] = g[s \ {Picked(s)}]
    BY <2>5, <2>6
  <2> QED BY <1>1, <2>2, <2>3, <2>7 DEF Summed
<1>3. R \in SUBSET R /\ Cardinality(R) \in Nat
  BY <1>0
<1> QED BY <1>2, <1>3

(* The sum of a finite set, element by element.                            *)
LEMMA TotalSteps ==
    ASSUME NEW S, IsFiniteSet(S)
    PROVE  Total(S) = IF S = {} THEN 0 ELSE Picked(S).amount + Total(S \ {Picked(S)})
<1> DEFINE Of(R) == CHOOSE f : IsTotal(f, SUBSET R)
<1>1. \A R : Total(R) = Of(R)[R]
  BY DEF Total, MapThenSumSet, MapThenFoldSet, IsTotal, Summed, Picked
<1>2. \A R \in SUBSET S : IsTotal(Of(R), SUBSET R)
  <2> SUFFICES ASSUME NEW R \in SUBSET S PROVE IsTotal(Of(R), SUBSET R)
    OBVIOUS
  <2>1. \E f : IsTotal(f, SUBSET R)
    BY FS_Subset, TotalExists
  <2> QED BY <2>1
<1> HIDE DEF Of
<1>3. S \in SUBSET S /\ S \ {Picked(S)} \in SUBSET S
  OBVIOUS
<1>4. Of(S)[S] = Summed(Of(S), S)
  BY <1>2, <1>3 DEF IsTotal
<1>5. Of(S)[S \ {Picked(S)}] = Of(S \ {Picked(S)})[S \ {Picked(S)}]
  <2> DEFINE R == S \ {Picked(S)}
  <2>1. R \subseteq S /\ IsTotal(Of(S), SUBSET S) /\ IsTotal(Of(R), SUBSET R)
    BY <1>2, <1>3
  <2> HIDE DEF R
  <2>2. Of(S)[R] = Of(R)[R]
    BY <2>1, TotalAgrees
  <2> QED BY <2>2 DEF R
<1> QED BY <1>1, <1>4, <1>5 DEF Summed

\* Every entry contributes its amount to the sum of t.
Adds(t) == /\ Total(t) \in Nat
           /\ \A y \in t : Total(t) = y.amount + Total(t \ {y})

(* The sum of a set of entries is a number, and does not depend on the     *)
(* order in which the entries are taken.                                   *)
LEMMA TotalAdds ==
    ASSUME NEW S, IsFiniteSet(S), S \subseteq Entry
    PROVE  Adds(S)
<1> DEFINE T == {n \in Nat : \E s \in SUBSET S : Cardinality(s) = n /\ ~Adds(s)}
<1>0. \A s \in SUBSET S : IsFiniteSet(s) /\ Cardinality(s) \in Nat
  BY FS_Subset, FS_CardinalityType
<1>a. \A x \in S : x.amount \in Nat
  BY DEF Entry
<1>r. ASSUME NEW s \in SUBSET S, NEW y \in s
      PROVE  s \ {y} \in SUBSET S /\ Cardinality(s \ {y}) = Cardinality(s) - 1
  BY <1>0, FS_RemoveElement
<1>1. T = {}
  <2> SUFFICES ASSUME T # {} PROVE FALSE
    OBVIOUS
  <2>1. PICK k \in T : \A m \in T : k <= m
    <3>1. T \subseteq Nat
      OBVIOUS
    <3> HIDE DEF T
    <3> QED BY <3>1, LeastNumber
  <2>2. PICK t \in SUBSET S : Cardinality(t) = k /\ ~Adds(t)
    OBVIOUS
  <2>3. ASSUME NEW s \in SUBSET S, Cardinality(s) < k PROVE Adds(s)
    <3>1. Cardinality(s) \notin T /\ Cardinality(s) \in Nat
      <4>1. k \in Nat /\ Cardinality(s) \in Nat
        BY <1>0
      <4> HIDE DEF T
      <4> QED BY <2>1, <2>3, <4>1
    <3> QED BY <3>1
  <2>k. k \in Nat
    OBVIOUS
  <2>4. CASE t = {}
    <3>1. Total(t) = 0
      BY <2>4, <1>0, TotalSteps
    <3> QED BY <2>2, <2>4, <3>1 DEF Adds
  <2>5. CASE t # {}
    <3> DEFINE x == Picked(t)
    <3>1. x \in t
      BY <2>5 DEF Picked
    <3>2. Total(t) = x.amount + Total(t \ {x})
      BY <1>0, <2>5, TotalSteps
    <3> HIDE DEF x
    <3>3. Adds(t \ {x})
      BY <1>r, <2>2, <2>3, <2>k, <3>1
    <3>4. Total(t) \in Nat
      BY <1>a, <3>1, <3>2, <3>3 DEF Adds
    <3>5. ASSUME NEW y \in t PROVE Total(t) = y.amount + Total(t \ {y})
      <4>1. CASE y = x
        BY <3>2, <4>1
      <4>2. CASE y # x
        <5>1. x \in t \ {y} /\ y \in t \ {x} /\ (t \ {x}) \ {y} = (t \ {y}) \ {x}
          BY <3>1, <4>2
        <5>2. Adds(t \ {y}) /\ Adds((t \ {x}) \ {y})
          <6>1. t \ {y} \in SUBSET S /\ Cardinality(t \ {y}) = k - 1
            BY <1>r, <2>2
          <6>2. (t \ {y}) \ {x} \in SUBSET S /\ Cardinality((t \ {y}) \ {x}) = k - 1 - 1
            BY <1>r, <5>1, <6>1
          <6> QED BY <2>3, <2>k, <5>1, <6>1, <6>2
        <5> DEFINE both == Total((t \ {x}) \ {y})
        <5>3. Total(t \ {x}) = y.amount + both
          BY <3>3, <5>1 DEF Adds
        <5>4. Total(t \ {y}) = x.amount + both
          BY <5>1, <5>2 DEF Adds
        <5>5. both \in Nat /\ x.amount \in Nat /\ y.amount \in Nat
          BY <1>a, <3>1, <5>2 DEF Adds
        <5> HIDE DEF both
        <5>6. x.amount + (y.amount + both) = y.amount + (x.amount + both)
          BY <5>5
        <5> QED BY <3>2, <5>3, <5>4, <5>6
      <4> QED BY <4>1, <4>2
    <3> QED BY <2>2, <3>4, <3>5 DEF Adds
  <2> QED BY <2>4, <2>5
<1>2. S \in SUBSET S /\ Cardinality(S) \in Nat
  BY <1>0
<1> QED BY <1>1, <1>2

-----------------------------------------------------------------------------
(* Billing: subscriptions, ledger and quotas.                              *)

SubRow == [account : Customers, plan : Catalogue, status : Live \cup {"CANCELED", "EXPIRED"},
           grace : BOOLEAN, age : 0..2, invoice : {"OPEN", "PAID", "FAILED", "REFUNDED"}]

BillShape ==
    /\ accounts \subseteq Customers /\ claims \subseteq Customers
    /\ subscribing \subseteq Customers \X Catalogue
    /\ subs \in [Ids -> SubRow \cup {NoSub}]
    /\ \E k \in 0..MaxSubscriptions : Subscriptions = 1..k
    /\ events = [e \in PaymentIds |-> events[e]]
    /\ ledger \subseteq Entry /\ IsFiniteSet(ledger)
    /\ usage \in [Customers -> [Periods -> 0..MaxUsage]]

\* An entry belongs to an invoice, and the event it came from is stored.
LedgerKnown == \A l \in ledger :
    /\ l.invoice \in Subscriptions
    /\ l.event # "none" => events[l.event] # NoEvent

\* One line of the ledger's explanation: a row, whether a payment is entered
\* for it, and what was given back.
Clear(r, paid, back) ==
    /\ r.invoice \in {"PAID", "REFUNDED"} <=> paid
    /\ back <= r.plan.price
    /\ r.invoice = "REFUNDED" <=> back = r.plan.price
    /\ r.status \in {"ACTIVE", "GRACE"} => r.invoice = "PAID"
    /\ r.status = "CANCELED" <=> r.invoice = "REFUNDED"
AllClear == \A i \in Subscriptions : Clear(subs[i], Entries(i, "PAYMENT") # {}, Refunded(i))

Rivals(r, s) == /\ r.status \in Live /\ s.status \in Live /\ r.account = s.account
                /\ r.plan.product = s.plan.product
OneLive == \A i, j \in Subscriptions : Rivals(subs[i], subs[j]) => i = j

Limit(p) == IF p = 0 THEN FreeLimit ELSE IF p \in Subscriptions THEN subs[p].plan.quota ELSE 0

\* A request that has read a quota has read the limit of the period it names.
ReadersKnow == \A c \in Consumers : consuming[c].phase = "write" =>
    /\ consuming[c].account \in Customers
    /\ consuming[c].period \in {0} \cup Subscriptions
    /\ consuming[c].limit = Limit(consuming[c].period)

BillInv == /\ BillShape /\ LedgerKnown /\ AllClear /\ OneLive /\ ReadersKnow
           /\ consuming = [c \in Consumers |-> consuming[c]]
           /\ QuotaHeld

\* How a row may change without the ledger: time passes, or a payment fails.
Settles(r, s) ==
    /\ s.account = r.account /\ s.plan = r.plan
    /\ s.invoice = r.invoice \/ (r.invoice = "OPEN" /\ s.invoice = "FAILED")
    /\ s.status \in Live => r.status \in Live
    /\ s.status \in {"ACTIVE", "GRACE"} => r.status \in {"ACTIVE", "GRACE"}
    /\ s.status = "CANCELED" <=> r.status = "CANCELED"

\* What a step does to the tables of money.
Stored == \A e \in PaymentIds : events[e] # NoEvent => events'[e] # NoEvent
Quiet ==
    /\ ledger' = ledger /\ Stored /\ events' = [e \in PaymentIds |-> events'[e]]
    /\ subs' = [i \in Ids |-> subs'[i]]
    /\ \A i \in Ids : \/ subs[i] = NoSub /\ subs'[i] = NoSub
                      \/ /\ subs[i] \in SubRow /\ subs'[i] \in SubRow
                         /\ Settles(subs[i], subs'[i])
Opened(u, plan) == [account |-> u, plan |-> plan, status |-> "PENDING", grace |-> FALSE,
                    age |-> 0, invoice |-> "OPEN"]
Opens == \E i \in Ids, u \in Customers, plan \in Catalogue :
    /\ i = Cardinality(Subscriptions) + 1
    /\ uniqueSubscription(i, u, plan)
    /\ subs' = [subs EXCEPT ![i] = Opened(u, plan)]
    /\ ledger' = ledger \cup {[invoice |-> i, type |-> "INVOICE", amount |-> plan.price, event |-> "none"]}
    /\ UNCHANGED events
\* A new event enters an amount for invoice i, whose row becomes s.
Enters(i, e, s, l) ==
    /\ events[e] = NoEvent /\ events'[e] # NoEvent /\ Stored
    /\ events' = [f \in PaymentIds |-> events'[f]]
    /\ s.plan = subs[i].plan /\ s.account = subs[i].account
    /\ subs' = [subs EXCEPT ![i] = s]
    /\ l.invoice = i /\ l.event = e
    /\ ledger' = ledger \cup {l}
Pays == \E i \in Subscriptions, e \in PaymentIds, s \in SubRow, l \in Entry :
    /\ Enters(i, e, s, l) /\ l.type = "PAYMENT"
    /\ subs[i].invoice # "REFUNDED"
    /\ uniqueSubscription(i, subs[i].account, subs[i].plan)
    /\ s.invoice = "PAID" /\ s.status = "ACTIVE"
Returns == \E i \in Subscriptions, e \in PaymentIds, s \in SubRow, l \in Entry :
    /\ Enters(i, e, s, l) /\ l.type = "REFUND"
    /\ subs[i].invoice \in {"PAID", "REFUNDED"} /\ l.amount > 0
    /\ Refunded(i) + l.amount <= subs[i].plan.price
    /\ IF Refunded(i) + l.amount = subs[i].plan.price
       THEN s.invoice = "REFUNDED" /\ s.status = "CANCELED"
       ELSE s = subs[i]

(* The invariant of the model checker's run follows.                       *)
LEMMA BillInvImplies == BillInv => BillingIsExact
<1> SUFFICES ASSUME BillInv PROVE BillingIsExact
  OBVIOUS
<1>0. BillShape /\ AllClear /\ OneLive /\ QuotaHeld
  BY DEF BillInv
<1>1. ASSUME NEW i \in Subscriptions PROVE subs[i] \in SubRow
  BY <1>0 DEF BillShape, Subscriptions, NoSub
<1>2. BillingTypeOK
  <2>1. \A i \in Subscriptions :
           /\ subs[i].status \in Live \cup {"CANCELED", "EXPIRED"}
           /\ subs[i].invoice \in {"OPEN", "PAID", "FAILED", "REFUNDED"} /\ subs[i].age \in 0..2
    BY <1>1 DEF SubRow
  <2> QED BY <1>0, <2>1 DEF BillShape, BillingTypeOK
<1>3. LedgerExplainsStatus
  BY <1>0 DEF AllClear, Clear, OneLive, Rivals, LedgerExplainsStatus
<1> QED BY <1>0, <1>2, <1>3 DEF BillingIsExact

(* Refunded is the sum of the refunds, and follows the ledger.             *)
LEMMA RefundedIsTotal ==
    ASSUME NEW i
    PROVE  /\ Refunded(i) = Total(Entries(i, "REFUND"))
           /\ Refunded(i)' = Total(Entries(i, "REFUND")')
BY DEF Refunded, Total, Entries, MapThenSumSet, MapThenFoldSet

(* Nothing is entered, sold or used at first.                              *)
LEMMA BillInitial == BillingInit => BillInv
<1> SUFFICES ASSUME BillingInit PROVE BillInv
  OBVIOUS
<1>0. FreeLimit \in Nat /\ MaxSubscriptions \in Nat /\ MaxUsage \in Nat
  BY BillingAssumptions DEF BillingAssumptions
<1>1. Subscriptions = {}
  BY DEF BillingInit, Subscriptions, NoSub
<1>2. 1..0 = {} /\ 0 \in 0..MaxSubscriptions /\ 0 \in 0..MaxUsage
  BY <1>0
<1>3. BillShape
  <2>1. \E k \in 0..MaxSubscriptions : Subscriptions = 1..k
    BY <1>1, <1>2
  <2>2. usage \in [Customers -> [Periods -> 0..MaxUsage]]
    BY <1>2 DEF BillingInit
  <2>3. IsFiniteSet(ledger)
    BY FS_EmptySet DEF BillingInit
  <2> QED BY <2>1, <2>2, <2>3 DEF BillShape, BillingInit
<1>4. QuotaHeld
  BY <1>0, <1>1 DEF QuotaHeld, BillingInit
<1>5. LedgerKnown /\ AllClear /\ OneLive /\ ReadersKnow
  BY <1>1 DEF LedgerKnown, AllClear, OneLive, ReadersKnow, BillingInit, Reading
<1>6. consuming = [c \in Consumers |-> consuming[c]]
  BY DEF BillingInit
<1> QED BY <1>3, <1>4, <1>5, <1>6 DEF BillInv

(* A lifecycle run keeps rows as they may settle.                          *)
LEMMA AgedSettles ==
    ASSUME NEW r \in SubRow
    PROVE  Aged(r) \in SubRow /\ Settles(r, Aged(r))
<1>1. r.status # "NONE" /\ r.status \in Live \cup {"CANCELED", "EXPIRED"} /\ r.grace \in BOOLEAN
  BY DEF SubRow, Live
<1> DEFINE st == IF r.status = "ACTIVE" /\ r.age >= 1 THEN "GRACE" ELSE r.status
           gr == r.grace \/ st = "GRACE"
           fin == IF st \in {"GRACE", "PAST_DUE"} /\ r.age >= (IF gr THEN 2 ELSE 1) THEN "EXPIRED" ELSE st
<1>2. Aged(r) = [r EXCEPT !.grace = gr, !.status = fin]
  BY <1>1 DEF Aged
<1>3. gr \in BOOLEAN
  OBVIOUS
<1>4. /\ fin \in Live \cup {"CANCELED", "EXPIRED"}
      /\ fin \in Live => r.status \in Live
      /\ fin \in {"ACTIVE", "GRACE"} => r.status \in {"ACTIVE", "GRACE"}
      /\ fin = "CANCELED" <=> r.status = "CANCELED"
  BY <1>1 DEF Live
<1> HIDE DEF gr, fin
<1>5. /\ Aged(r) \in SubRow
      /\ Aged(r).status = fin /\ Aged(r).account = r.account /\ Aged(r).plan = r.plan
      /\ Aged(r).invoice = r.invoice
  BY <1>2, <1>3, <1>4 DEF SubRow
<1> QED BY <1>4, <1>5 DEF Settles

(* Whatever happens to the tables of money is one of four things.          *)
LEMMA BillingMoves ==
    ASSUME BillShape, LedgerKnown, [BillingNext]_billingVars
    PROVE  Quiet \/ Opens \/ Pays \/ Returns
<1>0. /\ subs \in [Ids -> SubRow \cup {NoSub}]
      /\ events = [e \in PaymentIds |-> events[e]]
      /\ ledger \subseteq Entry
  BY DEF BillShape
<1>r. ASSUME NEW i \in Ids PROVE subs[i] = NoSub \/ subs[i] \in SubRow
  BY <1>0
<1>s. ASSUME NEW i \in Subscriptions PROVE i \in Ids /\ subs[i] \in SubRow
  BY <1>r DEF Subscriptions, NoSub
<1>k. ASSUME NEW r \in SubRow PROVE Settles(r, r)
  BY DEF Settles
<1>a. ASSUME UNCHANGED <<subs, events, ledger>> PROVE Quiet
  <2>1. subs' = [i \in Ids |-> subs'[i]] /\ events' = [e \in PaymentIds |-> events'[e]]
    BY <1>0, <1>a
  <2>2. ASSUME NEW i \in Ids
        PROVE  \/ subs[i] = NoSub /\ subs'[i] = NoSub
               \/ subs[i] \in SubRow /\ subs'[i] \in SubRow /\ Settles(subs[i], subs'[i])
    BY <1>a, <1>r, <1>k
  <2> QED BY <1>a, <2>1, <2>2 DEF Quiet, Stored
<1>b. ASSUME NEW i \in Subscriptions, NEW s \in SubRow, Settles(subs[i], s),
             subs' = [subs EXCEPT ![i] = s], UNCHANGED ledger, Stored,
             events' = [e \in PaymentIds |-> events'[e]]
      PROVE  Quiet
  <2>1. subs' = [j \in Ids |-> subs'[j]]
    BY <1>0, <1>b
  <2>2. ASSUME NEW j \in Ids
        PROVE  \/ subs[j] = NoSub /\ subs'[j] = NoSub
               \/ subs[j] \in SubRow /\ subs'[j] \in SubRow /\ Settles(subs[j], subs'[j])
    <3>1. CASE j = i
      BY <1>0, <1>b, <1>s, <3>1
    <3>2. CASE j # i
      <4>1. subs'[j] = subs[j]
        BY <1>0, <1>b, <3>2
      <4> QED BY <1>r, <1>k, <4>1
    <3> QED BY <3>1, <3>2
  <2> QED BY <1>b, <2>1, <2>2 DEF Quiet
<1>1. CASE EnsureUserAccount \/ Subscribe \/ ReadQuota \/ ConsumeEffective \/ ClaimChanges
  BY <1>1, <1>a, Zenon DEF EnsureUserAccount, Subscribe, ReadQuota, ConsumeEffective, ClaimChanges
<1>2. CASE UNCHANGED billingVars
  BY <1>2, <1>a DEF billingVars
<1>3. CASE ReconcileLifecycle
  <2>1. subs' = [i \in Ids |-> Aged(subs[i])] /\ UNCHANGED <<events, ledger>>
    BY <1>3 DEF ReconcileLifecycle
  <2>2. ASSUME NEW i \in Ids
        PROVE  \/ subs[i] = NoSub /\ subs'[i] = NoSub
               \/ subs[i] \in SubRow /\ subs'[i] \in SubRow /\ Settles(subs[i], subs'[i])
    <3>1. CASE subs[i] = NoSub
      <4>1. subs[i].status = "NONE"
        BY <3>1 DEF NoSub
      <4>2. Aged(subs[i]) = subs[i]
        BY <4>1 DEF Aged
      <4> QED BY <2>1, <3>1, <4>2
    <3>2. CASE subs[i] \in SubRow
      BY <2>1, <3>2, AgedSettles
    <3> QED BY <1>r, <3>1, <3>2
  <2>3. subs' = [i \in Ids |-> subs'[i]]
    BY <2>1
  <2>4. Stored /\ events' = [e \in PaymentIds |-> events'[e]]
    BY <1>0, <2>1 DEF Stored
  <2> QED BY <2>1, <2>2, <2>3, <2>4 DEF Quiet
<1>4. CASE TimePasses
  <2>1. PICK i \in Subscriptions : subs[i].age < 2 /\ subs' = [subs EXCEPT ![i].age = @ + 1]
    BY <1>4 DEF TimePasses
  <2>2. UNCHANGED <<events, ledger>>
    BY <1>4 DEF TimePasses
  <2>3. subs[i].age \in 0..2
    BY <1>s DEF SubRow
  <2> DEFINE s == [subs[i] EXCEPT !.age = subs[i].age + 1]
  <2>4. subs[i].age + 1 \in 0..2
    BY <2>1, <2>3
  <2>5. s \in SubRow /\ Settles(subs[i], s)
    BY <1>s, <2>4 DEF SubRow, Settles
  <2>6. subs' = [subs EXCEPT ![i] = s]
    BY <1>0, <1>s, <2>1
  <2>7. Stored /\ events' = [e \in PaymentIds |-> events'[e]]
    BY <1>0, <2>2 DEF Stored
  <2> HIDE DEF s
  <2> QED BY <1>b, <2>2, <2>5, <2>6, <2>7
<1>5. CASE CreatePendingSubscription
  <2>1. PICK q \in subscribing, i \in Ids :
           /\ i = Cardinality(Subscriptions) + 1
           /\ IF productAllowedForOwner(q[2]) /\ uniqueSubscription(i, q[1], q[2]) /\ enforceBusinessProClaim(q[1], q[2])
              THEN /\ subs' = [subs EXCEPT ![i] = Opened(q[1], q[2])]
                   /\ ledger' = ledger \cup {[invoice |-> i, type |-> "INVOICE", amount |-> q[2].price, event |-> "none"]}
              ELSE UNCHANGED <<subs, ledger>>
    BY <1>5 DEF CreatePendingSubscription, Opened
  <2>2. UNCHANGED events
    BY <1>5 DEF CreatePendingSubscription
  <2>3. q[1] \in Customers /\ q[2] \in Catalogue
    BY DEF BillShape
  <2>4. CASE uniqueSubscription(i, q[1], q[2]) /\ subs' = [subs EXCEPT ![i] = Opened(q[1], q[2])]
             /\ ledger' = ledger \cup {[invoice |-> i, type |-> "INVOICE", amount |-> q[2].price, event |-> "none"]}
    BY <2>1, <2>2, <2>3, <2>4 DEF Opens
  <2>5. CASE UNCHANGED <<subs, ledger>>
    BY <1>a, <2>2, <2>5
  <2> QED BY <2>1, <2>4, <2>5
<1>6. CASE runBillingPayment
  <2>1. PICK e \in PaymentIds, type \in EventTypes, i \in Ids, amount \in Amounts :
           ApplyPaymentEvent(e, [type |-> type, invoice |-> i, amount |-> amount])
    BY <1>6 DEF runBillingPayment
  <2> DEFINE in == [type |-> type, invoice |-> i, amount |-> amount]
  <2>2. i \in Subscriptions /\ events[e] \in {NoEvent, in} /\ in.invoice = i /\ in.type = type /\ in.amount = amount
    BY <2>1 DEF ApplyPaymentEvent
  <2>n. amount \in Nat
    BY BillingAssumptions, Zenon DEF BillingAssumptions
  <2>3. CASE Processed(e)
    BY <1>a, <2>1, <2>3 DEF ApplyPaymentEvent
  <2>4. CASE ~Processed(e)
    <3>0. /\ CASE type = "PAYMENT_SUCCEEDED" -> Succeeded(e, in, i)
               [] type = "PAYMENT_FAILED" -> Failed(i)
               [] OTHER -> GivenBack(e, in, i)
          /\ events' = [events EXCEPT ![e] = in]
      BY <2>1, <2>2, <2>4 DEF ApplyPaymentEvent
    <3>1. events[e] = NoEvent
      BY <2>4 DEF Processed
    <3>2. in # NoEvent
      BY DEF NoEvent
    <3> HIDE DEF in
    <3>3. events'[e] # NoEvent /\ Stored /\ events' = [f \in PaymentIds |-> events'[f]]
      BY <1>0, <3>0, <3>2 DEF Stored
    <3>4. ~ \E l \in ledger : l.event = e
      <4>1. e # "none"
        BY BillingAssumptions, Zenon DEF BillingAssumptions
      <4> QED BY <3>1, <4>1 DEF LedgerKnown
    <3>5. subs[i] \in SubRow /\ i \in Ids
      BY <1>s, <2>2
    <3>e. ASSUME NEW t \in {"PAYMENT", "REFUND"}, Enter(i, t, e, in)
          PROVE  \E l \in Entry : /\ l.invoice = i /\ l.event = e /\ l.type = t /\ l.amount = amount
                                  /\ ledger' = ledger \cup {l}
      <4> DEFINE l == [invoice |-> i, type |-> t, amount |-> amount, event |-> e]
      <4>1. l \in Entry
        BY <2>n, <3>5 DEF Entry
      <4>2. ledger' = ledger \cup {l}
        BY <2>2, <3>4, <3>e DEF Enter
      <4> QED BY <4>1, <4>2
    <3>6. CASE type = "PAYMENT_SUCCEEDED"
      <4>1. Succeeded(e, in, i)
        BY <3>0, <3>6
      <4> DEFINE s == [subs[i] EXCEPT !.invoice = "PAID", !.status = "ACTIVE", !.grace = TRUE]
      <4>2. subs' = [subs EXCEPT ![i] = s]
        BY <1>0, <3>5, <4>1 DEF Succeeded
      <4>3. s \in SubRow /\ s.plan = subs[i].plan /\ s.account = subs[i].account /\ s.invoice = "PAID" /\ s.status = "ACTIVE"
        BY <3>5 DEF SubRow, Live
      <4> HIDE DEF s
      <4>4. PICK l \in Entry : /\ l.invoice = i /\ l.event = e /\ l.type = "PAYMENT" /\ ledger' = ledger \cup {l}
        BY <3>e, <4>1 DEF Succeeded
      <4>5. Enters(i, e, s, l)
        BY <3>1, <3>3, <4>2, <4>3, <4>4 DEF Enters
      <4>6. subs[i].invoice # "REFUNDED" /\ uniqueSubscription(i, subs[i].account, subs[i].plan)
        BY <4>1 DEF Succeeded
      <4> QED BY <2>2, <4>3, <4>4, <4>5, <4>6 DEF Pays
    <3>7. CASE type = "PAYMENT_FAILED"
      <4>1. Failed(i)
        BY <3>0, <3>7
      <4> DEFINE v == IF subs[i].invoice = "OPEN" THEN "FAILED" ELSE subs[i].invoice
                 t == IF subs[i].status = "PENDING" THEN "PAST_DUE" ELSE subs[i].status
                 s == [subs[i] EXCEPT !.invoice = v, !.status = t]
      <4>2. subs' = [subs EXCEPT ![i] = s] /\ UNCHANGED ledger
        BY <1>0, <3>5, <4>1 DEF Failed, Set
      <4>3. s \in SubRow /\ Settles(subs[i], s)
        BY <3>5 DEF SubRow, Live, Settles
      <4> HIDE DEF s
      <4> QED BY <1>b, <2>2, <3>3, <4>2, <4>3
    <3>8. CASE type \notin {"PAYMENT_SUCCEEDED", "PAYMENT_FAILED"}
      <4>1. GivenBack(e, in, i)
        BY <3>0, <3>8
      <4>2. PICK l \in Entry : /\ l.invoice = i /\ l.event = e /\ l.type = "REFUND" /\ l.amount = amount
                               /\ ledger' = ledger \cup {l}
        BY <3>e, <4>1 DEF GivenBack
      <4>3. subs[i].invoice \in {"PAID", "REFUNDED"} /\ l.amount > 0 /\ Refunded(i) + l.amount <= subs[i].plan.price
        BY <2>2, <4>1, <4>2 DEF GivenBack
      <4>4. CASE Refunded(i) + amount = subs[i].plan.price
        <5> DEFINE s == [subs[i] EXCEPT !.invoice = "REFUNDED", !.status = "CANCELED"]
        <5>1. subs' = [subs EXCEPT ![i] = s]
          BY <1>0, <2>2, <3>5, <4>1, <4>4 DEF GivenBack, Set
        <5>2. s \in SubRow /\ s.plan = subs[i].plan /\ s.account = subs[i].account /\ s.invoice = "REFUNDED" /\ s.status = "CANCELED"
          BY <3>5 DEF SubRow
        <5> HIDE DEF s
        <5>3. Enters(i, e, s, l)
          BY <3>1, <3>3, <4>2, <5>1, <5>2 DEF Enters
        <5> QED BY <2>2, <4>2, <4>3, <4>4, <5>2, <5>3 DEF Returns
      <4>5. CASE Refunded(i) + amount # subs[i].plan.price
        <5>1. subs' = subs
          BY <2>2, <4>1, <4>5 DEF GivenBack
        <5>2. subs' = [subs EXCEPT ![i] = subs[i]]
          BY <1>0, <3>5, <5>1
        <5>3. Enters(i, e, subs[i], l)
          BY <3>1, <3>3, <4>2, <5>2 DEF Enters
        <5> QED BY <2>2, <3>5, <4>2, <4>3, <4>5, <5>3 DEF Returns
      <4> QED BY <4>4, <4>5
    <3> QED BY <3>6, <3>7, <3>8
  <2> QED BY <2>3, <2>4
<1> QED BY <1>1, <1>2, <1>3, <1>4, <1>5, <1>6 DEF BillingNext

(* The subscriptions of the four moves.                                    *)
LEMMA SubscriptionsMove ==
    ASSUME BillShape
    PROVE  /\ Quiet \/ Pays \/ Returns => Subscriptions' = Subscriptions
           /\ \A i \in Subscriptions : i \in Ids /\ i # 0 /\ subs[i] \in SubRow
           /\ \A i \in Ids : i = Cardinality(Subscriptions) + 1 => i \notin Subscriptions
           /\ \A i \in Ids, u \in Customers, plan \in Catalogue :
                 subs' = [subs EXCEPT ![i] = Opened(u, plan)] => Subscriptions' = Subscriptions \cup {i}
<1>0. subs \in [Ids -> SubRow \cup {NoSub}]
  BY DEF BillShape
<1>1. \A r \in SubRow : r.status # "NONE"
  BY DEF SubRow, Live
<1>2. ASSUME NEW i \in Ids
      PROVE  /\ i \in Subscriptions <=> subs[i] \in SubRow
             /\ subs[i] = NoSub <=> subs[i] \notin SubRow
  BY <1>0, <1>1 DEF Subscriptions, NoSub
<1>3. ASSUME Quiet PROVE Subscriptions' = Subscriptions
  <2>1. ASSUME NEW i \in Ids PROVE i \in Subscriptions' <=> i \in Subscriptions
    <3>1. CASE subs[i] = NoSub /\ subs'[i] = NoSub
      BY <3>1 DEF Subscriptions, NoSub
    <3>2. CASE subs[i] \in SubRow /\ subs'[i] \in SubRow
      BY <1>1, <3>2 DEF Subscriptions
    <3> QED BY <1>3, <3>1, <3>2 DEF Quiet
  <2> QED BY <2>1 DEF Subscriptions
<1>4. ASSUME NEW i \in Subscriptions, NEW s \in SubRow, subs' = [subs EXCEPT ![i] = s]
      PROVE  Subscriptions' = Subscriptions
  BY <1>0, <1>1, <1>4 DEF Subscriptions
<1>5. ASSUME Pays \/ Returns PROVE Subscriptions' = Subscriptions
  BY <1>4, <1>5 DEF Pays, Returns, Enters
<1>6. ASSUME NEW i \in Subscriptions PROVE i \in Ids /\ i # 0 /\ subs[i] \in SubRow
  <2>1. i \in Ids
    BY DEF Subscriptions
  <2>2. i # 0
    BY <2>1, BillingAssumptions DEF Ids, BillingAssumptions
  <2> QED BY <1>2, <2>1, <2>2
<1>7. ASSUME NEW i \in Ids, i = Cardinality(Subscriptions) + 1 PROVE i \notin Subscriptions
  <2>1. PICK k \in 0..MaxSubscriptions : Subscriptions = 1..k
    BY DEF BillShape
  <2>2. k \in Nat
    BY <2>1, BillingAssumptions DEF BillingAssumptions
  <2>3. Cardinality(1..k) = k
    BY <2>2, FS_Interval
  <2> QED BY <1>7, <2>1, <2>2, <2>3
<1>8. ASSUME NEW i \in Ids, NEW u \in Customers, NEW plan \in Catalogue, subs' = [subs EXCEPT ![i] = Opened(u, plan)]
      PROVE  Subscriptions' = Subscriptions \cup {i}
  <2>1. Opened(u, plan).status # "NONE"
    BY DEF Opened
  <2> QED BY <1>0, <1>8, <2>1 DEF Subscriptions
<1> QED BY <1>3, <1>5, <1>6, <1>7, <1>8

(* The shape of the tables is kept.                                        *)
LEMMA ShapeKept ==
    ASSUME BillShape, LedgerKnown, [BillingNext]_billingVars
    PROVE  BillShape'
<1>0. /\ subs \in [Ids -> SubRow \cup {NoSub}]
      /\ events = [e \in PaymentIds |-> events[e]]
      /\ ledger \subseteq Entry /\ IsFiniteSet(ledger)
      /\ usage \in [Customers -> [Periods -> 0..MaxUsage]]
      /\ accounts \subseteq Customers /\ claims \subseteq Customers
      /\ subscribing \subseteq Customers \X Catalogue
  BY DEF BillShape
<1>m. MaxUsage \in Nat /\ MaxSubscriptions \in Nat /\ \A p \in Catalogue : p.price \in Nat
  BY BillingAssumptions, Zenon DEF BillingAssumptions
<1>1. accounts' \subseteq Customers /\ claims' \subseteq Customers /\ subscribing' \subseteq Customers \X Catalogue
  <2>1. CASE EnsureUserAccount \/ Subscribe \/ ClaimChanges
    BY <1>0, <2>1 DEF EnsureUserAccount, Subscribe, ClaimChanges, ensureAccount
  <2>2. CASE ReadQuota
    BY <1>0, <2>2 DEF ReadQuota, ensureAccount
  <2>3. CASE CreatePendingSubscription
    BY <1>0, <2>3 DEF CreatePendingSubscription
  <2>4. CASE runBillingPayment \/ ReconcileLifecycle \/ ConsumeEffective \/ TimePasses \/ UNCHANGED billingVars
    BY <1>0, <2>4 DEF runBillingPayment, ReconcileLifecycle, ConsumeEffective, TimePasses, billingVars
  <2> QED BY <2>1, <2>2, <2>3, <2>4 DEF BillingNext
<1>2. usage' \in [Customers -> [Periods -> 0..MaxUsage]]
  <2>1. CASE ConsumeEffective
    <3>1. PICK c \in Consumers : /\ usage[consuming[c].account][consuming[c].period] < MaxUsage
                                 /\ usage' = IF MayConsume(consuming[c])
                                             THEN [usage EXCEPT ![consuming[c].account][consuming[c].period] = @ + 1]
                                             ELSE usage
      BY <2>1 DEF ConsumeEffective
    <3> DEFINE a == consuming[c].account
               p == consuming[c].period
    <3>2. CASE a \in Customers /\ p \in Periods
      <4>1. usage[a][p] + 1 \in 0..MaxUsage
        BY <1>0, <1>m, <3>1, <3>2
      <4> QED BY <1>0, <3>1, <3>2, <4>1
    <3>3. CASE ~(a \in Customers /\ p \in Periods)
      BY <1>0, <3>1, <3>3
    <3> QED BY <3>2, <3>3
  <2>2. CASE ~ConsumeEffective
    <3>1. UNCHANGED usage
      BY <2>2 DEF BillingNext, EnsureUserAccount, Subscribe, CreatePendingSubscription, runBillingPayment,
                  ReconcileLifecycle, ReadQuota, ClaimChanges, TimePasses, billingVars
    <3> QED BY <1>0, <3>1
  <2> QED BY <2>1, <2>2
<1>3. CASE Quiet
  <2>1. \A i \in Ids : subs'[i] \in SubRow \cup {NoSub}
    BY <1>3 DEF Quiet
  <2>2. subs' \in [Ids -> SubRow \cup {NoSub}]
    BY <1>3, <2>1 DEF Quiet
  <2>3. Subscriptions' = Subscriptions
    BY <1>3, SubscriptionsMove
  <2> QED BY <1>0, <1>1, <1>2, <1>3, <2>2, <2>3 DEF BillShape, Quiet
<1>4. CASE Opens
  <2>1. PICK i \in Ids, u \in Customers, plan \in Catalogue :
           /\ i = Cardinality(Subscriptions) + 1
           /\ subs' = [subs EXCEPT ![i] = Opened(u, plan)]
           /\ ledger' = ledger \cup {[invoice |-> i, type |-> "INVOICE", amount |-> plan.price, event |-> "none"]}
           /\ UNCHANGED events
    BY <1>4 DEF Opens
  <2>2. Opened(u, plan) \in SubRow
    BY DEF Opened, SubRow, Live
  <2>3. subs' \in [Ids -> SubRow \cup {NoSub}]
    BY <1>0, <2>1, <2>2
  <2>4. Subscriptions' = Subscriptions \cup {i}
    BY <2>1, SubscriptionsMove
  <2>5. \E k \in 0..MaxSubscriptions : Subscriptions' = 1..k
    <3>1. PICK k \in 0..MaxSubscriptions : Subscriptions = 1..k
      BY DEF BillShape
    <3>2. Cardinality(1..k) = k
      <4>1. k \in Nat
        BY <1>m, <3>1
      <4> QED BY <4>1, FS_Interval
    <3>3. i = k + 1 /\ i \in 1..MaxSubscriptions
      BY <2>1, <3>1, <3>2 DEF Ids
    <3>4. i \in 0..MaxSubscriptions /\ (1..k) \cup {i} = 1..i
      BY <1>m, <3>1, <3>3
    <3> QED BY <2>4, <3>1, <3>4
  <2>6. [invoice |-> i, type |-> "INVOICE", amount |-> plan.price, event |-> "none"] \in Entry
    BY <1>m DEF Entry
  <2>7. ledger' \subseteq Entry /\ IsFiniteSet(ledger')
    BY <1>0, <2>1, <2>6, FS_AddElement
  <2> QED BY <1>0, <1>1, <1>2, <2>1, <2>3, <2>5, <2>7 DEF BillShape
<1>5. CASE Pays \/ Returns
  <2>1. PICK i \in Subscriptions, e \in PaymentIds, s \in SubRow, l \in Entry : Enters(i, e, s, l)
    BY <1>5 DEF Pays, Returns
  <2>2. Subscriptions' = Subscriptions
    BY <1>5, SubscriptionsMove
  <2>3. subs' \in [Ids -> SubRow \cup {NoSub}]
    BY <1>0, <2>1, SubscriptionsMove DEF Enters
  <2>4. ledger' \subseteq Entry /\ IsFiniteSet(ledger')
    BY <1>0, <2>1, FS_AddElement DEF Enters
  <2>5. events' = [f \in PaymentIds |-> events'[f]]
    BY <2>1 DEF Enters
  <2> QED BY <1>1, <1>2, <2>2, <2>3, <2>4, <2>5 DEF BillShape
<1> QED BY <1>3, <1>4, <1>5, BillingMoves

(* Every entry has its invoice and its stored event.                       *)
LEMMA KnownKept ==
    ASSUME BillShape, LedgerKnown, [BillingNext]_billingVars
    PROVE  LedgerKnown'
<1>0. \A l \in ledger : l \in Entry /\ l.event \in PaymentIds \cup {"none"}
  BY DEF BillShape, Entry
<1>a. ASSUME Stored, Subscriptions \subseteq Subscriptions', NEW l \in ledger
      PROVE  l.invoice \in Subscriptions' /\ (l.event # "none" => events'[l.event] # NoEvent)
  BY <1>0, <1>a DEF LedgerKnown, Stored
<1>1. CASE Quiet
  BY <1>1, <1>a, SubscriptionsMove DEF Quiet, LedgerKnown
<1>2. CASE Opens
  <2>1. PICK i \in Ids, u \in Customers, plan \in Catalogue :
           /\ subs' = [subs EXCEPT ![i] = Opened(u, plan)]
           /\ ledger' = ledger \cup {[invoice |-> i, type |-> "INVOICE", amount |-> plan.price, event |-> "none"]}
           /\ UNCHANGED events
    BY <1>2 DEF Opens
  <2>2. Subscriptions' = Subscriptions \cup {i} /\ Stored
    BY <2>1, SubscriptionsMove DEF Stored
  <2>3. ASSUME NEW l \in ledger'
        PROVE  l.invoice \in Subscriptions' /\ (l.event # "none" => events'[l.event] # NoEvent)
    <3>1. CASE l \in ledger
      BY <1>a, <2>2, <3>1
    <3>2. CASE l \notin ledger
      BY <2>1, <2>2, <3>2
    <3> QED BY <3>1, <3>2
  <2> QED BY <2>3 DEF LedgerKnown
<1>3. CASE Pays \/ Returns
  <2>1. PICK i \in Subscriptions, e \in PaymentIds, s \in SubRow, k \in Entry : Enters(i, e, s, k)
    BY <1>3 DEF Pays, Returns
  <2>2. Subscriptions' = Subscriptions /\ Stored
    BY <1>3, <2>1, SubscriptionsMove DEF Enters
  <2>3. ledger' = ledger \cup {k} /\ k.invoice = i /\ k.event = e /\ events'[e] # NoEvent
    BY <2>1 DEF Enters
  <2>4. ASSUME NEW l \in ledger'
        PROVE  l.invoice \in Subscriptions' /\ (l.event # "none" => events'[l.event] # NoEvent)
    <3>1. CASE l \in ledger
      BY <1>a, <2>2, <3>1
    <3>2. CASE l \notin ledger
      BY <2>2, <2>3, <3>2
    <3> QED BY <3>1, <3>2
  <2> QED BY <2>4 DEF LedgerKnown
<1> QED BY <1>1, <1>2, <1>3, BillingMoves

(* A row that settles stays explained by the same entries.                 *)
LEMMA SettledStaysClear ==
    ASSUME NEW r, NEW s, Settles(r, s), NEW paid \in BOOLEAN, NEW back, Clear(r, paid, back)
    PROVE  Clear(s, paid, back)
BY DEF Settles, Clear

(* The ledger goes on explaining every row.                                *)
LEMMA ClearKept ==
    ASSUME BillShape, LedgerKnown, AllClear, [BillingNext]_billingVars
    PROVE  AllClear'
<1>0. /\ subs \in [Ids -> SubRow \cup {NoSub}]
      /\ ledger \subseteq Entry /\ IsFiniteSet(ledger)
  BY DEF BillShape
<1>m. ASSUME NEW p \in Catalogue PROVE p.price \in Nat \ {0}
  BY BillingAssumptions, Zenon DEF BillingAssumptions
<1>s. ASSUME NEW i \in Subscriptions PROVE i \in Ids /\ subs[i] \in SubRow /\ subs[i].plan.price \in Nat \ {0}
  <2>1. i \in Ids /\ subs[i] \in SubRow
    BY SubscriptionsMove
  <2>2. subs[i].plan \in Catalogue
    BY <2>1 DEF SubRow
  <2> QED BY <1>m, <2>1, <2>2
<1>f. ASSUME NEW i PROVE Entries(i, "REFUND") \subseteq Entry /\ IsFiniteSet(Entries(i, "REFUND"))
                         /\ Adds(Entries(i, "REFUND"))
  <2>1. Entries(i, "REFUND") \subseteq ledger
    BY DEF Entries
  <2>2. IsFiniteSet(Entries(i, "REFUND"))
    BY <1>0, <2>1, FS_Subset
  <2> QED BY <1>0, <2>1, <2>2, TotalAdds
<1>a. ASSUME NEW i, Entries(i, "PAYMENT")' = Entries(i, "PAYMENT"), Entries(i, "REFUND")' = Entries(i, "REFUND"),
             i \in Subscriptions, Settles(subs[i], subs'[i])
      PROVE  Clear(subs'[i], Entries(i, "PAYMENT")' # {}, Refunded(i)')
  <2>1. Refunded(i)' = Refunded(i)
    BY <1>a, RefundedIsTotal
  <2>2. Clear(subs[i], Entries(i, "PAYMENT") # {}, Refunded(i))
    BY <1>a DEF AllClear
  <2>3. Clear(subs'[i], Entries(i, "PAYMENT") # {}, Refunded(i))
    BY <1>a, <2>2, SettledStaysClear
  <2> QED BY <1>a, <2>1, <2>3
<1>k. ASSUME NEW r \in SubRow PROVE Settles(r, r)
  BY DEF Settles
<1>1. CASE Quiet
  <2>1. Subscriptions' = Subscriptions
    BY <1>1, SubscriptionsMove
  <2> SUFFICES ASSUME NEW i \in Subscriptions
               PROVE  Clear(subs'[i], Entries(i, "PAYMENT")' # {}, Refunded(i)')
    BY <2>1 DEF AllClear
  <2>2. Entries(i, "PAYMENT")' = Entries(i, "PAYMENT") /\ Entries(i, "REFUND")' = Entries(i, "REFUND")
    BY <1>1 DEF Quiet, Entries
  <2>3. Settles(subs[i], subs'[i])
    <3>1. i \in Ids /\ subs[i] # NoSub
      BY DEF Subscriptions, NoSub
    <3> QED BY <1>1, <3>1 DEF Quiet
  <2> QED BY <1>a, <2>2, <2>3
<1>2. CASE Opens
  <2>1. PICK i \in Ids, u \in Customers, plan \in Catalogue :
           /\ i = Cardinality(Subscriptions) + 1
           /\ subs' = [subs EXCEPT ![i] = Opened(u, plan)]
           /\ ledger' = ledger \cup {[invoice |-> i, type |-> "INVOICE", amount |-> plan.price, event |-> "none"]}
    BY <1>2 DEF Opens
  <2>2. Subscriptions' = Subscriptions \cup {i} /\ i \notin Subscriptions
    BY <2>1, SubscriptionsMove
  <2>3. ASSUME NEW j PROVE Entries(j, "PAYMENT")' = Entries(j, "PAYMENT") /\ Entries(j, "REFUND")' = Entries(j, "REFUND")
    BY <2>1 DEF Entries
  <2> SUFFICES ASSUME NEW j \in Subscriptions'
               PROVE  Clear(subs'[j], Entries(j, "PAYMENT")' # {}, Refunded(j)')
    BY DEF AllClear
  <2>4. CASE j = i
    <3>1. Entries(i, "PAYMENT") = {} /\ Entries(i, "REFUND") = {}
      BY <2>2 DEF LedgerKnown, Entries
    <3>2. Total({}) = 0
      BY FS_EmptySet, TotalSteps
    <3>3. Refunded(i)' = 0
      BY <2>3, <3>1, <3>2, RefundedIsTotal
    <3>4. subs'[i] = Opened(u, plan)
      BY <1>0, <2>1
    <3>5. /\ Opened(u, plan).plan = plan /\ Opened(u, plan).status = "PENDING"
          /\ Opened(u, plan).invoice = "OPEN" /\ plan.price \in Nat \ {0}
      BY <1>m DEF Opened
    <3>6. Clear(Opened(u, plan), FALSE, 0)
      BY <3>5 DEF Clear
    <3>7. (Entries(i, "PAYMENT")' # {}) = FALSE
      BY <2>3, <3>1
    <3> QED BY <2>4, <3>3, <3>4, <3>6, <3>7
  <2>5. CASE j # i
    <3>1. j \in Subscriptions
      BY <2>2, <2>5
    <3>2. subs'[j] = subs[j]
      BY <1>0, <1>s, <2>1, <2>5, <3>1
    <3>3. Settles(subs[j], subs'[j])
      BY <1>k, <1>s, <3>1, <3>2
    <3> QED BY <1>a, <2>3, <3>1, <3>3
  <2> QED BY <2>4, <2>5
<1>3. CASE Pays \/ Returns
  <2>1. PICK i \in Subscriptions, e \in PaymentIds, s \in SubRow, l \in Entry :
          /\ Enters(i, e, s, l)
          /\ \/ /\ l.type = "PAYMENT" /\ subs[i].invoice # "REFUNDED"
                /\ s.invoice = "PAID" /\ s.status = "ACTIVE"
             \/ /\ l.type = "REFUND" /\ subs[i].invoice \in {"PAID", "REFUNDED"} /\ l.amount > 0
                /\ Refunded(i) + l.amount <= subs[i].plan.price
                /\ IF Refunded(i) + l.amount = subs[i].plan.price
                   THEN s.invoice = "REFUNDED" /\ s.status = "CANCELED"
                   ELSE s = subs[i]
    BY <1>3 DEF Pays, Returns
  <2>2. Subscriptions' = Subscriptions
    BY <1>3, SubscriptionsMove
  <2>3. /\ subs' = [subs EXCEPT ![i] = s] /\ ledger' = ledger \cup {l} /\ s.plan = subs[i].plan
        /\ events[e] = NoEvent /\ l.event = e /\ l.invoice = i
    BY <2>1 DEF Enters
  <2>4. l \notin ledger
    <3>1. e # "none"
      BY BillingAssumptions, Zenon DEF BillingAssumptions
    <3> QED BY <2>3, <3>1 DEF LedgerKnown
  <2> SUFFICES ASSUME NEW j \in Subscriptions
               PROVE  Clear(subs'[j], Entries(j, "PAYMENT")' # {}, Refunded(j)')
    BY <2>2 DEF AllClear
  <2>5. CASE j # i
    <3>1. Entries(j, "PAYMENT")' = Entries(j, "PAYMENT") /\ Entries(j, "REFUND")' = Entries(j, "REFUND")
      BY <2>3, <2>5 DEF Entries
    <3>2. subs'[j] = subs[j]
      BY <1>0, <1>s, <2>3, <2>5
    <3>3. Settles(subs[j], subs'[j])
      BY <1>k, <1>s, <3>2
    <3> QED BY <1>a, <3>1, <3>3
  <2>6. CASE j = i
    <3>0. /\ subs'[i] = s /\ Clear(subs[i], Entries(i, "PAYMENT") # {}, Refunded(i))
          /\ subs[i].plan.price \in Nat \ {0}
      BY <1>0, <1>s, <2>3 DEF AllClear
    <3>n. Refunded(i) \in Nat
      BY <1>f, RefundedIsTotal DEF Adds
    <3>1. CASE l.type = "PAYMENT"
      <4>1. Entries(i, "REFUND")' = Entries(i, "REFUND") /\ l \in Entries(i, "PAYMENT")'
        BY <2>3, <3>1 DEF Entries
      <4>2. Refunded(i)' = Refunded(i)
        BY <4>1, RefundedIsTotal
      <4>3. (Entries(i, "PAYMENT")' # {}) = TRUE
        BY <4>1
      <4>4. subs[i].invoice # "REFUNDED" /\ s.invoice = "PAID" /\ s.status = "ACTIVE"
        BY <2>1, <3>1
      <4>5. Clear(s, TRUE, Refunded(i))
        BY <2>3, <3>0, <4>4 DEF Clear
      <4> QED BY <2>6, <3>0, <4>2, <4>3, <4>5
    <3>2. CASE l.type = "REFUND"
      <4>1. Entries(i, "PAYMENT")' = Entries(i, "PAYMENT")
        BY <2>3, <3>2 DEF Entries
      <4>2. Entries(i, "REFUND")' = Entries(i, "REFUND") \cup {l} /\ l \notin Entries(i, "REFUND")
        BY <2>3, <2>4, <3>2 DEF Entries
      <4> DEFINE R == Entries(i, "REFUND")
      <4>3. Total(R \cup {l}) = l.amount + Total(R)
        <5>1. R \subseteq Entry /\ IsFiniteSet(R)
          BY <1>f
        <5>l. l \notin R
          BY <4>2
        <5> HIDE DEF R
        <5>2. R \cup {l} \subseteq Entry /\ IsFiniteSet(R \cup {l})
          BY <5>1, FS_AddElement
        <5>3. Adds(R \cup {l})
          BY <5>2, TotalAdds
        <5>4. (R \cup {l}) \ {l} = R /\ l \in R \cup {l}
          BY <5>l
        <5> QED BY <5>3, <5>4 DEF Adds
      <4>4. Refunded(i)' = l.amount + Refunded(i)
        BY <4>2, <4>3, RefundedIsTotal
      <4>5. l.amount \in Nat
        BY DEF Entry
      <4> DEFINE b == Refunded(i)
                 a == l.amount
                 paid == Entries(i, "PAYMENT") # {}
                 price == subs[i].plan.price
      <4>6. /\ subs[i].invoice \in {"PAID", "REFUNDED"} /\ a > 0 /\ b + a <= price
            /\ IF b + a = price THEN s.invoice = "REFUNDED" /\ s.status = "CANCELED" ELSE s = subs[i]
        BY <2>1, <3>2
      <4>7. paid /\ b <= price /\ (subs[i].invoice = "REFUNDED" <=> b = price)
        BY <3>0, <4>6 DEF Clear
      <4>8. a \in Nat /\ b \in Nat /\ price \in Nat
        BY <3>0, <3>n, <4>5
      <4> HIDE DEF a, b, paid, price
      <4>9. b # price
        BY <4>6, <4>8
      <4>10. Clear(s, paid, a + b)
        <5>1. CASE b + a = price
          <6>1. s.plan.price = a + b /\ s.invoice = "REFUNDED" /\ s.status = "CANCELED"
            BY <2>3, <4>6, <4>8, <5>1 DEF price
          <6>2. a + b <= a + b
            BY <4>8
          <6> QED BY <4>7, <6>1, <6>2 DEF Clear
        <5>2. CASE b + a # price
          <6>1. s = subs[i] /\ a + b <= price /\ a + b # price
            BY <4>6, <4>8, <5>2
          <6>2. subs[i].invoice # "REFUNDED"
            BY <4>7, <4>9
          <6>3. Clear(subs[i], paid, b)
            BY <3>0 DEF paid, b
          <6> QED BY <6>1, <6>2, <6>3 DEF Clear, price
        <5> QED BY <5>1, <5>2
      <4> QED BY <2>6, <3>0, <4>1, <4>4, <4>10 DEF a, b, paid
    <3> QED BY <2>1, <3>1, <3>2
  <2> QED BY <2>5, <2>6
<1> QED BY <1>1, <1>2, <1>3, BillingMoves

(* No account gets a second live subscription of a product.                *)
LEMMA OneLiveKept ==
    ASSUME BillShape, LedgerKnown, OneLive, [BillingNext]_billingVars
    PROVE  OneLive'
<1>0. subs \in [Ids -> SubRow \cup {NoSub}]
  BY DEF BillShape
<1>s. \A i \in Subscriptions : i \in Ids /\ subs[i] \in SubRow
  BY SubscriptionsMove
<1>1. CASE Quiet
  <2>1. Subscriptions' = Subscriptions
    BY <1>1, SubscriptionsMove
  <2>2. ASSUME NEW i \in Subscriptions PROVE Settles(subs[i], subs'[i])
    <3>1. i \in Ids /\ subs[i] # NoSub
      BY DEF Subscriptions, NoSub
    <3> QED BY <1>1, <3>1 DEF Quiet
  <2>3. ASSUME NEW i \in Subscriptions, NEW j \in Subscriptions, Rivals(subs'[i], subs'[j]) PROVE i = j
    <3>1. Rivals(subs[i], subs[j])
      BY <2>2, <2>3 DEF Settles, Rivals
    <3> QED BY <3>1 DEF OneLive
  <2> QED BY <2>1, <2>3 DEF OneLive
<1>2. ASSUME NEW i \in Ids, NEW s, NEW u, NEW plan, uniqueSubscription(i, u, plan),
             s.account = u, s.plan.product = plan.product, subs' = [subs EXCEPT ![i] = s],
             Subscriptions' = Subscriptions \cup {i}
      PROVE  OneLive'
  <2>1. ASSUME NEW j \in Subscriptions', j # i
        PROVE  j \in Subscriptions /\ subs'[j] = subs[j] /\ subs'[i] = s /\ ~Rivals(s, subs[j]) /\ ~Rivals(subs[j], s)
    <3>1. j \in Subscriptions /\ j \in Ids
      BY <1>2, <1>s, <2>1
    <3>2. subs'[j] = subs[j] /\ subs'[i] = s
      BY <1>0, <1>2, <2>1, <3>1
    <3>3. ~(subs[j].account = u /\ subs[j].plan.product = plan.product /\ subs[j].status \in Live)
      BY <1>2, <2>1, <3>1 DEF uniqueSubscription
    <3> QED BY <1>2, <3>1, <3>2, <3>3 DEF Rivals
  <2>2. ASSUME NEW j \in Subscriptions', NEW k \in Subscriptions', Rivals(subs'[j], subs'[k]) PROVE j = k
    <3>1. CASE j # i /\ k # i
      BY <2>1, <2>2, <3>1 DEF OneLive
    <3>2. CASE j = i /\ k # i
      BY <2>1, <2>2, <3>2
    <3>3. CASE j # i /\ k = i
      BY <2>1, <2>2, <3>3
    <3> QED BY <3>1, <3>2, <3>3
  <2> QED BY <2>2 DEF OneLive
<1>3. CASE Opens
  <2>1. PICK i \in Ids, u \in Customers, plan \in Catalogue :
           uniqueSubscription(i, u, plan) /\ subs' = [subs EXCEPT ![i] = Opened(u, plan)]
    BY <1>3 DEF Opens
  <2>2. Subscriptions' = Subscriptions \cup {i}
    BY <2>1, SubscriptionsMove
  <2>3. Opened(u, plan).account = u /\ Opened(u, plan).plan.product = plan.product
    BY DEF Opened
  <2> QED BY <1>2, <2>1, <2>2, <2>3
<1>4. CASE Pays
  <2>1. PICK i \in Subscriptions, e \in PaymentIds, s \in SubRow, l \in Entry :
           Enters(i, e, s, l) /\ uniqueSubscription(i, subs[i].account, subs[i].plan)
    BY <1>4 DEF Pays
  <2>2. Subscriptions' = Subscriptions \cup {i}
    BY <1>4, SubscriptionsMove
  <2>3. i \in Ids /\ s.account = subs[i].account /\ s.plan.product = subs[i].plan.product /\ subs' = [subs EXCEPT ![i] = s]
    BY <1>s, <2>1 DEF Enters
  <2> QED BY <1>2, <2>1, <2>2, <2>3
<1>5. CASE Returns
  <2>1. PICK i \in Subscriptions, s \in SubRow : /\ subs' = [subs EXCEPT ![i] = s]
                                                 /\ s.status = "CANCELED" \/ s = subs[i]
    <3>1. PICK i \in Subscriptions, e \in PaymentIds, s \in SubRow, l \in Entry :
             /\ Enters(i, e, s, l)
             /\ IF Refunded(i) + l.amount = subs[i].plan.price
                THEN s.invoice = "REFUNDED" /\ s.status = "CANCELED"
                ELSE s = subs[i]
      BY <1>5, Zenon DEF Returns
    <3>2. subs' = [subs EXCEPT ![i] = s]
      BY <3>1 DEF Enters
    <3>3. s.status = "CANCELED" \/ s = subs[i]
      BY <3>1, Zenon
    <3> QED BY <3>2, <3>3
  <2>2. Subscriptions' = Subscriptions
    BY <1>5, SubscriptionsMove
  <2>3. ASSUME NEW j \in Subscriptions PROVE subs'[j] = subs[j] \/ subs'[j].status \notin Live
    <3>1. CASE j = i
      BY <1>0, <1>s, <2>1, <3>1 DEF Live
    <3>2. CASE j # i
      BY <1>0, <1>s, <2>1, <3>2
    <3> QED BY <3>1, <3>2
  <2>4. ASSUME NEW j \in Subscriptions, NEW k \in Subscriptions, Rivals(subs'[j], subs'[k]) PROVE j = k
    <3>1. subs'[j] = subs[j] /\ subs'[k] = subs[k]
      BY <2>3, <2>4 DEF Rivals
    <3> QED BY <2>4, <3>1 DEF OneLive
  <2> QED BY <2>2, <2>4 DEF OneLive
<1> QED BY <1>1, <1>3, <1>4, <1>5, BillingMoves

(* The newest of some subscriptions exists.                                *)
LEMMA NewestExists ==
    ASSUME NEW T, T \subseteq Ids, T # {}
    PROVE  Max(T) \in T
<1>0. MaxSubscriptions \in Nat
  BY BillingAssumptions DEF BillingAssumptions
<1> DEFINE U == {MaxSubscriptions - x : x \in T}
<1>1. U \subseteq Nat /\ U # {}
  <2>1. ASSUME NEW x \in T PROVE MaxSubscriptions - x \in Nat
    <3>1. x \in 1..MaxSubscriptions
      BY DEF Ids
    <3> QED BY <1>0, <3>1
  <2>2. U \subseteq Nat
    BY <2>1
  <2>3. PICK x : x \in T
    OBVIOUS
  <2>4. MaxSubscriptions - x \in U
    BY <2>3
  <2> QED BY <2>2, <2>4
<1>2. PICK n \in U : \A m \in U : n <= m
  <2> HIDE DEF U
  <2> QED BY <1>1, LeastNumber
<1>3. PICK x \in T : n = MaxSubscriptions - x
  OBVIOUS
<1>4. \A y \in T : MaxSubscriptions - x <= MaxSubscriptions - y
  BY <1>2, <1>3
<1>5. \A y \in T : x >= y
  BY <1>0, <1>4 DEF Ids
<1> QED BY <1>5 DEF Max

(* A subscription keeps its plan, so a period keeps its limit.             *)
LEMMA LimitKept ==
    ASSUME BillShape, LedgerKnown, [BillingNext]_billingVars
    PROVE  /\ Subscriptions \subseteq Subscriptions'
           /\ \A p \in {0} \cup Subscriptions : Limit(p)' = Limit(p)
           /\ \A p \in Periods : Limit(p) \in Nat /\ Limit(p)' \in Nat /\ Limit(p) <= Limit(p)'
<1>0. subs \in [Ids -> SubRow \cup {NoSub}]
  BY DEF BillShape
<1>s. \A i \in Subscriptions : i \in Ids /\ i # 0 /\ subs[i] \in SubRow
  BY SubscriptionsMove
<1>1. \A i \in Subscriptions : i \in Subscriptions' /\ subs'[i].plan = subs[i].plan
  <2>1. CASE Quiet
    <3>1. ASSUME NEW i \in Subscriptions PROVE subs'[i].plan = subs[i].plan
      <4>1. i \in Ids /\ subs[i] # NoSub
        BY DEF Subscriptions, NoSub
      <4> QED BY <2>1, <4>1 DEF Quiet, Settles
    <3> QED BY <2>1, <3>1, SubscriptionsMove
  <2>2. CASE Opens
    <3>1. PICK i \in Ids, u \in Customers, plan \in Catalogue :
             i = Cardinality(Subscriptions) + 1 /\ subs' = [subs EXCEPT ![i] = Opened(u, plan)]
      BY <2>2 DEF Opens
    <3>2. Subscriptions' = Subscriptions \cup {i} /\ i \notin Subscriptions
      BY <3>1, SubscriptionsMove
    <3> QED BY <1>0, <1>s, <3>1, <3>2
  <2>3. CASE Pays \/ Returns
    <3>1. PICK i \in Subscriptions, s \in SubRow : subs' = [subs EXCEPT ![i] = s] /\ s.plan = subs[i].plan
      BY <2>3 DEF Pays, Returns, Enters
    <3>2. Subscriptions' = Subscriptions
      BY <2>3, SubscriptionsMove
    <3> QED BY <1>0, <1>s, <3>1, <3>2
  <2> QED BY <2>1, <2>2, <2>3, BillingMoves
<1>2. \A p \in {0} \cup Subscriptions : Limit(p)' = Limit(p)
  BY <1>1 DEF Limit
<1>q. /\ FreeLimit \in Nat
      /\ \A p \in Catalogue : p.quota \in Nat
  BY BillingAssumptions, Zenon DEF BillingAssumptions
<1>3. \A i \in Subscriptions : subs[i].plan.quota \in Nat
  BY <1>q, <1>s DEF SubRow
<1>4. \A i \in Subscriptions' : subs'[i].plan.quota \in Nat
  <2>1. subs' \in [Ids -> SubRow \cup {NoSub}]
    BY ShapeKept DEF BillShape
  <2>2. \A i \in Subscriptions' : subs'[i] \in SubRow
    BY <2>1 DEF Subscriptions, NoSub
  <2> QED BY <1>q, <2>2 DEF SubRow
<1>5. ASSUME NEW p \in Periods PROVE Limit(p) \in Nat /\ Limit(p)' \in Nat /\ Limit(p) <= Limit(p)'
  <2>1. Limit(p) \in Nat
    BY <1>q, <1>3 DEF Limit
  <2>2. Limit(p)' \in Nat
    BY <1>q, <1>4 DEF Limit
  <2>3. CASE p \in {0} \cup Subscriptions
    BY <1>2, <2>1, <2>3
  <2>4. CASE p \notin {0} \cup Subscriptions
    <3>1. Limit(p) = 0
      BY <2>4 DEF Limit
    <3> QED BY <2>1, <2>2, <3>1
  <2> QED BY <2>1, <2>2, <2>3, <2>4
<1> QED BY <1>1, <1>2, <1>5

(* What a request reads is the limit of the period it will use.            *)
LEMMA QuotaIsLimit ==
    ASSUME BillShape, NEW u \in Customers, NEW product
    PROVE  LET q == EffectiveQuota(u, product)
           IN  q.account = u /\ q.period \in {0} \cup Subscriptions /\ q.limit = Limit(q.period)
<1> DEFINE k == Entitlement(u, product)
<1>1. k \in {0} \cup Subscriptions
  <2> DEFINE mine == {i \in Subscriptions : subs[i].account = u /\ subs[i].plan.product = product /\ subs[i].status \in {"ACTIVE", "GRACE"}}
  <2>1. mine \subseteq Ids /\ mine \subseteq Subscriptions
    BY DEF Subscriptions
  <2>2. mine # {} => Max(mine) \in mine
    <3> HIDE DEF mine
    <3> QED BY <2>1, NewestExists
  <2>3. k = 0 \/ (mine # {} /\ k = Max(mine))
    BY DEF Entitlement
  <2> HIDE DEF mine, k
  <2> QED BY <2>1, <2>2, <2>3
<1> HIDE DEF k
<1>2. EffectiveQuota(u, product) =
         [phase |-> "write", account |-> u, period |-> k, limit |-> IF k = 0 THEN FreeLimit ELSE subs[k].plan.quota]
  BY DEF EffectiveQuota, k
<1>3. Limit(k) = IF k = 0 THEN FreeLimit ELSE subs[k].plan.quota
  BY <1>1 DEF Limit
<1> QED BY <1>2, <1>3, <1>1

(* A request between its read and its write still knows its limit.         *)
LEMMA ReadersKept ==
    ASSUME BillInv, [BillingNext]_billingVars
    PROVE  ReadersKnow' /\ consuming' = [c \in Consumers |-> consuming'[c]]
<1>0. /\ BillShape /\ LedgerKnown /\ ReadersKnow
      /\ consuming = [c \in Consumers |-> consuming[c]]
  BY DEF BillInv
<1>l. /\ Subscriptions \subseteq Subscriptions'
      /\ \A p \in {0} \cup Subscriptions : Limit(p)' = Limit(p)
  BY <1>0, LimitKept
<1> DEFINE Knows(q) == q.phase = "write" =>
              q.account \in Customers /\ q.period \in {0} \cup Subscriptions /\ q.limit = Limit(q.period)
<1>1. \A c \in Consumers : Knows(consuming[c])
  BY <1>0 DEF ReadersKnow
<1>2. ASSUME NEW q, Knows(q)
      PROVE  q.phase = "write" =>
                q.account \in Customers /\ q.period \in {0} \cup Subscriptions' /\ q.limit = Limit(q.period)'
  BY <1>2, <1>l
<1>3. /\ \A c \in Consumers : Knows(consuming'[c])
      /\ consuming' = [c \in Consumers |-> consuming'[c]]
  <2>1. ASSUME NEW d \in Consumers, NEW q, Knows(q), consuming' = [consuming EXCEPT ![d] = q]
        PROVE  /\ \A c \in Consumers : Knows(consuming'[c])
               /\ consuming' = [c \in Consumers |-> consuming'[c]]
    <3> HIDE DEF Knows
    <3>1. consuming' = [c \in Consumers |-> consuming'[c]]
      BY <1>0, <2>1
    <3>2. \A c \in Consumers : consuming'[c] = q \/ consuming'[c] = consuming[c]
      BY <1>0, <2>1
    <3> QED BY <1>1, <2>1, <3>1, <3>2
  <2>2. CASE ReadQuota
    <3>1. PICK d \in Consumers, u \in Customers : consuming' = [consuming EXCEPT ![d] = EffectiveQuota(u, "WEBMASTER_PRO")]
      BY <2>2 DEF ReadQuota
    <3>2. Knows(EffectiveQuota(u, "WEBMASTER_PRO"))
      BY <1>0, QuotaIsLimit
    <3> QED BY <2>1, <3>1, <3>2
  <2>3. CASE ConsumeEffective
    <3>1. PICK d \in Consumers : consuming' = [consuming EXCEPT ![d] = Reading]
      BY <2>3 DEF ConsumeEffective
    <3>2. Knows(Reading)
      BY DEF Reading
    <3> QED BY <2>1, <3>1, <3>2
  <2>4. CASE ~(ReadQuota \/ ConsumeEffective)
    <3>1. UNCHANGED consuming
      BY <2>4 DEF BillingNext, EnsureUserAccount, Subscribe, CreatePendingSubscription, runBillingPayment,
                  ReconcileLifecycle, ClaimChanges, TimePasses, billingVars
    <3> HIDE DEF Knows
    <3> QED BY <1>0, <1>1, <3>1
  <2> QED BY <2>2, <2>3, <2>4
<1>4. ASSUME NEW c \in Consumers
      PROVE  consuming'[c].phase = "write" =>
                /\ consuming'[c].account \in Customers
                /\ consuming'[c].period \in {0} \cup Subscriptions'
                /\ consuming'[c].limit = Limit(consuming[c].period)'
  <2>1. PICK q : q = consuming'[c]
    OBVIOUS
  <2>2. Knows(q)
    BY <1>3, <2>1
  <2> HIDE DEF Knows
  <2> QED BY <1>2, <2>1, <2>2
<1>5. ReadersKnow'
  BY <1>4 DEF ReadersKnow
<1> QED BY <1>3, <1>5

(* Usage grows only below the limit, and a limit never shrinks.            *)
LEMMA QuotaKept ==
    ASSUME BillInv, [BillingNext]_billingVars
    PROVE  QuotaHeld'
<1>0. /\ BillShape /\ LedgerKnown /\ ReadersKnow /\ QuotaHeld
      /\ usage \in [Customers -> [Periods -> 0..MaxUsage]]
  BY DEF BillInv, BillShape
<1>m. MaxUsage \in Nat
  BY BillingAssumptions DEF BillingAssumptions
<1>l. \A p \in Periods : Limit(p) \in Nat /\ Limit(p)' \in Nat /\ Limit(p) <= Limit(p)'
  BY <1>0, LimitKept
<1>u. \A u \in Customers, p \in Periods : usage[u][p] \in Nat /\ usage[u][p] <= Limit(p)
  <2>1. ASSUME NEW u \in Customers, NEW p \in Periods PROVE usage[u][p] \in Nat
    <3>1. usage[u][p] \in 0..MaxUsage
      BY <1>0
    <3> QED BY <1>m, <3>1
  <2> QED BY <1>0, <2>1 DEF QuotaHeld, Limit
<1>1. \A u \in Customers, p \in Periods : usage'[u][p] \in Nat /\ usage'[u][p] <= Limit(p)
  <2>1. CASE UNCHANGED usage
    BY <1>u, <2>1
  <2>2. CASE ConsumeEffective /\ ~UNCHANGED usage
    <3>1. PICK c \in Consumers :
             /\ consuming[c].phase = "write" /\ MayConsume(consuming[c])
             /\ usage' = [usage EXCEPT ![consuming[c].account][consuming[c].period] = @ + 1]
      BY <2>2 DEF ConsumeEffective
    <3>2. PICK a, n : a = consuming[c].account /\ n = consuming[c].period
      OBVIOUS
    <3>3. a \in Customers /\ n \in {0} \cup Subscriptions /\ usage[a][n] + 1 <= Limit(n)
      BY <1>0, <3>1, <3>2 DEF ReadersKnow, MayConsume
    <3>4. n \in Periods
      <4>1. n \in {0} \cup Ids /\ MaxSubscriptions \in Nat
        BY <3>3, BillingAssumptions DEF Subscriptions, BillingAssumptions
      <4> QED BY <4>1 DEF Ids, Periods
    <3>5. usage' = [usage EXCEPT ![a][n] = usage[a][n] + 1]
      BY <3>1, <3>2
    <3>6. ASSUME NEW u \in Customers, NEW p \in Periods PROVE usage'[u][p] \in Nat /\ usage'[u][p] <= Limit(p)
      <4>1. CASE u = a /\ p = n
        <5>1. usage'[u][p] = usage[a][n] + 1
          BY <1>0, <3>3, <3>4, <3>5, <4>1
        <5>2. usage[a][n] \in Nat
          BY <1>u, <3>3, <3>4
        <5> QED BY <3>3, <4>1, <5>1, <5>2
      <4>2. CASE ~(u = a /\ p = n)
        <5>1. usage'[u][p] = usage[u][p]
          BY <1>0, <3>3, <3>4, <3>5, <4>2
        <5> QED BY <1>u, <5>1
      <4> QED BY <4>1, <4>2
    <3> QED BY <3>6
  <2>3. ConsumeEffective \/ UNCHANGED usage
    BY DEF BillingNext, EnsureUserAccount, Subscribe, CreatePendingSubscription, runBillingPayment,
           ReconcileLifecycle, ReadQuota, ClaimChanges, TimePasses, billingVars
  <2> QED BY <2>1, <2>2, <2>3
<1>2. ASSUME NEW u \in Customers, NEW p \in Periods PROVE usage'[u][p] <= Limit(p)'
  <2>1. PICK x, a, b : x = usage'[u][p] /\ a = Limit(p) /\ b = Limit(p)'
    OBVIOUS
  <2>2. x \in Nat /\ a \in Nat /\ b \in Nat /\ x <= a /\ a <= b
    BY <1>1, <1>l, <2>1
  <2>3. x <= b
    BY <2>2
  <2> QED BY <2>1, <2>3
<1> QED BY <1>2 DEF QuotaHeld, Limit

(* Each step keeps the invariant.                                          *)
LEMMA BillStep == BillInv /\ [BillingNext]_billingVars => BillInv'
<1> SUFFICES ASSUME BillInv, [BillingNext]_billingVars PROVE BillInv'
  OBVIOUS
<1>0. BillShape /\ LedgerKnown /\ AllClear /\ OneLive
  BY DEF BillInv
<1>1. BillShape' /\ LedgerKnown' /\ AllClear' /\ OneLive'
  BY <1>0, ShapeKept, KnownKept, ClearKept, OneLiveKept
<1>2. ReadersKnow' /\ QuotaHeld' /\ consuming' = [c \in Consumers |-> consuming'[c]]
  BY ReadersKept, QuotaKept
<1> QED BY <1>1, <1>2 DEF BillInv

(* Billing is exact for any customers, plans, payment events, amounts and  *)
(* quota requests (payment.go, quota.go): an invoice is paid or refunded   *)
(* exactly when the ledger says so, what is given back never exceeds its   *)
(* amount, an account has one live subscription a product, and no period   *)
(* is used beyond its limit.                                               *)
THEOREM BillingStaysExact == BillingSpec => []BillingIsExact
<1>1. BillingSpec => []BillInv
  BY BillInitial, BillStep, PTL DEF BillingSpec
<1> QED BY <1>1, BillInvImplies, PTL

-----------------------------------------------------------------------------
(* Accounts: guesses and sessions under racing requests.                   *)

\* What a request of the portal carries at each step.
AccountRequests ==
    {Idle}
    \cup [step : {"session", "failure", "profile", "wmSession"}, user : People]
    \cup [step : {"success"}, user : People, pw : Passwords, rehash : BOOLEAN]
    \cup [step : {"authenticated"}, user : People, session : Nat, csrf : Nat]
    \cup [step : {"wmInsert"}, user : People, evict : SUBSET Nat]
WebmasterRow == [user : People, id : Nat, live : BOOLEAN]

AccountShape ==
    /\ consumer \in [People -> ConsumerRow]
    /\ profile \in [People -> Hashes]
    /\ sessions \in Seq(SessionRow)
    /\ wmSessions \in Seq(WebmasterRow)
    /\ request \in [Clients -> AccountRequests]
    /\ guesses \in [People -> Nat]
    /\ tried \in 0..MaxGuesses
    /\ opened \in 0..MaxOpened

\* The requests that will record a wrong password for p.
Failing(p) == {c \in Clients : request[c].step = "failure" /\ request[c].user = p}

\* An unlocked account has taken fewer than MaxFailures wrong passwords and
\* counted each; a locked one lets nobody else reach the password check.
GuessesHeld(p) ==
    /\ ~Exists(p) => guesses[p] = 0 /\ Failing(p) = {}
    /\ ~consumer[p].locked => guesses[p] < MaxFailures /\ guesses[p] <= consumer[p].fails
    /\ consumer[p].locked => guesses[p] + Cardinality(Failing(p)) < MaxFailures + Cardinality(Clients)
GuessInv == \A p \in People : GuessesHeld(p)

LiveBounded == \A p \in People : Cardinality(LiveSessions(p)) <= SessionCap

\* The ids of p's rows, and the requests between the trigger and the insert.
WebmasterIds(p) == {wmSessions[i].id : i \in {j \in DOMAIN wmSessions : wmSessions[j].user = p}}
Inserting(p) == {c \in Clients : request[c].step = "wmInsert" /\ request[c].user = p}
EvictedBy(Q) == UNION {request[c].evict : c \in Q}

\* Whichever of the pending inserts run, each deletes what it was told to and
\* adds one row.
InsertsHeld(p) == \A Q \in SUBSET Inserting(p) :
    Cardinality(WebmasterIds(p) \ EvictedBy(Q)) + Cardinality(Q) < WebmasterCap + Cardinality(Clients)
RowsDiffer ==
    /\ \A i \in DOMAIN wmSessions : wmSessions[i].id <= opened
    /\ \A i, j \in DOMAIN wmSessions : wmSessions[i].id = wmSessions[j].id => i = j
InsertInv == RowsDiffer /\ \A p \in People : InsertsHeld(p)

AccountInv == AccountShape /\ GuessInv /\ LiveBounded /\ InsertInv

(* Every hash made is one of a password, so an account that has a hash     *)
(* keeps having one.                                                       *)
LEMMA HashesAreMade ==
    /\ NoHash \in Hashes
    /\ \A pw \in Passwords : /\ HashPassword(pw) \in Hashes /\ HashPassword(pw) # NoHash
                             /\ WebmasterHash(pw) \in Hashes /\ WebmasterHash(pw) # NoHash
<1>1. NoHash \in Hashes
  BY DEF Hashes
<1>2. ASSUME NEW pw \in Passwords
      PROVE  /\ HashPassword(pw) \in Hashes /\ HashPassword(pw) # NoHash
             /\ WebmasterHash(pw) \in Hashes /\ WebmasterHash(pw) # NoHash
  <2>1. pw # NoPassword
    BY AccountAssumptions DEF AccountAssumptions
  <2>2. /\ HashPassword(pw) \in [pw : Passwords, current : BOOLEAN] /\ HashPassword(pw).pw = pw
        /\ WebmasterHash(pw) \in [pw : Passwords, current : BOOLEAN] /\ WebmasterHash(pw).pw = pw
    BY DEF HashPassword, WebmasterHash
  <2>3. NoHash.pw = NoPassword
    BY DEF NoHash
  <2> QED BY <2>1, <2>2, <2>3 DEF Hashes
<1> QED BY <1>1, <1>2

(* What a request at a step carries.                                       *)
LEMMA RequestCarries ==
    ASSUME NEW r \in AccountRequests
    PROVE  /\ r.step # "idle" => r.user \in People
           /\ r.step = "success" => r.pw \in Passwords /\ r.rehash \in BOOLEAN
           /\ r.step = "success" => \A b \in BOOLEAN : [r EXCEPT !.rehash = b] \in AccountRequests
           /\ r.step = "success" => \A b \in BOOLEAN : [r EXCEPT !.rehash = b].step = "success"
           /\ r.step = "wmInsert" => r.evict \in SUBSET Nat
           /\ r.step = "idle" <=> r = Idle
<1>1. CASE r = Idle
  BY <1>1 DEF Idle
<1>2. CASE r \in [step : {"session", "failure", "profile", "wmSession"}, user : People]
  BY <1>2 DEF Idle
<1>3. CASE r \in [step : {"success"}, user : People, pw : Passwords, rehash : BOOLEAN]
  <2>1. r.step = "success" /\ r.user \in People /\ r.pw \in Passwords /\ r.rehash \in BOOLEAN
    BY <1>3
  <2>2. ASSUME NEW b \in BOOLEAN
        PROVE  /\ [r EXCEPT !.rehash = b] \in [step : {"success"}, user : People, pw : Passwords, rehash : BOOLEAN]
               /\ [r EXCEPT !.rehash = b].step = "success"
    BY <1>3
  <2> QED BY <2>1, <2>2 DEF AccountRequests, Idle
<1>4. CASE r \in [step : {"authenticated"}, user : People, session : Nat, csrf : Nat]
  BY <1>4 DEF Idle
<1>5. CASE r \in [step : {"wmInsert"}, user : People, evict : SUBSET Nat]
  BY <1>5 DEF Idle
<1> QED BY <1>1, <1>2, <1>3, <1>4, <1>5 DEF AccountRequests

(* A request moves to a step; the others stay where they are.              *)
LEMMA RequestMoves ==
    ASSUME request \in [Clients -> AccountRequests], NEW c \in Clients, NEW r \in AccountRequests, Ask(c, r)
    PROVE  /\ request' \in [Clients -> AccountRequests]
           /\ request'[c] = r
           /\ \A d \in Clients : d # c => request'[d] = request[d]
BY DEF Ask

(* Revoking beyond the newest changes rows in place.                       *)
LEMMA KeepNewestRows ==
    ASSUME NEW all \in Seq(SessionRow), NEW p
    PROVE  /\ KeepNewest(all, p) \in Seq(SessionRow)
           /\ Len(KeepNewest(all, p)) = Len(all)
           /\ \A i \in 1..Len(all) :
                 /\ KeepNewest(all, p)[i].user = all[i].user
                 /\ KeepNewest(all, p)[i].live => all[i].live
                 /\ all[i].user = p /\ KeepNewest(all, p)[i].live =>
                       ~(Cardinality({j \in {k \in 1..Len(all) : all[k].user = p /\ all[k].live} : j > i}) >= SessionCap)
<1> DEFINE live == {i \in DOMAIN all : all[i].user = p /\ all[i].live}
           Newer(i) == {j \in live : j > i}
           row(i) == IF i \in live /\ Cardinality(Newer(i)) >= SessionCap THEN [all[i] EXCEPT !.live = FALSE] ELSE all[i]
<1>1. KeepNewest(all, p) = [i \in DOMAIN all |-> row(i)]
  BY DEF KeepNewest
<1>2. ASSUME NEW i \in DOMAIN all
      PROVE  /\ row(i) \in SessionRow /\ row(i).user = all[i].user /\ (row(i).live => all[i].live)
             /\ all[i].user = p /\ row(i).live => ~(Cardinality(Newer(i)) >= SessionCap)
  <2>1. all[i] \in SessionRow
    OBVIOUS
  <2>2. /\ [all[i] EXCEPT !.live = FALSE] \in SessionRow /\ [all[i] EXCEPT !.live = FALSE].user = all[i].user
        /\ [all[i] EXCEPT !.live = FALSE].live = FALSE
    BY <2>1 DEF SessionRow
  <2> DEFINE over == Cardinality(Newer(i)) >= SessionCap
  <2>3. row(i) = IF i \in live /\ over THEN [all[i] EXCEPT !.live = FALSE] ELSE all[i]
    OBVIOUS
  <2>4. i \in live <=> all[i].user = p /\ all[i].live
    OBVIOUS
  <2> HIDE DEF row, live, over
  <2>5. CASE i \in live /\ over
    BY <2>2, <2>3, <2>5
  <2>6. CASE ~(i \in live /\ over)
    BY <2>1, <2>3, <2>4, <2>6 DEF over
  <2> QED BY <2>5, <2>6
<1>3. DOMAIN all = 1..Len(all) /\ Len(all) \in Nat
  OBVIOUS
<1>4. \A i \in 1..Len(all) : Newer(i) = {j \in {k \in 1..Len(all) : all[k].user = p /\ all[k].live} : j > i}
  BY <1>3
<1> HIDE DEF row, Newer
<1>5. KeepNewest(all, p) \in [1..Len(all) -> SessionRow]
  BY <1>1, <1>2, <1>3
<1>6. PICK n \in Nat : n = Len(all)
  BY <1>3
<1>7. KeepNewest(all, p) \in Seq(SessionRow) /\ Len(KeepNewest(all, p)) = Len(all)
  BY <1>5, <1>6
<1>8. \A i \in 1..Len(all) : KeepNewest(all, p)[i] = row(i)
  BY <1>1, <1>3
<1> QED BY <1>2, <1>3, <1>4, <1>7, <1>8

(* The rows and the requests keep their shape.                             *)
LEMMA AccountShapeStep == AccountShape /\ [AccountNext]_accountVars => AccountShape'
<1> SUFFICES ASSUME AccountShape, [AccountNext]_accountVars PROVE AccountShape'
  OBVIOUS
<1> USE DEF AccountShape
<1>0. MaxGuesses \in Nat /\ MaxOpened \in Nat
  BY AccountAssumptions DEF AccountAssumptions
<1>A. Idle \in AccountRequests
  BY DEF AccountRequests
<1>B. ASSUME NEW st \in {"session", "failure", "profile", "wmSession"}, NEW p \in People
      PROVE  [step |-> st, user |-> p] \in AccountRequests
  BY DEF AccountRequests
<1>C. ASSUME NEW c \in Clients, NEW r \in AccountRequests, Ask(c, r)
      PROVE  request' \in [Clients -> AccountRequests]
  BY <1>C, RequestMoves
<1>D. ASSUME NEW c \in Clients, Respond(c) PROVE request' \in [Clients -> AccountRequests]
  BY <1>A, <1>C, <1>D DEF Respond
<1>E. ASSUME NEW c \in Clients, request[c].step # "idle"
      PROVE  /\ request[c] \in AccountRequests /\ request[c].user \in People
             /\ consumer[request[c].user] \in ConsumerRow
             /\ consumer[request[c].user].hash \in Hashes /\ consumer[request[c].user].fails \in Nat
             /\ consumer[request[c].user].locked \in BOOLEAN
  BY <1>E, RequestCarries DEF ConsumerRow
<1>F. \A p \in People : /\ consumer[p] \in ConsumerRow /\ consumer[p].hash \in Hashes
                        /\ consumer[p].fails \in Nat /\ consumer[p].locked \in BOOLEAN
  BY DEF ConsumerRow
<1>1. ASSUME NEW c \in Clients, PostRegister(c) PROVE AccountShape'
  <2>1. PICK p \in People, pw \in Passwords :
            /\ consumer' = [consumer EXCEPT ![p] = [hash |-> HashPassword(pw), fails |-> 0, locked |-> FALSE]]
            /\ Ask(c, [step |-> "session", user |-> p])
            /\ UNCHANGED <<profile, sessions, wmSessions, guesses, tried, opened>>
    BY <1>1 DEF PostRegister, Register, CreateUser, newSession
  <2>2. [hash |-> HashPassword(pw), fails |-> 0, locked |-> FALSE] \in ConsumerRow
    BY HashesAreMade DEF ConsumerRow
  <2>3. request' \in [Clients -> AccountRequests]
    BY <1>B, <1>C, <2>1
  <2> QED BY <2>1, <2>2, <2>3
<1>2. ASSUME NEW c \in Clients, PostLogin(c) PROVE AccountShape'
  <2>1. PICK p \in People, pw \in Passwords : LET hash == consumer[p].hash IN
           /\ \/ /\ VerifyPassword(hash, pw)
                 /\ Ask(c, [step |-> "success", user |-> p, pw |-> pw, rehash |-> NeedsRehash(hash, pw)])
                 /\ UNCHANGED tried
              \/ /\ ~VerifyPassword(hash, pw) /\ tried < MaxGuesses
                 /\ tried' = tried + 1
                 /\ Ask(c, [step |-> "failure", user |-> p])
           /\ UNCHANGED <<consumer, profile, sessions, wmSessions, guesses, opened>>
    BY <1>2 DEF PostLogin, Login
  <2>2. NeedsRehash(consumer[p].hash, pw) \in BOOLEAN
    BY DEF NeedsRehash, VerifyPassword
  <2>3. [step |-> "success", user |-> p, pw |-> pw, rehash |-> NeedsRehash(consumer[p].hash, pw)] \in AccountRequests
    BY <2>2 DEF AccountRequests
  <2>4. request' \in [Clients -> AccountRequests]
    BY <1>B, <1>C, <2>1, <2>3
  <2>5. tried' \in 0..MaxGuesses
    BY <1>0, <2>1
  <2> QED BY <2>1, <2>4, <2>5
<1>3. ASSUME NEW c \in Clients, PostWebmasterRegister(c) PROVE AccountShape'
  <2>1. PICK p \in People, pw \in Passwords :
            /\ profile' = [profile EXCEPT ![p] = WebmasterHash(pw)]
            /\ consumer' = [consumer EXCEPT ![p].hash = IF @ = NoHash THEN WebmasterHash(pw) ELSE @]
            /\ Ask(c, [step |-> "wmSession", user |-> p])
            /\ UNCHANGED <<sessions, wmSessions, guesses, tried, opened>>
    BY <1>3 DEF PostWebmasterRegister, WebmasterRegister, WebmasterCreateUser, WebmasterNewSession
  <2>2. request' \in [Clients -> AccountRequests]
    BY <1>B, <1>C, <2>1
  <2>3. consumer' \in [People -> ConsumerRow] /\ profile' \in [People -> Hashes]
    BY <2>1, HashesAreMade DEF ConsumerRow
  <2> QED BY <2>1, <2>2, <2>3
<1>4. ASSUME NEW c \in Clients, PostWebmasterLogin(c) PROVE AccountShape'
  <2>1. PICK p \in People :
            /\ \/ Ask(c, [step |-> "wmSession", user |-> p]) /\ UNCHANGED tried
               \/ tried < MaxGuesses /\ tried' = tried + 1 /\ Respond(c)
            /\ UNCHANGED <<consumer, profile, sessions, wmSessions, guesses, opened>>
    BY <1>4 DEF PostWebmasterLogin, WebmasterLogin, WebmasterNewSession
  <2>2. request' \in [Clients -> AccountRequests]
    BY <1>B, <1>C, <1>D, <2>1
  <2>3. tried' \in 0..MaxGuesses
    BY <1>0, <2>1
  <2> QED BY <2>1, <2>2, <2>3
<1>5. ASSUME NEW c \in Clients, RecordLoginFailure(c) PROVE AccountShape'
  <2>1. PICK p : p = request[c].user
    OBVIOUS
  <2>2. p \in People
    BY <1>5, <1>E, <2>1 DEF RecordLoginFailure
  <2>3. /\ consumer' = [consumer EXCEPT
              ![p].fails = IF @ < 20 THEN @ + 1 ELSE 20,
              ![p].locked = consumer[p].locked \/ consumer[p].fails + 1 >= MaxFailures]
        /\ guesses' = [guesses EXCEPT ![p] = @ + 1]
        /\ Respond(c)
        /\ UNCHANGED <<profile, sessions, wmSessions, tried, opened>>
    BY <1>5, <2>1 DEF RecordLoginFailure
  <2>4. PICK f \in Nat : f = IF consumer[p].fails < 20 THEN consumer[p].fails + 1 ELSE 20
    BY <1>F, <2>2, SMTT(60)
  <2>8. PICK l \in BOOLEAN : l = (consumer[p].locked \/ consumer[p].fails + 1 >= MaxFailures)
    BY Zenon
  <2>5. consumer' = [consumer EXCEPT ![p].fails = f, ![p].locked = l]
    BY <2>2, <2>3, <2>4, <2>8
  <2>6. consumer' \in [People -> ConsumerRow]
    BY <1>F, <2>2, <2>5 DEF ConsumerRow
  <2>7. consumer' \in [People -> ConsumerRow] /\ guesses' \in [People -> Nat]
    BY <2>2, <2>3, <2>6
  <2> QED BY <1>D, <2>3, <2>7
<1>6. ASSUME NEW c \in Clients, UpdatePasswordHash(c) PROVE AccountShape'
  <2>1. PICK p, pw : p = request[c].user /\ pw = request[c].pw
    OBVIOUS
  <2>2. p \in People /\ pw \in Passwords /\ [request[c] EXCEPT !.rehash = FALSE] \in AccountRequests
    BY <1>6, <1>E, <2>1, RequestCarries DEF UpdatePasswordHash
  <2>3. /\ consumer' = [consumer EXCEPT ![p].hash = HashPassword(pw)]
        /\ profile' = [profile EXCEPT ![p] = IF @ = NoHash THEN NoHash ELSE HashPassword(pw)]
        /\ Ask(c, [request[c] EXCEPT !.rehash = FALSE])
        /\ UNCHANGED <<sessions, wmSessions, guesses, tried, opened>>
    BY <1>6, <2>1 DEF UpdatePasswordHash
  <2>4. consumer' \in [People -> ConsumerRow] /\ profile' \in [People -> Hashes]
    BY <2>2, <2>3, HashesAreMade DEF ConsumerRow
  <2>5. request' \in [Clients -> AccountRequests]
    BY <1>C, <2>2, <2>3
  <2> QED BY <2>3, <2>4, <2>5
<1>7. ASSUME NEW c \in Clients, RecordLoginSuccess(c) PROVE AccountShape'
  <2>1. PICK p : p = request[c].user
    OBVIOUS
  <2>2. p \in People
    BY <1>7, <1>E, <2>1 DEF RecordLoginSuccess
  <2>3. /\ consumer' = [consumer EXCEPT ![p].fails = 0, ![p].locked = FALSE]
        /\ guesses' = [guesses EXCEPT ![p] = 0]
        /\ Ask(c, [step |-> "session", user |-> p])
        /\ UNCHANGED <<profile, sessions, wmSessions, tried, opened>>
    BY <1>7, <2>1 DEF RecordLoginSuccess, newSession
  <2>4. consumer' \in [People -> ConsumerRow] /\ guesses' \in [People -> Nat]
    BY <2>2, <2>3 DEF ConsumerRow
  <2>5. request' \in [Clients -> AccountRequests]
    BY <1>B, <1>C, <2>2, <2>3
  <2> QED BY <2>3, <2>4, <2>5
<1>8. ASSUME NEW c \in Clients, CreateSession(c) PROVE AccountShape'
  <2>1. PICK p : p = request[c].user
    OBVIOUS
  <2>2. p \in People
    BY <1>8, <1>E, <2>1 DEF CreateSession
  <2>3. /\ \/ UNCHANGED sessions
           \/ sessions' = KeepNewest(Append(sessions, [user |-> p, live |-> TRUE, csrf |-> 0]), p)
        /\ Respond(c)
        /\ UNCHANGED <<consumer, profile, wmSessions, guesses, tried, opened>>
    BY <1>8, <2>1 DEF CreateSession
  <2>4. [user |-> p, live |-> TRUE, csrf |-> 0] \in SessionRow
    BY <2>2 DEF SessionRow
  <2>5. Append(sessions, [user |-> p, live |-> TRUE, csrf |-> 0]) \in Seq(SessionRow)
    BY <2>4
  <2>6. sessions' \in Seq(SessionRow)
    BY <2>3, <2>5, KeepNewestRows
  <2> QED BY <1>D, <2>3, <2>6
<1>G. ASSUME NEW i \in DOMAIN sessions
      PROVE  sessions[i] \in SessionRow /\ i \in Nat /\ sessions[i].user \in People /\ sessions[i].csrf \in Nat
  <2>1. sessions[i] \in SessionRow /\ i \in Nat
    OBVIOUS
  <2> QED BY <2>1 DEF SessionRow
<1>9. ASSUME NEW c \in Clients, RequireAuth(c) PROVE AccountShape'
  <2>1. PICK i \in DOMAIN sessions :
            Ask(c, [step |-> "authenticated", user |-> sessions[i].user, session |-> i, csrf |-> sessions[i].csrf])
    BY <1>9 DEF RequireAuth
  <2>2. [step |-> "authenticated", user |-> sessions[i].user, session |-> i, csrf |-> sessions[i].csrf] \in AccountRequests
    BY <1>G DEF AccountRequests
  <2>3. request' \in [Clients -> AccountRequests]
    BY <1>C, <2>1, <2>2
  <2> QED BY <1>9, <2>3 DEF RequireAuth
<1>H. ASSUME NEW i, NEW n \in Nat, sessions' = [sessions EXCEPT ![i].csrf = n] \/ sessions' = [sessions EXCEPT ![i].live = FALSE]
      PROVE  sessions' \in Seq(SessionRow)
  <2>1. CASE i \in DOMAIN sessions
    <3>1. /\ [sessions[i] EXCEPT !.csrf = n] \in SessionRow /\ [sessions[i] EXCEPT !.live = FALSE] \in SessionRow
      BY <1>G, <2>1 DEF SessionRow
    <3>2. DOMAIN sessions' = 1..Len(sessions) /\ \A k \in 1..Len(sessions) : sessions'[k] \in SessionRow
      <4>1. CASE sessions' = [sessions EXCEPT ![i].csrf = n]
        BY <1>G, <2>1, <3>1, <4>1
      <4>2. CASE sessions' = [sessions EXCEPT ![i].live = FALSE]
        BY <1>G, <2>1, <3>1, <4>2
      <4> QED BY <1>H, <4>1, <4>2
    <3>3. PICK m \in Nat : m = Len(sessions)
      OBVIOUS
    <3>4. sessions' \in [1..m -> SessionRow]
      BY <1>H, <3>2, <3>3
    <3> QED BY <3>4
  <2>2. CASE i \notin DOMAIN sessions
    <3>1. sessions' = sessions
      BY <1>H, <2>2
    <3> QED BY <3>1
  <2> QED BY <2>1, <2>2
<1>10. ASSUME NEW c \in Clients, GetCSRF(c) PROVE AccountShape'
  <2>1. PICK i : i = request[c].session
    OBVIOUS
  <2>2. \/ UNCHANGED sessions
        \/ sessions' = [sessions EXCEPT ![i].csrf = @ + 1]
    BY <1>10, <2>1 DEF GetCSRF, RotateCSRF
  <2>3. sessions' \in Seq(SessionRow)
    <3>1. CASE i \in DOMAIN sessions
      <4>1. sessions[i].csrf + 1 \in Nat
        BY <1>G, <3>1
      <4> QED BY <1>H, <2>2, <4>1
    <3>2. CASE i \notin DOMAIN sessions
      <4>1. sessions' = sessions
        BY <2>2, <3>2
      <4> QED BY <4>1
    <3> QED BY <3>1, <3>2
  <2> QED BY <1>10, <1>D, <2>3 DEF GetCSRF
<1>11. ASSUME NEW c \in Clients, PostRevoke(c) PROVE AccountShape'
  <2>1. PICK i \in DOMAIN sessions : sessions' = [sessions EXCEPT ![i].live = FALSE]
    BY <1>11 DEF PostRevoke, RevokeSession
  <2>2. sessions' \in Seq(SessionRow)
    BY <1>H, <2>1
  <2> QED BY <1>11, <1>D, <2>2 DEF PostRevoke
<1>12. ASSUME NEW c \in Clients, RequireConsumer(c) PROVE AccountShape'
  <2>1. PICK p : p = request[c].user
    OBVIOUS
  <2>2. p \in People
    BY <1>12, <1>E, <2>1 DEF RequireConsumer
  <2>3. Ask(c, [step |-> "profile", user |-> p]) \/ Respond(c)
    BY <1>12, <2>1 DEF RequireConsumer
  <2>4. request' \in [Clients -> AccountRequests]
    BY <1>B, <1>C, <1>D, <2>2, <2>3
  <2> QED BY <1>12, <2>4 DEF RequireConsumer
<1>13. ASSUME NEW c \in Clients, EnsureWebmasterProfile(c) PROVE AccountShape'
  <2>1. profile' \in [People -> Hashes]
    BY <1>13, <1>E DEF EnsureWebmasterProfile
  <2> QED BY <1>13, <1>D, <2>1 DEF EnsureWebmasterProfile
<1>I. \A i \in DOMAIN wmSessions :
          /\ wmSessions[i] \in WebmasterRow /\ wmSessions[i].id \in Nat /\ wmSessions[i].user \in People
  <2>1. \A i \in DOMAIN wmSessions : wmSessions[i] \in WebmasterRow
    OBVIOUS
  <2> QED BY <2>1 DEF WebmasterRow
<1>14. ASSUME NEW c \in Clients, WebmasterTrigger(c) PROVE AccountShape'
  <2>1. PICK p, E : p = request[c].user /\ E = Evicted(wmSessions, p)
    OBVIOUS
  <2>2. p \in People
    BY <1>14, <1>E, <2>1 DEF WebmasterTrigger
  <2>3. E \in SUBSET Nat
    BY <1>I, <2>1 DEF Evicted
  <2>4. [step |-> "wmInsert", user |-> p, evict |-> E] \in AccountRequests
    BY <2>2, <2>3 DEF AccountRequests
  <2>5. Ask(c, [step |-> "wmInsert", user |-> p, evict |-> E])
    BY <1>14, <2>1 DEF WebmasterTrigger
  <2>6. request' \in [Clients -> AccountRequests]
    BY <1>C, <2>4, <2>5
  <2> QED BY <1>14, <2>6 DEF WebmasterTrigger
<1>J. ASSUME NEW I, I \subseteq DOMAIN wmSessions PROVE Kept(wmSessions, I) \in Seq(WebmasterRow)
  <2>1. I \subseteq 1..Len(wmSessions) /\ wmSessions \in Seq(WebmasterRow)
    BY <1>J
  <2> QED BY <2>1, KeptSelects, Zenon
<1>15. ASSUME NEW c \in Clients, WebmasterCreateSession(c) PROVE AccountShape'
  <2>1. PICK p, K, I : /\ p = request[c].user
                       /\ I = {i \in DOMAIN wmSessions : wmSessions[i].id \notin request[c].evict}
                       /\ K = Kept(wmSessions, I)
    OBVIOUS
  <2>2. p \in People
    BY <1>15, <1>E, <2>1 DEF WebmasterCreateSession
  <2>3. K \in Seq(WebmasterRow)
    BY <1>J, <2>1
  <2>4. opened' \in 0..MaxOpened /\ opened + 1 \in Nat
    BY <1>0, <1>15 DEF WebmasterCreateSession
  <2>5. [user |-> p, id |-> opened + 1, live |-> TRUE] \in WebmasterRow
    BY <2>2, <2>4 DEF WebmasterRow
  <2>6. wmSessions' = Append(K, [user |-> p, id |-> opened + 1, live |-> TRUE])
    BY <1>15, <2>1 DEF WebmasterCreateSession
  <2>7. wmSessions' \in Seq(WebmasterRow)
    BY <2>3, <2>5, <2>6
  <2> QED BY <1>15, <1>D, <2>4, <2>7 DEF WebmasterCreateSession
<1>16. ASSUME NEW c \in Clients, RequestFails(c) PROVE AccountShape'
  BY <1>16, <1>D DEF RequestFails
<1>17. CASE WebmasterAuth
  <2>1. PICK i \in DOMAIN wmSessions :
            /\ UserBySession(wmSessions[i]) \/ DeleteSession(wmSessions[i])
            /\ UNCHANGED <<consumer, profile, sessions, request, guesses, tried, opened>>
    BY <1>17 DEF WebmasterAuth
  <2>2. PICK K : K = Others(wmSessions[i])
    OBVIOUS
  <2>3. K \in Seq(WebmasterRow)
    BY <1>J, <2>2 DEF Others
  <2>4. wmSessions' = Append(K, wmSessions[i]) \/ wmSessions' = K
    BY <2>1, <2>2 DEF UserBySession, DeleteSession
  <2>5. wmSessions' \in Seq(WebmasterRow)
    <3>1. PICK s \in WebmasterRow : s = wmSessions[i]
      BY <1>I
    <3>2. Append(K, s) \in Seq(WebmasterRow)
      BY <2>3
    <3> QED BY <2>3, <2>4, <3>1, <3>2
  <2> QED BY <2>1, <2>5
<1>18. CASE SessionExpires
  <2>1. CASE (\E i \in DOMAIN sessions : sessions' = [sessions EXCEPT ![i].live = FALSE]) /\ UNCHANGED wmSessions
    <3>1. sessions' \in Seq(SessionRow)
      BY <1>H, <2>1
    <3> QED BY <1>18, <2>1, <3>1 DEF SessionExpires
  <2>2. CASE (\E i \in DOMAIN wmSessions : wmSessions' = [wmSessions EXCEPT ![i].live = FALSE]) /\ UNCHANGED sessions
    <3>1. PICK i \in DOMAIN wmSessions : wmSessions' = [wmSessions EXCEPT ![i].live = FALSE]
      BY <2>2
    <3>2. [wmSessions[i] EXCEPT !.live = FALSE] \in WebmasterRow
      BY <1>I DEF WebmasterRow
    <3>3. wmSessions' \in Seq(WebmasterRow)
      BY <3>1, <3>2
    <3> QED BY <1>18, <2>2, <3>3 DEF SessionExpires
  <2> QED BY <1>18, <2>1, <2>2 DEF SessionExpires
<1>19. ASSUME NEW p \in People, UnlockTime(p) PROVE AccountShape'
  <2>1. consumer' \in [People -> ConsumerRow] /\ guesses' \in [People -> Nat]
    BY <1>19 DEF UnlockTime, ConsumerRow
  <2> QED BY <1>19, <2>1 DEF UnlockTime
<1>20. CASE UNCHANGED accountVars
  BY <1>20 DEF accountVars
<1> QED BY <1>1, <1>2, <1>3, <1>4, <1>5, <1>6, <1>7, <1>8, <1>9, <1>10, <1>11, <1>12, <1>13, <1>14, <1>15,
           <1>16, <1>17, <1>18, <1>19, <1>20 DEF AccountNext

(* The requests that will record a failure are some of the clients, and a  *)
(* request that moves to another step is no longer one of them.            *)
LEMMA FailingRequests ==
    ASSUME AccountShape, NEW p
    PROVE  /\ IsFiniteSet(Failing(p)) /\ Cardinality(Failing(p)) \in Nat
           /\ Cardinality(Clients) \in Nat
           /\ \A F \in SUBSET Failing(p) : IsFiniteSet(F) /\ Cardinality(F) \in Nat /\ Cardinality(F) <= Cardinality(Failing(p))
           /\ \A c \in Failing(p) : Cardinality(Failing(p) \ {c}) = Cardinality(Failing(p)) - 1
           /\ \A c \in Clients : \A F \in SUBSET (Clients \ {c}) :
                 Cardinality(F) \in Nat /\ Cardinality(F) <= Cardinality(Clients) - 1
           /\ \A c \in Clients, r \in AccountRequests : Ask(c, r) /\ r.step # "failure" => Failing(p)' = Failing(p) \ {c}
<1>1. IsFiniteSet(Clients)
  BY AccountAssumptions DEF AccountAssumptions
<1>2. Failing(p) \in SUBSET Clients
  BY DEF Failing
<1>3. /\ IsFiniteSet(Failing(p)) /\ Cardinality(Failing(p)) \in Nat /\ Cardinality(Clients) \in Nat
  BY <1>1, <1>2, FS_Subset, FS_CardinalityType
<1>4. ASSUME NEW F \in SUBSET Failing(p)
      PROVE  IsFiniteSet(F) /\ Cardinality(F) \in Nat /\ Cardinality(F) <= Cardinality(Failing(p))
  BY <1>3, FS_Subset, FS_CardinalityType
<1>5. ASSUME NEW c \in Failing(p) PROVE Cardinality(Failing(p) \ {c}) = Cardinality(Failing(p)) - 1
  BY <1>3, FS_RemoveElement
<1>6. ASSUME NEW c \in Clients, NEW F \in SUBSET (Clients \ {c})
      PROVE  Cardinality(F) \in Nat /\ Cardinality(F) <= Cardinality(Clients) - 1
  <2>1. IsFiniteSet(Clients \ {c}) /\ Cardinality(Clients \ {c}) = Cardinality(Clients) - 1
    BY <1>1, FS_RemoveElement
  <2> QED BY <2>1, FS_Subset, FS_CardinalityType
<1>7. ASSUME NEW c \in Clients, NEW r \in AccountRequests, Ask(c, r), r.step # "failure"
      PROVE  Failing(p)' = Failing(p) \ {c}
  <2>1. request'[c] = r /\ \A d \in Clients : d # c => request'[d] = request[d]
    BY <1>7, RequestMoves DEF AccountShape
  <2> QED BY <1>7, <2>1 DEF Failing
<1> QED BY <1>3, <1>4, <1>5, <1>6, <1>7

(* A step that leaves an account's lock and counts alone, takes no hash    *)
(* away and starts no failing request.                                     *)
LEMMA GuessesQuiet ==
    ASSUME AccountShape, NEW p \in People, GuessesHeld(p),
           consumer'[p].locked = consumer[p].locked, consumer'[p].fails = consumer[p].fails,
           guesses'[p] = guesses[p], Exists(p) => Exists(p)', Failing(p)' \subseteq Failing(p)
    PROVE  GuessesHeld(p)'
<1>1. PICK F : F = Failing(p)'
  OBVIOUS
<1>2. /\ F \in SUBSET Failing(p) /\ Cardinality(F) \in Nat /\ Cardinality(F) <= Cardinality(Failing(p))
      /\ Cardinality(Failing(p)) \in Nat /\ Cardinality(Clients) \in Nat
  BY <1>1, FailingRequests
<1>3. guesses[p] \in Nat /\ MaxFailures \in Nat
  <2>1. MaxFailures \in 1..20
    BY AccountAssumptions DEF AccountAssumptions
  <2>2. guesses[p] \in Nat
    BY DEF AccountShape
  <2> QED BY <2>1, <2>2
<1>4. consumer'[p].locked => guesses'[p] + Cardinality(F) < MaxFailures + Cardinality(Clients)
  <2>1. consumer[p].locked => guesses[p] + Cardinality(Failing(p)) < MaxFailures + Cardinality(Clients)
    BY DEF GuessesHeld
  <2> QED BY <1>2, <1>3, <2>1
<1>5. ~Exists(p)' => guesses'[p] = 0 /\ F = {}
  BY <1>2 DEF GuessesHeld
<1>6. ~consumer'[p].locked => guesses'[p] < MaxFailures /\ guesses'[p] <= consumer'[p].fails
  BY DEF GuessesHeld
<1> QED BY <1>1, <1>4, <1>5, <1>6 DEF GuessesHeld

(* A step after which the account is unlocked and has no guesses.          *)
LEMMA GuessesReset ==
    ASSUME AccountShape', NEW p \in People, ~consumer'[p].locked, guesses'[p] = 0,
           Exists(p)' \/ Failing(p)' = {}
    PROVE  GuessesHeld(p)'
<1>1. consumer'[p].fails \in Nat /\ MaxFailures \in 1..20
  BY AccountAssumptions DEF AccountShape, ConsumerRow, AccountAssumptions
<1> QED BY <1>1 DEF GuessesHeld

(* The lock and the counts of an account at a recorded failure.            *)
LEMMA GuessesRecord ==
    ASSUME AccountShape, AccountShape', GuessInv, NEW c \in Clients, RecordLoginFailure(c)
    PROVE  GuessInv'
<1>1. PICK q : q = request[c].user
  OBVIOUS
<1>2. q \in People /\ c \in Failing(q)
  BY <1>1, RequestCarries DEF RecordLoginFailure, AccountShape, Failing
<1>3. /\ consumer' = [consumer EXCEPT
            ![q].fails = IF @ < 20 THEN @ + 1 ELSE 20,
            ![q].locked = consumer[q].locked \/ consumer[q].fails + 1 >= MaxFailures]
      /\ guesses' = [guesses EXCEPT ![q] = @ + 1]
      /\ Ask(c, Idle)
  BY <1>1 DEF RecordLoginFailure, Respond
<1>4. PICK b \in BOOLEAN : b = (consumer[q].locked \/ consumer[q].fails + 1 >= MaxFailures)
  BY Zenon
<1>5. PICK f : f = IF consumer[q].fails < 20 THEN consumer[q].fails + 1 ELSE 20
  OBVIOUS
<1>6. consumer' = [consumer EXCEPT ![q].fails = f, ![q].locked = b]
  BY <1>2, <1>3, <1>4, <1>5 DEF AccountShape
<1>7. /\ consumer'[q].hash = consumer[q].hash /\ consumer'[q].fails = f /\ consumer'[q].locked = b
      /\ \A p \in People : p # q => consumer'[p] = consumer[p] /\ guesses'[p] = guesses[p]
      /\ guesses'[q] = guesses[q] + 1
  BY <1>2, <1>3, <1>6, SMTT(60) DEF AccountShape, ConsumerRow
<1>8. ASSUME NEW p PROVE Failing(p)' = Failing(p) \ {c}
  <2>1. Idle \in AccountRequests /\ Idle.step # "failure"
    BY DEF AccountRequests, Idle
  <2> QED BY <1>3, <2>1, FailingRequests
<1>9. ASSUME NEW p \in People, p # q PROVE GuessesHeld(p)'
  <2>1. Exists(p) => Exists(p)'
    BY <1>7, <1>9 DEF Exists
  <2> QED BY <1>7, <1>8, <1>9, <2>1, GuessesQuiet DEF GuessInv
<1>10. GuessesHeld(q)'
  <2>1. GuessesHeld(q)
    BY <1>2 DEF GuessInv
  <2>0. PICK F : F = Failing(q)'
    OBVIOUS
  <2>2. PICK g \in Nat, k \in Nat, n \in Nat :
            /\ g = guesses[q] /\ k = Cardinality(Failing(q)) /\ n = Cardinality(Clients)
    BY <1>2, FailingRequests DEF AccountShape
  <2>3. F = Failing(q) \ {c} /\ F \in SUBSET (Clients \ {c})
    BY <1>8, <2>0 DEF Failing
  <2>4. Cardinality(F) \in Nat /\ Cardinality(F) = k - 1 /\ Cardinality(F) <= n - 1
    BY <1>2, <2>2, <2>3, FailingRequests
  <2>5. Exists(q)'
    <3>1. Exists(q)
      BY <1>2, <2>1 DEF GuessesHeld
    <3> QED BY <1>7, <3>1 DEF Exists
  <2>6. consumer[q].fails \in Nat /\ MaxFailures \in 1..20
    BY <1>2, AccountAssumptions DEF AccountShape, ConsumerRow, AccountAssumptions
  <2>7. PICK e \in Nat : e = consumer[q].fails
    BY <2>6
  <2>8. ~consumer[q].locked => g < MaxFailures /\ g <= e
    BY <2>1, <2>2, <2>7 DEF GuessesHeld
  <2>9. consumer[q].locked => g + k < MaxFailures + n
    BY <2>1, <2>2 DEF GuessesHeld
  <2>10. b <=> consumer[q].locked \/ e + 1 >= MaxFailures
    BY <1>4, <2>7
  <2>11. f = IF e < 20 THEN e + 1 ELSE 20
    BY <1>5, <2>7
  <2>12. ASSUME ~b PROVE g + 1 < MaxFailures /\ g + 1 <= f
    <3>1. ~consumer[q].locked /\ ~(e + 1 >= MaxFailures)
      BY <2>10, <2>12
    <3> QED BY <2>6, <2>8, <2>11, <3>1
  <2>13. ASSUME b PROVE g + 1 + Cardinality(F) < MaxFailures + n
    <3>1. CASE consumer[q].locked
      <4>1. g + k < MaxFailures + n
        BY <2>9, <3>1
      <4> QED BY <2>4, <2>6, <4>1
    <3>2. CASE ~consumer[q].locked
      <4>1. g < MaxFailures
        BY <2>8, <3>2
      <4> QED BY <2>4, <2>6, <4>1
    <3> QED BY <3>1, <3>2
  <2>14. ~consumer'[q].locked => guesses'[q] < MaxFailures /\ guesses'[q] <= consumer'[q].fails
    BY <1>7, <2>2, <2>12
  <2>15. consumer'[q].locked => guesses'[q] + Cardinality(F) < MaxFailures + Cardinality(Clients)
    BY <1>7, <2>2, <2>13
  <2> QED BY <2>0, <2>5, <2>14, <2>15 DEF GuessesHeld
<1> QED BY <1>9, <1>10 DEF GuessInv

(* Every step keeps the bound on guesses.                                  *)
LEMMA GuessStep ==
    ASSUME AccountShape, AccountShape', GuessInv, [AccountNext]_accountVars
    PROVE  GuessInv'
<1>A. ASSUME UNCHANGED <<consumer, guesses>>, \A p \in People : Failing(p)' \subseteq Failing(p) PROVE GuessInv'
  <2> SUFFICES ASSUME NEW p \in People PROVE GuessesHeld(p)'
    BY DEF GuessInv
  <2>1. Exists(p) => Exists(p)'
    BY <1>A DEF Exists
  <2> QED BY <1>A, <2>1, GuessesQuiet DEF GuessInv
<1>B. ASSUME NEW c \in Clients, NEW r \in AccountRequests, Ask(c, r), r.step # "failure", NEW p
      PROVE  Failing(p)' \subseteq Failing(p)
  BY <1>B, FailingRequests
<1>C. Idle \in AccountRequests /\ Idle.step # "failure"
  BY DEF AccountRequests, Idle
<1>D. ASSUME NEW c \in Clients, Respond(c), UNCHANGED <<consumer, guesses>> PROVE GuessInv'
  <2>1. Ask(c, Idle)
    BY <1>D DEF Respond
  <2> QED BY <1>A, <1>B, <1>C, <1>D, <2>1
<1>E. ASSUME NEW c \in Clients, UNCHANGED <<consumer, guesses>>, NEW r, Ask(c, r), r.step # "failure"
      PROVE  GuessInv'
  <2>1. request'[c] = r /\ r \in AccountRequests
    BY <1>E DEF Ask, AccountShape
  <2> QED BY <1>A, <1>B, <1>E, <2>1
<1>1. ASSUME NEW c \in Clients, PostRegister(c) PROVE GuessInv'
  <2>1. PICK q \in People, pw \in Passwords :
            /\ ~Exists(q)
            /\ consumer' = [consumer EXCEPT ![q] = [hash |-> HashPassword(pw), fails |-> 0, locked |-> FALSE]]
            /\ Ask(c, [step |-> "session", user |-> q])
            /\ UNCHANGED guesses
    BY <1>1 DEF PostRegister, Register, CreateUser, newSession
  <2>2. [step |-> "session", user |-> q] \in AccountRequests /\ [step |-> "session", user |-> q].step # "failure"
    BY DEF AccountRequests
  <2>3. \A p : Failing(p)' \subseteq Failing(p)
    BY <1>B, <2>1, <2>2
  <2>4. /\ consumer'[q] = [hash |-> HashPassword(pw), fails |-> 0, locked |-> FALSE]
        /\ \A p \in People : p # q => consumer'[p] = consumer[p]
    BY <2>1 DEF AccountShape
  <2>5. ASSUME NEW p \in People, p # q PROVE GuessesHeld(p)'
    <3>1. Exists(p) => Exists(p)'
      BY <2>4, <2>5 DEF Exists
    <3> QED BY <2>1, <2>3, <2>4, <2>5, <3>1, GuessesQuiet DEF GuessInv
  <2>6. GuessesHeld(q)'
    <3>1. guesses'[q] = 0 /\ ~consumer'[q].locked
      BY <2>1, <2>4 DEF GuessInv, GuessesHeld
    <3>2. Exists(q)'
      BY <2>4, HashesAreMade DEF Exists
    <3> QED BY <3>1, <3>2, GuessesReset
  <2> QED BY <2>5, <2>6 DEF GuessInv
<1>2. ASSUME NEW c \in Clients, PostLogin(c) PROVE GuessInv'
  <2>1. PICK q \in People, pw \in Passwords :
           /\ Exists(q) /\ ~consumer[q].locked
           /\ \/ Ask(c, [step |-> "success", user |-> q, pw |-> pw, rehash |-> NeedsRehash(consumer[q].hash, pw)])
              \/ Ask(c, [step |-> "failure", user |-> q])
           /\ UNCHANGED <<consumer, guesses>>
    BY <1>2 DEF PostLogin, Login, LoginAllowed
  <2>2. CASE Ask(c, [step |-> "success", user |-> q, pw |-> pw, rehash |-> NeedsRehash(consumer[q].hash, pw)])
    BY <1>E, <2>1, <2>2
  <2>3. CASE Ask(c, [step |-> "failure", user |-> q])
    <3>1. /\ request'[c] = [step |-> "failure", user |-> q]
          /\ \A d \in Clients : d # c => request'[d] = request[d]
      BY <2>3 DEF Ask, AccountShape
    <3>2. ASSUME NEW p \in People, p # q PROVE GuessesHeld(p)'
      <4>1. Failing(p)' \subseteq Failing(p)
        BY <3>1, <3>2 DEF Failing
      <4>2. Exists(p) => Exists(p)'
        BY <2>1 DEF Exists
      <4> QED BY <2>1, <4>1, <4>2, GuessesQuiet DEF GuessInv
    <3>3. GuessesHeld(q)'
      <4>1. Exists(q)' /\ ~consumer'[q].locked
        BY <2>1 DEF Exists
      <4>2. guesses'[q] < MaxFailures /\ guesses'[q] <= consumer'[q].fails
        BY <2>1 DEF GuessInv, GuessesHeld
      <4> QED BY <4>1, <4>2 DEF GuessesHeld
    <3> QED BY <3>2, <3>3 DEF GuessInv
  <2> QED BY <2>1, <2>2, <2>3
<1>3. ASSUME NEW c \in Clients, PostWebmasterRegister(c) PROVE GuessInv'
  <2>1. PICK q \in People, pw \in Passwords :
            /\ consumer' = [consumer EXCEPT ![q].hash = IF @ = NoHash THEN WebmasterHash(pw) ELSE @]
            /\ Ask(c, [step |-> "wmSession", user |-> q])
            /\ UNCHANGED guesses
    BY <1>3 DEF PostWebmasterRegister, WebmasterRegister, WebmasterCreateUser, WebmasterNewSession
  <2>2. [step |-> "wmSession", user |-> q] \in AccountRequests /\ [step |-> "wmSession", user |-> q].step # "failure"
    BY DEF AccountRequests
  <2>3. \A p : Failing(p)' \subseteq Failing(p)
    BY <1>B, <2>1, <2>2
  <2>4. ASSUME NEW p \in People
        PROVE  /\ consumer'[p].locked = consumer[p].locked /\ consumer'[p].fails = consumer[p].fails
               /\ Exists(p) => Exists(p)'
    BY <2>1 DEF AccountShape, ConsumerRow, Exists
  <2> QED BY <2>1, <2>3, <2>4, GuessesQuiet DEF GuessInv
<1>4. ASSUME NEW c \in Clients, PostWebmasterLogin(c) PROVE GuessInv'
  <2>1. PICK q \in People : /\ Ask(c, [step |-> "wmSession", user |-> q]) \/ Respond(c)
                            /\ UNCHANGED <<consumer, guesses>>
    BY <1>4 DEF PostWebmasterLogin, WebmasterLogin, WebmasterNewSession
  <2> QED BY <1>D, <1>E, <2>1
<1>5. ASSUME NEW c \in Clients, RecordLoginFailure(c) PROVE GuessInv'
  BY <1>5, GuessesRecord
<1>6. ASSUME NEW c \in Clients, UpdatePasswordHash(c) PROVE GuessInv'
  <2>1. PICK q, pw, r : q = request[c].user /\ pw = request[c].pw /\ r = [request[c] EXCEPT !.rehash = FALSE]
    OBVIOUS
  <2>2. q \in People /\ pw \in Passwords /\ r \in AccountRequests /\ r.step # "failure"
    BY <1>6, <2>1, RequestCarries DEF UpdatePasswordHash, AccountShape
  <2>3. consumer' = [consumer EXCEPT ![q].hash = HashPassword(pw)] /\ Ask(c, r) /\ UNCHANGED guesses
    BY <1>6, <2>1 DEF UpdatePasswordHash
  <2>4. \A p : Failing(p)' \subseteq Failing(p)
    BY <1>B, <2>2, <2>3
  <2>5. ASSUME NEW p \in People
        PROVE  /\ consumer'[p].locked = consumer[p].locked /\ consumer'[p].fails = consumer[p].fails
               /\ Exists(p) => Exists(p)'
    BY <2>2, <2>3, HashesAreMade DEF AccountShape, ConsumerRow, Exists
  <2> QED BY <2>3, <2>4, <2>5, GuessesQuiet DEF GuessInv
<1>7. ASSUME NEW c \in Clients, RecordLoginSuccess(c) PROVE GuessInv'
  <2>1. PICK q, r : q = request[c].user /\ r = [step |-> "session", user |-> q]
    OBVIOUS
  <2>2. q \in People /\ r \in AccountRequests /\ r.step # "failure"
    BY <1>7, <2>1, RequestCarries DEF RecordLoginSuccess, AccountShape, AccountRequests
  <2>3. /\ consumer' = [consumer EXCEPT ![q].fails = 0, ![q].locked = FALSE]
        /\ guesses' = [guesses EXCEPT ![q] = 0] /\ Ask(c, r)
    BY <1>7, <2>1 DEF RecordLoginSuccess, newSession
  <2>4. \A p : Failing(p)' \subseteq Failing(p)
    BY <1>B, <2>2, <2>3
  <2>5. /\ consumer'[q].hash = consumer[q].hash /\ ~consumer'[q].locked /\ guesses'[q] = 0
        /\ \A p \in People : p # q => consumer'[p] = consumer[p] /\ guesses'[p] = guesses[p]
    BY <2>2, <2>3 DEF AccountShape, ConsumerRow
  <2>6. ASSUME NEW p \in People, p # q PROVE GuessesHeld(p)'
    <3>1. Exists(p) => Exists(p)'
      BY <2>5, <2>6 DEF Exists
    <3> QED BY <2>4, <2>5, <2>6, <3>1, GuessesQuiet DEF GuessInv
  <2>7. Exists(q)' \/ Failing(q)' = {}
    <3>1. CASE Exists(q)
      BY <2>5, <3>1 DEF Exists
    <3>2. CASE ~Exists(q)
      <4>1. Failing(q) = {}
        BY <2>2, <3>2 DEF GuessInv, GuessesHeld
      <4> QED BY <2>4, <4>1
    <3> QED BY <3>1, <3>2
  <2>8. GuessesHeld(q)'
    BY <2>2, <2>5, <2>7, GuessesReset
  <2> QED BY <2>6, <2>8 DEF GuessInv
<1>8. ASSUME NEW c \in Clients, CreateSession(c) \/ GetCSRF(c) \/ PostRevoke(c) \/ EnsureWebmasterProfile(c)
                               \/ WebmasterCreateSession(c) \/ RequestFails(c) PROVE GuessInv'
  <2>1. Respond(c) /\ UNCHANGED <<consumer, guesses>>
    BY <1>8 DEF CreateSession, GetCSRF, PostRevoke, EnsureWebmasterProfile, WebmasterCreateSession, RequestFails
  <2> QED BY <1>D, <2>1
<1>9. ASSUME NEW c \in Clients, RequireAuth(c) PROVE GuessInv'
  <2>1. PICK i \in DOMAIN sessions :
            Ask(c, [step |-> "authenticated", user |-> sessions[i].user, session |-> i, csrf |-> sessions[i].csrf])
    BY <1>9 DEF RequireAuth
  <2> QED BY <1>9, <1>E, <2>1 DEF RequireAuth
<1>10. ASSUME NEW c \in Clients, RequireConsumer(c) PROVE GuessInv'
  <2>1. Ask(c, [step |-> "profile", user |-> request[c].user]) \/ Respond(c)
    BY <1>10 DEF RequireConsumer
  <2>2. UNCHANGED <<consumer, guesses>>
    BY <1>10 DEF RequireConsumer
  <2> QED BY <1>D, <1>E, <2>1, <2>2
<1>11. ASSUME NEW c \in Clients, WebmasterTrigger(c) PROVE GuessInv'
  <2>1. PICK E : E = Evicted(wmSessions, request[c].user)
    OBVIOUS
  <2>2. Ask(c, [step |-> "wmInsert", user |-> request[c].user, evict |-> E]) /\ UNCHANGED <<consumer, guesses>>
    BY <1>11, <2>1 DEF WebmasterTrigger
  <2> QED BY <1>E, <2>2
<1>12. CASE WebmasterAuth \/ SessionExpires \/ UNCHANGED accountVars
  <2>1. UNCHANGED <<consumer, guesses, request>>
    BY <1>12 DEF WebmasterAuth, SessionExpires, accountVars
  <2>2. \A p \in People : Failing(p)' \subseteq Failing(p)
    BY <2>1 DEF Failing
  <2> QED BY <1>A, <2>1, <2>2
<1>13. ASSUME NEW q \in People, UnlockTime(q) PROVE GuessInv'
  <2>1. consumer' = [consumer EXCEPT ![q].locked = FALSE] /\ guesses' = [guesses EXCEPT ![q] = 0] /\ UNCHANGED request
    BY <1>13 DEF UnlockTime
  <2>2. \A p \in People : Failing(p)' = Failing(p)
    BY <2>1 DEF Failing
  <2>3. /\ consumer'[q].hash = consumer[q].hash /\ ~consumer'[q].locked /\ guesses'[q] = 0
        /\ \A p \in People : p # q => consumer'[p] = consumer[p] /\ guesses'[p] = guesses[p]
    BY <2>1 DEF AccountShape, ConsumerRow
  <2>4. ASSUME NEW p \in People, p # q PROVE GuessesHeld(p)'
    <3>1. Exists(p) => Exists(p)'
      BY <2>3, <2>4 DEF Exists
    <3> QED BY <2>2, <2>3, <2>4, <3>1, GuessesQuiet DEF GuessInv
  <2>5. Exists(q)' \/ Failing(q)' = {}
    BY <2>2, <2>3 DEF Exists, GuessInv, GuessesHeld
  <2>6. GuessesHeld(q)'
    BY <2>3, <2>5, GuessesReset
  <2> QED BY <2>4, <2>6 DEF GuessInv
<1> QED BY <1>1, <1>2, <1>3, <1>4, <1>5, <1>6, <1>7, <1>8, <1>9, <1>10, <1>11, <1>12, <1>13 DEF AccountNext

(* The live sessions of a person: revoking and expiring only take some     *)
(* away, and KeepNewest leaves the newest SessionCap.                      *)
LEMMA LiveStep ==
    ASSUME AccountShape, AccountShape', LiveBounded, [AccountNext]_accountVars
    PROVE  LiveBounded'
<1>0. SessionCap \in Nat
  BY AccountAssumptions DEF AccountAssumptions
<1>A. ASSUME NEW p \in People PROVE /\ IsFiniteSet(LiveSessions(p)) /\ Cardinality(LiveSessions(p)) \in Nat
                                    /\ Cardinality(LiveSessions(p)) <= SessionCap
  <2>1. PICK n \in Nat : n = Len(sessions)
    BY DEF AccountShape
  <2>2. IsFiniteSet(1..n) /\ LiveSessions(p) \in SUBSET (1..n)
    BY <2>1, FS_Interval DEF LiveSessions, AccountShape
  <2> QED BY <2>2, FS_Subset, FS_CardinalityType DEF LiveBounded
<1>B. ASSUME \A p \in People : LiveSessions(p)' \subseteq LiveSessions(p) PROVE LiveBounded'
  <2> SUFFICES ASSUME NEW p \in People PROVE (Cardinality(LiveSessions(p)) <= SessionCap)'
    BY DEF LiveBounded
  <2>1. PICK L : L = LiveSessions(p)'
    OBVIOUS
  <2>2. L \in SUBSET LiveSessions(p)
    BY <1>B, <2>1
  <2>3. Cardinality(L) \in Nat /\ Cardinality(L) <= Cardinality(LiveSessions(p))
    BY <1>A, <2>2, FS_Subset, FS_CardinalityType
  <2> QED BY <1>0, <1>A, <2>1, <2>3
<1>C. ASSUME UNCHANGED sessions PROVE LiveBounded'
  BY <1>B, <1>C DEF LiveSessions
<1>D. ASSUME NEW i, sessions' = [sessions EXCEPT ![i].live = FALSE] PROVE LiveBounded'
  <2>1. DOMAIN sessions' = DOMAIN sessions
    BY <1>D
  <2>2. ASSUME NEW k \in DOMAIN sessions
        PROVE  sessions'[k].user = sessions[k].user /\ (sessions'[k].live => sessions[k].live)
    <3>1. sessions[k] \in SessionRow
      BY DEF AccountShape
    <3>2. CASE k = i
      BY <1>D, <3>1, <3>2 DEF SessionRow
    <3>3. CASE k # i
      BY <1>D, <3>3
    <3> QED BY <3>2, <3>3
  <2>3. \A p \in People : LiveSessions(p)' \subseteq LiveSessions(p)
    BY <2>1, <2>2 DEF LiveSessions
  <2> QED BY <1>B, <2>3
<1>E. ASSUME NEW i, sessions' = [sessions EXCEPT ![i].csrf = @ + 1] PROVE LiveBounded'
  <2>1. DOMAIN sessions' = DOMAIN sessions
    BY <1>E
  <2>2. ASSUME NEW k \in DOMAIN sessions
        PROVE  sessions'[k].user = sessions[k].user /\ sessions'[k].live = sessions[k].live
    <3>1. sessions[k] \in SessionRow
      BY DEF AccountShape
    <3>2. CASE k = i
      BY <1>E, <3>1, <3>2 DEF SessionRow
    <3>3. CASE k # i
      BY <1>E, <3>3
    <3> QED BY <3>2, <3>3
  <2>3. \A p \in People : LiveSessions(p)' \subseteq LiveSessions(p)
    BY <2>1, <2>2 DEF LiveSessions
  <2> QED BY <1>B, <2>3
<1>1. ASSUME NEW c \in Clients, CreateSession(c) PROVE LiveBounded'
  <2>1. CASE UNCHANGED sessions
    BY <1>C, <2>1
  <2>2. ASSUME NEW q, q = request[c].user, NEW s, s = [user |-> q, live |-> TRUE, csrf |-> 0],
               NEW all, all = Append(sessions, s), sessions' = KeepNewest(all, q)
        PROVE  LiveBounded'
    <3>1. q \in People /\ s \in SessionRow
      BY <1>1, <2>2, RequestCarries DEF CreateSession, AccountShape, SessionRow
    <3>2. /\ all \in Seq(SessionRow) /\ Len(all) = Len(sessions) + 1 /\ Len(sessions) \in Nat
          /\ all[Len(sessions) + 1] = s /\ \A i \in 1..Len(sessions) : all[i] = sessions[i]
      BY <2>2, <3>1 DEF AccountShape
    <3> DEFINE live == {i \in 1..Len(all) : all[i].user = q /\ all[i].live}
    <3>3. /\ sessions' \in Seq(SessionRow) /\ Len(sessions') = Len(all)
          /\ \A i \in 1..Len(all) :
                /\ sessions'[i].user = all[i].user /\ (sessions'[i].live => all[i].live)
                /\ all[i].user = q /\ sessions'[i].live => ~(Cardinality({j \in live : j > i}) >= SessionCap)
      <4>1. /\ KeepNewest(all, q) \in Seq(SessionRow)
            /\ Len(KeepNewest(all, q)) = Len(all)
            /\ \A i \in 1..Len(all) :
                  /\ KeepNewest(all, q)[i].user = all[i].user
                  /\ KeepNewest(all, q)[i].live => all[i].live
                  /\ all[i].user = q /\ KeepNewest(all, q)[i].live => ~(Cardinality({j \in live : j > i}) >= SessionCap)
        BY <3>2, KeepNewestRows, ZenonT(60)
      <4>2. sessions' = KeepNewest(all, q)
        BY <2>2
      <4> QED BY <4>1, <4>2, Zenon
    <3>4. DOMAIN sessions' = 1..Len(all) /\ DOMAIN sessions = 1..Len(sessions)
      BY <3>2, <3>3 DEF AccountShape
    <3>5. ASSUME NEW p \in People, p # q PROVE LiveSessions(p)' \subseteq LiveSessions(p)
      <4>1. ASSUME NEW i \in LiveSessions(p)' PROVE i \in LiveSessions(p)
        <5>1. i \in 1..Len(all) /\ sessions'[i].user = p /\ sessions'[i].live
          BY <3>4 DEF LiveSessions
        <5>2. all[i].user = p /\ all[i].live
          BY <3>3, <5>1
        <5>3. i # Len(sessions) + 1
          BY <2>2, <3>2, <3>5, <5>2
        <5>4. i \in 1..Len(sessions) /\ all[i] = sessions[i]
          BY <3>2, <5>1, <5>3
        <5> QED BY <3>4, <5>2, <5>4 DEF LiveSessions
      <4> QED BY <4>1
    <3>6. ASSUME NEW p \in People, p # q PROVE (Cardinality(LiveSessions(p)) <= SessionCap)'
      <4>1. PICK L : L = LiveSessions(p)'
        OBVIOUS
      <4>2. L \in SUBSET LiveSessions(p)
        BY <3>5, <3>6, <4>1
      <4>3. Cardinality(L) \in Nat /\ Cardinality(L) <= Cardinality(LiveSessions(p))
        BY <1>A, <4>2, FS_Subset, FS_CardinalityType
      <4> QED BY <1>0, <1>A, <4>1, <4>3
    <3>7. (Cardinality(LiveSessions(q)) <= SessionCap)'
      <4>1. PICK L : L = LiveSessions(q)'
        OBVIOUS
      <4> DEFINE before == {e \in live \X live : e[1] > e[2]}
      <4>2. live \subseteq Int /\ IsFiniteSet(live)
        <5>1. PICK n \in Nat : n = Len(all)
          BY <3>2
        <5>2. IsFiniteSet(1..n) /\ live \in SUBSET (1..n)
          BY <5>1, FS_Interval
        <5> QED BY <5>2, FS_Subset
      <4>3. \A i, j \in live : <<i, j>> \in before <=> i > j
        OBVIOUS
      <4>4. \A i \in live : Ahead(live, before, i) = Cardinality({j \in live : j > i})
        <5> SUFFICES ASSUME NEW i \in live PROVE {j \in live : <<j, i>> \in before} = {j \in live : j > i}
          BY DEF Ahead
        <5> HIDE DEF live, before
        <5> QED BY <4>3
      <4>5. ASSUME NEW i \in L PROVE i \in live /\ ~(Ahead(live, before, i) >= SessionCap)
        <5>1. i \in 1..Len(all) /\ sessions'[i].user = q /\ sessions'[i].live
          BY <3>4, <4>1 DEF LiveSessions
        <5>2. all[i].user = q /\ all[i].live /\ ~(Cardinality({j \in live : j > i}) >= SessionCap)
          BY <3>3, <5>1
        <5>3. i \in live
          BY <5>1, <5>2
        <5> QED BY <4>4, <5>2, <5>3
      <4> HIDE DEF live, before
      <4>6. Orders(before, live)
        BY <4>2, <4>3 DEF Orders
      <4>7. \A i \in live : Ahead(live, before, i) \in 0..(Cardinality(live) - 1) /\ Cardinality(live) \in Nat
        BY <4>2, <4>6, AheadGrows
      <4>8. L \subseteq live /\ \A i \in L : Ahead(live, before, i) \in 0..(SessionCap - 1)
        <5> SUFFICES ASSUME NEW i \in L PROVE i \in live /\ Ahead(live, before, i) \in 0..(SessionCap - 1)
          OBVIOUS
        <5>1. PICK m : m = Ahead(live, before, i)
          OBVIOUS
        <5>2. m \in Nat /\ ~(m >= SessionCap) /\ i \in live
          BY <4>5, <4>7, <5>1
        <5>3. m \in 0..(SessionCap - 1)
          BY <1>0, <5>2
        <5> QED BY <5>1, <5>2, <5>3
      <4>9. Cardinality(L) <= SessionCap - 0
        <5>1. 0 \in Nat /\ 0 <= SessionCap
          BY <1>0
        <5> QED BY <1>0, <4>2, <4>6, <4>8, <5>1, RanksBetween
      <4> QED BY <1>0, <4>1, <4>9
    <3> QED BY <3>6, <3>7 DEF LiveBounded
  <2> QED BY <1>1, <2>1, <2>2 DEF CreateSession
<1>2. ASSUME NEW c \in Clients, GetCSRF(c) PROVE LiveBounded'
  <2>1. UNCHANGED sessions \/ sessions' = [sessions EXCEPT ![request[c].session].csrf = @ + 1]
    BY <1>2 DEF GetCSRF, RotateCSRF
  <2> QED BY <1>C, <1>E, <2>1
<1>3. ASSUME NEW c \in Clients, PostRevoke(c) PROVE LiveBounded'
  <2>1. PICK i \in DOMAIN sessions : sessions' = [sessions EXCEPT ![i].live = FALSE]
    BY <1>3 DEF PostRevoke, RevokeSession
  <2> QED BY <1>D, <2>1
<1>4. CASE SessionExpires
  <2>1. UNCHANGED sessions \/ \E i \in DOMAIN sessions : sessions' = [sessions EXCEPT ![i].live = FALSE]
    BY <1>4 DEF SessionExpires
  <2> QED BY <1>C, <1>D, <2>1
<1>5. CASE UNCHANGED sessions
  BY <1>5, <1>C
<1>6. ASSUME AccountNext PROVE \/ \E c \in Clients : CreateSession(c) \/ GetCSRF(c) \/ PostRevoke(c)
                               \/ SessionExpires \/ UNCHANGED sessions
  BY <1>6 DEF AccountNext, PostRegister, Register, PostLogin, Login, PostWebmasterRegister, WebmasterRegister,
        PostWebmasterLogin, WebmasterLogin, RecordLoginFailure, UpdatePasswordHash, RecordLoginSuccess,
        RequireAuth, RequireConsumer, EnsureWebmasterProfile, WebmasterTrigger, WebmasterCreateSession,
        RequestFails, WebmasterAuth, UnlockTime
<1> QED BY <1>1, <1>2, <1>3, <1>4, <1>5, <1>6 DEF accountVars

\* The positions of p's rows.
RowsOf(p) == {i \in DOMAIN wmSessions : wmSessions[i].user = p}

(* A person's rows are counted by their ids.                               *)
LEMMA RowsCounted ==
    ASSUME AccountShape, RowsDiffer, NEW p
    PROVE  /\ IsFiniteSet(RowsOf(p)) /\ IsFiniteSet(WebmasterIds(p))
           /\ Cardinality(WebmasterIds(p)) = Cardinality(RowsOf(p)) /\ Cardinality(RowsOf(p)) \in Nat
<1> DEFINE f == [i \in DOMAIN wmSessions |-> wmSessions[i].id]
<1>1. IsFiniteSet(RowsOf(p))
  <2>1. PICK n \in Nat : n = Len(wmSessions)
    BY DEF AccountShape
  <2>2. IsFiniteSet(1..n) /\ RowsOf(p) \in SUBSET (1..n)
    BY <2>1, FS_Interval DEF RowsOf, AccountShape
  <2> QED BY <2>2, FS_Subset
<1>2. \A i, j \in RowsOf(p) : f[i] = f[j] => i = j
  BY DEF RowsOf, RowsDiffer
<1>3. WebmasterIds(p) = {f[i] : i \in RowsOf(p)}
  BY DEF WebmasterIds, RowsOf
<1> HIDE DEF f
<1> QED BY <1>1, <1>2, <1>3, NamesCounted

(* What the trigger was told to delete leaves fewer than WebmasterCap.     *)
LEMMA EvictedLeavesRoom ==
    ASSUME AccountShape, RowsDiffer, NEW p, NEW E, E = Evicted(wmSessions, p)
    PROVE  /\ IsFiniteSet(WebmasterIds(p) \ E) /\ Cardinality(WebmasterIds(p) \ E) \in Nat
           /\ Cardinality(WebmasterIds(p) \ E) <= WebmasterCap - 1
<1> DEFINE rows == {i \in DOMAIN wmSessions : wmSessions[i].user = p}
           own == {i \in rows : wmSessions[i].live}
           over == IF Cardinality(own) >= WebmasterCap THEN Cardinality(own) - WebmasterCap + 1 ELSE 0
           first == {i \in own : Cardinality({j \in own : j < i}) < over}
           before == {e \in own \X own : e[1] < e[2]}
           rest == own \ first
           f == [i \in DOMAIN wmSessions |-> wmSessions[i].id]
<1>0. WebmasterCap \in Nat /\ WebmasterCap >= 1
  BY AccountAssumptions DEF AccountAssumptions
<1>1. E = {wmSessions[i].id : i \in (rows \ own) \cup first}
  BY DEF Evicted
<1>2. rows = RowsOf(p)
  BY DEF RowsOf
<1>3. IsFiniteSet(rows) /\ IsFiniteSet(own) /\ Cardinality(own) \in Nat /\ own \subseteq Int
  <2>1. IsFiniteSet(rows)
    BY <1>2, RowsCounted
  <2>2. own \in SUBSET rows
    OBVIOUS
  <2>3. own \subseteq Int
    BY DEF AccountShape
  <2> HIDE DEF own, rows
  <2> QED BY <2>1, <2>2, <2>3, FS_Subset, FS_CardinalityType
<1>4. \A i, j \in own : <<i, j>> \in before <=> i < j
  OBVIOUS
<1>5. \A i \in own : Ahead(own, before, i) = Cardinality({j \in own : j < i})
  <2> SUFFICES ASSUME NEW i \in own PROVE {j \in own : <<j, i>> \in before} = {j \in own : j < i}
    BY DEF Ahead
  <2> HIDE DEF own, before
  <2> QED BY <1>4
<1>6. over \in Nat /\ over <= Cardinality(own) /\ Cardinality(own) - over <= WebmasterCap - 1
  <2> HIDE DEF own
  <2> QED BY <1>0, <1>3
<1>7. \A i \in rest : i \in own /\ ~(Ahead(own, before, i) < over)
  <2>1. ASSUME NEW i \in rest PROVE i \in own /\ ~(Cardinality({j \in own : j < i}) < over)
    OBVIOUS
  <2> HIDE DEF rest, own, before, over
  <2> QED BY <1>5, <2>1
<1>8. \A i \in rows : wmSessions[i].id \notin E => i \in rest
  BY <1>1
<1>9. \A i, j \in rest : f[i] = f[j] => i = j
  BY DEF RowsDiffer
<1>10. \A i \in rest : f[i] = wmSessions[i].id
  OBVIOUS
<1> HIDE DEF rest, own, before, over
<1>11. Orders(before, own)
  BY <1>3, <1>4 DEF Orders
<1>12. \A i \in own : Ahead(own, before, i) \in 0..(Cardinality(own) - 1)
  BY <1>3, <1>11, AheadGrows
<1>13. \A i \in rest : i \in own /\ Ahead(own, before, i) \in over..(Cardinality(own) - 1)
  <2> SUFFICES ASSUME NEW i \in rest PROVE i \in own /\ Ahead(own, before, i) \in over..(Cardinality(own) - 1)
    OBVIOUS
  <2>1. PICK m : m = Ahead(own, before, i)
    OBVIOUS
  <2>2. i \in own /\ m \in 0..(Cardinality(own) - 1) /\ ~(m < over)
    BY <1>7, <1>12, <2>1
  <2>3. m \in over..(Cardinality(own) - 1)
    BY <1>3, <1>6, <2>2
  <2> QED BY <2>1, <2>2, <2>3
<1>14. IsFiniteSet(rest) /\ Cardinality(rest) \in Nat /\ Cardinality(rest) <= Cardinality(own) - over
  BY <1>3, <1>6, <1>11, <1>13, RanksBetween
<1>15. WebmasterIds(p) \ E \in SUBSET {f[i] : i \in rest}
  <2>1. ASSUME NEW x \in WebmasterIds(p) \ E PROVE x \in {f[i] : i \in rest}
    <3>1. PICK i \in rows : x = wmSessions[i].id
      BY DEF WebmasterIds
    <3>2. i \in rest
      BY <1>8, <3>1
    <3> HIDE DEF f
    <3> QED BY <1>10, <3>1, <3>2
  <2> QED BY <2>1
<1> HIDE DEF f
<1>16. IsFiniteSet({f[i] : i \in rest}) /\ Cardinality({f[i] : i \in rest}) = Cardinality(rest)
  BY <1>9, <1>14, NamesCounted
<1>17. /\ IsFiniteSet(WebmasterIds(p) \ E) /\ Cardinality(WebmasterIds(p) \ E) \in Nat
       /\ Cardinality(WebmasterIds(p) \ E) <= Cardinality(rest)
  BY <1>15, <1>16, FS_Subset, FS_CardinalityType
<1> QED BY <1>0, <1>3, <1>6, <1>14, <1>17

(* What is kept of the rows: rows, each once.                              *)
LEMMA RowsKept ==
    ASSUME AccountShape, RowsDiffer, NEW I, I \subseteq DOMAIN wmSessions, NEW K, K = Kept(wmSessions, I)
    PROVE  /\ K \in Seq(WebmasterRow)
           /\ \A k \in 1..Len(K) : \E i \in I : K[k] = wmSessions[i]
           /\ \A k, l \in 1..Len(K) : K[k].id = K[l].id => k = l
<1>1. I \subseteq 1..Len(wmSessions) /\ wmSessions \in Seq(WebmasterRow)
  BY DEF AccountShape
<1>2. K \in Seq(WebmasterRow) /\ Len(K) = Cardinality(I)
  BY <1>1, KeptSelects
<1>5. /\ Ascending(I) \in [1..Cardinality(I) -> I]
      /\ \A k \in 1..Cardinality(I) : K[k] = wmSessions[Ascending(I)[k]]
      /\ \A k, l \in 1..Cardinality(I) : k < l => Ascending(I)[k] < Ascending(I)[l]
  BY <1>1, KeptSelects
<1>3. PICK at \in [1..Len(K) -> I] :
          /\ \A k \in 1..Len(K) : K[k] = wmSessions[at[k]]
          /\ \A k, l \in 1..Len(K) : k < l => at[k] < at[l]
  BY <1>2, <1>5
<1>4. ASSUME NEW k \in 1..Len(K), NEW l \in 1..Len(K), K[k].id = K[l].id PROVE k = l
  <2>1. at[k] = at[l]
    BY <1>3, <1>4 DEF RowsDiffer
  <2>2. at[k] \in Int /\ at[l] \in Int /\ k \in Int /\ l \in Int
    BY <1>1
  <2> QED BY <1>3, <2>1, <2>2
<1> QED BY <1>2, <1>3, <1>4

(* A step that gives p no new row and starts no insert for p.              *)
LEMMA InsertsQuiet ==
    ASSUME AccountShape, AccountShape', RowsDiffer, NEW p, InsertsHeld(p),
           WebmasterIds(p)' \subseteq WebmasterIds(p),
           \A c \in Clients : c \in Inserting(p)' => c \in Inserting(p) /\ request'[c] = request[c]
    PROVE  InsertsHeld(p)'
<1> SUFFICES ASSUME NEW Q \in SUBSET Inserting(p)'
             PROVE  (Cardinality(WebmasterIds(p) \ EvictedBy(Q)) + Cardinality(Q) < WebmasterCap + Cardinality(Clients))'
  BY DEF InsertsHeld
<1>1. PICK W, X : W = WebmasterIds(p)' /\ X = EvictedBy(Q)'
  OBVIOUS
<1>2. Q \in SUBSET Inserting(p) /\ \A c \in Q : c \in Clients /\ request'[c] = request[c]
  BY DEF Inserting
<1>3. X = EvictedBy(Q)
  BY <1>1, <1>2 DEF EvictedBy
<1>4. Cardinality(WebmasterIds(p) \ X) + Cardinality(Q) < WebmasterCap + Cardinality(Clients)
  BY <1>2, <1>3 DEF InsertsHeld
<1>5. /\ IsFiniteSet(WebmasterIds(p) \ X) /\ W \ X \in SUBSET (WebmasterIds(p) \ X)
  BY <1>1, RowsCounted, FS_Difference
<1>6. /\ Cardinality(W \ X) \in Nat /\ Cardinality(WebmasterIds(p) \ X) \in Nat
      /\ Cardinality(W \ X) <= Cardinality(WebmasterIds(p) \ X)
  BY <1>5, FS_Subset, FS_CardinalityType
<1>7. Cardinality(Q) \in Nat /\ Cardinality(Clients) \in Nat /\ WebmasterCap \in Nat
  <2>1. IsFiniteSet(Clients) /\ WebmasterCap \in Nat
    BY AccountAssumptions DEF AccountAssumptions
  <2>2. Q \in SUBSET Clients
    BY DEF Inserting
  <2> QED BY <2>1, <2>2, FS_Subset, FS_CardinalityType
<1>8. Cardinality(W \ X) + Cardinality(Q) < WebmasterCap + Cardinality(Clients)
  BY <1>4, <1>6, <1>7
<1> QED BY <1>1, <1>8

(* The trigger: whoever inserts with it, the rows it saw leave room for    *)
(* every other request.                                                    *)
LEMMA TriggerKeepsInserts ==
    ASSUME AccountShape, AccountShape', InsertInv, NEW c \in Clients, WebmasterTrigger(c)
    PROVE  InsertInv'
<1>1. PICK q, E : q = request[c].user /\ E = Evicted(wmSessions, q)
  OBVIOUS
<1>2. /\ request'[c] = [step |-> "wmInsert", user |-> q, evict |-> E] /\ request[c].step = "wmSession"
      /\ \A d \in Clients : d # c => request'[d] = request[d]
      /\ UNCHANGED <<wmSessions, opened>>
  BY <1>1 DEF WebmasterTrigger, Ask, AccountShape
<1>3. RowsDiffer'
  BY <1>2 DEF InsertInv, RowsDiffer
<1>4. \A p : WebmasterIds(p)' = WebmasterIds(p)
  BY <1>2 DEF WebmasterIds
<1>5. ASSUME NEW p \in People, p # q PROVE InsertsHeld(p)'
  <2>1. \A d \in Clients : d \in Inserting(p)' => d \in Inserting(p) /\ request'[d] = request[d]
    BY <1>2, <1>5 DEF Inserting
  <2> QED BY <1>4, <2>1, InsertsQuiet DEF InsertInv
<1>6. ASSUME q \in People PROVE InsertsHeld(q)'
  <2> SUFFICES ASSUME NEW Q \in SUBSET Inserting(q)'
               PROVE  (Cardinality(WebmasterIds(q) \ EvictedBy(Q)) + Cardinality(Q) < WebmasterCap + Cardinality(Clients))'
    BY DEF InsertsHeld
  <2>1. PICK X : X = EvictedBy(Q)'
    OBVIOUS
  <2>2. /\ IsFiniteSet(Clients) /\ Q \in SUBSET Clients /\ WebmasterCap \in Nat
    BY AccountAssumptions DEF AccountAssumptions, Inserting
  <2>3. Cardinality(Q) \in Nat /\ Cardinality(Clients) \in Nat /\ Cardinality(Q) <= Cardinality(Clients)
    BY <2>2, FS_Subset, FS_CardinalityType
  <2>4. CASE c \in Q
    <3>1. E \subseteq X
      BY <1>2, <2>1, <2>4 DEF EvictedBy
    <3>2. /\ IsFiniteSet(WebmasterIds(q) \ E) /\ Cardinality(WebmasterIds(q) \ E) \in Nat
          /\ Cardinality(WebmasterIds(q) \ E) <= WebmasterCap - 1
      BY <1>1, EvictedLeavesRoom DEF InsertInv
    <3>3. WebmasterIds(q) \ X \in SUBSET (WebmasterIds(q) \ E)
      BY <3>1
    <3>4. /\ Cardinality(WebmasterIds(q) \ X) \in Nat
          /\ Cardinality(WebmasterIds(q) \ X) <= Cardinality(WebmasterIds(q) \ E)
      BY <3>2, <3>3, FS_Subset, FS_CardinalityType
    <3>5. Cardinality(WebmasterIds(q) \ X) + Cardinality(Q) < WebmasterCap + Cardinality(Clients)
      BY <2>2, <2>3, <3>2, <3>4
    <3> QED BY <1>4, <2>1, <3>5
  <2>5. CASE c \notin Q
    <3>1. Q \in SUBSET Inserting(q) /\ \A d \in Q : request'[d] = request[d]
      BY <1>2, <2>5 DEF Inserting
    <3>2. X = EvictedBy(Q)
      BY <2>1, <3>1 DEF EvictedBy
    <3>3. Cardinality(WebmasterIds(q) \ X) + Cardinality(Q) < WebmasterCap + Cardinality(Clients)
      BY <1>6, <3>1, <3>2 DEF InsertInv, InsertsHeld
    <3> QED BY <1>4, <2>1, <3>3
  <2> QED BY <2>4, <2>5
<1> QED BY <1>3, <1>5, <1>6 DEF InsertInv

(* The insert: what it deletes and adds was counted before.                *)
LEMMA InsertKeepsInserts ==
    ASSUME AccountShape, AccountShape', InsertInv, NEW c \in Clients, WebmasterCreateSession(c)
    PROVE  InsertInv'
<1>1. PICK q, E, n, s, I, K :
          /\ q = request[c].user /\ E = request[c].evict /\ n = opened + 1
          /\ s = [user |-> q, id |-> n, live |-> TRUE]
          /\ I = {i \in DOMAIN wmSessions : wmSessions[i].id \notin E} /\ K = Kept(wmSessions, I)
  OBVIOUS
<1>2. /\ request[c].step = "wmInsert" /\ request'[c] = Idle /\ \A d \in Clients : d # c => request'[d] = request[d]
      /\ opened' = n /\ wmSessions' = Append(K, s)
  BY <1>1 DEF WebmasterCreateSession, Respond, Ask, AccountShape
<1>3. opened \in Nat /\ n \in Nat /\ q \in People
  <2>1. MaxOpened \in Nat
    BY AccountAssumptions DEF AccountAssumptions
  <2> QED BY <1>1, <1>2, <2>1, RequestCarries DEF AccountShape
<1>4. RowsDiffer
  BY DEF InsertInv
<1>5. /\ K \in Seq(WebmasterRow)
      /\ \A k \in 1..Len(K) : \E i \in I : K[k] = wmSessions[i]
      /\ \A k, l \in 1..Len(K) : K[k].id = K[l].id => k = l
  <2>1. I \subseteq DOMAIN wmSessions /\ K = Kept(wmSessions, I)
    BY <1>1
  <2> QED BY <1>4, <2>1, RowsKept
<1>6. /\ Len(K) \in Nat /\ DOMAIN wmSessions' = 1..(Len(K) + 1) /\ wmSessions'[Len(K) + 1] = s
      /\ \A k \in 1..Len(K) : wmSessions'[k] = K[k]
  <2>1. s \in WebmasterRow
    BY <1>1, <1>3 DEF WebmasterRow
  <2> QED BY <1>2, <1>5, <2>1
<1>7. \A k \in 1..Len(K) : /\ K[k].id \in Nat /\ K[k].id <= opened /\ K[k].id \notin E
                           /\ \A p : K[k].user = p => K[k].id \in WebmasterIds(p)
  <2> SUFFICES ASSUME NEW k \in 1..Len(K)
               PROVE  /\ K[k].id \in Nat /\ K[k].id <= opened /\ K[k].id \notin E
                      /\ \A p : K[k].user = p => K[k].id \in WebmasterIds(p)
    OBVIOUS
  <2>1. PICK i \in DOMAIN wmSessions : K[k] = wmSessions[i] /\ wmSessions[i].id \notin E
    BY <1>1, <1>5
  <2>2. K[k] \in WebmasterRow
    BY <1>5
  <2> QED BY <1>4, <2>1, <2>2 DEF RowsDiffer, WebmasterRow, WebmasterIds
<1>8. RowsDiffer'
  <2>1. s.id = n
    BY <1>1
  <2>2. ASSUME NEW i \in DOMAIN wmSessions' PROVE wmSessions'[i].id <= opened'
    <3>1. CASE i = Len(K) + 1
      BY <1>2, <1>3, <1>6, <2>1, <3>1
    <3>2. CASE i \in 1..Len(K)
      <4>1. PICK x \in Nat : x = K[i].id /\ x <= opened
        BY <1>7, <3>2
      <4>2. x <= n
        BY <1>1, <1>3, <4>1
      <4> QED BY <1>2, <1>6, <3>2, <4>1, <4>2
    <3> QED BY <1>6, <2>2, <3>1, <3>2
  <2>3. ASSUME NEW i \in 1..Len(K) PROVE wmSessions'[i].id # n
    <3>1. PICK x \in Nat : x = K[i].id /\ x <= opened
      BY <1>7
    <3>2. x # n
      BY <1>1, <1>3, <3>1
    <3> QED BY <1>6, <3>1, <3>2
  <2>4. ASSUME NEW i \in DOMAIN wmSessions', NEW j \in DOMAIN wmSessions', wmSessions'[i].id = wmSessions'[j].id
        PROVE  i = j
    <3>1. CASE i \in 1..Len(K) /\ j \in 1..Len(K)
      BY <1>5, <1>6, <2>4, <3>1
    <3>2. CASE i \notin 1..Len(K) \/ j \notin 1..Len(K)
      <4>1. i = Len(K) + 1 \/ j = Len(K) + 1
        BY <1>6, <2>4, <3>2
      <4>2. i = Len(K) + 1 /\ j = Len(K) + 1
        BY <1>6, <2>1, <2>3, <2>4, <4>1
      <4> QED BY <4>2
    <3> QED BY <3>1, <3>2
  <2> QED BY <2>2, <2>4 DEF RowsDiffer
<1>9. ASSUME NEW p, NEW x \in WebmasterIds(p)'
      PROVE  (x \in WebmasterIds(p) /\ x \notin E) \/ (p = q /\ x = n)
  <2>1. PICK i \in DOMAIN wmSessions' : wmSessions'[i].user = p /\ x = wmSessions'[i].id
    BY DEF WebmasterIds
  <2>2. CASE i = Len(K) + 1
    BY <1>1, <1>6, <2>1, <2>2
  <2>3. CASE i \in 1..Len(K)
    BY <1>6, <1>7, <2>1, <2>3
  <2> QED BY <1>6, <2>1, <2>2, <2>3
<1>10. \A p : \A d \in Clients : d \in Inserting(p)' => d \in Inserting(p) /\ request'[d] = request[d] /\ d # c
  BY <1>2 DEF Inserting, Idle
<1>11. ASSUME NEW p \in People, p # q PROVE InsertsHeld(p)'
  <2>1. WebmasterIds(p)' \subseteq WebmasterIds(p)
    BY <1>9, <1>11
  <2> QED BY <1>4, <1>10, <2>1, InsertsQuiet DEF InsertInv
<1>12. InsertsHeld(q)'
  <2> SUFFICES ASSUME NEW Q \in SUBSET Inserting(q)'
               PROVE  (Cardinality(WebmasterIds(q) \ EvictedBy(Q)) + Cardinality(Q) < WebmasterCap + Cardinality(Clients))'
    BY DEF InsertsHeld
  <2>1. PICK W, X, Y : W = WebmasterIds(q)' /\ X = EvictedBy(Q)' /\ Y = EvictedBy(Q \cup {c})
    OBVIOUS
  <2>2. /\ Q \in SUBSET Clients /\ Q \in SUBSET Inserting(q) /\ c \notin Q /\ c \in Inserting(q)
        /\ \A d \in Q : request'[d] = request[d]
    BY <1>1, <1>2, <1>10 DEF Inserting
  <2>3. Y \subseteq X \cup E
    BY <1>1, <2>1, <2>2 DEF EvictedBy
  <2>4. Cardinality(WebmasterIds(q) \ Y) + Cardinality(Q \cup {c}) < WebmasterCap + Cardinality(Clients)
    BY <1>3, <2>1, <2>2 DEF InsertInv, InsertsHeld
  <2>5. /\ IsFiniteSet(Clients) /\ WebmasterCap \in Nat
    BY AccountAssumptions DEF AccountAssumptions
  <2>6. /\ Cardinality(Q) \in Nat /\ Cardinality(Q \cup {c}) = Cardinality(Q) + 1 /\ Cardinality(Clients) \in Nat
    BY <2>2, <2>5, FS_Subset, FS_CardinalityType, FS_AddElement
  <2>7. IsFiniteSet(WebmasterIds(q) \ Y) /\ Cardinality(WebmasterIds(q) \ Y) \in Nat
    BY <1>4, RowsCounted, FS_Difference, FS_CardinalityType
  <2>8. /\ IsFiniteSet((WebmasterIds(q) \ Y) \cup {n})
        /\ Cardinality((WebmasterIds(q) \ Y) \cup {n}) <= Cardinality(WebmasterIds(q) \ Y) + 1
    <3>1. PICK V : V = WebmasterIds(q) \ Y
      OBVIOUS
    <3>2. IsFiniteSet(V) /\ Cardinality(V) \in Nat
      BY <2>7, <3>1
    <3>3. IsFiniteSet(V \cup {n}) /\ Cardinality(V \cup {n}) <= Cardinality(V) + 1
      <4>1. IsFiniteSet(V \cup {n}) /\ Cardinality(V \cup {n}) = IF n \in V THEN Cardinality(V) ELSE Cardinality(V) + 1
        BY <3>2, FS_AddElement
      <4> QED BY <3>2, <4>1
    <3> QED BY <3>1, <3>3
  <2>9. W \ X \in SUBSET ((WebmasterIds(q) \ Y) \cup {n})
    BY <1>9, <2>1, <2>3
  <2>10. /\ Cardinality(W \ X) \in Nat
         /\ Cardinality(W \ X) <= Cardinality((WebmasterIds(q) \ Y) \cup {n})
         /\ Cardinality((WebmasterIds(q) \ Y) \cup {n}) \in Nat
    BY <2>8, <2>9, FS_Subset, FS_CardinalityType
  <2>11. Cardinality(W \ X) + Cardinality(Q) < WebmasterCap + Cardinality(Clients)
    BY <2>4, <2>5, <2>6, <2>7, <2>8, <2>10
  <2> QED BY <2>1, <2>11
<1> QED BY <1>8, <1>11, <1>12 DEF InsertInv

(* A use of a session moves its row to the end, a logout takes it away.    *)
LEMMA AuthKeepsInserts ==
    ASSUME AccountShape, AccountShape', InsertInv, WebmasterAuth
    PROVE  InsertInv'
<1>1. PICK h \in DOMAIN wmSessions :
          /\ UserBySession(wmSessions[h]) \/ DeleteSession(wmSessions[h])
          /\ UNCHANGED <<request, opened>>
  BY DEF WebmasterAuth
<1>2. PICK s, I, K : s = wmSessions[h] /\ I = {i \in DOMAIN wmSessions : wmSessions[i] # s} /\ K = Kept(wmSessions, I)
  OBVIOUS
<1>3. wmSessions' = Append(K, s) \/ wmSessions' = K
  BY <1>1, <1>2 DEF UserBySession, DeleteSession, Others
<1>4. RowsDiffer /\ s \in WebmasterRow
  BY <1>2 DEF InsertInv, AccountShape
<1>5. /\ K \in Seq(WebmasterRow)
      /\ \A k \in 1..Len(K) : \E i \in I : K[k] = wmSessions[i]
      /\ \A k, l \in 1..Len(K) : K[k].id = K[l].id => k = l
  <2>1. I \subseteq DOMAIN wmSessions /\ K = Kept(wmSessions, I)
    BY <1>2
  <2> QED BY <1>4, <2>1, RowsKept
<1>6. \A k \in 1..Len(K) : \E i \in DOMAIN wmSessions : K[k] = wmSessions[i] /\ K[k].id # s.id
  <2> SUFFICES ASSUME NEW k \in 1..Len(K) PROVE \E i \in DOMAIN wmSessions : K[k] = wmSessions[i] /\ K[k].id # s.id
    OBVIOUS
  <2>1. PICK i \in DOMAIN wmSessions : K[k] = wmSessions[i] /\ wmSessions[i] # s
    BY <1>2, <1>5
  <2>2. wmSessions[i].id # wmSessions[h].id
    BY <1>2, <1>4, <2>1 DEF RowsDiffer
  <2> QED BY <1>2, <2>1, <2>2
<1>7. /\ Len(K) \in Nat
      /\ DOMAIN wmSessions' = 1..Len(K) \/ (DOMAIN wmSessions' = 1..(Len(K) + 1) /\ wmSessions'[Len(K) + 1] = s)
      /\ \A k \in 1..Len(K) : wmSessions'[k] = K[k]
  <2>1. CASE wmSessions' = K
    BY <1>5, <2>1
  <2>2. CASE wmSessions' = Append(K, s)
    BY <1>4, <1>5, <2>2
  <2> QED BY <1>3, <2>1, <2>2
<1>8. \A k \in DOMAIN wmSessions' : k \in 1..Len(K) \/ (k = Len(K) + 1 /\ wmSessions'[k] = s)
  BY <1>7
<1>9. \A k \in DOMAIN wmSessions' : \E i \in DOMAIN wmSessions : wmSessions'[k] = wmSessions[i]
  BY <1>2, <1>6, <1>7, <1>8
<1>10. \A k, l \in DOMAIN wmSessions' : wmSessions'[k].id = wmSessions'[l].id => k = l
  BY <1>5, <1>6, <1>7, <1>8
<1>11. RowsDiffer'
  <2>1. \A k \in DOMAIN wmSessions' : wmSessions'[k].id <= opened'
    BY <1>1, <1>4, <1>9 DEF RowsDiffer
  <2> QED BY <1>10, <2>1 DEF RowsDiffer
<1>12. ASSUME NEW p \in People PROVE InsertsHeld(p)'
  <2>1. WebmasterIds(p)' \subseteq WebmasterIds(p)
    BY <1>9 DEF WebmasterIds
  <2>2. \A d \in Clients : d \in Inserting(p)' => d \in Inserting(p) /\ request'[d] = request[d]
    BY <1>1 DEF Inserting
  <2> QED BY <1>4, <2>1, <2>2, InsertsQuiet DEF InsertInv
<1> QED BY <1>11, <1>12 DEF InsertInv

(* Every step keeps the bound on webmaster sessions.                       *)
LEMMA InsertStep ==
    ASSUME AccountShape, AccountShape', InsertInv, [AccountNext]_accountVars
    PROVE  InsertInv'
<1>A. ASSUME UNCHANGED <<wmSessions, opened>>,
             \A d \in Clients : request'[d].step = "wmInsert" => request'[d] = request[d]
      PROVE  InsertInv'
  <2>1. RowsDiffer' /\ RowsDiffer
    BY <1>A DEF RowsDiffer, InsertInv
  <2>2. ASSUME NEW p \in People PROVE InsertsHeld(p)'
    <3>1. WebmasterIds(p)' \subseteq WebmasterIds(p)
      BY <1>A DEF WebmasterIds
    <3>2. \A d \in Clients : d \in Inserting(p)' => d \in Inserting(p) /\ request'[d] = request[d]
      BY <1>A DEF Inserting
    <3> QED BY <2>1, <3>1, <3>2, InsertsQuiet DEF InsertInv
  <2> QED BY <2>1, <2>2 DEF InsertInv
<1>B. ASSUME NEW c \in Clients, NEW r, Ask(c, r), r.step # "wmInsert"
      PROVE  \A d \in Clients : request'[d].step = "wmInsert" => request'[d] = request[d]
  BY <1>B DEF Ask, AccountShape
<1>C. ASSUME NEW c \in Clients, Respond(c) PROVE \A d \in Clients : request'[d].step = "wmInsert" => request'[d] = request[d]
  BY <1>B, <1>C DEF Respond, Idle
<1>1. ASSUME NEW c \in Clients, PostRegister(c) \/ PostLogin(c) \/ PostWebmasterRegister(c) \/ PostWebmasterLogin(c)
      PROVE  InsertInv'
  <2>1. UNCHANGED <<wmSessions, opened>>
    BY <1>1 DEF PostRegister, Register, PostLogin, Login, PostWebmasterRegister, WebmasterRegister,
                PostWebmasterLogin, WebmasterLogin
  <2>2. \E p, pw, b : \/ Ask(c, [step |-> "session", user |-> p]) \/ Ask(c, [step |-> "failure", user |-> p])
                      \/ Ask(c, [step |-> "wmSession", user |-> p])
                      \/ Ask(c, [step |-> "success", user |-> p, pw |-> pw, rehash |-> b])
                      \/ Respond(c)
    <3>1. CASE PostRegister(c)
      BY <3>1 DEF PostRegister, Register, newSession
    <3>2. CASE PostLogin(c)
      BY <3>2 DEF PostLogin, Login
    <3>3. CASE PostWebmasterRegister(c)
      BY <3>3 DEF PostWebmasterRegister, WebmasterRegister, WebmasterNewSession
    <3>4. CASE PostWebmasterLogin(c)
      BY <3>4 DEF PostWebmasterLogin, WebmasterLogin, WebmasterNewSession
    <3> QED BY <1>1, <3>1, <3>2, <3>3, <3>4
  <2>3. \A d \in Clients : request'[d].step = "wmInsert" => request'[d] = request[d]
    BY <1>B, <1>C, <2>2
  <2> QED BY <1>A, <2>1, <2>3
<1>2. ASSUME NEW c \in Clients, \/ RecordLoginFailure(c) \/ CreateSession(c) \/ GetCSRF(c) \/ PostRevoke(c)
                                \/ EnsureWebmasterProfile(c) \/ RequestFails(c) PROVE InsertInv'
  <2>1. Respond(c) /\ UNCHANGED <<wmSessions, opened>>
    BY <1>2 DEF RecordLoginFailure, CreateSession, GetCSRF, PostRevoke, EnsureWebmasterProfile, RequestFails
  <2> QED BY <1>A, <1>C, <2>1
<1>3. ASSUME NEW c \in Clients, UpdatePasswordHash(c) PROVE InsertInv'
  <2>1. PICK r : r = [request[c] EXCEPT !.rehash = FALSE]
    OBVIOUS
  <2>2. r.step # "wmInsert"
    BY <1>3, <2>1, RequestCarries DEF UpdatePasswordHash, AccountShape
  <2>3. Ask(c, r) /\ UNCHANGED <<wmSessions, opened>>
    BY <1>3, <2>1 DEF UpdatePasswordHash
  <2> QED BY <1>A, <1>B, <2>2, <2>3
<1>4. ASSUME NEW c \in Clients, RecordLoginSuccess(c) \/ RequireAuth(c) \/ RequireConsumer(c) PROVE InsertInv'
  <2>1. UNCHANGED <<wmSessions, opened>>
    BY <1>4 DEF RecordLoginSuccess, RequireAuth, RequireConsumer
  <2>2. \/ \E p : Ask(c, [step |-> "session", user |-> p]) \/ Ask(c, [step |-> "profile", user |-> p])
        \/ \E p, i, x : Ask(c, [step |-> "authenticated", user |-> p, session |-> i, csrf |-> x])
        \/ Respond(c)
    <3>1. CASE RecordLoginSuccess(c)
      BY <3>1 DEF RecordLoginSuccess, newSession
    <3>2. CASE RequireAuth(c)
      BY <3>2 DEF RequireAuth
    <3>3. CASE RequireConsumer(c)
      BY <3>3 DEF RequireConsumer
    <3> QED BY <1>4, <3>1, <3>2, <3>3
  <2>3. \A d \in Clients : request'[d].step = "wmInsert" => request'[d] = request[d]
    BY <1>B, <1>C, <2>2
  <2> QED BY <1>A, <2>1, <2>3
<1>5. ASSUME NEW c \in Clients, WebmasterTrigger(c) PROVE InsertInv'
  BY <1>5, TriggerKeepsInserts
<1>6. ASSUME NEW c \in Clients, WebmasterCreateSession(c) PROVE InsertInv'
  BY <1>6, InsertKeepsInserts
<1>7. CASE WebmasterAuth
  BY <1>7, AuthKeepsInserts
<1>8. CASE SessionExpires
  <2>1. CASE UNCHANGED wmSessions
    BY <1>8, <1>A, <2>1 DEF SessionExpires
  <2>2. ASSUME NEW h \in DOMAIN wmSessions, wmSessions' = [wmSessions EXCEPT ![h].live = FALSE] PROVE InsertInv'
    <3>1. DOMAIN wmSessions' = DOMAIN wmSessions /\ UNCHANGED <<request, opened>> /\ RowsDiffer
      BY <1>8, <2>2 DEF SessionExpires, InsertInv
    <3>2. \A i \in DOMAIN wmSessions : wmSessions'[i].id = wmSessions[i].id /\ wmSessions'[i].user = wmSessions[i].user
      <4>1. \A i \in DOMAIN wmSessions : wmSessions[i] \in WebmasterRow
        BY DEF AccountShape
      <4> QED BY <2>2, <4>1 DEF WebmasterRow
    <3>3. RowsDiffer'
      BY <3>1, <3>2 DEF RowsDiffer
    <3>4. ASSUME NEW p \in People PROVE InsertsHeld(p)'
      <4>1. WebmasterIds(p)' \subseteq WebmasterIds(p)
        BY <3>1, <3>2 DEF WebmasterIds
      <4>2. \A d \in Clients : d \in Inserting(p)' => d \in Inserting(p) /\ request'[d] = request[d]
        BY <3>1 DEF Inserting
      <4> QED BY <3>1, <4>1, <4>2, InsertsQuiet DEF InsertInv
    <3> QED BY <3>3, <3>4 DEF InsertInv
  <2> QED BY <1>8, <2>1, <2>2 DEF SessionExpires
<1>9. ASSUME NEW p \in People, UnlockTime(p) PROVE InsertInv'
  BY <1>9, <1>A DEF UnlockTime
<1>10. CASE UNCHANGED accountVars
  BY <1>10, <1>A DEF accountVars
<1> QED BY <1>1, <1>2, <1>3, <1>4, <1>5, <1>6, <1>7, <1>8, <1>9, <1>10 DEF AccountNext

(* At the start there is no session, and no guess has been made.           *)
LEMMA AccountInitial == AccountInit => AccountInv
<1> SUFFICES ASSUME AccountInit PROVE AccountInv
  OBVIOUS
<1>0. /\ IsFiniteSet(Clients) /\ MaxFailures \in 1..20 /\ SessionCap \in Nat /\ WebmasterCap \in Nat /\ WebmasterCap >= 1
      /\ MaxOpened \in Nat /\ MaxGuesses \in Nat /\ Cardinality(Clients) \in Nat
  BY AccountAssumptions, FS_CardinalityType DEF AccountAssumptions
<1>1. /\ consumer \in [People -> ConsumerRow] /\ \A p \in People : ~consumer[p].locked
  <2>1. consumer \in [People -> [hash : [pw : Passwords \ Weak, current : {FALSE}] \cup {NoHash}, fails : {0}, locked : {FALSE}]]
    BY DEF AccountInit
  <2>2. ASSUME NEW p \in People PROVE consumer[p] \in ConsumerRow /\ ~consumer[p].locked
    <3>1. consumer[p] \in [hash : [pw : Passwords \ Weak, current : {FALSE}] \cup {NoHash}, fails : {0}, locked : {FALSE}]
      BY <2>1
    <3>2. [pw : Passwords \ Weak, current : {FALSE}] \cup {NoHash} \subseteq Hashes
      BY DEF Hashes
    <3>3. consumer[p] \in [hash : Hashes, fails : {0}, locked : {FALSE}]
      BY <3>1, <3>2, Zenon
    <3>4. 0 \in Nat
      OBVIOUS
    <3>5. consumer[p] \in ConsumerRow
      BY <3>3, <3>4, Zenon DEF ConsumerRow
    <3>6. consumer[p].locked = FALSE
      BY <3>3, Zenon
    <3> QED BY <3>5, <3>6
  <2> QED BY <2>1, <2>2
<1>2. AccountShape
  <2>1. profile \in [People -> Hashes]
    BY <1>1 DEF AccountInit, ConsumerRow
  <2>2. request \in [Clients -> AccountRequests]
    BY DEF AccountInit, NoRequests, AccountRequests
  <2> QED BY <1>0, <1>1, <2>1, <2>2 DEF AccountInit, AccountShape
<1>3. \A c \in Clients : request[c] = Idle /\ request[c].step = "idle"
  BY DEF AccountInit, NoRequests, Idle
<1>4. GuessInv
  <2> SUFFICES ASSUME NEW p \in People PROVE GuessesHeld(p)
    BY DEF GuessInv
  <2>1. Failing(p) = {} /\ guesses[p] = 0 /\ consumer[p].fails \in Nat
    BY <1>1, <1>3 DEF Failing, AccountInit, ConsumerRow
  <2> QED BY <1>0, <1>1, <2>1 DEF GuessesHeld
<1>5. LiveBounded
  <2>1. \A p : LiveSessions(p) = {}
    BY DEF LiveSessions, AccountInit
  <2> QED BY <1>0, <2>1, FS_EmptySet DEF LiveBounded
<1>6. InsertInv
  <2>1. RowsDiffer
    BY DEF RowsDiffer, AccountInit
  <2> SUFFICES ASSUME NEW p \in People PROVE InsertsHeld(p)
    BY <2>1 DEF InsertInv
  <2>2. Inserting(p) = {} /\ WebmasterIds(p) = {}
    BY <1>3 DEF Inserting, WebmasterIds, AccountInit
  <2>3. Cardinality({}) = 0
    BY FS_EmptySet
  <2> SUFFICES ASSUME NEW Q \in SUBSET Inserting(p)
               PROVE  Cardinality(WebmasterIds(p) \ EvictedBy(Q)) + Cardinality(Q) < WebmasterCap + Cardinality(Clients)
    BY DEF InsertsHeld
  <2>4. Q = {} /\ WebmasterIds(p) \ EvictedBy(Q) = {}
    BY <2>2
  <2> QED BY <1>0, <2>3, <2>4
<1> QED BY <1>2, <1>4, <1>5, <1>6 DEF AccountInv

(* AccountInv bounds what an account can be made to hold.                  *)
LEMMA AccountInvImplies == AccountInv => AccountsBounded
<1> SUFFICES ASSUME AccountInv PROVE AccountsBounded
  OBVIOUS
<1> USE DEF AccountInv
<1>0. /\ MaxFailures \in 1..20 /\ WebmasterCap \in Nat /\ IsFiniteSet(Clients) /\ Cardinality(Clients) \in Nat
  BY AccountAssumptions, FS_CardinalityType DEF AccountAssumptions
<1>1. AccountTypeOK
  <2>1. \A i \in DOMAIN sessions : sessions[i] \in SessionRow
    BY DEF AccountShape
  <2>2. \A i \in DOMAIN wmSessions : wmSessions[i] \in [user : People, id : Nat, live : BOOLEAN]
    <3>1. \A i \in DOMAIN wmSessions : wmSessions[i] \in WebmasterRow
      BY DEF AccountShape
    <3> QED BY <3>1 DEF WebmasterRow
  <2> QED BY <2>1, <2>2 DEF AccountShape, AccountTypeOK
<1>2. ConsumerGuessesBounded
  <2> SUFFICES ASSUME NEW p \in People PROVE guesses[p] < MaxFailures + Cardinality(Clients)
    BY DEF ConsumerGuessesBounded
  <2>1. GuessesHeld(p) /\ guesses[p] \in Nat /\ Cardinality(Failing(p)) \in Nat
    BY FailingRequests DEF GuessInv, AccountShape
  <2>2. CASE consumer[p].locked
    <3>1. guesses[p] + Cardinality(Failing(p)) < MaxFailures + Cardinality(Clients)
      BY <2>1, <2>2 DEF GuessesHeld
    <3> QED BY <1>0, <2>1, <3>1
  <2>3. CASE ~consumer[p].locked
    <3>1. guesses[p] < MaxFailures
      BY <2>1, <2>3 DEF GuessesHeld
    <3> QED BY <1>0, <2>1, <3>1
  <2> QED BY <2>2, <2>3
<1>3. SessionsBounded
  <2> SUFFICES ASSUME NEW p \in People PROVE Len(WebmasterSessionsOf(p)) < WebmasterCap + Cardinality(Clients)
    BY DEF SessionsBounded, LiveBounded
  <2>1. WebmasterSessionsOf(p) = Kept(wmSessions, RowsOf(p)) /\ RowsOf(p) \subseteq 1..Len(wmSessions)
    BY DEF WebmasterSessionsOf, RowsOf, AccountShape
  <2>2. Len(WebmasterSessionsOf(p)) = Cardinality(RowsOf(p))
    BY <2>1, KeptSelects DEF AccountShape
  <2>3. /\ IsFiniteSet(WebmasterIds(p)) /\ Cardinality(WebmasterIds(p)) = Cardinality(RowsOf(p))
        /\ Cardinality(RowsOf(p)) \in Nat
    BY RowsCounted DEF InsertInv
  <2>4. Cardinality(WebmasterIds(p) \ EvictedBy({})) + Cardinality({}) < WebmasterCap + Cardinality(Clients)
    BY DEF InsertInv, InsertsHeld
  <2>5. WebmasterIds(p) \ EvictedBy({}) = WebmasterIds(p)
    BY DEF EvictedBy
  <2>6. Cardinality({}) = 0
    BY FS_EmptySet
  <2>7. PICK k \in Nat : k = Cardinality(RowsOf(p))
    BY <2>3
  <2>8. k + 0 < WebmasterCap + Cardinality(Clients)
    BY <2>3, <2>4, <2>5, <2>6, <2>7
  <2> QED BY <1>0, <2>2, <2>7, <2>8
<1> QED BY <1>1, <1>2, <1>3 DEF AccountsBounded

(* Every step of a request, every expiry and unlock keep AccountInv.       *)
LEMMA AccountStep == AccountInv /\ [AccountNext]_accountVars => AccountInv'
<1> SUFFICES ASSUME AccountInv, [AccountNext]_accountVars PROVE AccountInv'
  OBVIOUS
<1>1. AccountShape'
  BY AccountShapeStep DEF AccountInv
<1>2. GuessInv'
  BY <1>1, GuessStep DEF AccountInv
<1>3. LiveBounded'
  BY <1>1, LiveStep DEF AccountInv
<1>4. InsertInv'
  BY <1>1, InsertStep DEF AccountInv
<1> QED BY <1>1, <1>2, <1>3, <1>4 DEF AccountInv

(* Racing requests do not get past the password lock of the consumer       *)
(* login, the cap on consumer sessions, or by more than their own number   *)
(* the cap on webmaster sessions (identity/service.go and repository.go,   *)
(* migration 8).  The webmaster login has no lock: nothing is said of the  *)
(* wrong passwords it takes.                                               *)
THEOREM AccountsStayBounded == AccountSpec => []AccountsBounded
<1>1. AccountInit => AccountInv
  BY AccountInitial
<1>2. AccountInv /\ [AccountNext]_accountVars => AccountInv'
  BY AccountStep
<1>3. AccountInv => AccountsBounded
  BY AccountInvImplies
<1> QED BY <1>1, <1>2, <1>3, PTL DEF AccountSpec
=============================================================================
