------------------------------- MODULE Fetcher -------------------------------
(***************************************************************************)
(* internal/crawler/fetcher and security: one fetcher and the              *)
(* connections it keeps, against servers that redirect, fail and answer    *)
(* late and name servers whose answers change between the check of a       *)
(* target and the dial.                                                    *)
(***************************************************************************)
EXTENDS Naturals, FiniteSets

CONSTANTS FetchURLs,        \* records [scheme, user, host, port]
          HostNames,            \* hosts that are looked up; any other host is an address
          Addresses, Forbidden,
          FetchRedirects, FetchRetries,
          RetryBase, RetryMax,  \* RetryBaseDelay, RetryMaxDelay
          RetryAfters       \* seconds a Retry-After header may ask for, as numbers

ASSUME FetcherAssumptions ==
    /\ FetchRedirects \in Nat /\ FetchRetries \in Nat
    /\ RetryBase \in Nat \ {0} /\ RetryMax \in Nat \ {0} /\ RetryAfters \subseteq Nat
    /\ Forbidden \subseteq Addresses
    /\ \A u \in FetchURLs : u.host \in HostNames \cup Addresses \cup {"localhost", ""}

VARIABLES fetch,        \* the Fetch in progress
          dns,          \* dns[n]: the addresses the name servers give for n
          conns,        \* open connections
          sent,         \* requests sent by this Fetch (history)
          told          \* URLs this Fetch sent cache validators to (history)
fetchVars == <<fetch, dns, conns, sent, told>>

NoFetch == [phase |-> "idle"]

FetcherTypeOK ==
    /\ fetch.phase \in {"idle", "validate", "send", "sleep"}
    /\ fetch.phase # "idle" => fetch.attempt \in 1..(FetchRetries + 1) /\ fetch.redirects \in 0..(FetchRedirects + 1)
    /\ dns \in [HostNames -> SUBSET Addresses]
    /\ \A c \in conns : c.addr \in Addresses

-----------------------------------------------------------------------------
(* The target validator: every address a host has must be public.          *)

isForbiddenIP(a) == a \in Forbidden
LookupNetIP(host) == IF host \in HostNames THEN dns[host] ELSE {host}
effectivePort(u) == IF u.port # 0 THEN u.port ELSE IF u.scheme = "https" THEN 443 ELSE 80
WellFormed(u) ==
    /\ u.scheme \in {"http", "https"}
    /\ ~u.user
    /\ u.host \notin {"", "localhost"}
    /\ effectivePort(u) \in {80, 443}
Validate(u) == IF /\ WellFormed(u) /\ LookupNetIP(u.host) # {}
                  /\ \A a \in LookupNetIP(u.host) : ~isForbiddenIP(a)
               THEN LookupNetIP(u.host) ELSE {}

\* Mutant of validatedDialContext: the addresses are looked up again, not checked again.
DialUnchecked(u) == LookupNetIP(u.host)
\* validatedDialContext: the target is validated once more, for the dial.
validatedDialContext(u) == Validate(u)

-----------------------------------------------------------------------------
(* Fetch.                                                                  *)

FetcherInit ==
    /\ fetch = NoFetch
    /\ dns \in [HostNames -> SUBSET Addresses]
    /\ conns = {} /\ sent = 0 /\ told = {}

Fetch == \E u \in FetchURLs, conditional \in BOOLEAN :
    /\ fetch = NoFetch
    /\ fetch' = [phase |-> "validate", origin |-> u, url |-> u, attempt |-> 1, redirects |-> 0, delay |-> 0,
                 conditional |-> conditional]
    /\ sent' = 0 /\ told' = {}
    /\ UNCHANGED <<dns, conns>>

\* Mutant of retryDelay: the server's wish is not held to the maximum.
retryDelayAsked(attempt, after) == IF after > 0 THEN after ELSE RetryBase
\* Retry-After up to the maximum, or the base doubled for every attempt.
retryDelay(attempt, after) ==
    LET double[n \in 1..attempt] == IF n = 1 THEN RetryBase
            ELSE IF double[n - 1] >= RetryMax \div 2 THEN RetryMax ELSE 2 * double[n - 1]
    IN IF after > RetryMax THEN RetryMax ELSE IF after > 0 THEN after
       ELSE IF double[attempt] > RetryMax THEN RetryMax ELSE double[attempt]

isRedirect(status) == status \in {301, 302, 303, 307, 308}
isRetryableStatus(status) == status = 429 \/ status \in 500..599
isRetryableError(err) == err \in {"UnexpectedEOF", "net.Error"}

\* The error or status is final, or the next attempt follows after a pause.
\* parseRetryAfter gives 0 for no header or a time that has passed.
Attempted(retryable, after) ==
    fetch' = IF retryable /\ fetch.attempt <= FetchRetries
             THEN [fetch EXCEPT !.phase = "sleep", !.delay = retryDelay(fetch.attempt, after)]
             ELSE NoFetch
\* sleepContext: the next attempt starts from the first URL.
sleepContext ==
    /\ fetch.phase = "sleep"
    /\ fetch' = [fetch EXCEPT !.phase = "validate", !.url = fetch.origin, !.attempt = @ + 1, !.redirects = 0]
    /\ UNCHANGED <<dns, conns, sent, told>>

\* A failed lookup is a net.Error and is retried, a refused target is not.
fetchOnce ==
    /\ fetch.phase = "validate"
    /\ \/ /\ fetch.redirects <= FetchRedirects /\ Validate(fetch.url) # {}
          /\ fetch' = [fetch EXCEPT !.phase = "send"]
       \/ /\ fetch.redirects > FetchRedirects \/ Validate(fetch.url) = {}
          /\ Attempted(FALSE, 0)
       \/ /\ fetch.redirects <= FetchRedirects /\ WellFormed(fetch.url) /\ fetch.url.host \in HostNames
          /\ Attempted(isRetryableError("net.Error"), 0)
    /\ UNCHANGED <<dns, conns, sent, told>>

\* The transport takes a connection it kept for the host, or dials.
IdleConns(u) == {c \in conns : c.host = u.host /\ c.port = effectivePort(u)}
Dial ==
    /\ fetch.phase = "send" /\ IdleConns(fetch.url) = {}
    /\ \E a \in validatedDialContext(fetch.url) :
           conns' = conns \cup {[host |-> fetch.url.host, port |-> effectivePort(fetch.url), addr |-> a]}
    /\ UNCHANGED <<fetch, dns, sent, told>>
\* A refused or failed dial is a url.Error, which is a net.Error: retried.
DialFails ==
    /\ fetch.phase = "send" /\ IdleConns(fetch.url) = {}
    /\ Attempted(isRetryableError("net.Error"), 0)
    /\ UNCHANGED <<dns, conns, sent, told>>

\* Mutant of Validators: they go with every request of the chain.
ValidatorsAlways == fetch.conditional
Validators == fetch.conditional /\ fetch.redirects = 0
SendRequest ==
    /\ IdleConns(fetch.url) # {}
    /\ sent' = sent + 1
    /\ told' = IF Validators THEN told \cup {fetch.url} ELSE told

FollowRedirect == \E status \in {302, 308}, next \in FetchURLs :
    /\ fetch.phase = "send" /\ SendRequest /\ isRedirect(status)
    /\ fetch' = [fetch EXCEPT !.phase = "validate", !.url = next, !.redirects = @ + 1]
    /\ UNCHANGED <<dns, conns>>
ServerAnswers == \E status \in {200, 304, 429, 503}, after \in RetryAfters \cup {0} :
    /\ fetch.phase = "send" /\ SendRequest /\ ~isRedirect(status)
    /\ Attempted(isRetryableStatus(status), after)
    /\ UNCHANGED <<dns, conns>>
\* No answer, a body cut off or over the limit, a redirect without a location.
\* The header, if one came, is used for the delay.
ReceiveFails == \E err \in {"UnexpectedEOF", "net.Error", "BodyTooLarge", "RedirectLocation"}, after \in RetryAfters \cup {0} :
    /\ fetch.phase = "send" /\ SendRequest
    /\ Attempted(isRetryableError(err), IF err = "RedirectLocation" THEN 0 ELSE after)
    /\ UNCHANGED <<dns, conns>>
ContextDone ==
    /\ fetch # NoFetch /\ fetch' = NoFetch
    /\ UNCHANGED <<dns, conns, sent, told>>

-----------------------------------------------------------------------------
(* The network.                                                            *)

DNSChanges == \E n \in HostNames, as \in SUBSET Addresses :
    /\ dns[n] # as /\ dns' = [dns EXCEPT ![n] = as]
    /\ UNCHANGED <<fetch, conns, sent, told>>
ConnectionCloses == \E c \in conns :
    /\ conns' = conns \ {c}
    /\ UNCHANGED <<fetch, dns, sent, told>>

FetcherNext ==
    \/ Fetch \/ fetchOnce \/ sleepContext \/ Dial \/ DialFails \/ FollowRedirect \/ ServerAnswers \/ ReceiveFails
    \/ ContextDone \/ DNSChanges \/ ConnectionCloses

FetcherSpec == FetcherInit /\ [][FetcherNext]_fetchVars

-----------------------------------------------------------------------------
(* No connection is ever open to an address that is not public or to a     *)
(* port other than 80 and 443, whatever the name servers answer between    *)
(* the check and the dial and wherever a server redirects to.              *)
ConnectionsArePublic == \A c \in conns : c.addr \notin Forbidden /\ c.port \in {80, 443}

(* A Fetch sends at most (FetchRetries + 1) * (FetchRedirects + 1) requests,   *)
(* pauses between attempts for some time but never longer than RetryMax,   *)
(* and sends cache validators only to the URL that was scheduled.          *)
FetchContained ==
    /\ sent <= (FetchRetries + 1) * (FetchRedirects + 1)
    /\ fetch.phase = "sleep" => fetch.delay \in 1..RetryMax
    /\ fetch # NoFetch => told \subseteq {fetch.origin}

(* A fetch stays outside the private network and within its limits         *)
(* (client.go, dial.go).                                                   *)
FetchIsContained == FetcherTypeOK /\ ConnectionsArePublic /\ FetchContained
=============================================================================
