--------------------------- MODULE ApplicationDomains ---------------------------
(***************************************************************************)
(* Who may use a hostname: ownership claims, the custom domains of          *)
(* applications, the owner's answers to requests for access, and the set    *)
(* of hostnames the provider routes to each application.                    *)
(*                                                                          *)
(* A handler is split where it awaits the database, public DNS or the       *)
(* provider.  Which domain is primary, the platform's own domain, TLS and   *)
(* the managed DNS records are left out: they only refuse what is allowed   *)
(* here.                                                                    *)
(***************************************************************************)
EXTENDS Naturals, Sequences, FiniteSets

CONSTANTS
    Tenants,       \* workspaces
    Sites,         \* applications
    HomeOf,        \* the workspace of each application
    Hostnames,
    Scopes,        \* for each hostname: itself and the domains above it, most specific first
    Zones,         \* <<workspace, hostname>>: who can publish records there
    Agents,        \* requests served at one time
    MaxBindings,   \* bound: rows of application_domains
    Nowhere

ASSUME DomainsAssumption ==
    /\ HomeOf \in [Sites -> Tenants]
    /\ Scopes \in [Hostnames -> Seq(Hostnames)]
    /\ \A h \in Hostnames : Len(Scopes[h]) > 0 /\ Head(Scopes[h]) = h
    /\ Zones \subseteq Tenants \X Hostnames
    /\ MaxBindings \in Nat

Bindings == 1..MaxBindings

ClaimRow   == [tenant : Tenants, verified : BOOLEAN, trusted : BOOLEAN]
BindingRow == [site : Sites, hostname : Hostnames, live : BOOLEAN, gone : BOOLEAN]
AccessRow  == [claim : Hostnames, status : {"pending", "approved", "rejected", "revoked"}]

ASSUME NowhereAssumption ==
    Nowhere \notin Tenants \union Sites \union Hostnames \union ClaimRow \union BindingRow \union AccessRow

VARIABLES
    claims,     \* domain_ownerships; no hostname has two, and none is ever revoked
    bindings,   \* application_domains of type custom
    access,     \* domain_access_requests: the one of each binding
    routed,     \* the provider's hostnames of each application
    answered,   \* history: <<binding, workspace>> that has approved it
    doing,      \* where each request stands
    kept        \* what it has read

domainVars == <<claims, bindings, access, routed, answered, doing, kept>>

NoTask == [task |-> "none", tenant |-> Nowhere, site |-> Nowhere, hostname |-> Nowhere,
           binding |-> 0, owner |-> Nowhere, claim |-> Nowhere, direct |-> FALSE, names |-> {}]

DomainsInit ==
    /\ claims   = [h \in Hostnames |-> Nowhere]
    /\ bindings = [b \in Bindings |-> Nowhere]
    /\ access   = [b \in Bindings |-> Nowhere]
    /\ routed   = [s \in Sites |-> {}]
    /\ answered = {}
    /\ doing    = [g \in Agents |-> "idle"]
    /\ kept     = [g \in Agents |-> NoTask]

Binding(task, s, b) == [NoTask EXCEPT !.task = task, !.site = s, !.binding = b]

Step(g, from, to) ==
    /\ doing[g] = from
    /\ doing' = [doing EXCEPT ![g] = to]

Done(g) ==
    /\ doing' = [doing EXCEPT ![g] = "idle"]
    /\ kept'  = [kept EXCEPT ![g] = NoTask]

\* A refusal, an error of the database, of DNS or of the provider, a crash.
GiveUpDomain(g) ==
    /\ doing[g] # "idle"
    /\ Done(g)
    /\ UNCHANGED <<claims, bindings, access, routed, answered>>

-----------------------------------------------------------------------------
Above(h) == {Scopes[h][n] : n \in DOMAIN Scopes[h]}

\* The most specific of a set of domains at or above a hostname.
Nearest(h, S) ==
    LET found == {n \in DOMAIN Scopes[h] : Scopes[h][n] \in S} IN
    IF found = {} THEN Nowhere ELSE Scopes[h][CHOOSE n \in found : \A k \in found : n <= k]

Claimed == {h \in Hostnames : claims[h] # Nowhere}
Bound(b) == bindings[b] # Nowhere /\ ~bindings[b].gone

ControllingOwnership(h) == Nearest(h, {d \in Claimed : claims[d].verified})
OwnershipClaim(t, h)    == Nearest(h, {d \in Claimed : claims[d].tenant = t})

\* enabledHostnames, with one binding projected to what it is to become.
EnabledHostnames(s, b, add) ==
    {bindings[c].hostname : c \in {d \in Bindings :
        /\ Bound(d)
        /\ bindings[d].site = s
        /\ IF d = b THEN add ELSE bindings[d].live}}

-----------------------------------------------------------------------------
(* Claims and custom domains                                               *)

\* registerOwnership, of a registrable root that nobody has claimed.
RegisterOwnership(g, t, h) ==
    /\ Len(Scopes[h]) = 1
    /\ claims[h] = Nowhere
    /\ Step(g, "idle", "claim")
    /\ kept' = [kept EXCEPT ![g].task = "register", ![g].tenant = t, ![g].hostname = h]
    /\ UNCHANGED <<claims, bindings, access, routed, answered>>

AddDomain(g, s, h) ==
    /\ Step(g, "idle", "owner")
    /\ kept' = [kept EXCEPT ![g].task = "add", ![g].tenant = HomeOf[s], ![g].site = s, ![g].hostname = h]
    /\ UNCHANGED <<claims, bindings, access, routed, answered>>

VerifyDomain(g, b) ==
    /\ Bound(b)
    /\ Step(g, "idle", "owner")
    /\ LET s == bindings[b].site IN
        kept' = [kept EXCEPT ![g].task = "verify", ![g].tenant = HomeOf[s], ![g].site = s,
                             ![g].hostname = bindings[b].hostname, ![g].binding = b]
    /\ UNCHANGED <<claims, bindings, access, routed, answered>>

\* A wrong version: verify does not ask who controls the hostname.
ReadAnyOwner(g) ==
    /\ Step(g, "owner", "own")
    /\ kept' = [kept EXCEPT ![g].owner = ControllingOwnership(kept[g].hostname)]
    /\ UNCHANGED <<claims, bindings, access, routed, answered>>

\* The verified owner of the hostname; verify ends here if it is another one.
ReadOwner(g) ==
    LET owner == ControllingOwnership(kept[g].hostname) IN
    /\ Step(g, "owner", "own")
    /\ kept[g].task = "verify" /\ owner # Nowhere => claims[owner].tenant = kept[g].tenant
    /\ kept' = [kept EXCEPT ![g].owner = owner]
    /\ UNCHANGED <<claims, bindings, access, routed, answered>>

\* Otherwise the workspace's own claim; a domain that is added makes one.
ReadClaim(g) ==
    LET m     == kept[g]
        claim == IF m.owner # Nowhere THEN m.owner ELSE OwnershipClaim(m.tenant, m.hostname)
        own   == claim # Nowhere /\ claims[claim].tenant = m.tenant
    IN
    /\ doing[g] = "own"
    /\ m.task = "verify" => claim # Nowhere
    /\ doing' = [doing EXCEPT ![g] = IF claim = Nowhere THEN "claim"
                                     ELSE IF m.task = "add" THEN "bind" ELSE "prove"]
    /\ kept' = [kept EXCEPT ![g].owner  = Nowhere,
                            ![g].claim  = claim,
                            ![g].direct = claim # Nowhere /\ claims[claim].verified
                                          /\ (own \/ m.task = "verify")]
    /\ UNCHANGED <<claims, bindings, access, routed, answered>>

\* createOwnershipClaim: verified at once when the platform requires no proof.
CreateClaim(g) ==
    LET h == kept[g].hostname IN
    /\ doing[g] = "claim"
    /\ claims[h] = Nowhere
    /\ \E trusted \in BOOLEAN :
        /\ claims' = [claims EXCEPT ![h] = [tenant |-> kept[g].tenant, verified |-> trusted, trusted |-> trusted]]
        /\ IF kept[g].task = "register"
           THEN Done(g)
           ELSE /\ Step(g, "claim", "bind")
                /\ kept' = [kept EXCEPT ![g].claim = h, ![g].direct = trusted]
    /\ UNCHANGED <<bindings, access, routed, answered>>

\* A hostname is bound once.
InsertBinding(g) ==
    LET m == kept[g] IN
    /\ doing[g] = "bind"
    /\ \A c \in Bindings : Bound(c) => bindings[c].hostname # m.hostname
    /\ \E b \in {c \in Bindings : bindings[c] = Nowhere} :
        /\ \A c \in Bindings : bindings[c] = Nowhere => b <= c
        /\ bindings' = [bindings EXCEPT ![b] = [site |-> m.site, hostname |-> m.hostname,
                                                live |-> m.direct, gone |-> FALSE]]
        /\ IF m.direct
           THEN Step(g, "bind", "names") /\ kept' = [kept EXCEPT ![g] = Binding("add", m.site, b)]
           ELSE IF claims[m.claim].tenant # m.tenant
           THEN Step(g, "bind", "request") /\ kept' = [kept EXCEPT ![g].binding = b]
           ELSE Done(g)
    /\ UNCHANGED <<claims, access, routed, answered>>

RequestAccess(g) ==
    /\ doing[g] = "request"
    /\ access' = [access EXCEPT ![kept[g].binding] = [claim |-> kept[g].claim, status |-> "pending"]]
    /\ Done(g)
    /\ UNCHANGED <<claims, bindings, routed, answered>>

\* Public DNS shows the token of a claim only where its workspace publishes.
ProveClaim(g) ==
    LET m == kept[g] IN
    /\ Step(g, "prove", "names")
    /\ IF m.direct
       THEN UNCHANGED claims
       ELSE /\ <<m.tenant, m.claim>> \in Zones
            /\ claims' = [claims EXCEPT ![m.claim].verified = TRUE]
    /\ kept' = [kept EXCEPT ![g] = Binding("verify", m.site, m.binding)]
    /\ UNCHANGED <<bindings, access, routed, answered>>

-----------------------------------------------------------------------------
(* The owner's answers, removal, and the provider                          *)

\* respondToAccess: the request as it is read.
AnswerAccess(g, t, b, task) ==
    /\ access[b] # Nowhere
    /\ claims[access[b].claim].tenant = t
    /\ claims[access[b].claim].verified
    /\ Bound(b)
    /\ access[b].status = IF task = "revoke" THEN "approved" ELSE "pending"
    /\ Step(g, "idle", IF task = "reject" THEN "commit" ELSE "names")
    /\ kept' = [kept EXCEPT ![g] = Binding(task, bindings[b].site, b)]
    /\ answered' = IF task = "approve" THEN answered \union {<<b, t>>} ELSE answered
    /\ UNCHANGED <<claims, bindings, access, routed>>

RemoveDomain(g, b) ==
    /\ Bound(b)
    /\ Step(g, "idle", "names")
    /\ kept' = [kept EXCEPT ![g] = Binding("remove", bindings[b].site, b)]
    /\ UNCHANGED <<claims, bindings, access, routed, answered>>

ReadHostnames(g) ==
    LET m == kept[g] IN
    /\ Step(g, "names", "route")
    /\ kept' = [kept EXCEPT ![g].names =
        IF m.task = "add" THEN EnabledHostnames(m.site, 0, FALSE)
        ELSE EnabledHostnames(m.site, m.binding, m.task \in {"verify", "approve"})]
    /\ UNCHANGED <<claims, bindings, access, routed, answered>>

\* synchronize: nothing to do while the application has no provider resource.
Synchronize(g) ==
    LET m == kept[g] IN
    /\ doing[g] = "route"
    /\ routed' \in {routed, [routed EXCEPT ![m.site] = m.names]}
    /\ IF m.task = "add"
       THEN Done(g)
       ELSE Step(g, "route", "commit") /\ kept' = [kept EXCEPT ![g].names = {}]
    /\ UNCHANGED <<claims, bindings, access, answered>>

\* What follows the provider's answer, by id, whatever has happened meanwhile.
CommitDomain(g) ==
    LET m   == kept[g]
        row == bindings[m.binding]
    IN
    /\ doing[g] = "commit"
    /\ bindings' = [bindings EXCEPT ![m.binding] =
        [site     |-> row.site,
         hostname |-> row.hostname,
         live     |-> IF m.task = "reject" THEN row.live ELSE m.task \in {"verify", "approve"},
         gone     |-> row.gone \/ m.task = "remove"]]
    /\ access' = IF m.task \in {"approve", "reject", "revoke"}
                 THEN [access EXCEPT ![m.binding].status =
                    CASE m.task = "approve" -> "approved"
                      [] m.task = "reject"  -> "rejected"
                      [] m.task = "revoke"  -> "revoked"]
                 ELSE access
    /\ Done(g)
    /\ UNCHANGED <<claims, routed, answered>>

-----------------------------------------------------------------------------
DomainsNext ==
    \E g \in Agents :
        \/ \E t \in Tenants, h \in Hostnames : RegisterOwnership(g, t, h)
        \/ \E s \in Sites, h \in Hostnames : AddDomain(g, s, h)
        \/ \E b \in Bindings : VerifyDomain(g, b) \/ RemoveDomain(g, b)
        \/ \E t \in Tenants, b \in Bindings, task \in {"approve", "reject", "revoke"} : AnswerAccess(g, t, b, task)
        \/ ReadOwner(g)
        \/ ReadClaim(g)
        \/ CreateClaim(g)
        \/ InsertBinding(g)
        \/ RequestAccess(g)
        \/ ProveClaim(g)
        \/ ReadHostnames(g)
        \/ Synchronize(g)
        \/ CommitDomain(g)
        \/ GiveUpDomain(g)

DomainsSpec == DomainsInit /\ [][DomainsNext]_domainVars

-----------------------------------------------------------------------------
\* A workspace controls a hostname if it can publish at it or at a domain above
\* it, or has claimed one of them when the platform required no proof.
Controls(t, h) ==
    \E d \in Above(h) :
        \/ <<t, d>> \in Zones
        \/ claims[d] # Nowhere /\ claims[d].tenant = t /\ claims[d].trusted

Entitled(s, h) ==
    \/ Controls(HomeOf[s], h)
    \/ \E a \in answered : bindings[a[1]].site = s /\ bindings[a[1]].hostname = h /\ Controls(a[2], h)

\* The provider routes a hostname to an application only if its workspace
\* controls the hostname or one that does has approved it, although owner,
\* claim and rows are read one by one and the provider is told before the rows
\* are written (verify, respondToAccess).
RoutedIsEntitled == \A s \in Sites : \A h \in routed[s] : Entitled(s, h)
===============================================================================
