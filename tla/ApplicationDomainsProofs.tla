------------------------ MODULE ApplicationDomainsProofs ------------------------
(***************************************************************************)
(* Proofs about module ApplicationDomains: what the provider routes, the   *)
(* application's workspace may use, for every number of workspaces,        *)
(* applications, hostnames and requests.                                   *)
(***************************************************************************)
EXTENDS ApplicationDomains, WellFoundedInduction, SequenceTheorems, TLAPS

Tasks == {"none", "register", "add", "verify", "approve", "reject", "revoke", "remove"}
Places == {"idle", "owner", "own", "claim", "bind", "request", "prove", "names", "route", "commit"}

Task == [task : Tasks, tenant : Tenants \union {Nowhere}, site : Sites \union {Nowhere},
         hostname : Hostnames \union {Nowhere}, binding : Nat, owner : Hostnames \union {Nowhere},
         claim : Hostnames \union {Nowhere}, direct : BOOLEAN, names : SUBSET Hostnames]

DomainTypes ==
    /\ claims   \in [Hostnames -> ClaimRow \union {Nowhere}]
    /\ bindings \in [Bindings -> BindingRow \union {Nowhere}]
    /\ access   \in [Bindings -> AccessRow \union {Nowhere}]
    /\ routed   \in [Sites -> SUBSET Hostnames]
    /\ answered \subseteq Bindings \X Tenants
    /\ doing    \in [Agents -> Places]
    /\ kept     \in [Agents -> Task]

\* A claim is verified only by a workspace that publishes there, or unproved.
VerifiedIsPublished ==
    \A h \in Hostnames : claims[h] # Nowhere /\ claims[h].verified =>
        claims[h].trusted \/ <<claims[h].tenant, h>> \in Zones

\* A request for access is for a claim above the hostname.
AccessIsAbove ==
    \A b \in Bindings : access[b] # Nowhere =>
        /\ bindings[b] # Nowhere
        /\ access[b].claim \in Above(bindings[b].hostname)
        /\ claims[access[b].claim] # Nowhere

\* Every workspace that has approved a domain controls its hostname.
AnsweredExists == \A a \in answered : bindings[a[1]] # Nowhere

LiveIsEntitled ==
    \A b \in Bindings : bindings[b] # Nowhere /\ bindings[b].live =>
        Entitled(bindings[b].site, bindings[b].hostname)

\* What a request has read still holds, or held for good when it was read.
ForSite(m) == m.site \in Sites /\ m.tenant = HomeOf[m.site] /\ m.hostname \in Hostnames

OfBinding(m) ==
    /\ m.binding \in Bindings
    /\ bindings[m.binding] # Nowhere
    /\ bindings[m.binding].site = m.site

Under(claim, h) == claim \in Above(h) /\ claims[claim] # Nowhere

AtOwner(m) ==
    /\ m.task \in {"add", "verify"}
    /\ ForSite(m)
    /\ m.task = "verify" => OfBinding(m) /\ bindings[m.binding].hostname = m.hostname

AtOwn(m) ==
    /\ AtOwner(m)
    /\ m.owner # Nowhere =>
        /\ Under(m.owner, m.hostname)
        /\ claims[m.owner].verified
        /\ m.task = "verify" => claims[m.owner].tenant = m.tenant

AtClaim(m) ==
    /\ m.task \in {"register", "add"}
    /\ m.tenant \in Tenants /\ m.hostname \in Hostnames
    /\ m.task = "add" => ForSite(m)

AtBind(m) ==
    /\ m.task = "add" /\ ForSite(m)
    /\ Under(m.claim, m.hostname)
    /\ m.direct => Controls(m.tenant, m.hostname)

AtRequest(m) ==
    /\ m.binding \in Bindings /\ bindings[m.binding] # Nowhere
    /\ Under(m.claim, bindings[m.binding].hostname)

AtProve(m) ==
    /\ m.task = "verify" /\ ForSite(m)
    /\ OfBinding(m) /\ bindings[m.binding].hostname = m.hostname
    /\ Under(m.claim, m.hostname)
    /\ claims[m.claim].tenant = m.tenant
    /\ m.direct => claims[m.claim].verified

AtEnd(m) ==
    /\ m.task \in {"add", "verify", "approve", "reject", "revoke", "remove"}
    /\ m.site \in Sites /\ OfBinding(m)
    /\ m.task \in {"verify", "approve"} => Entitled(m.site, bindings[m.binding].hostname)
    /\ m.task \in {"approve", "reject", "revoke"} => access[m.binding] # Nowhere
    /\ \A h \in m.names : Entitled(m.site, h)

TaskAt(p, m) ==
    /\ p = "owner" => AtOwner(m)
    /\ p = "own" => AtOwn(m)
    /\ p = "claim" => AtClaim(m)
    /\ p = "bind" => AtBind(m)
    /\ p = "request" => AtRequest(m)
    /\ p = "prove" => AtProve(m)
    /\ p \in {"names", "route", "commit"} => AtEnd(m)

TaskHolds(g) == TaskAt(doing[g], kept[g])

TasksHold == \A g \in Agents : TaskHolds(g)

DomainsInv ==
    /\ DomainTypes
    /\ VerifiedIsPublished
    /\ AccessIsAbove
    /\ AnsweredExists
    /\ LiveIsEntitled
    /\ TasksHold
    /\ RoutedIsEntitled

-----------------------------------------------------------------------------
(* What was found stays                                                    *)

LEMMA NearestAbove ==
    ASSUME NEW h \in Hostnames, NEW S, Nearest(h, S) # Nowhere
    PROVE  Nearest(h, S) \in S /\ Nearest(h, S) \in Above(h)
  <1> DEFINE found == {n \in DOMAIN Scopes[h] : Scopes[h][n] \in S}
  <1>1. Nearest(h, S) = IF found = {} THEN Nowhere ELSE Scopes[h][CHOOSE n \in found : \A k \in found : n <= k]
    BY DEF Nearest
  <1>2. found # {}
    BY <1>1
  <1>3. found \subseteq Nat
    <2>1. Scopes[h] \in Seq(Hostnames)
      BY DomainsAssumption
    <2>2. DOMAIN Scopes[h] = 1..Len(Scopes[h])
      BY <2>1
    <2> QED BY <2>2
  <1>4. \E n \in found : \A k \in found : n <= k
    <2> DEFINE R == {p \in Nat \X Nat : p[1] < p[2]}
    <2>1. IsWellFoundedOn(R, Nat)
      BY NatLessThanWellFounded DEF OpToRel
    <2>2. PICK n \in found : \A k \in found : ~(<<k, n>> \in R)
      <3> HIDE DEF found, R
      <3> QED BY <1>2, <1>3, <2>1, WFMin
    <2>3. \A k \in found : ~(k < n)
      BY <1>3, <2>2
    <2> QED BY <1>3, <2>3
  <1>5. (CHOOSE n \in found : \A k \in found : n <= k) \in found
    BY <1>4
  <1> QED BY <1>1, <1>2, <1>5 DEF Above

\* Claims are made once and verified once, rows keep what they are for.
Grows ==
    /\ \A h \in Hostnames : claims[h] # Nowhere =>
        /\ claims'[h] # Nowhere
        /\ claims'[h].tenant = claims[h].tenant
        /\ claims'[h].trusted = claims[h].trusted
        /\ claims[h].verified => claims'[h].verified
    /\ \A b \in Bindings : bindings[b] # Nowhere =>
        /\ bindings'[b] # Nowhere
        /\ bindings'[b].site = bindings[b].site
        /\ bindings'[b].hostname = bindings[b].hostname
    /\ \A b \in Bindings : access[b] # Nowhere => access'[b] # Nowhere
    /\ answered \subseteq answered'

LEMMA AboveIsHostname ==
    ASSUME NEW h \in Hostnames
    PROVE  /\ Above(h) \subseteq Hostnames
           /\ h \in Above(h)
  <1>1. Scopes[h] \in Seq(Hostnames) /\ Len(Scopes[h]) > 0 /\ Head(Scopes[h]) = h
    BY DomainsAssumption
  <1>2. DOMAIN Scopes[h] = 1..Len(Scopes[h]) /\ 1 \in DOMAIN Scopes[h] /\ Scopes[h][1] = h
    BY <1>1
  <1>3. \A n \in DOMAIN Scopes[h] : Scopes[h][n] \in Hostnames
    BY <1>1
  <1> QED BY <1>2, <1>3 DEF Above

LEMMA ControlGrows ==
    ASSUME Grows, NEW t, NEW h \in Hostnames, Controls(t, h)
    PROVE  Controls(t, h)'
  <1>1. PICK d \in Above(h) : \/ <<t, d>> \in Zones
                              \/ claims[d] # Nowhere /\ claims[d].tenant = t /\ claims[d].trusted
    BY DEF Controls
  <1>2. d \in Hostnames
    BY AboveIsHostname
  <1> QED BY <1>1, <1>2 DEF Grows, Controls

LEMMA EntitledGrows ==
    ASSUME Grows, DomainTypes, AnsweredExists, NEW s \in Sites, NEW h \in Hostnames, Entitled(s, h)
    PROVE  Entitled(s, h)'
  <1>1. CASE Controls(HomeOf[s], h)
    BY <1>1, ControlGrows DEF Entitled
  <1>2. CASE \E a \in answered : bindings[a[1]].site = s /\ bindings[a[1]].hostname = h /\ Controls(a[2], h)
    <2>1. PICK a \in answered : bindings[a[1]].site = s /\ bindings[a[1]].hostname = h /\ Controls(a[2], h)
      BY <1>2
    <2>2. a[1] \in Bindings /\ bindings[a[1]] # Nowhere /\ a \in answered'
      BY <2>1 DEF Grows, DomainTypes, AnsweredExists
    <2>3. bindings'[a[1]].site = s /\ bindings'[a[1]].hostname = h
      BY <2>1, <2>2 DEF Grows
    <2>4. Controls(a[2], h)'
      BY <2>1, ControlGrows
    <2> QED BY <2>2, <2>3, <2>4 DEF Entitled
  <1> QED BY <1>1, <1>2 DEF Entitled

LEMMA UnderGrows ==
    ASSUME Grows, NEW h \in Hostnames, NEW c, Under(c, h)
    PROVE  /\ Under(c, h)'
           /\ claims'[c].tenant = claims[c].tenant
           /\ claims[c].verified => claims'[c].verified
           /\ c \in Hostnames
  <1>1. c \in Hostnames
    BY AboveIsHostname DEF Under
  <1> QED BY <1>1 DEF Under, Grows

LEMMA BindingTyped ==
    ASSUME DomainTypes, NEW b \in Bindings, bindings[b] # Nowhere
    PROVE  bindings[b].site \in Sites /\ bindings[b].hostname \in Hostnames
  BY DEF DomainTypes, BindingRow

\* A request that stands where it stood is as right as it was.
LEMMA TaskStays ==
    ASSUME DomainsInv, Grows, NEW g \in Agents, doing'[g] = doing[g], kept'[g] = kept[g]
    PROVE  TaskHolds(g)'
  <1> DEFINE m == kept[g]
  <1>1. TaskHolds(g)
    BY DEF DomainsInv, TasksHold
  <1>2. OfBinding(m) => /\ OfBinding(m)'
                        /\ bindings'[m.binding].hostname = bindings[m.binding].hostname
                        /\ bindings[m.binding].hostname \in Hostnames
    BY BindingTyped DEF Grows, OfBinding, DomainsInv
  <1>3. AtOwner(m) => AtOwner(m)'
    BY <1>2 DEF AtOwner, ForSite
  <1>4. AtOwn(m) => AtOwn(m)'
    <2> SUFFICES ASSUME AtOwn(m), m.owner # Nowhere
                 PROVE  /\ Under(m.owner, m.hostname)'
                        /\ claims'[m.owner].verified
                        /\ claims'[m.owner].tenant = claims[m.owner].tenant
      BY <1>3 DEF AtOwn
    <2>1. m.hostname \in Hostnames /\ Under(m.owner, m.hostname) /\ claims[m.owner].verified
      BY DEF AtOwn, AtOwner, ForSite
    <2> QED BY <2>1, UnderGrows
  <1>5. AtClaim(m) => AtClaim(m)'
    BY DEF AtClaim, ForSite
  <1>6. AtBind(m) => AtBind(m)'
    BY UnderGrows, ControlGrows DEF AtBind, ForSite
  <1>7. AtRequest(m) => AtRequest(m)'
    <2> SUFFICES ASSUME AtRequest(m)
                 PROVE  AtRequest(m)'
      OBVIOUS
    <2>1. /\ m.binding \in Bindings /\ bindings[m.binding] # Nowhere
          /\ bindings[m.binding].hostname \in Hostnames
          /\ Under(m.claim, bindings[m.binding].hostname)
      BY BindingTyped DEF AtRequest, DomainsInv
    <2>2. bindings'[m.binding] # Nowhere /\ bindings'[m.binding].hostname = bindings[m.binding].hostname
      BY <2>1 DEF Grows
    <2>3. Under(m.claim, bindings[m.binding].hostname)'
      BY <2>1, <2>2, UnderGrows DEF Under
    <2> QED BY <2>1, <2>2, <2>3 DEF AtRequest
  <1>8. AtProve(m) => AtProve(m)'
    BY <1>2, UnderGrows DEF AtProve, ForSite
  <1>9. AtEnd(m) => AtEnd(m)'
    <2> SUFFICES ASSUME AtEnd(m)
                 PROVE  AtEnd(m)'
      OBVIOUS
    <2>1. m.names \subseteq Hostnames
      BY DEF DomainsInv, DomainTypes, Task
    <2>2. \A h \in m.names : Entitled(m.site, h)'
      BY <2>1, EntitledGrows DEF AtEnd, DomainsInv
    <2>3. m.task \in {"verify", "approve"} => Entitled(m.site, bindings[m.binding].hostname)'
      <3> SUFFICES ASSUME m.task \in {"verify", "approve"}
                   PROVE  Entitled(m.site, bindings[m.binding].hostname)'
        OBVIOUS
      <3> DEFINE h == bindings[m.binding].hostname
      <3>1. h \in Hostnames /\ Entitled(m.site, h) /\ h' = h
        BY <1>2 DEF AtEnd
      <3> QED BY <3>1, EntitledGrows DEF AtEnd, DomainsInv
    <2>4. m.task \in {"approve", "reject", "revoke"} => access'[m.binding] # Nowhere
      BY DEF AtEnd, OfBinding, Grows
    <2> QED BY <1>2, <2>2, <2>3, <2>4 DEF AtEnd
  <1> QED BY <1>1, <1>3, <1>4, <1>5, <1>6, <1>7, <1>8, <1>9 DEF TaskHolds, TaskAt

-----------------------------------------------------------------------------
(* What the steps have in common                                           *)

Moved(g, p, m) ==
    /\ doing' = [doing EXCEPT ![g] = p]
    /\ kept' = [kept EXCEPT ![g] = m]

RowTypes ==
    /\ claims   \in [Hostnames -> ClaimRow \union {Nowhere}]
    /\ bindings \in [Bindings -> BindingRow \union {Nowhere}]
    /\ access   \in [Bindings -> AccessRow \union {Nowhere}]
    /\ routed   \in [Sites -> SUBSET Hostnames]
    /\ answered \subseteq Bindings \X Tenants

RowsRight ==
    /\ RowTypes
    /\ VerifiedIsPublished
    /\ AccessIsAbove
    /\ AnsweredExists
    /\ LiveIsEntitled
    /\ RoutedIsEntitled

LEMMA Conclude ==
    ASSUME DomainsInv, Grows, NEW g \in Agents, NEW p \in Places, NEW m \in Task,
           Moved(g, p, m), TaskAt(p, m)', RowsRight'
    PROVE  DomainsInv'
  <1>1. /\ doing \in [Agents -> Places] /\ kept \in [Agents -> Task]
    BY DEF DomainsInv, DomainTypes
  <1>2. /\ doing' \in [Agents -> Places] /\ kept' \in [Agents -> Task]
        /\ doing'[g] = p /\ kept'[g] = m
        /\ \A f \in Agents \ {g} : doing'[f] = doing[f] /\ kept'[f] = kept[f]
    BY <1>1 DEF Moved
  <1>3. DomainTypes'
    BY <1>2 DEF DomainTypes, RowsRight, RowTypes
  <1>4. TaskHolds(g)'
    BY <1>2 DEF TaskHolds
  <1>5. TasksHold'
    BY <1>2, <1>4, TaskStays DEF TasksHold
  <1> QED BY <1>3, <1>5 DEF DomainsInv, RowsRight

Rows == <<claims, bindings, access, routed, answered>>

LEMMA RoutedKept ==
    ASSUME DomainsInv, Grows, UNCHANGED routed
    PROVE  RoutedIsEntitled'
  <1> SUFFICES ASSUME NEW s \in Sites, NEW h \in routed[s]
               PROVE  Entitled(s, h)'
    BY DEF RoutedIsEntitled
  <1>1. h \in Hostnames
    BY DEF DomainsInv, DomainTypes
  <1> QED BY <1>1, EntitledGrows DEF DomainsInv, RoutedIsEntitled

LEMMA LiveKept ==
    ASSUME DomainsInv, Grows, UNCHANGED bindings
    PROVE  LiveIsEntitled'
  <1> SUFFICES ASSUME NEW b \in Bindings, bindings[b] # Nowhere, bindings[b].live
               PROVE  Entitled(bindings[b].site, bindings[b].hostname)'
    BY DEF LiveIsEntitled
  <1>1. PICK s, h : s = bindings[b].site /\ h = bindings[b].hostname
    OBVIOUS
  <1>2. Entitled(s, h)'
    BY <1>1, BindingTyped, EntitledGrows DEF DomainsInv, LiveIsEntitled
  <1> QED BY <1>1, <1>2 DEF Entitled

LEMMA RowsStay ==
    ASSUME DomainsInv, UNCHANGED Rows
    PROVE  Grows /\ RowsRight'
  <1> USE DEF Rows
  <1>1. Grows
    BY DEF Grows
  <1>2. RowTypes' /\ VerifiedIsPublished' /\ AccessIsAbove' /\ AnsweredExists'
    BY DEF DomainsInv, DomainTypes, RowTypes, VerifiedIsPublished, AccessIsAbove, AnsweredExists
  <1>3. LiveIsEntitled' /\ RoutedIsEntitled'
    BY <1>1, LiveKept, RoutedKept
  <1> QED BY <1>1, <1>2, <1>3 DEF RowsRight

\* A request that only reads.
LEMMA Reads ==
    ASSUME DomainsInv, UNCHANGED Rows, NEW g \in Agents, NEW p \in Places, NEW m \in Task,
           Moved(g, p, m), TaskAt(p, m)
    PROVE  DomainsInv'
  <1> USE DEF Rows
  <1>1. AtOwner(m) => AtOwner(m)'
    <2>1. ForSite(m)' <=> ForSite(m)
      BY DEF ForSite
    <2>2. OfBinding(m)' <=> OfBinding(m)
      BY DEF OfBinding
    <2>3. bindings'[m.binding].hostname = bindings[m.binding].hostname
      OBVIOUS
    <2> QED BY <2>1, <2>2, <2>3 DEF AtOwner
  <1>2. AtOwn(m) => AtOwn(m)'
    BY <1>1 DEF AtOwn, Under
  <1>3. AtClaim(m) => AtClaim(m)'
    BY DEF AtClaim, ForSite
  <1>4. AtBind(m) => AtBind(m)'
    BY DEF AtBind, ForSite, Under, Controls
  <1>5. AtRequest(m) => AtRequest(m)'
    BY DEF AtRequest, Under
  <1>6. AtProve(m) => AtProve(m)'
    BY DEF AtProve, ForSite, OfBinding, Under
  <1>7. AtEnd(m) => AtEnd(m)'
    <2>1. \A s, h : Entitled(s, h) <=> Entitled(s, h)'
      BY DEF Entitled, Controls
    <2>2. Entitled(m.site, bindings[m.binding].hostname) <=> Entitled(m.site, bindings[m.binding].hostname)'
      BY DEF Entitled, Controls
    <2> QED BY <2>1, <2>2 DEF AtEnd, OfBinding
  <1>8. TaskAt(p, m)'
    BY <1>1, <1>2, <1>3, <1>4, <1>5, <1>6, <1>7 DEF TaskAt
  <1> HIDE DEF Rows
  <1> QED BY <1>8, RowsStay, Conclude

LEMMA NoTaskTyped ==
    /\ NoTask \in Task
    /\ \A p \in {"idle"} : TaskAt(p, NoTask)
  BY DEF NoTask, Task, Tasks, TaskAt

LEMMA DoneMoves ==
    ASSUME NEW g \in Agents, Done(g)
    PROVE  Moved(g, "idle", NoTask) /\ NoTask \in Task /\ "idle" \in Places /\ TaskAt("idle", NoTask)'
  BY NoTaskTyped DEF Done, Moved, Places, TaskAt

LEMMA GiveUpDomainHolds ==
    ASSUME DomainsInv, NEW g \in Agents, GiveUpDomain(g)
    PROVE  DomainsInv'
  BY DoneMoves, RowsStay, Conclude DEF GiveUpDomain, Rows

LEMMA StepMoves ==
    ASSUME NEW g \in Agents, NEW from, NEW p \in Places, NEW m, Step(g, from, p), kept' = [kept EXCEPT ![g] = m]
    PROVE  Moved(g, p, m) /\ doing[g] = from
  BY DEF Step, Moved

\* What a request knows of its binding when it begins.
LEMMA BindingTask ==
    ASSUME NEW t \in Tasks, NEW s \in Sites, NEW b \in Bindings
    PROVE  /\ Binding(t, s, b) \in Task
           /\ Binding(t, s, b).task = t /\ Binding(t, s, b).site = s /\ Binding(t, s, b).binding = b
           /\ Binding(t, s, b).names = {}
  <1>1. NoTask \in Task /\ NoTask.names = {}
    BY DEF NoTask, Task, Tasks
  <1>2. b \in Nat
    BY DomainsAssumption DEF Bindings
  <1> QED BY <1>1, <1>2 DEF Binding, Task

-----------------------------------------------------------------------------
(* Requests that read                                                      *)

LEMMA RegisterHolds ==
    ASSUME DomainsInv, NEW g \in Agents, NEW t \in Tenants, NEW h \in Hostnames, RegisterOwnership(g, t, h)
    PROVE  DomainsInv'
  <1>1. PICK m : m = [kept[g] EXCEPT !.task = "register", !.tenant = t, !.hostname = h]
    OBVIOUS
  <1>2. m \in Task /\ m.task = "register" /\ m.tenant = t /\ m.hostname = h
    BY <1>1 DEF DomainsInv, DomainTypes, Task, Tasks
  <1>3. kept' = [kept EXCEPT ![g] = m]
    BY <1>1 DEF RegisterOwnership, DomainsInv, DomainTypes, Task
  <1>4. UNCHANGED Rows /\ Step(g, "idle", "claim")
    BY DEF RegisterOwnership, Rows
  <1>5. TaskAt("claim", m)
    BY <1>2 DEF TaskAt, AtClaim
  <1> QED BY <1>2, <1>3, <1>4, <1>5, StepMoves, Reads DEF Places

LEMMA AddHolds ==
    ASSUME DomainsInv, NEW g \in Agents, NEW s \in Sites, NEW h \in Hostnames, AddDomain(g, s, h)
    PROVE  DomainsInv'
  <1>1. PICK m : m = [kept[g] EXCEPT !.task = "add", !.tenant = HomeOf[s], !.site = s, !.hostname = h]
    OBVIOUS
  <1>2. HomeOf[s] \in Tenants
    BY DomainsAssumption
  <1>3. m \in Task /\ m.task = "add" /\ m.tenant = HomeOf[s] /\ m.site = s /\ m.hostname = h
    BY <1>1, <1>2 DEF DomainsInv, DomainTypes, Task, Tasks
  <1>4. kept' = [kept EXCEPT ![g] = m]
    BY <1>1 DEF AddDomain, DomainsInv, DomainTypes, Task
  <1>5. UNCHANGED Rows /\ Step(g, "idle", "owner")
    BY DEF AddDomain, Rows
  <1>6. TaskAt("owner", m)
    BY <1>3 DEF TaskAt, AtOwner, ForSite
  <1> QED BY <1>3, <1>4, <1>5, <1>6, StepMoves, Reads DEF Places

LEMMA VerifyHolds ==
    ASSUME DomainsInv, NEW g \in Agents, NEW b \in Bindings, VerifyDomain(g, b)
    PROVE  DomainsInv'
  <1> DEFINE s == bindings[b].site
             h == bindings[b].hostname
  <1>1. PICK m : m = [kept[g] EXCEPT !.task = "verify", !.tenant = HomeOf[s], !.site = s, !.hostname = h,
                                     !.binding = b]
    OBVIOUS
  <1>2. bindings[b] # Nowhere /\ s \in Sites /\ h \in Hostnames
    BY BindingTyped DEF VerifyDomain, Bound, DomainsInv
  <1>3. HomeOf[s] \in Tenants /\ b \in Nat
    BY <1>2, DomainsAssumption DEF Bindings
  <1>4. /\ m \in Task /\ m.task = "verify" /\ m.tenant = HomeOf[s] /\ m.site = s /\ m.hostname = h
        /\ m.binding = b
    BY <1>1, <1>2, <1>3 DEF DomainsInv, DomainTypes, Task, Tasks
  <1>5. kept' = [kept EXCEPT ![g] = m]
    BY <1>1 DEF VerifyDomain, DomainsInv, DomainTypes, Task
  <1>6. UNCHANGED Rows /\ Step(g, "idle", "owner")
    BY DEF VerifyDomain, Rows
  <1>7. TaskAt("owner", m)
    BY <1>2, <1>4 DEF TaskAt, AtOwner, ForSite, OfBinding
  <1> QED BY <1>4, <1>5, <1>6, <1>7, StepMoves, Reads DEF Places

LEMMA RemoveHolds ==
    ASSUME DomainsInv, NEW g \in Agents, NEW b \in Bindings, RemoveDomain(g, b)
    PROVE  DomainsInv'
  <1>1. PICK m : m = Binding("remove", bindings[b].site, b)
    OBVIOUS
  <1>2. bindings[b] # Nowhere /\ bindings[b].site \in Sites
    BY BindingTyped DEF RemoveDomain, Bound, DomainsInv
  <1>3. m \in Task /\ m.task = "remove" /\ m.site = bindings[b].site /\ m.binding = b /\ m.names = {}
    BY <1>1, <1>2, BindingTask DEF Tasks
  <1>4. UNCHANGED Rows /\ Step(g, "idle", "names") /\ kept' = [kept EXCEPT ![g] = m]
    BY <1>1 DEF RemoveDomain, Rows
  <1>5. TaskAt("names", m)
    BY <1>2, <1>3 DEF TaskAt, AtEnd, OfBinding
  <1> QED BY <1>3, <1>4, <1>5, StepMoves, Reads DEF Places

LEMMA ControllingIsUnder ==
    ASSUME DomainTypes, NEW h \in Hostnames, ControllingOwnership(h) # Nowhere
    PROVE  Under(ControllingOwnership(h), h) /\ claims[ControllingOwnership(h)].verified
  <1> DEFINE S == {d \in Claimed : claims[d].verified}
  <1>1. ControllingOwnership(h) = Nearest(h, S)
    BY DEF ControllingOwnership
  <1>2. Nearest(h, S) \in S /\ Nearest(h, S) \in Above(h)
    BY <1>1, NearestAbove
  <1> QED BY <1>1, <1>2 DEF Under, Claimed

LEMMA ClaimIsUnder ==
    ASSUME DomainTypes, NEW t, NEW h \in Hostnames, OwnershipClaim(t, h) # Nowhere
    PROVE  Under(OwnershipClaim(t, h), h) /\ claims[OwnershipClaim(t, h)].tenant = t
  <1> DEFINE S == {d \in Claimed : claims[d].tenant = t}
  <1>1. OwnershipClaim(t, h) = Nearest(h, S)
    BY DEF OwnershipClaim
  <1>2. Nearest(h, S) \in S /\ Nearest(h, S) \in Above(h)
    BY <1>1, NearestAbove
  <1> QED BY <1>1, <1>2 DEF Under, Claimed

LEMMA ReadOwnerHolds ==
    ASSUME DomainsInv, NEW g \in Agents, ReadOwner(g)
    PROVE  DomainsInv'
  <1>1. PICK k : k = kept[g]
    OBVIOUS
  <1>2. PICK owner : owner = ControllingOwnership(k.hostname)
    OBVIOUS
  <1>3. PICK m : m = [k EXCEPT !.owner = owner]
    OBVIOUS
  <1>4. k \in Task /\ AtOwner(k)
    BY <1>1 DEF DomainsInv, DomainTypes, TasksHold, TaskHolds, TaskAt, ReadOwner, Step
  <1>5. k.hostname \in Hostnames /\ (owner # Nowhere => Under(owner, k.hostname) /\ claims[owner].verified)
    BY <1>2, <1>4, ControllingIsUnder DEF AtOwner, ForSite, DomainsInv
  <1>6. owner \in Hostnames \union {Nowhere}
    BY <1>5, AboveIsHostname DEF Under
  <1>7. /\ m \in Task /\ m.task = k.task /\ m.tenant = k.tenant /\ m.site = k.site
        /\ m.hostname = k.hostname /\ m.binding = k.binding /\ m.owner = owner
    BY <1>3, <1>4, <1>6 DEF Task
  <1>8. kept' = [kept EXCEPT ![g] = m]
    BY <1>1, <1>2, <1>3 DEF ReadOwner, DomainsInv, DomainTypes, Task
  <1>9. /\ UNCHANGED Rows /\ Step(g, "owner", "own")
        /\ k.task = "verify" /\ owner # Nowhere => claims[owner].tenant = k.tenant
    BY <1>1, <1>2 DEF ReadOwner, Rows
  <1>10. TaskAt("own", m)
    BY <1>4, <1>5, <1>7, <1>9 DEF TaskAt, AtOwn, AtOwner, ForSite, OfBinding
  <1> QED BY <1>7, <1>8, <1>9, <1>10, StepMoves, Reads DEF Places

LEMMA ReadClaimHolds ==
    ASSUME DomainsInv, NEW g \in Agents, ReadClaim(g)
    PROVE  DomainsInv'
  <1>1. PICK k : k = kept[g]
    OBVIOUS
  <1>2. PICK claim : claim = IF k.owner # Nowhere THEN k.owner ELSE OwnershipClaim(k.tenant, k.hostname)
    OBVIOUS
  <1>3. PICK own : own = (claim # Nowhere /\ claims[claim].tenant = k.tenant)
    OBVIOUS
  <1>4. PICK direct : direct = (claim # Nowhere /\ claims[claim].verified /\ (own \/ k.task = "verify"))
    OBVIOUS
  <1>5. PICK p : p = IF claim = Nowhere THEN "claim" ELSE IF k.task = "add" THEN "bind" ELSE "prove"
    OBVIOUS
  <1>6. PICK m : m = [k EXCEPT !.owner = Nowhere, !.claim = claim, !.direct = direct]
    OBVIOUS
  <1>7. k \in Task /\ AtOwn(k)
    BY <1>1 DEF DomainsInv, DomainTypes, TasksHold, TaskHolds, TaskAt, ReadClaim
  <1>8. k.hostname \in Hostnames /\ (claim # Nowhere => Under(claim, k.hostname))
    <2>1. k.hostname \in Hostnames
      BY <1>7 DEF AtOwn, AtOwner, ForSite
    <2>2. CASE k.owner # Nowhere
      BY <1>2, <1>7, <2>1, <2>2 DEF AtOwn
    <2>3. CASE k.owner = Nowhere
      BY <1>2, <2>1, <2>3, ClaimIsUnder DEF DomainsInv
    <2> QED BY <2>2, <2>3
  <1>9. claim # Nowhere /\ k.task = "verify" => claims[claim].tenant = k.tenant
    <2>1. CASE k.owner # Nowhere
      BY <1>2, <1>7, <2>1 DEF AtOwn
    <2>2. CASE k.owner = Nowhere
      BY <1>2, <1>8, <2>2, ClaimIsUnder DEF DomainsInv
    <2> QED BY <2>1, <2>2
  <1>10. claim \in Hostnames \union {Nowhere} /\ direct \in BOOLEAN /\ p \in Places
    BY <1>4, <1>5, <1>8, AboveIsHostname DEF Under, Places
  <1>11. /\ m \in Task /\ m.task = k.task /\ m.tenant = k.tenant /\ m.site = k.site
         /\ m.hostname = k.hostname /\ m.binding = k.binding /\ m.claim = claim /\ m.direct = direct
    BY <1>6, <1>7, <1>10 DEF Task
  <1>12. /\ UNCHANGED Rows
         /\ doing' = [doing EXCEPT ![g] = p]
         /\ kept' = [kept EXCEPT ![g].owner = Nowhere, ![g].claim = claim, ![g].direct = direct]
         /\ k.task = "verify" => claim # Nowhere
    BY <1>1, <1>2, <1>3, <1>4, <1>5 DEF ReadClaim, Rows
  <1>13. Moved(g, p, m)
    BY <1>1, <1>6, <1>12 DEF Moved, DomainsInv, DomainTypes, Task
  <1>14. direct /\ k.task = "add" => Controls(k.tenant, k.hostname)
    <2> SUFFICES ASSUME direct, k.task = "add"
                 PROVE  Controls(k.tenant, k.hostname)
      OBVIOUS
    <2>1. claim # Nowhere /\ claims[claim].verified /\ claims[claim].tenant = k.tenant
      BY <1>3, <1>4
    <2>2. claim \in Hostnames /\ claim \in Above(k.hostname) /\ claims[claim] # Nowhere
      BY <1>8, <1>10, <2>1 DEF Under
    <2>3. claims[claim].trusted \/ <<k.tenant, claim>> \in Zones
      BY <2>1, <2>2 DEF DomainsInv, VerifiedIsPublished
    <2> QED BY <2>1, <2>2, <2>3 DEF Controls
  <1>15. TaskAt(p, m)
    <2>1. CASE claim = Nowhere
      <3>1. p = "claim" /\ k.task = "add"
        BY <1>5, <1>7, <1>12, <2>1 DEF AtOwn, AtOwner
      <3>2. AtClaim(m)
        BY <1>7, <1>11, <3>1, DomainsAssumption DEF AtClaim, AtOwn, AtOwner, ForSite
      <3> QED BY <3>1, <3>2 DEF TaskAt
    <2>2. CASE claim # Nowhere /\ k.task = "add"
      <3>1. AtBind(m)
        BY <1>7, <1>8, <1>11, <1>14, <2>2 DEF AtBind, AtOwn, AtOwner, ForSite
      <3> QED BY <1>5, <2>2, <3>1 DEF TaskAt
    <2>3. CASE claim # Nowhere /\ k.task # "add"
      <3>1. k.task = "verify" /\ p = "prove"
        BY <1>5, <1>7, <2>3 DEF AtOwn, AtOwner
      <3>2. AtProve(m)
        <4>1. OfBinding(m) /\ ForSite(m) /\ bindings[m.binding].hostname = m.hostname
          BY <1>7, <1>11, <3>1 DEF AtOwn, AtOwner, OfBinding, ForSite
        <4> QED BY <1>4, <1>8, <1>9, <1>11, <2>3, <3>1, <4>1 DEF AtProve
      <3> QED BY <3>1, <3>2 DEF TaskAt
    <2> QED BY <2>1, <2>2, <2>3
  <1> QED BY <1>10, <1>11, <1>12, <1>13, <1>15, Reads

LEMMA ReadHostnamesHolds ==
    ASSUME DomainsInv, NEW g \in Agents, ReadHostnames(g)
    PROVE  DomainsInv'
  <1>1. PICK k : k = kept[g]
    OBVIOUS
  <1>2. PICK names : names = IF k.task = "add" THEN EnabledHostnames(k.site, 0, FALSE)
                             ELSE EnabledHostnames(k.site, k.binding, k.task \in {"verify", "approve"})
    OBVIOUS
  <1>3. PICK m : m = [k EXCEPT !.names = names]
    OBVIOUS
  <1>4. k \in Task /\ AtEnd(k)
    BY <1>1 DEF DomainsInv, DomainTypes, TasksHold, TaskHolds, TaskAt, ReadHostnames, Step
  <1>5. \A h \in names : h \in Hostnames /\ Entitled(k.site, h)
    <2> SUFFICES ASSUME NEW h \in names
                 PROVE  h \in Hostnames /\ Entitled(k.site, h)
      OBVIOUS
    <2>1. PICK d \in Bindings : /\ Bound(d) /\ bindings[d].site = k.site /\ h = bindings[d].hostname
                                /\ \/ bindings[d].live
                                   \/ d = k.binding /\ k.task \in {"verify", "approve"}
      BY <1>2 DEF EnabledHostnames
    <2>2. bindings[d] # Nowhere
      BY <2>1 DEF Bound
    <2> QED BY <1>4, <2>1, <2>2, BindingTyped DEF AtEnd, DomainsInv, LiveIsEntitled
  <1>6. /\ m \in Task /\ m.task = k.task /\ m.site = k.site /\ m.binding = k.binding /\ m.names = names
    BY <1>3, <1>4, <1>5 DEF Task
  <1>7. kept' = [kept EXCEPT ![g] = m]
    BY <1>1, <1>2, <1>3 DEF ReadHostnames, DomainsInv, DomainTypes, Task
  <1>8. UNCHANGED Rows /\ Step(g, "names", "route")
    BY DEF ReadHostnames, Rows
  <1>9. AtEnd(m)
    BY <1>4, <1>5, <1>6 DEF AtEnd, OfBinding
  <1>10. TaskAt("route", m)
    BY <1>9 DEF TaskAt
  <1> QED BY <1>6, <1>7, <1>8, <1>10, StepMoves, Reads DEF Places

-----------------------------------------------------------------------------
(* Requests that write                                                     *)

LEMMA AnswerHolds ==
    ASSUME DomainsInv, NEW g \in Agents, NEW t \in Tenants, NEW b \in Bindings,
           NEW task \in {"approve", "reject", "revoke"}, AnswerAccess(g, t, b, task)
    PROVE  DomainsInv'
  <1>1. PICK s, h, c : s = bindings[b].site /\ h = bindings[b].hostname /\ c = access[b].claim
    OBVIOUS
  <1>2. /\ access[b] # Nowhere /\ bindings[b] # Nowhere
        /\ s \in Sites /\ h \in Hostnames
        /\ claims[c].tenant = t /\ claims[c].verified
    BY <1>1, BindingTyped DEF AnswerAccess, Bound, DomainsInv
  <1>3. c \in Above(h) /\ claims[c] # Nowhere /\ c \in Hostnames
    BY <1>1, <1>2, AboveIsHostname DEF DomainsInv, AccessIsAbove
  <1>4. Controls(t, h)
    <2>1. claims[c].trusted \/ <<t, c>> \in Zones
      BY <1>2, <1>3 DEF DomainsInv, VerifiedIsPublished
    <2> QED BY <1>2, <1>3, <2>1 DEF Controls
  <1>5. PICK p : p = IF task = "reject" THEN "commit" ELSE "names"
    OBVIOUS
  <1>6. PICK m : m = Binding(task, s, b)
    OBVIOUS
  <1>7. m \in Task /\ m.task = task /\ m.site = s /\ m.binding = b /\ m.names = {}
    BY <1>2, <1>6, BindingTask DEF Tasks
  <1>8. /\ Moved(g, p, m) /\ p \in Places
        /\ UNCHANGED <<claims, bindings, access, routed>>
        /\ answered' = IF task = "approve" THEN answered \union {<<b, t>>} ELSE answered
    BY <1>1, <1>5, <1>6 DEF AnswerAccess, Step, Moved, Places
  <1>9. Grows
    BY <1>8 DEF Grows
  <1>10. RowsRight'
    <2>1. RowTypes' /\ VerifiedIsPublished' /\ AccessIsAbove'
      BY <1>8 DEF DomainsInv, DomainTypes, RowTypes, VerifiedIsPublished, AccessIsAbove
    <2>2. AnsweredExists'
      BY <1>2, <1>8 DEF DomainsInv, AnsweredExists
    <2> QED BY <1>8, <1>9, <2>1, <2>2, LiveKept, RoutedKept DEF RowsRight
  <1>11. task = "approve" => Entitled(s, h)'
    <2> SUFFICES ASSUME task = "approve"
                 PROVE  Entitled(s, h)'
      OBVIOUS
    <2>1. <<b, t>> \in answered' /\ bindings'[b].site = s /\ bindings'[b].hostname = h
      BY <1>1, <1>8
    <2>2. Controls(t, h)'
      BY <1>2, <1>4, <1>9, ControlGrows
    <2>3. /\ bindings'[(<<b, t>>)[1]].site = s /\ bindings'[(<<b, t>>)[1]].hostname = h
          /\ Controls((<<b, t>>)[2], h)'
      BY <2>1, <2>2
    <2> QED BY <2>1, <2>3 DEF Entitled
  <1>12. AtEnd(m)'
    <2>1. /\ OfBinding(m)' /\ m.site \in Sites /\ bindings'[m.binding].hostname = h
          /\ access'[m.binding] # Nowhere
      BY <1>1, <1>2, <1>7, <1>8 DEF OfBinding
    <2>2. m.task \in {"verify", "approve"} => Entitled(m.site, h)'
      BY <1>7, <1>11
    <2>3. m.task \in {"verify", "approve"} => Entitled(m.site, bindings[m.binding].hostname)'
      BY <2>1, <2>2 DEF Entitled
    <2> QED BY <1>7, <2>1, <2>3 DEF AtEnd
  <1>13. TaskAt(p, m)'
    BY <1>5, <1>12 DEF TaskAt
  <1> QED BY <1>7, <1>8, <1>9, <1>10, <1>13, Conclude

LEMMA CreateClaimHolds ==
    ASSUME DomainsInv, NEW g \in Agents, CreateClaim(g)
    PROVE  DomainsInv'
  <1>1. PICK k : k = kept[g]
    OBVIOUS
  <1>2. PICK h : h = k.hostname
    OBVIOUS
  <1>3. PICK trusted \in BOOLEAN :
            /\ claims' = [claims EXCEPT ![h] = [tenant |-> k.tenant, verified |-> trusted, trusted |-> trusted]]
            /\ IF k.task = "register"
               THEN Done(g)
               ELSE /\ Step(g, "claim", "bind")
                    /\ kept' = [kept EXCEPT ![g].claim = h, ![g].direct = trusted]
    BY <1>1, <1>2 DEF CreateClaim
  <1>4. PICK row : row = [tenant |-> k.tenant, verified |-> trusted, trusted |-> trusted]
    OBVIOUS
  <1>5. /\ k \in Task /\ AtClaim(k)
        /\ claims[h] = Nowhere
        /\ UNCHANGED <<bindings, access, routed, answered>>
    BY <1>1, <1>2 DEF DomainsInv, DomainTypes, TasksHold, TaskHolds, TaskAt, CreateClaim
  <1>6. /\ h \in Hostnames /\ row \in ClaimRow /\ row # Nowhere
        /\ row.tenant = k.tenant /\ row.verified = trusted /\ row.trusted = trusted
    BY <1>2, <1>4, <1>5, NowhereAssumption DEF AtClaim, ClaimRow
  <1>7. /\ claims' \in [Hostnames -> ClaimRow \union {Nowhere}]
        /\ claims'[h] = row
        /\ \A d \in Hostnames \ {h} : claims'[d] = claims[d]
    BY <1>3, <1>4, <1>6 DEF DomainsInv, DomainTypes
  <1>8. Grows
    BY <1>5, <1>7 DEF Grows
  <1>9. RowsRight'
    <2>1. RowTypes' /\ AnsweredExists'
      BY <1>5, <1>7 DEF DomainsInv, DomainTypes, RowTypes, AnsweredExists
    <2>2. VerifiedIsPublished'
      BY <1>6, <1>7 DEF DomainsInv, VerifiedIsPublished
    <2>3. AccessIsAbove'
      <3> SUFFICES ASSUME NEW b \in Bindings, access[b] # Nowhere
                   PROVE  /\ bindings[b] # Nowhere
                          /\ access[b].claim \in Above(bindings[b].hostname)
                          /\ claims'[access[b].claim] # Nowhere
        BY <1>5 DEF AccessIsAbove
      <3>1. /\ bindings[b] # Nowhere /\ access[b].claim \in Above(bindings[b].hostname)
            /\ claims[access[b].claim] # Nowhere
        BY DEF DomainsInv, AccessIsAbove
      <3>2. access[b].claim \in Hostnames
        BY <3>1, BindingTyped, AboveIsHostname DEF DomainsInv
      <3> QED BY <1>8, <3>1, <3>2 DEF Grows
    <2> QED BY <1>5, <1>8, <2>1, <2>2, <2>3, LiveKept, RoutedKept DEF RowsRight
  <1>10. CASE k.task = "register"
    BY <1>1, <1>3, <1>8, <1>9, <1>10, DoneMoves, Conclude
  <1>11. CASE k.task # "register"
    <2>1. PICK m : m = [k EXCEPT !.claim = h, !.direct = trusted]
      OBVIOUS
    <2>2. /\ m \in Task /\ m.task = k.task /\ m.tenant = k.tenant /\ m.site = k.site
          /\ m.hostname = h /\ m.claim = h /\ m.direct = trusted
      BY <1>2, <1>5, <1>6, <2>1 DEF Task
    <2>3. Moved(g, "bind", m)
      BY <1>1, <1>3, <1>11, <2>1 DEF Moved, Step, DomainsInv, DomainTypes, Task
    <2>4. ForSite(m) /\ m.task = "add"
      BY <1>2, <1>5, <1>11, <2>2 DEF AtClaim, ForSite
    <2>5. h \in Above(h) /\ claims'[h] # Nowhere
      BY <1>6, <1>7, AboveIsHostname
    <2>6. m.direct => Controls(m.tenant, m.hostname)'
      BY <1>6, <1>7, <2>2, <2>5 DEF Controls
    <2>7. AtBind(m)'
      BY <2>2, <2>4, <2>5, <2>6 DEF AtBind, ForSite, Under
    <2>8. TaskAt("bind", m)'
      BY <2>7 DEF TaskAt
    <2> QED BY <1>8, <1>9, <2>2, <2>3, <2>8, Conclude DEF Places
  <1> QED BY <1>10, <1>11

LEMMA InsertHolds ==
    ASSUME DomainsInv, NEW g \in Agents, InsertBinding(g)
    PROVE  DomainsInv'
  <1>1. PICK k : k = kept[g]
    OBVIOUS
  <1>2. PICK b \in Bindings :
            /\ bindings[b] = Nowhere
            /\ bindings' = [bindings EXCEPT ![b] = [site |-> k.site, hostname |-> k.hostname,
                                                    live |-> k.direct, gone |-> FALSE]]
            /\ IF k.direct
               THEN Step(g, "bind", "names") /\ kept' = [kept EXCEPT ![g] = Binding("add", k.site, b)]
               ELSE IF claims[k.claim].tenant # k.tenant
               THEN Step(g, "bind", "request") /\ kept' = [kept EXCEPT ![g].binding = b]
               ELSE Done(g)
    BY <1>1 DEF InsertBinding
  <1>3. PICK row : row = [site |-> k.site, hostname |-> k.hostname, live |-> k.direct, gone |-> FALSE]
    OBVIOUS
  <1>4. /\ k \in Task /\ AtBind(k)
        /\ UNCHANGED <<claims, access, routed, answered>>
    BY <1>1 DEF DomainsInv, DomainTypes, TasksHold, TaskHolds, TaskAt, InsertBinding
  <1>5. /\ k.site \in Sites /\ k.hostname \in Hostnames /\ k.tenant = HomeOf[k.site]
        /\ k.direct \in BOOLEAN
    BY <1>4 DEF AtBind, ForSite, Task
  <1>6. /\ row \in BindingRow /\ row # Nowhere
        /\ row.site = k.site /\ row.hostname = k.hostname /\ row.live = k.direct
    <2>1. row \in BindingRow
      BY <1>3, <1>5 DEF BindingRow
    <2>2. row # Nowhere
      BY <2>1, NowhereAssumption
    <2> QED BY <1>3, <2>1, <2>2
  <1>7. /\ bindings' \in [Bindings -> BindingRow \union {Nowhere}]
        /\ bindings'[b] = row
        /\ \A d \in Bindings \ {b} : bindings'[d] = bindings[d]
    BY <1>2, <1>3, <1>6 DEF DomainsInv, DomainTypes
  <1>8. Grows
    BY <1>2, <1>4, <1>7 DEF Grows
  <1>9. RowsRight'
    <2>1. RowTypes' /\ VerifiedIsPublished'
      BY <1>4, <1>7 DEF DomainsInv, DomainTypes, RowTypes, VerifiedIsPublished
    <2>2. AccessIsAbove'
      <3> SUFFICES ASSUME NEW d \in Bindings, access[d] # Nowhere
                   PROVE  /\ bindings'[d] # Nowhere
                          /\ access[d].claim \in Above(bindings'[d].hostname)
                          /\ claims[access[d].claim] # Nowhere
        BY <1>4 DEF AccessIsAbove
      <3> QED BY <1>8 DEF Grows, DomainsInv, AccessIsAbove
    <2>3. AnsweredExists'
      BY <1>4, <1>8 DEF DomainsInv, DomainTypes, AnsweredExists, Grows
    <2>4. LiveIsEntitled'
      <3> SUFFICES ASSUME NEW d \in Bindings, bindings'[d] # Nowhere, bindings'[d].live,
                          NEW s, NEW h, s = bindings'[d].site, h = bindings'[d].hostname
                   PROVE  Entitled(s, h)'
        BY DEF LiveIsEntitled, Entitled
      <3>1. CASE d = b
        <4>1. Controls(HomeOf[s], h)
          BY <1>4, <1>5, <1>6, <1>7, <3>1 DEF AtBind
        <4>2. Controls(HomeOf[s], h)'
          BY <1>5, <1>6, <1>7, <1>8, <3>1, <4>1, ControlGrows
        <4> QED BY <4>2 DEF Entitled
      <3>2. CASE d # b
        <4>1. bindings[d] # Nowhere /\ bindings[d].live /\ s = bindings[d].site /\ h = bindings[d].hostname
          BY <1>7, <3>2
        <4> QED BY <1>8, <4>1, BindingTyped, EntitledGrows DEF DomainsInv, LiveIsEntitled
      <3> QED BY <3>1, <3>2
    <2> QED BY <1>4, <1>8, <2>1, <2>2, <2>3, <2>4, RoutedKept DEF RowsRight
  <1>10. CASE k.direct
    <2>1. PICK m : m = Binding("add", k.site, b)
      OBVIOUS
    <2>2. m \in Task /\ m.task = "add" /\ m.site = k.site /\ m.binding = b /\ m.names = {}
      BY <1>5, <2>1, BindingTask DEF Tasks
    <2>3. Moved(g, "names", m)
      BY <1>2, <1>10, <2>1 DEF Moved, Step
    <2>4. TaskAt("names", m)'
      BY <1>5, <1>6, <1>7, <2>2 DEF TaskAt, AtEnd, OfBinding
    <2> QED BY <1>8, <1>9, <2>2, <2>3, <2>4, Conclude DEF Places
  <1>11. CASE ~k.direct /\ claims[k.claim].tenant # k.tenant
    <2>1. PICK m : m = [k EXCEPT !.binding = b]
      OBVIOUS
    <2>2. b \in Nat
      BY DomainsAssumption DEF Bindings
    <2>3. m \in Task /\ m.claim = k.claim /\ m.binding = b
      BY <1>4, <2>1, <2>2 DEF Task
    <2>4. Moved(g, "request", m)
      BY <1>1, <1>2, <1>11, <2>1 DEF Moved, Step
    <2>5. TaskAt("request", m)'
      BY <1>4, <1>6, <1>7, <2>3 DEF TaskAt, AtRequest, AtBind, Under
    <2> QED BY <1>8, <1>9, <2>3, <2>4, <2>5, Conclude DEF Places
  <1>12. CASE ~k.direct /\ claims[k.claim].tenant = k.tenant
    BY <1>2, <1>8, <1>9, <1>12, DoneMoves, Conclude
  <1> QED BY <1>10, <1>11, <1>12

LEMMA RequestHolds ==
    ASSUME DomainsInv, NEW g \in Agents, RequestAccess(g)
    PROVE  DomainsInv'
  <1>1. PICK k : k = kept[g]
    OBVIOUS
  <1>2. PICK row : row = [claim |-> k.claim, status |-> "pending"]
    OBVIOUS
  <1>3. /\ AtRequest(k)
        /\ access' = [access EXCEPT ![k.binding] = row]
        /\ Done(g)
        /\ UNCHANGED <<claims, bindings, routed, answered>>
    BY <1>1, <1>2 DEF DomainsInv, TasksHold, TaskHolds, TaskAt, RequestAccess
  <1>4. /\ k.binding \in Bindings /\ bindings[k.binding] # Nowhere
        /\ k.claim \in Above(bindings[k.binding].hostname) /\ claims[k.claim] # Nowhere
        /\ k.claim \in Hostnames
    BY <1>3, BindingTyped, AboveIsHostname DEF AtRequest, Under, DomainsInv
  <1>5. row \in AccessRow /\ row # Nowhere /\ row.claim = k.claim
    BY <1>2, <1>4, NowhereAssumption DEF AccessRow
  <1>6. Grows
    BY <1>3, <1>4, <1>5 DEF Grows, DomainsInv, DomainTypes
  <1>7. RowTypes' /\ VerifiedIsPublished' /\ AnsweredExists'
    BY <1>3, <1>5 DEF DomainsInv, DomainTypes, RowTypes, VerifiedIsPublished, AnsweredExists
  <1>8. AccessIsAbove'
    BY <1>3, <1>4, <1>5 DEF DomainsInv, DomainTypes, AccessIsAbove
  <1>9. RowsRight'
    BY <1>3, <1>6, <1>7, <1>8, LiveKept, RoutedKept DEF RowsRight
  <1> QED BY <1>3, <1>6, <1>9, DoneMoves, Conclude

LEMMA ProveHolds ==
    ASSUME DomainsInv, NEW g \in Agents, ProveClaim(g)
    PROVE  DomainsInv'
  <1>1. PICK k : k = kept[g]
    OBVIOUS
  <1>2. /\ AtProve(k)
        /\ IF k.direct
           THEN UNCHANGED claims
           ELSE /\ <<k.tenant, k.claim>> \in Zones
                /\ claims' = [claims EXCEPT ![k.claim].verified = TRUE]
        /\ UNCHANGED <<bindings, access, routed, answered>>
    BY <1>1 DEF DomainsInv, TasksHold, TaskHolds, TaskAt, ProveClaim, Step
  <1>3. /\ k.site \in Sites /\ k.tenant = HomeOf[k.site] /\ k.hostname \in Hostnames
        /\ k.claim \in Above(k.hostname) /\ k.claim \in Hostnames
        /\ claims[k.claim] # Nowhere /\ claims[k.claim].tenant = k.tenant
        /\ claims[k.claim] \in ClaimRow
    BY <1>2, AboveIsHostname DEF AtProve, ForSite, Under, DomainsInv, DomainTypes
  <1>4. PICK row : row = IF k.direct THEN claims[k.claim] ELSE [claims[k.claim] EXCEPT !.verified = TRUE]
    OBVIOUS
  <1>5. /\ row \in ClaimRow /\ row # Nowhere
        /\ row.tenant = k.tenant /\ row.trusted = claims[k.claim].trusted
        /\ claims[k.claim].verified => row.verified
    BY <1>3, <1>4, NowhereAssumption DEF ClaimRow
  <1>6. /\ claims' \in [Hostnames -> ClaimRow \union {Nowhere}]
        /\ claims'[k.claim] = row
        /\ \A d \in Hostnames \ {k.claim} : claims'[d] = claims[d]
    BY <1>2, <1>3, <1>4, <1>5 DEF DomainsInv, DomainTypes
  <1>7. Grows
    BY <1>2, <1>3, <1>5, <1>6 DEF Grows
  <1>8. row.verified => row.trusted \/ <<k.tenant, k.claim>> \in Zones
    <2>1. CASE k.direct
      <3>1. claims[k.claim].verified
        BY <1>2, <2>1 DEF AtProve
      <3> QED BY <1>3, <1>5, <2>1, <3>1 DEF DomainsInv, VerifiedIsPublished
    <2>2. CASE ~k.direct
      BY <1>2, <2>2
    <2> QED BY <2>1, <2>2
  <1>9. RowsRight'
    <2>1. RowTypes' /\ AnsweredExists'
      BY <1>2, <1>6 DEF DomainsInv, DomainTypes, RowTypes, AnsweredExists
    <2>2. VerifiedIsPublished'
      BY <1>5, <1>6, <1>8 DEF DomainsInv, VerifiedIsPublished
    <2>3. AccessIsAbove'
      <3> SUFFICES ASSUME NEW b \in Bindings, access[b] # Nowhere
                   PROVE  /\ bindings[b] # Nowhere
                          /\ access[b].claim \in Above(bindings[b].hostname)
                          /\ claims'[access[b].claim] # Nowhere
        BY <1>2 DEF AccessIsAbove
      <3>1. /\ bindings[b] # Nowhere /\ access[b].claim \in Above(bindings[b].hostname)
            /\ claims[access[b].claim] # Nowhere
        BY DEF DomainsInv, AccessIsAbove
      <3>2. access[b].claim \in Hostnames
        BY <3>1, BindingTyped, AboveIsHostname DEF DomainsInv
      <3> QED BY <1>7, <3>1, <3>2 DEF Grows
    <2> QED BY <1>2, <1>7, <2>1, <2>2, <2>3, LiveKept, RoutedKept DEF RowsRight
  <1>10. Controls(k.tenant, k.hostname)
    <2>1. CASE k.direct
      BY <1>2, <1>3, <2>1 DEF AtProve, DomainsInv, VerifiedIsPublished, Controls
    <2>2. CASE ~k.direct
      BY <1>2, <1>3, <2>2 DEF Controls
    <2> QED BY <2>1, <2>2
  <1>11. PICK m : m = Binding("verify", k.site, k.binding)
    OBVIOUS
  <1>12. /\ k.binding \in Bindings /\ bindings[k.binding] # Nowhere
         /\ bindings[k.binding].site = k.site /\ bindings[k.binding].hostname = k.hostname
    BY <1>2 DEF AtProve, OfBinding
  <1>13. m \in Task /\ m.task = "verify" /\ m.site = k.site /\ m.binding = k.binding /\ m.names = {}
    BY <1>3, <1>11, <1>12, BindingTask DEF Tasks
  <1>14. Moved(g, "names", m)
    BY <1>1, <1>11 DEF ProveClaim, Step, Moved
  <1>15. Entitled(m.site, bindings[m.binding].hostname)'
    <2>1. Controls(HomeOf[k.site], k.hostname)'
      BY <1>3, <1>7, <1>10, ControlGrows
    <2>2. bindings'[m.binding].hostname = k.hostname
      BY <1>2, <1>12, <1>13
    <2> QED BY <1>13, <2>1, <2>2 DEF Entitled
  <1>16. TaskAt("names", m)'
    BY <1>2, <1>3, <1>12, <1>13, <1>15 DEF TaskAt, AtEnd, OfBinding
  <1> QED BY <1>7, <1>9, <1>13, <1>14, <1>16, Conclude DEF Places

LEMMA SynchronizeHolds ==
    ASSUME DomainsInv, NEW g \in Agents, Synchronize(g)
    PROVE  DomainsInv'
  <1>1. PICK k : k = kept[g]
    OBVIOUS
  <1>2. /\ k \in Task /\ AtEnd(k)
        /\ routed' \in {routed, [routed EXCEPT ![k.site] = k.names]}
        /\ UNCHANGED <<claims, bindings, access, answered>>
    BY <1>1 DEF DomainsInv, DomainTypes, TasksHold, TaskHolds, TaskAt, Synchronize
  <1>3. k.site \in Sites /\ k.names \subseteq Hostnames /\ \A h \in k.names : Entitled(k.site, h)
    BY <1>2 DEF AtEnd, Task
  <1>4. Grows
    BY <1>2 DEF Grows
  <1>5. RowsRight'
    <2>1. RowTypes' /\ VerifiedIsPublished' /\ AccessIsAbove' /\ AnsweredExists'
      BY <1>2, <1>3 DEF DomainsInv, DomainTypes, RowTypes, VerifiedIsPublished, AccessIsAbove, AnsweredExists
    <2>2. RoutedIsEntitled'
      <3> SUFFICES ASSUME NEW s \in Sites, NEW h \in routed'[s]
                   PROVE  Entitled(s, h)'
        BY DEF RoutedIsEntitled
      <3>1. h \in Hostnames /\ Entitled(s, h)
        <4>1. CASE h \in routed[s]
          BY <4>1 DEF DomainsInv, DomainTypes, RoutedIsEntitled
        <4>2. CASE h \notin routed[s]
          <5>1. s = k.site /\ h \in k.names
            BY <1>2, <4>2 DEF DomainsInv, DomainTypes
          <5> QED BY <1>3, <5>1
        <4> QED BY <4>1, <4>2
      <3> QED BY <1>4, <3>1, EntitledGrows DEF DomainsInv
    <2> QED BY <1>2, <1>4, <2>1, <2>2, LiveKept DEF RowsRight
  <1>6. CASE k.task = "add"
    BY <1>1, <1>4, <1>5, <1>6, DoneMoves, Conclude DEF Synchronize
  <1>7. CASE k.task # "add"
    <2>1. PICK m : m = [k EXCEPT !.names = {}]
      OBVIOUS
    <2>2. m \in Task /\ m.task = k.task /\ m.site = k.site /\ m.binding = k.binding /\ m.names = {}
      BY <1>2, <2>1 DEF Task
    <2>3. Moved(g, "commit", m)
      BY <1>1, <1>7, <2>1 DEF Synchronize, Step, Moved
    <2>4. OfBinding(m)' /\ bindings'[m.binding].hostname = bindings[k.binding].hostname
      BY <1>2, <2>2 DEF AtEnd, OfBinding
    <2>5. m.task \in {"verify", "approve"} => Entitled(m.site, bindings[m.binding].hostname)'
      <3> SUFFICES ASSUME m.task \in {"verify", "approve"},
                          NEW h, h = bindings[k.binding].hostname
                   PROVE  Entitled(m.site, h)'
        BY <2>4 DEF Entitled
      <3>1. h \in Hostnames /\ Entitled(k.site, h)
        BY <1>2, <2>2, BindingTyped DEF AtEnd, OfBinding, DomainsInv
      <3> QED BY <1>3, <1>4, <2>2, <3>1, EntitledGrows DEF DomainsInv
    <2>6. TaskAt("commit", m)'
      BY <1>2, <2>2, <2>4, <2>5 DEF TaskAt, AtEnd, OfBinding
    <2> QED BY <1>4, <1>5, <2>2, <2>3, <2>6, Conclude DEF Places
  <1> QED BY <1>6, <1>7

LEMMA CommitHolds ==
    ASSUME DomainsInv, NEW g \in Agents, CommitDomain(g)
    PROVE  DomainsInv'
  <1>1. PICK k : k = kept[g]
    OBVIOUS
  <1>2. PICK b : b = k.binding
    OBVIOUS
  <1>3. PICK row : row = [site     |-> bindings[b].site,
                          hostname |-> bindings[b].hostname,
                          live     |-> IF k.task = "reject" THEN bindings[b].live ELSE k.task \in {"verify", "approve"},
                          gone     |-> bindings[b].gone \/ k.task = "remove"]
    OBVIOUS
  <1>4. /\ k \in Task /\ AtEnd(k)
        /\ Done(g)
        /\ UNCHANGED <<claims, routed, answered>>
        /\ bindings' = [bindings EXCEPT ![b] = row]
    BY <1>1, <1>2, <1>3 DEF DomainsInv, DomainTypes, TasksHold, TaskHolds, TaskAt, CommitDomain
  <1>5. /\ b \in Bindings /\ bindings[b] # Nowhere /\ bindings[b] \in BindingRow
        /\ k.task \in {"verify", "approve"} => Entitled(bindings[b].site, bindings[b].hostname)
    BY <1>2, <1>4 DEF AtEnd, OfBinding, DomainsInv, DomainTypes
  <1>6. /\ row \in BindingRow /\ row # Nowhere
        /\ row.site = bindings[b].site /\ row.hostname = bindings[b].hostname
        /\ row.live => bindings[b].live \/ k.task \in {"verify", "approve"}
    <2>1. /\ bindings[b].site \in Sites /\ bindings[b].hostname \in Hostnames
          /\ bindings[b].live \in BOOLEAN /\ bindings[b].gone \in BOOLEAN
      BY <1>5 DEF BindingRow
    <2>2. row \in BindingRow
      <3>1. PICK live : live = IF k.task = "reject" THEN bindings[b].live ELSE k.task \in {"verify", "approve"}
        OBVIOUS
      <3>2. PICK gone : gone = (bindings[b].gone \/ k.task = "remove")
        OBVIOUS
      <3>3. live \in BOOLEAN
        <4>1. CASE k.task = "reject"
          BY <2>1, <3>1, <4>1
        <4>2. CASE k.task # "reject"
          <5>1. live = (k.task \in {"verify", "approve"})
            BY <3>1, <4>2
          <5> QED BY <5>1
        <4> QED BY <4>1, <4>2
      <3>4. gone \in BOOLEAN
        BY <3>2
      <3>5. row = [site |-> bindings[b].site, hostname |-> bindings[b].hostname, live |-> live, gone |-> gone]
        BY <1>3, <3>1, <3>2
      <3> QED BY <2>1, <3>3, <3>4, <3>5 DEF BindingRow
    <2>3. row # Nowhere
      BY <2>2, NowhereAssumption
    <2> QED BY <1>3, <2>2, <2>3
  <1>7. /\ bindings' \in [Bindings -> BindingRow \union {Nowhere}]
        /\ bindings'[b] = row
        /\ \A d \in Bindings \ {b} : bindings'[d] = bindings[d]
    BY <1>4, <1>5, <1>6 DEF DomainsInv, DomainTypes
  <1>8. bindings[b].site \in Sites /\ bindings[b].hostname \in Hostnames
    BY <1>5 DEF BindingRow
  <1>9. /\ access' \in [Bindings -> AccessRow \union {Nowhere}]
        /\ \A d \in Bindings : access'[d] # Nowhere =>
             access[d] # Nowhere /\ access'[d].claim = access[d].claim
        /\ \A d \in Bindings : access[d] # Nowhere => access'[d] # Nowhere
    <2>1. CASE k.task \in {"approve", "reject", "revoke"}
      <3>1. PICK status : status = CASE k.task = "approve" -> "approved"
                                     [] k.task = "reject"  -> "rejected"
                                     [] k.task = "revoke"  -> "revoked"
        OBVIOUS
      <3>2. status \in {"approved", "rejected", "revoked"}
        BY <2>1, <3>1
      <3>3. PICK q : q = [access[b] EXCEPT !.status = status]
        OBVIOUS
      <3>4. access[b] \in AccessRow /\ access[b] # Nowhere
        BY <1>2, <1>4, <1>5, <2>1 DEF AtEnd, DomainsInv, DomainTypes
      <3>5. access' = [access EXCEPT ![b] = q]
        BY <1>1, <1>2, <2>1, <3>1, <3>3 DEF CommitDomain
      <3>6. q \in AccessRow /\ q # Nowhere /\ q.claim = access[b].claim
        BY <3>2, <3>3, <3>4, NowhereAssumption DEF AccessRow
      <3> QED BY <1>5, <3>4, <3>5, <3>6 DEF DomainsInv, DomainTypes
    <2>2. CASE k.task \notin {"approve", "reject", "revoke"}
      BY <1>1, <2>2 DEF CommitDomain, DomainsInv, DomainTypes
    <2> QED BY <2>1, <2>2
  <1>10. Grows
    BY <1>4, <1>6, <1>7, <1>9 DEF Grows
  <1>11. RowsRight'
    <2>1. RowTypes' /\ VerifiedIsPublished' /\ AnsweredExists'
      BY <1>4, <1>7, <1>9, <1>10 DEF DomainsInv, DomainTypes, RowTypes, VerifiedIsPublished, AnsweredExists, Grows
    <2>2. AccessIsAbove'
      <3> SUFFICES ASSUME NEW d \in Bindings, access'[d] # Nowhere
                   PROVE  /\ bindings'[d] # Nowhere
                          /\ access'[d].claim \in Above(bindings'[d].hostname)
                          /\ claims[access'[d].claim] # Nowhere
        BY <1>4 DEF AccessIsAbove
      <3>1. access[d] # Nowhere /\ access'[d].claim = access[d].claim
        BY <1>9
      <3> QED BY <1>10, <3>1 DEF Grows, DomainsInv, AccessIsAbove
    <2>3. LiveIsEntitled'
      <3> SUFFICES ASSUME NEW d \in Bindings, bindings'[d] # Nowhere, bindings'[d].live,
                          NEW s, NEW h, s = bindings'[d].site, h = bindings'[d].hostname
                   PROVE  Entitled(s, h)'
        BY DEF LiveIsEntitled, Entitled
      <3>1. /\ bindings[d] # Nowhere /\ s = bindings[d].site /\ h = bindings[d].hostname
            /\ bindings[d].live \/ (d = b /\ k.task \in {"verify", "approve"})
        BY <1>5, <1>6, <1>7
      <3>2. Entitled(s, h)
        BY <1>5, <3>1 DEF DomainsInv, LiveIsEntitled
      <3> QED BY <1>10, <3>1, <3>2, BindingTyped, EntitledGrows DEF DomainsInv
    <2> QED BY <1>4, <1>10, <2>1, <2>2, <2>3, RoutedKept DEF RowsRight
  <1> QED BY <1>4, <1>10, <1>11, DoneMoves, Conclude

-----------------------------------------------------------------------------
(* The theorem                                                             *)

LEMMA DomainsInitHolds == DomainsInit => DomainsInv
  <1> SUFFICES ASSUME DomainsInit
               PROVE  DomainsInv
    OBVIOUS
  <1>1. /\ \A h \in Hostnames : claims[h] = Nowhere
        /\ \A b \in Bindings : bindings[b] = Nowhere /\ access[b] = Nowhere
        /\ \A s \in Sites : routed[s] = {}
        /\ answered = {}
        /\ \A g \in Agents : doing[g] = "idle" /\ kept[g] = NoTask
    BY DEF DomainsInit
  <1>2. DomainTypes
    BY NoTaskTyped DEF DomainsInit, DomainTypes, Places
  <1>3. VerifiedIsPublished /\ AccessIsAbove /\ AnsweredExists /\ LiveIsEntitled /\ RoutedIsEntitled
    BY <1>1 DEF VerifiedIsPublished, AccessIsAbove, AnsweredExists, LiveIsEntitled, RoutedIsEntitled
  <1>4. TasksHold
    BY <1>1, NoTaskTyped DEF TasksHold, TaskHolds
  <1> QED BY <1>2, <1>3, <1>4 DEF DomainsInv

LEMMA DomainsStep ==
    ASSUME DomainsInv, [DomainsNext]_domainVars
    PROVE  DomainsInv'
  <1>1. CASE DomainsNext
    <2>1. PICK g \in Agents :
            \/ \E t \in Tenants, h \in Hostnames : RegisterOwnership(g, t, h)
            \/ \E s \in Sites, h \in Hostnames : AddDomain(g, s, h)
            \/ \E b \in Bindings : VerifyDomain(g, b) \/ RemoveDomain(g, b)
            \/ \E t \in Tenants, b \in Bindings, task \in {"approve", "reject", "revoke"} :
                    AnswerAccess(g, t, b, task)
            \/ ReadOwner(g) \/ ReadClaim(g) \/ CreateClaim(g) \/ InsertBinding(g) \/ RequestAccess(g)
            \/ ProveClaim(g) \/ ReadHostnames(g) \/ Synchronize(g) \/ CommitDomain(g) \/ GiveUpDomain(g)
      BY <1>1 DEF DomainsNext
    <2> QED
      BY <2>1, RegisterHolds, AddHolds, VerifyHolds, RemoveHolds, AnswerHolds, ReadOwnerHolds, ReadClaimHolds,
         CreateClaimHolds, InsertHolds, RequestHolds, ProveHolds, ReadHostnamesHolds, SynchronizeHolds,
         CommitHolds, GiveUpDomainHolds
  <1>2. CASE UNCHANGED domainVars
    <2>1. UNCHANGED Rows /\ UNCHANGED <<doing, kept>>
      BY <1>2 DEF domainVars, Rows
    <2>2. Grows /\ RowsRight'
      BY <2>1, RowsStay
    <2>3. TasksHold'
      BY <2>1, <2>2, TaskStays DEF TasksHold
    <2> QED BY <2>1, <2>2, <2>3 DEF RowsRight, RowTypes, DomainsInv, DomainTypes
  <1> QED BY <1>1, <1>2

\* Whatever requests interleave, fail or are answered late: the provider routes
\* to an application only hostnames that its workspace controls or that a
\* workspace that does has approved.
THEOREM RoutedIsAlwaysEntitled == DomainsSpec => []RoutedIsEntitled
  <1>1. DomainsInv => RoutedIsEntitled
    BY DEF DomainsInv
  <1> QED BY <1>1, DomainsInitHolds, DomainsStep, PTL DEF DomainsSpec
===============================================================================
