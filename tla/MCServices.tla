------------------------------ MODULE MCServices ------------------------------
(***************************************************************************)
(* Small instances, for TLC, of the quota, the life of logical databases on *)
(* a cluster, their transfer jobs, their grants, their public gateway and   *)
(* the deployment of the panel itself.  They share no row that these        *)
(* modules write: a behaviour exercises one of them, and of the gateway     *)
(* either the allocation of ports or the agent, fully interleaved.          *)
(***************************************************************************)
EXTENDS Quota, LogicalDatabases, Transfers, ExternalAccess, DatabaseGrants, PlatformDeployments, TLC

CONSTANT Parts      \* the parts exercised
VARIABLE focus

allVars == <<quotaVars, databaseVars, transferVars, gatewayVars, grantVars, panelVars, focus>>

ASSUME Parts \subseteq {"applications", "moves", "databases", "transfers", "ports", "agent", "grants", "panel"}

MCInit ==
    /\ QuotaInit /\ DatabasesInit /\ TransfersInit /\ GatewayInit
    /\ GrantsInit /\ PanelInit
    /\ focus \in Parts

\* The requests for some codes: those for applications and those for databases
\* reserve nothing of each other; only the connections are shared.
Apps == "applications.count"
Domains == "domains.count"
DatabaseCount == "databases.count"

QuotaPart(S) ==
    /\ QuotaNext
    /\ \A q \in Creators : plan'[q] # <<>> => Head(plan'[q]).code \in S

\* One request at a time, for one database and its first rule, while the agent
\* works.
OneOf(S) == CHOOSE x \in S : TRUE
AgentNext ==
    \/ Agent
    \/ \E q \in {OneOf(Savers)} :
        \/ \E p \in Policies : ReadRule(q, OneOf(Hosted), p)
        \/ LockPorts(q) \/ UpdateRule(q) \/ FindPort(q)
        \/ InsertRule(q) /\ \A i \in Rules : ~Inserted(i)
    \/ \E i \in Rules : Revoke(i) \/ Elapse(i)

\* One database is deleted in the end: a deleted row is never used again.
DatabasesPart == DatabasesNext /\ Cardinality(doomed') <= 1

\* Every request is for the first login; the others are made, with a grant that
\* expires.
GrantsPart ==
    /\ GrantsNext
    /\ \A q \in Askers :
        \/ ask'[q].login \in {OneOf(Logins), NoGrant}
        \/ ask'[q].fresh /\ ask'[q].expires = "later"

\* One administrator deploys, everyone looks; what the provider builds succeeds
\* (that it failed or was cancelled would tell no more).
PanelPart ==
    /\ PanelNext
    /\ \A v \in Visitors : visit'[v] = "insert" => v = OneOf(Visitors)
    /\ \A n \in Releases : built'[n] \notin {"failed", "cancelled"}

Only(part, A, others) == focus = part /\ A /\ UNCHANGED others

MCNext ==
    /\ UNCHANGED focus
    /\ \/ Only("applications", QuotaPart({Apps, Domains}),
               <<databaseVars, transferVars, gatewayVars, grantVars, panelVars>>)
       \/ Only("moves", QuotaPart({DatabaseCount}),
               <<databaseVars, transferVars, gatewayVars, grantVars, panelVars>>)
       \/ Only("databases", DatabasesPart, <<quotaVars, transferVars, gatewayVars, grantVars, panelVars>>)
       \/ Only("transfers", TransfersNext, <<quotaVars, databaseVars, gatewayVars, grantVars, panelVars>>)
       \/ Only("ports", Save, <<quotaVars, databaseVars, transferVars, grantVars, panelVars>>)
       \/ Only("agent", AgentNext, <<quotaVars, databaseVars, transferVars, grantVars, panelVars>>)
       \/ Only("grants", GrantsPart, <<quotaVars, databaseVars, transferVars, gatewayVars, panelVars>>)
       \/ Only("panel", PanelPart, <<quotaVars, databaseVars, transferVars, gatewayVars, grantVars>>)

\* The fairness of the module that is exercised; that of the gateway's agent.
MCFairness ==
    \/ focus \in {"databases", "ports"}
    \/ focus \in {"applications", "moves"} /\ QuotaFairness
    \/ focus = "transfers" /\ TransfersFairness
    \/ focus = "agent" /\ GatewayFairness
    \/ focus = "grants" /\ GrantsFairness
    \/ focus = "panel" /\ PanelFairness

MCSpec == MCInit /\ [][MCNext]_allVars /\ MCFairness

\* Applications with no or two domains and databases, under limits that one
\* request reaches; or applications alone.
AllCodes == {Apps, Domains, DatabaseCount}
Of(c, n) == [code |-> c, quantity |-> n]
AllPlans == {<<Of(Apps, 1)>>, <<Of(Apps, 1), Of(Domains, 2)>>, <<Of(DatabaseCount, 1)>>}
FewEach == [c \in AllCodes |-> IF c = Domains THEN 2 ELSE 1]
OneCode == {Apps}
AppPlan == {<<Of(Apps, 1)>>}
OneApp == [c \in OneCode |-> 1]

\* Nothing tells two requests, or two names, apart.
Interchangeable == Permutations(Creators) \union Permutations(Names)
===============================================================================
