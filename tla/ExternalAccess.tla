---------------------------- MODULE ExternalAccess ----------------------------
(***************************************************************************)
(* The public gateway of logical databases: rules that customers save and  *)
(* revoke, ports that are allocated under an advisory lock, expiry, and    *)
(* the host agent that applies the rules and acknowledges them.            *)
(*                                                                         *)
(* A request reads the present rule before the transaction that saves it.  *)
(* The agent is a oneshot service: it fetches the rules, reconciles the    *)
(* listeners, then the firewall, then posts a result for each rule.  A     *)
(* post may arrive after the agent has given up waiting for its answer.    *)
(***************************************************************************)
EXTENDS Naturals, FiniteSets

CONSTANTS
    Hosted,     \* logical databases
    Ports,      \* the range of gateway ports
    Policies,   \* allow-lists with expiry; revision is a hash of one
    Savers,     \* requests served at one time
    MaxRules,   \* bound: rows of database_external_access_rules
    MaxPosted,  \* bound: results in flight
    NoRule

ASSUME GatewayAssumption ==
    /\ Ports \subseteq Nat
    /\ MaxRules \in Nat /\ MaxPosted \in Nat
    /\ NoRule \notin 1..MaxRules

Rules == 1..MaxRules

VARIABLES
    rule,       \* rows of database_external_access_rules
    expired,    \* rules whose expiresAt has passed
    request,    \* what each request does and has read
    agent,      \* where the host agent stands
    fetched,    \* the targets of its run: <<rule, revision, no error so far>>
    results,    \* posted and not yet recorded: <<rule, revision, success>>
    listening,  \* rules with a running listener unit
    allowed,    \* <<rule, revision>> in the firewall chain
    applied     \* history: every <<rule, revision>> the agent has applied

gatewayVars == <<rule, expired, request, agent, fetched, results, listening, allowed, applied>>
panel == <<rule, expired, request>>
host == <<agent, fetched, listening, allowed, applied>>

Absent == [db |-> NoRule, port |-> 0, status |-> "none", revision |-> NoRule, deleted |-> FALSE]
Waiting == [step |-> "idle", db |-> NoRule, policy |-> NoRule, existing |-> NoRule, port |-> 0]

GatewayInit ==
    /\ rule = [i \in Rules |-> Absent]
    /\ expired = {}
    /\ request = [q \in Savers |-> Waiting]
    /\ agent = "idle"
    /\ fetched = {}
    /\ results = {}
    /\ listening = {}
    /\ allowed = {}
    /\ applied = {}

Inserted(i) == rule[i].status # "none"
Present(i) == Inserted(i) /\ ~rule[i].deleted /\ rule[i].status # "revoked"
Taken(p) == \E i \in Rules : Present(i) /\ rule[i].port = p

-----------------------------------------------------------------------------
(* externalAccess and revokeExternalAccess                                 *)

ReadRule(q, d, p) ==
    /\ request[q].step = "idle"
    /\ LET present == {i \in Rules : Present(i) /\ rule[i].db = d} IN
       \E e \in IF present = {} THEN {NoRule} ELSE present :
          request' = [request EXCEPT ![q] = [step |-> "read", db |-> d, policy |-> p,
                                             existing |-> e, port |-> 0]]
    /\ UNCHANGED <<rule, expired, host, results>>

HoldsPorts(q) == request[q].step \in {"locked", "found"}

\* A wrong version: without the lock.
LockPortsIgnored(q) ==
    /\ request[q].step = "read"
    /\ request' = [request EXCEPT ![q].step = "locked"]
    /\ UNCHANGED <<rule, expired, host, results>>

\* pg_advisory_xact_lock('database-external-access-port').
LockPorts(q) ==
    /\ request[q].step = "read"
    /\ \A s \in Savers : ~HoldsPorts(s)
    /\ request' = [request EXCEPT ![q].step = "locked"]
    /\ UNCHANGED <<rule, expired, host, results>>

\* The rule read before the lock is updated by its id, whatever it is by now.  An
\* input without an expiry leaves the row's.
UpdateRule(q) ==
    LET i == request[q].existing IN
    /\ request[q].step = "locked"
    /\ i # NoRule
    /\ rule' = [rule EXCEPT ![i].status = "pending", ![i].revision = request[q].policy]
    /\ expired' \in {expired, expired \ {i}}
    /\ request' = [request EXCEPT ![q] = Waiting]
    /\ UNCHANGED <<host, results>>

FindPort(q) ==
    /\ request[q].step = "locked"
    /\ request[q].existing = NoRule
    /\ \E p \in Ports :
        /\ ~Taken(p)
        /\ \A o \in Ports : o < p => Taken(o)
        /\ request' = [request EXCEPT ![q].step = "found", ![q].port = p]
    /\ UNCHANGED <<rule, expired, host, results>>

\* A port and a database have one present rule each: unique indexes.
InsertRule(q) ==
    LET db == request[q].db
        port == request[q].port
    IN
    /\ request[q].step = "found"
    /\ IF Taken(port)
       THEN /\ request' = [request EXCEPT ![q].step = "port conflict"]
            /\ UNCHANGED <<rule, expired>>
       ELSE /\ \A i \in Rules : Present(i) => rule[i].db # db
            /\ \E i \in {j \in Rules : ~Inserted(j) /\ \A k \in 1..(j - 1) : Inserted(k)} :
                 rule' = [rule EXCEPT ![i] = [db |-> db, port |-> port, status |-> "pending",
                                              revision |-> request[q].policy, deleted |-> FALSE]]
            /\ request' = [request EXCEPT ![q] = Waiting]
            /\ UNCHANGED expired
    /\ UNCHANGED <<host, results>>

\* No port is free, the database has a rule by now, or a query fails.
AbortSave(q) ==
    /\ request[q].step # "idle"
    /\ request' = [request EXCEPT ![q] = Waiting]
    /\ UNCHANGED <<rule, expired, host, results>>

\* A customer disables the rule, or the database moves to another workspace.
Revoke(i) ==
    /\ Present(i)
    /\ rule' = [rule EXCEPT ![i].status = "revoked", ![i].deleted = TRUE]
    /\ UNCHANGED <<expired, request, host, results>>

\* The time of expiresAt comes.
Elapse(i) ==
    /\ Present(i)
    /\ expired' = expired \union {i}
    /\ UNCHANGED <<rule, request, host, results>>

-----------------------------------------------------------------------------
(* The agent                                                               *)

Serviced(i) == Inserted(i) /\ ~rule[i].deleted /\ rule[i].status \in {"pending", "active", "failed"}

\* A wrong version: expired rules are served until their owner revokes them.
FetchUnexpiring ==
    /\ agent = "idle"
    /\ fetched' = {<<i, rule[i].revision, TRUE>> : i \in {j \in Rules : Serviced(j)}}
    /\ agent' = "listeners"
    /\ UNCHANGED <<panel, results, listening, allowed, applied>>

\* databaseExternalAccessConfig: expired rules are revoked, the others returned.
Fetch ==
    LET over == {i \in Rules : Serviced(i)} \intersect expired IN
    /\ agent = "idle"
    /\ rule' = [i \in Rules |-> IF i \in over
                                THEN [rule[i] EXCEPT !.status = "revoked", !.deleted = TRUE]
                                ELSE rule[i]]
    /\ fetched' = {<<i, rule[i].revision, TRUE>> : i \in {j \in Rules : Serviced(j)} \ over}
    /\ agent' = "listeners"
    /\ UNCHANGED <<expired, request, results, listening, allowed, applied>>

Targets == {t[1] : t \in fetched}

\* A wrong version: units of rules that are no longer targets are kept.
ReconcileUnitsKeeping ==
    /\ agent = "listeners"
    /\ \E failing \in SUBSET Targets :
        /\ \E down \in SUBSET failing : listening' = (listening \union Targets) \ down
        /\ fetched' = {<<t[1], t[2], t[1] \notin failing>> : t \in fetched}
    /\ agent' = "firewall"
    /\ UNCHANGED <<panel, results, allowed, applied>>

\* reconcile_units: a unit for each target and no other.  A target that fails
\* may have its unit or not; the result of each is kept until main() posts it.
ReconcileUnits ==
    /\ agent = "listeners"
    /\ \E failing \in SUBSET Targets :
        /\ \E down \in SUBSET failing : listening' = Targets \ down
        /\ fetched' = {<<t[1], t[2], t[1] \notin failing>> : t \in fetched}
    /\ agent' = "firewall"
    /\ UNCHANGED <<panel, results, allowed, applied>>

\* reconcile_firewall flushes the chain and fills it, for all targets.
ReconcileFirewall ==
    /\ agent = "firewall"
    /\ allowed' = {<<t[1], t[2]>> : t \in fetched}
    /\ applied' = applied \union {<<t[1], t[2]>> : t \in {u \in fetched : u[3]}}
    /\ agent' = "acknowledge"
    /\ UNCHANGED <<panel, fetched, results, listening>>

\* The agent posts and ends, with or without an answer.  What is not recorded
\* later is lost.
Post ==
    /\ agent = "acknowledge"
    /\ \E recorded \in SUBSET fetched :
        /\ Cardinality(results \union recorded) <= MaxPosted
        /\ results' = results \union recorded
    /\ agent' = "idle"
    /\ fetched' = {}
    /\ UNCHANGED <<panel, listening, allowed, applied>>

\* A command fails or the host restarts: nothing more of this run is posted.
AgentDies ==
    /\ agent # "idle"
    /\ agent' = "idle"
    /\ fetched' = {}
    /\ UNCHANGED <<panel, results, listening, allowed, applied>>

\* A wrong version: the rule's present revision is not compared.
AcknowledgeAny(s) ==
    /\ s \in results
    /\ rule' = IF rule[s[1]].deleted THEN rule
               ELSE [rule EXCEPT ![s[1]].status = IF s[3] THEN "active" ELSE "failed"]
    /\ results' = results \ {s}
    /\ UNCHANGED <<expired, request, host>>

\* acknowledgeDatabaseExternalAccess, one update for each result.
Acknowledge(s) ==
    /\ s \in results
    /\ rule' = IF rule[s[1]].deleted \/ rule[s[1]].revision # s[2] THEN rule
               ELSE [rule EXCEPT ![s[1]].status = IF s[3] THEN "active" ELSE "failed"]
    /\ results' = results \ {s}
    /\ UNCHANGED <<expired, request, host>>

-----------------------------------------------------------------------------
Save ==
    \/ \E q \in Savers :
        \/ \E d \in Hosted, p \in Policies : ReadRule(q, d, p)
        \/ LockPorts(q)
        \/ UpdateRule(q)
        \/ FindPort(q)
        \/ InsertRule(q)
        \/ AbortSave(q)
    \/ \E i \in Rules : Revoke(i)

Agent ==
    \/ Fetch
    \/ ReconcileUnits
    \/ ReconcileFirewall
    \/ Post
    \/ AgentDies
    \/ \E s \in results : Acknowledge(s)

GatewayNext == Save \/ Agent \/ \E i \in Rules : Elapse(i)

\* The timer starts the agent each minute.  A run may fail, but not every run
\* at the same step for ever.
GatewayFairness ==
    /\ WF_gatewayVars(Post)
    /\ SF_gatewayVars(Fetch)
    /\ SF_gatewayVars(ReconcileUnits)
    /\ SF_gatewayVars(ReconcileFirewall)

GatewaySpec == GatewayInit /\ [][GatewayNext]_gatewayVars /\ GatewayFairness

-----------------------------------------------------------------------------
\* "stale acknowledgements cannot activate new policy" (the comment of
\* acknowledgeDatabaseExternalAccess): an active rule's present revision is one
\* that the agent has applied to that rule, however late its result arrives.
ActiveWasApplied ==
    \A i \in Rules : rule[i].status = "active" => <<i, rule[i].revision>> \in applied

\* First rules saved at once never meet at the unique index of the ports: the
\* lock covers the search and the insert, and both ignore the same rules.
PortsNeverConflict == \A q \in Savers : request[q].step # "port conflict"

\* A rule that was revoked or has expired is closed at the host for good,
\* whatever the agent was applying then and however often its runs fail.
ClosedForGood ==
    \A i \in Rules :
        (rule[i].deleted ~> [](i \notin listening /\ i \notin {a[1] : a \in allowed}))

\* A rule whose time has come does not stay: it is revoked, or extended.
ExpiryIsKept ==
    \A i \in Rules : (i \in expired ~> (rule[i].deleted \/ i \notin expired))
===============================================================================
