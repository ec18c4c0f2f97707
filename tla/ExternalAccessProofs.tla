-------------------------- MODULE ExternalAccessProofs --------------------------
(***************************************************************************)
(* For every set of databases, ports, policies and requests: two saves     *)
(* never meet at the index of the ports, and a rule is only shown active   *)
(* under a policy that the agent has applied to it.                        *)
(***************************************************************************)
EXTENDS ExternalAccess, TLAPS

Statuses == {"none", "pending", "active", "failed", "revoked"}
RequestSteps == {"idle", "read", "locked", "found", "port conflict"}

RuleRow == [db : Hosted \union {NoRule}, port : Ports \union {0}, status : Statuses,
            revision : Policies \union {NoRule}, deleted : BOOLEAN]
RequestRow == [step : RequestSteps, db : Hosted \union {NoRule}, policy : Policies \union {NoRule},
               existing : Rules \union {NoRule}, port : Ports \union {0}]
Result == Rules \X (Policies \union {NoRule}) \X BOOLEAN

GatewayTypes ==
    /\ rule \in [Rules -> RuleRow]
    /\ request \in [Savers -> RequestRow]
    /\ fetched \in SUBSET Result
    /\ results \in SUBSET Result

\* Revoking deletes the row; nothing makes it present again.
RevokedIsDeleted == \A i \in Rules : rule[i].status = "revoked" => rule[i].deleted

\* A rule that a request has read exists; rows are never removed.
ReadIsInserted ==
    \A q \in Savers : request[q].existing # NoRule => Inserted(request[q].existing)

\* The advisory lock of the ports has one holder, and what that one has found
\* free is still free.
OneHolder == \A q, s \in Savers : HoldsPorts(q) /\ HoldsPorts(s) => q = s
FoundIsFree == \A q \in Savers : request[q].step = "found" => ~Taken(request[q].port)

\* What the agent works on and reports are rules that exist.
TargetsAreInserted == \A t \in fetched \union results : Inserted(t[1])

\* A result of success names a policy that has been applied, in the agent's
\* memory as in flight.
ResultsWereApplied == \A s \in results : s[3] => <<s[1], s[2]>> \in applied
FetchedWereApplied == agent = "acknowledge" => \A t \in fetched : t[3] => <<t[1], t[2]>> \in applied

GatewayInv ==
    /\ GatewayTypes
    /\ RevokedIsDeleted
    /\ ReadIsInserted
    /\ OneHolder
    /\ FoundIsFree
    /\ PortsNeverConflict
    /\ TargetsAreInserted
    /\ ResultsWereApplied
    /\ FetchedWereApplied
    /\ ActiveWasApplied

-----------------------------------------------------------------------------
LEMMA GatewayInitially == GatewayInit => GatewayInv
<1> SUFFICES ASSUME GatewayInit PROVE GatewayInv
    OBVIOUS
<1>1. GatewayTypes
    BY DEF GatewayInit, GatewayTypes, RuleRow, RequestRow, Result, Absent, Waiting, Statuses, RequestSteps
<1>2. \A i \in Rules : rule[i] = Absent
    BY DEF GatewayInit
<1>3. \A q \in Savers : request[q] = Waiting
    BY DEF GatewayInit
<1>4. QED
    BY <1>1, <1>2, <1>3 DEF GatewayInit, GatewayInv, RevokedIsDeleted, ReadIsInserted, OneHolder, FoundIsFree, HoldsPorts,
       PortsNeverConflict, TargetsAreInserted, ResultsWereApplied, FetchedWereApplied, ActiveWasApplied, Absent, Waiting

-----------------------------------------------------------------------------
(* What a step of a request, or of a row, must leave as it is              *)

\* Rows are never removed.
RowsStay == \A i \in Rules : Inserted(i) => Inserted(i)'

\* No rule is present at a port that had none.
NoMorePresent == \A i \in Rules : Present(i)' => Present(i) /\ rule'[i].port = rule[i].port

\* Rows are shown active as they were, or not at all.
NoMoreActive ==
    \A i \in Rules : rule'[i].status = "active" =>
        rule[i].status = "active" /\ rule'[i].revision = rule[i].revision

\* A request that moves on without taking the lock from another.
LEMMA RequestMoves ==
    ASSUME GatewayInv, NEW q \in Savers, NEW next \in RequestRow,
           request' = [request EXCEPT ![q] = next],
           next.step = "locked" => \A s \in Savers \ {q} : ~HoldsPorts(s),
           next.step = "found" => HoldsPorts(q) /\ ~Taken(next.port),
           next.step # "port conflict",
           next.existing # NoRule => Inserted(next.existing)',
           NoMorePresent, RowsStay
    PROVE  /\ request' \in [Savers -> RequestRow]
           /\ ReadIsInserted'
           /\ OneHolder'
           /\ FoundIsFree'
           /\ PortsNeverConflict'
<1> USE DEF GatewayInv, GatewayTypes
<1>1. request' \in [Savers -> RequestRow]
    OBVIOUS
<1>2. \A s \in Savers : request'[s] = IF s = q THEN next ELSE request[s]
    OBVIOUS
<1>3. OneHolder'
    BY <1>2 DEF OneHolder, HoldsPorts
<1>4. FoundIsFree'
    <2> SUFFICES ASSUME NEW s \in Savers, request'[s].step = "found"
                 PROVE  ~Taken(request[s].port)'
        BY DEF FoundIsFree
    <2>1. ~Taken(request'[s].port)
        BY <1>2 DEF FoundIsFree
    <2>2. QED
        BY <2>1 DEF NoMorePresent, Taken
<1>5. PortsNeverConflict'
    BY <1>2 DEF PortsNeverConflict
<1>6. ReadIsInserted'
    BY <1>2 DEF ReadIsInserted, RowsStay, RequestRow
<1>7. QED
    BY <1>1, <1>3, <1>4, <1>5, <1>6

\* The requests stand still.
LEMMA RequestsRest ==
    ASSUME GatewayInv, UNCHANGED request, NoMorePresent, RowsStay
    PROVE  /\ request' \in [Savers -> RequestRow]
           /\ ReadIsInserted'
           /\ OneHolder'
           /\ FoundIsFree'
           /\ PortsNeverConflict'
<1> USE DEF GatewayInv, GatewayTypes
<1>1. FoundIsFree'
    BY DEF FoundIsFree, NoMorePresent, Taken
<1>2. ReadIsInserted'
    BY DEF ReadIsInserted, RowsStay, RequestRow
<1>3. QED
    BY <1>1, <1>2 DEF OneHolder, HoldsPorts, PortsNeverConflict

\* The agent's results stay, and nothing more is shown active.
LEMMA AgentRests ==
    ASSUME GatewayInv, UNCHANGED <<host, results>>, NoMoreActive, RowsStay
    PROVE  /\ fetched' \in SUBSET Result
           /\ results' \in SUBSET Result
           /\ TargetsAreInserted'
           /\ ResultsWereApplied'
           /\ FetchedWereApplied'
           /\ ActiveWasApplied'
<1> USE DEF GatewayInv, GatewayTypes, host
<1>1. ActiveWasApplied'
    BY DEF NoMoreActive, ActiveWasApplied
<1>2. TargetsAreInserted'
    BY DEF TargetsAreInserted, RowsStay, Result
<1>3. QED
    BY <1>1, <1>2 DEF ResultsWereApplied, FetchedWereApplied

\* The rows stay.
LEMMA RowsRest ==
    ASSUME GatewayInv, UNCHANGED rule
    PROVE  /\ rule' \in [Rules -> RuleRow]
           /\ RevokedIsDeleted'
           /\ RowsStay
           /\ NoMorePresent
           /\ NoMoreActive
BY DEF GatewayInv, GatewayTypes, RevokedIsDeleted, RowsStay, NoMorePresent, NoMoreActive, Present, Inserted

-----------------------------------------------------------------------------
(* Requests                                                                *)

LEMMA ReadRuleInv ==
    ASSUME GatewayInv, NEW q \in Savers, NEW d \in Hosted, NEW p \in Policies, ReadRule(q, d, p)
    PROVE  GatewayInv'
<1>1. PICK e \in Rules \union {NoRule} :
        /\ e # NoRule => Inserted(e)
        /\ request' = [request EXCEPT ![q] = [step |-> "read", db |-> d, policy |-> p, existing |-> e, port |-> 0]]
    BY DEF ReadRule, Present
<1>2. UNCHANGED <<rule, host, results>>
    BY DEF ReadRule
<1>3. [step |-> "read", db |-> d, policy |-> p, existing |-> e, port |-> 0] \in RequestRow
    BY DEF RequestRow, RequestSteps
<1>4. e # NoRule => Inserted(e)'
    BY <1>1, <1>2 DEF Inserted
<1>5. QED
    BY <1>1, <1>2, <1>3, <1>4, RowsRest, RequestMoves, AgentRests DEF GatewayInv, GatewayTypes

LEMMA LockPortsInv ==
    ASSUME GatewayInv, NEW q \in Savers, LockPorts(q)
    PROVE  GatewayInv'
<1>1. request[q] \in RequestRow
    BY DEF GatewayInv, GatewayTypes
<1>2. PICK next \in RequestRow : /\ next = [request[q] EXCEPT !.step = "locked"]
                                 /\ next.step = "locked" /\ next.existing = request[q].existing
    <2> DEFINE moved == [request[q] EXCEPT !.step = "locked"]
    <2>1. moved \in RequestRow /\ moved.step = "locked" /\ moved.existing = request[q].existing
        BY <1>1 DEF RequestRow, RequestSteps
    <2> HIDE DEF moved
    <2>2. \E next \in RequestRow : next = moved /\ next.step = "locked" /\ next.existing = request[q].existing
        BY <2>1
    <2>3. QED
        BY <2>2 DEF moved
<1>3. request' = [request EXCEPT ![q] = next]
    BY <1>2 DEF LockPorts
<1>4. UNCHANGED <<rule, host, results>> /\ \A s \in Savers : ~HoldsPorts(s)
    BY DEF LockPorts
<1>5. next.existing # NoRule => Inserted(next.existing)'
    BY <1>2, <1>4 DEF GatewayInv, ReadIsInserted, Inserted
<1>6. QED
    BY <1>2, <1>3, <1>4, <1>5, RowsRest, RequestMoves, AgentRests DEF GatewayInv, GatewayTypes

LEMMA FindPortInv ==
    ASSUME GatewayInv, NEW q \in Savers, FindPort(q)
    PROVE  GatewayInv'
<1>1. request[q] \in RequestRow
    BY DEF GatewayInv, GatewayTypes
<1>2. PICK p \in Ports : ~Taken(p) /\ request' = [request EXCEPT ![q].step = "found", ![q].port = p]
    BY DEF FindPort
<1>3. PICK next \in RequestRow : /\ next = [request[q] EXCEPT !.step = "found", !.port = p]
                                 /\ next.step = "found" /\ next.port = p /\ next.existing = request[q].existing
    <2> DEFINE moved == [request[q] EXCEPT !.step = "found", !.port = p]
    <2>1. moved \in RequestRow /\ moved.step = "found" /\ moved.port = p /\ moved.existing = request[q].existing
        BY <1>1 DEF RequestRow, RequestSteps
    <2> HIDE DEF moved
    <2>2. \E next \in RequestRow : /\ next = moved
                                  /\ next.step = "found" /\ next.port = p /\ next.existing = request[q].existing
        BY <2>1
    <2>3. QED
        BY <2>2 DEF moved
<1>4. request' = [request EXCEPT ![q] = next]
    BY <1>2, <1>3
<1>5. UNCHANGED <<rule, host, results>> /\ HoldsPorts(q)
    BY DEF FindPort, HoldsPorts
<1>6. next.existing # NoRule => Inserted(next.existing)'
    BY <1>3, <1>5 DEF GatewayInv, ReadIsInserted, Inserted
<1>7. QED
    BY <1>2, <1>3, <1>4, <1>5, <1>6, RowsRest, RequestMoves, AgentRests DEF GatewayInv, GatewayTypes

LEMMA WaitingRow == Waiting \in RequestRow /\ Waiting.step = "idle" /\ Waiting.existing = NoRule
BY DEF Waiting, RequestRow, RequestSteps

LEMMA UpdateRuleInv ==
    ASSUME GatewayInv, NEW q \in Savers, UpdateRule(q)
    PROVE  GatewayInv'
<1> DEFINE i == request[q].existing
<1>1. i \in Rules /\ request[q].policy \in Policies \union {NoRule}
    BY DEF GatewayInv, GatewayTypes, RequestRow, UpdateRule
<1>2. rule' = [rule EXCEPT ![i].status = "pending", ![i].revision = request[q].policy]
    BY DEF UpdateRule
<1>3. rule' \in [Rules -> RuleRow]
    BY <1>1, <1>2 DEF GatewayInv, GatewayTypes, RuleRow, Statuses
<1>4. \A k \in Rules : k # i => rule'[k] = rule[k]
    BY <1>2 DEF GatewayInv, GatewayTypes
<1>5. /\ rule'[i].status = "pending"
      /\ rule'[i].deleted = rule[i].deleted
      /\ rule'[i].port = rule[i].port
    BY <1>1, <1>2 DEF GatewayInv, GatewayTypes, RuleRow
<1>6. RevokedIsDeleted' /\ NoMoreActive
    BY <1>4, <1>5 DEF GatewayInv, RevokedIsDeleted, NoMoreActive
<1>7. Inserted(i)
    BY DEF GatewayInv, ReadIsInserted, UpdateRule
<1>8. NoMorePresent /\ RowsStay
    BY <1>1, <1>4, <1>5, <1>7 DEF GatewayInv, RevokedIsDeleted, NoMorePresent, RowsStay, Present, Inserted
<1>9. UNCHANGED <<host, results>> /\ request' = [request EXCEPT ![q] = Waiting]
    BY DEF UpdateRule
<1>10. QED
    BY <1>3, <1>6, <1>8, <1>9, WaitingRow, RequestMoves, AgentRests DEF GatewayInv, GatewayTypes

\* The port is still free: the new rule is the one present there, and no other
\* request has found a port.
LEMMA InsertRuleInv ==
    ASSUME GatewayInv, NEW q \in Savers, InsertRule(q)
    PROVE  GatewayInv'
<1> DEFINE new(i) == [db |-> request[q].db, port |-> request[q].port, status |-> "pending",
                      revision |-> request[q].policy, deleted |-> FALSE]
<1>1. request[q] \in RequestRow /\ request[q].step = "found"
    BY DEF GatewayInv, GatewayTypes, InsertRule
<1>2. ~Taken(request[q].port)
    BY <1>1 DEF GatewayInv, FoundIsFree
<1>3. PICK i \in Rules : ~Inserted(i) /\ rule' = [rule EXCEPT ![i] = new(i)]
    BY <1>2 DEF InsertRule
<1>4. request' = [request EXCEPT ![q] = Waiting] /\ UNCHANGED <<host, results>>
    BY <1>2 DEF InsertRule
<1>5. new(i) \in RuleRow /\ new(i).status = "pending"
    BY <1>1 DEF RequestRow, RuleRow, Statuses
<1> HIDE DEF new
<1>6. \A k \in Rules : rule'[k] = IF k = i THEN new(i) ELSE rule[k]
    BY <1>3 DEF GatewayInv, GatewayTypes
<1>7. rule' \in [Rules -> RuleRow] /\ RevokedIsDeleted' /\ NoMoreActive
    BY <1>3, <1>5, <1>6 DEF GatewayInv, GatewayTypes, RevokedIsDeleted, NoMoreActive
<1>8. RowsStay
    BY <1>5, <1>6 DEF RowsStay, Inserted
<1>9. \A s \in Savers : request'[s] = IF s = q THEN Waiting ELSE request[s]
    BY <1>4 DEF GatewayInv, GatewayTypes
<1>10. request' \in [Savers -> RequestRow] /\ OneHolder' /\ PortsNeverConflict'
    <2>1. request' \in [Savers -> RequestRow]
        BY <1>4, WaitingRow DEF GatewayInv, GatewayTypes
    <2>2. OneHolder' /\ PortsNeverConflict'
        BY <1>9, WaitingRow DEF GatewayInv, OneHolder, HoldsPorts, PortsNeverConflict
    <2>3. QED
        BY <2>1, <2>2
<1>11. FoundIsFree'
    <2> SUFFICES ASSUME NEW s \in Savers, request'[s].step = "found" PROVE FALSE
        BY DEF FoundIsFree
    <2>1. s # q /\ request[s].step = "found"
        BY <1>9, WaitingRow
    <2>2. QED
        BY <2>1, <1>1 DEF GatewayInv, OneHolder, HoldsPorts
<1>12. ReadIsInserted'
    BY <1>8, <1>9, WaitingRow DEF GatewayInv, GatewayTypes, RequestRow, ReadIsInserted, RowsStay
<1>13. QED
    BY <1>4, <1>7, <1>8, <1>10, <1>11, <1>12, AgentRests DEF GatewayInv, GatewayTypes

LEMMA AbortSaveInv ==
    ASSUME GatewayInv, NEW q \in Savers, AbortSave(q)
    PROVE  GatewayInv'
<1>1. UNCHANGED <<rule, host, results>> /\ request' = [request EXCEPT ![q] = Waiting]
    BY DEF AbortSave
<1>2. QED
    BY <1>1, WaitingRow, RowsRest, RequestMoves, AgentRests DEF GatewayInv, GatewayTypes

-----------------------------------------------------------------------------
(* Rows that end, and the agent                                            *)

\* Some rules are revoked and deleted, the others stay.
Revoking ==
    \A i \in Rules :
        \/ rule'[i] = rule[i]
        \/ Inserted(i) /\ rule'[i] = [rule[i] EXCEPT !.status = "revoked", !.deleted = TRUE]

LEMMA RevokingRows ==
    ASSUME GatewayInv, Revoking, rule' = [i \in Rules |-> rule'[i]]
    PROVE  /\ rule' \in [Rules -> RuleRow]
           /\ RevokedIsDeleted'
           /\ RowsStay
           /\ NoMorePresent
           /\ NoMoreActive
<1> USE DEF GatewayInv, GatewayTypes
<1>1. ASSUME NEW i \in Rules
      PROVE  /\ rule'[i] \in RuleRow
             /\ rule'[i].status = "revoked" => rule'[i].deleted
             /\ Inserted(i) => Inserted(i)'
             /\ Present(i)' => Present(i) /\ rule'[i].port = rule[i].port
             /\ rule'[i].status = "active" => rule[i].status = "active" /\ rule'[i].revision = rule[i].revision
    <2>1. CASE rule'[i] = rule[i]
        BY <2>1 DEF RevokedIsDeleted, Present, Inserted
    <2>2. CASE Inserted(i) /\ rule'[i] = [rule[i] EXCEPT !.status = "revoked", !.deleted = TRUE]
        BY <2>2 DEF Present, Inserted, RuleRow, Statuses
    <2>3. QED
        BY <2>1, <2>2 DEF Revoking
<1>2. rule' \in [Rules -> RuleRow]
    BY <1>1
<1>3. QED
    BY <1>1, <1>2 DEF RevokedIsDeleted, RowsStay, NoMorePresent, NoMoreActive

LEMMA RevokeInv ==
    ASSUME GatewayInv, NEW i \in Rules, Revoke(i)
    PROVE  GatewayInv'
<1>1. rule' = [k \in Rules |-> rule'[k]] /\ Revoking
    BY DEF Revoke, Revoking, Present, GatewayInv, GatewayTypes, RuleRow
<1>2. UNCHANGED <<request, host, results>>
    BY DEF Revoke
<1>3. QED
    BY <1>1, <1>2, RevokingRows, RequestsRest, AgentRests DEF GatewayInv, GatewayTypes

\* What is fetched are rules that exist, under their present policies.
LEMMA FetchInv ==
    ASSUME GatewayInv, Fetch
    PROVE  GatewayInv'
<1>1. rule' = [k \in Rules |-> rule'[k]] /\ Revoking
    BY DEF Fetch, Revoking, Serviced
<1>2. UNCHANGED <<request, results, applied>> /\ agent' = "listeners"
    BY DEF Fetch
<1>3. \A t \in fetched' : t \in Result /\ Inserted(t[1])
    <2> SUFFICES ASSUME NEW t \in fetched' PROVE t \in Result /\ Inserted(t[1])
        OBVIOUS
    <2>1. PICK i \in Rules : Serviced(i) /\ t = <<i, rule[i].revision, TRUE>>
        BY DEF Fetch
    <2>2. rule[i].revision \in Policies \union {NoRule}
        BY DEF GatewayInv, GatewayTypes, RuleRow
    <2>3. QED
        BY <2>1, <2>2 DEF Result, Serviced
<1>4. NoMoreActive /\ RowsStay
    BY <1>1, RevokingRows
<1>5. TargetsAreInserted'
    BY <1>2, <1>3, <1>4 DEF GatewayInv, GatewayTypes, TargetsAreInserted, RowsStay, Result
<1>6. ActiveWasApplied' /\ ResultsWereApplied' /\ FetchedWereApplied'
    BY <1>2, <1>4 DEF GatewayInv, ActiveWasApplied, ResultsWereApplied, FetchedWereApplied, NoMoreActive
<1>7. QED
    BY <1>1, <1>2, <1>3, <1>5, <1>6, RevokingRows, RequestsRest DEF GatewayInv, GatewayTypes

\* The agent goes on with its targets; what it has applied only grows.
LEMMA AgentMoves ==
    ASSUME GatewayInv, UNCHANGED panel, applied \subseteq applied',
           fetched' \in SUBSET Result, results' \in SUBSET Result, TargetsAreInserted',
           FetchedWereApplied', ResultsWereApplied'
    PROVE  GatewayInv'
BY RowsRest, RequestsRest DEF panel, GatewayInv, GatewayTypes, ActiveWasApplied

LEMMA ReconcileUnitsInv ==
    ASSUME GatewayInv, ReconcileUnits
    PROVE  GatewayInv'
<1>1. PICK failing : fetched' = {<<t[1], t[2], t[1] \notin failing>> : t \in fetched}
    BY DEF ReconcileUnits
<1>2. agent' = "firewall" /\ UNCHANGED <<panel, results, applied>>
    BY DEF ReconcileUnits
<1>3. \A u \in fetched' : u \in Result /\ Inserted(u[1])
    <2> SUFFICES ASSUME NEW u \in fetched' PROVE u \in Result /\ Inserted(u[1])
        OBVIOUS
    <2>1. PICK t \in fetched : u = <<t[1], t[2], t[1] \notin failing>>
        BY <1>1
    <2>2. t[1] \in Rules /\ t[2] \in Policies \union {NoRule} /\ Inserted(t[1])
        BY DEF GatewayInv, GatewayTypes, Result, TargetsAreInserted
    <2>3. (t[1] \notin failing) \in BOOLEAN
        OBVIOUS
    <2>4. QED
        BY <2>1, <2>2, <2>3 DEF Result
<1>4. TargetsAreInserted'
    BY <1>2, <1>3 DEF GatewayInv, TargetsAreInserted, Inserted, panel
<1>5. QED
    BY <1>2, <1>3, <1>4, AgentMoves DEF GatewayInv, GatewayTypes, FetchedWereApplied, ResultsWereApplied

LEMMA ReconcileFirewallInv ==
    ASSUME GatewayInv, ReconcileFirewall
    PROVE  GatewayInv'
<1>1. UNCHANGED <<panel, fetched, results>>
    BY DEF ReconcileFirewall
<1>2. applied' = applied \union {<<t[1], t[2]>> : t \in {u \in fetched : u[3]}}
    BY DEF ReconcileFirewall
<1>3. FetchedWereApplied' /\ ResultsWereApplied'
    BY <1>1, <1>2 DEF GatewayInv, FetchedWereApplied, ResultsWereApplied
<1>4. TargetsAreInserted'
    BY <1>1, <1>2 DEF GatewayInv, TargetsAreInserted, Inserted, panel
<1>5. QED
    BY <1>1, <1>2, <1>3, <1>4, AgentMoves DEF GatewayInv, GatewayTypes

LEMMA PostInv ==
    ASSUME GatewayInv, Post
    PROVE  GatewayInv'
<1>1. PICK recorded \in SUBSET fetched : results' = results \union recorded
    BY DEF Post
<1>2. agent = "acknowledge" /\ agent' = "idle" /\ fetched' = {} /\ UNCHANGED <<panel, applied>>
    BY DEF Post
<1>3. FetchedWereApplied' /\ ResultsWereApplied'
    BY <1>1, <1>2 DEF GatewayInv, FetchedWereApplied, ResultsWereApplied
<1>4. TargetsAreInserted'
    BY <1>1, <1>2 DEF GatewayInv, TargetsAreInserted, Inserted, panel
<1>5. QED
    BY <1>1, <1>2, <1>3, <1>4, AgentMoves DEF GatewayInv, GatewayTypes

LEMMA AgentDiesInv ==
    ASSUME GatewayInv, AgentDies
    PROVE  GatewayInv'
<1>1. agent' = "idle" /\ fetched' = {} /\ UNCHANGED <<panel, results, applied>>
    BY DEF AgentDies
<1>2. TargetsAreInserted'
    BY <1>1 DEF GatewayInv, TargetsAreInserted, Inserted, panel
<1>3. QED
    BY <1>1, <1>2, AgentMoves DEF GatewayInv, GatewayTypes, FetchedWereApplied, ResultsWereApplied

\* A result that is recorded names the rule's present policy, which has been
\* applied if it is one of success.
LEMMA AcknowledgeInv ==
    ASSUME GatewayInv, NEW s \in results, Acknowledge(s)
    PROVE  GatewayInv'
<1> DEFINE i == s[1]
<1>1. i \in Rules /\ s[3] \in BOOLEAN /\ Inserted(i)
    BY DEF GatewayInv, GatewayTypes, Result, TargetsAreInserted
<1>2. UNCHANGED <<expired, request, host>> /\ results' = results \ {s}
    BY DEF Acknowledge
<1>3. CASE rule[i].deleted \/ rule[i].revision # s[2]
    <2>1. UNCHANGED panel
        BY <1>2, <1>3 DEF Acknowledge, panel
    <2>2. TargetsAreInserted'
        BY <1>2, <2>1 DEF GatewayInv, TargetsAreInserted, Inserted, panel, host
    <2>3. QED
        BY <1>2, <2>1, <2>2, AgentMoves DEF GatewayInv, GatewayTypes, FetchedWereApplied, ResultsWereApplied, host
<1>4. CASE ~rule[i].deleted /\ rule[i].revision = s[2]
    <2> DEFINE status == IF s[3] THEN "active" ELSE "failed"
    <2>1. rule' = [rule EXCEPT ![i].status = status]
        BY <1>4 DEF Acknowledge
    <2>2. \A k \in Rules : k # i => rule'[k] = rule[k]
        BY <2>1 DEF GatewayInv, GatewayTypes
    <2>3. /\ rule'[i].status = status
          /\ rule'[i].deleted = rule[i].deleted
          /\ rule'[i].port = rule[i].port
          /\ rule'[i].revision = rule[i].revision
        BY <1>1, <2>1 DEF GatewayInv, GatewayTypes, RuleRow
    <2>4. rule' \in [Rules -> RuleRow]
        BY <1>1, <2>1 DEF GatewayInv, GatewayTypes, RuleRow, Statuses
    <2>5. RevokedIsDeleted' /\ RowsStay
        BY <2>2, <2>3 DEF GatewayInv, RevokedIsDeleted, RowsStay, Inserted
    <2>6. NoMorePresent
        <3>1. Present(i)
            BY <1>1, <1>4 DEF GatewayInv, RevokedIsDeleted, Present
        <3>2. QED
            BY <2>2, <2>3, <3>1 DEF NoMorePresent, Present, Inserted
    <2>7. ActiveWasApplied'
        BY <1>2, <1>4, <2>2, <2>3 DEF GatewayInv, ActiveWasApplied, ResultsWereApplied, host
    <2>8. FetchedWereApplied' /\ ResultsWereApplied' /\ TargetsAreInserted'
        BY <1>2, <2>5 DEF GatewayInv, GatewayTypes, FetchedWereApplied, ResultsWereApplied,
           TargetsAreInserted, RowsStay, Result, host
    <2>9. QED
        BY <1>2, <2>4, <2>5, <2>6, <2>7, <2>8, RequestsRest DEF GatewayInv, GatewayTypes, host
<1>5. QED
    BY <1>3, <1>4

-----------------------------------------------------------------------------
LEMMA GatewayStep == GatewayInv /\ [GatewayNext]_gatewayVars => GatewayInv'
<1> SUFFICES ASSUME GatewayInv, [GatewayNext]_gatewayVars PROVE GatewayInv'
    OBVIOUS
<1>1. ASSUME Save PROVE GatewayInv'
    BY <1>1, ReadRuleInv, LockPortsInv, UpdateRuleInv, FindPortInv, InsertRuleInv, AbortSaveInv, RevokeInv DEF Save
<1>2. ASSUME Agent PROVE GatewayInv'
    BY <1>2, FetchInv, ReconcileUnitsInv, ReconcileFirewallInv, PostInv, AgentDiesInv, AcknowledgeInv DEF Agent
<1>3. ASSUME NEW i \in Rules, Elapse(i) PROVE GatewayInv'
    <2>1. UNCHANGED <<rule, request, host, results>>
        BY <1>3 DEF Elapse
    <2>2. QED
        BY <2>1, RowsRest, RequestsRest, AgentRests DEF GatewayInv, GatewayTypes
<1>4. ASSUME UNCHANGED gatewayVars PROVE GatewayInv'
    <2>1. UNCHANGED <<rule, request, host, results>>
        BY <1>4 DEF gatewayVars, host
    <2>2. QED
        BY <2>1, RowsRest, RequestsRest, AgentRests DEF GatewayInv, GatewayTypes
<1>5. QED
    BY <1>1, <1>2, <1>3, <1>4 DEF GatewayNext

\* The invariant holds in every state: rows, requests and the agent's memory
\* agree (the saving requests, the agent and its acknowledgements).
THEOREM GatewayAgrees == GatewaySpec => []GatewayInv
<1>1. GatewayInit => GatewayInv
    BY GatewayInitially
<1>2. GatewayInv /\ [GatewayNext]_gatewayVars => GatewayInv'
    BY GatewayStep
<1>3. QED
    BY <1>1, <1>2, PTL DEF GatewaySpec

\* The search for a port and its insert never meet the unique index, whoever
\* saves at the same time (externalAccess).
THEOREM PortsAreNeverTakenTwice == GatewaySpec => []PortsNeverConflict
<1>1. GatewayInv => PortsNeverConflict
    BY DEF GatewayInv
<1>2. QED
    BY <1>1, GatewayAgrees, PTL

\* A rule shows active only under a policy that the agent has applied, however
\* late or out of order results arrive (acknowledgeDatabaseExternalAccess).
THEOREM ActiveRulesWereApplied == GatewaySpec => []ActiveWasApplied
<1>1. GatewayInv => ActiveWasApplied
    BY DEF GatewayInv
<1>2. QED
    BY <1>1, GatewayAgrees, PTL
=================================================================================
