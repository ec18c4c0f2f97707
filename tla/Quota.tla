-------------------------------- MODULE Quota --------------------------------
(***************************************************************************)
(* Count quotas of one workspace: the reservations of quotaEngine.ts and   *)
(* the requests that add counted resources under them: applications with   *)
(* any number of custom domains, new and cloned logical databases, and     *)
(* databases that are moved here from other workspaces.                    *)
(*                                                                         *)
(* A request counts what exists, reserves under an advisory lock, persists *)
(* the resources and finalises the reservations.  The reservation's        *)
(* transaction keeps one connection of the pool and reads the entitlement  *)
(* over another.  A creation reserves under random keys, a move under the  *)
(* key of the database and the workspace, which it may have used before.   *)
(* The limits are hard; other modes refuse nothing.                        *)
(***************************************************************************)
EXTENDS Integers, FiniteSets, Sequences

CONSTANTS
    Codes,      \* entitlement codes
    Plans,      \* sequences of items (code, quantity) that a creation reserves
    Most,       \* the most of a code that one request reserves
    Limit,      \* the effective limit of a code
    Movable,    \* databases of other workspaces that may be moved here
    MoveCode,   \* the code a moved database counts under
    Creators,   \* requests served at one time
    Pool,       \* connections of the pool
    NoMove

Item == {i \in [code: Codes, quantity: Nat \ {0}] : i.quantity <= Most[i.code]}

ASSUME QuotaAssumption ==
    /\ Most \in [Codes -> Nat \ {0}]
    /\ \A p \in Plans :
        /\ p \in Seq(Item) /\ p # <<>>
        /\ \A i, j \in DOMAIN p : p[i].code = p[j].code => i = j
    /\ Limit \in [Codes -> Nat]
    /\ IsFiniteSet(Creators) /\ Creators # {}
    /\ IsFiniteSet(Movable) /\ MoveCode \in Codes
    /\ NoMove \notin Movable
    /\ Movable \intersect (Creators \X Codes) = {}

Unread == -1

\* The idempotency keys: a random one for each item of a creation, and one for
\* each database that may be moved here.
Fresh(r)  == {r} \X Codes
KeysOf(c) == (Creators \X {c}) \union (IF c = MoveCode THEN Movable ELSE {})
Keys      == (Creators \X Codes) \union Movable

\* workspace_usage_reservations.  A lapsed row is one whose status still reads
\* pending beyond its expiry.
Statuses == {"none", "pending", "lapsed", "committed", "released", "expired"}
Row      == [status: Statuses, quantity: Nat]
NoReservation    == [status |-> "none", quantity |-> 0]

VARIABLES
    resources,  \* rows that exist, by code, without the databases moved here
    arrived,    \* databases moved here
    unchecked,  \* history: those whose last arrival reserved nothing of its own
    rows,       \* the reservations, by key
    step,       \* where each request stands
    plan,       \* the items it has yet to reserve
    used,       \* the count it has read for the first of them
    moving,     \* the database it moves, or NoMove
    got         \* how the move came by its reservation: checked, reused or not yet

locals == <<plan, used, moving, got>>
counted == <<resources, arrived, unchecked>>
quotaVars == <<counted, rows, step, locals>>

QuotaInit ==
    /\ resources = [c \in Codes |-> 0]
    /\ arrived = {}
    /\ unchecked = {}
    /\ rows = [k \in Keys |-> NoReservation]
    /\ step = [r \in Creators |-> "idle"]
    /\ plan = [r \in Creators |-> <<>>]
    /\ used = [r \in Creators |-> Unread]
    /\ moving = [r \in Creators |-> NoMove]
    /\ got = [r \in Creators |-> "none"]

-----------------------------------------------------------------------------
(* The pool, the lock and the counts                                       *)

InTransaction == {r \in Creators : step[r] \in {"locking", "locked", "decide"}}
Connection == Cardinality(InTransaction) < Pool
CodeOf(r) == Head(plan[r]).code
Locked(c) == \E r \in Creators : step[r] \in {"locked", "decide"} /\ CodeOf(r) = c

Count(c) == resources[c] + (IF c = MoveCode THEN Cardinality(arrived) ELSE 0)

\* The sum over the quantities of the pending reservations of a code.
PendingSum(c) ==
    Cardinality({u \in KeysOf(c) \X (1..Most[c]) :
                    rows[u[1]].status = "pending" /\ u[2] <= rows[u[1]].quantity})

\* evaluateQuota, hard mode.
Allowed(c, quantity, current) == current + PendingSum(c) + quantity <= Limit[c]

To(r, s) == step' = [step EXCEPT ![r] = s]

-----------------------------------------------------------------------------
(* A request                                                               *)

StartCreate(r, p) ==
    /\ step[r] = "idle"
    /\ To(r, "count")
    /\ plan' = [plan EXCEPT ![r] = p]
    /\ UNCHANGED <<counted, rows, used, moving, got>>

\* DatabaseLifecycleController.move, from the workspace that has the database.
StartMove(r, d) ==
    /\ step[r] = "idle"
    /\ d \notin arrived
    /\ To(r, "count")
    /\ plan' = [plan EXCEPT ![r] = <<[code |-> MoveCode, quantity |-> 1]>>]
    /\ moving' = [moving EXCEPT ![r] = d]
    /\ UNCHANGED <<counted, rows, used, got>>

\* select count() before the transaction.
CountUsed(r) ==
    /\ step[r] = "count"
    /\ Connection
    /\ To(r, "begin")
    /\ used' = [used EXCEPT ![r] = Count(CodeOf(r))]
    /\ UNCHANGED <<counted, rows, plan, moving, got>>

BeginReservation(r) ==
    /\ step[r] = "begin"
    /\ Connection
    /\ To(r, "locking")
    /\ UNCHANGED <<counted, rows, locals>>

LockWorkspace(r) ==
    /\ step[r] = "locking"
    /\ ~Locked(CodeOf(r))
    /\ To(r, "locked")
    /\ UNCHANGED <<counted, rows, locals>>

\* effectiveEntitlement asks the pool, not its transaction.
ReadEntitlement(r) ==
    /\ step[r] = "locked"
    /\ Connection
    /\ To(r, "decide")
    /\ UNCHANGED <<counted, rows, locals>>

Key(r) == IF moving[r] = NoMove THEN <<r, CodeOf(r)>> ELSE moving[r]

\* Every decision first marks the code's lapsed reservations as expired.
Expired(c) ==
    [k \in Keys |-> IF k \in KeysOf(c) /\ rows[k].status = "lapsed"
                    THEN [rows[k] EXCEPT !.status = "expired"] ELSE rows[k]]

\* The reservation of the first item is there: the next item, or the work.
GoOn(r, how) ==
    /\ To(r, IF Len(plan[r]) = 1 THEN "persist" ELSE "count")
    /\ plan' = [plan EXCEPT ![r] = Tail(@)]
    /\ used' = [used EXCEPT ![r] = Unread]
    /\ got' = [got EXCEPT ![r] = how]

\* A wrong version: the projection leaves out what exists.
ReserveWithoutCurrent(r) ==
    LET i == Head(plan[r]) IN
    /\ step[r] = "decide"
    /\ rows[Key(r)].status = "none"
    /\ Allowed(i.code, i.quantity, 0)
    /\ rows' = [Expired(i.code) EXCEPT ![Key(r)] = [status |-> "pending", quantity |-> i.quantity]]
    /\ GoOn(r, "checked")
    /\ UNCHANGED <<counted, moving>>

\* A key without a row is checked and inserted.
Reserve(r) ==
    LET i == Head(plan[r]) IN
    /\ step[r] = "decide"
    /\ rows[Key(r)].status = "none"
    /\ Allowed(i.code, i.quantity, used[r])
    /\ rows' = [Expired(i.code) EXCEPT ![Key(r)] = [status |-> "pending", quantity |-> i.quantity]]
    /\ GoOn(r, "checked")
    /\ UNCHANGED <<counted, moving>>

\* The row of an earlier move is taken as it was read, whatever is in use now,
\* unless it has been released or marked expired.
Reuse(r) ==
    /\ step[r] = "decide"
    /\ moving[r] # NoMove
    /\ rows[moving[r]].status \in {"pending", "lapsed", "committed"}
    /\ rows' = Expired(MoveCode)
    /\ GoOn(r, "reused")
    /\ UNCHANGED <<counted, moving>>

\* What the request has reserved before is released, then it is answered.
Refuse(r) ==
    LET i == Head(plan[r]) IN
    /\ step[r] = "decide"
    /\ \/ rows[Key(r)].status = "none" /\ ~Allowed(i.code, i.quantity, used[r])
       \/ rows[Key(r)].status \in {"released", "expired"}
    /\ rows' = Expired(i.code)
    /\ To(r, "release")
    /\ UNCHANGED <<counted, locals>>

\* The transaction that inserts the application and its domains, or a database,
\* or that updates the row of the moved one.
Persist(r) ==
    /\ step[r] = "persist"
    /\ Connection
    /\ resources' = [c \in Codes |-> resources[c] + rows[<<r, c>>].quantity]
    /\ arrived' = arrived \union ({moving[r]} \ {NoMove})
    /\ unchecked' = unchecked \union (IF got[r] = "reused" THEN {moving[r]} \ arrived ELSE {})
    /\ To(r, "finalise")
    /\ UNCHANGED <<rows, locals>>

\* The guarded updates by which a request commits or releases its reservations.
\* Random keys are never asked for again.
Closed(r, s) ==
    [k \in Keys |->
        IF k \in Fresh(r) THEN NoReservation
        ELSE IF k = moving[r] /\ got[r] # "none" /\ rows[k].status \in {"pending", "lapsed"}
        THEN [rows[k] EXCEPT !.status = s] ELSE rows[k]]

Answered(r) ==
    /\ To(r, "idle")
    /\ plan' = [plan EXCEPT ![r] = <<>>]
    /\ used' = [used EXCEPT ![r] = Unread]
    /\ moving' = [moving EXCEPT ![r] = NoMove]
    /\ got' = [got EXCEPT ![r] = "none"]

\* commitUsageReservation, which may find an expired or a released row.
Finalise(r) ==
    /\ step[r] = "finalise"
    /\ Connection
    /\ rows' = Closed(r, "committed")
    /\ Answered(r)
    /\ UNCHANGED counted

\* A wrong version: a refusal answers without the release.
ReleaseForgotten(r) ==
    /\ step[r] = "release"
    /\ Answered(r)
    /\ UNCHANGED <<counted, rows>>

\* releaseUsageReservation, of every reservation the request has.
Release(r) ==
    /\ step[r] = "release"
    /\ Connection
    /\ rows' = Closed(r, "released")
    /\ Answered(r)
    /\ UNCHANGED counted

\* An error of a provider or of the database: the catch block.
Break(r) ==
    /\ step[r] \in {"count", "begin", "persist", "finalise"}
    /\ To(r, "release")
    /\ UNCHANGED <<counted, rows, locals>>

\* A wrong version: the pool lets a transaction wait for ever.
TimeOutBegin(r) ==
    /\ step[r] \in {"count", "begin", "persist", "finalise"}
    /\ ~Connection
    /\ To(r, "release")
    /\ UNCHANGED <<counted, rows, locals>>

\* connectionTimeoutMillis and statement_timeout: waiting for a connection, or
\* for the lock, ends in an error.
TimeOut(r) ==
    /\ \/ step[r] \in {"count", "begin", "locked", "persist", "finalise"} /\ ~Connection
       \/ step[r] = "locking" /\ Locked(CodeOf(r))
    /\ To(r, "release")
    /\ UNCHANGED <<counted, rows, locals>>

\* The release fails, or the process dies: what is reserved stays pending.
Abandon(r) ==
    /\ step[r] \notin {"idle", "gone"}
    /\ To(r, "gone")
    /\ plan' = [plan EXCEPT ![r] = <<>>]
    /\ used' = [used EXCEPT ![r] = Unread]
    /\ UNCHANGED <<counted, rows, moving, got>>

\* The reservations a request has made or taken over.
Reserved(r) == Fresh(r) \union (IF got[r] = "none" THEN {} ELSE {moving[r]} \ {NoMove})

\* Nothing of the dead request is pending any more: its place is free.
Vanish(r) ==
    /\ step[r] = "gone"
    /\ \A k \in Reserved(r) : rows[k].status # "pending"
    /\ rows' = [k \in Keys |-> IF k \in Fresh(r) THEN NoReservation ELSE rows[k]]
    /\ Answered(r)
    /\ UNCHANGED counted

-----------------------------------------------------------------------------
(* The rest of the workspace                                               *)

\* Five minutes pass: the reservation counts no longer.
Lapse(k) ==
    /\ rows[k].status = "pending"
    /\ rows' = [rows EXCEPT ![k].status = "lapsed"]
    /\ UNCHANGED <<counted, step, locals>>

\* An application, domain or database is deleted, or moved away.
Remove(c) ==
    /\ resources[c] > 0
    /\ resources' = [resources EXCEPT ![c] = @ - 1]
    /\ UNCHANGED <<arrived, unchecked, rows, step, locals>>

\* A database that was moved here is moved on.  Its reservation is released if
\* the clean-up in this workspace succeeds, and stays committed if it fails.
MoveOn(d, cleaned) ==
    /\ d \in arrived
    /\ arrived' = arrived \ {d}
    /\ unchecked' = unchecked \ {d}
    /\ rows' = IF cleaned /\ rows[d].status = "committed"
               THEN [rows EXCEPT ![d].status = "released"] ELSE rows
    /\ UNCHANGED <<resources, step, locals>>

-----------------------------------------------------------------------------
Proceed(r) ==
    \/ CountUsed(r)
    \/ BeginReservation(r)
    \/ LockWorkspace(r)
    \/ ReadEntitlement(r)
    \/ Reserve(r)
    \/ Reuse(r)
    \/ Refuse(r)
    \/ Persist(r)
    \/ Finalise(r)
    \/ Release(r)
    \/ TimeOut(r)

QuotaNext ==
    \/ \E r \in Creators :
        \/ \E p \in Plans : StartCreate(r, p)
        \/ \E d \in Movable : StartMove(r, d)
        \/ Proceed(r)
        \/ Break(r)
        \/ Abandon(r)
        \/ Vanish(r)
    \/ \E k \in Keys : Lapse(k)
    \/ \E c \in Codes : Remove(c)
    \/ \E d \in Movable, cleaned \in BOOLEAN : MoveOn(d, cleaned)

\* A served request runs on, and its waits have timeouts.
QuotaFairness == \A r \in Creators : WF_quotaVars(Proceed(r))

QuotaSpec == QuotaInit /\ [][QuotaNext]_quotaVars /\ QuotaFairness

-----------------------------------------------------------------------------
QuotaTypeOK ==
    /\ resources \in [Codes -> Nat]
    /\ unchecked \subseteq arrived /\ arrived \subseteq Movable
    /\ rows \in [Keys -> Row]
    /\ step \in [Creators -> {"idle", "count", "begin", "locking", "locked", "decide",
                              "persist", "finalise", "release", "gone"}]
    /\ plan \in [Creators -> Seq(Item)]
    /\ used \in [Creators -> Nat \union {Unread}]
    /\ moving \in [Creators -> Movable \union {NoMove}]
    /\ got \in [Creators -> {"none", "checked", "reused"}]

\* The count is read before the lock and a reservation may lapse before its
\* resources are persisted, so a limit can be exceeded: by at most what the other
\* requests in progress reserve, and by the databases that came back on the
\* reservation of an earlier move, which is not checked again.
OverrunBounded ==
    \A c \in Codes :
        Count(c) <= Limit[c] + (Cardinality(Creators) - 1) * Most[c]
                        + (IF c = MoveCode THEN Cardinality(unchecked) ELSE 0)

\* A request that has been answered, on whichever path, holds back no capacity,
\* alone or on a reservation it shares with another; only a crash or a failed
\* release does, until the reservation's TTL.
AnsweredHoldsNothing ==
    \A k \in Keys :
        rows[k].status = "pending" => \E r \in Creators : step[r] # "idle" /\ k \in Reserved(r)

\* Every request that does not die is answered, also when all connections are
\* held by transactions that wait for one more.
RequestsSettle == \A r \in Creators : step[r] # "idle" ~> step[r] \in {"idle", "gone"}

\* Docs/PACKAGE_BILLING_AND_ENTITLEMENTS.md:121, "concurrent requests cannot
\* exceed a quota".
QuotaHolds == \A c \in Codes : Count(c) <= Limit[c]
=============================================================================
