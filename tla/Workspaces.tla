------------------------------ MODULE Workspaces ------------------------------
(***************************************************************************)
(* The life of a workspace after checkout: conversion to an organisation,  *)
(* billing profile versions, ownership transfers and the primary           *)
(* subscription, which its owner and an administrator change.              *)
(*                                                                         *)
(* A handler is split where the code awaits the database.  A transaction   *)
(* runs READ COMMITTED: it sees what others have committed, its own writes *)
(* appear at its commit, and a row it has written stays locked until then. *)
(***************************************************************************)
EXTENDS Naturals, FiniteSets, Sequences

CONSTANTS
    Customers,
    MaxWorkspaces,  \* bound: rows of workspaces
    MaxPurchases,   \* bound: workspaces that come from a checkout
    MaxTransfers,   \* bound: rows of workspace_ownership_transfers
    MaxProfiles,    \* bound: rows of workspace_billing_profiles
    Requests,       \* requests served at one time
    Purchased,      \* entitlement codes of the package when it is bought
    Rollout,        \* codes the package has now, of ROLLOUT_ENTITLEMENT_CODES
    AddOns,         \* codes of add-on items
    NULL

ASSUME BoundsAssumption == /\ MaxWorkspaces \in Nat
                           /\ MaxPurchases \in Nat
                           /\ MaxTransfers \in Nat
                           /\ MaxProfiles \in Nat

Workspaces == 1..MaxWorkspaces
Transfers  == 1..MaxTransfers

VARIABLES
    type,          \* workspaces.type, "none" before the insert
    role,          \* workspace_memberships.role of a customer in a workspace
    transfers,     \* workspace_ownership_transfers; NULL before the insert
    profiles,      \* versions of workspace_billing_profiles
    subscription,  \* the primary workspace_subscriptions row and its active items
    pc,            \* where each request stands
    mem            \* what it has read

rows == <<type, role, transfers, profiles, subscription>>
vars == <<rows, pc, mem>>

Live == {"active", "trialing"}
SubscriptionStatus == Live \union {"cancelled", "expired"}

TransferRow == [ws: Workspaces, from: Customers, to: Customers,
                status: {"pending", "accepted", "declined"}, expired: BOOLEAN]

SubscriptionRow == [status: SubscriptionStatus, scheduled: BOOLEAN, items: SUBSET AddOns, codes: Seq(STRING)]

ASSUME NullAssumption == /\ NULL \notin Customers /\ NULL \notin Nat
                         /\ NULL \notin TransferRow /\ NULL \notin SubscriptionRow

Nothing == [by |-> NULL, ws |-> NULL, transfer |-> NULL, version |-> 0,
            demoted |-> FALSE, homeless |-> FALSE, merged |-> <<>>]

Existing == {w \in Workspaces : type[w] # "none"}
Owns(c, w) == role[w][c] = "owner"
Lowest(S) == {x \in S : \A y \in S : x <= y}

-----------------------------------------------------------------------------
Init ==
    /\ type         = [w \in Workspaces |-> "none"]
    /\ role         = [w \in Workspaces |-> [c \in Customers |-> "none"]]
    /\ transfers    = [t \in Transfers |-> NULL]
    /\ profiles     = [w \in Workspaces |-> {}]
    /\ subscription = [w \in Workspaces |-> NULL]
    /\ pc           = [r \in Requests |-> "idle"]
    /\ mem          = [r \in Requests |-> Nothing]

Goto(r, from, to) ==
    /\ pc[r] = from
    /\ pc' = [pc EXCEPT ![r] = to]

\* The answer of a request, and a statement or transaction that fails: an
\* error of the database, a deadlock or a constraint.  Nothing of it remains.
Finish(r) ==
    /\ pc'  = [pc EXCEPT ![r] = "idle"]
    /\ mem' = [mem EXCEPT ![r] = Nothing]

Fail(r) ==
    /\ pc[r] # "idle"
    /\ Finish(r)
    /\ UNCHANGED rows

-----------------------------------------------------------------------------
(* Workspaces come from checkouts                                          *)

\* CheckoutController.configure, as one transaction (module Checkout has its
\* steps): workspace, owner, first billing profile and primary subscription.
Configure(c, kind, status) ==
    /\ Cardinality({w \in Existing : subscription[w] # NULL}) < MaxPurchases
    /\ \E w \in Lowest(Workspaces \ Existing) :
        /\ type' = [type EXCEPT ![w] = kind]
        /\ role' = [role EXCEPT ![w][c] = "owner"]
        /\ profiles' = [profiles EXCEPT ![w] = {1}]
        /\ subscription' = [subscription EXCEPT ![w] =
                [status |-> status, scheduled |-> FALSE, items |-> {}, codes |-> Purchased]]
    /\ UNCHANGED <<transfers, pc, mem>>

\* owner(): the actor's active ownership is read, and used by later statements.
Authorize(r, c, w, step) ==
    /\ w \in Existing
    /\ Owns(c, w)
    /\ Goto(r, "idle", step)
    /\ mem' = [mem EXCEPT ![r].by = c, ![r].ws = w]
    /\ UNCHANGED rows

-----------------------------------------------------------------------------
(* Conversion and billing profiles                                         *)

StartConvert(r, c, w) ==
    /\ type[w] # "organisation"
    /\ Authorize(r, c, w, "convert")

\* The second of two conversions meets the organisation row of the first.
Convert(r) ==
    /\ pc[r] = "convert"
    /\ type[mem[r].ws] # "organisation"
    /\ type' = [type EXCEPT ![mem[r].ws] = "organisation"]
    /\ Finish(r)
    /\ UNCHANGED <<role, transfers, profiles, subscription>>

\* pg_advisory_xact_lock of the workspace, held until the transaction ends.
HoldsBilling(r) == pc[r] \in {"locked", "numbered"}

\* A wrong version: without the lock.
BillingLockIgnored(r) ==
    /\ Goto(r, "billing", "locked")
    /\ UNCHANGED <<rows, mem>>

BillingLock(r) ==
    /\ Goto(r, "billing", "locked")
    /\ \A s \in Requests \ {r} : HoldsBilling(s) => mem[s].ws # mem[r].ws
    /\ UNCHANGED <<rows, mem>>

\* The values come from the request or from another profile; max(version) is read.
BillingRead(r) ==
    /\ Goto(r, "locked", "numbered")
    /\ LET taken == profiles[mem[r].ws] IN
       mem' = [mem EXCEPT ![r].version =
                IF taken = {} THEN 0 ELSE CHOOSE v \in taken : \A u \in taken : u <= v]
    /\ UNCHANGED rows

\* (workspace, version) is unique.
BillingInsert(r) ==
    /\ pc[r] = "numbered"
    /\ LET w == mem[r].ws
           v == mem[r].version + 1
       IN IF v \in profiles[w]
          THEN /\ pc' = [pc EXCEPT ![r] = "conflict"]
               /\ UNCHANGED <<rows, mem>>
          ELSE /\ Cardinality({p \in Workspaces \X (1..MaxProfiles) : p[2] \in profiles[p[1]]}) < MaxProfiles
               /\ profiles' = [profiles EXCEPT ![w] = @ \union {v}]
               /\ Finish(r)
               /\ UNCHANGED <<type, role, transfers, subscription>>

-----------------------------------------------------------------------------
(* Ownership transfers                                                     *)

Pending(t) == transfers[t] # NULL /\ transfers[t].status = "pending"

\* One pending transfer of a workspace: another insert fails.
TransferCreate(r, to) ==
    /\ pc[r] = "transfer"
    /\ to # mem[r].by
    /\ \A t \in Transfers : Pending(t) => transfers[t].ws # mem[r].ws
    /\ \E t \in Lowest({t \in Transfers : transfers[t] = NULL}) :
        transfers' = [transfers EXCEPT ![t] =
            [ws |-> mem[r].ws, from |-> mem[r].by, to |-> to,
             status |-> "pending", expired |-> FALSE]]
    /\ Finish(r)
    /\ UNCHANGED <<type, role, profiles, subscription>>

\* Seven days pass; no statement of the code marks the row.
Expire(t) ==
    /\ Pending(t)
    /\ ~transfers[t].expired
    /\ transfers' = [transfers EXCEPT ![t].expired = TRUE]
    /\ UNCHANGED <<type, role, profiles, subscription, pc, mem>>

\* A wrong version: the responder is not compared with the recipient.
RespondAsAnyone(r, c, t, step) ==
    /\ Pending(t)
    /\ ~transfers[t].expired
    /\ Goto(r, "idle", step)
    /\ mem' = [mem EXCEPT ![r].by = c, ![r].transfer = t, ![r].ws = transfers[t].ws]
    /\ UNCHANGED rows

\* transferRespond: the recipient's pending transfer is read.
Respond(r, c, t, step) ==
    /\ Pending(t)
    /\ transfers[t].to = c
    /\ ~transfers[t].expired
    /\ Goto(r, "idle", step)
    /\ mem' = [mem EXCEPT ![r].by = c, ![r].transfer = t, ![r].ws = transfers[t].ws]
    /\ UNCHANGED rows

\* The rows an accept has written and not yet committed.
MemberLocked(w, c) ==
    \E r \in Requests :
        /\ mem[r].transfer # NULL
        /\ mem[r].ws = w
        /\ \/ mem[r].demoted /\ c = transfers[mem[r].transfer].from
           \/ pc[r] \in {"answer", "commit"} /\ c = transfers[mem[r].transfer].to
TransferLocked(t) == \E r \in Requests : pc[r] = "commit" /\ mem[r].transfer = t

Decline(r) ==
    /\ pc[r] = "decline"
    /\ ~TransferLocked(mem[r].transfer)
    /\ transfers' = [transfers EXCEPT ![mem[r].transfer].status = "declined"]
    /\ Finish(r)
    /\ UNCHANGED <<type, role, profiles, subscription>>

\* update ... where customer = from and role = 'owner'.
Demote(r) ==
    LET t == transfers[mem[r].transfer] IN
    /\ Goto(r, "accept", "promote")
    /\ Owns(t.from, t.ws) => ~MemberLocked(t.ws, t.from)
    /\ mem' = [mem EXCEPT ![r].demoted = Owns(t.from, t.ws)]
    /\ UNCHANGED rows

\* The recipient's membership is updated by id, or inserted.
Promote(r) ==
    LET t == transfers[mem[r].transfer] IN
    /\ Goto(r, "promote", "answer")
    /\ ~MemberLocked(t.ws, t.to)
    /\ UNCHANGED <<rows, mem>>

\* The transfer is updated by id, and the sender's workspaces are counted.
Answer(r) ==
    LET t == transfers[mem[r].transfer]
        left == {w \in Existing : Owns(t.from, w)} \ (IF mem[r].demoted THEN {t.ws} ELSE {})
    IN
    /\ Goto(r, "answer", "commit")
    /\ ~TransferLocked(mem[r].transfer)
    /\ mem' = [mem EXCEPT ![r].homeless = (left = {})]
    /\ UNCHANGED rows

\* A wrong version: a membership the recipient has already stays as it is.
RolesAfterInsertOnly(r) ==
    LET t == transfers[mem[r].transfer] IN
    [role EXCEPT ![t.ws] = [c \in Customers |->
        IF c = t.to /\ @[c] = "none" THEN "owner"
        ELSE IF c = t.from /\ mem[r].demoted THEN "member"
        ELSE @[c]]]

\* The memberships a committed accept leaves, before a replacement.
RolesAfter(r) ==
    LET t == transfers[mem[r].transfer] IN
    [role EXCEPT ![t.ws] = [c \in Customers |->
        IF c = t.to THEN "owner"
        ELSE IF c = t.from /\ mem[r].demoted THEN "member"
        ELSE @[c]]]

\* A sender who was counted without a workspace gets a personal one.
Commit(r) ==
    LET t == transfers[mem[r].transfer] IN
    /\ pc[r] = "commit"
    /\ transfers' = [transfers EXCEPT ![mem[r].transfer].status = "accepted"]
    /\ IF mem[r].homeless
       THEN \E w \in Lowest(Workspaces \ Existing) :
            /\ type' = [type EXCEPT ![w] = "personal"]
            /\ role' = [RolesAfter(r) EXCEPT ![w][t.from] = "owner"]
       ELSE /\ role' = RolesAfter(r)
            /\ UNCHANGED type
    /\ Finish(r)
    /\ UNCHANGED <<profiles, subscription>>

-----------------------------------------------------------------------------
(* Subscriptions                                                           *)

HasSubscription(w, S) == subscription[w] # NULL /\ subscription[w].status \in S

\* A wrong version: the update does not look at the status.
ScheduleAnyCancellation(r) ==
    /\ pc[r] = "schedule"
    /\ subscription[mem[r].ws] # NULL
    /\ \E scheduled \in BOOLEAN :
        subscription' = [subscription EXCEPT ![mem[r].ws].scheduled = scheduled]
    /\ Finish(r)
    /\ UNCHANGED <<type, role, transfers, profiles>>

\* subscriptionCancel: one guarded update, of the owner read before.
ScheduleCancellation(r) ==
    /\ pc[r] = "schedule"
    /\ HasSubscription(mem[r].ws, Live)
    /\ \E scheduled \in BOOLEAN :
        subscription' = [subscription EXCEPT ![mem[r].ws].scheduled = scheduled]
    /\ Finish(r)
    /\ UNCHANGED <<type, role, transfers, profiles>>

\* SubscriptionAdministrationController.lifecycle: one update.
Administer(w, status) ==
    /\ subscription[w] # NULL
    /\ subscription' = [subscription EXCEPT ![w].status = status, ![w].scheduled = FALSE]
    /\ UNCHANGED <<type, role, transfers, profiles, pc, mem>>

\* addOn: the active subscription is read, then the item is inserted; an
\* active code is unique in a subscription.
StartAddOn(r, w) ==
    /\ HasSubscription(w, {"active"})
    /\ Goto(r, "idle", "addOn")
    /\ mem' = [mem EXCEPT ![r].ws = w]
    /\ UNCHANGED rows

AddOn(r, code) ==
    /\ pc[r] = "addOn"
    /\ code \notin subscription[mem[r].ws].items
    /\ subscription' = [subscription EXCEPT ![mem[r].ws].items = @ \union {code}]
    /\ Finish(r)
    /\ UNCHANGED <<type, role, transfers, profiles>>

CancelAddOn(w, code) ==
    /\ subscription[w] # NULL
    /\ code \in subscription[w].items
    /\ subscription' = [subscription EXCEPT ![w].items = @ \ {code}]
    /\ UNCHANGED <<type, role, transfers, profiles, pc, mem>>

\* mergeMissingEntitlements, on a snapshot read at the start of the backfill.
Has(codes, x) == \E i \in DOMAIN codes : codes[i] = x
MergeMissing(codes) == codes \o SelectSeq(Rollout, LAMBDA x : ~Has(codes, x))

BackfillRead(r, w) ==
    /\ HasSubscription(w, Live)
    /\ MergeMissing(subscription[w].codes) # subscription[w].codes
    /\ Goto(r, "idle", "backfill")
    /\ mem' = [mem EXCEPT ![r].ws = w, ![r].merged = MergeMissing(subscription[w].codes)]
    /\ UNCHANGED rows

\* A wrong version: the missing codes are appended to the present row.
BackfillAppend(r) ==
    /\ pc[r] = "backfill"
    /\ subscription' = [subscription EXCEPT ![mem[r].ws].codes = @ \o Rollout]
    /\ Finish(r)
    /\ UNCHANGED <<type, role, transfers, profiles>>

BackfillWrite(r) ==
    /\ pc[r] = "backfill"
    /\ subscription' = [subscription EXCEPT ![mem[r].ws].codes = mem[r].merged]
    /\ Finish(r)
    /\ UNCHANGED <<type, role, transfers, profiles>>

-----------------------------------------------------------------------------
Create ==
    \E c \in Customers, kind \in {"personal", "organisation"}, status \in Live : Configure(c, kind, status)

Identify(r) ==
    \/ \E c \in Customers, w \in Workspaces : StartConvert(r, c, w) \/ Authorize(r, c, w, "billing")
    \/ Convert(r)
    \/ BillingLock(r)
    \/ BillingRead(r)
    \/ BillingInsert(r)

Hand(r) ==
    \/ \E c \in Customers, w \in Workspaces : Authorize(r, c, w, "transfer")
    \/ \E c \in Customers : TransferCreate(r, c)
    \/ \E c \in Customers, t \in Transfers, step \in {"accept", "decline"} : Respond(r, c, t, step)
    \/ Decline(r)
    \/ Demote(r)
    \/ Promote(r)
    \/ Answer(r)
    \/ Commit(r)

Subscribe(r) ==
    \/ \E c \in Customers, w \in Workspaces : Authorize(r, c, w, "schedule")
    \/ ScheduleCancellation(r)
    \/ \E w \in Workspaces : StartAddOn(r, w) \/ BackfillRead(r, w)
    \/ \E code \in AddOns : AddOn(r, code)
    \/ BackfillWrite(r)

Supervise ==
    \/ \E w \in Workspaces, status \in SubscriptionStatus : Administer(w, status)
    \/ \E w \in Workspaces, code \in AddOns : CancelAddOn(w, code)

Lapse == \E t \in Transfers : Expire(t)

Next ==
    \/ Create
    \/ Supervise
    \/ Lapse
    \/ \E r \in Requests : Identify(r) \/ Hand(r) \/ Subscribe(r) \/ Fail(r)

Spec == Init /\ [][Next]_vars

-----------------------------------------------------------------------------
\* A workspace has an owner at all times, whichever transfers are accepted,
\* repeated or declined at once: transferRespond demotes and promotes in one
\* transaction.
AlwaysOwned == \A w \in Existing : \E c \in Customers : Owns(c, w)

\* A customer becomes an owner of a workspace that exists only by their own
\* acceptance of a transfer of it to them, which the same commit closes.
OwnershipIsConsented ==
    [][\A w \in Existing, c \in Customers :
        ~Owns(c, w) /\ Owns(c, w)' =>
            \E r \in Requests :
                /\ mem[r].by = c
                /\ mem[r].transfer # NULL
                /\ transfers[mem[r].transfer].ws = w
                /\ transfers[mem[r].transfer].to = c
                /\ transfers'[mem[r].transfer].status = "accepted"]_vars

\* Billing versions created at once never meet at the unique index: the
\* advisory lock of billingCreate covers both max(version) and the insert.
BillingNeverConflicts == \A r \in Requests : pc[r] # "conflict"

\* A cancellation is scheduled only for a live subscription, although the
\* owner's request and the administrator's may come in any order.
ScheduledIsLive ==
    \A w \in Workspaces :
        subscription[w] # NULL /\ subscription[w].scheduled => subscription[w].status \in Live

\* Backfills of one subscription at the same time add a code once, and keep
\* what was bought as it was bought.
CodesOnce ==
    \A w \in Workspaces : subscription[w] # NULL =>
        LET codes == subscription[w].codes IN
        /\ \A i, j \in DOMAIN codes : codes[i] = codes[j] => i = j
        /\ SubSeq(codes, 1, Len(Purchased)) = Purchased
===============================================================================
