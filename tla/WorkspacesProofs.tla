--------------------------- MODULE WorkspacesProofs ---------------------------
(***************************************************************************)
(* Proofs about module Workspaces, for every number of customers, rows and *)
(* concurrent requests.                                                    *)
(***************************************************************************)
EXTENDS Workspaces, TLAPS

Owned      == {"convert", "billing", "locked", "numbered", "transfer", "schedule"}
Responding == {"accept", "decline", "promote", "answer", "commit"}
Subscribed == {"addOn", "backfill"}
Steps      == {"idle"} \union Owned \union Responding \union Subscribed

IsMem(m) ==
    \E merges :
        m \in [by: Customers \union {NULL}, ws: Workspaces \union {NULL},
              transfer: Transfers \union {NULL}, version: Nat,
              demoted: BOOLEAN, homeless: BOOLEAN, merged: merges]

\* A subscription row; a cancellation is scheduled only for a live one.
IsSubscription(x) ==
    /\ \E items, codes :
        x \in [status: SubscriptionStatus, scheduled: BOOLEAN, items: items, codes: codes]
    /\ x.scheduled => x.status \in Live

RowTypes ==
    /\ type \in [Workspaces -> {"none", "personal", "organisation"}]
    /\ role \in [Workspaces -> [Customers -> {"none", "owner", "member"}]]
    /\ transfers \in [Transfers -> TransferRow \union {NULL}]
    /\ profiles \in [Workspaces -> SUBSET Nat]
    /\ subscription = [w \in Workspaces |-> subscription[w]]
    /\ \A w \in Workspaces : subscription[w] # NULL => IsSubscription(subscription[w])

\* No step of a request is "conflict".
RequestTypes ==
    /\ pc \in [Requests -> Steps]
    /\ mem = [r \in Requests |-> mem[r]]
    /\ \A r \in Requests : IsMem(mem[r])

\* What a request has read still is what its later statements rely on.
GroundedAt(r) ==
    /\ pc[r] \in Owned => mem[r].ws \in Existing /\ mem[r].by \in Customers
    /\ pc[r] \in Subscribed => mem[r].ws \in Workspaces /\ IsSubscription(subscription[mem[r].ws])
    /\ pc[r] \in Responding =>
        /\ mem[r].transfer \in Transfers
        /\ transfers[mem[r].transfer] # NULL
        /\ transfers[mem[r].transfer].to = mem[r].by

Grounded == \A r \in Requests : GroundedAt(r)

\* The versions of a workspace have no gap, one request at a time holds its
\* lock, and what that request has read is the last version.
Dense == \A w \in Workspaces : \E n \in Nat : profiles[w] = 1..n

Exclusive ==
    \A r, s \in Requests : r # s /\ HoldsBilling(r) /\ HoldsBilling(s) => mem[r].ws # mem[s].ws

Numbered ==
    \A r \in Requests : pc[r] = "numbered" =>
        mem[r].version \in Nat /\ profiles[mem[r].ws] = 1..mem[r].version

WsInv == RowTypes /\ RequestTypes /\ Grounded /\ AlwaysOwned /\ Dense /\ Exclusive /\ Numbered

LEMMA WsInit == Init => WsInv
<1> SUFFICES ASSUME Init
             PROVE  WsInv
  OBVIOUS
<1>1. RowTypes
  BY DEF Init, RowTypes
<1>2. RequestTypes
  BY DEF Init, RequestTypes, Steps, IsMem, Nothing
<1>3. Grounded /\ Exclusive /\ Numbered
  BY DEF Init, Grounded, GroundedAt, Owned, Responding, Subscribed, Exclusive, HoldsBilling, Numbered
<1>4. AlwaysOwned
  BY DEF Init, AlwaysOwned, Existing
<1>5. Dense
  <2> SUFFICES ASSUME NEW w \in Workspaces
               PROVE  profiles[w] = 1..0
    BY DEF Dense
  <2> QED
    BY DEF Init
<1> QED
  BY <1>1, <1>2, <1>3, <1>4, <1>5 DEF WsInv

-----------------------------------------------------------------------------
(* What the steps have in common                                           *)

Others(r) == \A s \in Requests \ {r} : pc'[s] = pc[s] /\ mem'[s] = mem[s]

\* Rows are added and changed, and what requests rely on stays.
RowsGrow ==
    /\ Existing \subseteq Existing'
    /\ \A t \in Transfers : transfers[t] # NULL =>
        transfers'[t] # NULL /\ transfers'[t].to = transfers[t].to
    /\ \A w \in Workspaces :
        IsSubscription(subscription[w]) => IsSubscription(subscription'[w])

LEMMA FinishKeeps ==
    ASSUME WsInv, NEW r \in Requests, Finish(r)
    PROVE  RequestTypes' /\ Others(r) /\ pc'[r] = "idle"
<1> USE DEF WsInv, RequestTypes, Finish
<1>1. pc' \in [Requests -> Steps] /\ pc'[r] = "idle"
  BY DEF Steps
<1>2. mem' = [s \in Requests |-> mem'[s]]
  OBVIOUS
<1>3. \A s \in Requests : IsMem(mem'[s])
  <2>1. IsMem(Nothing)
    <3>1. Nothing \in [by: Customers \union {NULL}, ws: Workspaces \union {NULL},
                       transfer: Transfers \union {NULL}, version: Nat,
                       demoted: BOOLEAN, homeless: BOOLEAN, merged: {<<>>}]
      BY DEF Nothing
    <3> QED
      BY <3>1 DEF IsMem
  <2> QED
    BY <2>1
<1>4. Others(r)
  BY DEF Others
<1> QED
  BY <1>1, <1>2, <1>3, <1>4

LEMMA GotoKeeps ==
    ASSUME WsInv, NEW r \in Requests, NEW from, NEW to \in Steps, Goto(r, from, to)
    PROVE  /\ pc' \in [Requests -> Steps]
           /\ pc'[r] = to
           /\ \A s \in Requests \ {r} : pc'[s] = pc[s]
  BY DEF WsInv, RequestTypes, Goto

\* What a request remembers of a statement replaces what it remembered.
LEMMA RemembersKeeps ==
    ASSUME WsInv, NEW r \in Requests, NEW m, IsMem(m), mem' = [mem EXCEPT ![r] = m],
           pc' \in [Requests -> Steps], \A s \in Requests \ {r} : pc'[s] = pc[s]
    PROVE  RequestTypes' /\ Others(r) /\ mem'[r] = m
  BY DEF WsInv, RequestTypes, Others

\* The other requests stay grounded when rows grow.
LEMMA GroundedKept ==
    ASSUME WsInv, NEW r \in Requests, Others(r), RowsGrow, GroundedAt(r)'
    PROVE  Grounded'
<1> SUFFICES ASSUME NEW s \in Requests \ {r}
             PROVE  GroundedAt(s)'
  BY DEF Grounded
<1>1. GroundedAt(s) /\ pc'[s] = pc[s] /\ mem'[s] = mem[s]
  BY DEF WsInv, Grounded, Others
<1> QED
  BY <1>1 DEF GroundedAt, RowsGrow

LEMMA IdleGrounded ==
    ASSUME NEW r \in Requests, pc[r] = "idle"
    PROVE  GroundedAt(r)
  BY DEF GroundedAt, Owned, Responding, Subscribed

\* A step outside billing keeps the versions and their locks.
LEMMA BillingKept ==
    ASSUME WsInv, NEW r \in Requests, Others(r), pc'[r] \notin {"locked", "numbered"},
           UNCHANGED profiles
    PROVE  Dense' /\ Exclusive' /\ Numbered'
<1>1. Dense'
  BY DEF WsInv, Dense
<1>2. Exclusive'
  BY DEF WsInv, Exclusive, HoldsBilling, Others
<1>3. Numbered'
  BY DEF WsInv, Numbered, Others
<1> QED
  BY <1>1, <1>2, <1>3

LEMMA OwnedKept ==
    ASSUME WsInv, UNCHANGED <<type, role>>
    PROVE  AlwaysOwned'
  BY DEF WsInv, AlwaysOwned, Existing, Owns

LEMMA RowsKept ==
    ASSUME WsInv, UNCHANGED rows
    PROVE  RowTypes' /\ RowsGrow
<1>1. RowTypes'
  BY DEF WsInv, RowTypes, rows
<1>2. RowsGrow
  BY DEF RowsGrow, rows, Existing
<1> QED
  BY <1>1, <1>2

\* A request ends, having changed rows that neither billing nor ownership needs.
LEMMA FinishInv ==
    ASSUME WsInv, NEW r \in Requests, Finish(r), RowTypes', RowsGrow,
           UNCHANGED profiles, AlwaysOwned'
    PROVE  WsInv'
<1>1. RequestTypes' /\ Others(r) /\ pc'[r] = "idle"
  BY FinishKeeps
<1>2. Grounded'
  <2>1. GroundedAt(r)'
    BY <1>1 DEF GroundedAt, Owned, Responding, Subscribed
  <2> QED
    BY <1>1, <2>1, GroundedKept
<1>3. Dense' /\ Exclusive' /\ Numbered'
  BY <1>1, BillingKept
<1> QED
  BY <1>1, <1>2, <1>3 DEF WsInv

\* A request goes on to a step outside billing, and no row has changed.
LEMMA ReadInv ==
    ASSUME WsInv, NEW r \in Requests, UNCHANGED rows, RequestTypes', Others(r),
           GroundedAt(r)', pc'[r] \notin {"locked", "numbered"}
    PROVE  WsInv'
<1>1. RowTypes' /\ RowsGrow
  BY RowsKept
<1>2. AlwaysOwned' /\ UNCHANGED profiles
  BY OwnedKept DEF rows
<1>3. Grounded'
  BY <1>1, GroundedKept
<1>4. Dense' /\ Exclusive' /\ Numbered'
  BY <1>2, BillingKept
<1> QED
  BY <1>1, <1>2, <1>3, <1>4 DEF WsInv

-----------------------------------------------------------------------------
(* Workspaces that come from checkouts, and requests that stop              *)

LEMMA FailInv ==
    ASSUME WsInv, NEW r \in Requests, Fail(r)
    PROVE  WsInv'
<1>1. Finish(r) /\ UNCHANGED rows
  BY DEF Fail
<1>2. RowTypes' /\ RowsGrow /\ AlwaysOwned' /\ UNCHANGED profiles
  BY <1>1, RowsKept, OwnedKept DEF rows
<1> QED
  BY <1>1, <1>2, FinishInv

\* Rows change and no request moves.
LEMMA RowsInv ==
    ASSUME WsInv, UNCHANGED <<profiles, pc, mem>>, RowTypes', RowsGrow, AlwaysOwned'
    PROVE  WsInv'
<1>1. RequestTypes'
  BY DEF WsInv, RequestTypes
<1>2. Grounded'
  BY DEF WsInv, Grounded, GroundedAt, RowsGrow
<1>3. Dense' /\ Exclusive' /\ Numbered'
  BY DEF WsInv, Dense, Exclusive, HoldsBilling, Numbered
<1> QED
  BY <1>1, <1>2, <1>3 DEF WsInv

LEMMA NewSubscription ==
    ASSUME NEW status \in Live
    PROVE  IsSubscription([status |-> status, scheduled |-> FALSE, items |-> {}, codes |-> Purchased])
<1>1. [status |-> status, scheduled |-> FALSE, items |-> {}, codes |-> Purchased] \in
        [status: SubscriptionStatus, scheduled: BOOLEAN, items: {{}}, codes: {Purchased}]
  BY DEF SubscriptionStatus
<1> QED
  BY <1>1 DEF IsSubscription

LEMMA ConfigureInv ==
    ASSUME WsInv, NEW c \in Customers, NEW kind \in {"personal", "organisation"},
           NEW status \in Live, Configure(c, kind, status)
    PROVE  WsInv'
<1>1. PICK w \in Lowest(Workspaces \ Existing) :
        /\ type' = [type EXCEPT ![w] = kind]
        /\ role' = [role EXCEPT ![w][c] = "owner"]
        /\ profiles' = [profiles EXCEPT ![w] = {1}]
        /\ subscription' = [subscription EXCEPT ![w] =
                [status |-> status, scheduled |-> FALSE, items |-> {}, codes |-> Purchased]]
  BY DEF Configure
<1>2. w \in Workspaces /\ type[w] = "none" /\ UNCHANGED <<transfers, pc, mem>>
  BY <1>1 DEF Lowest, Existing, Configure
<1>3. RowTypes'
  <2>1. /\ type' \in [Workspaces -> {"none", "personal", "organisation"}]
        /\ role' \in [Workspaces -> [Customers -> {"none", "owner", "member"}]]
        /\ transfers' \in [Transfers -> TransferRow \union {NULL}]
    BY <1>1, <1>2 DEF WsInv, RowTypes
  <2>2. profiles' \in [Workspaces -> SUBSET Nat]
    BY <1>1, <1>2 DEF WsInv, RowTypes
  <2>3. /\ subscription' = [x \in Workspaces |-> subscription'[x]]
        /\ \A x \in Workspaces : subscription'[x] # NULL => IsSubscription(subscription'[x])
    BY <1>1, <1>2, NewSubscription DEF WsInv, RowTypes
  <2> QED
    BY <2>1, <2>2, <2>3 DEF RowTypes
<1>4. RowsGrow
  BY <1>1, <1>2, NewSubscription DEF WsInv, RowTypes, RowsGrow, Existing
<1>5. AlwaysOwned'
  BY <1>1, <1>2 DEF WsInv, RowTypes, AlwaysOwned, Existing, Owns
<1>6. RequestTypes'
  BY <1>2 DEF WsInv, RequestTypes
<1>7. Grounded'
  BY <1>2, <1>4 DEF WsInv, Grounded, GroundedAt, RowsGrow
<1>8. Dense'
  <2> SUFFICES ASSUME NEW x \in Workspaces
               PROVE  \E n \in Nat : profiles'[x] = 1..n
    BY DEF Dense
  <2>1. CASE x = w
    <3>1. profiles'[x] = 1..1
      BY <2>1, <1>1, <1>2 DEF WsInv, RowTypes
    <3> QED
      BY <3>1
  <2>2. CASE x # w
    BY <2>2, <1>1, <1>2 DEF WsInv, RowTypes, Dense
  <2> QED
    BY <2>1, <2>2
<1>9. Exclusive'
  BY <1>2 DEF WsInv, Exclusive, HoldsBilling
<1>10. Numbered'
  <2> SUFFICES ASSUME NEW r \in Requests, pc[r] = "numbered"
               PROVE  mem[r].version \in Nat /\ profiles'[mem[r].ws] = 1..mem[r].version
    BY <1>2 DEF Numbered
  <2>1. mem[r].ws \in Existing
    BY DEF WsInv, Grounded, GroundedAt, Owned
  <2>2. mem[r].ws # w
    BY <2>1, <1>2 DEF Existing
  <2> QED
    BY <2>1, <2>2, <1>1 DEF WsInv, RowTypes, Numbered, Existing
<1> QED
  BY <1>3, <1>4, <1>5, <1>6, <1>7, <1>8, <1>9, <1>10 DEF WsInv

LEMMA AuthorizeInv ==
    ASSUME WsInv, NEW r \in Requests, NEW c \in Customers, NEW w \in Workspaces,
           NEW step \in Owned, step \notin {"locked", "numbered"}, Authorize(r, c, w, step)
    PROVE  WsInv'
<1>1. /\ Goto(r, "idle", step)
      /\ mem' = [mem EXCEPT ![r].by = c, ![r].ws = w]
      /\ w \in Existing
      /\ UNCHANGED rows
  BY DEF Authorize
<1>2. /\ pc' \in [Requests -> Steps]
      /\ pc'[r] = step
      /\ \A s \in Requests \ {r} : pc'[s] = pc[s]
  BY <1>1, GotoKeeps DEF Steps
<1>3. RequestTypes' /\ Others(r) /\ mem'[r].by = c /\ mem'[r].ws = w
  <2> DEFINE n == [mem[r] EXCEPT !.by = c, !.ws = w]
  <2>1. mem' = [mem EXCEPT ![r] = n]
    BY <1>1
  <2>2. IsMem(n) /\ n.by = c /\ n.ws = w
    <3>1. IsMem(mem[r])
      BY DEF WsInv, RequestTypes
    <3> QED
      BY <3>1 DEF IsMem
  <2> HIDE DEF n
  <2> QED
    BY <1>2, <2>1, <2>2, RemembersKeeps
<1>4. GroundedAt(r)'
  BY <1>1, <1>2, <1>3 DEF GroundedAt, Owned, Responding, Subscribed, Existing, rows
<1> QED
  BY <1>1, <1>2, <1>3, <1>4, ReadInv

LEMMA ConvertInv ==
    ASSUME WsInv, NEW r \in Requests, Convert(r)
    PROVE  WsInv'
<1>1. /\ mem[r].ws \in Existing
      /\ type' = [type EXCEPT ![mem[r].ws] = "organisation"]
      /\ Finish(r)
      /\ UNCHANGED <<role, transfers, profiles, subscription>>
  BY DEF Convert, WsInv, Grounded, GroundedAt, Owned
<1>2. Existing' = Existing
  BY <1>1 DEF WsInv, RowTypes, Existing
<1>3. RowTypes'
  BY <1>1 DEF WsInv, RowTypes
<1>4. RowsGrow
  BY <1>1, <1>2 DEF RowsGrow
<1>5. AlwaysOwned'
  BY <1>1, <1>2 DEF WsInv, AlwaysOwned, Owns
<1> QED
  BY <1>1, <1>3, <1>4, <1>5, FinishInv

-----------------------------------------------------------------------------
(* Billing profiles                                                        *)

LEMMA BillingLockInv ==
    ASSUME WsInv, NEW r \in Requests, BillingLock(r)
    PROVE  WsInv'
<1>1. /\ pc[r] = "billing"
      /\ pc' = [pc EXCEPT ![r] = "locked"]
      /\ \A s \in Requests \ {r} : HoldsBilling(s) => mem[s].ws # mem[r].ws
      /\ UNCHANGED <<rows, mem>>
  BY DEF BillingLock, Goto
<1>2. RowTypes' /\ RowsGrow /\ AlwaysOwned' /\ UNCHANGED profiles
  BY <1>1, RowsKept, OwnedKept DEF rows
<1>3. RequestTypes' /\ Others(r) /\ pc'[r] = "locked"
  BY <1>1 DEF WsInv, RequestTypes, Others, Steps, Owned
<1>4. Grounded'
  <2>1. GroundedAt(r)'
    BY <1>1, <1>3 DEF WsInv, Grounded, GroundedAt, Owned, Responding, Subscribed, Existing, rows
  <2> QED
    BY <2>1, <1>2, <1>3, GroundedKept
<1>5. Dense'
  BY <1>2 DEF WsInv, Dense
<1>6. Exclusive'
  <2> SUFFICES ASSUME NEW p \in Requests, NEW q \in Requests, p # q,
                      HoldsBilling(p)', HoldsBilling(q)'
               PROVE  mem[p].ws # mem[q].ws
    BY <1>1 DEF Exclusive
  <2>1. CASE p # r /\ q # r
    BY <2>1, <1>3 DEF WsInv, Exclusive, HoldsBilling, Others
  <2>2. CASE p = r
    BY <2>2, <1>1, <1>3 DEF HoldsBilling, Others
  <2>3. CASE q = r
    BY <2>3, <1>1, <1>3 DEF HoldsBilling, Others
  <2> QED
    BY <2>1, <2>2, <2>3
<1>7. Numbered'
  BY <1>1, <1>2, <1>3 DEF WsInv, Numbered, Others
<1> QED
  BY <1>2, <1>3, <1>4, <1>5, <1>6, <1>7 DEF WsInv

\* The greatest version, 0 when there is none.
LEMMA LastVersion ==
    ASSUME NEW n \in Nat, NEW taken, taken = 1..n
    PROVE  (IF taken = {} THEN 0 ELSE CHOOSE v \in taken : \A u \in taken : u <= v) = n
<1>1. CASE n = 0
  BY <1>1
<1>2. CASE n # 0
  <2>1. n \in taken /\ \A u \in taken : u <= n
    BY <1>2
  <2>2. \A v \in taken : (\A u \in taken : u <= v) => v = n
    BY <2>1
  <2> QED
    BY <2>1, <2>2
<1> QED
  BY <1>1, <1>2

LEMMA ReadVersion ==
    ASSUME NEW m, IsMem(m), NEW v \in Nat
    PROVE  LET n == [m EXCEPT !.version = v]
           IN  IsMem(n) /\ n.version = v /\ n.ws = m.ws /\ n.by = m.by
  BY DEF IsMem

LEMMA BillingReadInv ==
    ASSUME WsInv, NEW r \in Requests, BillingRead(r)
    PROVE  WsInv'
<1> DEFINE taken == profiles[mem[r].ws]
           last  == IF taken = {} THEN 0 ELSE CHOOSE v \in taken : \A u \in taken : u <= v
<1>1. /\ pc[r] = "locked"
      /\ pc' = [pc EXCEPT ![r] = "numbered"]
      /\ mem' = [mem EXCEPT ![r].version = last]
      /\ UNCHANGED rows
  BY DEF BillingRead, Goto
<1>2. mem[r].ws \in Existing /\ mem[r].by \in Customers
  BY <1>1 DEF WsInv, Grounded, GroundedAt, Owned
<1>3. last \in Nat /\ taken = 1..last
  <2>1. PICK n \in Nat : taken = 1..n
    BY <1>2 DEF WsInv, Dense, Existing
  <2>2. last = n
    BY <2>1, LastVersion
  <2> QED
    BY <2>1, <2>2
<1> HIDE DEF last
<1>4. RequestTypes' /\ Others(r) /\ pc'[r] = "numbered" /\ mem'[r].version = last
      /\ mem'[r].ws = mem[r].ws /\ mem'[r].by = mem[r].by
  <2> DEFINE n == [mem[r] EXCEPT !.version = last]
  <2>1. mem' = [mem EXCEPT ![r] = n]
    BY <1>1
  <2>2. IsMem(n) /\ n.version = last /\ n.ws = mem[r].ws /\ n.by = mem[r].by
    BY <1>3, ReadVersion DEF WsInv, RequestTypes
  <2>3. pc' \in [Requests -> Steps] /\ pc'[r] = "numbered" /\ \A s \in Requests \ {r} : pc'[s] = pc[s]
    BY <1>1 DEF WsInv, RequestTypes, Steps, Owned
  <2> HIDE DEF n
  <2> QED
    BY <2>1, <2>2, <2>3, RemembersKeeps
<1>5. RowTypes' /\ RowsGrow /\ AlwaysOwned' /\ UNCHANGED profiles
  BY <1>1, RowsKept, OwnedKept DEF rows
<1>6. Grounded'
  <2>1. GroundedAt(r)'
    BY <1>1, <1>2, <1>4 DEF GroundedAt, Owned, Responding, Subscribed, Existing, rows
  <2> QED
    BY <2>1, <1>4, <1>5, GroundedKept
<1>7. Dense'
  BY <1>5 DEF WsInv, Dense
<1>8. Exclusive'
  BY <1>1, <1>4 DEF WsInv, Exclusive, HoldsBilling, Others
<1>9. Numbered'
  BY <1>3, <1>4, <1>5 DEF WsInv, Numbered, Others
<1> QED
  BY <1>4, <1>5, <1>6, <1>7, <1>8, <1>9 DEF WsInv

LEMMA BillingInsertInv ==
    ASSUME WsInv, NEW r \in Requests, BillingInsert(r)
    PROVE  WsInv'
<1> DEFINE w == mem[r].ws
           v == mem[r].version + 1
<1>1. /\ pc[r] = "numbered"
      /\ w \in Existing
      /\ mem[r].version \in Nat
      /\ profiles[w] = 1..mem[r].version
  BY DEF BillingInsert, WsInv, Grounded, GroundedAt, Owned, Numbered
<1>2. v \notin profiles[w]
  BY <1>1
<1>3. /\ profiles' = [profiles EXCEPT ![w] = @ \union {v}]
      /\ Finish(r)
      /\ UNCHANGED <<type, role, transfers, subscription>>
  BY <1>2 DEF BillingInsert
<1> HIDE DEF w
<1>4. RequestTypes' /\ Others(r) /\ pc'[r] = "idle"
  BY <1>3, FinishKeeps
<1>5. w \in Workspaces /\ profiles'[w] = 1..v /\ v \in Nat
      /\ \A x \in Workspaces \ {w} : profiles'[x] = profiles[x]
  <2>1. w \in Workspaces
    BY <1>1 DEF Existing
  <2>2. profiles'[w] = 1..mem[r].version \union {mem[r].version + 1}
    BY <1>1, <1>3, <2>1 DEF WsInv, RowTypes
  <2>3. 1..mem[r].version \union {mem[r].version + 1} = 1..(mem[r].version + 1)
    BY <1>1
  <2> QED
    BY <1>1, <1>3, <2>1, <2>2, <2>3 DEF WsInv, RowTypes
<1> HIDE DEF v
<1>6. RowTypes'
  <2>1. profiles' \in [Workspaces -> SUBSET Nat]
    <3>1. DOMAIN profiles' = Workspaces /\ profiles' = [x \in Workspaces |-> profiles'[x]]
      BY <1>3 DEF WsInv, RowTypes
    <3>2. \A x \in Workspaces : profiles'[x] \subseteq Nat
      BY <1>5 DEF WsInv, RowTypes
    <3> QED
      BY <3>1, <3>2
  <2> QED
    BY <1>3, <2>1 DEF WsInv, RowTypes
<1>7. RowsGrow /\ AlwaysOwned'
  BY <1>3, OwnedKept DEF RowsGrow, Existing
<1>8. Grounded'
  BY <1>4, <1>7, GroundedKept, IdleGrounded DEF GroundedAt, Owned, Responding, Subscribed
<1>9. Dense'
  BY <1>5 DEF WsInv, Dense
<1>10. Exclusive'
  BY <1>4 DEF WsInv, Exclusive, HoldsBilling, Others
<1>11. Numbered'
  <2> SUFFICES ASSUME NEW s \in Requests, pc'[s] = "numbered"
               PROVE  mem'[s].version \in Nat /\ profiles'[mem'[s].ws] = 1..mem'[s].version
    BY DEF Numbered
  <2>1. s # r /\ pc[s] = "numbered" /\ mem'[s] = mem[s]
    BY <1>4 DEF Others
  <2>2. mem[s].ws # w
    BY <1>1, <2>1 DEF WsInv, Exclusive, HoldsBilling, w
  <2>3. mem[s].ws \in Workspaces
    BY <2>1 DEF WsInv, Grounded, GroundedAt, Owned, Existing
  <2> QED
    BY <1>5, <2>1, <2>2, <2>3 DEF WsInv, Numbered
<1> QED
  BY <1>4, <1>6, <1>7, <1>8, <1>9, <1>10, <1>11 DEF WsInv

-----------------------------------------------------------------------------
(* Ownership transfers                                                     *)

\* Only the transfer rows change, and they stay addressed to whom they were.
LEMMA TransfersChange ==
    ASSUME WsInv, UNCHANGED <<type, role, profiles, subscription>>,
           transfers' \in [Transfers -> TransferRow \union {NULL}],
           \A t \in Transfers : transfers[t] # NULL =>
               transfers'[t] # NULL /\ transfers'[t].to = transfers[t].to
    PROVE  RowTypes' /\ RowsGrow /\ AlwaysOwned'
<1>1. RowTypes'
  BY DEF WsInv, RowTypes
<1>2. RowsGrow
  BY DEF RowsGrow, Existing
<1> QED
  BY <1>1, <1>2, OwnedKept

LEMMA TransferCreateInv ==
    ASSUME WsInv, NEW r \in Requests, NEW to \in Customers, TransferCreate(r, to)
    PROVE  WsInv'
<1>1. PICK t \in Lowest({t \in Transfers : transfers[t] = NULL}) :
        transfers' = [transfers EXCEPT ![t] =
            [ws |-> mem[r].ws, from |-> mem[r].by, to |-> to,
             status |-> "pending", expired |-> FALSE]]
  BY DEF TransferCreate
<1>2. /\ t \in Transfers
      /\ transfers[t] = NULL
      /\ mem[r].ws \in Workspaces
      /\ mem[r].by \in Customers
      /\ Finish(r)
      /\ UNCHANGED <<type, role, profiles, subscription>>
  BY DEF TransferCreate, Lowest, WsInv, Grounded, GroundedAt, Owned, Existing
<1>3. transfers' \in [Transfers -> TransferRow \union {NULL}]
  BY <1>1, <1>2 DEF WsInv, RowTypes, TransferRow
<1>4. \A x \in Transfers : transfers[x] # NULL =>
        transfers'[x] # NULL /\ transfers'[x].to = transfers[x].to
  BY <1>1, <1>2 DEF WsInv, RowTypes
<1>5. RowTypes' /\ RowsGrow /\ AlwaysOwned'
  BY <1>2, <1>3, <1>4, TransfersChange
<1> QED
  BY <1>2, <1>5, FinishInv

\* A field other than the recipient changes in one transfer row.
LEMMA TransferMarked ==
    ASSUME WsInv, NEW t \in Transfers, transfers[t] # NULL,
           \/ transfers' = [transfers EXCEPT ![t].expired = TRUE]
           \/ transfers' = [transfers EXCEPT ![t].status = "declined"]
           \/ transfers' = [transfers EXCEPT ![t].status = "accepted"]
    PROVE  /\ transfers' \in [Transfers -> TransferRow \union {NULL}]
           /\ \A x \in Transfers : transfers[x] # NULL =>
                transfers'[x] # NULL /\ transfers'[x].to = transfers[x].to
<1>1. transfers[t] \in TransferRow
  BY DEF WsInv, RowTypes
<1>2. PICK n \in TransferRow : n.to = transfers[t].to /\ transfers' = [transfers EXCEPT ![t] = n]
  <2> DEFINE Is(n) == n \in TransferRow /\ n.to = transfers[t].to
  <2>1. CASE transfers' = [transfers EXCEPT ![t].expired = TRUE]
    <3>1. Is([transfers[t] EXCEPT !.expired = TRUE])
      BY <1>1 DEF TransferRow
    <3> QED
      BY <2>1, <3>1
  <2>2. CASE transfers' = [transfers EXCEPT ![t].status = "declined"]
    <3>1. Is([transfers[t] EXCEPT !.status = "declined"])
      BY <1>1 DEF TransferRow
    <3> QED
      BY <2>2, <3>1
  <2>3. CASE transfers' = [transfers EXCEPT ![t].status = "accepted"]
    <3>1. Is([transfers[t] EXCEPT !.status = "accepted"])
      BY <1>1 DEF TransferRow
    <3> QED
      BY <2>3, <3>1
  <2> QED
    BY <2>1, <2>2, <2>3
<1>3. n # NULL
  BY NullAssumption
<1> QED
  BY <1>2, <1>3 DEF WsInv, RowTypes

LEMMA ExpireInv ==
    ASSUME WsInv, NEW t \in Transfers, Expire(t)
    PROVE  WsInv'
<1>1. /\ transfers[t] # NULL
      /\ transfers' = [transfers EXCEPT ![t].expired = TRUE]
      /\ UNCHANGED <<type, role, profiles, subscription, pc, mem>>
  BY DEF Expire, Pending
<1>2. RowTypes' /\ RowsGrow /\ AlwaysOwned'
  BY <1>1, TransferMarked, TransfersChange
<1> QED
  BY <1>1, <1>2, RowsInv

LEMMA DeclineInv ==
    ASSUME WsInv, NEW r \in Requests, Decline(r)
    PROVE  WsInv'
<1>1. /\ mem[r].transfer \in Transfers
      /\ transfers[mem[r].transfer] # NULL
      /\ transfers' = [transfers EXCEPT ![mem[r].transfer].status = "declined"]
      /\ Finish(r)
      /\ UNCHANGED <<type, role, profiles, subscription>>
  BY DEF Decline, WsInv, Grounded, GroundedAt, Responding
<1>2. RowTypes' /\ RowsGrow /\ AlwaysOwned'
  BY <1>1, TransferMarked, TransfersChange
<1> QED
  BY <1>1, <1>2, FinishInv

LEMMA RespondInv ==
    ASSUME WsInv, NEW r \in Requests, NEW c \in Customers, NEW t \in Transfers,
           NEW step \in {"accept", "decline"}, Respond(r, c, t, step)
    PROVE  WsInv'
<1>1. /\ transfers[t] # NULL
      /\ transfers[t].to = c
      /\ pc' = [pc EXCEPT ![r] = step]
      /\ mem' = [mem EXCEPT ![r].by = c, ![r].transfer = t, ![r].ws = transfers[t].ws]
      /\ UNCHANGED rows
  BY DEF Respond, Pending, Goto
<1>2. transfers[t].ws \in Workspaces
  BY <1>1 DEF WsInv, RowTypes, TransferRow
<1>3. pc' \in [Requests -> Steps] /\ pc'[r] = step /\ \A s \in Requests \ {r} : pc'[s] = pc[s]
  BY <1>1 DEF WsInv, RequestTypes, Steps, Responding
<1>4. RequestTypes' /\ Others(r) /\ mem'[r].by = c /\ mem'[r].transfer = t
  <2> DEFINE n == [mem[r] EXCEPT !.by = c, !.transfer = t, !.ws = transfers[t].ws]
  <2>1. mem' = [mem EXCEPT ![r] = n]
    BY <1>1
  <2>2. IsMem(n) /\ n.by = c /\ n.transfer = t
    <3>1. IsMem(mem[r])
      BY DEF WsInv, RequestTypes
    <3> QED
      BY <1>2, <3>1 DEF IsMem
  <2> HIDE DEF n
  <2> QED
    BY <1>3, <2>1, <2>2, RemembersKeeps
<1>5. GroundedAt(r)'
  BY <1>1, <1>3, <1>4 DEF GroundedAt, Owned, Responding, Subscribed, rows
<1> QED
  BY <1>1, <1>3, <1>4, <1>5, ReadInv

LEMMA DemoteInv ==
    ASSUME WsInv, NEW r \in Requests, Demote(r)
    PROVE  WsInv'
<1> DEFINE t == transfers[mem[r].transfer]
           demoted == Owns(t.from, t.ws)
<1>1. /\ pc[r] = "accept"
      /\ pc' = [pc EXCEPT ![r] = "promote"]
      /\ mem' = [mem EXCEPT ![r].demoted = demoted]
      /\ UNCHANGED rows
  BY DEF Demote, Goto
<1>2. demoted \in BOOLEAN
  BY DEF Owns
<1> HIDE DEF demoted
<1>3. pc' \in [Requests -> Steps] /\ pc'[r] = "promote" /\ \A s \in Requests \ {r} : pc'[s] = pc[s]
  BY <1>1 DEF WsInv, RequestTypes, Steps, Responding
<1>4. RequestTypes' /\ Others(r) /\ mem'[r].by = mem[r].by /\ mem'[r].transfer = mem[r].transfer
  <2> DEFINE n == [mem[r] EXCEPT !.demoted = demoted]
  <2>1. mem' = [mem EXCEPT ![r] = n]
    BY <1>1
  <2>2. IsMem(n) /\ n.by = mem[r].by /\ n.transfer = mem[r].transfer
    <3>1. IsMem(mem[r])
      BY DEF WsInv, RequestTypes
    <3> QED
      BY <1>2, <3>1 DEF IsMem
  <2> HIDE DEF n
  <2> QED
    BY <1>3, <2>1, <2>2, RemembersKeeps
<1>5. GroundedAt(r)'
  BY <1>1, <1>3, <1>4 DEF WsInv, Grounded, GroundedAt, Owned, Responding, Subscribed, rows
<1> QED
  BY <1>1, <1>3, <1>4, <1>5, ReadInv

LEMMA PromoteInv ==
    ASSUME WsInv, NEW r \in Requests, Promote(r)
    PROVE  WsInv'
<1>1. /\ pc[r] = "promote"
      /\ pc' = [pc EXCEPT ![r] = "answer"]
      /\ UNCHANGED <<rows, mem>>
  BY DEF Promote, Goto
<1>2. RequestTypes' /\ Others(r) /\ pc'[r] = "answer"
  BY <1>1 DEF WsInv, RequestTypes, Others, Steps, Responding
<1>3. GroundedAt(r)'
  BY <1>1, <1>2 DEF WsInv, Grounded, GroundedAt, Owned, Responding, Subscribed, rows
<1> QED
  BY <1>1, <1>2, <1>3, ReadInv

LEMMA AnswerInv ==
    ASSUME WsInv, NEW r \in Requests, Answer(r)
    PROVE  WsInv'
<1>1. PICK homeless \in BOOLEAN :
        /\ pc[r] = "answer"
        /\ pc' = [pc EXCEPT ![r] = "commit"]
        /\ mem' = [mem EXCEPT ![r].homeless = homeless]
        /\ UNCHANGED rows
  BY DEF Answer, Goto
<1>2. pc' \in [Requests -> Steps] /\ pc'[r] = "commit" /\ \A s \in Requests \ {r} : pc'[s] = pc[s]
  BY <1>1 DEF WsInv, RequestTypes, Steps, Responding
<1>3. RequestTypes' /\ Others(r) /\ mem'[r].by = mem[r].by /\ mem'[r].transfer = mem[r].transfer
  <2> DEFINE n == [mem[r] EXCEPT !.homeless = homeless]
  <2>1. mem' = [mem EXCEPT ![r] = n]
    BY <1>1
  <2>2. IsMem(n) /\ n.by = mem[r].by /\ n.transfer = mem[r].transfer
    <3>1. IsMem(mem[r])
      BY DEF WsInv, RequestTypes
    <3> QED
      BY <3>1 DEF IsMem
  <2> HIDE DEF n
  <2> QED
    BY <1>2, <2>1, <2>2, RemembersKeeps
<1>4. GroundedAt(r)'
  BY <1>1, <1>2, <1>3 DEF WsInv, Grounded, GroundedAt, Owned, Responding, Subscribed, rows
<1> QED
  BY <1>1, <1>2, <1>3, <1>4, ReadInv

\* What an accept leaves of the memberships: the recipient owns the workspace
\* of the transfer, and no other owner is added to it.
LEMMA RolesAfterOwners ==
    ASSUME WsInv, NEW r \in Requests, pc[r] = "commit"
    PROVE  LET t == transfers[mem[r].transfer] IN
           /\ t \in TransferRow
           /\ RolesAfter(r) \in [Workspaces -> [Customers -> {"none", "owner", "member"}]]
           /\ RolesAfter(r)[t.ws][t.to] = "owner"
           /\ \A c \in Customers \ {t.to} :
                RolesAfter(r)[t.ws][c] = "owner" => role[t.ws][c] = "owner"
           /\ \A w \in Workspaces \ {t.ws} : RolesAfter(r)[w] = role[w]
<1> DEFINE t == transfers[mem[r].transfer]
           after == [c \in Customers |->
                        IF c = t.to THEN "owner"
                        ELSE IF c = t.from /\ mem[r].demoted THEN "member"
                        ELSE role[t.ws][c]]
<1>1. t \in TransferRow
  BY DEF WsInv, Grounded, GroundedAt, Responding, RowTypes
<1>2. t.ws \in Workspaces /\ t.to \in Customers
  BY <1>1 DEF TransferRow
<1>3. RolesAfter(r) = [role EXCEPT ![t.ws] = after]
  BY DEF RolesAfter
<1> HIDE DEF t
<1>4. after \in [Customers -> {"none", "owner", "member"}]
  BY <1>2 DEF WsInv, RowTypes
<1>5. after[t.to] = "owner" /\ \A c \in Customers \ {t.to} : after[c] = "owner" => role[t.ws][c] = "owner"
  BY <1>2
<1> HIDE DEF after
<1>6. /\ RolesAfter(r) \in [Workspaces -> [Customers -> {"none", "owner", "member"}]]
      /\ RolesAfter(r)[t.ws] = after
      /\ \A w \in Workspaces \ {t.ws} : RolesAfter(r)[w] = role[w]
  BY <1>2, <1>3, <1>4 DEF WsInv, RowTypes
<1> QED
  BY <1>1, <1>5, <1>6 DEF t

\* The memberships after a commit: the recipient owns the workspace of the
\* transfer; another new owner is only that of a workspace that is new too.
LEMMA CommitRoles ==
    ASSUME WsInv, NEW r \in Requests, Commit(r)
    PROVE  LET t == transfers[mem[r].transfer] IN
           /\ t \in TransferRow
           /\ type' \in [Workspaces -> {"none", "personal", "organisation"}]
           /\ role' \in [Workspaces -> [Customers -> {"none", "owner", "member"}]]
           /\ \A w \in Existing : type'[w] = type[w] /\ w \in Existing'
           /\ role'[t.ws][t.to] = "owner"
           /\ \A w \in Workspaces \ (Existing \union {t.ws}) :
                type'[w] # "none" => \E c \in Customers : role'[w][c] = "owner"
           /\ \A w \in Existing \ {t.ws} : role'[w] = role[w]
           /\ t.ws \in Existing =>
                \A c \in Customers \ {t.to} : role'[t.ws][c] = "owner" => role[t.ws][c] = "owner"
<1> DEFINE t == transfers[mem[r].transfer]
<1>1. /\ t \in TransferRow
      /\ RolesAfter(r) \in [Workspaces -> [Customers -> {"none", "owner", "member"}]]
      /\ RolesAfter(r)[t.ws][t.to] = "owner"
      /\ \A c \in Customers \ {t.to} :
            RolesAfter(r)[t.ws][c] = "owner" => role[t.ws][c] = "owner"
      /\ \A w \in Workspaces \ {t.ws} : RolesAfter(r)[w] = role[w]
  BY RolesAfterOwners DEF Commit
<1>2. t.ws \in Workspaces /\ t.to \in Customers /\ t.from \in Customers
  BY <1>1 DEF TransferRow
<1>3. CASE mem[r].homeless
  <2>1. PICK w \in Lowest(Workspaces \ Existing) :
          /\ type' = [type EXCEPT ![w] = "personal"]
          /\ role' = [RolesAfter(r) EXCEPT ![w][t.from] = "owner"]
    BY <1>3 DEF Commit
  <2> HIDE DEF t
  <2>2. w \in Workspaces /\ w \notin Existing
    BY DEF Lowest
  <2>3. /\ type' \in [Workspaces -> {"none", "personal", "organisation"}]
        /\ \A x \in Existing : type'[x] = type[x] /\ x \in Existing'
        /\ \A x \in Workspaces \ Existing : type'[x] # "none" => x = w
    BY <2>1, <2>2 DEF WsInv, RowTypes, Existing
  <2>4. /\ role' \in [Workspaces -> [Customers -> {"none", "owner", "member"}]]
        /\ role'[w][t.from] = "owner"
        /\ \A x \in Workspaces \ {w} : role'[x] = RolesAfter(r)[x]
        /\ role'[t.ws][t.to] = "owner"
    BY <1>1, <1>2, <2>1, <2>2
  <2> QED
    BY <1>1, <1>2, <2>2, <2>3, <2>4 DEF Existing, t
<1>4. CASE ~mem[r].homeless
  <2>1. role' = RolesAfter(r) /\ type' = type
    BY <1>4 DEF Commit
  <2> HIDE DEF t
  <2> QED
    BY <1>1, <1>2, <2>1 DEF WsInv, RowTypes, Existing, t
<1>5. mem[r].homeless \in BOOLEAN
  <2>1. IsMem(mem[r])
    BY DEF WsInv, RequestTypes
  <2> QED
    BY <2>1 DEF IsMem
<1> QED
  BY <1>3, <1>4, <1>5

LEMMA CommitInv ==
    ASSUME WsInv, NEW r \in Requests, Commit(r)
    PROVE  WsInv'
<1> DEFINE t == transfers[mem[r].transfer]
<1>1. /\ pc[r] = "commit"
      /\ transfers' = [transfers EXCEPT ![mem[r].transfer].status = "accepted"]
      /\ Finish(r)
      /\ UNCHANGED <<profiles, subscription>>
  BY DEF Commit
<1>2. mem[r].transfer \in Transfers /\ transfers[mem[r].transfer] # NULL
  BY <1>1 DEF WsInv, Grounded, GroundedAt, Responding
<1>3. /\ transfers' \in [Transfers -> TransferRow \union {NULL}]
      /\ \A x \in Transfers : transfers[x] # NULL =>
           transfers'[x] # NULL /\ transfers'[x].to = transfers[x].to
  BY <1>1, <1>2, TransferMarked
<1>4. /\ t \in TransferRow
      /\ type' \in [Workspaces -> {"none", "personal", "organisation"}]
      /\ role' \in [Workspaces -> [Customers -> {"none", "owner", "member"}]]
      /\ \A w \in Existing : type'[w] = type[w] /\ w \in Existing'
      /\ role'[t.ws][t.to] = "owner"
      /\ \A w \in Workspaces \ (Existing \union {t.ws}) :
           type'[w] # "none" => \E c \in Customers : role'[w][c] = "owner"
      /\ \A w \in Existing \ {t.ws} : role'[w] = role[w]
  BY CommitRoles
<1> HIDE DEF t
<1>5. RowTypes'
  BY <1>1, <1>3, <1>4 DEF WsInv, RowTypes
<1>6. RowsGrow
  BY <1>1, <1>3, <1>4 DEF RowsGrow
<1>7. AlwaysOwned'
  <2> SUFFICES ASSUME NEW w \in Workspaces, type'[w] # "none"
               PROVE  \E c \in Customers : role'[w][c] = "owner"
    BY DEF AlwaysOwned, Existing, Owns
  <2>1. CASE w = t.ws
    BY <2>1, <1>4 DEF TransferRow
  <2>2. CASE w \in Existing \ {t.ws}
    BY <2>2, <1>4 DEF WsInv, AlwaysOwned, Owns
  <2>3. CASE w \notin Existing \union {t.ws}
    BY <2>3, <1>4
  <2> QED
    BY <2>1, <2>2, <2>3
<1> QED
  BY <1>1, <1>5, <1>6, <1>7, FinishInv

-----------------------------------------------------------------------------
(* Subscriptions                                                           *)

\* One subscription row is replaced by one with the same promise.
LEMMA SubscriptionChange ==
    ASSUME WsInv, NEW w \in Workspaces, NEW x, IsSubscription(x),
           subscription' = [subscription EXCEPT ![w] = x],
           UNCHANGED <<type, role, transfers, profiles>>
    PROVE  RowTypes' /\ RowsGrow /\ AlwaysOwned'
<1>1. RowTypes'
  BY DEF WsInv, RowTypes
<1>2. RowsGrow
  BY DEF WsInv, RowTypes, RowsGrow, Existing
<1> QED
  BY <1>1, <1>2, OwnedKept

LEMMA ScheduleCancellationInv ==
    ASSUME WsInv, NEW r \in Requests, ScheduleCancellation(r)
    PROVE  WsInv'
<1> DEFINE w == mem[r].ws
<1>1. /\ w \in Workspaces
      /\ HasSubscription(w, Live)
      /\ Finish(r)
      /\ UNCHANGED <<type, role, transfers, profiles>>
  BY DEF ScheduleCancellation, WsInv, Grounded, GroundedAt, Owned, Existing
<1>2. PICK scheduled \in BOOLEAN :
        subscription' = [subscription EXCEPT ![w].scheduled = scheduled]
  BY DEF ScheduleCancellation
<1> DEFINE x == [subscription[w] EXCEPT !.scheduled = scheduled]
<1>3. IsSubscription(subscription[w]) /\ subscription[w].status \in Live
  BY <1>1 DEF WsInv, RowTypes, HasSubscription
<1>4. IsSubscription(x)
  BY <1>3 DEF IsSubscription
<1>5. subscription' = [subscription EXCEPT ![w] = x]
  BY <1>2
<1> HIDE DEF x, w
<1>6. RowTypes' /\ RowsGrow /\ AlwaysOwned'
  BY <1>1, <1>4, <1>5, SubscriptionChange
<1> QED
  BY <1>1, <1>6, FinishInv

LEMMA AdministerInv ==
    ASSUME WsInv, NEW w \in Workspaces, NEW status \in SubscriptionStatus, Administer(w, status)
    PROVE  WsInv'
<1> DEFINE x == [subscription[w] EXCEPT !.status = status, !.scheduled = FALSE]
<1>1. IsSubscription(subscription[w])
  BY DEF Administer, WsInv, RowTypes
<1>2. IsSubscription(x)
  BY <1>1 DEF IsSubscription
<1>3. subscription' = [subscription EXCEPT ![w] = x]
      /\ UNCHANGED <<type, role, transfers, profiles, pc, mem>>
  BY DEF Administer
<1> HIDE DEF x
<1>4. RowTypes' /\ RowsGrow /\ AlwaysOwned'
  BY <1>2, <1>3, SubscriptionChange
<1> QED
  BY <1>3, <1>4, RowsInv

LEMMA AddOnInv ==
    ASSUME WsInv, NEW r \in Requests, NEW code, AddOn(r, code)
    PROVE  WsInv'
<1> DEFINE w == mem[r].ws
           x == [subscription[w] EXCEPT !.items = @ \union {code}]
<1>1. w \in Workspaces /\ IsSubscription(subscription[w])
  BY DEF AddOn, WsInv, Grounded, GroundedAt, Subscribed
<1>2. IsSubscription(x)
  <2>1. PICK items, codes : subscription[w] \in
          [status: SubscriptionStatus, scheduled: BOOLEAN, items: items, codes: codes]
    BY <1>1 DEF IsSubscription
  <2>2. x \in [status: SubscriptionStatus, scheduled: BOOLEAN, codes: codes,
               items: {subscription[w].items \union {code}}]
    BY <2>1
  <2>3. x.status = subscription[w].status /\ x.scheduled = subscription[w].scheduled
    BY <2>1
  <2> QED
    BY <1>1, <2>2, <2>3 DEF IsSubscription
<1>3. subscription' = [subscription EXCEPT ![w] = x]
      /\ Finish(r) /\ UNCHANGED <<type, role, transfers, profiles>>
  BY DEF AddOn
<1> HIDE DEF x, w
<1>4. RowTypes' /\ RowsGrow /\ AlwaysOwned'
  BY <1>1, <1>2, <1>3, SubscriptionChange
<1> QED
  BY <1>3, <1>4, FinishInv

LEMMA CancelAddOnInv ==
    ASSUME WsInv, NEW w \in Workspaces, NEW code, CancelAddOn(w, code)
    PROVE  WsInv'
<1> DEFINE x == [subscription[w] EXCEPT !.items = @ \ {code}]
<1>1. IsSubscription(subscription[w])
  BY DEF CancelAddOn, WsInv, RowTypes
<1>2. IsSubscription(x)
  <2>1. PICK items, codes : subscription[w] \in
          [status: SubscriptionStatus, scheduled: BOOLEAN, items: items, codes: codes]
    BY <1>1 DEF IsSubscription
  <2>2. x \in [status: SubscriptionStatus, scheduled: BOOLEAN, codes: codes,
               items: {subscription[w].items \ {code}}]
    BY <2>1
  <2>3. x.status = subscription[w].status /\ x.scheduled = subscription[w].scheduled
    BY <2>1
  <2> QED
    BY <1>1, <2>2, <2>3 DEF IsSubscription
<1>3. subscription' = [subscription EXCEPT ![w] = x]
      /\ UNCHANGED <<type, role, transfers, profiles, pc, mem>>
  BY DEF CancelAddOn
<1> HIDE DEF x
<1>4. RowTypes' /\ RowsGrow /\ AlwaysOwned'
  BY <1>2, <1>3, SubscriptionChange
<1> QED
  BY <1>3, <1>4, RowsInv

LEMMA BackfillWriteInv ==
    ASSUME WsInv, NEW r \in Requests, BackfillWrite(r)
    PROVE  WsInv'
<1> DEFINE w == mem[r].ws
           x == [subscription[w] EXCEPT !.codes = mem[r].merged]
<1>1. w \in Workspaces /\ IsSubscription(subscription[w])
  BY DEF BackfillWrite, WsInv, Grounded, GroundedAt, Subscribed
<1>2. IsSubscription(x)
  <2>1. PICK items, codes : subscription[w] \in
          [status: SubscriptionStatus, scheduled: BOOLEAN, items: items, codes: codes]
    BY <1>1 DEF IsSubscription
  <2>2. x \in [status: SubscriptionStatus, scheduled: BOOLEAN, items: items,
               codes: {mem[r].merged}]
    BY <2>1
  <2>3. x.status = subscription[w].status /\ x.scheduled = subscription[w].scheduled
    BY <2>1
  <2> QED
    BY <1>1, <2>2, <2>3 DEF IsSubscription
<1>3. subscription' = [subscription EXCEPT ![w] = x]
      /\ Finish(r) /\ UNCHANGED <<type, role, transfers, profiles>>
  BY DEF BackfillWrite
<1> HIDE DEF x, w
<1>4. RowTypes' /\ RowsGrow /\ AlwaysOwned'
  BY <1>1, <1>2, <1>3, SubscriptionChange
<1> QED
  BY <1>3, <1>4, FinishInv

LEMMA StartAddOnInv ==
    ASSUME WsInv, NEW r \in Requests, NEW w \in Workspaces, StartAddOn(r, w)
    PROVE  WsInv'
<1>1. /\ subscription[w] # NULL
      /\ pc' = [pc EXCEPT ![r] = "addOn"]
      /\ mem' = [mem EXCEPT ![r].ws = w]
      /\ UNCHANGED rows
  BY DEF StartAddOn, HasSubscription, Goto
<1>2. pc' \in [Requests -> Steps] /\ pc'[r] = "addOn" /\ \A s \in Requests \ {r} : pc'[s] = pc[s]
  BY <1>1 DEF WsInv, RequestTypes, Steps, Subscribed
<1>3. RequestTypes' /\ Others(r) /\ mem'[r].ws = w
  <2> DEFINE n == [mem[r] EXCEPT !.ws = w]
  <2>1. mem' = [mem EXCEPT ![r] = n]
    BY <1>1
  <2>2. IsMem(n) /\ n.ws = w
    <3>1. IsMem(mem[r])
      BY DEF WsInv, RequestTypes
    <3> QED
      BY <3>1 DEF IsMem
  <2> HIDE DEF n
  <2> QED
    BY <1>2, <2>1, <2>2, RemembersKeeps
<1>4. GroundedAt(r)'
  BY <1>1, <1>2, <1>3 DEF WsInv, RowTypes, GroundedAt, Owned, Responding, Subscribed, rows
<1> QED
  BY <1>1, <1>2, <1>3, <1>4, ReadInv

LEMMA BackfillReadInv ==
    ASSUME WsInv, NEW r \in Requests, NEW w \in Workspaces, BackfillRead(r, w)
    PROVE  WsInv'
<1> DEFINE merged == MergeMissing(subscription[w].codes)
<1>1. /\ subscription[w] # NULL
      /\ pc' = [pc EXCEPT ![r] = "backfill"]
      /\ mem' = [mem EXCEPT ![r].ws = w, ![r].merged = merged]
      /\ UNCHANGED rows
  BY DEF BackfillRead, HasSubscription, Goto
<1> HIDE DEF merged
<1>2. pc' \in [Requests -> Steps] /\ pc'[r] = "backfill" /\ \A s \in Requests \ {r} : pc'[s] = pc[s]
  BY <1>1 DEF WsInv, RequestTypes, Steps, Subscribed
<1>3. RequestTypes' /\ Others(r) /\ mem'[r].ws = w
  <2> DEFINE n == [mem[r] EXCEPT !.ws = w, !.merged = merged]
  <2>1. mem' = [mem EXCEPT ![r] = n]
    BY <1>1
  <2>2. IsMem(n) /\ n.ws = w
    <3>1. PICK merges :
            mem[r] \in [by: Customers \union {NULL}, ws: Workspaces \union {NULL},
                        transfer: Transfers \union {NULL}, version: Nat,
                        demoted: BOOLEAN, homeless: BOOLEAN, merged: merges]
      BY DEF WsInv, RequestTypes, IsMem
    <3>2. n \in [by: Customers \union {NULL}, ws: Workspaces \union {NULL},
                 transfer: Transfers \union {NULL}, version: Nat,
                 demoted: BOOLEAN, homeless: BOOLEAN, merged: {merged}]
      BY <3>1
    <3> QED
      BY <3>1, <3>2 DEF IsMem
  <2> HIDE DEF n
  <2> QED
    BY <1>2, <2>1, <2>2, RemembersKeeps
<1>4. GroundedAt(r)'
  BY <1>1, <1>2, <1>3 DEF WsInv, RowTypes, GroundedAt, Owned, Responding, Subscribed, rows
<1> QED
  BY <1>1, <1>2, <1>3, <1>4, ReadInv

-----------------------------------------------------------------------------
(* The invariant and what follows from it                                  *)

LEMMA WsStep == WsInv /\ [Next]_vars => WsInv'
<1> SUFFICES ASSUME WsInv, [Next]_vars
             PROVE  WsInv'
  OBVIOUS
<1>1. CASE UNCHANGED vars
  <2>1. UNCHANGED <<profiles, pc, mem>> /\ RowTypes' /\ RowsGrow /\ AlwaysOwned'
    BY <1>1, RowsKept, OwnedKept DEF vars, rows
  <2> QED
    BY <2>1, RowsInv
<1>2. CASE Create
  BY <1>2, ConfigureInv DEF Create
<1>3. CASE Supervise
  BY <1>3, AdministerInv, CancelAddOnInv DEF Supervise
<1>4. CASE Lapse
  BY <1>4, ExpireInv DEF Lapse
<1>5. ASSUME NEW r \in Requests, Identify(r)
      PROVE  WsInv'
  <2>1. ASSUME NEW c \in Customers, NEW w \in Workspaces, StartConvert(r, c, w)
        PROVE  WsInv'
    BY <2>1, AuthorizeInv DEF StartConvert, Owned
  <2>2. ASSUME NEW c \in Customers, NEW w \in Workspaces, Authorize(r, c, w, "billing")
        PROVE  WsInv'
    BY <2>2, AuthorizeInv DEF Owned
  <2> QED
    BY <1>5, <2>1, <2>2, ConvertInv, BillingLockInv, BillingReadInv, BillingInsertInv DEF Identify
<1>6. ASSUME NEW r \in Requests, Hand(r)
      PROVE  WsInv'
  <2>1. ASSUME NEW c \in Customers, NEW w \in Workspaces, Authorize(r, c, w, "transfer")
        PROVE  WsInv'
    BY <2>1, AuthorizeInv DEF Owned
  <2> QED
    BY <1>6, <2>1, TransferCreateInv, RespondInv, DeclineInv, DemoteInv, PromoteInv, AnswerInv, CommitInv
       DEF Hand
<1>7. ASSUME NEW r \in Requests, Subscribe(r)
      PROVE  WsInv'
  <2>1. ASSUME NEW c \in Customers, NEW w \in Workspaces, Authorize(r, c, w, "schedule")
        PROVE  WsInv'
    BY <2>1, AuthorizeInv DEF Owned
  <2> QED
    BY <1>7, <2>1, ScheduleCancellationInv, StartAddOnInv, BackfillReadInv, AddOnInv, BackfillWriteInv
       DEF Subscribe
<1> QED
  BY <1>1, <1>2, <1>3, <1>4, <1>5, <1>6, <1>7, FailInv DEF Next

LEMMA WsInvariant == Spec => []WsInv
  BY WsInit, WsStep, PTL DEF Spec

\* A workspace that exists has an owner in every state, however many
\* transfers of it are answered at once.
THEOREM WorkspacesAlwaysOwned == Spec => []AlwaysOwned
<1>1. WsInv => AlwaysOwned
  BY DEF WsInv
<1> QED
  BY <1>1, WsInvariant, PTL

\* The unique index on the billing versions is never met: versions are dense
\* and the holder of the lock has read the last one.
THEOREM BillingVersionsNeverConflict == Spec => []BillingNeverConflicts
<1>1. WsInv => BillingNeverConflicts
  BY DEF WsInv, RequestTypes, BillingNeverConflicts, Steps, Owned, Responding, Subscribed
<1> QED
  BY <1>1, WsInvariant, PTL

\* A scheduled cancellation is that of a live subscription.
THEOREM ScheduledCancellationsAreLive == Spec => []ScheduledIsLive
<1>1. WsInv => ScheduledIsLive
  BY DEF WsInv, RowTypes, IsSubscription, ScheduledIsLive
<1> QED
  BY <1>1, WsInvariant, PTL

\* Nobody becomes the owner of a workspace that exists but by accepting a
\* transfer of it that was addressed to them.
THEOREM OwnershipOnlyByConsent == Spec => OwnershipIsConsented
<1> DEFINE Consented ==
        \A w \in Existing, c \in Customers :
            ~Owns(c, w) /\ Owns(c, w)' =>
                \E r \in Requests :
                    /\ mem[r].by = c
                    /\ mem[r].transfer # NULL
                    /\ transfers[mem[r].transfer].ws = w
                    /\ transfers[mem[r].transfer].to = c
                    /\ transfers'[mem[r].transfer].status = "accepted"
<1>1. ASSUME WsInv, [Next]_vars
      PROVE  [Consented]_vars
  <2>1. CASE UNCHANGED vars
    BY <2>1
  <2>2. CASE UNCHANGED role
    BY <2>2 DEF Owns
  <2>3. ASSUME NEW r \in Requests, Commit(r)
        PROVE  Consented
    <3> SUFFICES ASSUME NEW w \in Existing, NEW c \in Customers, ~Owns(c, w), Owns(c, w)'
                 PROVE  /\ mem[r].by = c
                        /\ mem[r].transfer # NULL
                        /\ transfers[mem[r].transfer].ws = w
                        /\ transfers[mem[r].transfer].to = c
                        /\ transfers'[mem[r].transfer].status = "accepted"
      OBVIOUS
    <3> DEFINE t == transfers[mem[r].transfer]
    <3>1. /\ mem[r].transfer \in Transfers
          /\ t.to = mem[r].by
          /\ transfers' = [transfers EXCEPT ![mem[r].transfer].status = "accepted"]
      BY <1>1, <2>3 DEF Commit, WsInv, Grounded, GroundedAt, Responding
    <3>2. /\ \A x \in Existing \ {t.ws} : role'[x] = role[x]
          /\ t.ws \in Existing =>
                \A d \in Customers \ {t.to} : role'[t.ws][d] = "owner" => role[t.ws][d] = "owner"
          /\ t \in TransferRow
      BY <1>1, <2>3, CommitRoles
    <3>3. mem[r].transfer # NULL
      BY <3>1, NullAssumption, BoundsAssumption DEF Transfers
    <3>4. transfers'[mem[r].transfer].status = "accepted"
      BY <1>1, <3>1, <3>2 DEF WsInv, RowTypes, TransferRow
    <3> HIDE DEF t
    <3>5. w = t.ws /\ c = t.to
      BY <3>2 DEF Owns
    <3> QED
      BY <3>1, <3>3, <3>4, <3>5 DEF t
  <2>4. ASSUME NEW c \in Customers, NEW kind \in {"personal", "organisation"}, NEW status \in Live,
               Configure(c, kind, status)
        PROVE  Consented
    <3>1. PICK w \in Lowest(Workspaces \ Existing) : role' = [role EXCEPT ![w][c] = "owner"]
      BY <2>4 DEF Configure
    <3>2. \A x \in Existing : role'[x] = role[x]
      BY <3>1 DEF Lowest, WsInv, RowTypes, Existing
    <3> QED
      BY <3>2 DEF Owns
  <2>5. ASSUME NEW r \in Requests, Identify(r) \/ Hand(r) \/ Subscribe(r) \/ Fail(r),
               ~Commit(r)
        PROVE  UNCHANGED role
    <3>0. ASSUME NEW c \in Customers, NEW w \in Workspaces, NEW step, Authorize(r, c, w, step)
          PROVE  UNCHANGED role
      BY <3>0 DEF Authorize, rows
    <3>1. CASE Identify(r)
      <4>1. BillingInsert(r) => UNCHANGED role
        BY DEF BillingInsert, rows
      <4>2. Convert(r) \/ BillingLock(r) \/ BillingRead(r) => UNCHANGED role
        BY DEF Convert, BillingLock, BillingRead, rows
      <4> QED
        BY <3>0, <3>1, <4>1, <4>2 DEF Identify, StartConvert
    <3>2. CASE Hand(r)
      <4>1. ASSUME NEW c \in Customers, NEW t \in Transfers, NEW step, Respond(r, c, t, step)
            PROVE  UNCHANGED role
        BY <4>1 DEF Respond, rows
      <4>2. Decline(r) \/ Demote(r) \/ Promote(r) \/ Answer(r) => UNCHANGED role
        BY DEF Decline, Demote, Promote, Answer, rows
      <4>3. ASSUME NEW c \in Customers, TransferCreate(r, c)
            PROVE  UNCHANGED role
        BY <4>3 DEF TransferCreate
      <4> QED
        BY <2>5, <3>0, <3>2, <4>1, <4>2, <4>3 DEF Hand
    <3>3. CASE Subscribe(r)
      <4>1. ASSUME NEW w \in Workspaces, StartAddOn(r, w) \/ BackfillRead(r, w)
            PROVE  UNCHANGED role
        BY <4>1 DEF StartAddOn, BackfillRead, rows
      <4>2. ScheduleCancellation(r) \/ BackfillWrite(r) => UNCHANGED role
        BY DEF ScheduleCancellation, BackfillWrite
      <4>3. ASSUME NEW code \in AddOns, AddOn(r, code)
            PROVE  UNCHANGED role
        BY <4>3 DEF AddOn
      <4> QED
        BY <3>0, <3>3, <4>1, <4>2, <4>3 DEF Subscribe
    <3>4. CASE Fail(r)
      BY <3>4 DEF Fail, rows
    <3> QED
      BY <2>5, <3>1, <3>2, <3>3, <3>4
  <2>6. CASE Supervise \/ Lapse
    BY <2>2, <2>6 DEF Supervise, Lapse, Administer, CancelAddOn, Expire
  <2>7. CASE Create
    BY <2>4, <2>7 DEF Create
  <2> HIDE DEF Consented
  <2>8. ASSUME NEW r \in Requests, Identify(r) \/ Hand(r) \/ Subscribe(r) \/ Fail(r)
        PROVE  [Consented]_vars
    BY <2>2, <2>3, <2>5, <2>8
  <2> QED
    BY <1>1, <2>1, <2>6, <2>7, <2>8 DEF Next
<1> QED
  BY <1>1, WsInvariant, PTL DEF Spec, OwnershipIsConsented

-----------------------------------------------------------------------------
(* The codes of a subscription                                             *)

Once(codes) == \A i, j \in DOMAIN codes : codes[i] = codes[j] => i = j
Merged == MergeMissing(Purchased)

\* What one merge computes for the two code lists: the codes bought come first,
\* every code is there once, and nothing is left for a second merge.
MergesOnce ==
    /\ \A codes \in {Purchased, Merged} :
        codes \in Seq(STRING) /\ Once(codes) /\ SubSeq(codes, 1, Len(Purchased)) = Purchased
    /\ MergeMissing(Merged) = Merged

\* A row has the codes it was bought with or those of one merge, a backfill is
\* about to write no others, and the row that an add-on or a backfill is for
\* is there.
CodedRow  == {x \in SubscriptionRow : x.codes \in {Purchased, Merged}}
RowCodes  == \A w \in Workspaces : subscription[w] \in CodedRow \union {NULL}
Snapshots == \A r \in Requests :
    /\ pc[r] = "backfill" => mem[r].merged = Merged
    /\ pc[r] \in Subscribed => subscription[mem[r].ws] # NULL
CodesInv  == RowCodes /\ Snapshots

\* A step that starts neither.
NoneStarts == \A r \in Requests : pc'[r] \in Subscribed => pc'[r] = pc[r] /\ mem'[r] = mem[r]
CodesStay ==
    /\ \A w \in Workspaces : subscription'[w] = subscription[w] \/ subscription'[w] \in CodedRow
    /\ NoneStarts

LEMMA StayInv ==
    ASSUME WsInv, CodesInv, CodesStay
    PROVE  CodesInv'
<1>1. RowCodes'
  BY DEF CodesInv, CodesStay, RowCodes
<1>2. ASSUME NEW r \in Requests, pc'[r] \in Subscribed
      PROVE  mem[r].ws \in Workspaces /\ pc'[r] = pc[r] /\ mem'[r] = mem[r]
  BY <1>2 DEF CodesStay, NoneStarts, WsInv, Grounded, GroundedAt
<1>3. \A w \in Workspaces : subscription[w] # NULL => subscription'[w] # NULL
  BY NullAssumption DEF CodesStay, CodedRow
<1>4. Snapshots'
  BY <1>2, <1>3 DEF CodesInv, Snapshots, Subscribed
<1> QED
  BY <1>1, <1>4 DEF CodesInv

LEMMA FinishStays ==
    ASSUME WsInv, NEW r \in Requests, Finish(r)
    PROVE  NoneStarts
  BY FinishKeeps DEF Others, NoneStarts, Subscribed

\* A request that goes on to another step remembers no other codes.
LEMMA GotoStays ==
    ASSUME WsInv, NEW r \in Requests, NEW from, NEW to \in Steps \ Subscribed, Goto(r, from, to),
           \A s \in Requests \ {r} : mem'[s] = mem[s], UNCHANGED subscription
    PROVE  CodesStay
  BY GotoKeeps DEF CodesStay, NoneStarts

\* One row changes.
LEMMA UpdateStays ==
    ASSUME WsInv, NEW w \in Workspaces, NEW x \in CodedRow,
           subscription' = [subscription EXCEPT ![w] = x], NoneStarts
    PROVE  CodesStay
  BY DEF CodesStay, WsInv, RowTypes

LEMMA RequestCodes ==
    ASSUME WsInv, MergesOnce, CodesInv, NEW r \in Requests, Identify(r) \/ Hand(r) \/ Subscribe(r) \/ Fail(r)
    PROVE  CodesInv'
<1> USE DEF rows
<1>1. ASSUME NEW c \in Customers, NEW w \in Workspaces, NEW step \in Owned, Authorize(r, c, w, step)
      PROVE  CodesStay
  <2>1. /\ Goto(r, "idle", step) /\ step \in Steps \ Subscribed /\ UNCHANGED subscription
        /\ \A s \in Requests \ {r} : mem'[s] = mem[s]
    BY <1>1 DEF Authorize, Steps, Owned, Subscribed, WsInv, RequestTypes
  <2> QED
    BY <2>1, GotoStays
<1>2. ASSUME Finish(r), UNCHANGED subscription
      PROVE  CodesStay
  BY <1>2, FinishStays DEF CodesStay
<1>3. CASE Identify(r)
  <2>1. Convert(r) => CodesStay
    BY <1>2 DEF Convert
  <2>2. BillingLock(r) \/ BillingRead(r) => CodesStay
    <3>1. BillingLock(r) => /\ Goto(r, "billing", "locked") /\ UNCHANGED <<subscription, mem>>
      BY DEF BillingLock
    <3>2. BillingRead(r) => /\ Goto(r, "locked", "numbered") /\ UNCHANGED subscription
                            /\ \A s \in Requests \ {r} : mem'[s] = mem[s]
      BY DEF BillingRead, WsInv, RequestTypes
    <3> QED
      BY <3>1, <3>2, GotoStays DEF Steps, Owned, Subscribed
  <2>3. BillingInsert(r) => CodesStay
    <3>1. CASE Finish(r) /\ UNCHANGED subscription
      BY <1>2, <3>1
    <3>2. CASE pc' = [pc EXCEPT ![r] = "conflict"] /\ UNCHANGED <<rows, mem>>
      BY <3>2 DEF CodesStay, NoneStarts, Subscribed, WsInv, RequestTypes
    <3> QED
      BY <3>1, <3>2 DEF BillingInsert
  <2>4. CodesStay
    BY <1>1, <1>3, <2>1, <2>2, <2>3 DEF Identify, StartConvert, Owned
  <2> QED
    BY <2>4, StayInv
<1>4. CASE Hand(r)
  <2>1. ASSUME NEW c \in Customers, TransferCreate(r, c)
        PROVE  CodesStay
    BY <1>2, <2>1 DEF TransferCreate
  <2>2. ASSUME NEW c \in Customers, NEW t \in Transfers, NEW step \in {"accept", "decline"}, Respond(r, c, t, step)
        PROVE  CodesStay
    <3>1. /\ Goto(r, "idle", step) /\ step \in Steps \ Subscribed /\ UNCHANGED subscription
          /\ \A s \in Requests \ {r} : mem'[s] = mem[s]
      BY <2>2 DEF Respond, Steps, Responding, Subscribed, WsInv, RequestTypes
    <3> QED
      BY <3>1, GotoStays
  <2>3. Decline(r) \/ Commit(r) => CodesStay
    BY <1>2 DEF Decline, Commit
  <2>4. Demote(r) \/ Promote(r) \/ Answer(r) => CodesStay
    <3>1. Demote(r) => /\ Goto(r, "accept", "promote") /\ UNCHANGED subscription
                       /\ \A s \in Requests \ {r} : mem'[s] = mem[s]
      BY DEF Demote, WsInv, RequestTypes
    <3>2. Promote(r) => Goto(r, "promote", "answer") /\ UNCHANGED <<subscription, mem>>
      BY DEF Promote
    <3>3. Answer(r) => /\ Goto(r, "answer", "commit") /\ UNCHANGED subscription
                       /\ \A s \in Requests \ {r} : mem'[s] = mem[s]
      BY DEF Answer, WsInv, RequestTypes
    <3> QED
      BY <3>1, <3>2, <3>3, GotoStays DEF Steps, Responding, Subscribed
  <2>5. CodesStay
    BY <1>1, <1>4, <2>1, <2>2, <2>3, <2>4 DEF Hand, Owned
  <2> QED
    BY <2>5, StayInv
<1>5. CASE Subscribe(r)
  <2>1. ScheduleCancellation(r) => CodesStay
    <3> SUFFICES ASSUME ScheduleCancellation(r)
                 PROVE  CodesStay
      OBVIOUS
    <3>1. mem[r].ws \in Workspaces /\ subscription[mem[r].ws] # NULL
      BY DEF ScheduleCancellation, HasSubscription, WsInv, Grounded, GroundedAt, Owned, Existing
    <3>2. PICK scheduled \in BOOLEAN :
              subscription' = [subscription EXCEPT ![mem[r].ws].scheduled = scheduled]
      BY DEF ScheduleCancellation
    <3>3. PICK w \in Workspaces : w = mem[r].ws
      BY <3>1
    <3>4. PICK x : x = [subscription[w] EXCEPT !.scheduled = scheduled]
      OBVIOUS
    <3>5. x \in CodedRow
      BY <3>1, <3>3, <3>4 DEF CodesInv, RowCodes, CodedRow, SubscriptionRow
    <3>6. subscription' = [subscription EXCEPT ![w] = x]
      BY <3>2, <3>3, <3>4
    <3> QED
      BY <3>3, <3>5, <3>6, FinishStays, UpdateStays DEF ScheduleCancellation
  <2>2. ASSUME NEW w \in Workspaces, StartAddOn(r, w)
        PROVE  CodesInv'
    <3>1. /\ UNCHANGED subscription /\ pc'[r] = "addOn" /\ subscription[w] # NULL
          /\ \A s \in Requests \ {r} : pc'[s] = pc[s] /\ mem'[s] = mem[s]
      BY <2>2 DEF StartAddOn, HasSubscription, Goto, WsInv, RequestTypes
    <3>2. mem'[r].ws = w
      <4>1. IsMem(mem[r]) /\ mem' = [mem EXCEPT ![r].ws = w]
        BY <2>2 DEF StartAddOn, WsInv, RequestTypes
      <4> QED
        BY <4>1 DEF IsMem, WsInv, RequestTypes
    <3> QED
      BY <3>1, <3>2 DEF CodesInv, RowCodes, Snapshots
  <2>3. ASSUME NEW code \in AddOns, AddOn(r, code)
        PROVE  CodesStay
    <3>1. mem[r].ws \in Workspaces /\ subscription[mem[r].ws] # NULL /\ Finish(r)
      BY <2>3 DEF AddOn, WsInv, Grounded, GroundedAt, Subscribed, CodesInv, Snapshots
    <3>2. PICK w \in Workspaces : w = mem[r].ws
      BY <3>1
    <3>3. PICK x : x = [subscription[w] EXCEPT !.items = @ \union {code}]
      OBVIOUS
    <3>4. x \in CodedRow
      BY <3>1, <3>2, <3>3 DEF CodesInv, RowCodes, CodedRow, SubscriptionRow
    <3>5. subscription' = [subscription EXCEPT ![w] = x]
      BY <2>3, <3>2, <3>3 DEF AddOn
    <3> QED
      BY <3>1, <3>4, <3>5, FinishStays, UpdateStays
  <2>4. ASSUME NEW w \in Workspaces, BackfillRead(r, w)
        PROVE  CodesInv'
    <3>1. subscription[w].codes = Purchased
      BY <2>4 DEF BackfillRead, HasSubscription, CodesInv, RowCodes, CodedRow, MergesOnce
    <3>2. /\ UNCHANGED subscription /\ pc'[r] = "backfill"
          /\ \A s \in Requests \ {r} : pc'[s] = pc[s] /\ mem'[s] = mem[s]
      BY <2>4 DEF BackfillRead, Goto, WsInv, RequestTypes
    <3>3. mem'[r].merged = Merged /\ mem'[r].ws = w /\ subscription[w] # NULL
      <4>1. IsMem(mem[r])
        BY DEF WsInv, RequestTypes
      <4>2. mem' = [mem EXCEPT ![r].ws = w, ![r].merged = Merged] /\ subscription[w] # NULL
        BY <2>4, <3>1 DEF BackfillRead, HasSubscription, Merged
      <4> QED
        BY <4>1, <4>2 DEF IsMem, WsInv, RequestTypes
    <3> QED
      BY <3>2, <3>3 DEF CodesInv, RowCodes, Snapshots, Subscribed
  <2>5. BackfillWrite(r) => CodesStay
    <3> SUFFICES ASSUME BackfillWrite(r)
                 PROVE  CodesStay
      OBVIOUS
    <3>1. /\ mem[r].ws \in Workspaces /\ IsSubscription(subscription[mem[r].ws])
          /\ mem[r].merged = Merged /\ Finish(r)
      BY DEF BackfillWrite, WsInv, Grounded, GroundedAt, Subscribed, CodesInv, Snapshots
    <3>2. PICK w \in Workspaces : w = mem[r].ws
      BY <3>1
    <3>3. PICK x : x = [subscription[w] EXCEPT !.codes = Merged]
      OBVIOUS
    <3>4. subscription' = [subscription EXCEPT ![w] = x]
      BY <3>1, <3>2, <3>3 DEF BackfillWrite
    <3>5. subscription[w] # NULL
      BY <3>1, <3>2 DEF BackfillWrite, Subscribed, CodesInv, Snapshots
    <3>6. x \in CodedRow
      BY <3>3, <3>5 DEF CodesInv, RowCodes, CodedRow, SubscriptionRow, MergesOnce
    <3> QED
      BY <3>1, <3>4, <3>6, FinishStays, UpdateStays
  <2> QED
    BY <1>1, <1>5, <2>1, <2>2, <2>3, <2>4, <2>5, StayInv DEF Subscribe, Owned
<1>6. CASE Fail(r)
  BY <1>2, <1>6, StayInv DEF Fail
<1> QED
  BY <1>3, <1>4, <1>5, <1>6

LEMMA CodesStep ==
    ASSUME WsInv, MergesOnce, CodesInv, [Next]_vars
    PROVE  CodesInv'
<1>1. CASE UNCHANGED vars
  BY <1>1, StayInv DEF vars, rows, CodesStay, NoneStarts
<1>2. ASSUME NEW c \in Customers, NEW kind, NEW status \in Live, Configure(c, kind, status)
      PROVE  CodesInv'
  <2>1. PICK w \in Workspaces : subscription' = [subscription EXCEPT ![w] =
              [status |-> status, scheduled |-> FALSE, items |-> {}, codes |-> Purchased]]
    BY <1>2 DEF Configure, Lowest
  <2>2. [status |-> status, scheduled |-> FALSE, items |-> {}, codes |-> Purchased] \in CodedRow
    BY DEF CodedRow, SubscriptionRow, SubscriptionStatus, MergesOnce
  <2>3. NoneStarts
    BY <1>2 DEF Configure, NoneStarts
  <2> QED
    BY <2>1, <2>2, <2>3, UpdateStays, StayInv
<1>3. ASSUME NEW w \in Workspaces, NEW status \in SubscriptionStatus, Administer(w, status)
      PROVE  CodesInv'
  <2>1. PICK x : x = [subscription[w] EXCEPT !.status = status, !.scheduled = FALSE]
    OBVIOUS
  <2>2. x \in CodedRow /\ NoneStarts
    BY <1>3, <2>1 DEF Administer, NoneStarts, CodesInv, RowCodes, CodedRow, SubscriptionRow
  <2>3. subscription' = [subscription EXCEPT ![w] = x]
    BY <1>3, <2>1 DEF Administer
  <2> QED
    BY <2>2, <2>3, UpdateStays, StayInv
<1>4. ASSUME NEW w \in Workspaces, NEW code \in AddOns, CancelAddOn(w, code)
      PROVE  CodesInv'
  <2>1. PICK x : x = [subscription[w] EXCEPT !.items = @ \ {code}]
    OBVIOUS
  <2>2. x \in CodedRow /\ NoneStarts
    BY <1>4, <2>1 DEF CancelAddOn, NoneStarts, CodesInv, RowCodes, CodedRow, SubscriptionRow
  <2>3. subscription' = [subscription EXCEPT ![w] = x]
    BY <1>4, <2>1 DEF CancelAddOn
  <2> QED
    BY <2>2, <2>3, UpdateStays, StayInv
<1>5. Lapse => CodesInv'
  BY StayInv DEF Lapse, Expire, CodesStay, NoneStarts
<1> QED
  BY <1>1, <1>2, <1>3, <1>4, <1>5, RequestCodes DEF Next, Create, Supervise

\* However many backfills of a subscription overlap, with each other and with
\* the administrator's and the owner's changes, its row has each code once and
\* begins with the codes that were bought.  The hypothesis is about the two code
\* lists of a deployment alone, not about the requests.
THEOREM BackfillsAddCodesOnce ==
    ASSUME MergesOnce
    PROVE  Spec => []CodesOnce
<1>1. Init => CodesInv
  BY DEF Init, CodesInv, RowCodes, Snapshots, Subscribed
<1>2. WsInv /\ CodesInv /\ [Next]_vars => CodesInv'
  BY CodesStep
<1>3. CodesInv => CodesOnce
  BY DEF CodesInv, RowCodes, CodedRow, CodesOnce, MergesOnce, Once
<1> QED
  BY <1>1, <1>2, <1>3, WsInvariant, PTL DEF Spec
===============================================================================
