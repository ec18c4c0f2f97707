----------------------------- MODULE AccountsProofs -----------------------------
(***************************************************************************)
(* Proofs about module Accounts: a code or a handoff opens one session,    *)
(* registrations of one identity never collide, wrong codes stay within    *)
(* their limit, and a refused session stays refused, for every number of   *)
(* identities, codes, handoffs, sessions and requests.                     *)
(***************************************************************************)
EXTENDS Accounts, TLAPS

Places == {"idle", "send", "resend", "compare", "claim", "resolve", "register", "insert",
           "conflict", "enter", "open", "handoff", "revoke", "revokeOthers", "admit",
           "create", "roles", "update", "remove", "close"}

Memory == [identity : Identities \union {NONE}, user : Users \union {NONE}, version : Nat,
           complete : BOOLEAN, proof : Challenges \union {NONE}, handoff : Handoffs \union {NONE},
           session : Sessions \union {NONE}, attempts : Nat, status : {"active", "suspended"},
           fresh : BOOLEAN]

AccountTypes ==
    /\ users      \in [Users -> AccountRow \union {NONE}]
    /\ challenges \in [Challenges -> ChallengeRow \union {NONE}]
    /\ handoffs   \in [Handoffs -> HandoffRow \union {NONE}]
    /\ sessions   \in [Sessions -> SessionRow \union {NONE}]
    /\ at         \in [Handlers -> Places]
    /\ held       \in [Handlers -> Memory]

LEMMA NoneIsNoRow == NONE \notin Users /\ NONE \notin Challenges /\ NONE \notin Handoffs
  BY AccountsAssumption, NoneAssumption DEF Users, Challenges, Handoffs

-----------------------------------------------------------------------------
(* What a request has read                                                 *)

Known(u) == u \in Users /\ users[u] # NONE
Issued(h) == h \in Challenges /\ challenges[h] # NONE

\* An account at a version it has had.
Recorded(u, v) == Known(u) /\ v <= users[u].version

\* The accounts of an identity come from administrators.
OnlyCreated(i) == \A u \in Account(i) : users[u].made = "created"
SomeCreated(i) == \E u \in Users : users[u] # NONE /\ users[u].identity = i /\ users[u].made = "created"

WithProof(m) == Issued(m.proof) /\ m.handoff = NONE
Registering(r) == at[r] = "insert" \/ (at[r] = "enter" /\ held[r].fresh)

\* What lets a request in: a code it has claimed, or a handoff it has consumed.
Presents(r) == HoldsProof(r) \/ at[r] \in {"admit", "open"}
Pass(m) == <<m.proof, m.handoff>>

\* A code or handoff that has been used up.
Spent(pass) ==
    \/ Issued(pass[1]) /\ challenges[pass[1]].consumed /\ pass[2] = NONE
    \/ pass[1] = NONE /\ pass[2] \in Handoffs /\ handoffs[pass[2]] # NONE /\ handoffs[pass[2]].consumed

Unused(pass) == \A s \in Sessions : sessions[s] # NONE => sessions[s].by # pass

MemoryHolds(r) ==
    LET m == held[r] IN
    /\ at[r] = "idle" => m = Blank
    /\ at[r] \in {"send", "create"} => m.identity \in Identities
    /\ at[r] = "resend" => Issued(m.proof)
    /\ at[r] \in {"compare", "claim"} \/ HoldsProof(r) => WithProof(m)
    /\ at[r] \in {"compare", "claim", "resolve", "admit"} => m.identity = NONE
    /\ at[r] \in {"register", "insert", "conflict"} => m.identity \in Identities
    /\ m.fresh => at[r] \in {"enter", "open"}
    /\ at[r] = "enter" /\ m.fresh => m.identity \in Identities /\ m.version = 1
    /\ at[r] = "open" \/ (at[r] = "enter" /\ ~m.fresh) => Recorded(m.user, m.version)
    /\ at[r] \in {"admit", "handoff", "revoke", "revokeOthers", "roles", "update", "remove", "close"}
        => Known(m.user)

\* What others must not take from a request.
GuardHolds(r) ==
    LET m == held[r] IN
    /\ HoldsProof(r) => ~challenges[m.proof].consumed
    /\ at[r] \in {"admit", "open"} => Spent(Pass(m)) /\ Unused(Pass(m))
    /\ Registering(r) => OnlyCreated(m.identity)
    /\ at[r] = "conflict" => SomeCreated(m.identity)

Separate(q, r) ==
    /\ Presents(q) /\ Presents(r) => Pass(held[q]) # Pass(held[r])
    /\ HoldsIdentity(q) /\ HoldsIdentity(r) => held[q].identity # held[r].identity

SessionsHold ==
    \A s \in Sessions : sessions[s] # NONE =>
        /\ Spent(sessions[s].by)
        /\ Recorded(sessions[s].user, sessions[s].version)

HandoffsHold == \A k \in Handoffs : handoffs[k] # NONE => Known(handoffs[k].user)

RequestsHold == \A r \in Handlers : MemoryHolds(r) /\ GuardHolds(r)
RequestsApart == \A q, r \in Handlers : q # r => Separate(q, r)

AccountsInv ==
    /\ AccountTypes
    /\ RequestsHold
    /\ RequestsApart
    /\ SessionsHold
    /\ HandoffsHold
    /\ OneSessionPerProof

LEMMA InitInv == AccountsInit => AccountsInv
  <1> SUFFICES ASSUME AccountsInit PROVE AccountsInv
    OBVIOUS
  <1> USE AccountsAssumption, NoneAssumption DEF AccountsInit
  <1>1. Blank \in Memory
    BY DEF Blank, Memory
  <1>2. NewAccount(Seeded, "created", TRUE) \in AccountRow
    BY DEF NewAccount, AccountRow
  <1>3. AccountTypes
    BY <1>1, <1>2 DEF AccountTypes, Places
  <1>4. RequestsHold
    BY DEF RequestsHold, MemoryHolds, GuardHolds, HoldsProof, Registering, Blank
  <1>5. RequestsApart
    BY DEF RequestsApart, Separate, Presents, HoldsProof, HoldsIdentity
  <1>6. SessionsHold /\ HandoffsHold /\ OneSessionPerProof
    BY DEF SessionsHold, HandoffsHold, OneSessionPerProof
  <1> QED BY <1>3, <1>4, <1>5, <1>6 DEF AccountsInv

-----------------------------------------------------------------------------
(* Kinds of steps                                                          *)

Kept(q) == at'[q] = at[q] /\ held'[q] = held[q]

Renewed(q) ==
    /\ MemoryHolds(q)'
    /\ GuardHolds(q)'
    /\ \A p \in Handlers \ {q} : Separate(p, q)'

\* Rows are added, and none is taken back: accounts keep their identity and
\* their origin, versions rise, codes and handoffs stay consumed.
UsersGrow ==
    \A u \in Users : users[u] # NONE =>
        /\ users'[u] # NONE
        /\ users'[u].identity = users[u].identity
        /\ users'[u].made = users[u].made
        /\ users[u].version <= users'[u].version
        /\ users[u].gone => users'[u].gone

ChallengesGrow ==
    \A h \in Challenges : challenges[h] # NONE =>
        challenges'[h] # NONE /\ (challenges[h].consumed => challenges'[h].consumed)

HandoffsGrow ==
    \A k \in Handoffs : handoffs[k] # NONE =>
        /\ handoffs'[k] # NONE
        /\ handoffs'[k].user = handoffs[k].user
        /\ handoffs[k].consumed => handoffs'[k].consumed

TablesGrow == UsersGrow /\ ChallengesGrow /\ HandoffsGrow

\* A step takes nothing from a request that it does not move.
Spares(q) ==
    /\ HoldsProof(q) => ~challenges'[held[q].proof].consumed
    /\ Registering(q) => OnlyCreated(held[q].identity)'
    /\ at[q] \in {"admit", "open"} => Unused(Pass(held[q]))'

LEMMA RecordedStays ==
    ASSUME AccountTypes, AccountTypes', UsersGrow, NEW u, NEW v \in Nat, Recorded(u, v)
    PROVE  Recorded(u, v)'
  <1>1. u \in Users /\ users[u] \in AccountRow /\ users'[u] \in AccountRow
    BY DEF Recorded, Known, AccountTypes, UsersGrow
  <1>2. users[u].version \in Nat /\ users'[u].version \in Nat
    BY <1>1 DEF AccountRow
  <1>3. users'[u] # NONE /\ users[u].version <= users'[u].version /\ v <= users[u].version
    BY <1>1 DEF UsersGrow, Recorded, Known
  <1> QED BY <1>1, <1>2, <1>3 DEF Recorded, Known

LEMMA SpentStays ==
    ASSUME TablesGrow, NEW pass, Spent(pass)
    PROVE  Spent(pass)'
  BY DEF TablesGrow, ChallengesGrow, HandoffsGrow, Spent, Issued

LEMMA KeptHolds ==
    ASSUME AccountTypes, AccountTypes', TablesGrow, NEW q \in Handlers,
           MemoryHolds(q), GuardHolds(q), Kept(q), Spares(q)
    PROVE  MemoryHolds(q)' /\ GuardHolds(q)'
  <1>1. at'[q] = at[q] /\ held'[q] = held[q] /\ held[q] \in Memory
    BY DEF Kept, AccountTypes
  <1>2. PICK m \in Memory : m = held[q] /\ m = held'[q]
    BY <1>1
  <1>3. Recorded(m.user, m.version) => Recorded(m.user, m.version)'
    BY RecordedStays DEF TablesGrow, Memory
  <1>4. /\ Known(m.user) => Known(m.user)'
        /\ Issued(m.proof) => Issued(m.proof)'
    BY DEF Known, Issued, TablesGrow, UsersGrow, ChallengesGrow
  <1>5. Spent(Pass(m)) => Spent(Pass(m))'
    BY SpentStays
  <1>6. SomeCreated(m.identity) => SomeCreated(m.identity)'
    BY DEF SomeCreated, TablesGrow, UsersGrow
  <1>7. (HoldsProof(q)' <=> HoldsProof(q)) /\ (Registering(q)' <=> Registering(q))
    BY <1>1 DEF HoldsProof, Registering
  <1>8. MemoryHolds(q)'
    BY <1>1, <1>2, <1>3, <1>4, <1>7 DEF MemoryHolds, WithProof
  <1>9. GuardHolds(q)'
    BY <1>1, <1>2, <1>5, <1>6, <1>7 DEF GuardHolds, Spares
  <1> QED BY <1>8, <1>9

LEMMA StepInv ==
    ASSUME AccountsInv, AccountTypes', TablesGrow,
           \A q \in Handlers : (Kept(q) /\ Spares(q)) \/ Renewed(q),
           SessionsHold', HandoffsHold', OneSessionPerProof'
    PROVE  AccountsInv'
  <1>1. RequestsHold'
    <2> SUFFICES ASSUME NEW q \in Handlers PROVE MemoryHolds(q)' /\ GuardHolds(q)'
      BY DEF RequestsHold
    <2>1. CASE Renewed(q)
      BY <2>1 DEF Renewed
    <2>2. CASE Kept(q) /\ Spares(q)
      BY <2>2, KeptHolds DEF AccountsInv, RequestsHold
    <2> QED BY <2>1, <2>2
  <1>2. RequestsApart'
    <2> SUFFICES ASSUME NEW p \in Handlers, NEW q \in Handlers, p # q
                 PROVE  Separate(p, q)'
      BY DEF RequestsApart
    <2>1. CASE Renewed(q)
      BY <2>1 DEF Renewed
    <2>2. CASE Renewed(p)
      <3>1. Separate(q, p)'
        BY <2>2 DEF Renewed
      <3> QED BY <3>1 DEF Separate
    <2>3. CASE Kept(p) /\ Kept(q)
      <3>1. Separate(p, q)
        BY DEF AccountsInv, RequestsApart
      <3> QED
        BY <2>3, <3>1 DEF Separate, Kept, Presents, HoldsProof, HoldsIdentity, Pass
    <2> QED BY <2>1, <2>2, <2>3
  <1> QED BY <1>1, <1>2 DEF AccountsInv

\* What most steps leave as it is: the origin of an identity's accounts, the
\* codes that are consumed, and what opened each session.
OriginsStay == \A i \in Identities : OnlyCreated(i) => OnlyCreated(i)'
ConsumedStays ==
    \A h \in Challenges : challenges[h] # NONE => challenges'[h].consumed = challenges[h].consumed
SessionsStay ==
    \A s \in Sessions : sessions'[s] # NONE =>
        /\ sessions[s] # NONE
        /\ sessions'[s].by = sessions[s].by
        /\ sessions'[s].user = sessions[s].user
        /\ sessions'[s].version = sessions[s].version

LEMMA SessionsKept ==
    ASSUME AccountsInv, AccountTypes', TablesGrow, SessionsStay
    PROVE  SessionsHold' /\ OneSessionPerProof'
  <1>1. ASSUME NEW s \in Sessions, sessions'[s] # NONE
        PROVE  Spent(sessions[s].by)' /\ Recorded(sessions[s].user, sessions[s].version)'
    <2>1. PICK row \in SessionRow : /\ row = sessions[s]
                                    /\ sessions'[s].by = row.by
                                    /\ sessions'[s].user = row.user
                                    /\ sessions'[s].version = row.version
      BY <1>1 DEF SessionsStay, AccountsInv, AccountTypes
    <2>2. Spent(row.by) /\ Recorded(row.user, row.version)
      BY <1>1, <2>1 DEF SessionsStay, AccountsInv, SessionsHold
    <2>3. Spent(row.by)'
      BY <2>2, SpentStays
    <2>4. Recorded(row.user, row.version)'
      BY <2>2, RecordedStays DEF AccountsInv, TablesGrow, SessionRow
    <2> QED BY <2>1, <2>3, <2>4
  <1>2. OneSessionPerProof'
    BY DEF SessionsStay, AccountsInv, OneSessionPerProof
  <1> QED BY <1>1, <1>2 DEF SessionsHold

\* A request that keeps what it had is spared by what stays.
LEMMA SparedByStays ==
    ASSUME AccountsInv, OriginsStay, ConsumedStays, SessionsStay,
           NEW q \in Handlers, Kept(q)
    PROVE  Spares(q)
  <1>1. MemoryHolds(q) /\ GuardHolds(q)
    BY DEF AccountsInv, RequestsHold
  <1>2. HoldsProof(q) => ~challenges'[held[q].proof].consumed
    BY <1>1 DEF MemoryHolds, GuardHolds, WithProof, Issued, ConsumedStays
  <1>3. ASSUME Registering(q) PROVE OnlyCreated(held[q].identity)'
    <2>1. PICK i \in Identities : i = held[q].identity
      BY <1>1, <1>3 DEF MemoryHolds, Registering
    <2>2. OnlyCreated(i)'
      BY <1>1, <1>3, <2>1 DEF GuardHolds, OriginsStay
    <2> QED BY <2>1, <2>2 DEF Kept
  <1>4. at[q] \in {"admit", "open"} => Unused(Pass(held[q]))'
    BY <1>1 DEF GuardHolds, Unused, SessionsStay, Kept, Pass
  <1> QED BY <1>2, <1>3, <1>4 DEF Spares

LEMMA StaysInv ==
    ASSUME AccountsInv, AccountTypes', TablesGrow, OriginsStay, ConsumedStays, SessionsStay,
           \A q \in Handlers : Kept(q) \/ Renewed(q),
           HandoffsHold'
    PROVE  AccountsInv'
  BY SessionsKept, SparedByStays, StepInv

-----------------------------------------------------------------------------
(* Tables that a step leaves alone                                         *)

LEMMA UsersSame ==
    ASSUME AccountTypes, UNCHANGED users
    PROVE  UsersGrow /\ OriginsStay
  <1>1. \A u \in Users : users[u] # NONE => users[u].version \in Nat
    BY DEF AccountTypes, AccountRow
  <1> QED BY <1>1 DEF UsersGrow, OriginsStay, OnlyCreated, Account, Present

LEMMA ChallengesSame ==
    ASSUME UNCHANGED challenges
    PROVE  ChallengesGrow /\ ConsumedStays
  BY DEF ChallengesGrow, ConsumedStays

LEMMA HandoffsSame ==
    ASSUME AccountsInv, UNCHANGED handoffs, UsersGrow
    PROVE  HandoffsGrow /\ HandoffsHold'
  BY DEF HandoffsGrow, HandoffsHold, UsersGrow, AccountsInv, Known

LEMMA SessionsSame ==
    ASSUME UNCHANGED sessions
    PROVE  SessionsStay
  BY DEF SessionsStay

\* A request that moves on its own.
LEMMA MoveInv ==
    ASSUME AccountsInv, UNCHANGED tables, NEW r \in Handlers, NEW p \in Places, NEW m \in Memory,
           at' = [at EXCEPT ![r] = p], held' = [held EXCEPT ![r] = m], Renewed(r)
    PROVE  AccountsInv'
  <1>1. AccountTypes'
    BY DEF AccountsInv, AccountTypes, tables
  <1>2. \A q \in Handlers \ {r} : Kept(q)
    BY DEF AccountsInv, AccountTypes, Kept
  <1>3. AccountTypes
    BY DEF AccountsInv
  <1> QED
    BY <1>1, <1>2, <1>3, UsersSame, ChallengesSame, HandoffsSame, SessionsSame, StaysInv
       DEF tables, TablesGrow

\* Where a request presents nothing and holds no identity, only what it
\* remembers matters.
Plain == Places \ {"resolve", "register", "insert", "conflict", "enter", "open", "admit"}

LEMMA PlainRenewed ==
    ASSUME NEW r \in Handlers, at'[r] \in Plain, MemoryHolds(r)'
    PROVE  Renewed(r)
  BY DEF Renewed, Plain, GuardHolds, Separate, Presents, HoldsProof, HoldsIdentity, Registering

LEMMA LeaveRenewed ==
    ASSUME AccountTypes, NEW r \in Handlers, Leave(r)
    PROVE  /\ Renewed(r) /\ \A q \in Handlers \ {r} : Kept(q)
           /\ at' \in [Handlers -> Places] /\ held' \in [Handlers -> Memory]
  <1>1. Blank \in Memory
    BY DEF Blank, Memory
  <1>2. at'[r] = "idle" /\ held'[r] = Blank
    BY DEF Leave, AccountTypes
  <1>3. MemoryHolds(r)'
    BY <1>2 DEF MemoryHolds, HoldsProof, Blank
  <1> QED BY <1>1, <1>2, <1>3, PlainRenewed DEF Leave, Plain, Places, AccountTypes, Kept

LEMMA ReadRow ==
    ASSUME AccountsInv, NEW r \in Handlers
    PROVE  /\ held[r] \in Memory /\ MemoryHolds(r) /\ GuardHolds(r)
           /\ at[r] = "idle" => held[r] = Blank
  BY DEF AccountsInv, AccountTypes, RequestsHold, MemoryHolds

-----------------------------------------------------------------------------
(* Requests that read                                                      *)

\* A request begins with a blank memory, and reads what exists.
LEMMA StartInv ==
    ASSUME AccountsInv, UNCHANGED tables, NEW r \in Handlers, NEW p \in Plain \ {"idle", "claim"},
           NEW m \in Memory, ~m.fresh,
           at' = [at EXCEPT ![r] = p], held' = [held EXCEPT ![r] = m],
           p \in {"send", "create"} => m.identity \in Identities,
           p = "resend" => Issued(m.proof),
           p = "compare" => WithProof(m) /\ m.identity = NONE,
           p \notin {"send", "create", "resend", "compare"} => Known(m.user)
    PROVE  AccountsInv'
  <1>1. at'[r] = p /\ held'[r] = m
    BY DEF AccountsInv, AccountTypes
  <1>2. MemoryHolds(r)'
    BY <1>1 DEF MemoryHolds, HoldsProof, Plain, Known, Issued, WithProof, tables
  <1>3. Renewed(r)
    BY <1>1, <1>2, PlainRenewed
  <1> QED BY <1>3, MoveInv DEF Plain

LEMMA AskInv ==
    ASSUME AccountsInv, NEW r \in Handlers, NEW i \in Identities, NEW complete \in BOOLEAN,
           Ask(r, i, complete)
    PROVE  AccountsInv'
  <1>1. held[r] = Blank /\ at' = [at EXCEPT ![r] = "send"] /\ UNCHANGED tables
    BY ReadRow DEF Ask, Proceed
  <1>2. PICK u \in Users \union {NONE} :
          held' = [held EXCEPT ![r].identity = i, ![r].complete = complete, ![r].user = u]
    BY DEF Ask, Account
  <1> DEFINE m == [Blank EXCEPT !.identity = i, !.complete = complete, !.user = u]
  <1>3. held' = [held EXCEPT ![r] = m]
    BY <1>1, <1>2
  <1>4. m \in Memory /\ ~m.fresh /\ m.identity = i
    BY DEF Memory, Blank
  <1> HIDE DEF m
  <1> QED BY <1>1, <1>3, <1>4, StartInv DEF Plain, Places

LEMMA AskAgainInv ==
    ASSUME AccountsInv, NEW r \in Handlers, NEW h \in Challenges, AskAgain(r, h)
    PROVE  AccountsInv'
  <1>1. held[r] = Blank /\ at' = [at EXCEPT ![r] = "resend"] /\ UNCHANGED tables /\ Issued(h)
    BY ReadRow DEF AskAgain, Proceed, Usable, Issued
  <1> DEFINE m == [Blank EXCEPT !.proof = h]
  <1>2. held' = [held EXCEPT ![r] = m]
    BY <1>1 DEF AskAgain
  <1>3. m \in Memory /\ ~m.fresh /\ m.proof = h
    BY DEF Memory, Blank
  <1> HIDE DEF m
  <1> QED BY <1>1, <1>2, <1>3, StartInv DEF Plain, Places

LEMMA VerifyInv ==
    ASSUME AccountsInv, NEW r \in Handlers, NEW h \in Challenges, Verify(r, h)
    PROVE  AccountsInv'
  <1>1. /\ held[r] = Blank /\ at' = [at EXCEPT ![r] = "compare"] /\ UNCHANGED tables /\ Issued(h)
    BY ReadRow DEF Verify, Proceed, Usable, Issued
  <1>2. challenges[h].attempts \in Nat
    BY <1>1 DEF Issued, AccountsInv, AccountTypes, ChallengeRow
  <1> DEFINE m == [Blank EXCEPT !.proof = h, !.attempts = challenges[h].attempts]
  <1>3. held' = [held EXCEPT ![r] = m]
    BY <1>1 DEF Verify
  <1>4. /\ m \in Memory /\ ~m.fresh /\ m.proof = h /\ m.handoff = NONE /\ m.identity = NONE
        /\ m.attempts = challenges[h].attempts
    BY <1>2 DEF Memory, Blank
  <1> HIDE DEF m
  <1>5. PICK n \in Memory : n = m
    BY <1>4
  <1> QED BY <1>1, <1>3, <1>4, <1>5, StartInv DEF Plain, Places, WithProof

LEMMA SignedInInv ==
    ASSUME AccountsInv, NEW r \in Handlers, NEW s \in Sessions,
           NEW p \in {"handoff", "revoke", "revokeOthers"}, SignedIn(r, s, p)
    PROVE  AccountsInv'
  <1>1. held[r] = Blank /\ at' = [at EXCEPT ![r] = p] /\ UNCHANGED tables
    BY ReadRow DEF SignedIn, Proceed
  <1>2. PICK u \in Users : u = sessions[s].user /\ Known(u)
    BY DEF SignedIn, Valid, AccountsInv, SessionsHold, Recorded, Known
  <1> DEFINE m == [Blank EXCEPT !.session = s, !.user = u]
  <1>3. held' = [held EXCEPT ![r] = m]
    BY <1>1, <1>2 DEF SignedIn
  <1>4. m \in Memory /\ ~m.fresh /\ m.user = u
    BY DEF Memory, Blank
  <1> HIDE DEF m
  <1> QED BY <1>1, <1>2, <1>3, <1>4, StartInv DEF Plain, Places

LEMMA AskCreateInv ==
    ASSUME AccountsInv, NEW r \in Handlers, NEW i \in Identities, AskCreate(r, i)
    PROVE  AccountsInv'
  <1>1. held[r] = Blank /\ at' = [at EXCEPT ![r] = "create"] /\ UNCHANGED tables
    BY ReadRow DEF AskCreate, Proceed
  <1> DEFINE m == [Blank EXCEPT !.identity = i]
  <1>2. held' = [held EXCEPT ![r] = m]
    BY <1>1 DEF AskCreate
  <1>3. m \in Memory /\ ~m.fresh /\ m.identity = i
    BY DEF Memory, Blank
  <1> HIDE DEF m
  <1> QED BY <1>1, <1>2, <1>3, StartInv DEF Plain, Places

LEMMA AskUpdateInv ==
    ASSUME AccountsInv, NEW r \in Handlers, NEW u \in Users, NEW status \in {"active", "suspended"}, AskUpdate(r, u, status)
    PROVE  AccountsInv'
  <1>1. held[r] = Blank /\ at' = [at EXCEPT ![r] = "update"] /\ UNCHANGED tables /\ Known(u)
    BY ReadRow DEF AskUpdate, Proceed, Present, Known
  <1> DEFINE m == [Blank EXCEPT !.user = u, !.status = status]
  <1>2. held' = [held EXCEPT ![r] = m]
    BY <1>1 DEF AskUpdate
  <1>3. m \in Memory /\ ~m.fresh /\ m.user = u
    BY DEF Memory, Blank
  <1> HIDE DEF m
  <1> QED BY <1>1, <1>2, <1>3, StartInv DEF Plain, Places

LEMMA AskRemoveInv ==
    ASSUME AccountsInv, NEW r \in Handlers, NEW u \in Users, AskRemove(r, u)
    PROVE  AccountsInv'
  <1>1. held[r] = Blank /\ at' = [at EXCEPT ![r] = "remove"] /\ UNCHANGED tables /\ Known(u)
    BY ReadRow DEF AskRemove, Proceed, Present, Known
  <1> DEFINE m == [Blank EXCEPT !.user = u]
  <1>2. held' = [held EXCEPT ![r] = m]
    BY <1>1 DEF AskRemove
  <1>3. m \in Memory /\ ~m.fresh /\ m.user = u
    BY DEF Memory, Blank
  <1> HIDE DEF m
  <1> QED BY <1>1, <1>2, <1>3, StartInv DEF Plain, Places

LEMMA AbandonInv ==
    ASSUME AccountsInv, NEW r \in Handlers, Abandon(r)
    PROVE  AccountsInv'
  <1>1. Blank \in Memory /\ "idle" \in Places
    BY DEF Blank, Memory, Places
  <1>2. Renewed(r)
    BY LeaveRenewed DEF Abandon, AccountsInv
  <1> QED BY <1>1, <1>2, MoveInv DEF Abandon, Leave

-----------------------------------------------------------------------------
(* A sign-in up to its commit                                              *)

LEMMA RightCodeInv ==
    ASSUME AccountsInv, NEW r \in Handlers, RightCode(r)
    PROVE  AccountsInv'
  <1>1. /\ at[r] = "compare" /\ at' = [at EXCEPT ![r] = "claim"]
        /\ UNCHANGED tables /\ UNCHANGED held
    BY DEF RightCode, Proceed
  <1>2. PICK m \in Memory : m = held[r] /\ held' = [held EXCEPT ![r] = m]
    BY <1>1, ReadRow DEF AccountsInv, AccountTypes
  <1>3. /\ WithProof(m) /\ m.identity = NONE /\ ~m.fresh
    BY <1>1, <1>2, ReadRow DEF MemoryHolds
  <1>4. at'[r] = "claim" /\ held'[r] = m
    BY <1>1, <1>2 DEF AccountsInv, AccountTypes
  <1>5. MemoryHolds(r)'
    BY <1>1, <1>3, <1>4 DEF MemoryHolds, HoldsProof, WithProof, Issued, tables
  <1> QED BY <1>1, <1>2, <1>4, <1>5, PlainRenewed, MoveInv DEF Plain, Places

\* The code is neither consumed nor claimed by another transaction.
LEMMA ClaimProofInv ==
    ASSUME AccountsInv, NEW r \in Handlers, ClaimProof(r)
    PROVE  AccountsInv'
  <1>1. /\ at[r] = "claim" /\ at' = [at EXCEPT ![r] = "resolve"]
        /\ UNCHANGED tables /\ UNCHANGED held
        /\ ~challenges[held[r].proof].consumed
        /\ \A q \in Handlers : HoldsProof(q) => held[q].proof # held[r].proof
    BY DEF ClaimProof, Proceed
  <1>2. PICK m \in Memory : m = held[r] /\ held' = [held EXCEPT ![r] = m]
    BY <1>1, ReadRow DEF AccountsInv, AccountTypes
  <1>3. WithProof(m) /\ m.identity = NONE /\ ~m.fresh
    BY <1>1, <1>2, ReadRow DEF MemoryHolds
  <1>4. at'[r] = "resolve" /\ held'[r] = m
    BY <1>1, <1>2 DEF AccountsInv, AccountTypes
  <1>5. MemoryHolds(r)'
    BY <1>1, <1>3, <1>4 DEF MemoryHolds, HoldsProof, WithProof, Issued, tables
  <1>6. GuardHolds(r)'
    BY <1>1, <1>2, <1>4 DEF GuardHolds, HoldsProof, Registering, tables
  <1>7. ASSUME NEW q \in Handlers \ {r} PROVE Separate(q, r)'
    <2>1. at'[q] = at[q] /\ held'[q] = held[q]
      BY <1>1 DEF AccountsInv, AccountTypes
    <2>2. Presents(q) => Pass(held[q]) # Pass(m)
      <3>1. CASE HoldsProof(q)
        BY <1>1, <1>2, <3>1 DEF Pass
      <3>2. CASE at[q] \in {"admit", "open"}
        <4>1. Spent(Pass(held[q]))
          BY <3>2, ReadRow DEF GuardHolds
        <4>2. ~Spent(Pass(m))
          BY <1>1, <1>2, <1>3, NoneIsNoRow DEF Spent, Pass, WithProof, Issued
        <4> QED BY <4>1, <4>2
      <3> QED BY <3>1, <3>2 DEF Presents
    <2> QED BY <1>4, <2>1, <2>2 DEF Separate, Presents, HoldsProof, HoldsIdentity
  <1> QED BY <1>1, <1>2, <1>5, <1>6, <1>7, MoveInv DEF Renewed, Places

\* A step between the claim and the commit, with the code that was claimed.
\* The identity, where the request has locked one, is nobody else's.
LEMMA WithinInv ==
    ASSUME AccountsInv, NEW r \in Handlers, HoldsProof(r), UNCHANGED tables,
           NEW p \in {"register", "insert", "conflict", "enter"},
           NEW m \in Memory, m.proof = held[r].proof, m.handoff = held[r].handoff,
           at' = [at EXCEPT ![r] = p], held' = [held EXCEPT ![r] = m],
           MemoryHolds(r)',
           HoldsIdentity(r)' => \A q \in Handlers \ {r} : HoldsIdentity(q) => held[q].identity # m.identity,
           Registering(r)' => OnlyCreated(m.identity),
           p = "conflict" => SomeCreated(m.identity)
    PROVE  AccountsInv'
  <1>1. at'[r] = p /\ held'[r] = m /\ p \in Places
    BY DEF AccountsInv, AccountTypes, Places
  <1>2. GuardHolds(r)'
    <2>1. ~challenges[m.proof].consumed
      BY ReadRow DEF GuardHolds
    <2>2. Registering(r)' => OnlyCreated(m.identity)'
      BY DEF OnlyCreated, Account, Present, tables
    <2>3. p = "conflict" => SomeCreated(m.identity)'
      BY DEF SomeCreated, tables
    <2> QED BY <1>1, <2>1, <2>2, <2>3 DEF GuardHolds, tables
  <1>3. ASSUME NEW q \in Handlers \ {r} PROVE Separate(q, r)'
    <2>1. at'[q] = at[q] /\ held'[q] = held[q]
      BY DEF AccountsInv, AccountTypes
    <2>2. Presents(q) => Pass(held[q]) # Pass(m)
      BY DEF AccountsInv, RequestsApart, Separate, Presents, Pass
    <2> QED BY <1>1, <2>1, <2>2 DEF Separate, Presents, HoldsProof, HoldsIdentity
  <1> QED BY <1>1, <1>2, <1>3, MoveInv DEF Renewed

LEMMA UseAccountInv ==
    ASSUME AccountsInv, NEW r \in Handlers, UseAccount(r)
    PROVE  AccountsInv'
  <1>1. /\ at[r] = "resolve" /\ HoldsProof(r)
        /\ at' = [at EXCEPT ![r] = "enter"] /\ UNCHANGED tables
    BY DEF UseAccount, Proceed, HoldsProof
  <1>2. PICK u : /\ Active(u)
                 /\ held' = [held EXCEPT ![r].user = u, ![r].version = users[u].version]
    BY DEF UseAccount
  <1>3. u \in Users /\ users[u] # NONE /\ users[u].version \in Nat
    BY <1>2 DEF Active, Present, AccountsInv, AccountTypes, AccountRow
  <1>4. held[r] \in Memory /\ WithProof(held[r]) /\ held[r].identity = NONE /\ ~held[r].fresh
    BY <1>1, ReadRow DEF MemoryHolds
  <1> DEFINE m == [held[r] EXCEPT !.user = u, !.version = users[u].version]
  <1>5. held' = [held EXCEPT ![r] = m]
    BY <1>2
  <1>6. /\ m \in Memory /\ m.proof = held[r].proof /\ m.handoff = held[r].handoff
        /\ m.identity = NONE /\ ~m.fresh /\ m.user = u /\ m.version = users[u].version
    BY <1>3, <1>4 DEF Memory
  <1> HIDE DEF m
  <1>7. PICK n \in Memory : n = m
    BY <1>6
  <1>8. at'[r] = "enter" /\ held'[r] = n
    BY <1>1, <1>5, <1>7 DEF AccountsInv, AccountTypes
  <1>9. MemoryHolds(r)'
    BY <1>1, <1>3, <1>4, <1>6, <1>7, <1>8
       DEF MemoryHolds, HoldsProof, WithProof, Issued, Recorded, Known, tables
  <1>10. ~HoldsIdentity(r)' /\ ~Registering(r)'
    BY <1>6, <1>7, <1>8 DEF HoldsIdentity, Registering
  <1> QED BY <1>1, <1>5, <1>6, <1>7, <1>9, <1>10, WithinInv

LEMMA LockIdentityInv ==
    ASSUME AccountsInv, NEW r \in Handlers, LockIdentity(r)
    PROVE  AccountsInv'
  <1>1. /\ at[r] = "resolve" /\ HoldsProof(r)
        /\ at' = [at EXCEPT ![r] = "register"] /\ UNCHANGED tables
    BY DEF LockIdentity, Proceed, HoldsProof
  <1>2. held[r] \in Memory /\ WithProof(held[r]) /\ ~held[r].fresh
    BY <1>1, ReadRow DEF MemoryHolds
  <1>3. PICK i \in Identities : i = challenges[held[r].proof].identity
    BY <1>2 DEF WithProof, Issued, AccountsInv, AccountTypes, ChallengeRow
  <1>4. \A q \in Handlers : HoldsIdentity(q) => held[q].identity # i
    BY <1>3 DEF LockIdentity
  <1> DEFINE m == [held[r] EXCEPT !.identity = i]
  <1>5. held' = [held EXCEPT ![r] = m]
    BY <1>3 DEF LockIdentity
  <1>6. /\ m \in Memory /\ m.proof = held[r].proof /\ m.handoff = held[r].handoff
        /\ m.identity = i /\ ~m.fresh
    BY <1>2 DEF Memory
  <1> HIDE DEF m
  <1>7. PICK n \in Memory : n = m
    BY <1>6
  <1>8. at'[r] = "register" /\ held'[r] = n
    BY <1>1, <1>5, <1>7 DEF AccountsInv, AccountTypes
  <1>9. MemoryHolds(r)'
    BY <1>1, <1>2, <1>6, <1>7, <1>8 DEF MemoryHolds, HoldsProof, WithProof, Issued, tables
  <1>10. ~Registering(r)'
    BY <1>8 DEF Registering
  <1> QED BY <1>1, <1>4, <1>5, <1>6, <1>7, <1>9, <1>10, WithinInv

\* A request that has locked its identity is the only one that holds it.
LEMMA IdentityIsHeld ==
    ASSUME AccountsInv, NEW r \in Handlers, at[r] \in {"register", "insert"}
    PROVE  /\ HoldsProof(r) /\ held[r] \in Memory /\ WithProof(held[r]) /\ ~held[r].fresh
           /\ held[r].identity \in Identities
           /\ \A q \in Handlers \ {r} : HoldsIdentity(q) => held[q].identity # held[r].identity
  <1>1. HoldsProof(r) /\ HoldsIdentity(r)
    BY DEF HoldsProof, HoldsIdentity
  <1>2. held[r] \in Memory /\ WithProof(held[r]) /\ ~held[r].fresh /\ held[r].identity \in Identities
    BY <1>1, ReadRow DEF MemoryHolds
  <1> QED BY <1>1, <1>2 DEF AccountsInv, RequestsApart, Separate

LEMMA LookupInv ==
    ASSUME AccountsInv, NEW r \in Handlers, Lookup(r)
    PROVE  AccountsInv'
  <1>1. at[r] = "register" /\ UNCHANGED tables
    BY DEF Lookup
  <1>2. PICK i \in Identities : i = held[r].identity
    BY <1>1, IdentityIsHeld
  <1>3. CASE Account(i) = {} /\ at' = [at EXCEPT ![r] = "insert"] /\ UNCHANGED held
    <2>1. PICK m \in Memory : m = held[r] /\ held' = [held EXCEPT ![r] = m]
      BY <1>1, <1>3, IdentityIsHeld DEF AccountsInv, AccountTypes
    <2>2. at'[r] = "insert" /\ held'[r] = m
      BY <1>3, <2>1 DEF AccountsInv, AccountTypes
    <2>3. MemoryHolds(r)'
      BY <1>1, <2>1, <2>2, IdentityIsHeld DEF MemoryHolds, HoldsProof, WithProof, Issued, tables
    <2>4. OnlyCreated(m.identity)
      BY <1>2, <1>3, <2>1 DEF OnlyCreated
    <2> QED BY <1>1, <1>3, <2>1, <2>3, <2>4, IdentityIsHeld, WithinInv
  <1>4. ASSUME NEW u \in Users, Active(u), at' = [at EXCEPT ![r] = "enter"],
               held' = [held EXCEPT ![r].user = u, ![r].version = users[u].version]
        PROVE  AccountsInv'
    <2>1. users[u] # NONE /\ users[u].version \in Nat
      BY <1>4 DEF Active, Present, AccountsInv, AccountTypes, AccountRow
    <2> DEFINE m == [held[r] EXCEPT !.user = u, !.version = users[u].version]
    <2>2. held' = [held EXCEPT ![r] = m]
      BY <1>4
    <2>3. /\ m \in Memory /\ m.proof = held[r].proof /\ m.handoff = held[r].handoff
          /\ m.identity = i /\ ~m.fresh /\ m.user = u /\ m.version = users[u].version
      BY <1>1, <1>2, <2>1, IdentityIsHeld DEF Memory
    <2> HIDE DEF m
    <2>4. PICK n \in Memory : n = m
      BY <2>3
    <2>5. at'[r] = "enter" /\ held'[r] = n
      BY <1>4, <2>2, <2>4 DEF AccountsInv, AccountTypes
    <2>6. MemoryHolds(r)'
      BY <1>1, <2>1, <2>3, <2>4, <2>5, IdentityIsHeld
         DEF MemoryHolds, HoldsProof, WithProof, Issued, Recorded, Known, tables
    <2>7. ~Registering(r)'
      BY <2>3, <2>4, <2>5 DEF Registering
    <2>8. /\ held' = [held EXCEPT ![r] = n]
          /\ n.proof = held[r].proof /\ n.handoff = held[r].handoff
          /\ HoldsProof(r)
          /\ \A q \in Handlers \ {r} : HoldsIdentity(q) => held[q].identity # n.identity
      BY <1>1, <1>2, <2>2, <2>3, <2>4, IdentityIsHeld
    <2> QED BY <1>1, <1>4, <2>6, <2>7, <2>8, WithinInv
  <1> QED BY <1>2, <1>3, <1>4 DEF Lookup, Account

\* What the unique index refuses has come from an administrator.
LEMMA InsertAccountInv ==
    ASSUME AccountsInv, NEW r \in Handlers, InsertAccount(r)
    PROVE  AccountsInv'
  <1>1. at[r] = "insert" /\ UNCHANGED tables
    BY DEF InsertAccount
  <1>2. PICK i \in Identities : i = held[r].identity
    BY <1>1, IdentityIsHeld
  <1>3. OnlyCreated(i)
    BY <1>1, <1>2, ReadRow DEF GuardHolds, Registering
  <1>4. CASE Account(i) # {} /\ at' = [at EXCEPT ![r] = "conflict"] /\ UNCHANGED held
    <2>1. PICK m \in Memory : m = held[r] /\ held' = [held EXCEPT ![r] = m]
      BY <1>1, <1>4, IdentityIsHeld DEF AccountsInv, AccountTypes
    <2>2. at'[r] = "conflict" /\ held'[r] = m
      BY <1>4, <2>1 DEF AccountsInv, AccountTypes
    <2>3. MemoryHolds(r)'
      BY <1>1, <2>1, <2>2, IdentityIsHeld DEF MemoryHolds, HoldsProof, WithProof, Issued, tables
    <2>4. SomeCreated(m.identity)
      BY <1>2, <1>3, <1>4, <2>1 DEF OnlyCreated, SomeCreated, Account, Present
    <2>5. ~Registering(r)'
      BY <2>2 DEF Registering
    <2> QED BY <1>1, <1>4, <2>1, <2>3, <2>4, <2>5, IdentityIsHeld, WithinInv
  <1>5. CASE /\ at' = [at EXCEPT ![r] = "enter"]
             /\ held' = [held EXCEPT ![r].fresh = TRUE, ![r].version = 1]
    <2> DEFINE m == [held[r] EXCEPT !.fresh = TRUE, !.version = 1]
    <2>1. held' = [held EXCEPT ![r] = m]
      BY <1>5
    <2>2. /\ m \in Memory /\ m.proof = held[r].proof /\ m.handoff = held[r].handoff
          /\ m.identity = i /\ m.fresh /\ m.version = 1
      BY <1>1, <1>2, IdentityIsHeld DEF Memory
    <2> HIDE DEF m
    <2>3. PICK n \in Memory : n = m
      BY <2>2
    <2>4. at'[r] = "enter" /\ held'[r] = n
      BY <1>5, <2>1, <2>3 DEF AccountsInv, AccountTypes
    <2>5. MemoryHolds(r)'
      BY <1>1, <2>2, <2>3, <2>4, IdentityIsHeld DEF MemoryHolds, HoldsProof, WithProof, Issued, tables
    <2>6. /\ held' = [held EXCEPT ![r] = n] /\ OnlyCreated(n.identity)
          /\ n.proof = held[r].proof /\ n.handoff = held[r].handoff
          /\ HoldsProof(r)
          /\ \A q \in Handlers \ {r} : HoldsIdentity(q) => held[q].identity # n.identity
      BY <1>1, <1>2, <1>3, <2>1, <2>2, <2>3, IdentityIsHeld
    <2> QED BY <1>1, <1>5, <2>5, <2>6, WithinInv
  <1> QED BY <1>2, <1>4, <1>5 DEF InsertAccount

-----------------------------------------------------------------------------
(* One row of a table                                                      *)

LEMMA ChallengeRowInv ==
    ASSUME AccountsInv, UNCHANGED <<users, handoffs, sessions>>,
           NEW h \in Challenges, NEW c \in ChallengeRow, challenges' = [challenges EXCEPT ![h] = c],
           challenges[h] # NONE => c.consumed = challenges[h].consumed,
           at' \in [Handlers -> Places], held' \in [Handlers -> Memory],
           \A q \in Handlers : Kept(q) \/ Renewed(q)
    PROVE  AccountsInv'
  <1>1. AccountTypes /\ c # NONE
    BY NoneAssumption DEF AccountsInv
  <1>2. \A g \in Challenges : challenges'[g] = IF g = h THEN c ELSE challenges[g]
    BY <1>1 DEF AccountTypes
  <1>3. AccountTypes'
    BY <1>1 DEF AccountTypes
  <1>4. ChallengesGrow /\ ConsumedStays
    BY <1>1, <1>2 DEF ChallengesGrow, ConsumedStays
  <1>5. UsersGrow /\ OriginsStay
    BY <1>1, UsersSame
  <1>6. HandoffsGrow /\ HandoffsHold' /\ SessionsStay
    BY <1>5, HandoffsSame, SessionsSame
  <1> QED BY <1>3, <1>4, <1>5, <1>6, StaysInv DEF TablesGrow

LEMMA HandoffRowInv ==
    ASSUME AccountsInv, UNCHANGED <<users, challenges, sessions>>,
           NEW k \in Handoffs, NEW c \in HandoffRow, handoffs' = [handoffs EXCEPT ![k] = c],
           handoffs[k] # NONE => c.user = handoffs[k].user /\ (handoffs[k].consumed => c.consumed),
           Known(c.user),
           at' \in [Handlers -> Places], held' \in [Handlers -> Memory],
           \A q \in Handlers : Kept(q) \/ Renewed(q)
    PROVE  AccountsInv'
  <1>1. AccountTypes /\ c # NONE
    BY NoneAssumption DEF AccountsInv
  <1>2. \A g \in Handoffs : handoffs'[g] = IF g = k THEN c ELSE handoffs[g]
    BY <1>1 DEF AccountTypes
  <1>3. AccountTypes'
    BY <1>1 DEF AccountTypes
  <1>4. HandoffsGrow
    BY <1>1, <1>2 DEF HandoffsGrow
  <1>5. HandoffsHold'
    BY <1>2 DEF HandoffsHold, AccountsInv, Known
  <1>6. UsersGrow /\ OriginsStay
    BY <1>1, UsersSame
  <1>7. ChallengesGrow /\ ConsumedStays /\ SessionsStay
    BY ChallengesSame, SessionsSame
  <1> QED BY <1>3, <1>4, <1>5, <1>6, <1>7, StaysInv DEF TablesGrow

LEMMA UserRowInv ==
    ASSUME AccountsInv, UNCHANGED <<challenges, handoffs, sessions>>,
           NEW u \in Users, NEW a \in AccountRow, users' = [users EXCEPT ![u] = a],
           users[u] = NONE => a.made = "created",
           users[u] # NONE =>
               /\ a.identity = users[u].identity
               /\ a.made = users[u].made
               /\ users[u].version <= a.version
               /\ users[u].gone => a.gone,
           at' \in [Handlers -> Places], held' \in [Handlers -> Memory],
           \A q \in Handlers : Kept(q) \/ Renewed(q)
    PROVE  AccountsInv'
  <1>1. AccountTypes /\ a # NONE
    BY NoneAssumption DEF AccountsInv
  <1>2. \A v \in Users : users'[v] = IF v = u THEN a ELSE users[v]
    BY <1>1 DEF AccountTypes
  <1>3. AccountTypes'
    BY <1>1 DEF AccountTypes
  <1>4. \A v \in Users : users[v] # NONE => users[v].version \in Nat
    BY <1>1 DEF AccountTypes, AccountRow
  <1>5. UsersGrow
    BY <1>1, <1>2, <1>4 DEF UsersGrow
  <1>6. OriginsStay
    <2> SUFFICES ASSUME NEW i \in Identities, OnlyCreated(i), NEW v \in Users,
                        Present(v)', users'[v].identity = i
                 PROVE  users'[v].made = "created"
      BY DEF OriginsStay, OnlyCreated, Account
    <2>1. CASE users[v] = NONE
      BY <1>2, <2>1 DEF Present
    <2>2. CASE users[v] # NONE
      <3>1. a.gone \in BOOLEAN /\ users[v].gone \in BOOLEAN
        BY <1>1, <2>2 DEF AccountTypes, AccountRow
      <3>2. v \in Account(i) /\ users'[v].made = users[v].made
        BY <1>2, <2>2, <3>1 DEF Account, Present
      <3> QED BY <3>2 DEF OnlyCreated
    <2> QED BY <2>1, <2>2
  <1>7. HandoffsGrow /\ HandoffsHold'
    BY <1>5, HandoffsSame
  <1>8. ChallengesGrow /\ ConsumedStays /\ SessionsStay
    BY ChallengesSame, SessionsSame
  <1> QED BY <1>3, <1>5, <1>6, <1>7, <1>8, StaysInv DEF TablesGrow

LEMMA SessionRowsInv ==
    ASSUME AccountsInv, UNCHANGED <<users, challenges, handoffs>>,
           sessions' \in [Sessions -> SessionRow \union {NONE}], SessionsStay,
           at' \in [Handlers -> Places], held' \in [Handlers -> Memory],
           \A q \in Handlers : Kept(q) \/ Renewed(q)
    PROVE  AccountsInv'
  <1>1. AccountTypes
    BY DEF AccountsInv
  <1>2. AccountTypes'
    BY <1>1 DEF AccountTypes
  <1>3. UsersGrow /\ OriginsStay
    BY <1>1, UsersSame
  <1>4. HandoffsGrow /\ HandoffsHold'
    BY <1>3, HandoffsSame
  <1>5. ChallengesGrow /\ ConsumedStays
    BY ChallengesSame
  <1> QED BY <1>2, <1>3, <1>4, <1>5, StaysInv DEF TablesGrow

LEMMA RestKept ==
    ASSUME AccountsInv, UNCHANGED <<at, held>>
    PROVE  /\ at' \in [Handlers -> Places] /\ held' \in [Handlers -> Memory]
           /\ \A q \in Handlers : Kept(q)
  BY DEF AccountsInv, AccountTypes, Kept

LEMMA LeaveRest ==
    ASSUME AccountsInv, NEW r \in Handlers, Leave(r)
    PROVE  /\ at' \in [Handlers -> Places] /\ held' \in [Handlers -> Memory]
           /\ \A q \in Handlers : Kept(q) \/ Renewed(q)
  BY LeaveRenewed DEF AccountsInv

-----------------------------------------------------------------------------
(* Codes                                                                   *)

LEMMA SendInv ==
    ASSUME AccountsInv, NEW r \in Handlers, Send(r)
    PROVE  AccountsInv'
  <1>1. at[r] = "send" /\ Leave(r) /\ UNCHANGED <<users, handoffs, sessions>>
    BY DEF Send
  <1>2. held[r] \in Memory /\ held[r].identity \in Identities
    BY <1>1, ReadRow DEF MemoryHolds
  <1>3. PICK h \in Free(challenges, Challenges), sent \in BOOLEAN :
          challenges' = [challenges EXCEPT ![h] =
            [identity |-> held[r].identity, complete |-> held[r].complete, user |-> held[r].user,
             sent |-> sent, attempts |-> 0, consumed |-> FALSE, expired |-> FALSE, cooling |-> TRUE]]
    BY DEF Send
  <1> DEFINE row == [identity |-> held[r].identity, complete |-> held[r].complete,
                     user |-> held[r].user, sent |-> sent, attempts |-> 0,
                     consumed |-> FALSE, expired |-> FALSE, cooling |-> TRUE]
  <1>4. row \in ChallengeRow /\ row.attempts = 0 /\ challenges' = [challenges EXCEPT ![h] = row]
    BY <1>2, <1>3 DEF Memory, ChallengeRow
  <1> HIDE DEF row
  <1>5. PICK c \in ChallengeRow : c = row
    BY <1>4
  <1>6. h \in Challenges /\ challenges[h] = NONE
    BY <1>4, <1>5, AccountsAssumption DEF Free
  <1> QED BY <1>1, <1>4, <1>5, <1>6, LeaveRest, ChallengeRowInv

LEMMA ResendInv ==
    ASSUME AccountsInv, NEW r \in Handlers, Resend(r)
    PROVE  AccountsInv'
  <1>1. at[r] = "resend" /\ Leave(r) /\ UNCHANGED <<users, handoffs, sessions>>
    BY DEF Resend
  <1>2. PICK h \in Challenges : h = held[r].proof /\ challenges[h] # NONE
    BY <1>1, ReadRow DEF MemoryHolds, Issued
  <1>3. PICK rotated \in BOOLEAN :
          challenges' = [challenges EXCEPT ![h].cooling = TRUE, ![h].expired = @ /\ ~rotated]
    BY <1>2 DEF Resend
  <1>4. challenges[h] \in ChallengeRow
    BY <1>2 DEF AccountsInv, AccountTypes
  <1> DEFINE row == [challenges[h] EXCEPT !.cooling = TRUE, !.expired = @ /\ ~rotated]
  <1>5. challenges' = [challenges EXCEPT ![h] = row]
    BY <1>3, <1>4 DEF AccountsInv, AccountTypes, ChallengeRow
  <1>6. row \in ChallengeRow /\ row.consumed = challenges[h].consumed /\ row.attempts = challenges[h].attempts
    BY <1>4 DEF ChallengeRow
  <1> HIDE DEF row
  <1>7. PICK c \in ChallengeRow : c = row
    BY <1>6
  <1> QED BY <1>1, <1>4, <1>5, <1>6, <1>7, LeaveRest, ChallengeRowInv

LEMMA WrongCodeInv ==
    ASSUME AccountsInv, NEW r \in Handlers, WrongCode(r)
    PROVE  AccountsInv'
  <1>1. at[r] = "compare" /\ Leave(r) /\ UNCHANGED <<users, handoffs, sessions>>
    BY DEF WrongCode
  <1>2. PICK h \in Challenges : h = held[r].proof /\ challenges[h] # NONE
    BY <1>1, ReadRow DEF MemoryHolds, WithProof, Issued
  <1>3. PICK n \in Nat : n = held[r].attempts
    BY <1>1, ReadRow DEF MemoryHolds, Memory
  <1>4. challenges[h] \in ChallengeRow
    BY <1>2 DEF AccountsInv, AccountTypes
  <1> DEFINE row == [challenges[h] EXCEPT !.attempts = n + 1]
  <1>5. challenges' = [challenges EXCEPT ![h] = row]
    BY <1>2, <1>3 DEF WrongCode
  <1>6. row \in ChallengeRow /\ row.consumed = challenges[h].consumed /\ row.attempts = n + 1
    BY <1>4 DEF ChallengeRow
  <1> HIDE DEF row
  <1>7. PICK c \in ChallengeRow : c = row
    BY <1>6
  <1> QED BY <1>1, <1>5, <1>6, <1>7, LeaveRest, ChallengeRowInv

LEMMA ChallengeAgesInv ==
    ASSUME AccountsInv, NEW h \in Challenges, ChallengeAges(h)
    PROVE  AccountsInv'
  <1>1. challenges[h] # NONE /\ UNCHANGED <<users, handoffs, sessions, at, held>>
    BY DEF ChallengeAges
  <1>2. challenges[h] \in ChallengeRow
    BY <1>1 DEF AccountsInv, AccountTypes
  <1>3. PICK c \in ChallengeRow : /\ challenges' = [challenges EXCEPT ![h] = c]
                                  /\ c.consumed = challenges[h].consumed
                                  /\ c.attempts = challenges[h].attempts
    <2>1. CASE challenges' = [challenges EXCEPT ![h].cooling = FALSE]
      <3> DEFINE row == [challenges[h] EXCEPT !.cooling = FALSE]
      <3>1. row \in ChallengeRow /\ row.consumed = challenges[h].consumed /\ row.attempts = challenges[h].attempts
        BY <1>2 DEF ChallengeRow
      <3>2. challenges' = [challenges EXCEPT ![h] = row]
        BY <2>1
      <3> QED BY <3>1, <3>2
    <2>2. CASE challenges' = [challenges EXCEPT ![h].expired = TRUE]
      <3> DEFINE row == [challenges[h] EXCEPT !.expired = TRUE]
      <3>1. row \in ChallengeRow /\ row.consumed = challenges[h].consumed /\ row.attempts = challenges[h].attempts
        BY <1>2 DEF ChallengeRow
      <3>2. challenges' = [challenges EXCEPT ![h] = row]
        BY <2>2
      <3> QED BY <3>1, <3>2
    <2> QED BY <2>1, <2>2 DEF ChallengeAges
  <1> QED BY <1>1, <1>2, <1>3, RestKept, ChallengeRowInv

-----------------------------------------------------------------------------
(* Handoffs                                                                *)

LEMMA CreateHandoffInv ==
    ASSUME AccountsInv, NEW r \in Handlers, CreateHandoff(r)
    PROVE  AccountsInv'
  <1>1. at[r] = "handoff" /\ Leave(r) /\ UNCHANGED <<users, challenges, sessions>>
    BY DEF CreateHandoff
  <1>2. Known(held[r].user)
    BY <1>1, ReadRow DEF MemoryHolds
  <1>3. PICK k \in Free(handoffs, Handoffs) :
          handoffs' = [handoffs EXCEPT ![k] = [user |-> held[r].user, consumed |-> FALSE, expired |-> FALSE]]
    BY DEF CreateHandoff
  <1> DEFINE row == [user |-> held[r].user, consumed |-> FALSE, expired |-> FALSE]
  <1>4. row \in HandoffRow /\ row.user = held[r].user /\ handoffs' = [handoffs EXCEPT ![k] = row]
    BY <1>2, <1>3 DEF Known, HandoffRow
  <1> HIDE DEF row
  <1>5. PICK c \in HandoffRow : c = row
    BY <1>4
  <1>6. k \in Handoffs /\ handoffs[k] = NONE /\ Known(c.user)
    BY <1>2, <1>3, <1>4, <1>5 DEF Free
  <1> QED BY <1>1, <1>4, <1>5, <1>6, LeaveRest, HandoffRowInv

LEMMA HandoffExpiresInv ==
    ASSUME AccountsInv, NEW k \in Handoffs, HandoffExpires(k)
    PROVE  AccountsInv'
  <1>1. /\ handoffs[k] # NONE /\ UNCHANGED <<users, challenges, sessions, at, held>>
        /\ handoffs' = [handoffs EXCEPT ![k].expired = TRUE]
    BY DEF HandoffExpires
  <1>2. handoffs[k] \in HandoffRow /\ Known(handoffs[k].user)
    BY <1>1 DEF AccountsInv, AccountTypes, HandoffsHold
  <1> DEFINE row == [handoffs[k] EXCEPT !.expired = TRUE]
  <1>3. row \in HandoffRow /\ row.user = handoffs[k].user /\ row.consumed = handoffs[k].consumed
    BY <1>2 DEF HandoffRow
  <1>4. handoffs' = [handoffs EXCEPT ![k] = row]
    BY <1>1
  <1> HIDE DEF row
  <1>5. PICK c \in HandoffRow : c = row
    BY <1>3
  <1> QED BY <1>1, <1>2, <1>3, <1>4, <1>5, RestKept, HandoffRowInv

\* A handoff that nobody has consumed has opened no session, and no request
\* presents it.
LEMMA ConsumeHandoffInv ==
    ASSUME AccountsInv, NEW r \in Handlers, NEW k \in Handoffs, ConsumeHandoff(r, k)
    PROVE  AccountsInv'
  <1>1. /\ handoffs[k] # NONE /\ ~handoffs[k].consumed
        /\ handoffs' = [handoffs EXCEPT ![k].consumed = TRUE]
        /\ at' = [at EXCEPT ![r] = "admit"] /\ held[r] = Blank
        /\ UNCHANGED <<users, challenges, sessions>>
    BY ReadRow DEF ConsumeHandoff, Proceed
  <1>2. handoffs[k] \in HandoffRow /\ Known(handoffs[k].user)
    BY <1>1 DEF AccountsInv, AccountTypes, HandoffsHold
  <1> DEFINE row == [handoffs[k] EXCEPT !.consumed = TRUE]
             m == [Blank EXCEPT !.handoff = k, !.user = handoffs[k].user]
  <1>3. /\ row \in HandoffRow /\ row.user = handoffs[k].user /\ row.consumed
        /\ handoffs' = [handoffs EXCEPT ![k] = row]
    BY <1>1, <1>2 DEF HandoffRow
  <1>4. /\ m \in Memory /\ m.user = handoffs[k].user /\ m.proof = NONE /\ m.handoff = k
        /\ m.identity = NONE /\ ~m.fresh
    BY <1>2 DEF Memory, Blank, HandoffRow
  <1>5. held' = [held EXCEPT ![r] = m]
    BY <1>1 DEF ConsumeHandoff
  <1> HIDE DEF row, m
  <1>6. PICK c \in HandoffRow, n \in Memory : c = row /\ n = m
    BY <1>3, <1>4
  <1>7. /\ at' \in [Handlers -> Places] /\ held' \in [Handlers -> Memory]
        /\ at'[r] = "admit" /\ held'[r] = n
        /\ \A q \in Handlers \ {r} : Kept(q)
    BY <1>1, <1>5, <1>6 DEF AccountsInv, AccountTypes, Places, Kept
  <1>8. handoffs'[k] = row /\ row # NONE
    BY <1>3, NoneAssumption DEF AccountsInv, AccountTypes
  <1>9. MemoryHolds(r)'
    BY <1>1, <1>2, <1>4, <1>6, <1>7 DEF MemoryHolds, HoldsProof, Known
  <1>10. \A pass : pass = <<NONE, k>> => ~Spent(pass)
    BY <1>1, NoneIsNoRow DEF Spent, Issued
  <1>11. GuardHolds(r)'
    <2>1. Spent(<<NONE, k>>)'
      BY <1>3, <1>8 DEF Spent
    <2>2. Unused(<<NONE, k>>)'
      BY <1>1, <1>10 DEF Unused, AccountsInv, SessionsHold
    <2> QED BY <1>4, <1>6, <1>7, <2>1, <2>2 DEF GuardHolds, HoldsProof, Registering, Pass
  <1>12. ASSUME NEW q \in Handlers \ {r} PROVE Separate(q, r)'
    <2>1. at'[q] = at[q] /\ held'[q] = held[q]
      BY <1>7 DEF Kept
    <2>2. Presents(q) => Pass(held[q]) # <<NONE, k>>
      <3>1. CASE HoldsProof(q)
        BY <3>1, ReadRow, NoneIsNoRow DEF MemoryHolds, WithProof, Issued, Pass
      <3>2. CASE at[q] \in {"admit", "open"}
        <4>1. Spent(Pass(held[q]))
          BY <3>2, ReadRow DEF GuardHolds
        <4> QED BY <1>10, <4>1
      <3> QED BY <3>1, <3>2 DEF Presents
    <2> QED BY <1>4, <1>6, <1>7, <2>1, <2>2 DEF Separate, Presents, HoldsProof, HoldsIdentity, Pass
  <1>13. \A q \in Handlers : Kept(q) \/ Renewed(q)
    BY <1>7, <1>9, <1>11, <1>12 DEF Renewed
  <1>14. Known(c.user)
    BY <1>2, <1>3, <1>6
  <1> QED BY <1>1, <1>3, <1>6, <1>7, <1>13, <1>14, HandoffRowInv

LEMMA AdmitInv ==
    ASSUME AccountsInv, NEW r \in Handlers, Admit(r)
    PROVE  AccountsInv'
  <1>1. /\ at[r] = "admit" /\ at' = [at EXCEPT ![r] = "open"] /\ UNCHANGED tables
        /\ Active(held[r].user)
    BY DEF Admit, Proceed
  <1>2. PICK u \in Users : u = held[r].user /\ users[u] # NONE /\ users[u].version \in Nat
    BY <1>1 DEF Active, Present, AccountsInv, AccountTypes, AccountRow
  <1>3. held[r] \in Memory /\ held[r].identity = NONE /\ ~held[r].fresh
    BY <1>1, ReadRow DEF MemoryHolds
  <1> DEFINE m == [held[r] EXCEPT !.version = users[u].version]
  <1>4. held' = [held EXCEPT ![r] = m]
    BY <1>2 DEF Admit
  <1>5. /\ m \in Memory /\ Pass(m) = Pass(held[r]) /\ m.user = u /\ m.version = users[u].version
        /\ m.identity = NONE /\ ~m.fresh
    BY <1>2, <1>3 DEF Memory, Pass
  <1> HIDE DEF m
  <1>6. PICK n \in Memory : n = m
    BY <1>5
  <1>7. at'[r] = "open" /\ held'[r] = n /\ \A q \in Handlers \ {r} : at'[q] = at[q] /\ held'[q] = held[q]
    BY <1>1, <1>4, <1>6 DEF AccountsInv, AccountTypes
  <1>8. MemoryHolds(r)'
    BY <1>1, <1>2, <1>5, <1>6, <1>7 DEF MemoryHolds, HoldsProof, Recorded, Known, tables
  <1>9. GuardHolds(r)'
    <2>1. Spent(Pass(n)) /\ Unused(Pass(n))
      BY <1>1, <1>5, <1>6, ReadRow DEF GuardHolds
    <2>2. Spent(Pass(n))' /\ Unused(Pass(n))'
      BY <1>1, <2>1 DEF Spent, Unused, Issued, tables
    <2> QED BY <1>7, <2>2 DEF GuardHolds, HoldsProof, Registering
  <1>10. ASSUME NEW q \in Handlers \ {r} PROVE Separate(q, r)'
    <2>1. Presents(q) => Pass(held[q]) # Pass(n)
      BY <1>1, <1>5, <1>6 DEF AccountsInv, RequestsApart, Separate, Presents
    <2> QED BY <1>7, <2>1 DEF Separate, Presents, HoldsProof, HoldsIdentity
  <1> QED BY <1>1, <1>4, <1>6, <1>8, <1>9, <1>10, MoveInv DEF Renewed, Places

-----------------------------------------------------------------------------
(* Sessions                                                                *)

LEMMA ClosedStay ==
    ASSUME AccountsInv, NEW S, CloseSessions(S)
    PROVE  sessions' \in [Sessions -> SessionRow \union {NONE}] /\ SessionsStay
  <1>1. ASSUME NEW s \in Sessions, sessions[s] # NONE
        PROVE  LET t == [sessions[s] EXCEPT !.revoked = TRUE] IN
               /\ t \in SessionRow
               /\ t.by = sessions[s].by /\ t.user = sessions[s].user /\ t.version = sessions[s].version
    BY <1>1 DEF AccountsInv, AccountTypes, SessionRow
  <1>2. \A s \in Sessions : sessions'[s] = IF s \in S /\ sessions[s] # NONE
                                           THEN [sessions[s] EXCEPT !.revoked = TRUE] ELSE sessions[s]
    BY DEF CloseSessions
  <1>3. sessions' \in [Sessions -> SessionRow \union {NONE}]
    BY <1>1 DEF CloseSessions, AccountsInv, AccountTypes
  <1>4. SessionsStay
    BY <1>1, <1>2 DEF SessionsStay
  <1> QED BY <1>3, <1>4

LEMMA CloseInv ==
    ASSUME AccountsInv, NEW S, CloseSessions(S), UNCHANGED <<users, challenges, handoffs>>,
           UNCHANGED <<at, held>> \/ \E r \in Handlers : Leave(r)
    PROVE  AccountsInv'
  BY ClosedStay, RestKept, LeaveRest, SessionRowsInv

LEMMA LogoutInv ==
    ASSUME AccountsInv, NEW s \in Sessions, Logout(s) \/ RevokeSession(s)
    PROVE  AccountsInv'
  BY CloseInv DEF Logout, RevokeSession

LEMMA SessionExpiresInv ==
    ASSUME AccountsInv, NEW s \in Sessions, SessionExpires(s)
    PROVE  AccountsInv'
  <1>1. /\ sessions[s] \in SessionRow /\ sessions[s] # NONE
        /\ sessions' = [sessions EXCEPT ![s].expired = TRUE]
        /\ UNCHANGED <<users, challenges, handoffs, at, held>>
    BY DEF SessionExpires, Valid, AccountsInv, AccountTypes
  <1> DEFINE row == [sessions[s] EXCEPT !.expired = TRUE]
  <1>2. /\ row \in SessionRow
        /\ row.by = sessions[s].by /\ row.user = sessions[s].user /\ row.version = sessions[s].version
    BY <1>1 DEF SessionRow
  <1>3. sessions' = [sessions EXCEPT ![s] = row]
    BY <1>1
  <1> HIDE DEF row
  <1>4. sessions' \in [Sessions -> SessionRow \union {NONE}] /\ SessionsStay
    BY <1>1, <1>2, <1>3 DEF AccountsInv, AccountTypes, SessionsStay
  <1> QED BY <1>1, <1>4, RestKept, SessionRowsInv

LEMMA RevokeOwnInv ==
    ASSUME AccountsInv, NEW r \in Handlers, RevokeOwn(r)
    PROVE  AccountsInv'
  BY CloseInv DEF RevokeOwn

LEMMA RevokeOthersInv ==
    ASSUME AccountsInv, NEW r \in Handlers, RevokeOthers(r)
    PROVE  AccountsInv'
  <1>1. PICK S : CloseSessions(S)
    BY DEF RevokeOthers
  <1> QED BY <1>1, CloseInv DEF RevokeOthers

LEMMA CloseAllInv ==
    ASSUME AccountsInv, NEW r \in Handlers, CloseAll(r)
    PROVE  AccountsInv'
  <1>1. PICK S : CloseSessions(S)
    BY DEF CloseAll
  <1> QED BY <1>1, CloseInv DEF CloseAll

-----------------------------------------------------------------------------
(* Administrators                                                          *)

\* A request that goes on to an account it knows: it grants its roles or
\* closes its sessions.
LEMMA AccountFollows ==
    ASSUME AccountsInv, NEW r \in Handlers, NEW p \in {"roles", "close"},
           NEW m \in Memory, ~m.fresh, Known(m.user)',
           at' = [at EXCEPT ![r] = p], held' = [held EXCEPT ![r] = m]
    PROVE  /\ at' \in [Handlers -> Places] /\ held' \in [Handlers -> Memory]
           /\ \A q \in Handlers : Kept(q) \/ Renewed(q)
  <1>1. /\ at' \in [Handlers -> Places] /\ held' \in [Handlers -> Memory]
        /\ at'[r] = p /\ held'[r] = m /\ \A q \in Handlers \ {r} : Kept(q)
    BY DEF AccountsInv, AccountTypes, Places, Kept
  <1>2. MemoryHolds(r)'
    BY <1>1 DEF MemoryHolds, HoldsProof, Known
  <1> QED BY <1>1, <1>2, PlainRenewed DEF Plain, Places

LEMMA CreateAdminInv ==
    ASSUME AccountsInv, NEW r \in Handlers, CreateAdmin(r)
    PROVE  AccountsInv'
  <1>1. /\ at[r] = "create" /\ at' = [at EXCEPT ![r] = "roles"]
        /\ UNCHANGED <<challenges, handoffs, sessions>>
    BY DEF CreateAdmin, Proceed
  <1>2. PICK u \in Free(users, Users) :
          /\ users' = [users EXCEPT ![u] = NewAccount(held[r].identity, "created", FALSE)]
          /\ held'  = [held EXCEPT ![r].user = u]
    BY DEF CreateAdmin
  <1>3. held[r] \in Memory /\ held[r].identity \in Identities /\ ~held[r].fresh
    BY <1>1, ReadRow DEF MemoryHolds
  <1>4. u \in Users /\ users[u] = NONE
    BY <1>2 DEF Free
  <1> DEFINE row == NewAccount(held[r].identity, "created", FALSE)
             m   == [held[r] EXCEPT !.user = u]
  <1>5. /\ row \in AccountRow /\ row.made = "created" /\ users' = [users EXCEPT ![u] = row]
        /\ m \in Memory /\ ~m.fresh /\ m.user = u /\ held' = [held EXCEPT ![r] = m]
    BY <1>2, <1>3, <1>4 DEF AccountRow, NewAccount, Memory
  <1> HIDE DEF row, m
  <1>6. PICK a \in AccountRow, n \in Memory : a = row /\ n = m
    BY <1>5
  <1>7. users'[u] = a /\ a # NONE
    BY <1>4, <1>5, <1>6, NoneAssumption DEF AccountsInv, AccountTypes
  <1>8. Known(n.user)'
    BY <1>4, <1>5, <1>6, <1>7 DEF Known
  <1>9. /\ at' \in [Handlers -> Places] /\ held' \in [Handlers -> Memory]
        /\ \A q \in Handlers : Kept(q) \/ Renewed(q)
    BY <1>1, <1>5, <1>6, <1>8, AccountFollows
  <1> QED BY <1>1, <1>4, <1>5, <1>6, <1>9, UserRowInv

LEMMA GrantRolesInv ==
    ASSUME AccountsInv, NEW r \in Handlers, GrantRoles(r)
    PROVE  AccountsInv'
  <1>1. at[r] = "roles" /\ Leave(r) /\ UNCHANGED <<challenges, handoffs, sessions>>
    BY DEF GrantRoles
  <1>2. PICK u \in Users : u = held[r].user /\ users[u] # NONE
    BY <1>1, ReadRow DEF MemoryHolds, Known
  <1>3. PICK super \in BOOLEAN : users' = [users EXCEPT ![u].super = super]
    BY <1>2 DEF GrantRoles
  <1>4. users[u] \in AccountRow
    BY <1>2 DEF AccountsInv, AccountTypes
  <1> DEFINE row == [users[u] EXCEPT !.super = super]
  <1>5. /\ row \in AccountRow /\ users' = [users EXCEPT ![u] = row]
        /\ row.identity = users[u].identity /\ row.made = users[u].made
        /\ row.version = users[u].version /\ row.gone = users[u].gone
        /\ users[u].version \in Nat
    BY <1>3, <1>4 DEF AccountRow
  <1> HIDE DEF row
  <1>6. PICK a \in AccountRow : a = row
    BY <1>5
  <1>7. users[u].version <= a.version
    BY <1>5, <1>6
  <1> QED BY <1>1, <1>2, <1>5, <1>6, <1>7, LeaveRest, UserRowInv

LEMMA UpdateAdminInv ==
    ASSUME AccountsInv, NEW r \in Handlers, UpdateAdmin(r)
    PROVE  AccountsInv'
  <1>1. at[r] = "update" /\ UNCHANGED <<challenges, handoffs, sessions>>
    BY DEF UpdateAdmin
  <1>2. PICK u \in Users : u = held[r].user /\ users[u] # NONE
    BY DEF UpdateAdmin, Present
  <1>3. PICK m \in Memory : m = held[r] /\ ~m.fresh /\ m.user = u
    BY <1>1, <1>2, ReadRow DEF MemoryHolds
  <1>4. users[u] \in AccountRow
    BY <1>2 DEF AccountsInv, AccountTypes
  <1> DEFINE row == [users[u] EXCEPT !.status = m.status]
  <1>5. /\ row \in AccountRow /\ users' = [users EXCEPT ![u] = row]
        /\ row.identity = users[u].identity /\ row.made = users[u].made
        /\ row.version = users[u].version /\ row.gone = users[u].gone
        /\ users[u].version \in Nat
    BY <1>2, <1>3, <1>4 DEF UpdateAdmin, AccountRow, Memory
  <1> HIDE DEF row
  <1>6. PICK a \in AccountRow : a = row
    BY <1>5
  <1>7. users[u].version <= a.version
    BY <1>5, <1>6
  <1>8. Known(m.user)'
    BY <1>3, <1>5, NoneAssumption DEF Known, AccountsInv, AccountTypes
  <1>9. /\ at' \in [Handlers -> Places] /\ held' \in [Handlers -> Memory]
        /\ \A q \in Handlers : Kept(q) \/ Renewed(q)
    <2>1. CASE Leave(r)
      BY <2>1, LeaveRest
    <2>2. CASE at' = [at EXCEPT ![r] = "close"] /\ UNCHANGED held
      <3>1. held' = [held EXCEPT ![r] = m]
        BY <1>3, <2>2 DEF AccountsInv, AccountTypes
      <3> QED BY <1>3, <1>8, <2>2, <3>1, AccountFollows
    <2> QED BY <2>1, <2>2 DEF UpdateAdmin
  <1> QED BY <1>1, <1>2, <1>5, <1>6, <1>7, <1>9, UserRowInv

LEMMA RemoveAdminInv ==
    ASSUME AccountsInv, NEW r \in Handlers, RemoveAdmin(r)
    PROVE  AccountsInv'
  <1>1. /\ at[r] = "remove" /\ at' = [at EXCEPT ![r] = "close"]
        /\ UNCHANGED <<challenges, handoffs, sessions, held>>
    BY DEF RemoveAdmin, Proceed
  <1>2. PICK u \in Users : u = held[r].user /\ users[u] # NONE
    BY DEF RemoveAdmin, Present
  <1>3. PICK m \in Memory : m = held[r] /\ ~m.fresh /\ m.user = u /\ held' = [held EXCEPT ![r] = m]
    BY <1>1, <1>2, ReadRow DEF MemoryHolds, AccountsInv, AccountTypes
  <1>4. users[u] \in AccountRow
    BY <1>2 DEF AccountsInv, AccountTypes
  <1> DEFINE row == [users[u] EXCEPT !.gone = TRUE]
  <1>5. /\ row \in AccountRow /\ users' = [users EXCEPT ![u] = row]
        /\ row.identity = users[u].identity /\ row.made = users[u].made
        /\ row.version = users[u].version /\ row.gone
        /\ users[u].version \in Nat
    BY <1>2, <1>4 DEF RemoveAdmin, AccountRow
  <1> HIDE DEF row
  <1>6. PICK a \in AccountRow : a = row
    BY <1>5
  <1>7. users[u].version <= a.version
    BY <1>5, <1>6
  <1>8. Known(m.user)'
    BY <1>3, <1>5, NoneAssumption DEF Known, AccountsInv, AccountTypes
  <1>9. /\ at' \in [Handlers -> Places] /\ held' \in [Handlers -> Memory]
        /\ \A q \in Handlers : Kept(q) \/ Renewed(q)
    BY <1>1, <1>3, <1>8, AccountFollows
  <1> QED BY <1>1, <1>2, <1>5, <1>6, <1>7, <1>9, UserRowInv

LEMMA UpdateStatusInv ==
    ASSUME AccountsInv, NEW r \in Handlers, NEW u \in Users, NEW status \in {"active", "suspended"},
           UpdateStatus(r, u, status)
    PROVE  AccountsInv'
  <1>1. /\ at[r] = "idle" /\ users[u] # NONE /\ UNCHANGED <<challenges, handoffs, sessions>>
        /\ held[r] = Blank
    BY ReadRow DEF UpdateStatus, Present
  <1>2. users[u] \in AccountRow /\ users[u].version \in Nat
    BY <1>1 DEF AccountsInv, AccountTypes, AccountRow
  <1>3. PICK v \in Nat : v = users[u].version + 1 /\ users[u].version <= v
    <2>1. \A n \in Nat : n + 1 \in Nat /\ n <= n + 1
      OBVIOUS
    <2> QED BY <1>2, <2>1
  <1> DEFINE row == [users[u] EXCEPT !.status = status, !.version = v]
             m   == [Blank EXCEPT !.user = u]
  <1>4. users' = [users EXCEPT ![u] = row]
    BY <1>1, <1>2, <1>3 DEF UpdateStatus, AccountsInv, AccountTypes, AccountRow
  <1>5. /\ row \in AccountRow /\ row.version = v
        /\ row.identity = users[u].identity /\ row.made = users[u].made /\ row.gone = users[u].gone
    BY <1>2 DEF AccountRow
  <1>6. m \in Memory /\ ~m.fresh /\ m.user = u
    BY DEF Memory, Blank
  <1>7. UNCHANGED <<at, held>> \/ (at' = [at EXCEPT ![r] = "close"] /\ held' = [held EXCEPT ![r] = m])
    BY <1>1 DEF UpdateStatus
  <1> HIDE DEF row, m
  <1>8. PICK a \in AccountRow, n \in Memory : a = row /\ n = m
    BY <1>5, <1>6
  <1>9. Known(n.user)'
    BY <1>4, <1>5, <1>6, <1>8, NoneAssumption DEF Known, AccountsInv, AccountTypes
  <1>10. /\ at' \in [Handlers -> Places] /\ held' \in [Handlers -> Memory]
         /\ \A q \in Handlers : Kept(q) \/ Renewed(q)
    BY <1>6, <1>7, <1>8, <1>9, RestKept, AccountFollows
  <1> QED BY <1>1, <1>3, <1>4, <1>5, <1>8, <1>10, UserRowInv

-----------------------------------------------------------------------------
(* The commit and the session                                              *)

\* What a commit writes: the code is consumed, and a new account is added.
LEMMA EnterWrites ==
    ASSUME AccountsInv, NEW r \in Handlers, Enter(r)
    PROVE  /\ AccountTypes' /\ TablesGrow
           /\ \A h \in Challenges :
                challenges[h] # NONE => challenges'[h].consumed = (h = held[r].proof \/ challenges[h].consumed)
           /\ \/ ~held[r].fresh /\ UNCHANGED <<users, held>>
              \/ /\ held[r].fresh
                 /\ \E u \in Users :
                      /\ users[u] = NONE /\ users' = [users EXCEPT ![u] = NewAccount(held[r].identity, "registered", FALSE)]
                      /\ held' = [held EXCEPT ![r] = [held[r] EXCEPT !.user = u]]
  <1>1. /\ at[r] = "enter" /\ at' = [at EXCEPT ![r] = "open"]
        /\ challenges' = [challenges EXCEPT ![held[r].proof].consumed = TRUE]
        /\ UNCHANGED <<handoffs, sessions>>
    BY DEF Enter, Proceed
  <1>2. /\ held[r] \in Memory
        /\ Issued(held[r].proof)
        /\ held[r].fresh => held[r].identity \in Identities
    BY <1>1, ReadRow DEF MemoryHolds, HoldsProof, WithProof
  <1>3. PICK h \in Challenges : h = held[r].proof /\ challenges[h] # NONE /\ challenges[h] \in ChallengeRow
    BY <1>2 DEF Issued, AccountsInv, AccountTypes
  <1> DEFINE c == [challenges[h] EXCEPT !.consumed = TRUE]
  <1>4. c \in ChallengeRow /\ c.consumed /\ c.attempts = challenges[h].attempts /\ challenges' = [challenges EXCEPT ![h] = c]
    BY <1>1, <1>3 DEF ChallengeRow
  <1> HIDE DEF c
  <1>5. \A g \in Challenges : challenges'[g] = IF g = h THEN c ELSE challenges[g]
    BY <1>4 DEF AccountsInv, AccountTypes
  <1>6. c # NONE
    BY <1>4, NoneAssumption
  <1>7. challenges' \in [Challenges -> ChallengeRow \union {NONE}] /\ ChallengesGrow
    BY <1>3, <1>4, <1>5, <1>6 DEF AccountsInv, AccountTypes, ChallengesGrow
  <1>8. \A g \in Challenges :
          challenges[g] # NONE => challenges'[g].consumed = (g = held[r].proof \/ challenges[g].consumed)
    <2>1. \A g \in Challenges : challenges[g] # NONE => challenges[g].consumed \in BOOLEAN
      BY DEF AccountsInv, AccountTypes, ChallengeRow
    <2> QED BY <1>3, <1>4, <1>5, <2>1 DEF ChallengeRow
  <1>9. at' \in [Handlers -> Places]
    BY <1>1 DEF AccountsInv, AccountTypes, Places
  <1>10. CASE ~held[r].fresh
    <2>1. UNCHANGED <<users, held>>
      BY <1>10 DEF Enter
    <2>2. UsersGrow /\ HandoffsGrow
      BY <1>1, <2>1, UsersSame, HandoffsSame DEF AccountsInv
    <2> QED BY <1>1, <1>7, <1>8, <1>9, <1>10, <2>1, <2>2 DEF AccountTypes, AccountsInv, TablesGrow
  <1>11. CASE held[r].fresh
    <2>1. PICK u \in Users : /\ users[u] = NONE
                             /\ users' = [users EXCEPT ![u] = NewAccount(held[r].identity, "registered", FALSE)]
                             /\ held' = [held EXCEPT ![r].user = u]
      BY <1>11 DEF Enter, Free
    <2>2. NewAccount(held[r].identity, "registered", FALSE) \in AccountRow
      BY <1>2, <1>11 DEF NewAccount, AccountRow
    <2>3. users' \in [Users -> AccountRow \union {NONE}]
      BY <2>1, <2>2 DEF AccountsInv, AccountTypes
    <2>4. \A v \in Users : users[v] # NONE => users'[v] = users[v] /\ users[v].version \in Nat
      BY <2>1 DEF AccountsInv, AccountTypes, AccountRow
    <2>5. UsersGrow
      BY <2>4 DEF UsersGrow
    <2>6. held' = [held EXCEPT ![r] = [held[r] EXCEPT !.user = u]] /\ held' \in [Handlers -> Memory]
      BY <1>2, <2>1 DEF AccountsInv, AccountTypes, Memory
    <2>7. HandoffsGrow
      BY <1>1, <2>5, HandoffsSame
    <2>8. AccountTypes' /\ TablesGrow
      BY <1>1, <1>7, <1>9, <2>3, <2>5, <2>6, <2>7 DEF AccountTypes, AccountsInv, TablesGrow
    <2> QED BY <1>7, <1>8, <1>11, <2>1, <2>6, <2>8
  <1> QED BY <1>10, <1>11

LEMMA EnterInv ==
    ASSUME AccountsInv, NEW r \in Handlers, Enter(r)
    PROVE  AccountsInv'
  <1>1. /\ at[r] = "enter" /\ at' = [at EXCEPT ![r] = "open"] /\ HoldsProof(r)
        /\ UNCHANGED <<handoffs, sessions>>
    BY DEF Enter, Proceed, HoldsProof
  <1>2. /\ held[r] \in Memory /\ WithProof(held[r]) /\ ~challenges[held[r].proof].consumed
        /\ held[r].fresh => held[r].identity \in Identities /\ held[r].version = 1
        /\ ~held[r].fresh => Recorded(held[r].user, held[r].version)
    BY <1>1, ReadRow DEF MemoryHolds, GuardHolds
  <1>3. AccountTypes' /\ TablesGrow
    BY EnterWrites
  <1>4. \A h \in Challenges :
          challenges[h] # NONE => challenges'[h].consumed = (h = held[r].proof \/ challenges[h].consumed)
    BY EnterWrites
  <1>5. \A q \in Handlers \ {r} : Kept(q) /\ held'[q] = held[q]
    <2>1. \A q \in Handlers \ {r} : held'[q] = held[q]
      <3>1. CASE UNCHANGED held
        BY <3>1
      <3>2. ASSUME NEW u \in Users, held' = [held EXCEPT ![r] = [held[r] EXCEPT !.user = u]]
            PROVE  \A q \in Handlers \ {r} : held'[q] = held[q]
        BY <3>2 DEF AccountsInv, AccountTypes
      <3> QED BY <3>1, <3>2, EnterWrites
    <2> QED BY <1>1, <2>1 DEF AccountsInv, AccountTypes, Kept
  <1>6. SessionsHold' /\ OneSessionPerProof' /\ HandoffsHold'
    BY <1>1, <1>3, SessionsSame, SessionsKept, HandoffsSame DEF TablesGrow
  <1>7. ASSUME NEW q \in Handlers \ {r} PROVE Spares(q)
    <2>1. HoldsProof(q) => ~challenges'[held[q].proof].consumed
      <3>1. SUFFICES ASSUME HoldsProof(q) PROVE ~challenges'[held[q].proof].consumed
        OBVIOUS
      <3>2. WithProof(held[q]) /\ ~challenges[held[q].proof].consumed
        BY <3>1, ReadRow DEF MemoryHolds, GuardHolds
      <3>3. Pass(held[q]) # Pass(held[r])
        BY <1>1, <3>1 DEF AccountsInv, RequestsApart, Separate, Presents
      <3> QED BY <1>2, <1>4, <3>2, <3>3 DEF WithProof, Issued, Pass
    <2>2. ASSUME Registering(q) PROVE OnlyCreated(held[q].identity)'
      <3>1. OnlyCreated(held[q].identity) /\ held[q].identity \in Identities
        BY <2>2, ReadRow DEF GuardHolds, MemoryHolds, Registering
      <3>2. PICK i \in Identities : i = held[q].identity /\ i = held'[q].identity
        BY <1>5, <3>1
      <3>3. CASE UNCHANGED users
        BY <3>1, <3>2, <3>3 DEF OnlyCreated, Account, Present
      <3>4. ASSUME held[r].fresh, NEW u \in Users, users[u] = NONE,
                   users' = [users EXCEPT ![u] = NewAccount(held[r].identity, "registered", FALSE)]
            PROVE  OnlyCreated(held[q].identity)'
        <4>1. HoldsIdentity(q) /\ HoldsIdentity(r)
          BY <1>1, <1>2, <2>2, <3>1, <3>4, NoneAssumption DEF HoldsIdentity, Registering
        <4>2. held[r].identity # i
          BY <3>2, <4>1 DEF AccountsInv, RequestsApart, Separate
        <4>3. \A v \in Users : users'[v] = IF v = u THEN NewAccount(held[r].identity, "registered", FALSE) ELSE users[v]
          BY <3>4 DEF AccountsInv, AccountTypes
        <4>4. users'[u].identity # i
          BY <4>2, <4>3 DEF NewAccount
        <4> QED BY <3>1, <3>2, <4>3, <4>4 DEF OnlyCreated, Account, Present
      <3> QED BY <3>3, <3>4, EnterWrites
    <2>3. at[q] \in {"admit", "open"} => Unused(Pass(held[q]))'
      BY <1>1, <1>5, ReadRow DEF GuardHolds, Unused, Pass
    <2> QED BY <2>1, <2>2, <2>3 DEF Spares
  <1>8. PICK m \in Memory : m = held'[r] /\ Pass(m) = Pass(held[r])
    <2>1. held'[r] \in Memory
      BY <1>3 DEF AccountTypes
    <2>2. CASE UNCHANGED held
      BY <2>1, <2>2
    <2>3. ASSUME NEW u \in Users, held' = [held EXCEPT ![r] = [held[r] EXCEPT !.user = u]]
          PROVE  Pass(held'[r]) = Pass(held[r])
      BY <1>2, <2>3 DEF AccountsInv, AccountTypes, Memory, Pass
    <2> QED BY <2>1, <2>2, <2>3, EnterWrites
  <1>9. at'[r] = "open"
    BY <1>1 DEF AccountsInv, AccountTypes
  <1>10. Recorded(m.user, m.version)'
    <2>1. CASE ~held[r].fresh /\ UNCHANGED <<users, held>>
      BY <1>2, <1>8, <2>1 DEF Recorded, Known
    <2>2. ASSUME held[r].fresh, NEW u \in Users,
                 users' = [users EXCEPT ![u] = NewAccount(held[r].identity, "registered", FALSE)],
                 held' = [held EXCEPT ![r] = [held[r] EXCEPT !.user = u]]
          PROVE  Recorded(m.user, m.version)'
      <3>1. m.user = u /\ m.version = 1
        BY <1>2, <1>8, <2>2 DEF AccountsInv, AccountTypes, Memory
      <3>2. users'[u] = NewAccount(held[r].identity, "registered", FALSE)
        BY <2>2 DEF AccountsInv, AccountTypes
      <3>3. users'[u].version = 1 /\ users'[u] # NONE
        <4>1. NewAccount(held[r].identity, "registered", FALSE) \in AccountRow
          BY <1>2, <2>2 DEF NewAccount, AccountRow
        <4>2. NewAccount(held[r].identity, "registered", FALSE).version = 1
          BY DEF NewAccount
        <4> HIDE DEF NewAccount
        <4> QED BY <3>2, <4>1, <4>2, NoneAssumption
      <3> QED BY <3>1, <3>3 DEF Recorded, Known
    <2> QED BY <2>1, <2>2, EnterWrites
  <1>11. Spent(Pass(m))'
    BY <1>2, <1>3, <1>4, <1>8 DEF Spent, Pass, WithProof, Issued, TablesGrow, ChallengesGrow
  <1>12. Unused(Pass(m))'
    <2>1. ~Spent(Pass(m))
      BY <1>2, <1>8, NoneIsNoRow DEF Spent, Pass, WithProof, Issued
    <2> QED BY <1>1, <2>1 DEF Unused, AccountsInv, SessionsHold
  <1>13. Renewed(r)
    <2>1. MemoryHolds(r)'
      BY <1>8, <1>9, <1>10 DEF MemoryHolds, HoldsProof
    <2>2. GuardHolds(r)'
      BY <1>8, <1>9, <1>11, <1>12 DEF GuardHolds, HoldsProof, Registering
    <2>3. ASSUME NEW q \in Handlers \ {r} PROVE Separate(q, r)'
      <3>1. Presents(q) => Pass(held[q]) # Pass(m)
        BY <1>1, <1>8 DEF AccountsInv, RequestsApart, Separate, Presents
      <3> QED BY <1>5, <1>8, <1>9, <3>1 DEF Separate, Kept, Presents, HoldsProof, HoldsIdentity
    <2> QED BY <2>1, <2>2, <2>3 DEF Renewed
  <1> QED BY <1>3, <1>5, <1>6, <1>7, <1>13, StepInv

LEMMA OpenInv ==
    ASSUME AccountsInv, NEW r \in Handlers, Open(r)
    PROVE  AccountsInv'
  <1>1. at[r] = "open" /\ Leave(r) /\ UNCHANGED <<users, challenges, handoffs>>
    BY DEF Open
  <1>2. PICK m \in Memory : m = held[r]
    BY ReadRow
  <1>3. Recorded(m.user, m.version) /\ Spent(Pass(m)) /\ Unused(Pass(m))
    BY <1>1, <1>2, ReadRow DEF MemoryHolds, GuardHolds
  <1>4. PICK s \in Sessions : /\ sessions[s] = NONE
                              /\ sessions' = [sessions EXCEPT ![s] =
                                   [user |-> m.user, version |-> m.version, by |-> Pass(m),
                                    revoked |-> FALSE, expired |-> FALSE]]
    BY <1>2 DEF Open, Free, Pass
  <1> DEFINE row == [user |-> m.user, version |-> m.version, by |-> Pass(m),
                     revoked |-> FALSE, expired |-> FALSE]
  <1>5. row \in SessionRow /\ row.user = m.user /\ row.version = m.version /\ row.by = Pass(m)
    BY <1>3 DEF SessionRow, Memory, Pass, Recorded, Known
  <1>6. \A t \in Sessions : sessions'[t] = IF t = s THEN row ELSE sessions[t]
    BY <1>4 DEF AccountsInv, AccountTypes
  <1>7. sessions' \in [Sessions -> SessionRow \union {NONE}]
    BY <1>4, <1>5 DEF AccountsInv, AccountTypes
  <1> HIDE DEF row
  <1>8. AccountTypes' /\ AccountTypes
    BY <1>1, <1>7, LeaveRest DEF AccountsInv, AccountTypes
  <1>9. TablesGrow /\ HandoffsHold' /\ OriginsStay
    BY <1>1, <1>8, UsersSame, ChallengesSame, HandoffsSame DEF TablesGrow
  <1>10. SessionsHold'
    <2>1. \A pass : Spent(pass) => Spent(pass)'
      BY <1>1 DEF Spent, Issued
    <2>2. \A u, v : Recorded(u, v) => Recorded(u, v)'
      BY <1>1 DEF Recorded, Known
    <2> QED BY <1>3, <1>5, <1>6, <2>1, <2>2 DEF SessionsHold, AccountsInv
  <1>11. OneSessionPerProof'
    BY <1>3, <1>5, <1>6 DEF OneSessionPerProof, Unused, AccountsInv
  <1>12. ASSUME NEW q \in Handlers \ {r}, Kept(q) PROVE Spares(q)
    <2>1. HoldsProof(q) => ~challenges'[held[q].proof].consumed
      BY <1>1, ReadRow DEF GuardHolds
    <2>2. Registering(q) => OnlyCreated(held[q].identity)'
      <3>1. held'[q].identity = held[q].identity /\ UNCHANGED users
        BY <1>1, <1>12 DEF Kept
      <3> QED BY <3>1, ReadRow DEF GuardHolds, OnlyCreated, Account, Present
    <2>3. at[q] \in {"admit", "open"} => Unused(Pass(held[q]))'
      <3>1. SUFFICES ASSUME at[q] \in {"admit", "open"} PROVE Unused(Pass(held[q]))'
        OBVIOUS
      <3>2. Pass(held[q]) # Pass(m)
        BY <1>1, <1>2, <3>1 DEF AccountsInv, RequestsApart, Separate, Presents
      <3>3. Unused(Pass(held[q])) /\ held'[q] = held[q]
        BY <1>12, <3>1, ReadRow DEF GuardHolds, Kept
      <3> QED BY <1>5, <1>6, <3>2, <3>3 DEF Unused, Pass
    <2> QED BY <2>1, <2>2, <2>3 DEF Spares
  <1>13. Renewed(r) /\ \A q \in Handlers \ {r} : Kept(q)
    BY <1>1, <1>8, LeaveRenewed
  <1> QED BY <1>8, <1>9, <1>10, <1>11, <1>12, <1>13, StepInv

-----------------------------------------------------------------------------
(* The invariant                                                           *)

LEMMA SignInInv ==
    ASSUME AccountsInv, NEW r \in Handlers, SignIn(r)
    PROVE  AccountsInv'
  BY AskInv, SendInv, AskAgainInv, VerifyInv, ResendInv, WrongCodeInv, RightCodeInv, ClaimProofInv,
     UseAccountInv, LockIdentityInv, LookupInv, InsertAccountInv, EnterInv, OpenInv
     DEF SignIn

LEMMA ManageInv ==
    ASSUME AccountsInv, NEW r \in Handlers, Manage(r)
    PROVE  AccountsInv'
  BY SignedInInv, CreateHandoffInv, ConsumeHandoffInv, AdmitInv, RevokeOwnInv, RevokeOthersInv
     DEF Manage

LEMMA GovernInv ==
    ASSUME AccountsInv, NEW r \in Handlers, Govern(r)
    PROVE  AccountsInv'
  BY AskCreateInv, CreateAdminInv, GrantRolesInv, AskUpdateInv, UpdateStatusInv, UpdateAdminInv,
     AskRemoveInv, RemoveAdminInv, CloseAllInv
     DEF Govern

LEMMA AccountsStep == AccountsInv /\ [AccountsNext]_accountVars => AccountsInv'
  <1> SUFFICES ASSUME AccountsInv, [AccountsNext]_accountVars PROVE AccountsInv'
    OBVIOUS
  <1>1. CASE UNCHANGED accountVars
    BY <1>1, RestKept, SessionsSame, SessionRowsInv DEF accountVars, tables, AccountsInv, AccountTypes
  <1>2. CASE Elapse
    BY <1>2, ChallengeAgesInv, HandoffExpiresInv, SessionExpiresInv DEF Elapse
  <1>3. CASE Withdraw
    BY <1>3, LogoutInv DEF Withdraw
  <1>4. ASSUME NEW r \in Handlers, SignIn(r) \/ Manage(r) \/ Govern(r) \/ Abandon(r)
        PROVE  AccountsInv'
    BY <1>4, SignInInv, ManageInv, GovernInv, AbandonInv
  <1> QED BY <1>1, <1>2, <1>3, <1>4 DEF AccountsNext

LEMMA Invariant == AccountsSpec => []AccountsInv
  BY InitInv, AccountsStep, PTL DEF AccountsSpec

\* Every table keeps its rows' types, every request stands at a step of its
\* handler, and what it has read has the type of what it reads.
THEOREM AccountsWellTyped == AccountsSpec => []AccountTypes
  <1>1. AccountsInv => AccountTypes
    BY DEF AccountsInv
  <1> QED BY <1>1, Invariant, PTL

\* However many requests present a code or a handoff at once, one session comes
\* of it: verifyOtp claims the code in the row and consumeHandoff in its update.
THEOREM ProofsOpenOneSession == AccountsSpec => []OneSessionPerProof
  <1>1. AccountsInv => OneSessionPerProof
    BY DEF AccountsInv
  <1> QED BY <1>1, Invariant, PTL

\* The lock of the identity keeps two registrations of one identity apart: the
\* unique index is met only by an administrator's account.
THEOREM RegistrationsApart == AccountsSpec => []RegistrationsNeverCollide
  <1>1. AccountsInv => RegistrationsNeverCollide
    BY DEF AccountsInv, RequestsHold, GuardHolds, SomeCreated, RegistrationsNeverCollide
  <1> QED BY <1>1, Invariant, PTL

-----------------------------------------------------------------------------
(* A refused session                                                       *)

\* A step keeps an account's row, does not lower its version and does not undo
\* its removal; its status changes with a new version, or by an administrator's
\* update.
AccountMoves(u) ==
    /\ users'[u] # NONE
    /\ users[u].version <= users'[u].version
    /\ users[u].gone => users'[u].gone
    /\ \/ users'[u].status = users[u].status
       \/ users[u].version < users'[u].version
       \/ \E r \in Handlers : at[r] = "update" /\ held[r].user = u /\ users'[u].status = held[r].status

\* A step keeps a session's account and version, and does not reopen it.
SessionMoves(s) ==
    /\ sessions'[s] # NONE
    /\ sessions'[s].user = sessions[s].user
    /\ sessions'[s].version = sessions[s].version
    /\ sessions[s].revoked => sessions'[s].revoked
    /\ sessions[s].expired => sessions'[s].expired

LEMMA OtherAccount ==
    ASSUME AccountsInv, NEW u \in Users, users[u] # NONE, users'[u] = users[u]
    PROVE  AccountMoves(u)
  <1>1. users[u].version \in Nat
    BY DEF AccountsInv, AccountTypes, AccountRow
  <1> QED BY <1>1 DEF AccountMoves

LEMMA AccountsMove ==
    ASSUME AccountsInv, AccountsNext, NEW u \in Users, users[u] # NONE
    PROVE  AccountMoves(u)
  <1>1. users[u] \in AccountRow /\ users[u].version \in Nat
    BY DEF AccountsInv, AccountTypes, AccountRow
  <1>2. CASE UNCHANGED users
    BY <1>2, OtherAccount
  <1>3. ASSUME NEW r \in Handlers, Enter(r) PROVE AccountMoves(u)
    <2>1. CASE UNCHANGED users
      BY <2>1, OtherAccount
    <2>2. CASE ~UNCHANGED users
      <3>1. PICK v \in Users :
              users[v] = NONE /\ users' = [users EXCEPT ![v] = NewAccount(held[r].identity, "registered", FALSE)]
        BY <1>3, <2>2, EnterWrites
      <3>2. users'[u] = users[u]
        BY <3>1 DEF AccountsInv, AccountTypes
      <3> QED BY <3>2, OtherAccount
    <2> QED BY <2>1, <2>2
  <1>4. ASSUME NEW r \in Handlers, CreateAdmin(r) PROVE AccountMoves(u)
    <2>1. PICK v \in Users :
            users[v] = NONE /\ users' = [users EXCEPT ![v] = NewAccount(held[r].identity, "created", FALSE)]
      BY <1>4 DEF CreateAdmin, Free
    <2>2. users'[u] = users[u]
      BY <2>1 DEF AccountsInv, AccountTypes
    <2> QED BY <2>2, OtherAccount
  <1>5. ASSUME NEW r \in Handlers, GrantRoles(r) PROVE AccountMoves(u)
    <2>1. PICK super \in BOOLEAN : users' = [users EXCEPT ![held[r].user].super = super]
      BY <1>5 DEF GrantRoles
    <2>2. CASE held[r].user # u
      BY <2>1, <2>2, OtherAccount DEF AccountsInv, AccountTypes
    <2>3. CASE held[r].user = u
      <3>1. users'[u] = [users[u] EXCEPT !.super = super]
        BY <2>1, <2>3 DEF AccountsInv, AccountTypes
      <3>2. users'[u] \in AccountRow /\ users'[u].version = users[u].version /\ users'[u].gone = users[u].gone
            /\ users'[u].status = users[u].status
        BY <1>1, <3>1 DEF AccountRow
      <3> QED BY <1>1, <3>2, NoneAssumption DEF AccountMoves
    <2> QED BY <2>2, <2>3
  <1>6. ASSUME NEW r \in Handlers, UpdateAdmin(r) PROVE AccountMoves(u)
    <2>1. users' = [users EXCEPT ![held[r].user].status = held[r].status] /\ at[r] = "update"
      BY <1>6 DEF UpdateAdmin
    <2>2. CASE held[r].user # u
      BY <2>1, <2>2, OtherAccount DEF AccountsInv, AccountTypes
    <2>3. CASE held[r].user = u
      <3>1. users'[u] = [users[u] EXCEPT !.status = held[r].status]
        BY <2>1, <2>3 DEF AccountsInv, AccountTypes
      <3>2. users'[u] \in AccountRow /\ users'[u].version = users[u].version /\ users'[u].gone = users[u].gone
            /\ users'[u].status = held[r].status
        BY <1>1, <3>1, ReadRow DEF AccountRow, Memory
      <3> QED BY <1>1, <2>1, <2>3, <3>2, NoneAssumption DEF AccountMoves
    <2> QED BY <2>2, <2>3
  <1>7. ASSUME NEW r \in Handlers, RemoveAdmin(r) PROVE AccountMoves(u)
    <2>1. users' = [users EXCEPT ![held[r].user].gone = TRUE]
      BY <1>7 DEF RemoveAdmin
    <2>2. CASE held[r].user # u
      BY <2>1, <2>2, OtherAccount DEF AccountsInv, AccountTypes
    <2>3. CASE held[r].user = u
      <3>1. users'[u] = [users[u] EXCEPT !.gone = TRUE]
        BY <2>1, <2>3 DEF AccountsInv, AccountTypes
      <3>2. users'[u] \in AccountRow /\ users'[u].version = users[u].version /\ users'[u].gone
            /\ users'[u].status = users[u].status
        BY <1>1, <3>1 DEF AccountRow
      <3> QED BY <1>1, <3>2, NoneAssumption DEF AccountMoves
    <2> QED BY <2>2, <2>3
  <1>8. ASSUME NEW r \in Handlers, NEW v \in Users, NEW status \in {"active", "suspended"},
               UpdateStatus(r, v, status)
        PROVE  AccountMoves(u)
    <2>1. users' = [users EXCEPT ![v].status = status, ![v].version = @ + 1]
      BY <1>8 DEF UpdateStatus
    <2>2. CASE v # u
      BY <2>1, <2>2, OtherAccount DEF AccountsInv, AccountTypes
    <2>3. CASE v = u
      <3>1. users'[u] = [users[u] EXCEPT !.status = status, !.version = users[u].version + 1]
        BY <1>1, <2>1, <2>3 DEF AccountsInv, AccountTypes, AccountRow
      <3>2. users[u].version + 1 \in Nat /\ users[u].version < users[u].version + 1
        BY <1>1
      <3>3. users'[u] \in AccountRow /\ users'[u].version = users[u].version + 1 /\ users'[u].gone = users[u].gone
        BY <1>1, <3>1, <3>2 DEF AccountRow
      <3> QED BY <1>1, <3>2, <3>3, NoneAssumption DEF AccountMoves
    <2> QED BY <2>2, <2>3
  <1>9. CASE Elapse \/ Withdraw
    BY <1>2, <1>9 DEF Elapse, Withdraw, ChallengeAges, HandoffExpires, SessionExpires, Logout, RevokeSession
  <1>10. ASSUME NEW r \in Handlers, SignIn(r) PROVE AccountMoves(u)
    BY <1>2, <1>3, <1>10
       DEF SignIn, tables, Ask, Send, AskAgain, Verify, Resend, WrongCode, RightCode, ClaimProof,
           UseAccount, LockIdentity, Lookup, InsertAccount, Open
  <1>11. ASSUME NEW r \in Handlers, Manage(r) PROVE AccountMoves(u)
    BY <1>2, <1>11
       DEF Manage, tables, SignedIn, CreateHandoff, ConsumeHandoff, Admit, RevokeOwn, RevokeOthers
  <1>12. ASSUME NEW r \in Handlers, Govern(r) PROVE AccountMoves(u)
    BY <1>2, <1>4, <1>5, <1>6, <1>7, <1>8, <1>12
       DEF Govern, tables, AskCreate, AskUpdate, AskRemove, CloseAll
  <1>13. ASSUME NEW r \in Handlers, Abandon(r) PROVE AccountMoves(u)
    BY <1>2, <1>13 DEF Abandon, tables
  <1> QED BY <1>9, <1>10, <1>11, <1>12, <1>13 DEF AccountsNext

LEMMA SessionsMove ==
    ASSUME AccountsInv, AccountsNext, NEW s \in Sessions, sessions[s] # NONE
    PROVE  SessionMoves(s)
  <1>1. sessions[s] \in SessionRow
    BY DEF AccountsInv, AccountTypes
  <1>2. CASE UNCHANGED sessions
    BY <1>2 DEF SessionMoves
  <1>3. ASSUME NEW S, CloseSessions(S) PROVE SessionMoves(s)
    <2>1. sessions'[s] = sessions[s] \/ sessions'[s] = [sessions[s] EXCEPT !.revoked = TRUE]
      BY <1>3 DEF CloseSessions
    <2>2. [sessions[s] EXCEPT !.revoked = TRUE] \in SessionRow
      BY <1>1 DEF SessionRow
    <2> QED BY <1>1, <2>1, <2>2, NoneAssumption DEF SessionMoves, SessionRow
  <1>4. ASSUME NEW r \in Handlers, Open(r) PROVE SessionMoves(s)
    <2>1. sessions'[s] = sessions[s]
      BY <1>4 DEF Open, Free, AccountsInv, AccountTypes
    <2> QED BY <2>1 DEF SessionMoves
  <1>5. ASSUME NEW t \in Sessions, SessionExpires(t) PROVE SessionMoves(s)
    <2>1. sessions'[s] = sessions[s] \/ sessions'[s] = [sessions[s] EXCEPT !.expired = TRUE]
      BY <1>5 DEF SessionExpires, AccountsInv, AccountTypes
    <2>2. [sessions[s] EXCEPT !.expired = TRUE] \in SessionRow
      BY <1>1 DEF SessionRow
    <2> QED BY <1>1, <2>1, <2>2, NoneAssumption DEF SessionMoves, SessionRow
  <1>6. CASE Elapse \/ Withdraw
    BY <1>2, <1>3, <1>5, <1>6 DEF Elapse, Withdraw, ChallengeAges, HandoffExpires, Logout, RevokeSession
  <1>7. ASSUME NEW r \in Handlers, SignIn(r) PROVE SessionMoves(s)
    BY <1>2, <1>4, <1>7
       DEF SignIn, tables, Ask, Send, AskAgain, Verify, Resend, WrongCode, RightCode, ClaimProof,
           UseAccount, LockIdentity, Lookup, InsertAccount, Enter
  <1>8. ASSUME NEW r \in Handlers, CloseAll(r) \/ RevokeOthers(r) PROVE SessionMoves(s)
    <2>1. PICK S : CloseSessions(S)
      BY <1>8 DEF CloseAll, RevokeOthers
    <2> QED BY <1>3, <2>1
  <1>9. ASSUME NEW r \in Handlers, Manage(r) PROVE SessionMoves(s)
    BY <1>2, <1>3, <1>8, <1>9
       DEF Manage, tables, SignedIn, CreateHandoff, ConsumeHandoff, Admit, RevokeOwn
  <1>10. ASSUME NEW r \in Handlers, Govern(r) PROVE SessionMoves(s)
    BY <1>2, <1>8, <1>10
       DEF Govern, tables, AskCreate, CreateAdmin, GrantRoles, AskUpdate, UpdateStatus, UpdateAdmin,
           AskRemove, RemoveAdmin
  <1>11. ASSUME NEW r \in Handlers, Abandon(r) PROVE SessionMoves(s)
    BY <1>2, <1>11 DEF Abandon, tables
  <1> QED BY <1>6, <1>7, <1>9, <1>10, <1>11 DEF AccountsNext

\* A session that refresh refuses is refused for good, except that an
\* administrator sets an account's status back without a new version.
THEOREM RefusalIsFinal == AccountsSpec => RefusedStaysRefused
  <1>1. ASSUME AccountsInv, AccountsNext, NEW s \in Sessions,
               sessions[s] # NONE, ~Refreshable(s), Refreshable(s)'
        PROVE  \E r \in Handlers : at[r] = "update" /\ held[r].user = sessions[s].user /\ held[r].status = "active"
    <2>1. PICK u \in Users : u = sessions[s].user /\ users[u] # NONE
      BY <1>1 DEF AccountsInv, SessionsHold, Recorded, Known
    <2>2. SessionMoves(s) /\ AccountMoves(u)
      BY <1>1, <2>1, SessionsMove, AccountsMove
    <2>3. sessions[s] \in SessionRow /\ users[u] \in AccountRow
      BY <1>1, <2>1 DEF AccountsInv, AccountTypes
    <2>4. Valid(s)
      BY <1>1, <2>2 DEF Refreshable, Valid, SessionMoves
    <2>5. sessions'[s].user = u /\ sessions'[s].version = sessions[s].version
      BY <2>1, <2>2 DEF SessionMoves
    <2>6. Active(u)' /\ sessions[s].version = users'[u].version
      BY <1>1, <2>5 DEF Refreshable, Active, Present
    <2>7. sessions[s].version <= users[u].version
      BY <1>1, <2>1 DEF AccountsInv, SessionsHold, Recorded
    <2>8. users[u].version = users'[u].version
      BY <2>2, <2>3, <2>6, <2>7 DEF AccountMoves, SessionRow, AccountRow
    <2>9. ~Active(u)
      BY <1>1, <2>1, <2>4, <2>6, <2>8 DEF Refreshable
    <2>10. users'[u].status = "active" /\ users'[u].status # users[u].status
      BY <2>1, <2>2, <2>6, <2>9 DEF AccountMoves, Active, Present
    <2>11. ~(users[u].version < users'[u].version)
      BY <2>3, <2>8 DEF AccountRow
    <2> QED BY <2>1, <2>2, <2>10, <2>11 DEF AccountMoves
  <1>2. ASSUME UNCHANGED accountVars, NEW s \in Sessions PROVE Refreshable(s)' <=> Refreshable(s)
    BY <1>2 DEF accountVars, tables, Refreshable, Valid, Active, Present
  <1>3. AccountsInv /\ [AccountsNext]_accountVars
          => [\A s \in Sessions : sessions[s] # NONE /\ ~Refreshable(s) /\ Refreshable(s)' =>
               \E r \in Handlers : at[r] = "update" /\ held[r].user = sessions[s].user /\ held[r].status = "active"]_accountVars
    BY <1>1, <1>2
  <1> QED BY <1>3, Invariant, PTL DEF AccountsSpec, RefusedStaysRefused
=============================================================================
