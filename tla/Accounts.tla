------------------------------- MODULE Accounts -------------------------------
(***************************************************************************)
(* Accounts and sessions: one-time codes, registration, the handoff to the *)
(* panel, revocation, and what administrators do to an account.            *)
(*                                                                         *)
(* A handler is split where the code awaits the database or the messenger. *)
(* Only verifyOtp uses a transaction: it has consumed the code and, for a  *)
(* new account, holds the advisory lock of the identity until it commits.  *)
(***************************************************************************)
EXTENDS Naturals, FiniteSets

CONSTANTS
    Identities,     \* country code and number
    Seeded,         \* the identity of the seeded Super Admin
    Handlers,       \* requests served at one time
    MaxAttempts,    \* OTP_MAX_ATTEMPTS
    MaxUsers,       \* bound: rows of users
    MaxChallenges,  \* bound: rows of otp_challenges
    MaxHandoffs,    \* bound: rows of authentication_handoffs
    MaxSessions,    \* bound: rows of user_sessions
    MaxVersion,     \* bound: users.token_version
    NONE

ASSUME AccountsAssumption == /\ MaxAttempts \in Nat \ {0}
                             /\ Seeded \in Identities
                             /\ MaxUsers \in Nat /\ MaxChallenges \in Nat
                             /\ MaxHandoffs \in Nat /\ MaxSessions \in Nat

Users      == 1..MaxUsers
Challenges == 1..MaxChallenges
Handoffs   == 1..MaxHandoffs
Sessions   == 1..MaxSessions

VARIABLES
    users,       \* users; NONE before the insert
    challenges,  \* otp_challenges
    handoffs,    \* authentication_handoffs
    sessions,    \* user_sessions, with the code or handoff that opened each
    at,          \* where each request stands
    held         \* what it has read

tables      == <<users, challenges, handoffs, sessions>>
accountVars == <<tables, at, held>>

Blank == [identity |-> NONE, user |-> NONE, version |-> 0, complete |-> FALSE,
          proof |-> NONE, handoff |-> NONE, session |-> NONE, attempts |-> 0,
          status |-> "active", fresh |-> FALSE]

AccountRow   == [identity : Identities, status : {"active", "suspended"}, gone : BOOLEAN,
                 version : Nat, made : {"created", "registered"}, super : BOOLEAN]
ChallengeRow == [identity : Identities, complete : BOOLEAN, user : Users \union {NONE}, sent : BOOLEAN,
                 attempts : Nat, consumed : BOOLEAN, expired : BOOLEAN, cooling : BOOLEAN]
HandoffRow   == [user : Users, consumed : BOOLEAN, expired : BOOLEAN]
SessionRow   == [user : Users, version : Nat,
                 by : (Challenges \union {NONE}) \X (Handoffs \union {NONE}),
                 revoked : BOOLEAN, expired : BOOLEAN]

ASSUME NoneAssumption ==
    /\ NONE \notin Identities /\ NONE \notin Nat
    /\ NONE \notin AccountRow /\ NONE \notin ChallengeRow
    /\ NONE \notin HandoffRow /\ NONE \notin SessionRow

Free(table, rows) == {n \in rows : table[n] = NONE /\ \A k \in rows : table[k] = NONE => n <= k}
Present(u)  == u \in Users /\ users[u] # NONE /\ ~users[u].gone
Active(u)   == Present(u) /\ users[u].status = "active"
Account(i)  == {u \in Users : Present(u) /\ users[u].identity = i}
Valid(s)    == sessions[s] # NONE /\ ~sessions[s].revoked /\ ~sessions[s].expired

NewAccount(i, made, super) ==
    [identity |-> i, status |-> "active", gone |-> FALSE, version |-> 1, made |-> made, super |-> super]

\* The first account is the Super Admin of the seeder.
AccountsInit ==
    /\ users      = [u \in Users |-> IF u = 1 THEN NewAccount(Seeded, "created", TRUE) ELSE NONE]
    /\ challenges = [h \in Challenges |-> NONE]
    /\ handoffs   = [k \in Handoffs |-> NONE]
    /\ sessions   = [s \in Sessions |-> NONE]
    /\ at         = [r \in Handlers |-> "idle"]
    /\ held       = [r \in Handlers |-> Blank]

Proceed(r, from, to) ==
    /\ at[r] = from
    /\ at' = [at EXCEPT ![r] = to]

Leave(r) ==
    /\ at'   = [at EXCEPT ![r] = "idle"]
    /\ held' = [held EXCEPT ![r] = Blank]

\* A refusal, an error, or the end of the process that served the request.
\* An open transaction is rolled back.
Abandon(r) ==
    /\ at[r] # "idle"
    /\ Leave(r)
    /\ UNCHANGED tables

-----------------------------------------------------------------------------
(* One-time codes                                                          *)

\* requestOtp, first half: no code is cooling down, and the active account of
\* the number is looked up.  A number without its country may name several.
Ask(r, i, complete) ==
    LET found == {u \in Account(i) : Active(u)} IN
    /\ Proceed(r, "idle", "send")
    /\ \A h \in Challenges : challenges[h] # NONE =>
        ~(challenges[h].identity = i /\ challenges[h].complete = complete /\ challenges[h].cooling)
    /\ \E u \in IF complete /\ found # {} THEN found ELSE found \union {NONE} :
        held' = [held EXCEPT ![r].identity = i, ![r].complete = complete, ![r].user = u]
    /\ UNCHANGED tables

\* The messenger has answered.  A code is sent only where the number is known.
Send(r) ==
    LET m == held[r] IN
    /\ at[r] = "send"
    /\ \E h \in Free(challenges, Challenges), sent \in BOOLEAN :
        /\ sent => m.complete \/ m.user # NONE
        /\ challenges' = [challenges EXCEPT ![h] =
            [identity |-> m.identity, complete |-> m.complete, user |-> m.user, sent |-> sent,
             attempts |-> 0, consumed |-> FALSE, expired |-> FALSE, cooling |-> TRUE]]
    /\ Leave(r)
    /\ UNCHANGED <<users, handoffs, sessions>>

Usable(h) ==
    /\ challenges[h] # NONE
    /\ challenges[h].sent
    /\ ~challenges[h].consumed
    /\ ~challenges[h].expired

\* resendOtp: what the messenger sends is stored by id, with a new expiry when
\* the code is a new one.
AskAgain(r, h) ==
    /\ Usable(h)
    /\ challenges[h].complete
    /\ ~challenges[h].cooling
    /\ Proceed(r, "idle", "resend")
    /\ held' = [held EXCEPT ![r].proof = h]
    /\ UNCHANGED tables

Resend(r) ==
    /\ at[r] = "resend"
    /\ \E rotated \in BOOLEAN :
        challenges' = [challenges EXCEPT ![held[r].proof].cooling = TRUE,
                                         ![held[r].proof].expired = @ /\ ~rotated]
    /\ Leave(r)
    /\ UNCHANGED <<users, handoffs, sessions>>

\* Minutes pass.
ChallengeAges(h) ==
    /\ challenges[h] # NONE
    /\ \/ /\ challenges[h].cooling
          /\ challenges' = [challenges EXCEPT ![h].cooling = FALSE]
       \/ /\ ~challenges[h].expired
          /\ challenges' = [challenges EXCEPT ![h].expired = TRUE]
    /\ UNCHANGED <<users, handoffs, sessions, at, held>>

-----------------------------------------------------------------------------
(* verifyOtp                                                               *)

Verify(r, h) ==
    /\ Usable(h)
    /\ challenges[h].attempts < MaxAttempts
    /\ Proceed(r, "idle", "compare")
    /\ held' = [held EXCEPT ![r].proof = h, ![r].attempts = challenges[h].attempts]
    /\ UNCHANGED tables

WrongCode(r) ==
    /\ at[r] = "compare"
    /\ challenges' = [challenges EXCEPT ![held[r].proof].attempts = held[r].attempts + 1]
    /\ Leave(r)
    /\ UNCHANGED <<users, handoffs, sessions>>

RightCode(r) ==
    /\ Proceed(r, "compare", "claim")
    /\ LET u == challenges[held[r].proof].user IN u # NONE => Active(u)
    /\ UNCHANGED <<tables, held>>

\* The transaction has updated the row of the code, which stays locked.
HoldsProof(r) == at[r] \in {"resolve", "register", "insert", "enter", "conflict"}

\* A wrong version: the update does not require that the code is unconsumed.
ClaimAnyProof(r) ==
    /\ Proceed(r, "claim", "resolve")
    /\ UNCHANGED <<tables, held>>

\* update ... where consumed_at is null returning: of two, one waits and fails.
ClaimProof(r) ==
    /\ Proceed(r, "claim", "resolve")
    /\ ~challenges[held[r].proof].consumed
    /\ \A q \in Handlers : HoldsProof(q) => held[q].proof # held[r].proof
    /\ UNCHANGED <<tables, held>>

\* The account of the code, if it still is active.
UseAccount(r) ==
    LET u == challenges[held[r].proof].user IN
    /\ Proceed(r, "resolve", "enter")
    /\ Active(u)
    /\ held' = [held EXCEPT ![r].user = u, ![r].version = users[u].version]
    /\ UNCHANGED tables

HoldsIdentity(r) == at[r] \in {"register", "insert", "conflict"} \/ (at[r] = "enter" /\ held[r].identity # NONE)

\* A wrong version: without the lock.
LockNothing(r) ==
    LET c == challenges[held[r].proof] IN
    /\ Proceed(r, "resolve", "register")
    /\ ~Active(c.user)
    /\ c.complete
    /\ held' = [held EXCEPT ![r].identity = c.identity]
    /\ UNCHANGED tables

\* pg_advisory_xact_lock of the identity.
LockIdentity(r) ==
    LET c == challenges[held[r].proof] IN
    /\ Proceed(r, "resolve", "register")
    /\ ~Active(c.user)
    /\ c.complete
    /\ \A q \in Handlers : HoldsIdentity(q) => held[q].identity # c.identity
    /\ held' = [held EXCEPT ![r].identity = c.identity]
    /\ UNCHANGED tables

\* The identity is looked up again: an account that is not active ends here.
Lookup(r) ==
    LET found == Account(held[r].identity) IN
    /\ at[r] = "register"
    /\ \/ /\ found = {}
          /\ at' = [at EXCEPT ![r] = "insert"]
          /\ UNCHANGED held
       \/ \E u \in found :
            /\ Active(u)
            /\ at'   = [at EXCEPT ![r] = "enter"]
            /\ held' = [held EXCEPT ![r].user = u, ![r].version = users[u].version]
    /\ UNCHANGED tables

\* The rows of users that transactions have inserted and not committed.
Inserting(i) == \E q \in Handlers : at[q] = "enter" /\ held[q].fresh /\ held[q].identity = i

\* (country code, mobile) is unique among accounts that are not deleted.
InsertAccount(r) ==
    /\ at[r] = "insert"
    /\ ~Inserting(held[r].identity)
    /\ IF Account(held[r].identity) # {}
       THEN /\ at' = [at EXCEPT ![r] = "conflict"]
            /\ UNCHANGED held
       ELSE /\ at'   = [at EXCEPT ![r] = "enter"]
            /\ held' = [held EXCEPT ![r].fresh = TRUE, ![r].version = 1]
    /\ UNCHANGED tables

\* Commit: the code is consumed and the account exists.
Enter(r) ==
    /\ Proceed(r, "enter", "open")
    /\ challenges' = [challenges EXCEPT ![held[r].proof].consumed = TRUE]
    /\ IF held[r].fresh
       THEN \E u \in Free(users, Users) :
            /\ users' = [users EXCEPT ![u] = NewAccount(held[r].identity, "registered", FALSE)]
            /\ held'  = [held EXCEPT ![r].user = u]
       ELSE UNCHANGED <<users, held>>
    /\ UNCHANGED <<handoffs, sessions>>

\* createSession, for the account and the version read before.
Open(r) ==
    LET m == held[r] IN
    /\ at[r] = "open"
    /\ \E s \in Free(sessions, Sessions) :
        sessions' = [sessions EXCEPT ![s] =
            [user |-> m.user, version |-> m.version, by |-> <<m.proof, m.handoff>>,
             revoked |-> FALSE, expired |-> FALSE]]
    /\ Leave(r)
    /\ UNCHANGED <<users, challenges, handoffs>>

-----------------------------------------------------------------------------
(* The handoff to the panel                                                *)

\* authenticateSession; what follows awaits other reads.
SignedIn(r, s, step) ==
    /\ Valid(s)
    /\ Proceed(r, "idle", step)
    /\ held' = [held EXCEPT ![r].session = s, ![r].user = sessions[s].user]
    /\ UNCHANGED tables

CreateHandoff(r) ==
    /\ at[r] = "handoff"
    /\ \E k \in Free(handoffs, Handoffs) :
        handoffs' = [handoffs EXCEPT ![k] = [user |-> held[r].user, consumed |-> FALSE, expired |-> FALSE]]
    /\ Leave(r)
    /\ UNCHANGED <<users, challenges, sessions>>

\* One guarded update; the account is read afterwards.
ConsumeHandoff(r, k) ==
    /\ handoffs[k] # NONE
    /\ ~handoffs[k].consumed
    /\ ~handoffs[k].expired
    /\ Proceed(r, "idle", "admit")
    /\ handoffs' = [handoffs EXCEPT ![k].consumed = TRUE]
    /\ held' = [held EXCEPT ![r].handoff = k, ![r].user = handoffs[k].user]
    /\ UNCHANGED <<users, challenges, sessions>>

Admit(r) ==
    /\ Proceed(r, "admit", "open")
    /\ Active(held[r].user)
    /\ held' = [held EXCEPT ![r].version = users[held[r].user].version]
    /\ UNCHANGED tables

HandoffExpires(k) ==
    /\ handoffs[k] # NONE
    /\ ~handoffs[k].expired
    /\ handoffs' = [handoffs EXCEPT ![k].expired = TRUE]
    /\ UNCHANGED <<users, challenges, sessions, at, held>>

-----------------------------------------------------------------------------
(* Sessions                                                                *)

CloseSessions(S) ==
    sessions' = [s \in Sessions |->
        IF s \in S /\ sessions[s] # NONE THEN [sessions[s] EXCEPT !.revoked = TRUE] ELSE sessions[s]]

Of(u) == {s \in Sessions : sessions[s] # NONE /\ sessions[s].user = u}

\* The bearer of an access token, whose session may have ended meanwhile.
Logout(s) ==
    /\ sessions[s] # NONE
    /\ ~sessions[s].revoked
    /\ CloseSessions({s})
    /\ UNCHANGED <<users, challenges, handoffs, at, held>>

RevokeOwn(r) ==
    /\ at[r] = "revoke"
    /\ \E s \in Of(held[r].user) : ~sessions[s].revoked /\ CloseSessions({s})
    /\ Leave(r)
    /\ UNCHANGED <<users, challenges, handoffs>>

RevokeOthers(r) ==
    /\ at[r] = "revokeOthers"
    /\ CloseSessions(Of(held[r].user) \ {held[r].session})
    /\ Leave(r)
    /\ UNCHANGED <<users, challenges, handoffs>>

RevokeSession(s) ==
    /\ sessions[s] # NONE
    /\ ~sessions[s].revoked
    /\ Present(sessions[s].user)
    /\ CloseSessions({s})
    /\ UNCHANGED <<users, challenges, handoffs, at, held>>

SessionExpires(s) ==
    /\ Valid(s)
    /\ sessions' = [sessions EXCEPT ![s].expired = TRUE]
    /\ UNCHANGED <<users, challenges, handoffs, at, held>>

-----------------------------------------------------------------------------
(* What administrators do                                                  *)

\* AdminController.create looks for the identity, then inserts; the unique
\* index refuses it if the identity has come meanwhile.
AskCreate(r, i) ==
    /\ Account(i) = {}
    /\ Proceed(r, "idle", "create")
    /\ held' = [held EXCEPT ![r].identity = i]
    /\ UNCHANGED tables

CreateAdmin(r) ==
    /\ Proceed(r, "create", "roles")
    /\ ~Inserting(held[r].identity)
    /\ Account(held[r].identity) = {}
    /\ \E u \in Free(users, Users) :
        /\ users' = [users EXCEPT ![u] = NewAccount(held[r].identity, "created", FALSE)]
        /\ held'  = [held EXCEPT ![r].user = u]
    /\ UNCHANGED <<challenges, handoffs, sessions>>

\* The roles follow in a statement of their own.
GrantRoles(r) ==
    /\ at[r] = "roles"
    /\ \E super \in BOOLEAN : users' = [users EXCEPT ![held[r].user].super = super]
    /\ Leave(r)
    /\ UNCHANGED <<challenges, handoffs, sessions>>

\* The final active Super Admin is neither deactivated nor deleted; the count
\* is read before the update.
Final(u) == users[u].super /\ Cardinality({v \in Users : Active(v) /\ users[v].super}) <= 1

AskUpdate(r, u, status) ==
    /\ Present(u)
    /\ status # "active" => ~Final(u)
    /\ Proceed(r, "idle", "update")
    /\ held' = [held EXCEPT ![r].user = u, ![r].status = status]
    /\ UNCHANGED tables

\* The row, and for another status than active then the sessions.
UpdateAdmin(r) ==
    /\ at[r] = "update"
    /\ Present(held[r].user)
    /\ users' = [users EXCEPT ![held[r].user].status = held[r].status]
    /\ IF held[r].status = "active"
       THEN Leave(r)
       ELSE at' = [at EXCEPT ![r] = "close"] /\ UNCHANGED held
    /\ UNCHANGED <<challenges, handoffs, sessions>>

AskRemove(r, u) ==
    /\ Present(u)
    /\ ~Final(u)
    /\ Proceed(r, "idle", "remove")
    /\ held' = [held EXCEPT ![r].user = u]
    /\ UNCHANGED tables

RemoveAdmin(r) ==
    /\ Proceed(r, "remove", "close")
    /\ Present(held[r].user)
    /\ users' = [users EXCEPT ![held[r].user].gone = TRUE]
    /\ UNCHANGED <<challenges, handoffs, sessions, held>>

\* A wrong version: the token version stays.
UpdateStatusOnly(r, u, status) ==
    /\ at[r] = "idle"
    /\ Present(u)
    /\ users' = [users EXCEPT ![u].status = status]
    /\ IF status = "active"
       THEN UNCHANGED <<at, held>>
       ELSE /\ at'   = [at EXCEPT ![r] = "close"]
            /\ held' = [held EXCEPT ![r].user = u]
    /\ UNCHANGED <<challenges, handoffs, sessions>>

\* AdminCustomerControlController.updateStatus: refresh tokens of the account's
\* sessions, also of those that are being opened, belong to an old version.
UpdateStatus(r, u, status) ==
    /\ at[r] = "idle"
    /\ Present(u)
    /\ users[u].version < MaxVersion
    /\ users' = [users EXCEPT ![u].status = status, ![u].version = @ + 1]
    /\ IF status = "active"
       THEN UNCHANGED <<at, held>>
       ELSE /\ at'   = [at EXCEPT ![r] = "close"]
            /\ held' = [held EXCEPT ![r].user = u]
    /\ UNCHANGED <<challenges, handoffs, sessions>>

\* The sessions the account has when this statement runs.
CloseAll(r) ==
    /\ at[r] = "close"
    /\ CloseSessions(Of(held[r].user))
    /\ Leave(r)
    /\ UNCHANGED <<users, challenges, handoffs>>

-----------------------------------------------------------------------------
SignIn(r) ==
    \/ \E i \in Identities, complete \in BOOLEAN : Ask(r, i, complete)
    \/ Send(r)
    \/ \E h \in Challenges : AskAgain(r, h) \/ Verify(r, h)
    \/ Resend(r)
    \/ WrongCode(r)
    \/ RightCode(r)
    \/ ClaimProof(r)
    \/ UseAccount(r)
    \/ LockIdentity(r)
    \/ Lookup(r)
    \/ InsertAccount(r)
    \/ Enter(r)
    \/ Open(r)

Manage(r) ==
    \/ \E s \in Sessions, step \in {"handoff", "revoke", "revokeOthers"} : SignedIn(r, s, step)
    \/ CreateHandoff(r)
    \/ \E k \in Handoffs : ConsumeHandoff(r, k)
    \/ Admit(r)
    \/ RevokeOwn(r)
    \/ RevokeOthers(r)

Govern(r) ==
    \/ \E i \in Identities : AskCreate(r, i)
    \/ CreateAdmin(r)
    \/ GrantRoles(r)
    \/ \E u \in Users, status \in {"active", "suspended"} :
        AskUpdate(r, u, status) \/ UpdateStatus(r, u, status)
    \/ UpdateAdmin(r)
    \/ \E u \in Users : AskRemove(r, u)
    \/ RemoveAdmin(r)
    \/ CloseAll(r)

Elapse ==
    \/ \E h \in Challenges : ChallengeAges(h)
    \/ \E k \in Handoffs : HandoffExpires(k)
    \/ \E s \in Sessions : SessionExpires(s)

Withdraw == \E s \in Sessions : Logout(s) \/ RevokeSession(s)

AccountsNext ==
    \/ Elapse
    \/ Withdraw
    \/ \E r \in Handlers : SignIn(r) \/ Manage(r) \/ Govern(r) \/ Abandon(r)

AccountsSpec == AccountsInit /\ [][AccountsNext]_accountVars

-----------------------------------------------------------------------------
\* A code, and a handoff, opens one session, however many requests present it
\* at once: the guarded updates of verifyOtp and consumeHandoff.
OneSessionPerProof ==
    \A s, t \in Sessions :
        s # t /\ sessions[s] # NONE /\ sessions[t] # NONE => sessions[s].by # sessions[t].by

\* Codes of one identity that are verified at once register one account, and
\* never meet the unique index: the lock of the identity covers the lookup and
\* the insert.  Only an administrator's insert in between is met there.
RegistrationsNeverCollide ==
    \A r \in Handlers : at[r] = "conflict" =>
        \E u \in Users : users[u] # NONE /\ users[u].identity = held[r].identity /\ users[u].made = "created"

\* What refresh requires of a session, which keeps its version for life.
Refreshable(s) ==
    /\ Valid(s)
    /\ Active(sessions[s].user)
    /\ sessions[s].version = users[sessions[s].user].version

\* A session that cannot be refreshed stays so, also one that was being opened
\* while its account was suspended; only an administrator's update of a status
\* without a new version brings it back.
RefusedStaysRefused ==
    [][\A s \in Sessions :
        sessions[s] # NONE /\ ~Refreshable(s) /\ Refreshable(s)' =>
            \E r \in Handlers : at[r] = "update" /\ held[r].user = sessions[s].user /\ held[r].status = "active"]_accountVars
===============================================================================
