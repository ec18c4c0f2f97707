---------------------------- MODULE DatabaseGrants ----------------------------
(***************************************************************************)
(* Additional logins of one logical database and their grants: the rows in *)
(* the panel, the logins and privileges at the database server, the        *)
(* requests of DatabaseAccessController, and the sweep of the minute cron  *)
(* that revokes expired grants.  Every request writes the server first and *)
(* its row second.                                                         *)
(*                                                                         *)
(* A call of DatabaseAccessService is one step at the server.  The name of *)
(* a deleted login is not used again.  Owner grants, which the requests    *)
(* refuse and which never expire, and passwords are left out.              *)
(***************************************************************************)
EXTENDS Naturals, FiniteSets

CONSTANTS
    Logins,      \* usernames on the cluster
    Levels,      \* access levels
    MaxGrants,   \* bound: rows of database_user_grants
    Askers,      \* requests served at one time
    Sweepers,    \* runs of the expiry service at one time
    Batch,       \* grants one run looks at
    Engine,      \* the cluster's engine
    NoGrant      \* no grant, no login

ASSUME EngineAssumption == Engine \in {"postgresql", "mysql"}
ASSUME GrantsAssumption == MaxGrants \in Nat /\ NoGrant \notin 1..MaxGrants \union Logins
ASSUME LevelsAssumption == "none" \notin Levels
ASSUME BatchAssumption == Batch \in Nat \ {0}

Grants == 1..MaxGrants

VARIABLES
    account,   \* database_users by username: status, "none" before the insert
    grant,     \* database_user_grants; NoGrant before the insert
    login,     \* at the server: is the login absent, enabled or locked
    access,    \* at the server: what a login may do in the database
    ask,       \* what each request has read and where it stands
    sweep      \* what each run has still to do, and the grant it has just revoked

server == <<login, access>>
grantVars == <<account, grant, server, ask, sweep>>

Asleep == [step |-> "idle", login |-> NoGrant, grant |-> NoGrant, level |-> "none",
           expires |-> "never", fresh |-> FALSE]
Done == [todo |-> {}, revoked |-> NoGrant]

GrantsInit ==
    /\ account = [l \in Logins |-> "none"]
    /\ grant = [g \in Grants |-> NoGrant]
    /\ login = [l \in Logins |-> "absent"]
    /\ access = [l \in Logins |-> "none"]
    /\ ask = [q \in Askers |-> Asleep]
    /\ sweep = [s \in Sweepers |-> Done]

Known(l) == account[l] \in {"active", "suspended"}
Granted(g) == grant[g] # NoGrant
ActiveGrant(g) == Granted(g) /\ grant[g].status = "active"
HasGrant(l) == \E g \in Grants : ActiveGrant(g) /\ grant[g].login = l

Asks(q, step) == ask[q].step = step
Onward(q, step) == ask' = [ask EXCEPT ![q].step = step]
End(q) == ask' = [ask EXCEPT ![q] = Asleep]
SetAccess(l, a) == access' = [access EXCEPT ![l] = a]

\* REVOKE needs the login in PostgreSQL; for MySQL its errors are swallowed.
\* PostgreSQL does not drop a role that holds privileges.
CanRevoke(l) == login[l] # "absent" \/ Engine = "mysql"
CanDrop(l) == login[l] # "absent" /\ (access[l] = "none" \/ Engine = "mysql")
DropLogin(l) ==
    /\ login' = [login EXCEPT ![l] = "absent"]
    /\ SetAccess(l, "none")

-----------------------------------------------------------------------------
(* create                                                                  *)

\* A login is chosen from those in use, or its name is not taken yet.
ReadForCreate(q, l, level, expires) ==
    /\ Asks(q, "idle")
    /\ \/ account[l] = "active" /\ ~HasGrant(l)
       \/ account[l] = "none"
    /\ ask' = [ask EXCEPT ![q] = [Asleep EXCEPT
                  !.step = IF account[l] = "none" THEN "create login" ELSE "apply grant",
                  !.login = l, !.level = level, !.expires = expires, !.fresh = account[l] = "none"]]
    /\ UNCHANGED <<account, grant, server, sweep>>

CreateLogin(q) ==
    LET l == ask[q].login IN
    /\ Asks(q, "create login")
    /\ login[l] = "absent"
    /\ login' = [login EXCEPT ![l] = "enabled"]
    /\ Onward(q, "apply grant")
    /\ UNCHANGED <<account, grant, access, sweep>>

\* The transaction that inserts the login, if it is new, and its grant; the
\* unique indexes refuse a second one of either.
InsertGrant(q) ==
    LET l == ask[q].login IN
    /\ Asks(q, "insert grant")
    /\ ask[q].fresh => account[l] = "none"
    /\ ~HasGrant(l)
    /\ account' = IF ask[q].fresh THEN [account EXCEPT ![l] = "active"] ELSE account
    /\ \E g \in Grants :
        /\ ~Granted(g) /\ \A h \in 1..(g - 1) : Granted(h)
        /\ grant' = [grant EXCEPT ![g] = [login |-> l, level |-> ask[q].level,
                                          expires |-> ask[q].expires, status |-> "active"]]
    /\ End(q)
    /\ UNCHANGED <<server, sweep>>

\* The catch block: it deletes the login it has made, or else revokes; it may
\* fail at that.
RollBack(q) ==
    LET l == ask[q].login IN
    /\ Asks(q, "roll back")
    /\ \/ ask[q].fresh /\ CanDrop(l) /\ DropLogin(l)
       \/ ~ask[q].fresh /\ CanRevoke(l) /\ SetAccess(l, "none") /\ UNCHANGED login
       \/ UNCHANGED server
    /\ End(q)
    /\ UNCHANGED <<account, grant, sweep>>

-----------------------------------------------------------------------------
(* update and revoke                                                       *)

ReadForUpdate(q, g, level, expires) ==
    /\ Asks(q, "idle")
    /\ ActiveGrant(g) /\ Known(grant[g].login)
    /\ ask' = [ask EXCEPT ![q] = [Asleep EXCEPT !.step = "apply update", !.login = grant[g].login,
                                                !.grant = g, !.level = level, !.expires = expires]]
    /\ UNCHANGED <<account, grant, server, sweep>>

ReadForRevoke(q, g) ==
    /\ Asks(q, "idle")
    /\ ActiveGrant(g) /\ Known(grant[g].login)
    /\ ask' = [ask EXCEPT ![q] = [Asleep EXCEPT !.step = "revoke", !.login = grant[g].login,
                                                !.grant = g]]
    /\ UNCHANGED <<account, grant, server, sweep>>

\* DatabaseAccessService.apply revokes first and then grants.
Apply(q) ==
    /\ ask[q].step \in {"apply grant", "apply update"}
    /\ login[ask[q].login] # "absent"
    /\ SetAccess(ask[q].login, ask[q].level)
    /\ Onward(q, IF Asks(q, "apply grant") THEN "insert grant" ELSE "write update")
    /\ UNCHANGED <<account, grant, login, sweep>>

ApplyFails(q) ==
    /\ ask[q].step \in {"apply grant", "apply update"}
    /\ access' \in {access, [access EXCEPT ![ask[q].login] = "none"]}
    /\ IF Asks(q, "apply grant") THEN Onward(q, "roll back") ELSE End(q)
    /\ UNCHANGED <<account, grant, login, sweep>>

\* The rows are written by id, whatever their status has become.
WriteUpdate(q) ==
    /\ Asks(q, "write update")
    /\ grant' = [grant EXCEPT ![ask[q].grant].level = ask[q].level,
                              ![ask[q].grant].expires = ask[q].expires]
    /\ End(q)
    /\ UNCHANGED <<account, server, sweep>>

RevokeAccess(q) ==
    /\ Asks(q, "revoke")
    /\ CanRevoke(ask[q].login)
    /\ SetAccess(ask[q].login, "none")
    /\ Onward(q, "write revocation")
    /\ UNCHANGED <<account, grant, login, sweep>>

WriteRevocation(q) ==
    /\ Asks(q, "write revocation")
    /\ grant' = [grant EXCEPT ![ask[q].grant].status = "revoked"]
    /\ End(q)
    /\ UNCHANGED <<account, server, sweep>>

-----------------------------------------------------------------------------
(* userAction                                                              *)

\* A login is only deleted when it has no grant.
ReadForAction(q, l, action) ==
    /\ Asks(q, "idle")
    /\ Known(l)
    /\ action = "delete" => ~HasGrant(l)
    /\ ask' = [ask EXCEPT ![q] = [Asleep EXCEPT !.step = action, !.login = l]]
    /\ UNCHANGED <<account, grant, server, sweep>>

ActAtServer(q) ==
    LET l == ask[q].login IN
    /\ \/ Asks(q, "delete") /\ CanDrop(l) /\ DropLogin(l)
       \/ /\ ask[q].step \in {"suspend", "restore"}
          /\ login[l] # "absent"
          /\ login' = [login EXCEPT ![l] = IF Asks(q, "restore") THEN "enabled" ELSE "locked"]
          /\ UNCHANGED access
    /\ Onward(q, CASE Asks(q, "delete") -> "deleted" [] Asks(q, "suspend") -> "suspended"
                 [] Asks(q, "restore") -> "active")
    /\ UNCHANGED <<account, grant, sweep>>

\* By id: a deleted row stays deleted.
WriteAccount(q) ==
    /\ ask[q].step \in {"deleted", "suspended", "active"}
    /\ account' = IF account[ask[q].login] = "deleted" THEN account
                  ELSE [account EXCEPT ![ask[q].login] = ask[q].step]
    /\ End(q)
    /\ UNCHANGED <<grant, server, sweep>>

\* The server or the panel's database fails a step other than apply.  Only
\* create goes on to undo something.
AskFails(q) ==
    /\ ask[q].step \notin {"idle", "apply grant", "apply update", "roll back"}
    /\ IF Asks(q, "insert grant") THEN Onward(q, "roll back") ELSE End(q)
    /\ UNCHANGED <<account, grant, server, sweep>>

-----------------------------------------------------------------------------
(* expireDatabaseGrants                                                    *)

\* The time of a grant passes.
Elapsing(g) ==
    /\ Granted(g) /\ grant[g].expires = "later"
    /\ grant' = [grant EXCEPT ![g].expires = "past"]
    /\ UNCHANGED <<account, server, ask, sweep>>

Overdue == {g \in Grants : ActiveGrant(g) /\ grant[g].expires = "past" /\ Known(grant[g].login)}

\* Mutant: the grants of suspended logins are not looked at.
ReadDueOfActive(s) ==
    /\ sweep[s] = Done
    /\ \E S \in SUBSET {g \in Overdue : account[grant[g].login] = "active"} :
        /\ S # {} /\ Cardinality(S) <= Batch
        /\ sweep' = [sweep EXCEPT ![s].todo = S]
    /\ UNCHANGED <<account, grant, server, ask>>

\* The rows a run reads, in no order.
ReadDue(s) ==
    /\ sweep[s] = Done
    /\ \E S \in SUBSET Overdue :
        /\ S # {} /\ Cardinality(S) <= Batch
        /\ Cardinality(S) < Batch => S = Overdue
        /\ sweep' = [sweep EXCEPT ![s].todo = S]
    /\ UNCHANGED <<account, grant, server, ask>>

RevokeDue(s, g) ==
    LET l == grant[g].login IN
    /\ g \in sweep[s].todo /\ sweep[s].revoked = NoGrant
    /\ CanRevoke(l)
    /\ SetAccess(l, "none")
    /\ sweep' = [sweep EXCEPT ![s].revoked = g]
    /\ UNCHANGED <<account, grant, login, ask>>

\* A grant that is still active, whatever else has become of it.
MarkRevoked(s) ==
    LET g == sweep[s].revoked IN
    /\ g # NoGrant
    /\ grant' = IF ActiveGrant(g) THEN [grant EXCEPT ![g].status = "revoked"] ELSE grant
    /\ sweep' = [sweep EXCEPT ![s] = [todo |-> sweep[s].todo \ {g}, revoked |-> NoGrant]]
    /\ UNCHANGED <<account, server, ask>>

\* The server or the panel's database fails; the run goes on to the next grant.
SweepFails(s, g) ==
    /\ g \in sweep[s].todo /\ sweep[s].revoked \in {g, NoGrant}
    /\ sweep' = [sweep EXCEPT ![s] = [todo |-> sweep[s].todo \ {g}, revoked |-> NoGrant]]
    /\ UNCHANGED <<account, grant, server, ask>>

SweepDies(s) ==
    /\ sweep[s] # Done
    /\ sweep' = [sweep EXCEPT ![s] = Done]
    /\ UNCHANGED <<account, grant, server, ask>>

-----------------------------------------------------------------------------
Asking(q) ==
    \/ \E level \in Levels, expires \in {"never", "later"} :
        \/ \E l \in Logins : ReadForCreate(q, l, level, expires)
        \/ \E g \in Grants : ReadForUpdate(q, g, level, expires)
    \/ \E g \in Grants : ReadForRevoke(q, g)
    \/ \E l \in Logins, action \in {"suspend", "restore", "delete"} : ReadForAction(q, l, action)
    \/ CreateLogin(q) \/ Apply(q) \/ ApplyFails(q) \/ InsertGrant(q) \/ RollBack(q)
    \/ WriteUpdate(q) \/ RevokeAccess(q) \/ WriteRevocation(q)
    \/ ActAtServer(q) \/ WriteAccount(q) \/ AskFails(q)

Sweeping(s) ==
    \/ ReadDue(s) \/ MarkRevoked(s) \/ SweepDies(s)
    \/ \E g \in Grants : RevokeDue(s, g) \/ SweepFails(s, g)

GrantsNext ==
    \/ \E q \in Askers : Asking(q)
    \/ \E s \in Sweepers : Sweeping(s)
    \/ \E g \in Grants : Elapsing(g)

\* The cron starts runs for ever and a run goes on; the server and the panel's
\* database do not fail the same grant each time.
GrantsFairness ==
    \A s \in Sweepers :
        /\ WF_grantVars(ReadDue(s) \/ \E g \in Grants : SweepFails(s, g))
        /\ SF_grantVars(MarkRevoked(s))
        /\ \A g \in Grants : SF_grantVars(RevokeDue(s, g))

-----------------------------------------------------------------------------
\* The service's comment, "Revokes expired database grants at the engine before
\* marking them inactive locally": what it marks has no access left.
MarkedIsRevoked ==
    [][\A s \in Sweepers : sweep[s].revoked # NoGrant /\ sweep'[s] # sweep[s] =>
        LET g == sweep[s].revoked IN
        grant'[g] # grant[g] => access[grant[g].login] = "none"]_grantVars

\* Docs/SHARED_PLATFORM_ARCHITECTURE.md:80, "failed persistence triggers
\* provider rollback": when nobody works on a login, the server allows it what
\* its grant says or, where an engine call has failed, nothing.
GrantIsApplied ==
    \A g \in Grants :
        LET l == grant[g].login IN
        ActiveGrant(g) /\ (\A q \in Askers : ask[q].login # l)
            => access[l] \in {grant[g].level, "none"}

\* A grant whose time has passed ends: it is revoked, or renewed, or its login
\* is gone; whatever fails on the way, and also if its login is suspended.
DueGrantEnds ==
    \A g \in Grants :
        LET due == g \in Overdue /\ login[grant[g].login] # "absent" IN due ~> ~due
=============================================================================
