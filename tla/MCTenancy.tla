------------------------------ MODULE MCTenancy ------------------------------
(***************************************************************************)
(* Small instances of Workspaces, Accounts and ApplicationDomains for TLC. *)
(* The tables of each focus share nothing with those of the others but the *)
(* ownership or the session that a request has read: a behaviour exercises *)
(* one focus, fully interleaved.                                           *)
(***************************************************************************)
EXTENDS Workspaces, Accounts, ApplicationDomains, TLC

CONSTANTS
    Newcomer,               \* an identity that has no account yet
    site1, site2,           \* an application of each of
    tenant1, tenant2,       \* two workspaces,
    apex, below             \* a registrable domain and one below it

VARIABLE focus

\* One purchased code, one that the package has gained since.
Bought == <<"applications.count">>
Gained == <<"applications.custom_system_pages">>

MCInit ==
    /\ Init
    /\ AccountsInit
    /\ DomainsInit
    /\ focus \in {"ownership", "subscription", "registration", "suspension", "sessions", "domains"}

WorkspaceNext ==
    \/ Create
    \/ focus = "ownership" /\ Lapse
    \/ focus = "subscription" /\ Supervise
    \/ \E r \in Requests :
        \/ focus = "ownership" /\ (Identify(r) \/ Hand(r))
        \/ focus = "subscription" /\ Subscribe(r)
        \/ Fail(r)

\* Several codes of one newcomer, whom an administrator may add, suspend or
\* remove meanwhile.
Registering(r) ==
    \/ Ask(r, Newcomer, TRUE)
    \/ \E h \in Challenges : Verify(r, h)
    \/ AskCreate(r, Newcomer)
    \/ \E u \in Users : AskRemove(r, u) \/ AskUpdate(r, u, "suspended")
    \/ at[r] # "idle" /\ (SignIn(r) \/ Govern(r))

\* An account that is suspended and restored while it signs in, by a code or a
\* handoff.
Suspending(r) ==
    \/ Ask(r, Seeded, TRUE)
    \/ Manage(r)
    \/ \E h \in Challenges : Verify(r, h)
    \/ \E u \in Users, status \in {"active", "suspended"} :
        AskUpdate(r, u, status) \/ UpdateStatus(r, u, status)
    \/ at[r] # "idle" /\ (SignIn(r) \/ Govern(r))

\* One code, the session it opens, and a handoff of that session.
OneCode == \A h \in Challenges : h > 1 => challenges'[h] = NONE

AccountNext ==
    \/ focus = "registration" /\ \E r \in Handlers : Registering(r) \/ Abandon(r)
    \/ focus = "suspension" /\ (\E r \in Handlers : Suspending(r) \/ Abandon(r)) /\ OneCode
    \/ focus = "sessions" /\ (Elapse \/ Withdraw \/ \E r \in Handlers : SignIn(r) \/ Manage(r) \/ Abandon(r)) /\ OneCode

\* The first workspace publishes at the domain; the second has an application
\* below it, may claim that place while the platform requires no proof, and may
\* remove its domain.
Home == site1 :> tenant1 @@ site2 :> tenant2
Path == apex :> <<apex>> @@ below :> <<below, apex>>
Published == {<<tenant1, apex>>}

DomainNext ==
    /\ DomainsNext
    /\ \A b \in Bindings : bindings'[b] # Nowhere =>
        bindings'[b].hostname = IF bindings'[b].site = site1 THEN apex ELSE below
    /\ \A g \in Agents :
        /\ kept'[g].task = "register" => kept'[g].tenant = tenant1
        /\ kept'[g].task = "remove" => kept'[g].site = site2
    /\ \A h \in Hostnames : claims'[h] # Nowhere /\ claims'[h].trusted =>
        h = below /\ claims'[h].tenant = tenant2

MCNext ==
    /\ UNCHANGED focus
    /\ \/ focus \in {"ownership", "subscription"} /\ WorkspaceNext /\ UNCHANGED <<accountVars, domainVars>>
       \/ AccountNext /\ UNCHANGED <<vars, domainVars>>
       \/ focus = "domains" /\ DomainNext /\ UNCHANGED <<vars, accountVars>>

MCSpec == MCInit /\ [][MCNext]_<<vars, accountVars, domainVars, focus>>

Symmetry == Permutations(Customers) \union Permutations(Requests)
=============================================================================
