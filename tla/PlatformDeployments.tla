--------------------------- MODULE PlatformDeployments ---------------------------
(***************************************************************************)
(* The deployment of the panel by the panel: one active row for the target, *)
(* written around a call of the provider that restarts the process which    *)
(* makes it, and refreshed by the administrators' browsers.                 *)
(***************************************************************************)
EXTENDS Naturals, FiniteSets

CONSTANTS
    Visitors,      \* requests served at one time
    MaxReleases,   \* bound: rows of platform_deployments
    MaxRestarts,   \* bound: restarts of the panel
    Nothing

Releases == 1..MaxReleases
Active   == {"queued", "running"}
Final    == {"succeeded", "failed", "cancelled"}

VARIABLES
    releases,   \* platform_deployments: status and provider_deployment_id
    built,      \* the provider's deployments: the one of each row's request
    visit,      \* where each request stands
    seen,       \* what it has read
    restarts

panelVars == <<releases, built, visit, seen, restarts>>

Unseen == [row |-> Nothing, id |-> Nothing, status |-> Nothing]

PanelInit ==
    /\ releases = [n \in Releases |-> Nothing]
    /\ built    = [n \in Releases |-> Nothing]
    /\ visit    = [v \in Visitors |-> "idle"]
    /\ seen     = [v \in Visitors |-> Unseen]
    /\ restarts = 0

Recorded == {n \in Releases : releases[n] # Nothing}
Hosting  == {k \in Releases : built[k] # Nothing}
ActiveRows == {n \in Recorded : releases[n].status \in Active}

Turn(v, from, to) ==
    /\ visit[v] = from
    /\ visit' = [visit EXCEPT ![v] = to]

Reply(v) ==
    /\ visit' = [visit EXCEPT ![v] = "idle"]
    /\ seen'  = [seen EXCEPT ![v] = Unseen]

-----------------------------------------------------------------------------
\* startPlatformDeployment: no row is active; the unique index decides.
StartDeployment(v) ==
    /\ Turn(v, "idle", "insert")
    /\ ActiveRows = {}
    /\ UNCHANGED <<releases, built, seen, restarts>>

InsertRelease(v) ==
    /\ visit[v] = "insert"
    /\ IF ActiveRows = {}
       THEN \E n \in Releases \ Recorded :
            /\ \A k \in Releases \ Recorded : n <= k
            /\ releases' = [releases EXCEPT ![n] = [status |-> "queued", id |-> Nothing]]
            /\ Turn(v, "insert", "call")
            /\ seen' = [seen EXCEPT ![v].row = n]
       ELSE Reply(v) /\ UNCHANGED releases
    /\ UNCHANGED <<built, restarts>>

\* The provider accepts the request, or not; its answer may be lost, and may
\* lack the identifier.
CallProvider(v) ==
    LET n == seen[v].row IN
    /\ visit[v] = "call"
    /\ \/ /\ built' = [built EXCEPT ![n] = "queued"]
          /\ \/ /\ \E id \in {n, Nothing} : seen' = [seen EXCEPT ![v].id = id]
                /\ Turn(v, "call", "started")
             \/ Turn(v, "call", "refused") /\ UNCHANGED seen
       \/ /\ Turn(v, "call", "refused")
          /\ UNCHANGED <<built, seen>>
    /\ UNCHANGED <<releases, restarts>>

\* An active status is refused while another row of the target has one.
Allows(n, status) == status \in Active => ActiveRows \subseteq {n}

RecordStarted(v) ==
    LET n == seen[v].row IN
    /\ visit[v] = "started"
    /\ IF Allows(n, "running")
       THEN /\ releases' = [releases EXCEPT ![n] = [status |-> "running", id |-> seen[v].id]]
            /\ Reply(v)
       ELSE Turn(v, "started", "refused") /\ UNCHANGED <<releases, seen>>
    /\ UNCHANGED <<built, restarts>>

RecordRefused(v) ==
    /\ visit[v] = "refused"
    /\ releases' = [releases EXCEPT ![seen[v].row].status = "failed"]
    /\ Reply(v)
    /\ UNCHANGED <<built, restarts>>

-----------------------------------------------------------------------------
\* getPlatformDeployment, and the newest row of listPlatformDeployments.
ViewRelease(v, n) ==
    /\ n \in ActiveRows
    /\ Turn(v, "idle", "ask")
    /\ seen' = [seen EXCEPT ![v].row = n, ![v].id = releases[n].id]
    /\ UNCHANGED <<releases, built, restarts>>

\* A wrong version: only a deployment whose identifier is known is looked up.
AskProviderById(v) ==
    /\ Turn(v, "ask", "save")
    /\ seen[v].id # Nothing
    /\ seen' = [seen EXCEPT ![v].status = built[seen[v].id]]
    /\ UNCHANGED <<releases, built, restarts>>

\* The deployment of the row, or the target's latest if the row names none:
\* that of the row itself or, within 30 seconds, one before it.
AskProvider(v) ==
    LET m == seen[v]
        Latest == {k \in Hosting : \A j \in Hosting : j <= k} IN
    /\ Turn(v, "ask", "save")
    /\ \E k \in IF m.id # Nothing THEN {m.id} ELSE Latest :
        seen' = [seen EXCEPT ![v].id = k, ![v].status = built[k]]
    /\ UNCHANGED <<releases, built, restarts>>

\* The provider has no answer, or has none yet, or the latest deployment is too old.
AskInVain(v) ==
    /\ visit[v] = "ask"
    /\ Reply(v)
    /\ UNCHANGED <<releases, built, restarts>>

\* By id, whatever the row has become; a refused update only stores the error.
SaveRelease(v) ==
    LET m == seen[v] IN
    /\ visit[v] = "save"
    /\ releases' = IF Allows(m.row, m.status)
                   THEN [releases EXCEPT ![m.row] = [status |-> m.status, id |-> m.id]]
                   ELSE releases
    /\ Reply(v)
    /\ UNCHANGED <<built, restarts>>

\* The new container replaces the one that serves the requests.
Restart ==
    /\ restarts < MaxRestarts
    /\ restarts' = restarts + 1
    /\ visit' = [v \in Visitors |-> "idle"]
    /\ seen'  = [v \in Visitors |-> Unseen]
    /\ UNCHANGED <<releases, built>>

\* Coolify runs one deployment after another.
ProviderBuilds(n) ==
    /\ \/ /\ built[n] = "queued"
          /\ built' = [built EXCEPT ![n] = "running"]
       \/ /\ built[n] \in Active
          /\ \E outcome \in Final : built' = [built EXCEPT ![n] = outcome]
    /\ UNCHANGED <<releases, visit, seen, restarts>>

-----------------------------------------------------------------------------
Advance(v) ==
    \/ InsertRelease(v)
    \/ CallProvider(v)
    \/ RecordStarted(v)
    \/ RecordRefused(v)
    \/ AskProvider(v)
    \/ AskInVain(v)
    \/ SaveRelease(v)

PanelNext ==
    \/ \E v \in Visitors :
        \/ StartDeployment(v)
        \/ Advance(v)
        \/ \E n \in Releases : ViewRelease(v, n)
    \/ \E n \in Releases : ProviderBuilds(n)
    \/ Restart

\* A served request runs on; the provider's builds end; an active row is
\* looked at again and again, and the provider does not always fail to answer.
PanelFairness ==
    /\ \A v \in Visitors : WF_panelVars(Advance(v)) /\ SF_panelVars(AskProvider(v))
    /\ \A n \in Releases :
        /\ WF_panelVars(ProviderBuilds(n))
        /\ SF_panelVars(\E v \in Visitors : ViewRelease(v, n))

PanelSpec == PanelInit /\ [][PanelNext]_panelVars /\ PanelFairness

\* A deployment that the provider has accepted does not block the target for
\* ever: whatever the restart has cut off, and whichever refreshes overwrite
\* each other, its row gets a final status.
AcceptedReleaseEnds ==
    \A n \in Releases : n \in ActiveRows /\ n \in Hosting ~> n \in Recorded \ ActiveRows
===============================================================================
