--------------------------- MODULE LogicalDatabases ---------------------------
(***************************************************************************)
(* Logical databases of one shared cluster: creation, clone, rename, move  *)
(* to another workspace and deletion.  Each works on the engine and on the *)
(* panel's rows in separate steps, any of which can fail, and undoes by    *)
(* itself what it has done so far.                                         *)
(* Requests overlap as they come: nothing keeps apart two that ask for the *)
(* same name or for the same row.                                          *)
(*                                                                         *)
(* Of the data in a physical database only its owner matters: the row      *)
(* whose data it is.                                                       *)
(***************************************************************************)
EXTENDS Naturals, FiniteSets

CONSTANTS
    MaxDatabases,   \* bound: rows of logical_databases
    Names,          \* physical names, prefixed with the workspace
    Clients,        \* requests served at one time
    Kinds,          \* the operations requested
    Unused          \* no row, or no data

ASSUME DatabasesAssumption == MaxDatabases \in Nat /\ Unused \notin 1..MaxDatabases
ASSUME NamesAssumption == "none" \notin Names   \* the name of no database

Databases == 1..MaxDatabases
Replacing == {"clone", "rename", "move"}

VARIABLES
    name,       \* databaseName of a live row, or "none"
    planned,    \* ids of rows that a request in progress will insert
    doomed,     \* history: databases whose deletion has been confirmed
    clashed,    \* history: databases one of whose new names was in other hands as well
    engine,     \* the physical databases of the cluster: name to owner of the data
    op          \* what each request does and holds

databaseVars == <<name, planned, doomed, clashed, engine, op>>

\* target: the row the new database is for; created: the flag of the handler.
Resting == [step |-> "idle", kind |-> "none", source |-> Unused, target |-> Unused,
            old |-> "none", new |-> "none", copy |-> Unused, created |-> FALSE]

DatabasesInit ==
    /\ name = [d \in Databases |-> "none"]
    /\ planned = {}
    /\ doomed = {}
    /\ clashed = {}
    /\ engine = [n \in {} |-> Unused]
    /\ op = [r \in Clients |-> Resting]

Alive(d) == name[d] # "none"
Used(n) == \E d \in Databases : name[d] = n
Exists(n) == n \in DOMAIN engine

AtStep(r, s) == op[r].step = s
GoTo(r, s) == op' = [op EXCEPT ![r].step = s]
Rest(r) ==
    /\ op' = [op EXCEPT ![r] = Resting]
    /\ planned' = planned \ {op[r].target}

\* CREATE DATABASE, DROP DATABASE IF EXISTS, and a restore into a database.
Put(n, owner) == engine' = [m \in DOMAIN engine \union {n} |-> IF m = n THEN owner ELSE engine[m]]
Drop(n) == engine' = [m \in DOMAIN engine \ {n} |-> engine[m]]

\* What the history keeps when a request for database d asks for the name n: the
\* name is one that another request gives up, drops or asks for too.
MarkClash(d, n) ==
    clashed' = (IF Alive(d) THEN clashed ELSE clashed \ {d}) \union
               (IF \E s \in Clients : n \in {op[s].old, op[s].new}
                THEN {d} \union {op[s].target : s \in {q \in Clients : op[q].new = n}} ELSE {})

FreshRow == {d \in Databases : ~Alive(d) /\ d \notin planned /\ d \notin doomed
                /\ \A e \in 1..(d - 1) : Alive(e) \/ e \in planned \/ e \in doomed}

-----------------------------------------------------------------------------
(* Requests                                                                *)

\* create: the name is compared with the rows, not with the engine.
StartCreation(r, n) ==
    /\ AtStep(r, "idle")
    /\ ~Used(n)
    /\ \E d \in FreshRow :
        /\ op' = [op EXCEPT ![r] = [Resting EXCEPT !.step = "create", !.kind = "create",
                                                   !.target = d, !.new = n]]
        /\ planned' = planned \union {d}
        /\ MarkClash(d, n)
    /\ UNCHANGED <<name, doomed, engine>>

\* clone, rename and move: the row is read, its name confirmed, and the new
\* name compared with the rows.
StartReplacement(r, kind, d, n) ==
    /\ AtStep(r, "idle")
    /\ Alive(d)
    /\ n # name[d]
    /\ ~Used(n)
    /\ \E t \in IF kind = "clone" THEN FreshRow ELSE {d} :
        /\ op' = [op EXCEPT ![r] = [Resting EXCEPT !.step = "create", !.kind = kind, !.source = d,
                                                   !.target = t, !.old = name[d], !.new = n]]
        /\ planned' = IF kind = "clone" THEN planned \union {t} ELSE planned
        /\ MarkClash(t, n)
    /\ UNCHANGED <<name, doomed, engine>>

StartDeletion(r, d) ==
    /\ AtStep(r, "idle")
    /\ Alive(d)
    /\ op' = [op EXCEPT ![r] = [Resting EXCEPT !.step = "delete", !.kind = "destroy",
                                               !.source = d, !.target = d, !.old = name[d]]]
    /\ doomed' = doomed \union {d}
    /\ UNCHANGED <<name, planned, clashed, engine>>

-----------------------------------------------------------------------------
(* The engine                                                              *)

\* The new database is empty; only the new row will own what is put there.
CreatePhysical(r) ==
    /\ AtStep(r, "create")
    /\ ~Exists(op[r].new)
    /\ IF op[r].kind = "create"
       THEN Put(op[r].new, op[r].target) /\ GoTo(r, "switch")
       ELSE /\ Put(op[r].new, Unused)
            /\ op' = [op EXCEPT ![r].step = "backup", ![r].created = TRUE]
    /\ UNCHANGED <<name, planned, doomed, clashed>>

\* CREATE fails, as it does when the name exists, or a later statement does:
\* the provisioner drops the database of that name, or fails at that too.  The
\* handler has nothing to undo.
CreatePhysicalFails(r) ==
    /\ AtStep(r, "create")
    /\ \/ Drop(op[r].new)
       \/ UNCHANGED engine
    /\ Rest(r)
    /\ UNCHANGED <<name, doomed, clashed>>

\* restoreSafetyBackup, its first half: a dump of the database the row names.
SafetyBackup(r) ==
    /\ AtStep(r, "backup")
    /\ Alive(op[r].source)
    /\ Exists(name[op[r].source])
    /\ op' = [op EXCEPT ![r].step = "restore",
                        ![r].copy = IF engine[name[op[r].source]] = op[r].source THEN op[r].target ELSE Unused]
    /\ UNCHANGED <<name, planned, doomed, clashed, engine>>

\* Its second half: the dump is restored into the new database.
Restore(r) ==
    /\ AtStep(r, "restore")
    /\ Exists(op[r].new)
    /\ Put(op[r].new, op[r].copy)
    /\ GoTo(r, "switch")
    /\ UNCHANGED <<name, planned, doomed, clashed>>

-----------------------------------------------------------------------------
(* The rows                                                                *)

\* The row a request writes: one that it inserts, or that of the old database,
\* which a deletion may have left deleted.
Writes(r) == op[r].kind \in {"create", "clone"} \/ Alive(op[r].target)
NameConflict(r) == Writes(r) /\ \E d \in Databases \ {op[r].target} : name[d] = op[r].new
Renamed(r) == IF Writes(r) THEN [name EXCEPT ![op[r].target] = op[r].new] ELSE name

\* A wrong version: rename keeps its flag, as if the new database still were
\* to be removed on an error.
SwitchKeepingFlag(r) ==
    /\ AtStep(r, "switch")
    /\ ~NameConflict(r)
    /\ name' = Renamed(r)
    /\ GoTo(r, IF op[r].kind = "rename" THEN "drop" ELSE "commit")
    /\ planned' = planned \ {op[r].target}
    /\ UNCHANGED <<doomed, clashed, engine>>

\* The transaction that inserts the row, or gives it its new name.
Switch(r) ==
    /\ AtStep(r, "switch")
    /\ ~NameConflict(r)
    /\ name' = Renamed(r)
    /\ op' = [op EXCEPT ![r].step = IF op[r].kind = "rename" THEN "drop" ELSE "commit",
                        ![r].created = IF op[r].kind = "rename" THEN FALSE ELSE @]
    /\ planned' = planned \ {op[r].target}
    /\ UNCHANGED <<doomed, clashed, engine>>

\* commitUsageReservation; only move takes back its flag afterwards.
CommitReservation(r) ==
    /\ AtStep(r, "commit")
    /\ op' = [op EXCEPT ![r].step = IF op[r].kind = "move" THEN "drop" ELSE "audit",
                        ![r].created = IF op[r].kind = "move" THEN FALSE ELSE @]
    /\ UNCHANGED <<name, planned, doomed, clashed, engine>>

\* The previous database is dropped; a failure becomes a warning.
DropOld(r) ==
    /\ AtStep(r, "drop")
    /\ \/ Drop(op[r].old)
       \/ UNCHANGED engine
    /\ GoTo(r, "audit")
    /\ UNCHANGED <<name, planned, doomed, clashed>>

\* recordAuditLog and the answer.
Answer(r) ==
    /\ AtStep(r, "audit")
    /\ Rest(r)
    /\ UNCHANGED <<name, doomed, clashed, engine>>

-----------------------------------------------------------------------------
(* Deletion                                                                *)

DropPhysical(r) ==
    /\ AtStep(r, "delete")
    /\ Drop(op[r].old)
    /\ GoTo(r, "forget")
    /\ UNCHANGED <<name, planned, doomed, clashed>>

DeleteRow(r) ==
    /\ AtStep(r, "forget")
    /\ name' = [name EXCEPT ![op[r].source] = "none"]
    /\ GoTo(r, "audit")
    /\ UNCHANGED <<planned, doomed, clashed, engine>>

-----------------------------------------------------------------------------
(* Failures                                                                *)

\* Any later step fails: the handler goes to its catch block, which has something
\* to do if the flag is set.
RequestFails(r) ==
    /\ op[r].step \notin {"idle", "create", "drop", "failed"}
    /\ IF op[r].created
       THEN GoTo(r, "failed") /\ UNCHANGED planned
       ELSE Rest(r)
    /\ UNCHANGED <<name, doomed, clashed, engine>>

\* The catch block drops the new database, or fails at that.
Compensate(r) ==
    /\ AtStep(r, "failed")
    /\ \/ Drop(op[r].new)
       \/ UNCHANGED engine
    /\ Rest(r)
    /\ UNCHANGED <<name, doomed, clashed>>

\* The process dies: no catch block runs.
ProcessDies(r) ==
    /\ ~AtStep(r, "idle")
    /\ Rest(r)
    /\ UNCHANGED <<name, doomed, clashed, engine>>

-----------------------------------------------------------------------------
Request(r) ==
    \/ "create" \in Kinds /\ \E n \in Names : StartCreation(r, n)
    \/ \E kind \in Kinds \intersect Replacing, d \in Databases, n \in Names : StartReplacement(r, kind, d, n)
    \/ "destroy" \in Kinds /\ \E d \in Databases : StartDeletion(r, d)

DatabasesNext ==
    \E r \in Clients :
        \/ Request(r)
        \/ CreatePhysical(r) \/ CreatePhysicalFails(r)
        \/ SafetyBackup(r) \/ Restore(r)
        \/ Switch(r) \/ CommitReservation(r) \/ DropOld(r) \/ Answer(r)
        \/ DropPhysical(r) \/ DeleteRow(r)
        \/ RequestFails(r) \/ Compensate(r) \/ ProcessDies(r)

DatabasesSpec == DatabasesInit /\ [][DatabasesNext]_databaseVars

-----------------------------------------------------------------------------
HasData(d) == Exists(name[d]) /\ engine[name[d]] = d

\* Docs/SHARED_PLATFORM_ARCHITECTURE.md:84: the working replacement is
\* retained, the only usable copy is not deleted.  The database that a row
\* names exists and holds the row's own data, unless its owner has confirmed
\* its deletion.
RowsHaveTheirData == \A d \in Databases : Alive(d) /\ d \notin doomed => HasData(d)

\* With creations, renames and deletions in any order, the data of a row is lost
\* only if, when it got its name, another request asked for that name or was
\* about to drop the database that had it: no failure, compensation, crash or
\* stale read of the row alone does that.
LossNeedsOverlap ==
    \A d \in Databases : Alive(d) /\ d \notin doomed \union clashed => HasData(d)
===============================================================================
