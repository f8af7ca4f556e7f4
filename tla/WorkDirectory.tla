--------------------------- MODULE WorkDirectory ---------------------------
(***************************************************************************)
(* What the backend keeps in its work directory beyond one process: the    *)
(* record database records.sqlite (internal/simulation/records.go) and the *)
(* list of recently used projects projects.json (internal/projectcache).   *)
(* A POST /simulation handler saves its record and then remembers its      *)
(* project; GET /requests/{id} and GET /projects read.  Handlers run side  *)
(* by side: every SQLite statement is atomic, a save is several of them on *)
(* a connection of its own; the list is read and written under c.mu.  The  *)
(* server may be killed between any two steps and is started again.        *)
(***************************************************************************)
EXTENDS Integers, Sequences, FiniteSets

CONSTANTS
    Runs,         \* POST /simulation handlers whose simulation has started
    Lookups,      \* GET /requests/{id} handlers
    Listings,     \* GET /projects handlers
    Wanted,       \* Wanted[l]: the run whose id lookup l asks for
    Projects,     \* the projectPaths callers send
    Limit,        \* how many projects the list keeps
    MaxKills,     \* bound: how often the server is killed
    None

Handlers == Runs \cup Lookups \cup Listings

ASSUME DirectoryAssumption ==
    /\ Runs \cap Lookups = {} /\ Runs \cap Listings = {} /\ Lookups \cap Listings = {}
    /\ None \notin Handlers
    /\ Wanted \in [Lookups -> Runs]
    /\ None \notin Projects
    /\ Limit \in Nat \ {0} /\ MaxKills \in Nat

VARIABLES
    pc,        \* where each handler is
    answer,    \* what it has found out: "none", "kept", "lost", "found", "missing", a list
    known,     \* the lookups whose run had been kept and answered when they began
    modern,    \* the runs that found a table with the column "kind", or none
    table,     \* simulation_records: nofile, notable, legacy or current
    rows,      \* the runs with a row
    project,   \* the projectPath each run remembers
    mu,        \* the holder of the cache's mutex
    state,     \* the list each handler has read
    projects,  \* the list in projects.json, most recent first
    temps,     \* the handlers whose temporary file is on disk
    uses,      \* the projects remembered so far, in this order
    kills      \* how often the server was killed

recordVars == <<table, rows>>
cacheVars  == <<project, mu, state, projects, temps, uses>>
vars == <<pc, answer, known, modern, recordVars, cacheVars, kills>>

Init ==
    /\ pc = [h \in Handlers |-> "new"]
    /\ answer = [h \in Handlers |-> "none"]
    /\ known = {}
    /\ modern = {}
    /\ table \in {"nofile", "notable", "legacy", "current"}
    /\ rows = {}
    /\ project = [r \in Runs |-> None]
    /\ mu = None
    /\ state = [h \in Runs \cup Listings |-> <<>>]
    /\ projects = <<>>
    /\ temps = {}
    /\ uses = <<>>
    /\ kills = 0

Go(h, from, to) ==
    /\ pc[h] = from
    /\ pc' = [pc EXCEPT ![h] = to]

GoWith(h, from, to, value) ==
    /\ Go(h, from, to)
    /\ answer' = [answer EXCEPT ![h] = value]

-----------------------------------------------------------------------------
(* records.go. *)

(* openRecordDatabase: a save creates the file, a lookup does not. *)
OpenToSave(r) ==
    /\ Go(r, "new", "create")
    /\ table' = IF table = "nofile" THEN "notable" ELSE table
    /\ modern' = IF table = "legacy" THEN modern ELSE modern \cup {r}
    /\ UNCHANGED <<answer, known, rows, cacheVars, kills>>

OpenToLoad(l) ==
    /\ \/ table # "nofile" /\ Go(l, "new", "create") /\ UNCHANGED answer
       \/ table = "nofile" /\ GoWith(l, "new", "done", "missing")
    /\ known' = IF pc[Wanted[l]] = "done" /\ answer[Wanted[l]] = "kept"
                THEN known \cup {l} ELSE known
    /\ UNCHANGED <<modern, recordVars, cacheVars, kills>>

(* Mistake: the table is made anew. *)
RecreateSchema(h) ==
    /\ Go(h, "create", "inspect")
    /\ table' = "current"
    /\ rows' = {}
    /\ UNCHANGED <<answer, known, modern, cacheVars, kills>>

(* ensureRecordSchema: CREATE TABLE IF NOT EXISTS. *)
EnsureRecordSchema(h) ==
    /\ Go(h, "create", "inspect")
    /\ table' = IF table = "notable" THEN "current" ELSE table
    /\ UNCHANGED <<answer, known, modern, rows, cacheVars, kills>>

(* Mistake: the column is added without a look at the table. *)
InspectNothing(h) ==
    /\ Go(h, "inspect", "alter")
    /\ UNCHANGED <<answer, known, modern, recordVars, cacheVars, kills>>

(* ensureRecordKindColumn: PRAGMA table_info ... *)
InspectColumns(h) ==
    /\ Go(h, "inspect", IF table = "legacy" THEN "alter"
                        ELSE IF h \in Runs THEN "insert" ELSE "select")
    /\ UNCHANGED <<answer, known, modern, recordVars, cacheVars, kills>>

(* ... and ALTER TABLE ADD COLUMN, refused when the column is there by now. *)
AddKindColumn(h) ==
    /\ \/ /\ table = "legacy"
          /\ table' = "current"
          /\ Go(h, "alter", IF h \in Runs THEN "insert" ELSE "select")
          /\ UNCHANGED answer
       \/ /\ table = "current"
          /\ GoWith(h, "alter", IF h \in Runs THEN "saved" ELSE "done", "lost")
          /\ UNCHANGED table
    /\ UNCHANGED <<known, modern, rows, cacheVars, kills>>

InsertRecord(r) ==
    /\ GoWith(r, "insert", "saved", "kept")
    /\ rows' = rows \cup {r}
    /\ UNCHANGED <<known, modern, table, cacheVars, kills>>

SelectRecord(l) ==
    /\ GoWith(l, "select", "done", IF Wanted[l] \in rows THEN "found" ELSE "missing")
    /\ UNCHANGED <<known, modern, recordVars, cacheVars, kills>>

-----------------------------------------------------------------------------
(* httpapi: a run with a project that answered below 400 remembers it. *)

RememberProjectPath(r) ==
    /\ \/ /\ Go(r, "saved", "lock")
          /\ \E p \in Projects : project' = [project EXCEPT ![r] = p]
       \/ Go(r, "saved", "done") /\ UNCHANGED project
    /\ UNCHANGED <<answer, known, modern, recordVars, mu, state, projects, temps, uses, kills>>

(* projectcache. *)

(* Mistake: the list is read and written without the mutex. *)
LockNothing(h) ==
    /\ Go(h, IF h \in Runs THEN "lock" ELSE "new", "read")
    /\ UNCHANGED <<answer, known, modern, recordVars, cacheVars, kills>>

Lock(h) ==
    /\ Go(h, IF h \in Runs THEN "lock" ELSE "new", "read")
    /\ mu = None
    /\ mu' = h
    /\ UNCHANGED <<answer, known, modern, recordVars, project, state, projects, temps, uses, kills>>

Unlock(h) == mu' = IF mu = h THEN None ELSE mu

(* read: at most Limit entries. *)
Truncated(list) == SubSeq(list, 1, IF Len(list) > Limit THEN Limit ELSE Len(list))

ReadForAdd(r) ==
    /\ Go(r, "read", "write")
    /\ state' = [state EXCEPT ![r] = Truncated(projects)]
    /\ UNCHANGED <<answer, known, modern, recordVars, project, mu, projects, temps, uses, kills>>

ReadForList(g) ==
    /\ GoWith(g, "read", "done", Truncated(projects))
    /\ Unlock(g)
    /\ UNCHANGED <<known, modern, recordVars, project, state, projects, temps, uses, kills>>

(* Mistake: without the limit. *)
AddedWithoutLimit(p, list) == <<p>> \o SelectSeq(list, LAMBDA q : q # p)

(* Add: the project first, then the others of the list until the limit is  *)
(* reached: what the loop has gathered after each of its rounds.  It looks  *)
(* at the limit after it has appended one.                                  *)
Updates(p, list) ==
    LET updated[i \in 0 .. Len(list)] ==
          IF i = 0 THEN <<p>>
          ELSE IF \/ list[i] = p
                  \/ Len(updated[i - 1]) > 1 /\ Len(updated[i - 1]) >= Limit
          THEN updated[i - 1]
          ELSE Append(updated[i - 1], list[i])
    IN  updated

Added(p, list) == Updates(p, list)[Len(list)]

(* write: a temporary file first.  A write that fails removes it. *)
WriteTemp(r) ==
    /\ \/ Go(r, "write", "rename") /\ temps' = temps \cup {r} /\ UNCHANGED mu
       \/ Go(r, "write", "done") /\ Unlock(r) /\ UNCHANGED temps
    /\ UNCHANGED <<answer, known, modern, recordVars, project, state, projects, uses, kills>>

(* Mistake: a rename that fails leaves the temporary file. *)
RenameWithoutRemove(r) ==
    /\ Go(r, "rename", "done")
    /\ \/ /\ projects' = Added(project[r], state[r])
          /\ uses' = Append(uses, project[r])
          /\ temps' = temps \ {r}
       \/ UNCHANGED <<projects, uses, temps>>
    /\ Unlock(r)
    /\ UNCHANGED <<answer, known, modern, recordVars, project, state, kills>>

(* os.Rename replaces the list at once; when it fails the deferred remove   *)
(* takes the temporary file away.                                           *)
Rename(r) ==
    /\ Go(r, "rename", "done")
    /\ \/ /\ projects' = Added(project[r], state[r])
          /\ uses' = Append(uses, project[r])
       \/ UNCHANGED <<projects, uses>>
    /\ temps' = temps \ {r}
    /\ Unlock(r)
    /\ UNCHANGED <<answer, known, modern, recordVars, project, state, kills>>

-----------------------------------------------------------------------------
(* The server is killed with the handlers under way, and is started again   *)
(* on the same directory.                                                   *)
Kill ==
    /\ kills < MaxKills
    /\ kills' = kills + 1
    /\ pc' = [h \in Handlers |-> IF pc[h] \in {"new", "done"} THEN pc[h] ELSE "dropped"]
    /\ mu' = None
    /\ state' = [h \in Runs \cup Listings |-> <<>>]
    /\ UNCHANGED <<answer, known, modern, recordVars, project, projects, temps, uses>>

Next ==
    \/ \E r \in Runs :
          \/ OpenToSave(r) \/ InsertRecord(r) \/ RememberProjectPath(r)
          \/ ReadForAdd(r) \/ WriteTemp(r) \/ Rename(r)
    \/ \E l \in Lookups : OpenToLoad(l) \/ SelectRecord(l)
    \/ \E h \in Runs \cup Lookups :
          EnsureRecordSchema(h) \/ InspectColumns(h) \/ AddKindColumn(h)
    \/ \E h \in Runs \cup Listings : Lock(h)
    \/ \E g \in Listings : ReadForList(g)
    \/ Kill

Spec == Init /\ [][Next]_vars

-----------------------------------------------------------------------------
(* Every variable has its type; projects.json does not outgrow the limit, *)
(* but for a limit of one.                                                 *)
TypeOK ==
    /\ pc \in [Handlers -> {"new", "create", "inspect", "alter", "insert", "select", "saved",
                            "lock", "read", "write", "rename", "done", "dropped"}]
    /\ known \subseteq Lookups /\ modern \subseteq Runs
    /\ table \in {"nofile", "notable", "legacy", "current"}
    /\ rows \subseteq Runs
    /\ mu \in Handlers \cup {None}
    /\ project \in [Runs -> Projects \cup {None}]
    /\ temps \subseteq Runs
    /\ Len(projects) <= (IF Limit = 1 THEN 2 ELSE Limit)
    /\ kills \in 0 .. MaxKills

Saved(r) == pc[r] \in {"saved", "lock", "read", "write", "rename", "done"}

(* A run that has been answered, or has only remembered its project, is in  *)
(* the record database, whatever other handlers did to the table meanwhile  *)
(* and whether or not the server was killed since.                          *)
EveryRunKept == \A r \in Runs : Saved(r) => r \in rows

(* The same for the runs that did not find a table of an earlier version.   *)
ModernRunsKept == \A r \in modern : Saved(r) => r \in rows

(* Whoever has been told an id finds its record, on every later request. *)
KnownIsFound ==
    \A l \in Lookups : l \in known /\ pc[l] = "done" => answer[l] = "found"

LastUse(p) ==
    CHOOSE i \in DOMAIN uses : uses[i] = p /\ \A j \in DOMAIN uses : uses[j] = p => j <= i

Used == {uses[i] : i \in DOMAIN uses}

(* list is the most recently used projects, each once, most recent first,   *)
(* and leaves out a project only for more recent ones.                      *)
MostRecent(list) ==
    LET listed == {list[i] : i \in DOMAIN list} IN
    /\ listed \subseteq Used
    /\ \A i, j \in DOMAIN list : i < j => LastUse(list[i]) > LastUse(list[j])
    /\ \A p \in Used \ listed : Len(list) = Limit /\ \A q \in listed : LastUse(q) > LastUse(p)

(* GET /projects shows the most recent projects although handlers add to    *)
(* the list at the same time and are killed in the middle of it.            *)
ListIsRecent == MostRecent(Truncated(projects))

(* Only a kill leaves a temporary file behind. *)
TempsRemoved == \A r \in temps : pc[r] \in {"rename", "dropped"}
=============================================================================
