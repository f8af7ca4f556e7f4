--------------------------- MODULE ProjectHistory ---------------------------
(***************************************************************************)
(* The Foundry project of a simulation in the form: typed, browsed for,    *)
(* the backend's own project to which a source file is added, or taken     *)
(* from the list of past projects (RequestForm.tsx, App.tsx,               *)
(* ProjectHistoryDropdown.tsx); and that list.                             *)
(***************************************************************************)
EXTENDS Naturals, Sequences, SequencesExt

CONSTANTS
    Projects,       \* the paths of projects
    DefaultProject, \* the backend's own project
    NoProject,      \* an empty path
    Lists,          \* the lists of projects a backend may answer
    HistorySize,    \* projects kept besides those the backend lists: 20
    MaxChoices      \* bound: choices of a project between two runs

ASSUME HistoryAssumption ==
    /\ DefaultProject \in Projects /\ NoProject \notin Projects
    /\ Lists \subseteq Seq(Projects)
    /\ HistorySize \in Nat \ {0} /\ MaxChoices \in Nat

VARIABLES
    kind,         \* form.requestKind
    running,      \* isRunning
    projectPath,  \* form.projectPath
    defaultPath,  \* defaultProjectPath, known once a file was added
    waiting,      \* of Browse and Add Source those that wait for an answer
    optimistic,   \* optimisticProjects
    served,       \* projectQuery.data
    menuOpen,     \* the list of past projects is open
    chosen        \* for the property: projects chosen since the last run

historyVars == <<kind, running, projectPath, defaultPath, waiting, optimistic, served,
                 menuOpen, chosen>>

-----------------------------------------------------------------------------
(* mergeProjects: each path once, where it came first. *)
Merged(paths) ==
    LET merged[n \in 0 .. Len(paths)] ==
          IF n = 0 THEN <<>>
          ELSE IF paths[n] \in {NoProject} \cup ToSet(merged[n - 1]) THEN merged[n - 1]
          ELSE Append(merged[n - 1], paths[n])
    IN  merged

MergeProjects(primary, secondary) == Merged(primary \o secondary)[Len(primary \o secondary)]

Suggestions == MergeProjects(optimistic, served)

FirstOf(list) == SubSeq(list, 1, IF Len(list) < HistorySize THEN Len(list) ELSE HistorySize)

(* Mistake: the newest project is merged after the older ones. *)
RememberedLast(path, list) == FirstOf(MergeProjects(list, <<path>>))

Remembered(path, list) == FirstOf(MergeProjects(<<path>>, list))

(* onProjectBrowsed, and what opening a record does for its project. *)
Choose(path) ==
    /\ Len(chosen) < MaxChoices
    /\ optimistic' = IF path = NoProject THEN optimistic ELSE Remembered(path, optimistic)
    /\ chosen' = IF path = NoProject THEN chosen ELSE Append(chosen, path)

IsDefaultSelected ==
    \/ projectPath = NoProject
    \/ defaultPath # NoProject /\ projectPath = defaultPath

-----------------------------------------------------------------------------
HistoryInit ==
    /\ kind = "simulation" /\ running = FALSE
    /\ projectPath = NoProject /\ defaultPath = NoProject /\ waiting = {}
    /\ optimistic = <<>> /\ served = <<>> /\ menuOpen = FALSE /\ chosen = <<>>

(* The list of past projects is part of the form of a simulation. *)
ChooseRequestKind(newKind) ==
    /\ ~ running
    /\ kind' = newKind
    /\ menuOpen' = (menuOpen /\ newKind = "simulation")
    /\ UNCHANGED <<running, projectPath, defaultPath, waiting, optimistic, served, chosen>>

(* A record is opened or imported: its form is shown, with its project.      *)
ShowRecord(newKind, path) ==
    /\ newKind = "tx" => path = NoProject
    /\ kind' = newKind
    /\ menuOpen' = (menuOpen /\ newKind = "simulation")
    /\ projectPath' = path
    /\ Choose(path)
    /\ UNCHANGED <<running, defaultPath, waiting, served>>

TypePath(path) ==
    /\ kind = "simulation"
    /\ projectPath' = path
    /\ UNCHANGED <<kind, running, defaultPath, waiting, optimistic, served, menuOpen, chosen>>

ToggleMenu ==
    /\ kind = "simulation" /\ Suggestions # <<>>
    /\ menuOpen' = ~ menuOpen
    /\ UNCHANGED <<kind, running, projectPath, defaultPath, waiting, optimistic, served, chosen>>

(* Escape, or the pointer pressed outside of the menu.  The keyboard can go  *)
(* elsewhere and leave it open.                                              *)
DismissMenu ==
    /\ menuOpen
    /\ menuOpen' = FALSE
    /\ UNCHANGED <<kind, running, projectPath, defaultPath, waiting, optimistic, served, chosen>>

SelectPast(path) ==
    /\ menuOpen /\ path \in ToSet(Suggestions)
    /\ projectPath' = path
    /\ menuOpen' = FALSE
    /\ UNCHANGED <<kind, running, defaultPath, waiting, optimistic, served, chosen>>

SelectDefault ==
    /\ kind = "simulation"
    /\ projectPath' = defaultPath
    /\ Choose(defaultPath)
    /\ UNCHANGED <<kind, running, defaultPath, waiting, served, menuOpen>>

(* Browse and Add Source wait for the backend.  The kind of the request may  *)
(* change meanwhile, a record be opened and the path be typed.               *)
Ask(button) ==
    /\ kind = "simulation" /\ button \notin waiting
    /\ button = "add" => IsDefaultSelected
    /\ waiting' = waiting \cup {button}
    /\ UNCHANGED <<kind, running, projectPath, defaultPath, optimistic, served, menuOpen, chosen>>

AskFails(button) ==
    /\ button \in waiting
    /\ waiting' = waiting \ {button}
    /\ UNCHANGED <<kind, running, projectPath, defaultPath, optimistic, served, menuOpen, chosen>>

Browsed(path) ==
    /\ "browse" \in waiting
    /\ waiting' = waiting \ {"browse"}
    /\ projectPath' = path
    /\ Choose(path)
    /\ UNCHANGED <<kind, running, defaultPath, served, menuOpen>>

SourceAdded ==
    /\ "add" \in waiting
    /\ waiting' = waiting \ {"add"}
    /\ projectPath' = DefaultProject
    /\ defaultPath' = DefaultProject
    /\ Choose(DefaultProject)
    /\ UNCHANGED <<kind, running, served, menuOpen>>

(* The list of projects arrives, or the API URL changes to one whose list is *)
(* not yet known.                                                            *)
ProjectsFetched(list) ==
    /\ served' = list
    /\ UNCHANGED <<kind, running, projectPath, defaultPath, waiting, optimistic, menuOpen, chosen>>

BeginRun ==
    /\ ~ running
    /\ running' = TRUE
    /\ UNCHANGED <<kind, projectPath, defaultPath, waiting, optimistic, served, menuOpen, chosen>>

(* A run that succeeds, of either kind: from here on the backend's list counts. *)
EndRun(success) ==
    /\ running
    /\ running' = FALSE
    /\ optimistic' = IF success THEN <<>> ELSE optimistic
    /\ chosen' = IF success THEN <<>> ELSE chosen
    /\ UNCHANGED <<kind, projectPath, defaultPath, waiting, served, menuOpen>>

HistoryNext ==
    \/ ToggleMenu \/ DismissMenu \/ SelectDefault \/ SourceAdded \/ BeginRun
    \/ \E newKind \in {"simulation", "tx"} :
         \/ ChooseRequestKind(newKind)
         \/ \E path \in Projects \cup {NoProject} : ShowRecord(newKind, path)
    \/ \E path \in Projects \cup {NoProject} : TypePath(path)
    \/ \E path \in Projects : SelectPast(path) \/ Browsed(path)
    \/ \E button \in {"browse", "add"} : Ask(button) \/ AskFails(button)
    \/ \E list \in Lists \cup {<<>>} : ProjectsFetched(list)
    \/ \E success \in BOOLEAN : EndRun(success)

HistorySpec == HistoryInit /\ [][HistoryNext]_historyVars

-----------------------------------------------------------------------------
(* Types; besides, the list of past projects is open only in the form of a   *)
(* simulation.                                                               *)
HistoryTypeOK ==
    /\ kind \in {"simulation", "tx"}
    /\ running \in BOOLEAN
    /\ projectPath \in Projects \cup {NoProject}
    /\ defaultPath \in {DefaultProject, NoProject}
    /\ waiting \subseteq {"browse", "add"}
    /\ menuOpen => kind = "simulation"
    /\ Len(optimistic) <= HistorySize

(* p was chosen after q was, and stands in a list before q does. *)
ChosenAfter(p, q) ==
    \E i \in DOMAIN chosen : chosen[i] = p /\ \A j \in i .. Len(chosen) : chosen[j] # q
ListedBefore(list, p, q) ==
    \E i \in DOMAIN list : list[i] = p /\ \A j \in 1 .. i : list[j] # q

(* The list of past projects has each project once.  It begins with those    *)
(* that were browsed for, added to, opened or imported since the last run    *)
(* that succeeded, the latest first and HistorySize of them at most; then    *)
(* come those of the backend's list that are not among them, in its order.   *)
PastListsLatestFirst ==
    /\ IsInjective(Suggestions)
    /\ \E n \in 0 .. Len(Suggestions) :
         LET kept == SubSeq(Suggestions, 1, n)
             rest == SubSeq(Suggestions, n + 1, Len(Suggestions))
         IN  /\ ToSet(kept) \subseteq ToSet(chosen)
             /\ n = HistorySize \/ (n < HistorySize /\ ToSet(chosen) \subseteq ToSet(kept))
             /\ \A i, j \in 1 .. n : i < j => ChosenAfter(kept[i], kept[j])
             /\ \A p \in ToSet(kept), q \in ToSet(chosen) \ ToSet(kept) : ChosenAfter(p, q)
             /\ ToSet(rest) = ToSet(served) \ ToSet(kept)
             /\ \A i, j \in DOMAIN rest : i < j => ListedBefore(served, rest[i], rest[j])
=============================================================================
