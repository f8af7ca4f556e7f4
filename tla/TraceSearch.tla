----------------------------- MODULE TraceSearch -----------------------------
(***************************************************************************)
(* The trace as it is shown (TraceTree.tsx) and searched (OutputPanel.tsx):*)
(* which rows are open, which match the query, which match is the active   *)
(* one.                                                                    *)
(*                                                                         *)
(* A trace is its rows from first to last, each with its depth.  A row is  *)
(* known by its key, which is made of the texts and places of the row and  *)
(* the rows above it: a row of another trace with the same key is the same *)
(* component and keeps its state.  The effects of React run to an end      *)
(* before the next event, so they are part of the step they follow.        *)
(***************************************************************************)
EXTENDS Naturals, Integers, Sequences, FiniteSets

CONSTANTS
    Traces,       \* traces, the empty one among them
    Labellings,   \* the labels addresses may have
    Queries,      \* texts to search for, besides none
    Hits,         \* the keys of the rows that match a query, by labelling
    NoQuery,      \* a blank query
    DepthLimit    \* the largest depth of the control: 20

ASSUME SearchAssumption ==
    /\ <<>> \in Traces /\ \A t \in Traces : IsFiniteSet(DOMAIN t)
    /\ \A t \in Traces : \A i, j \in DOMAIN t : t[i].key = t[j].key => i = j
    /\ NoQuery \notin Queries /\ Labellings # {}
    /\ Hits \in [Labellings -> [Queries -> SUBSET UNION {{t[i].key : i \in DOMAIN t} : t \in Traces}]]
    /\ DepthLimit \in Nat \ {0}

VARIABLES
    trace,        \* traceNodes
    labelling,    \* addressLabels
    mounted,      \* the trace is the view chosen, so that TraceTree is mounted
    mode,         \* expandMode
    expandDepth,  \* traceExpandDepth
    query,        \* traceSearchQuery
    matchCount,   \* traceMatchCount
    matchIndex,   \* traceMatchIndex
    open,         \* open, for the rows mounted
    hidden        \* for the property: rows leading to a match that the user
                  \* has closed since they did, or the active match moved

searchVars == <<trace, labelling, mounted, mode, expandDepth, query, matchCount, matchIndex,
                open, hidden>>

-----------------------------------------------------------------------------
Min2(a, b) == IF a < b THEN a ELSE b

Keys(t) == {t[i].key : i \in DOMAIN t}
Depth(t, key) == t[CHOOSE i \in DOMAIN t : t[i].key = key].depth

(* The rows of the subtree of row i, itself first. *)
Subtree(t, i) ==
    {j \in i .. Len(t) : \A m \in i + 1 .. j : t[m].depth > t[i].depth}

Above(t, key) ==
    {t[i].key : i \in {i \in DOMAIN t : \E j \in Subtree(t, i) \ {i} : t[j].key = key}}

Inner(t) == {t[i].key : i \in {i \in DOMAIN t : Subtree(t, i) # {i}}}

(* buildSearchTree: which rows match, and which have one that does below. *)
Matching(t, lab, q) ==
    IF q = NoQuery THEN {} ELSE {i \in DOMAIN t : t[i].key \in Hits[lab][q]}

Leading(t, lab, q) ==
    {t[i].key : i \in {i \in DOMAIN t : Subtree(t, i) \cap Matching(t, lab, q) # {}}}

ClampDepth(d) == IF d < 0 THEN 0 ELSE Min2(d, DepthLimit)

(* Mistake: a row does not look again when it begins to lead to a match. *)
RowLooksAgainAtQuery(key) ==
    \/ ~ mounted \/ key \notin Keys(trace)
    \/ expandDepth' # expandDepth \/ mode' # mode \/ matchIndex' # matchIndex
    \/ (query' = NoQuery) # (query = NoQuery)

(* The effect of a row runs when it is mounted and when what it depends on   *)
(* has changed.                                                              *)
RowLooksAgain(key) ==
    \/ ~ mounted \/ key \notin Keys(trace)
    \/ expandDepth' # expandDepth \/ mode' # mode \/ matchIndex' # matchIndex
    \/ (query' = NoQuery) # (query = NoQuery)
    \/ (key \in Leading(trace', labelling', query')) # (key \in Leading(trace, labelling, query))

(* What the effect makes of a row that is open or not. *)
RowOpens(key, before) ==
    IF query' # NoQuery THEN before \/ key \in Leading(trace', labelling', query')
    ELSE mode' = "expand" \/ (mode' = "depth" /\ Depth(trace', key) < expandDepth')

(* What the effects do after any change: the tree reports its matches, the   *)
(* panel keeps the active match among them, and each row opens or closes.    *)
Settle ==
    LET count == Cardinality(Matching(trace', labelling', query'))
        kept == hidden \cap Leading(trace', labelling', query') \cap Leading(trace, labelling, query)
        before == [key \in Keys(trace') |->
                     IF mounted /\ key \in Keys(trace) THEN open[key]
                     ELSE Depth(trace', key) < expandDepth']
    IN  /\ matchCount' = IF mounted' THEN count ELSE matchCount
        /\ hidden' = IF mounted' /\ mounted /\ matchIndex' = matchIndex THEN kept ELSE {}
        /\ open' = IF ~ mounted' THEN <<>>
                   ELSE [key \in Keys(trace') |->
                           IF RowLooksAgain(key) THEN RowOpens(key, before[key]) ELSE before[key]]

(* The active match after the number of matches may have changed. *)
ClampIndex ==
    LET count == Cardinality(Matching(trace', labelling', query'))
    IN  matchIndex' = IF ~ mounted' \/ count = matchCount THEN matchIndex
                      ELSE IF count = 0 THEN 0
                      ELSE Min2(matchIndex, count - 1)

-----------------------------------------------------------------------------
SearchInit ==
    /\ trace = <<>> /\ mounted = TRUE /\ mode = "depth" /\ expandDepth = 1
    /\ labelling = CHOOSE lab \in Labellings : TRUE
    /\ query = NoQuery /\ matchCount = 0 /\ matchIndex = 0
    /\ open = <<>> /\ hidden = {}

(* A run ends, or a record is opened or imported: the view becomes the trace. *)
ShowResponse(t, lab) ==
    /\ trace' = t /\ labelling' = lab /\ mounted' = TRUE /\ mode' = "depth"
    /\ UNCHANGED <<expandDepth, query>>
    /\ ClampIndex
    /\ Settle

(* The labels of addresses are edited in the form. *)
Relabel(lab) ==
    /\ labelling' = lab
    /\ UNCHANGED <<trace, mounted, mode, expandDepth, query>>
    /\ ClampIndex
    /\ Settle

(* Another view is chosen, or the trace again. *)
ChooseView(isTrace) ==
    /\ mounted' = isTrace
    /\ UNCHANGED <<trace, labelling, mode, expandDepth, query>>
    /\ ClampIndex
    /\ Settle

(* A query is typed or cleared; the first match becomes the active one. *)
Search(q) ==
    /\ mounted
    /\ query' = q
    /\ matchIndex' = IF q # query THEN 0 ELSE matchIndex
    /\ UNCHANGED <<trace, labelling, mounted, mode, expandDepth>>
    /\ Settle

Step(by) ==
    /\ mounted /\ matchCount > 0
    /\ matchIndex' = (matchIndex + by) % matchCount
    /\ UNCHANGED <<trace, labelling, mounted, mode, expandDepth, query>>
    /\ Settle

PreviousMatch == Step(matchCount - 1)
NextMatch == Step(1)

SetDepth(d) ==
    /\ mounted
    /\ expandDepth' = ClampDepth(d) /\ mode' = "depth"
    /\ UNCHANGED <<trace, labelling, mounted, query, matchIndex>>
    /\ Settle

(* Expand trace and Collapse trace.  Pressed a second time they change       *)
(* nothing, so that a row the user has closed or opened between stays so.    *)
SetMode(m) ==
    /\ mounted
    /\ mode' = m
    /\ UNCHANGED <<trace, labelling, mounted, expandDepth, query, matchIndex>>
    /\ Settle

(* The user opens or closes a row that has rows below it, and can be seen. *)
ToggleRow(key) ==
    /\ mounted /\ key \in Inner(trace)
    /\ \A above \in Above(trace, key) : open[above]
    /\ open' = [open EXCEPT ![key] = ~ @]
    /\ hidden' = IF open[key] /\ key \in Leading(trace, labelling, query)
                 THEN hidden \cup {key} ELSE hidden \ {key}
    /\ UNCHANGED <<trace, labelling, mounted, mode, expandDepth, query, matchCount, matchIndex>>

SearchNext ==
    \/ \E t \in Traces, lab \in Labellings : ShowResponse(t, lab)
    \/ \E lab \in Labellings : Relabel(lab)
    \/ \E isTrace \in BOOLEAN : ChooseView(isTrace)
    \/ \E q \in Queries \cup {NoQuery} : Search(q)
    \/ PreviousMatch \/ NextMatch
    \/ \E d \in -1 .. DepthLimit + 1 : SetDepth(d)
    \/ \E m \in {"expand", "collapse"} : SetMode(m)
    \/ \E key \in Inner(trace) : ToggleRow(key)

SearchSpec == SearchInit /\ [][SearchNext]_searchVars

-----------------------------------------------------------------------------
SearchTypeOK ==
    /\ trace \in Traces /\ labelling \in Labellings
    /\ mode \in {"depth", "expand", "collapse"}
    /\ expandDepth \in 0 .. DepthLimit
    /\ query \in Queries \cup {NoQuery}
    /\ open \in IF mounted THEN [Keys(trace) -> BOOLEAN] ELSE {<<>>}
    /\ matchIndex \in 0 .. matchCount

(* While the trace is shown, the number beside the query is that of the rows *)
(* that match it, one of them is the active one, and nothing hides a match   *)
(* but rows that the user has closed since they lead to one and since the    *)
(* active match last moved: not a change of the query, of the labels or of   *)
(* the trace, and not the depth chosen.                                      *)
SearchRevealsMatches ==
    mounted =>
      /\ matchCount = Cardinality(Matching(trace, labelling, query))
      /\ matchCount > 0 => matchIndex < matchCount
      /\ \A key \in Leading(trace, labelling, query) : open[key] \/ key \in hidden
=============================================================================
