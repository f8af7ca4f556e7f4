----------------------------- MODULE OutputViews -----------------------------
(***************************************************************************)
(* The views of a response (OutputPanel.tsx): which one is shown, where    *)
(* each is scrolled to, how the search of the trace moves it               *)
(* (TraceTree.tsx), and whether the graph of the flow of funds knows the   *)
(* width it has (FundFlowGraph.tsx).                                       *)
(*                                                                         *)
(* Each view has an element of its own, which exists while the view is     *)
(* shown, and which is at its top when it is new.  A scroll goes no        *)
(* further than what is drawn.                                             *)
(***************************************************************************)
EXTENDS Integers

CONSTANTS Positions    \* what scrollTop may be: 0, the top, and others

ASSUME PositionsAssumption == Positions \subseteq Nat /\ 0 \in Positions

Views == {"trace", "flow", "balances", "json"}
NoScroll == -1

VARIABLES
    view,        \* outputView
    hasTransfers, \* the response has transfers
    scrollTop,   \* of the element of the view
    saved,       \* scrollPositionsRef
    pending,     \* pendingScrollTopRef
    observed,    \* the graph of the flow is measured, and measured again when it changes
    matched,     \* the search of the trace has an active match
    frame,       \* an animation frame is to bring the active match into view
    unfolded,    \* the rows of the trace are not those a new tree opens
    \* For the property:
    place,       \* where the user, or the search, left each view
    changed,     \* the views that are, or will be, drawn otherwise than when they were left
    again,       \* the tab of the view has been pressed since the view is shown
    astray       \* a new response was shown in the place of a view whose tab was pressed again

viewVars == <<view, hasTransfers, scrollTop, saved, pending, observed, matched, frame,
              unfolded, place, changed, again, astray>>

ViewsInit ==
    /\ view \in Views /\ hasTransfers \in BOOLEAN  \* as they were when the page was last open
    /\ scrollTop = 0 /\ observed = (view = "flow" /\ hasTransfers)
    /\ saved = [v \in Views |-> 0] /\ pending = NoScroll
    /\ matched = FALSE /\ frame = FALSE /\ unfolded = FALSE
    /\ place = [v \in Views |-> 0] /\ changed = {} /\ again = FALSE /\ astray = FALSE

Upto(top) == {p \in Positions : p <= top}

(* useElementWidth: its effect runs when the graph is mounted, and finds an  *)
(* element only if there are transfers to draw.                              *)
Measured(next, has) ==
    IF next # "flow" THEN FALSE ELSE IF view = "flow" THEN observed ELSE has

(* The element of a view comes from one place to another: onScroll.          *)
Saved(before, v, from, to) == IF to = from THEN before ELSE [before EXCEPT ![v] = to]

(* The layout effect on outputView: a scroll that is pending is done.        *)
ShowView(next, before, wanted, redrawn) ==
    LET start == IF next = view THEN scrollTop ELSE 0
        aim   == IF next = view \/ wanted = NoScroll THEN start ELSE wanted
    IN  /\ view' = next
        /\ scrollTop' \in IF redrawn THEN Upto(aim) ELSE {aim}
        /\ saved' = Saved(before, next, start, scrollTop')
        /\ pending' = IF next = view THEN wanted ELSE NoScroll

(* The active match calls for a frame when its row, or its number, is new;   *)
(* the frame is cancelled with the match and with the tree.                  *)
FrameFor(next, match) ==
    IF next # "trace" \/ ~ match THEN {FALSE}
    ELSE IF view = "trace" /\ matched THEN {frame, TRUE} ELSE {TRUE}

(* What a tab does but for the place it saves.                               *)
PressTab(next, before) ==
    /\ ShowView(next, before, before[next], next # view /\ next \in changed)
    /\ observed' = Measured(next, hasTransfers)
    /\ frame' \in IF next = view THEN {frame} ELSE FrameFor(next, matched)
    /\ place' = [place EXCEPT ![view] = scrollTop]
    /\ changed' = IF next = view \/ (view = "trace" /\ unfolded) THEN changed
                  ELSE changed \ {view}
    /\ again' = (next = view)
    /\ astray' = FALSE
    /\ UNCHANGED <<hasTransfers, matched, unfolded>>

(* Mistake: the place of a view is left to its scroll events.                *)
ChooseWithoutSaving(next) == PressTab(next, saved)

(* A tab is pressed, the one that is active too: then the scroll that was    *)
(* asked for stays pending.                                                  *)
ChooseOutputView(next) == PressTab(next, [saved EXCEPT ![view] = scrollTop])

Scroll(top) ==
    /\ top # scrollTop
    /\ scrollTop' = top
    /\ saved' = Saved(saved, view, scrollTop, top)
    /\ place' = [place EXCEPT ![view] = top]
    /\ astray' = FALSE
    /\ UNCHANGED <<view, hasTransfers, pending, observed, matched, frame, unfolded,
                   changed, again>>

(* The frame scrolls the row of the active match into view.                  *)
BringMatch(top) ==
    /\ frame
    /\ frame' = FALSE
    /\ scrollTop' = top
    /\ saved' = Saved(saved, view, scrollTop, top)
    /\ place' = [place EXCEPT ![view] = top]
    /\ astray' = FALSE
    /\ UNCHANGED <<view, hasTransfers, pending, observed, matched, unfolded, changed, again>>

(* The query or its match is another, rows are opened or closed: the trace   *)
(* is drawn otherwise.  Or the names of addresses or the width of the window *)
(* are others: every view is.                                                *)
Redraw(vs, match) ==
    /\ vs = Views \/ view = "trace"
    /\ scrollTop' \in IF view \in vs THEN Upto(scrollTop) ELSE {scrollTop}
    /\ saved' = Saved(saved, view, scrollTop, scrollTop')
    /\ matched' = match
    /\ frame' \in FrameFor(view, match)
    /\ unfolded' \in IF view # "trace" THEN {unfolded} ELSE {TRUE, match}
    /\ changed' = changed \cup vs
    /\ UNCHANGED <<view, hasTransfers, pending, observed, place, again, astray>>

(* A run ends, or a record is opened or imported: its trace is shown, with   *)
(* the rows of the depth and of the query.                                   *)
ShowNewResponse(has, match) ==
    /\ hasTransfers' = has
    /\ ShowView("trace", saved, pending, TRUE)
    /\ observed' = FALSE
    /\ matched' = match
    /\ frame' \in FrameFor("trace", match)
    /\ unfolded' \in IF view = "trace" THEN {TRUE, match} ELSE {match}
    /\ place' = IF view = "trace" THEN place ELSE [place EXCEPT !["trace"] = 0]
    /\ changed' = IF view = "trace" THEN Views ELSE Views \ {"trace"}
    /\ again' = (view = "trace" /\ again)
    /\ astray' = IF view = "trace" THEN astray ELSE again

ViewsNext ==
    \/ \E next \in Views : ChooseOutputView(next)
    \/ \E top \in Positions : Scroll(top) \/ BringMatch(top)
    \/ \E vs \in {{"trace"}, Views}, match \in BOOLEAN : Redraw(vs, match)
    \/ \E has, match \in BOOLEAN : ShowNewResponse(has, match)

ViewsSpec == ViewsInit /\ [][ViewsNext]_viewVars

-----------------------------------------------------------------------------
ViewsTypeOK ==
    /\ view \in Views
    /\ scrollTop \in Positions
    /\ saved \in [Views -> Positions] /\ place \in [Views -> Positions]
    /\ pending \in Positions \cup {NoScroll}
    /\ observed => view = "flow"
    /\ changed \subseteq Views
    /\ hasTransfers \in BOOLEAN /\ observed \in BOOLEAN
    /\ matched \in BOOLEAN /\ frame \in BOOLEAN /\ unfolded \in BOOLEAN
    /\ again \in BOOLEAN /\ astray \in BOOLEAN

(* A view that is chosen again is where it was left, or, when it has been    *)
(* drawn otherwise since, above it as far as it is too short; and a response *)
(* that comes while another view is shown has its trace shown from the top.  *)
(* The one exception is a response that comes after the tab of the view has  *)
(* been pressed again, whose scroll is still pending (OutputPanel.tsx:61).   *)
(* A search scrolls the trace only, while it is shown with an active match;  *)
(* and the graph of the flow is measured whenever there is one, because it   *)
(* is never left mounted from a response without transfers to one with some. *)
ViewsComeBack ==
    /\ \/ scrollTop = place[view]
       \/ scrollTop < place[view] /\ view \in changed
       \/ astray
    /\ frame => view = "trace" /\ matched
    /\ view = "flow" /\ hasTransfers => observed
=============================================================================
