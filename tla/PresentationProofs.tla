------------------------- MODULE PresentationProofs -------------------------
(***************************************************************************)
(* What holds of the parts of the page for every trace, query, depth,      *)
(* place, number of cards, form, list of projects and set of names:        *)
(* modules OutputViews, ExchangePanels, FloatingCard, TraceSearch,         *)
(* RequestForm, ProjectHistory and AddressLabels.  The loops of the code   *)
(* (compactRows, mergeProjects, buildAddressLabels) are reasoned about by  *)
(* induction on their rounds (Rounds).  The last section puts the parts    *)
(* and the flow of funds together to the page of MCPresentation.           *)
(***************************************************************************)
EXTENDS MCPresentation, FlowProofs

-----------------------------------------------------------------------------
(* The views.  What is saved of a view is where it was left, or above it if   *)
(* it has been drawn otherwise; only the trace may be shown elsewhere than   *)
(* what is saved of it, after a new response.  A scroll is pending exactly   *)
(* while the tab of the view has been pressed again.                         *)
KeptPlace(v) ==
    \/ saved[v] = place[v]
    \/ (saved[v] < place[v] /\ v \in changed)
    \/ v = "trace" /\ view = "trace"

ViewsInv ==
    /\ ViewsTypeOK
    /\ ViewsComeBack
    /\ \A v \in Views : KeptPlace(v)
    /\ again <=> pending # NoScroll
    /\ astray => view = "trace"

(* The parts of the invariant and of the types, each for itself. *)
LEMMA ViewsFacts ==
  ASSUME ViewsInv
  PROVE  /\ scrollTop \in Positions /\ scrollTop \in Nat /\ view \in Views /\ Positions \subseteq Nat
         /\ saved \in [Views -> Positions] /\ place \in [Views -> Positions]
         /\ pending \in Positions \cup {-1} /\ changed \subseteq Views
         /\ \A v \in Views : saved[v] \in Nat /\ place[v] \in Nat
         /\ scrollTop = place[view] \/ (scrollTop < place[view] /\ view \in changed) \/ astray
<1>1. /\ scrollTop \in Positions /\ view \in Views /\ Positions \subseteq Nat
      /\ saved \in [Views -> Positions] /\ place \in [Views -> Positions]
      /\ pending \in Positions \cup {-1} /\ changed \subseteq Views
    BY PositionsAssumption DEF ViewsInv, ViewsTypeOK, NoScroll
<1>2. scrollTop = place[view] \/ (scrollTop < place[view] /\ view \in changed) \/ astray
    BY DEF ViewsInv, ViewsComeBack
<1> QED
    BY <1>1, <1>2

(* A tab restores what is saved of its view, after the view that is left has *)
(* been saved.                                                               *)
LEMMA ChooseKeepsViews ==
  ASSUME ViewsInv, NEW next \in Views, ChooseOutputView(next)
  PROVE  ViewsInv'
<1> USE DEF NoScroll
<1>0. /\ scrollTop \in Positions /\ scrollTop \in Nat /\ view \in Views /\ Positions \subseteq Nat
      /\ saved \in [Views -> Positions] /\ place \in [Views -> Positions] /\ changed \subseteq Views
      /\ \A v \in Views : saved[v] \in Nat /\ place[v] \in Nat
    BY ViewsFacts
<1>a. \A v \in Views : KeptPlace(v)
    BY DEF ViewsInv
<1>b. /\ hasTransfers \in BOOLEAN /\ observed \in BOOLEAN /\ (observed => view = "flow")
      /\ matched \in BOOLEAN /\ frame \in BOOLEAN /\ unfolded \in BOOLEAN
      /\ (frame => view = "trace" /\ matched) /\ (view = "flow" /\ hasTransfers => observed)
    BY DEF ViewsInv, ViewsTypeOK, ViewsComeBack
<1> DEFINE left == [saved EXCEPT ![view] = scrollTop]
<1>1. /\ left \in [Views -> Positions] /\ left[view] = scrollTop
      /\ \A v \in Views \ {view} : left[v] = saved[v]
    BY <1>0
<1>2. PressTab(next, left)
    BY DEF ChooseOutputView
<1> HIDE DEF left
<1>4. CASE next = view
  <2>0. left[next] # -1
      BY <1>0, <1>1, <1>4
  <2>1. /\ view' = view /\ scrollTop' = scrollTop /\ pending' = scrollTop /\ saved' = left
    <3>1. ShowView(next, left, left[next], FALSE)
        BY <1>2, <1>4 DEF PressTab
    <3> QED
        BY <1>1, <1>4, <3>1 DEF ShowView, Saved
  <2>2. /\ place' = [place EXCEPT ![view] = scrollTop] /\ changed' = changed
        /\ again' = TRUE /\ astray' = FALSE
        /\ frame' = frame /\ matched' = matched
        /\ UNCHANGED <<hasTransfers, unfolded>>
      BY <1>2, <1>4 DEF PressTab
  <2>a. observed' = Measured(view, hasTransfers)
      BY <1>2, <1>4 DEF PressTab
  <2>3. observed' = observed
      BY <1>b, <2>a DEF Measured
  <2>4. \A v \in Views : KeptPlace(v)'
      BY <1>0, <1>1, <1>a, <2>1, <2>2 DEF KeptPlace
  <2>5. ViewsTypeOK'
      BY <1>0, <1>1, <1>b, <2>1, <2>2, <2>3 DEF ViewsTypeOK
  <2>6. scrollTop' = place'[view']
      BY <1>0, <2>1, <2>2
  <2>7. ViewsComeBack'
      BY <1>b, <2>1, <2>2, <2>3, <2>6 DEF ViewsComeBack
  <2>8. again' <=> pending' # NoScroll
      BY <1>0, <2>1, <2>2
  <2> QED
      BY <2>2, <2>4, <2>5, <2>7, <2>8 DEF ViewsInv
<1>5. CASE next # view
  <2>0. left[next] = saved[next] /\ saved[next] \in Positions /\ saved[next] \in Nat /\ place[next] \in Nat
      BY <1>0, <1>1, <1>5
  <2>1. /\ view' = next /\ pending' = -1
        /\ saved' = Saved(left, next, 0, scrollTop')
        /\ scrollTop' \in IF next \in changed THEN Upto(saved[next]) ELSE {saved[next]}
    <3>1. ShowView(next, left, saved[next], next # view /\ next \in changed)
        BY <1>2, <2>0 DEF PressTab
    <3>2. saved[next] # -1
        BY <2>0
    <3> QED
        BY <1>5, <3>1, <3>2 DEF ShowView
  <2>2. /\ place' = [place EXCEPT ![view] = scrollTop] /\ again' = FALSE /\ astray' = FALSE
        /\ changed' = changed \/ changed' = changed \ {view}
        /\ frame' \in FrameFor(next, matched)
        /\ UNCHANGED <<hasTransfers, matched, unfolded>>
      BY <1>2, <1>5 DEF PressTab
  <2>a. observed' = Measured(next, hasTransfers)
      BY <1>2 DEF PressTab
  <2>3. observed' \in BOOLEAN /\ (observed' => next = "flow") /\ (next = "flow" /\ hasTransfers => observed')
      BY <1>5, <1>b, <2>a DEF Measured
  <2>4. frame' \in BOOLEAN /\ (frame' => next = "trace" /\ matched)
      BY <1>b, <2>2 DEF FrameFor
  <2>5. /\ scrollTop' \in Positions
        /\ scrollTop' = saved[next] \/ (scrollTop' < saved[next] /\ next \in changed)
    <3>1. CASE next \in changed
      <4>1. scrollTop' \in Positions /\ scrollTop' <= saved[next]
          BY <2>1, <3>1 DEF Upto
      <4> QED
          BY <1>0, <2>0, <3>1, <4>1
    <3>2. CASE next \notin changed
      <4>1. scrollTop' \in {saved[next]}
          BY <2>1, <3>2
      <4> QED
          BY <2>0, <4>1
    <3> QED
        BY <3>1, <3>2
  <2>6. /\ saved' \in [Views -> Positions]
        /\ \A v \in Views \ {next} : saved'[v] = left[v]
        /\ saved'[next] = saved[next] \/ saved'[next] = scrollTop'
      BY <1>1, <2>0, <2>1, <2>5 DEF Saved
  <2>7. /\ place' \in [Views -> Positions] /\ place'[view] = scrollTop
        /\ \A v \in Views \ {view} : place'[v] = place[v] /\ (v \in changed => v \in changed')
        /\ changed' \subseteq Views
      BY <1>0, <2>2
  <2>8. /\ saved[next] = place[next] \/ (saved[next] < place[next] /\ next \in changed)
    <3>1. ~ (next = "trace" /\ view = "trace")
        BY <1>5
    <3>2. KeptPlace(next)
        BY <1>a
    <3> QED
        BY <3>1, <3>2 DEF KeptPlace
  <2>9. ASSUME NEW v \in Views PROVE KeptPlace(v)'
    <3>1. CASE v # next /\ v # view
      <4>1. saved'[v] = saved[v] /\ place'[v] = place[v] /\ (v \in changed => v \in changed')
          BY <1>1, <2>6, <2>7, <3>1
      <4>2. saved[v] = place[v] \/ (saved[v] < place[v] /\ v \in changed) \/ (v = "trace" /\ view = "trace")
        <5>1. KeptPlace(v)
            BY <1>a
        <5> QED
            BY <5>1 DEF KeptPlace
      <4> QED
          BY <3>1, <4>1, <4>2 DEF KeptPlace
    <3>2. CASE v = view
      <4>1. saved'[v] = place'[v]
          BY <1>1, <1>5, <2>6, <2>7, <3>2
      <4> QED
          BY <4>1 DEF KeptPlace
    <3>3. CASE v = next
      <4>1. place'[v] = place[next] /\ (next \in changed => v \in changed')
          BY <1>5, <2>7, <3>3
      <4>2. saved'[v] \in Nat /\ scrollTop' \in Nat /\ (saved'[v] = saved[next] \/ saved'[v] = scrollTop')
          BY <1>0, <2>5, <2>6, <3>3
      <4>3. saved'[v] = place'[v] \/ (saved'[v] < place'[v] /\ v \in changed')
          BY <2>0, <2>5, <2>8, <4>1, <4>2
      <4> QED
          BY <4>3 DEF KeptPlace
    <3> QED
        BY <3>1, <3>2, <3>3
  <2>10. scrollTop' = place'[next] \/ (scrollTop' < place'[next] /\ next \in changed')
    <3>1. place'[next] = place[next] /\ (next \in changed => next \in changed') /\ scrollTop' \in Nat
        BY <1>0, <1>5, <2>5, <2>7
    <3> QED
        BY <2>0, <2>5, <2>8, <3>1
  <2>11. ViewsTypeOK'
      BY <1>b, <2>1, <2>2, <2>3, <2>4, <2>5, <2>6, <2>7 DEF ViewsTypeOK
  <2>12. ViewsComeBack'
      BY <2>1, <2>2, <2>3, <2>4, <2>10 DEF ViewsComeBack
  <2>13. again' <=> pending' # NoScroll
      BY <2>1, <2>2
  <2> QED
      BY <2>2, <2>9, <2>11, <2>12, <2>13 DEF ViewsInv
<1> QED
    BY <1>4, <1>5

(* A new response takes the place of the trace before it, or comes at the    *)
(* top, or at what was pending.                                              *)
LEMMA ResponseKeepsViews ==
  ASSUME ViewsInv, NEW has \in BOOLEAN, NEW match \in BOOLEAN, ShowNewResponse(has, match)
  PROVE  ViewsInv'
<1> USE PositionsAssumption DEF ViewsInv, ViewsTypeOK, Views, NoScroll
<1>1. /\ view' = "trace" /\ hasTransfers' = has /\ ~ observed' /\ observed' \in BOOLEAN
      /\ matched' = match /\ unfolded' \in BOOLEAN
      /\ frame' \in BOOLEAN /\ (frame' => matched')
    BY DEF ShowNewResponse, ShowView, FrameFor
<1>2. CASE view = "trace"
  <2>1. /\ scrollTop' \in Upto(scrollTop) /\ saved' = Saved(saved, "trace", scrollTop, scrollTop')
        /\ pending' = pending /\ place' = place /\ changed' = Views
        /\ again' = again /\ astray' = astray
      BY <1>2 DEF ShowNewResponse, ShowView
  <2>2. /\ scrollTop' \in Positions /\ scrollTop' <= scrollTop
        /\ saved' \in [Views -> Positions]
        /\ \A v \in Views \ {"trace"} : saved'[v] = saved[v]
      BY <2>1 DEF Saved, Upto
  <2>3. \A v \in Views : KeptPlace(v)'
      BY <1>1, <1>2, <2>1, <2>2 DEF KeptPlace
  <2>4. ViewsTypeOK'
      BY <1>1, <2>1, <2>2
  <2>5. scrollTop' = place'["trace"] \/ scrollTop' < place'["trace"] \/ astray'
    <3>1. scrollTop = place["trace"] \/ scrollTop < place["trace"] \/ astray
        BY <1>2, ViewsFacts
    <3>2. scrollTop \in Nat /\ scrollTop' \in Nat /\ place["trace"] \in Nat
        BY <1>2, <2>2, ViewsFacts
    <3> QED
        BY <2>1, <2>2, <3>1, <3>2
  <2>6. ViewsComeBack'
      BY <1>1, <2>1, <2>5 DEF ViewsComeBack
  <2> QED
      BY <1>1, <2>1, <2>3, <2>4, <2>6
<1>3. CASE view # "trace"
  <2>1. /\ scrollTop' \in Upto(IF pending = NoScroll THEN 0 ELSE pending)
        /\ saved' = Saved(saved, "trace", 0, scrollTop')
        /\ pending' = NoScroll /\ place' = [place EXCEPT !["trace"] = 0]
        /\ changed' = Views \ {"trace"} /\ again' = FALSE /\ astray' = again
      BY <1>3 DEF ShowNewResponse, ShowView
  <2>2. /\ scrollTop' \in Positions /\ (~ again => scrollTop' = 0)
        /\ saved' \in [Views -> Positions]
        /\ \A v \in Views \ {"trace"} : saved'[v] = saved[v] /\ place'[v] = place[v]
        /\ place' \in [Views -> Positions] /\ place'["trace"] = 0
      BY <2>1 DEF Saved, Upto
  <2>3. \A v \in Views : KeptPlace(v)'
      BY <1>1, <1>3, <2>1, <2>2 DEF KeptPlace
  <2>4. ViewsTypeOK'
      BY <1>1, <2>1, <2>2
  <2>5. ViewsComeBack'
      BY <1>1, <2>1, <2>2 DEF ViewsComeBack
  <2> QED
      BY <1>1, <2>1, <2>3, <2>4, <2>5
<1> QED
    BY <1>2, <1>3

(* What is drawn otherwise may only pull its view up.                        *)
LEMMA RedrawKeepsViews ==
  ASSUME ViewsInv, NEW vs \in {{"trace"}, Views}, NEW match \in BOOLEAN, Redraw(vs, match)
  PROVE  ViewsInv'
<1> USE PositionsAssumption DEF ViewsInv, ViewsTypeOK, Views, NoScroll
<1>1. /\ UNCHANGED <<view, hasTransfers, pending, observed, place, again, astray>>
      /\ matched' = match /\ changed' = changed \cup vs /\ unfolded' \in BOOLEAN
      /\ saved' = Saved(saved, view, scrollTop, scrollTop') /\ view \in vs
    BY DEF Redraw
<1>2. /\ scrollTop' \in Positions /\ scrollTop' <= scrollTop
    BY DEF Redraw, Upto
<1>3. frame' \in BOOLEAN /\ (frame' => view' = "trace" /\ matched')
  <2>1. frame' \in FrameFor(view, match)
      BY DEF Redraw
  <2>2. frame' \in BOOLEAN /\ (frame' => view = "trace" /\ match)
      BY <2>1 DEF FrameFor
  <2> QED
      BY <1>1, <2>2
<1>4. /\ saved' \in [Views -> Positions]
      /\ \A v \in Views \ {view} : saved'[v] = saved[v]
      /\ saved'[view] = saved[view] \/ saved'[view] = scrollTop'
    BY <1>1, <1>2 DEF Saved
<1>5. scrollTop' = place[view] \/ scrollTop' < place[view] \/ astray
  <2>1. scrollTop = place[view] \/ scrollTop < place[view] \/ astray
      BY ViewsFacts
  <2>2. scrollTop \in Nat /\ scrollTop' \in Nat /\ place[view] \in Nat
      BY <1>2, ViewsFacts
  <2> QED
      BY <1>2, <2>1, <2>2
<1>6. ASSUME NEW v \in Views PROVE KeptPlace(v)'
  <2>1. CASE v # view
      BY <1>1, <1>4, <2>1 DEF KeptPlace
  <2>2. CASE v = view
      BY <1>1, <1>4, <1>5, <2>2 DEF KeptPlace
  <2> QED
      BY <2>1, <2>2
<1>7. ViewsTypeOK'
    BY <1>1, <1>2, <1>3, <1>4
<1>8. ViewsComeBack'
    BY <1>1, <1>3, <1>5 DEF ViewsComeBack
<1> QED
    BY <1>1, <1>6, <1>7, <1>8

(* Every step keeps it.                                                   *)
LEMMA ViewsInvInductive == ViewsInv /\ [ViewsNext]_viewVars => ViewsInv'
<1> SUFFICES ASSUME ViewsInv, [ViewsNext]_viewVars PROVE ViewsInv'
    OBVIOUS
<1> USE PositionsAssumption DEF ViewsInv, ViewsTypeOK, Views, NoScroll
<1>1. ASSUME NEW top \in Positions, Scroll(top) PROVE ViewsInv'
    BY <1>1 DEF Scroll, Saved, KeptPlace, ViewsComeBack
<1>2. ASSUME NEW top \in Positions, BringMatch(top) PROVE ViewsInv'
    BY <1>2 DEF BringMatch, Saved, KeptPlace, ViewsComeBack
<1>3. CASE UNCHANGED viewVars
    BY <1>3 DEF viewVars, KeptPlace, ViewsComeBack
<1> QED
    BY <1>1, <1>2, <1>3, ChooseKeepsViews, ResponseKeepsViews, RedrawKeepsViews DEF ViewsNext

(* It holds at the start. *)
LEMMA ViewsInvInit == ViewsInit => ViewsInv
    BY PositionsAssumption DEF ViewsInit, ViewsInv, ViewsTypeOK, ViewsComeBack, KeptPlace, Views,
       NoScroll

(* A view that is chosen again is where it was left, or above it if it is    *)
(* too short now; a new trace starts from the top unless a scroll was        *)
(* pending; a search moves the trace alone; and the graph of the flow is     *)
(* measured whenever there is one (OutputPanel.tsx, TraceTree.tsx,           *)
(* FundFlowGraph.tsx): however far views are scrolled.                       *)
THEOREM ViewsAlwaysComeBack == ViewsSpec => []ViewsComeBack
<1>1. ViewsInv => ViewsComeBack
    BY DEF ViewsInv
<1> QED
    BY <1>1, ViewsInvInit, ViewsInvInductive, PTL DEF ViewsSpec

(* The views have their types, and what is still to be scrolled is a place   *)
(* of a view (OutputPanel.tsx).                                              *)
THEOREM ViewsTypeCorrect == ViewsSpec => []ViewsTypeOK
<1>1. ViewsInv => ViewsTypeOK
    BY DEF ViewsInv
<1> QED
    BY <1>1, ViewsInvInit, ViewsInvInductive, PTL DEF ViewsSpec

-----------------------------------------------------------------------------
(* The import and the export panel are never both open, and the export panel *)
(* is open only with a record to export (RequestForm.tsx).                   *)
THEOREM PanelsExclusive == PanelSpec => []PanelTypeOK
<1>1. PanelInit => PanelTypeOK
    BY DEF PanelInit, PanelTypeOK
<1>2. PanelTypeOK /\ [PanelNext]_panelVars => PanelTypeOK'
  <2> SUFFICES ASSUME PanelTypeOK, [PanelNext]_panelVars PROVE PanelTypeOK'
      OBVIOUS
  <2> USE DEF PanelTypeOK
  <2>1. CASE ToggleImport
      BY <2>1 DEF ToggleImport, SetPanels, Flip
  <2>2. CASE ToggleExport
      BY <2>2 DEF ToggleExport, SetPanels, Flip
  <2>3. CASE TogglePaste
      BY <2>3 DEF TogglePaste, SetPanels, Flip
  <2>4. CASE CancelPaste \/ Export
      BY <2>4 DEF CancelPaste, Export, SetPanels
  <2>5. CASE ImportFile
      BY <2>5 DEF ImportFile
  <2>6. ASSUME NEW valid \in BOOLEAN, PasteImport(valid) \/ FileRead(valid) PROVE PanelTypeOK'
      BY <2>6 DEF PasteImport, FileRead
  <2>7. ASSUME NEW what \in {"run", "lookup"}, Begin(what) PROVE PanelTypeOK'
      BY <2>7 DEF Begin
  <2>8. ASSUME NEW what \in {"run", "lookup"}, NEW valid \in BOOLEAN, End(what, valid)
        PROVE PanelTypeOK'
      BY <2>8 DEF End
  <2>9. CASE UNCHANGED panelVars
      BY <2>9 DEF panelVars
  <2> QED
      BY <2>1, <2>2, <2>3, <2>4, <2>5, <2>6, <2>7, <2>8, <2>9 DEF PanelNext
<1> QED
    BY <1>1, <1>2, PTL DEF PanelSpec

-----------------------------------------------------------------------------
CardInv == CardsFollowPresses /\ pointerDown \in [Cards -> BOOLEAN]

(* A press in an open card does not close it, and one elsewhere leaves no    *)
(* other card open (useFloatingCard.ts), however many cards there are.       *)
THEOREM CardsAlwaysFollow == CardSpec => []CardsFollowPresses
<1> USE DEF CardInv, CardsFollowPresses
<1>1. CardInit => CardInv
    BY DEF CardInit, NoPress
<1>2. CardInv /\ [CardNext]_cardVars => CardInv'
  <2> SUFFICES ASSUME CardInv, [CardNext]_cardVars PROVE CardInv'
      OBVIOUS
  <2>1. ASSUME NEW target, Press(target) PROVE CardInv'
    <3>1. target \in Pressable /\ press' = target
        BY <2>1 DEF Press
    <3>2. ASSUME NEW c \in Cards, target \in {<<c, "text">>, <<c, "copy">>} PROVE active'[c]
      <4>1. active[c] /\ target[1] = c /\ target[2] \in {"text", "copy"} /\ target # <<c, "trigger">>
          BY <3>1, <3>2, CardAssumption DEF Pressable, Parts, Outside
      <4>2. OpenAfterPointerDown(target)[c]
          BY <4>1 DEF OpenAfterPointerDown
      <4>3. CASE target[2] = "text"
        <5>1. active'[c] = (OpenAfterPointerDown(target)[c] /\ ~ ClosesOnBlur(c, Down(target), Outside))
            BY <2>1, <4>1, <4>3 DEF Press
        <5>2. Down(target)[c]
            BY <4>1, <4>3 DEF Down
        <5> QED
            BY <5>1, <5>2, <4>2 DEF ClosesOnBlur
      <4>4. CASE target[2] = "copy"
        <5>1. active'[c] = (OpenAfterPointerDown(target)[c] /\ ~ ClosesOnBlur(c, Down(target), target))
            BY <2>1, <4>1, <4>4 DEF Press
        <5> QED
            BY <5>1, <4>1, <4>2 DEF ClosesOnBlur
      <4> QED
          BY <4>1, <4>3, <4>4
    <3>3. ASSUME NEW c \in Cards, active'[c] PROVE target # Outside /\ ~ (target[2] = "trigger" /\ target[1] # c)
      <4>1. CASE target = <<c, "trigger">>
          BY <4>1, CardAssumption DEF Outside
      <4>2. CASE target # <<c, "trigger">>
        <5>1. OpenAfterPointerDown(target)[c]
            BY <2>1, <3>3, <4>2 DEF Press
        <5>2. target[2] \in {"text", "copy"} \/ target[1] = c
            BY <5>1 DEF OpenAfterPointerDown
        <5> QED
            BY <5>2, CardAssumption DEF Outside
      <4> QED
          BY <4>1, <4>2
    <3>4. pointerDown' \in [Cards -> BOOLEAN]
        BY <2>1 DEF Press, Down
    <3> QED
        BY <3>1, <3>2, <3>3, <3>4
  <2>2. ASSUME NEW target, TabTo(target) PROVE CardInv'
      BY <2>2, CardAssumption DEF TabTo, NoPress, Outside
  <2>3. CASE PressEnter
      BY <2>3, CardAssumption DEF PressEnter, NoPress, Outside
  <2>4. ASSUME NEW c \in Cards, PressEnds(c) \/ MarkEnds(c) PROVE CardInv'
      BY <2>4 DEF PressEnds, MarkEnds
  <2>5. ASSUME NEW c \in Cards, NEW done \in BOOLEAN, WriteEnds(c, done) PROVE CardInv'
      BY <2>5 DEF WriteEnds
  <2>6. CASE UNCHANGED cardVars
      BY <2>6 DEF cardVars
  <2> QED
      BY <2>1, <2>2, <2>3, <2>4, <2>5, <2>6 DEF CardNext
<1> QED
    BY <1>1, <1>2, PTL DEF CardSpec

(* A mark that something was copied has a timer that will take it away, a    *)
(* card never has more writes and timers than it may, and what has the focus *)
(* is there (useFloatingCard.ts, AddressReference.tsx).                      *)
THEOREM CardsTypeCorrect == CardSpec => []CardTypeOK
<1> DEFINE Inv == /\ CardTypeOK
                  /\ writes \in [Cards -> Nat] /\ timers \in [Cards -> Nat]
                  /\ copied \in [Cards -> BOOLEAN]
<1>1. CardInit => Inv
    BY CardAssumption DEF CardInit, CardTypeOK, Outside
<1>2. Inv /\ [CardNext]_cardVars => Inv'
  <2> SUFFICES ASSUME Inv, [CardNext]_cardVars PROVE Inv'
      OBVIOUS
  <2> USE CardAssumption DEF CardTypeOK
  <2>0. ASSUME NEW target \in Pressable
        PROVE  /\ target = Outside \/ (target[1] \in Cards /\ target = <<target[1], target[2]>>)
               /\ target[2] # "text" => target \in (Cards \X {"trigger", "copy"}) \cup {Outside}
      BY DEF Pressable, Parts
  <2>1. ASSUME NEW target, Copies(target),
               target = Outside \/ target[1] \in Cards,
               copied' = copied, timers' = timers
        PROVE  /\ writes' \in [Cards -> Nat]
               /\ \A c \in Cards : writes'[c] + timers'[c] \in 0 .. MaxWrites
    <3>1. CASE target[2] = "copy"
      <4>1. target[1] \in Cards /\ writes[target[1]] + timers[target[1]] < MaxWrites
            /\ writes' = [writes EXCEPT ![target[1]] = @ + 1]
          BY <2>1, <3>1 DEF Copies, Outside
      <4>2. ASSUME NEW c \in Cards PROVE writes'[c] + timers'[c] \in 0 .. MaxWrites
        <5>1. writes[c] \in Nat /\ timers[c] \in Nat /\ writes[c] + timers[c] \in 0 .. MaxWrites
            OBVIOUS
        <5>2. writes'[c] = IF c = target[1] THEN writes[c] + 1 ELSE writes[c]
            BY <4>1
        <5> QED
            BY <2>1, <4>1, <5>1, <5>2
      <4> QED
          BY <4>1, <4>2
    <3>2. CASE target[2] # "copy"
        BY <2>1, <3>2 DEF Copies
    <3> QED
        BY <3>1, <3>2
  <2>2. ASSUME NEW target \in Pressable, Press(target) PROVE Inv'
    <3>1. writes' \in [Cards -> Nat] /\ \A c \in Cards : writes'[c] + timers'[c] \in 0 .. MaxWrites
        BY <2>0, <2>1, <2>2 DEF Press
    <3>2. focus' \in (Cards \X {"trigger", "copy"}) \cup {Outside}
        BY <2>0, <2>2 DEF Press
    <3>3. pointerDown' \in [Cards -> BOOLEAN]
        BY <2>2 DEF Press, Down
    <3>4. active' \in [Cards -> BOOLEAN] /\ copied' = copied /\ timers' = timers
      <4>1. active' \in [Cards -> BOOLEAN]
          BY <2>2 DEF Press, OpenAfterPointerDown, ClosesOnBlur
      <4> QED
          BY <2>2, <4>1 DEF Press
    <3> QED
        BY <3>1, <3>2, <3>3, <3>4
  <2>3. ASSUME NEW target \in Pressable, TabTo(target) PROVE Inv'
    <3>1. active' \in [Cards -> BOOLEAN]
        BY <2>3 DEF TabTo, ClosesOnBlur
    <3>2. focus' \in (Cards \X {"trigger", "copy"}) \cup {Outside}
        BY <2>0, <2>3 DEF TabTo
    <3> QED
        BY <2>3, <3>1, <3>2 DEF TabTo
  <2>4. CASE PressEnter
    <3>1. writes' \in [Cards -> Nat] /\ \A c \in Cards : writes'[c] + timers'[c] \in 0 .. MaxWrites
      <4>1. focus[1] \in Cards /\ Copies(focus) /\ copied' = copied /\ timers' = timers
          BY <2>4 DEF PressEnter
      <4> QED
          BY <2>1, <4>1
    <3>2. active' \in [Cards -> BOOLEAN]
        BY <2>4 DEF PressEnter
    <3> QED
        BY <2>4, <3>1, <3>2 DEF PressEnter
  <2>5. ASSUME NEW c \in Cards, PressEnds(c) PROVE Inv'
      BY <2>5 DEF PressEnds
  <2>6. ASSUME NEW c \in Cards, MarkEnds(c) PROVE Inv'
    <3>1. /\ timers[c] > 0 /\ timers' = [timers EXCEPT ![c] = @ - 1]
          /\ copied' = [copied EXCEPT ![c] = FALSE]
          /\ UNCHANGED <<active, focus, pointerDown, writes>>
        BY <2>6 DEF MarkEnds
    <3>2. ASSUME NEW d \in Cards
          PROVE  /\ timers'[d] \in Nat /\ writes'[d] + timers'[d] \in 0 .. MaxWrites
                 /\ copied'[d] => timers'[d] > 0
      <4>1. /\ timers[d] \in Nat /\ writes[d] \in Nat /\ writes[d] + timers[d] \in 0 .. MaxWrites
            /\ copied[d] => timers[d] > 0
          OBVIOUS
      <4>2. /\ timers'[d] = IF d = c THEN timers[d] - 1 ELSE timers[d]
            /\ copied'[d] = IF d = c THEN FALSE ELSE copied[d]
            /\ writes'[d] = writes[d]
          BY <3>1
      <4> QED
          BY <3>1, <4>1, <4>2
    <3>3. timers' \in [Cards -> Nat] /\ copied' \in [Cards -> BOOLEAN]
      <4>1. DOMAIN timers' = Cards /\ timers' = [d \in Cards |-> timers'[d]]
          BY <3>1
      <4> QED
          BY <3>1, <3>2, <4>1
    <3> QED
        BY <3>1, <3>2, <3>3
  <2>7. ASSUME NEW c \in Cards, NEW done \in BOOLEAN, WriteEnds(c, done) PROVE Inv'
    <3>1. /\ writes[c] > 0 /\ writes' = [writes EXCEPT ![c] = @ - 1]
          /\ copied' = [copied EXCEPT ![c] = done]
          /\ timers' = IF done THEN [timers EXCEPT ![c] = @ + 1] ELSE timers
          /\ UNCHANGED <<active, focus, pointerDown>>
        BY <2>7 DEF WriteEnds
    <3>2. ASSUME NEW d \in Cards
          PROVE  /\ timers'[d] \in Nat /\ writes'[d] \in Nat
                 /\ writes'[d] + timers'[d] \in 0 .. MaxWrites
                 /\ copied'[d] => timers'[d] > 0
      <4>1. /\ timers[d] \in Nat /\ writes[d] \in Nat /\ writes[d] + timers[d] \in 0 .. MaxWrites
            /\ copied[d] => timers[d] > 0
          OBVIOUS
      <4>2. /\ timers'[d] = IF d = c /\ done THEN timers[d] + 1 ELSE timers[d]
            /\ copied'[d] = IF d = c THEN done ELSE copied[d]
            /\ writes'[d] = IF d = c THEN writes[d] - 1 ELSE writes[d]
          BY <3>1
      <4> QED
          BY <3>1, <4>1, <4>2
    <3>3. /\ timers' \in [Cards -> Nat] /\ writes' \in [Cards -> Nat]
          /\ copied' \in [Cards -> BOOLEAN]
      <4>1. /\ timers' = [d \in Cards |-> timers'[d]] /\ writes' = [d \in Cards |-> writes'[d]]
            /\ copied' \in [Cards -> BOOLEAN]
          BY <3>1
      <4> QED
          BY <3>2, <4>1
    <3> QED
        BY <3>1, <3>2, <3>3
  <2>8. CASE UNCHANGED cardVars
      BY <2>8 DEF cardVars
  <2> QED
      BY <2>2, <2>3, <2>4, <2>5, <2>6, <2>7, <2>8 DEF CardNext
<1>3. Inv => CardTypeOK
    OBVIOUS
<1> QED
    BY <1>1, <1>2, <1>3, PTL DEF CardSpec

-----------------------------------------------------------------------------
(* The search.  The active match is one of those counted also while the      *)
(* trace is away, and open is kept of the rows that are shown.      *)
SearchInv ==
    /\ trace \in Traces
    /\ mounted \in BOOLEAN
    /\ matchCount \in Nat /\ matchIndex \in Nat
    /\ matchCount > 0 => matchIndex < matchCount
    /\ mounted => DOMAIN open = Keys(trace)
    /\ SearchRevealsMatches

(* Rows that match are rows, so there are finitely many. *)
LEMMA MatchesCounted ==
    ASSUME NEW t \in Traces, NEW lab, NEW q
    PROVE  Cardinality(Matching(t, lab, q)) \in Nat
<1>1. Matching(t, lab, q) \subseteq DOMAIN t /\ IsFiniteSet(DOMAIN t)
    BY SearchAssumption DEF Matching
<1> QED
    BY <1>1, FS_Subset, FS_CardinalityType

(* The rows that lead to a match are rows of the trace.                   *)
LEMMA LeadingAreRows == ASSUME NEW t, NEW lab, NEW q PROVE Leading(t, lab, q) \subseteq Keys(t)
BY DEF Leading, Keys

(* A row leads to a match only if there is a query. *)
LEMMA LeadingNeedsQuery == ASSUME NEW t, NEW lab PROVE Leading(t, lab, NoQuery) = {}
BY DEF Leading, Matching

(* What the effects leave: every row that leads to a match is open, or was   *)
(* closed by the user and has not looked again.                              *)
LEMMA SettleReveals ==
    ASSUME SearchInv, Settle, trace' \in Traces, mounted' \in BOOLEAN,
           mounted' => matchIndex' \in Nat
    PROVE  /\ mounted' => DOMAIN open' = Keys(trace)'
           /\ mounted' => \A key \in Leading(trace, labelling, query)' :
                            open'[key] \/ key \in hidden'
<1> DEFINE leads == Leading(trace, labelling, query)
           before(key) == IF mounted /\ key \in Keys(trace) THEN open[key]
                          ELSE Depth(trace', key) < expandDepth'
<1>1. mounted' => open' = [key \in Keys(trace') |->
                              IF RowLooksAgain(key) THEN RowOpens(key, before(key)) ELSE before(key)]
    BY DEF Settle
<1>2. ASSUME mounted', NEW key \in leads' PROVE open'[key] \/ key \in hidden'
  <2>1. key \in Keys(trace') /\ query' # NoQuery
      BY <1>2, LeadingAreRows, LeadingNeedsQuery
  <2>2. CASE RowLooksAgain(key)
      BY <1>1, <1>2, <2>1, <2>2 DEF RowOpens
  <2>3. CASE ~ RowLooksAgain(key)
    <3>1. mounted /\ key \in Keys(trace) /\ key \in leads /\ matchIndex' = matchIndex
        BY <1>2, <2>3 DEF RowLooksAgain
    <3>2. open[key] \/ key \in hidden
        BY <3>1 DEF SearchInv, SearchRevealsMatches
    <3>3. hidden' = hidden \cap leads' \cap leads
        BY <1>2, <3>1 DEF Settle
    <3> QED
        BY <1>1, <1>2, <2>1, <2>3, <3>1, <3>2, <3>3
  <2> QED
      BY <2>2, <2>3
<1> QED
    BY <1>1, <1>2

(* How many matches there are once the search has settled,                *)
LEMMA SettleCounts ==
    ASSUME SearchInv, Settle, trace' \in Traces
    PROVE  /\ matchCount' \in Nat
           /\ mounted' => matchCount' = Cardinality(Matching(trace', labelling', query'))
BY MatchesCounted DEF Settle, SearchInv

(* and that an active match within them stays.                            *)
LEMMA ClampKeeps ==
    ASSUME SearchInv, ClampIndex, Settle, trace' \in Traces
    PROVE  matchIndex' \in Nat /\ (matchCount' > 0 => matchIndex' < matchCount')
<1> DEFINE count == Cardinality(Matching(trace', labelling', query'))
<1>1. count \in Nat
    BY MatchesCounted
<1>2. matchCount' = IF mounted' THEN count ELSE matchCount
    BY DEF Settle
<1>3. matchIndex' = IF ~ mounted' \/ count = matchCount THEN matchIndex
                    ELSE IF count = 0 THEN 0 ELSE IF matchIndex < count - 1 THEN matchIndex ELSE count - 1
    BY DEF ClampIndex, Min2
<1> HIDE DEF count
<1> QED
    BY <1>1, <1>2, <1>3 DEF SearchInv

(* Every step keeps it.                                                   *)
LEMMA SearchInvInductive == SearchInv /\ [SearchNext]_searchVars => SearchInv'
<1> SUFFICES ASSUME SearchInv, [SearchNext]_searchVars PROVE SearchInv'
    OBVIOUS
<1>1. ASSUME trace' \in Traces, mounted' \in BOOLEAN, Settle, matchIndex' \in Nat,
             matchCount' > 0 => matchIndex' < matchCount'
      PROVE  SearchInv'
    BY <1>1, SettleReveals, SettleCounts DEF SearchInv, SearchRevealsMatches
<1>2. ASSUME NEW t \in Traces, NEW lab \in Labellings, ShowResponse(t, lab) PROVE SearchInv'
    BY <1>1, <1>2, ClampKeeps DEF ShowResponse
<1>3. ASSUME NEW lab \in Labellings, Relabel(lab) PROVE SearchInv'
    BY <1>1, <1>3, ClampKeeps DEF Relabel, SearchInv
<1>4. ASSUME NEW isTrace \in BOOLEAN, ChooseView(isTrace) PROVE SearchInv'
    BY <1>1, <1>4, ClampKeeps DEF ChooseView, SearchInv
<1>5. ASSUME NEW q \in Queries \cup {NoQuery}, Search(q) PROVE SearchInv'
  <2>1. trace' \in Traces /\ mounted' /\ mounted /\ Settle
      BY <1>5 DEF Search, SearchInv
  <2>2. matchCount' \in Nat /\ matchIndex' \in Nat
      BY <1>5, <2>1, SettleCounts DEF Search, SearchInv
  <2>3. q = query => matchCount' = matchCount
      BY <1>5, <2>1 DEF Search, Settle, SearchInv, SearchRevealsMatches
  <2>4. matchCount' > 0 => matchIndex' < matchCount'
      BY <1>5, <2>2, <2>3 DEF Search, SearchInv
  <2> QED
      BY <1>1, <2>1, <2>2, <2>4
<1>6. ASSUME NEW by \in Nat, Step(by) PROVE SearchInv'
  <2>1. trace' \in Traces /\ mounted' /\ mounted /\ Settle
      BY <1>6 DEF Step, SearchInv
  <2>2. matchCount' = matchCount
      BY <1>6, <2>1 DEF Step, Settle, SearchInv, SearchRevealsMatches
  <2>3. matchIndex' \in Nat /\ matchIndex' < matchCount
      BY <1>6 DEF Step, SearchInv
  <2> QED
      BY <1>1, <2>1, <2>2, <2>3
<1>7. ASSUME trace' = trace, labelling' = labelling, query' = query, mounted' = mounted, mounted,
             matchIndex' = matchIndex, Settle
      PROVE  SearchInv'
  <2>1. matchCount' = matchCount
      BY <1>7 DEF Settle, SearchInv, SearchRevealsMatches
  <2> QED
      BY <1>1, <1>7, <2>1 DEF SearchInv
<1>8. ASSUME NEW d, SetDepth(d) PROVE SearchInv'
    BY <1>7, <1>8 DEF SetDepth
<1>9. ASSUME NEW m, SetMode(m) PROVE SearchInv'
    BY <1>7, <1>9 DEF SetMode
<1>10. ASSUME NEW key \in Inner(trace), ToggleRow(key) PROVE SearchInv'
  <2>1. UNCHANGED <<trace, labelling, mounted, query, matchCount, matchIndex>> /\ mounted
      BY <1>10 DEF ToggleRow
  <2>2. DOMAIN open' = Keys(trace)
      BY <1>10, <2>1 DEF ToggleRow, SearchInv
  <2>3. ASSUME NEW other \in Leading(trace, labelling, query) PROVE open'[other] \/ other \in hidden'
    <3>1. other \in Keys(trace) /\ (open[other] \/ other \in hidden)
        BY <2>1, <2>3, LeadingAreRows DEF SearchInv, SearchRevealsMatches
    <3> QED
        BY <1>10, <2>1, <2>3, <3>1 DEF ToggleRow, SearchInv
  <2> QED
      BY <2>1, <2>2, <2>3 DEF SearchInv, SearchRevealsMatches
<1>11. CASE UNCHANGED searchVars
    BY <1>11 DEF searchVars, SearchInv, SearchRevealsMatches
<1>12. CASE PreviousMatch \/ NextMatch
  <2>1. CASE PreviousMatch
    <3>1. matchCount - 1 \in Nat
        BY <2>1 DEF PreviousMatch, Step, SearchInv
    <3> QED
        BY <1>6, <2>1, <3>1 DEF PreviousMatch
  <2> QED
      BY <1>6, <1>12, <2>1 DEF NextMatch
<1> QED
    BY <1>2, <1>3, <1>4, <1>5, <1>8, <1>9, <1>10, <1>11, <1>12 DEF SearchNext

(* The first trace, of no rows, has no matches.                              *)
LEMMA SearchInitially == SearchInit => SearchInv
<1> SUFFICES ASSUME SearchInit PROVE SearchInv
    OBVIOUS
<1>1. Keys(trace) = {} /\ Matching(trace, labelling, query) = {}
    BY DEF SearchInit, Keys, Matching
<1>2. Leading(trace, labelling, query) = {}
    BY <1>1 DEF Leading
<1>3. Cardinality(Matching(trace, labelling, query)) = 0
    BY <1>1, FS_EmptySet
<1>4. DOMAIN open = Keys(trace)
    BY <1>1 DEF SearchInit
<1> QED
    BY <1>2, <1>3, <1>4, SearchAssumption DEF SearchInit, SearchInv, SearchRevealsMatches

(* While the trace is shown, the matches are counted, the active one is one  *)
(* of them, and no row hides a match but those the user has closed           *)
(* (TraceTree.tsx, OutputPanel.tsx): for all traces, labels and queries.     *)
THEOREM SearchAlwaysReveals == SearchSpec => []SearchRevealsMatches
<1>1. SearchInv => SearchRevealsMatches
    BY DEF SearchInv
<1> QED
    BY <1>1, SearchInitially, SearchInvInductive, PTL DEF SearchSpec

(* What the effects leave of the rows is open or closed, and the active      *)
(* match is one of those counted, or the first of none.                      *)
LEMMA SettleTypes ==
    ASSUME SearchInv, SearchTypeOK, Settle, mounted' \in BOOLEAN
    PROVE  open' \in IF mounted' THEN [Keys(trace') -> BOOLEAN] ELSE {<<>>}
<1> DEFINE before == [key \in Keys(trace') |->
                        IF mounted /\ key \in Keys(trace) THEN open[key]
                        ELSE Depth(trace', key) < expandDepth']
<1>1. open' = IF ~ mounted' THEN <<>>
              ELSE [key \in Keys(trace') |->
                      IF RowLooksAgain(key) THEN RowOpens(key, before[key]) ELSE before[key]]
    BY DEF Settle
<1>2. ASSUME NEW key \in Keys(trace') PROVE before[key] \in BOOLEAN
  <2>1. mounted /\ key \in Keys(trace) => open[key] \in BOOLEAN
      BY DEF SearchTypeOK
  <2>2. (Depth(trace', key) < expandDepth') \in BOOLEAN
      OBVIOUS
  <2>3. before[key] = IF mounted /\ key \in Keys(trace) THEN open[key]
                      ELSE Depth(trace', key) < expandDepth'
      OBVIOUS
  <2>4. CASE mounted /\ key \in Keys(trace)
      BY <2>1, <2>3, <2>4
  <2>5. CASE ~ (mounted /\ key \in Keys(trace))
      BY <2>2, <2>3, <2>5
  <2> QED
      BY <2>4, <2>5
<1> HIDE DEF before
<1>3. ASSUME NEW key \in Keys(trace') PROVE RowOpens(key, before[key]) \in BOOLEAN
    BY <1>2 DEF RowOpens
<1> QED
    BY <1>1, <1>2, <1>3

(* What the search shows has its types, and the active match is never past   *)
(* the number of matches (TraceTree.tsx, OutputPanel.tsx).                   *)
THEOREM SearchTypeCorrect == SearchSpec => []SearchTypeOK
<1>1. SearchSpec => []SearchInv
    BY SearchInitially, SearchInvInductive, PTL DEF SearchSpec
<1>2. SearchInit => SearchTypeOK
    BY SearchAssumption DEF SearchInit, SearchTypeOK, Keys
<1>3. SearchTypeOK /\ SearchInv /\ SearchInv' /\ [SearchNext]_searchVars => SearchTypeOK'
  <2> SUFFICES ASSUME SearchTypeOK, SearchInv, SearchInv', [SearchNext]_searchVars
               PROVE  SearchTypeOK'
      OBVIOUS
  <2>0. trace' \in Traces /\ mounted' \in BOOLEAN /\ matchCount' \in Nat /\ matchIndex' \in Nat
        /\ (matchCount' > 0 => matchIndex' < matchCount')
      BY DEF SearchInv
  <2>1. ASSUME labelling' \in Labellings, mode' \in {"depth", "expand", "collapse"},
               expandDepth' \in 0 .. DepthLimit, query' \in Queries \cup {NoQuery}, Settle,
               matchCount' = 0 => matchIndex' = 0
        PROVE  SearchTypeOK'
      BY <2>0, <2>1, SettleTypes DEF SearchTypeOK
  <2>2. ASSUME ClampIndex, Settle PROVE matchCount' = 0 => matchIndex' = 0
    <3>1. matchCount' = IF mounted' THEN Cardinality(Matching(trace', labelling', query'))
                        ELSE matchCount
        BY <2>2 DEF Settle
    <3>2. matchCount = 0 => matchIndex = 0
        BY DEF SearchTypeOK, SearchInv
    <3> QED
        BY <2>2, <3>1, <3>2 DEF ClampIndex
  <2>3. ASSUME trace' = trace, labelling' = labelling, query' = query, mounted' = mounted, mounted, Settle
        PROVE  matchCount' = matchCount
      BY <2>3 DEF Settle, SearchInv, SearchRevealsMatches
  <2>a. matchCount = 0 => matchIndex = 0
      BY DEF SearchTypeOK, SearchInv
  <2>4. ASSUME NEW t \in Traces, NEW lab \in Labellings, ShowResponse(t, lab) PROVE SearchTypeOK'
      BY <2>1, <2>2, <2>4 DEF ShowResponse, SearchTypeOK
  <2>5. ASSUME NEW lab \in Labellings, Relabel(lab) PROVE SearchTypeOK'
      BY <2>1, <2>2, <2>5 DEF Relabel, SearchTypeOK
  <2>6. ASSUME NEW isTrace \in BOOLEAN, ChooseView(isTrace) PROVE SearchTypeOK'
      BY <2>1, <2>2, <2>6 DEF ChooseView, SearchTypeOK
  <2>7. ASSUME NEW q \in Queries \cup {NoQuery}, Search(q) PROVE SearchTypeOK'
    <3>1. matchCount' = 0 => matchIndex' = 0
        BY <2>3, <2>7, <2>a DEF Search
    <3> QED
        BY <2>1, <2>7, <3>1 DEF Search, SearchTypeOK
  <2>8. ASSUME NEW by \in Nat, Step(by) PROVE SearchTypeOK'
    <3>1. matchCount' = matchCount /\ matchCount # 0
        BY <2>3, <2>8 DEF Step
    <3> QED
        BY <2>1, <2>8, <3>1 DEF Step, SearchTypeOK
  <2>9. ASSUME NEW d \in -1 .. DepthLimit + 1, SetDepth(d) PROVE SearchTypeOK'
    <3>1. ClampDepth(d) \in 0 .. DepthLimit
        BY SearchAssumption DEF ClampDepth, Min2
    <3>2. matchCount' = 0 => matchIndex' = 0
        BY <2>3, <2>9, <2>a DEF SetDepth
    <3> QED
        BY <2>1, <2>9, <3>1, <3>2 DEF SetDepth, SearchTypeOK
  <2>10. ASSUME NEW m \in {"expand", "collapse"}, SetMode(m) PROVE SearchTypeOK'
    <3>1. matchCount' = 0 => matchIndex' = 0
        BY <2>3, <2>10, <2>a DEF SetMode
    <3> QED
        BY <2>1, <2>10, <3>1 DEF SetMode, SearchTypeOK
  <2>11. ASSUME NEW key \in Inner(trace), ToggleRow(key) PROVE SearchTypeOK'
    <3>1. open' \in [Keys(trace) -> BOOLEAN]
        BY <2>11 DEF ToggleRow, SearchTypeOK
    <3> QED
        BY <2>11, <3>1 DEF ToggleRow, SearchTypeOK
  <2>12. CASE UNCHANGED searchVars
      BY <2>12 DEF searchVars, SearchTypeOK
  <2>13. CASE PreviousMatch \/ NextMatch
    <3>1. CASE PreviousMatch
      <4>1. matchCount - 1 \in Nat
          BY <3>1 DEF PreviousMatch, Step, SearchInv
      <4> QED
          BY <2>8, <3>1, <4>1 DEF PreviousMatch
    <3> QED
        BY <2>8, <2>13, <3>1 DEF NextMatch
  <2> QED
      BY <2>4, <2>5, <2>6, <2>7, <2>9, <2>10, <2>11, <2>12, <2>13 DEF SearchNext
<1> QED
    BY <1>1, <1>2, <1>3, PTL DEF SearchSpec

-----------------------------------------------------------------------------
(* The rows of the form. *)

(* Trim cuts all there is to cut. *)
LEMMA TrimTwice ==
  \A t \in Texts : Trim(t) \in Texts /\ Trim(Trim(t)) = Trim(t)
<1> SUFFICES ASSUME NEW t \in Texts PROVE Trim(t) \in Texts /\ Trim(Trim(t)) = Trim(t)
  OBVIOUS
<1>1. CASE t = " v "
  BY <1>1 DEF Trim, Texts
<1>2. CASE t = " "
  BY <1>2 DEF Trim, Texts
<1>3. CASE t # " v " /\ t # " "
  BY <1>3 DEF Trim
<1> QED
  BY <1>1, <1>2, <1>3

(* One row of compactRows on the rows kept so far. *)
Compact(rows, i, before) ==
    IF HasAnyValue(TrimmedRow(rows[i])) THEN Append(before, TrimmedRow(rows[i])) ELSE before

(* compactRows is well defined. *)
LEMMA RowsCompacted ==
  ASSUME NEW C, NEW rows \in Seq([C -> Texts])
  PROVE  /\ Compacted(rows) \in [0 .. Len(rows) -> Seq([C -> Texts])]
         /\ \A i \in 0 .. Len(rows) :
               Compacted(rows)[i] =
                  IF i = 0 THEN <<>> ELSE Compact(rows, i, Compacted(rows)[i - 1])
<1> DEFINE n == Len(rows)
           R == [C -> Texts]
           Kept == Seq(R)
           step == [q \in (1 .. n) \X Kept |-> Compact(rows, q[1], q[2])]
           Fits(f) == f = [i \in 0 .. n |-> IF i = 0 THEN <<>>
                                            ELSE Compact(rows, i, f[i - 1])]
<1>1. n \in Nat /\ <<>> \in Kept
  OBVIOUS
<1>b. \A i \in 1 .. n, before \in Kept : Compact(rows, i, before) \in Kept
  <2> SUFFICES ASSUME NEW i \in 1 .. n, NEW before \in Kept
               PROVE  Compact(rows, i, before) \in Kept
    OBVIOUS
  <2>1. rows[i] \in R
    OBVIOUS
  <2>2. TrimmedRow(rows[i]) \in R
    BY <2>1, TrimTwice DEF TrimmedRow
  <2> HIDE DEF R
  <2> QED
    BY <2>2 DEF Compact
<1>2. \A i \in 1 .. n, before \in Kept :
         step[<<i, before>>] = Compact(rows, i, before)
  <2> HIDE DEF n, Kept
  <2> QED
    OBVIOUS
<1>3. \A i \in 1 .. n, before \in Kept : step[<<i, before>>] \in Kept
  BY <1>b, <1>2
<1>a. n = Len(rows) /\ Kept = Seq([C -> Texts])
  OBVIOUS
<1> HIDE DEF n, step, Kept, R
<1>4. PICK f : AreRounds(f, n, Kept, <<>>, step)
  BY <1>1, <1>3, RoundsExist
<1>5. ASSUME NEW i \in 0 .. n
      PROVE  f[i] = IF i = 0 THEN <<>> ELSE Compact(rows, i, f[i - 1])
  <2>1. CASE i = 0
    BY <1>4, <2>1 DEF AreRounds
  <2>2. CASE i # 0
    <3>1. i - 1 \in 0 .. n /\ i \in 1 .. n
      BY <1>1, <2>2
    <3>2. f[i - 1] \in Kept /\ f[i] = step[<<i, f[i - 1]>>]
      BY <1>4, <2>2, <3>1 DEF AreRounds
    <3> QED
      BY <1>2, <2>2, <3>1, <3>2
  <2> QED
    BY <2>1, <2>2
<1>6. Fits(f)
  BY <1>4, <1>5 DEF AreRounds
<1>7. Compacted(rows) = CHOOSE g : Fits(g)
  BY <1>a DEF Compacted, Compact
<1>8. Fits(Compacted(rows))
  <2> HIDE DEF Fits
  <2> QED
    BY <1>6, <1>7
<1> DEFINE kept == Compacted(rows)
           Good == {i \in 0 .. n : kept[i] \in Kept}
<1>9. kept = [i \in 0 .. n |-> IF i = 0 THEN <<>> ELSE Compact(rows, i, kept[i - 1])]
  BY <1>8
<1> HIDE DEF kept
<1>10. \A i \in 0 .. n : kept[i] = IF i = 0 THEN <<>> ELSE Compact(rows, i, kept[i - 1])
  BY <1>9
<1>11. 0 \in Good
  <2>1. 0 \in 0 .. n
    BY <1>1
  <2>2. kept[0] = <<>>
    BY <1>10, <2>1
  <2> QED
    BY <1>1, <2>1, <2>2
<1>12. ASSUME NEW i \in 1 .. n, i - 1 \in Good PROVE i \in Good
  <2>1. kept[i] = Compact(rows, i, kept[i - 1]) /\ i \in 0 .. n
    BY <1>10, <1>1
  <2>2. Compact(rows, i, kept[i - 1]) \in Kept
    BY <1>b, <1>12
  <2> QED
    BY <2>1, <2>2
<1>13. \A i \in 0 .. n : i \in Good
  <2> HIDE DEF Good
  <2> QED
    BY <1>1, <1>11, <1>12, RoundsInduction
<1>14. kept \in [0 .. n -> Kept]
  BY <1>9, <1>13
<1> QED
  BY <1>a, <1>10, <1>14 DEF kept

(* Rows that compactRows has nothing to do for. *)
Tidy(rows) ==
    \A i \in 1 .. Len(rows) : HasAnyValue(rows[i]) /\ TrimmedRow(rows[i]) = rows[i]

(* compactRows leaves such rows, *)
LEMMA CompactIsTidy ==
  ASSUME NEW C, NEW rows \in Seq([C -> Texts])
  PROVE  CompactRows(rows) \in Seq([C -> Texts]) /\ Tidy(CompactRows(rows))
<1> DEFINE n == Len(rows)
           R == [C -> Texts]
           kept == Compacted(rows)
           Good == {i \in 0 .. n : Tidy(kept[i])}
<1>1. n \in Nat /\ \A i \in 1 .. n : rows[i] \in R
  OBVIOUS
<1>a. \A i \in 0 .. n : kept[i] = IF i = 0 THEN <<>> ELSE Compact(rows, i, kept[i - 1])
  BY RowsCompacted
<1>2. kept[0] = <<>> /\ \A i \in 1 .. n : kept[i] = Compact(rows, i, kept[i - 1])
  <2> HIDE DEF kept, n
  <2>1. 0 \in 0 .. n /\ \A i \in 1 .. n : i \in 0 .. n /\ i # 0
    BY <1>1
  <2> QED
    BY <1>a, <2>1
<1>3. \A i \in 0 .. n : kept[i] \in Seq(R)
  BY RowsCompacted
<1>4. n = Len(rows)
  OBVIOUS
<1>5. \A row \in R : TrimmedRow(row) \in R /\ TrimmedRow(TrimmedRow(row)) = TrimmedRow(row)
  BY TrimTwice DEF TrimmedRow
<1>6. Tidy(<<>>)
  BY DEF Tidy
<1> HIDE DEF kept, n, R
<1>7. 0 \in Good
  BY <1>1, <1>2, <1>6
<1>8. ASSUME NEW i \in 1 .. n, i - 1 \in Good PROVE i \in Good
  <2>1. CASE ~ HasAnyValue(TrimmedRow(rows[i]))
    <3>1. kept[i] = kept[i - 1] /\ i \in 0 .. n
      BY <1>1, <1>2, <2>1 DEF Compact
    <3> QED
      BY <1>8, <3>1
  <2>2. CASE HasAnyValue(TrimmedRow(rows[i]))
    <3> DEFINE row == TrimmedRow(rows[i])
               u == kept[i - 1]
    <3>a. i \in 0 .. n /\ i - 1 \in 0 .. n
      BY <1>1
    <3>1. /\ kept[i] = Append(u, row) /\ i \in 0 .. n /\ Tidy(u) /\ u \in Seq(R)
      BY <1>2, <1>3, <1>8, <2>2, <3>a DEF Compact
    <3>2. row \in R /\ TrimmedRow(row) = row /\ HasAnyValue(row)
      BY <1>1, <1>5, <2>2
    <3> HIDE DEF row, u
    <3>3. Tidy(Append(u, row))
      BY <3>1, <3>2 DEF Tidy
    <3> QED
      BY <3>1, <3>3
  <2> QED
    BY <2>1, <2>2
<1>9. \A i \in 0 .. n : i \in Good
  <2> HIDE DEF Good
  <2> QED
    BY <1>1, <1>7, <1>8, RoundsInduction
<1>10. n \in 0 .. n
  BY <1>1
<1>11. Tidy(kept[n]) /\ kept[n] \in Seq(R)
  BY <1>3, <1>9, <1>10
<1> QED
  BY <1>4, <1>11 DEF CompactRows, kept, R

(* and leaves them alone. *)
LEMMA TidyStays ==
  ASSUME NEW C, NEW rows \in Seq([C -> Texts]), Tidy(rows)
  PROVE  CompactRows(rows) = rows
<1> DEFINE n == Len(rows)
           R == [C -> Texts]
           kept == Compacted(rows)
           Good == {i \in 0 .. n : kept[i] = SubSeq(rows, 1, i)}
<1>1. n \in Nat /\ rows \in Seq(R) /\ n = Len(rows)
  OBVIOUS
<1>a. \A i \in 0 .. n : kept[i] = IF i = 0 THEN <<>> ELSE Compact(rows, i, kept[i - 1])
  BY RowsCompacted
<1>2. kept[0] = <<>> /\ \A i \in 1 .. n : kept[i] = Compact(rows, i, kept[i - 1])
  <2> HIDE DEF kept, n
  <2>1. 0 \in 0 .. n /\ \A i \in 1 .. n : i \in 0 .. n /\ i # 0
    BY <1>1
  <2> QED
    BY <1>a, <2>1
<1>3. \A i \in 1 .. n : HasAnyValue(rows[i]) /\ TrimmedRow(rows[i]) = rows[i]
  BY DEF Tidy
<1> HIDE DEF kept, n, R
<1>4. 0 \in Good
  <2>1. SubSeq(rows, 1, 0) = <<>>
    BY SubSeqEmpty
  <2>2. 0 \in 0 .. n
    BY <1>1
  <2> QED
    BY <1>2, <2>1, <2>2
<1>5. ASSUME NEW i \in 1 .. n, i - 1 \in Good PROVE i \in Good
  <2>1. kept[i] = Append(SubSeq(rows, 1, i - 1), rows[i])
    BY <1>2, <1>3, <1>5 DEF Compact
  <2>2. Append(SubSeq(rows, 1, i - 1), rows[i]) = SubSeq(rows, 1, i)
    <3>1. SubSeq(rows, 1, i) = SubSeq(rows, 1, i - 1) \o <<rows[i]>>
      BY <1>1, SubSeqRecursiveSecond
    <3>2. SubSeq(rows, 1, i - 1) \in Seq(R) /\ rows[i] \in R
      BY <1>1, SubSeqProperties
    <3> QED
      BY <3>1, <3>2, AppendIsConcat
  <2>3. i \in 0 .. n
    BY <1>1
  <2> QED
    BY <2>1, <2>2, <2>3
<1>6. \A i \in 0 .. n : i \in Good
  <2> HIDE DEF Good
  <2> QED
    BY <1>1, <1>4, <1>5, RoundsInduction
<1>7. kept[n] = SubSeq(rows, 1, n)
  BY <1>1, <1>6
<1>8. SubSeq(rows, 1, n) = rows
  BY <1>1
<1> QED
  BY <1>1, <1>7, <1>8 DEF CompactRows, kept

-----------------------------------------------------------------------------
(* The request of a form, and the form of a request. *)

(* The groups of rows.                                                    *)
LEMMA GroupNames ==
  Groups = {"labelOverrides", "erc20BalanceOverrides", "erc20ApprovalOverrides",
            "erc721ApprovalOverrides"}
BY DEF Groups, Columns

(* A record of rows is a function of the groups. *)
LEMMA RowGroupsGiven ==
  ASSUME NEW rows \in RowGroups
  PROVE  rows = [g \in Groups |-> rows[g]] /\ \A g \in Groups : rows[g] \in RowsOf(g)
BY GroupNames DEF RowGroups

(* and such a function is one.                                            *)
LEMMA RowGroupsMade ==
  ASSUME NEW rows, rows = [g \in Groups |-> rows[g]],
         \A g \in Groups : rows[g] \in RowsOf(g)
  PROVE  rows \in RowGroups
<1>1. rows = [labelOverrides |-> rows["labelOverrides"],
              erc20BalanceOverrides |-> rows["erc20BalanceOverrides"],
              erc20ApprovalOverrides |-> rows["erc20ApprovalOverrides"],
              erc721ApprovalOverrides |-> rows["erc721ApprovalOverrides"]]
  BY GroupNames
<1> QED
  BY <1>1, GroupNames DEF RowGroups

(* withSenderLabel labels tidy rows tidily, and does not label again. *)
LEMMA SenderLabelled ==
  ASSUME NEW sender \in Texts, NEW labels \in RowsOf("labelOverrides"), Tidy(labels)
  PROVE  /\ WithSenderLabel(sender, labels) \in RowsOf("labelOverrides")
         /\ Tidy(WithSenderLabel(sender, labels))
         /\ WithSenderLabel(Trim(sender), WithSenderLabel(sender, labels)) =
                WithSenderLabel(sender, labels)
<1> DEFINE account == Trim(sender)
           row == [account |-> account, label |-> "Sender"]
           R == [{"account", "label"} -> Texts]
<1>1. Trim(account) = account /\ account \in Texts
  BY TrimTwice
<1>2. RowsOf("labelOverrides") = Seq(R)
  BY DEF RowsOf, Columns
<1>3. CASE account \notin Proper \/ \E i \in DOMAIN labels : labels[i].account = account
  <2>1. WithSenderLabel(sender, labels) = labels
    BY <1>3 DEF WithSenderLabel
  <2>2. WithSenderLabel(account, labels) = labels
    BY <1>1, <1>3 DEF WithSenderLabel
  <2> QED
    BY <2>1, <2>2
<1>4. CASE account \in Proper /\ \A i \in DOMAIN labels : labels[i].account # account
  <2>1. WithSenderLabel(sender, labels) = <<row>> \o labels
    BY <1>4 DEF WithSenderLabel
  <2>2. row \in R /\ row.account = account /\ HasAnyValue(row) /\ TrimmedRow(row) = row
    <3>a. row = [c \in {"account", "label"} |-> IF c = "account" THEN account ELSE "Sender"]
      OBVIOUS
    <3>b. "Sender" \in Texts
      BY DEF Texts
    <3>1. row \in R /\ row.account = account /\ row.label = "Sender"
      BY <1>1, <3>a, <3>b
    <3>2. DOMAIN row = {"account", "label"}
      OBVIOUS
    <3>3. HasAnyValue(row)
      BY <3>1, <3>2 DEF HasAnyValue
    <3>4. Trim("Sender") = "Sender"
      BY DEF Trim
    <3>5. TrimmedRow(row) = row
      BY <1>1, <3>1, <3>2, <3>4 DEF TrimmedRow
    <3> QED
      BY <3>1, <3>3, <3>5
  <2> HIDE DEF row, R
  <2> DEFINE l == <<row>> \o labels
  <2>3. labels \in Seq(R)
    BY <1>2
  <2>4. /\ l \in Seq(R) /\ Len(l) = 1 + Len(labels) /\ l[1] = row
        /\ \A i \in 2 .. Len(l) : i - 1 \in 1 .. Len(labels) /\ l[i] = labels[i - 1]
    BY <2>2, <2>3
  <2>5. Tidy(l)
    <3> SUFFICES ASSUME NEW i \in 1 .. Len(l)
                 PROVE  HasAnyValue(l[i]) /\ TrimmedRow(l[i]) = l[i]
      BY DEF Tidy
    <3> HIDE DEF l
    <3>1. CASE i = 1
      BY <2>2, <2>4, <3>1
    <3>2. CASE i # 1
      <4>1. i - 1 \in 1 .. Len(labels) /\ l[i] = labels[i - 1]
        BY <2>3, <2>4, <3>2
      <4> QED
        BY <4>1 DEF Tidy
    <3> QED
      BY <3>1, <3>2
  <2>6. 1 \in DOMAIN l /\ l[1].account = account
    BY <2>2, <2>3, <2>4
  <2> HIDE DEF l
  <2>7. WithSenderLabel(account, l) = l
    BY <1>1, <2>6 DEF WithSenderLabel
  <2> QED
    BY <1>2, <2>1, <2>4, <2>5, <2>7 DEF l
<1> QED
  BY <1>3, <1>4

(* The rows of a request are tidy. *)
LEMMA SentRowsTidy ==
  ASSUME NEW f \in Forms, NEW g \in Groups
  PROVE  SentRows(f, g) \in RowsOf(g) /\ Tidy(SentRows(f, g))
<1>1. f.rows[g] \in Seq([Columns[g] -> Texts])
  BY RowGroupsGiven DEF Forms, RowsOf
<1>2. CompactRows(f.rows[g]) \in RowsOf(g) /\ Tidy(CompactRows(f.rows[g]))
  BY <1>1, CompactIsTidy DEF RowsOf
<1>3. f.text.sender \in Texts
  BY DEF Forms, TextFields
<1>4. CASE g = "labelOverrides"
  BY <1>2, <1>3, <1>4, SenderLabelled DEF SentRows
<1>5. CASE g # "labelOverrides"
  BY <1>2, <1>5 DEF SentRows
<1> QED
  BY <1>4, <1>5

(* The texts of a request are texts. *)
LEMMA SentTextTyped ==
  ASSUME NEW f \in Forms, NEW x \in TextFields \ {"txHash"}
  PROVE  SentText(f, x) \in Texts
<1>1. \A y \in TextFields : f.text[y] \in Texts /\ Trim(f.text[y]) \in Texts
  BY TrimTwice DEF Forms
<1>2. {"blockNumber", "data", "stateSource", "stateContractName"} \subseteq TextFields
  BY DEF TextFields
<1>3. "" \in Texts /\ "0x" \in Texts
  BY DEF Texts
<1>4. CASE x = "blockNumber"
  BY <1>1, <1>2, <1>3, <1>4 DEF SentText, BlockSent
<1>5. CASE x = "data"
  BY <1>1, <1>2, <1>3, <1>5 DEF SentText
<1>6. CASE x = "stateSource"
  BY <1>1, <1>2, <1>3, <1>6 DEF SentText
<1>7. CASE x = "stateContractName"
  BY <1>1, <1>2, <1>3, <1>7 DEF SentText
<1>8. CASE x \notin {"blockNumber", "data", "stateSource", "stateContractName"}
  BY <1>1, <1>8 DEF SentText
<1> QED
  BY <1>4, <1>5, <1>6, <1>7, <1>8

(* What a form sends is a request, or nothing. *)
LEMMA BuiltRequests ==
  ASSUME NEW f \in Forms
  PROVE  /\ SimulationRequest(f) \in SimulationRequests
         /\ BuildRunRequest(f) # Refused => BuildRunRequest(f) \in Requests
<1>1. SimulationRequest(f) \in SimulationRequests
  <2>1. f.chain \in Chains
    BY DEF Forms
  <2>2. [x \in TextFields \ {"txHash"} |-> SentText(f, x)]
          \in [TextFields \ {"txHash"} -> Texts]
    BY SentTextTyped
  <2>3. [x \in FlagFields \ {"useLatestBlock", "quick"} |-> SentFlag(f, x)]
          \in [FlagFields \ {"useLatestBlock", "quick"} -> Flags]
    BY DEF SentFlag, Sides, Flags
  <2>4. [g \in Groups |-> SentRows(f, g)] \in RowGroups
    BY SentRowsTidy, RowGroupsMade
  <2> QED
    BY <2>1, <2>2, <2>3, <2>4 DEF SimulationRequest, SimulationRequests
<1>2. ASSUME BuildTxRequest(f) # Refused PROVE BuildTxRequest(f) \in TxRequests
  <2>1. f.chain \in Chains /\ f.text.txHash \in Texts
    BY DEF Forms, TextFields
  <2>2. Trim(f.text.txHash) \in Texts
    BY <2>1, TrimTwice
  <2> QED
    BY <1>2, <2>1, <2>2 DEF BuildTxRequest, TxRequests, Sides, Flags
<1> QED
  BY <1>1, <1>2 DEF BuildRunRequest, BuildSimulationRequest, Requests

(* A request is one still when it comes back from its record.             *)
LEMMA StoredRequests ==
  ASSUME NEW r \in Requests
  PROVE  AsStored(r) \in Requests
<1>1. CASE r \in SimulationRequests
  <2>1. "w" \in Texts /\ "blockNumber" \in TextFields \ {"txHash"}
    BY DEF Texts, TextFields
  <2> QED
    BY <1>1, <2>1 DEF AsStored, SimulationRequests, Requests
<1>2. CASE r \in TxRequests
  BY <1>2 DEF AsStored, TxRequests, Requests
<1> QED
  BY <1>1, <1>2 DEF Requests

(* The form of a fresh window is a form.                                  *)
LEMMA DefaultForms ==
  ASSUME NEW url \in Urls
  PROVE  Defaults(url) \in Forms
<1>1. [x \in TextFields |-> ""] \in [TextFields -> Texts]
  BY DEF Texts
<1>2. [x \in FlagFields |-> x \in {"viaIR", "optimize"}] \in [FlagFields -> BOOLEAN]
  OBVIOUS
<1>3. [g \in Groups |-> <<>>] \in RowGroups
  <2> DEFINE none == [g \in Groups |-> <<>>]
  <2>1. \A g \in Groups : none[g] \in RowsOf(g)
    BY DEF RowsOf
  <2>2. none = [g \in Groups |-> none[g]]
    OBVIOUS
  <2> HIDE DEF none
  <2>3. none \in RowGroups
    BY <2>1, <2>2, RowGroupsMade
  <2> QED
    BY <2>3 DEF none
<1>4. "mainnet" \in Chains
  BY DEF Chains
<1> QED
  BY <1>1, <1>2, <1>3, <1>4 DEF Defaults, Forms

(* The form a request opens as is a form. *)
LEMMA OpenedForms ==
  ASSUME NEW r \in Requests, NEW url \in Urls
  PROVE  FormFromRecord(r, url) \in Forms
<1>1. Defaults(url) \in Forms
  BY DefaultForms
<1>2. \A x \in FlagFields : \A v : FlagOpened(x, v) \in BOOLEAN
  <2> SUFFICES ASSUME NEW x \in FlagFields, NEW v PROVE FlagOpened(x, v) \in BOOLEAN
    OBVIOUS
  <2> DEFINE flags == [y \in FlagFields |-> y \in {"viaIR", "optimize"}]
  <2>1. flags \in [FlagFields -> BOOLEAN]
    OBVIOUS
  <2>2. Defaults("").flags = flags
    BY DEF Defaults
  <2> HIDE DEF flags
  <2>3. Defaults("").flags[x] \in BOOLEAN
    BY <2>1, <2>2
  <2>4. CASE v = "none"
    BY <2>3, <2>4 DEF FlagOpened
  <2>5. CASE v # "none"
    BY <2>5 DEF FlagOpened
  <2> QED
    BY <2>4, <2>5
<1>3. CASE r \in SimulationRequests
  <2> DEFINE text == [x \in TextFields |-> IF x = "txHash" THEN "" ELSE r.text[x]]
             flags == [x \in FlagFields |->
                 CASE x = "useLatestBlock" -> r.text.blockNumber = ""
                   [] x = "quick" -> FALSE
                   [] OTHER -> FlagOpened(x, r.flags[x])]
  <2>1. text \in [TextFields -> Texts]
    BY <1>3 DEF SimulationRequests, Texts
  <2>2. flags \in [FlagFields -> BOOLEAN]
    BY <1>2
  <2>3. r.chain \in Chains /\ r.rows \in RowGroups /\ r.kind = "simulation"
    BY <1>3 DEF SimulationRequests
  <2>4. FormFromRecord(r, url) =
          [Defaults(url) EXCEPT !.chain = r.chain, !.text = text, !.flags = flags, !.rows = r.rows]
    BY <2>3 DEF FormFromRecord, FormFromSimulationRequest
  <2> HIDE DEF text, flags
  <2> QED
    BY <1>1, <2>1, <2>2, <2>3, <2>4 DEF Forms
<1>4. CASE r \in TxRequests
  <2>1. /\ r.kind = "tx" /\ r.chain \in Chains /\ r.text.txHash \in Texts
        /\ "txHash" \in TextFields /\ {"decodeInternal", "quick"} \subseteq FlagFields
    BY <1>4 DEF TxRequests, TextFields, FlagFields
  <2> QED
    BY <1>1, <1>2, <2>1 DEF FormFromRecord, FormFromTxRequest, Forms
<1> QED
  BY <1>3, <1>4 DEF Requests

-----------------------------------------------------------------------------
(* A request that a form sent opens as a form that sends it. *)

(* The texts of a request that was built are as a form sends them. *)
Settled(text) ==
    /\ text \in [TextFields \ {"txHash"} -> Texts]
    /\ \A x \in TextFields \ {"txHash", "stateSource"} : Trim(text[x]) = text[x]
    /\ text["data"] # ""
    /\ Blank(text["stateSource"]) =>
          text["stateSource"] = "" /\ text["stateContractName"] = ""

(* The texts of a request are settled: trimming them again changes nothing. *)
LEMMA SentTextsSettled ==
  ASSUME NEW f \in Forms
  PROVE  Settled(SimulationRequest(f).text)
<1> DEFINE text == SimulationRequest(f).text
<1>1. /\ text \in [TextFields \ {"txHash"} -> Texts]
      /\ \A x \in TextFields \ {"txHash"} : text[x] = SentText(f, x)
  BY SentTextTyped DEF SimulationRequest
<1>2. /\ \A y \in TextFields : Trim(f.text[y]) \in Texts /\ Trim(Trim(f.text[y])) = Trim(f.text[y])
  BY TrimTwice DEF Forms
<1>3. /\ {"blockNumber", "data", "stateSource", "stateContractName"} \subseteq TextFields
      /\ Trim("") = "" /\ Trim("0x") = "0x" /\ "" # "0x"
  BY DEF TextFields, Trim
<1> HIDE DEF text
<1>4. ASSUME NEW x \in TextFields \ {"txHash", "stateSource"} PROVE Trim(text[x]) = text[x]
  <2>0. text[x] = SentText(f, x)
    BY <1>1
  <2>1. CASE x = "blockNumber"
    BY <1>2, <1>3, <2>0, <2>1 DEF SentText, BlockSent
  <2>2. CASE x = "data"
    BY <1>2, <1>3, <2>0, <2>2 DEF SentText
  <2>3. CASE x = "stateContractName"
    BY <1>2, <1>3, <2>0, <2>3 DEF SentText
  <2>4. CASE x \notin {"blockNumber", "data", "stateSource", "stateContractName"}
    BY <1>2, <2>0, <2>4 DEF SentText
  <2> QED
    BY <2>1, <2>2, <2>3, <2>4
<1>5. text["data"] # ""
  <2>1. text["data"] = SentText(f, "data")
    BY <1>1, <1>3
  <2> QED
    BY <1>3, <2>1 DEF SentText, Blank
<1>6. ASSUME Blank(text["stateSource"])
      PROVE  text["stateSource"] = "" /\ text["stateContractName"] = ""
  <2>1. /\ text["stateSource"] = SentText(f, "stateSource")
        /\ text["stateContractName"] = SentText(f, "stateContractName")
    BY <1>1, <1>3
  <2>2. SentText(f, "stateSource") = (IF ~ Blank(f.text.stateSource) THEN f.text.stateSource ELSE "")
    BY DEF SentText
  <2>3. SentText(f, "stateContractName")
          = (IF ~ Blank(f.text.stateSource) THEN Trim(f.text.stateContractName) ELSE "")
    BY DEF SentText
  <2> QED
    BY <1>6, <2>1, <2>2, <2>3
<1> QED
  BY <1>1, <1>4, <1>5, <1>6 DEF Settled, text

(* Such texts are sent as they are; the latest block is asked for when there *)
(* is no number.                                                             *)
LEMMA SettledStay ==
  ASSUME NEW text, Settled(text), NEW f \in Forms,
         \A x \in TextFields \ {"txHash"} : f.text[x] = text[x],
         f.flags.useLatestBlock <=> text["blockNumber"] = "",
         NEW x \in TextFields \ {"txHash"}
  PROVE  SentText(f, x) = text[x]
<1>1. /\ {"blockNumber", "data", "stateSource", "stateContractName"} \subseteq TextFields
      /\ Trim("") = ""
  BY DEF TextFields, Trim
<1>2. CASE x = "blockNumber"
  BY <1>1, <1>2 DEF Settled, SentText, BlockSent
<1>3. CASE x = "data"
  <2>1. f.text.data = text["data"] /\ Trim(text["data"]) = text["data"] /\ text["data"] # ""
    BY <1>1 DEF Settled
  <2> QED
    BY <1>3, <2>1 DEF SentText, Blank
<1>4. CASE x = "stateSource"
  <2>1. f.text.stateSource = text["stateSource"]
    BY <1>1
  <2> QED
    BY <1>4, <2>1 DEF Settled, SentText
<1>5. CASE x = "stateContractName"
  <2>1. /\ f.text.stateSource = text["stateSource"]
        /\ f.text["stateContractName"] = text["stateContractName"]
    BY <1>1
  <2>2. Trim(text["stateContractName"]) = text["stateContractName"]
    BY <1>1 DEF Settled
  <2> QED
    BY <1>5, <2>1, <2>2 DEF Settled, SentText
<1>6. CASE x \notin {"blockNumber", "data", "stateSource", "stateContractName"}
  BY <1>6 DEF Settled, SentText
<1> QED
  BY <1>2, <1>3, <1>4, <1>5, <1>6

(* What may be sent: its texts and rows are settled, and it passes the tests *)
(* of the form.                                                              *)
Sendable(r) ==
    /\ r \in SimulationRequests
    /\ Settled(r.text)
    /\ \A g \in Groups : Tidy(r.rows[g])
    /\ WithSenderLabel(r.text["sender"], r.rows["labelOverrides"]) = r.rows["labelOverrides"]
    /\ \A g \in Groups : \A i \in DOMAIN r.rows[g] : ~ Partial(r.rows[g][i])
    /\ ~ Blank(r.text["sender"]) /\ ~ Blank(r.text["target"])
    /\ r.text["optimizerRuns"] \in Proper \cup {""}
    /\ \A x \in {"offline", "noMetadata"} : r.flags[x] \in {"none", "on"}
    /\ \A x \in FlagFields \ {"useLatestBlock", "quick", "offline", "noMetadata"} :
          r.flags[x] \in {"on", "off"}
    /\ MatchesSchema(r)

(* A request that the form made can be sent,                              *)
LEMMA BuiltSendable ==
  ASSUME NEW f \in Forms, Complete(f), MatchesSchema(SimulationRequest(f))
  PROVE  Sendable(SimulationRequest(f))
<1> DEFINE r == SimulationRequest(f)
<1>1. r \in SimulationRequests /\ Settled(r.text) /\ MatchesSchema(r)
  BY BuiltRequests, SentTextsSettled
<1>2. /\ r.rows = [g \in Groups |-> SentRows(f, g)]
      /\ \A x \in TextFields \ {"txHash"} : r.text[x] = SentText(f, x)
      /\ \A x \in FlagFields \ {"useLatestBlock", "quick"} : r.flags[x] = SentFlag(f, x)
  BY DEF SimulationRequest
<1> HIDE DEF r
<1>3. \A g \in Groups : Tidy(r.rows[g])
  BY <1>2, SentRowsTidy
<1>4. {"sender", "target", "optimizerRuns"} \subseteq TextFields \ {"txHash"}
  BY DEF TextFields
<1>5. /\ r.text["sender"] = Trim(f.text["sender"])
      /\ r.text["target"] = Trim(f.text["target"])
      /\ r.text["optimizerRuns"] = Trim(f.text["optimizerRuns"])
  <2>1. /\ SentText(f, "sender") = Trim(f.text["sender"])
        /\ SentText(f, "target") = Trim(f.text["target"])
        /\ SentText(f, "optimizerRuns") = Trim(f.text["optimizerRuns"])
    BY DEF SentText
  <2> QED
    BY <1>2, <1>4, <2>1
<1>6. f.text["sender"] \in Texts /\ f.text["target"] \in Texts
  BY <1>4 DEF Forms
<1>7. "labelOverrides" \in Groups
  BY GroupNames
<1>8. /\ CompactRows(f.rows["labelOverrides"]) \in RowsOf("labelOverrides")
      /\ Tidy(CompactRows(f.rows["labelOverrides"]))
  <2>1. f.rows["labelOverrides"] \in Seq([Columns["labelOverrides"] -> Texts])
    BY <1>7, RowGroupsGiven DEF Forms, RowsOf
  <2> QED
    BY <2>1, CompactIsTidy DEF RowsOf
<1>9. r.rows["labelOverrides"] =
         WithSenderLabel(f.text["sender"], CompactRows(f.rows["labelOverrides"]))
  BY <1>2, <1>7 DEF SentRows
<1>10. WithSenderLabel(r.text["sender"], r.rows["labelOverrides"]) = r.rows["labelOverrides"]
  BY <1>5, <1>6, <1>8, <1>9, SenderLabelled
<1>11. ~ Blank(r.text["sender"]) /\ ~ Blank(r.text["target"])
  BY <1>5, <1>6, TrimTwice DEF Complete, Blank
<1>12. r.text["optimizerRuns"] \in Proper \cup {""}
  BY <1>5 DEF Complete
<1>13. ASSUME NEW g \in Groups, NEW i \in DOMAIN r.rows[g] PROVE ~ Partial(r.rows[g][i])
  <2> DEFINE rows == CompactRows(f.rows[g])
  <2>1. \A j \in DOMAIN rows : ~ Partial(rows[j])
    BY DEF Complete
  <2>2. CASE r.rows[g] = rows
    BY <2>1, <2>2, <1>13
  <2>3. CASE r.rows[g] # rows
    <3> DEFINE row == [account |-> Trim(f.text["sender"]), label |-> "Sender"]
    <3>1. /\ g = "labelOverrides" /\ Trim(f.text["sender"]) \in Proper
          /\ r.rows[g] = <<row>> \o rows
      <4>1. g = "labelOverrides"
        BY <1>2, <2>3 DEF SentRows
      <4>2. r.rows[g] = WithSenderLabel(f.text["sender"], rows)
        BY <1>9, <4>1
      <4> HIDE DEF rows
      <4> QED
        BY <2>3, <4>1, <4>2 DEF WithSenderLabel
    <3>2. ~ Partial(row)
      <4>1. row["account"] # "" /\ row["label"] # "" /\ DOMAIN row = {"account", "label"}
        BY <3>1 DEF Proper
      <4> HIDE DEF row
      <4> QED
        BY <4>1 DEF Partial
    <3> HIDE DEF row, rows
    <3>3. rows \in Seq([Columns[g] -> Texts])
      BY <1>8, <3>1 DEF RowsOf, rows
    <3>4. \/ i = 1 /\ r.rows[g][i] = row
          \/ i - 1 \in DOMAIN rows /\ r.rows[g][i] = rows[i - 1]
      <4> DEFINE S == {row} \cup [Columns[g] -> Texts]
                 all == <<row>> \o rows
      <4>1. <<row>> \in Seq(S) /\ rows \in Seq(S) /\ Len(<<row>>) = 1 /\ <<row>>[1] = row
        BY <3>3
      <4> HIDE DEF S, all
      <4>2. /\ Len(all) = 1 + Len(rows) /\ all \in Seq(S) /\ Len(rows) \in Nat
            /\ \A j \in 1 .. Len(all) : all[j] = IF j <= 1 THEN <<row>>[j] ELSE rows[j - 1]
        BY <4>1, ConcatProperties DEF all
      <4>3. i \in 1 .. (1 + Len(rows)) /\ r.rows[g][i] = all[i]
        BY <1>13, <3>1, <4>2 DEF all
      <4>4. CASE i = 1
        <5>1. 1 \in 1 .. Len(all) /\ <<row>>[1] = row
          BY <4>2
        <5>2. all[1] = row
          BY <4>2, <5>1
        <5> QED
          BY <4>3, <4>4, <5>2
      <4>5. CASE i # 1
        <5>1. i - 1 \in 1 .. Len(rows) /\ all[i] = rows[i - 1]
          BY <4>2, <4>3, <4>5
        <5> QED
          BY <4>1, <4>3, <5>1
      <4> QED
        BY <4>4, <4>5
    <3> QED
      BY <2>1, <3>2, <3>4
  <2> QED
    BY <2>2, <2>3
<1>14. \A x \in {"offline", "noMetadata"} : r.flags[x] \in {"none", "on"}
  <2>1. {"offline", "noMetadata"} \subseteq FlagFields \ {"useLatestBlock", "quick"}
    BY DEF FlagFields
  <2> QED
    BY <1>2, <2>1 DEF SentFlag, Sides
<1>15. \A x \in FlagFields \ {"useLatestBlock", "quick", "offline", "noMetadata"} :
          r.flags[x] \in {"on", "off"}
  BY <1>2 DEF SentFlag, Sides
<1> QED
  BY <1>1, <1>3, <1>10, <1>11, <1>12, <1>13, <1>14, <1>15 DEF Sendable, r

(* can be when it comes back from its record,                             *)
LEMMA StoredSendable ==
  ASSUME NEW r, Sendable(r)
  PROVE  Sendable(AsStored(r))
<1>1. CASE r.text.blockNumber # ""
  BY <1>1 DEF AsStored
<1>2. CASE r.text.blockNumber = ""
  <2> DEFINE q == [r EXCEPT !.text.blockNumber = "w"]
  <2>1. /\ r \in SimulationRequests /\ "blockNumber" \in TextFields /\ "w" \in Texts
        /\ Trim("w") = "w" /\ "w" \in Proper
    BY DEF Sendable, TextFields, Texts, Trim, Proper
  <2>2. /\ q \in SimulationRequests /\ q.rows = r.rows /\ q.flags = r.flags
        /\ q.text["blockNumber"] = "w"
        /\ \A x \in TextFields \ {"txHash", "blockNumber"} : q.text[x] = r.text[x]
    BY <2>1 DEF SimulationRequests
  <2>3. AsStored(r) = q
    BY <1>2, <2>1 DEF AsStored, SimulationRequests
  <2> HIDE DEF q
  <2>4. {"data", "stateSource", "stateContractName", "sender", "target", "value", "optimizerRuns"}
            \subseteq TextFields \ {"txHash", "blockNumber"}
    BY DEF TextFields
  <2>5. Settled(q.text)
    <3>1. q.text \in [TextFields \ {"txHash"} -> Texts]
      BY <2>2 DEF SimulationRequests
    <3>2. \A x \in TextFields \ {"txHash", "stateSource"} : Trim(q.text[x]) = q.text[x]
      BY <2>1, <2>2 DEF Sendable, Settled
    <3>3. q.text["data"] # ""
      BY <2>2, <2>4 DEF Sendable, Settled
    <3>4. Blank(q.text["stateSource"]) =>
            q.text["stateSource"] = "" /\ q.text["stateContractName"] = ""
      BY <2>2, <2>4 DEF Sendable, Settled
    <3> QED
      BY <3>1, <3>2, <3>3, <3>4 DEF Settled
  <2>6. MatchesSchema(q)
    <3>1. MatchesSchema(r)
      BY DEF Sendable
    <3> QED
      BY <2>1, <2>2, <2>4, <3>1 DEF MatchesSchema
  <2> QED
    BY <2>2, <2>3, <2>4, <2>5, <2>6 DEF Sendable
<1> QED
  BY <1>1, <1>2

(* and the form it opens makes it again.                                  *)
LEMMA SendableReturns ==
  ASSUME NEW r, Sendable(r), NEW url \in Urls
  PROVE  BuildRunRequest(FormFromRecord(r, url)) = r
<1> DEFINE f == FormFromRecord(r, url)
<1>1. r \in SimulationRequests /\ r.kind = "simulation"
  BY DEF Sendable, SimulationRequests
<1>2. f \in Forms
  BY <1>1, OpenedForms DEF Requests
<1>3. /\ f.requestKind = "simulation" /\ f.chain = r.chain /\ f.rows = r.rows
      /\ f.text = [x \in TextFields |-> IF x = "txHash" THEN "" ELSE r.text[x]]
      /\ f.flags = [x \in FlagFields |->
                       CASE x = "useLatestBlock" -> r.text.blockNumber = ""
                         [] x = "quick" -> FALSE
                         [] OTHER -> FlagOpened(x, r.flags[x])]
  BY <1>1 DEF FormFromRecord, FormFromSimulationRequest, Defaults
<1> HIDE DEF f
<1>4. \A x \in TextFields \ {"txHash"} : f.text[x] = r.text[x]
  BY <1>3
<1>5. f.flags.useLatestBlock <=> r.text["blockNumber"] = ""
  <2>1. "useLatestBlock" \in FlagFields
    BY DEF FlagFields
  <2> QED
    BY <1>3, <2>1
<1>6. \A x \in TextFields \ {"txHash"} : SentText(f, x) = r.text[x]
  BY <1>2, <1>4, <1>5, SettledStay DEF Sendable
<1>7. ASSUME NEW x \in FlagFields \ {"useLatestBlock", "quick"} PROVE SentFlag(f, x) = r.flags[x]
  <2>1. f.flags[x] = FlagOpened(x, r.flags[x])
    BY <1>3
  <2>2. CASE x \in {"offline", "noMetadata"}
    <3>1. r.flags[x] \in {"none", "on"} /\ ~ Defaults("").flags[x]
      BY <2>2 DEF Sendable, Defaults
    <3>2. CASE r.flags[x] = "none"
      BY <2>1, <2>2, <3>1, <3>2 DEF FlagOpened, SentFlag
    <3>3. CASE r.flags[x] = "on"
      BY <2>1, <2>2, <3>3 DEF FlagOpened, SentFlag, Sides
    <3> QED
      BY <3>1, <3>2, <3>3
  <2>3. CASE x \notin {"offline", "noMetadata"}
    <3>1. r.flags[x] \in {"on", "off"}
      BY <2>3 DEF Sendable
    <3> QED
      BY <2>1, <2>3, <3>1 DEF FlagOpened, SentFlag, Sides
  <2> QED
    BY <2>2, <2>3
<1>8. /\ r.rows = [g \in Groups |-> r.rows[g]]
      /\ \A g \in Groups : r.rows[g] \in Seq([Columns[g] -> Texts])
  BY <1>1, RowGroupsGiven DEF SimulationRequests, RowsOf
<1>9. \A g \in Groups : CompactRows(f.rows[g]) = r.rows[g]
  <2>1. ASSUME NEW g \in Groups PROVE CompactRows(f.rows[g]) = r.rows[g]
    <3> DEFINE rows == r.rows[g]
               C == Columns[g]
    <3>1. Tidy(rows)
      BY DEF Sendable
    <3>2. rows \in Seq([C -> Texts])
      BY <1>8
    <3>3. f.rows[g] = rows
      BY <1>3
    <3> HIDE DEF rows, C
    <3>4. CompactRows(rows) = rows
      BY <3>1, <3>2, TidyStays
    <3> QED
      BY <3>3, <3>4 DEF rows
  <2> QED
    BY <2>1
<1>10. {"sender", "target", "optimizerRuns", "blockNumber"} \subseteq TextFields \ {"txHash"}
  BY DEF TextFields
<1>11. \A g \in Groups : SentRows(f, g) = r.rows[g]
  BY <1>4, <1>9, <1>10 DEF SentRows, Sendable
<1>12. SimulationRequest(f) = r
  <2>1. [x \in TextFields \ {"txHash"} |-> SentText(f, x)] = r.text
    BY <1>1, <1>6 DEF SimulationRequests
  <2>2. [x \in FlagFields \ {"useLatestBlock", "quick"} |-> SentFlag(f, x)] = r.flags
    BY <1>1, <1>7 DEF SimulationRequests
  <2>3. [g \in Groups |-> SentRows(f, g)] = r.rows
    BY <1>8, <1>11
  <2> QED
    BY <1>1, <1>3, <2>1, <2>2, <2>3 DEF SimulationRequest, SimulationRequests
<1>13. Complete(f)
  <2>1. ~ Blank(f.text["sender"]) /\ ~ Blank(f.text["target"])
    BY <1>4, <1>10 DEF Sendable
  <2>2. f.flags.useLatestBlock \/ ~ Blank(f.text["blockNumber"])
    <3>1. Trim(r.text["blockNumber"]) = r.text["blockNumber"]
      BY <1>10 DEF Sendable, Settled
    <3> QED
      BY <1>4, <1>5, <1>10, <3>1 DEF Blank
  <2>3. Trim(f.text["optimizerRuns"]) \in Proper \cup {""}
    BY <1>4, <1>10 DEF Sendable, Settled
  <2>4. \A g \in Groups : \A i \in DOMAIN CompactRows(f.rows[g]) :
          ~ Partial(CompactRows(f.rows[g])[i])
    BY <1>9 DEF Sendable
  <2> QED
    BY <2>1, <2>2, <2>3, <2>4 DEF Complete
<1> QED
  BY <1>3, <1>12, <1>13 DEF f, BuildRunRequest, BuildSimulationRequest, Sendable

(* What may be sent of a transaction. *)
SendableTx(r) ==
    /\ r \in TxRequests /\ r.text["txHash"] \in Proper
    /\ r.flags \in [{"decodeInternal", "quick"} -> {"on", "off"}]

(* So does that of a request of a transaction.                            *)
LEMMA SendableTxReturns ==
  ASSUME NEW r, SendableTx(r), NEW url \in Urls
  PROVE  AsStored(r) = r /\ BuildRunRequest(FormFromRecord(r, url)) = r
<1> DEFINE f == FormFromRecord(r, url)
<1>1. r.kind = "tx" /\ AsStored(r) = r
  BY DEF SendableTx, TxRequests, AsStored
<1>2. /\ f.requestKind = "tx" /\ f.chain = r.chain /\ f.text.txHash = r.text.txHash
      /\ f.flags["decodeInternal"] = FlagOpened("decodeInternal", r.flags["decodeInternal"])
      /\ f.flags["quick"] = FlagOpened("quick", r.flags["quick"])
  BY <1>1 DEF FormFromRecord, FormFromTxRequest, Defaults, TextFields, FlagFields
<1> HIDE DEF f
<1>3. Trim(r.text.txHash) = r.text.txHash
  BY DEF SendableTx, Trim, Proper
<1>4. \A x \in {"decodeInternal", "quick"} : Sides(f.flags[x]) = r.flags[x]
  BY <1>2 DEF SendableTx, FlagOpened, Sides
<1>5. [x \in {"decodeInternal", "quick"} |-> Sides(f.flags[x])] = r.flags
  BY <1>4 DEF SendableTx
<1>6. [txHash |-> Trim(f.text.txHash)] = r.text
  BY <1>2, <1>3 DEF SendableTx, TxRequests
<1>7. BuildTxRequest(f) = r
  BY <1>1, <1>2, <1>3, <1>5, <1>6 DEF BuildTxRequest, SendableTx, TxRequests
<1> QED
  BY <1>1, <1>2, <1>7 DEF f, BuildRunRequest

-----------------------------------------------------------------------------
(* The behaviour of the form. *)

(* What was sent may be sent, the form is a form, and its chain is one that  *)
(* the backend has, once it has said which it has.                           *)
FormInv ==
    /\ form \in Forms
    /\ defaultApiUrl \in Urls
    /\ chainData \in [Urls -> ChainLists \cup {NotLoaded}]
    /\ chainData[form.apiUrl] # NotLoaded => form.chain \in ToSet(chainData[form.apiUrl])
    /\ \A r \in sent : Sendable(r) \/ SendableTx(r)

(* The effect makes the chain one of those offered, and changes nothing else. *)
LEMMA ChainOffered ==
  ASSUME NEW f \in Forms, NEW data \in [Urls -> ChainLists \cup {NotLoaded}]
  PROVE  /\ OfferedChain(f, data) \in Forms
         /\ data[OfferedChain(f, data).apiUrl] # NotLoaded =>
               OfferedChain(f, data).chain \in ToSet(data[OfferedChain(f, data).apiUrl])
<1>1. f.apiUrl \in Urls
  BY DEF Forms
<1>2. CASE data[f.apiUrl] = NotLoaded \/ f.chain \in ToSet(data[f.apiUrl])
  BY <1>2 DEF OfferedChain
<1>3. CASE ~ (data[f.apiUrl] = NotLoaded \/ f.chain \in ToSet(data[f.apiUrl]))
  <2> DEFINE list == data[f.apiUrl]
  <2>1. list \in ChainLists
    BY <1>1, <1>3
  <2>2. list \in Seq(Chains) /\ Len(list) > 0
    BY <2>1, FormAssumption
  <2> HIDE DEF list
  <2>3. Head(list) \in Chains /\ Head(list) \in ToSet(list)
    BY <2>2 DEF ToSet
  <2>4. OfferedChain(f, data) = [f EXCEPT !.chain = Head(list)]
    BY <1>3 DEF OfferedChain, list
  <2> QED
    BY <2>3, <2>4 DEF Forms, list
<1> QED
  BY <1>2, <1>3

(* A change of the form keeps the invariant. *)
LEMMA FormChanged ==
  ASSUME FormInv, NEW f \in Forms, SetForm(f), UNCHANGED <<chainData, defaultApiUrl, sent>>
  PROVE  FormInv'
<1>1. form' = OfferedChain(f, chainData) /\ chainData \in [Urls -> ChainLists \cup {NotLoaded}]
  BY DEF SetForm, FormInv
<1>2. /\ form' \in Forms
      /\ chainData[form'.apiUrl] # NotLoaded => form'.chain \in ToSet(chainData[form'.apiUrl])
  BY <1>1, ChainOffered
<1> QED
  BY <1>2 DEF FormInv

(* A fresh window has it,                                                 *)
LEMMA FormInitially == FormInit => FormInv
<1> SUFFICES ASSUME FormInit PROVE FormInv
  OBVIOUS
<1>1. PICK url \in Urls : form = Defaults(url) /\ defaultApiUrl = url
  BY DEF FormInit
<1>2. Defaults(url) \in Forms
  BY <1>1, DefaultForms
<1> QED
  BY <1>1, <1>2 DEF FormInit, FormInv, Forms

(* an edit of rows keeps it,                                              *)
LEMMA FormRowsEdited ==
  ASSUME FormInv, NEW g \in Groups, NEW rows \in RowsOf(g), EditRows(g, rows)
  PROVE  FormInv'
<1>1. /\ form \in Forms /\ form.rows = [h \in Groups |-> form.rows[h]]
      /\ \A h \in Groups : form.rows[h] \in RowsOf(h)
  BY RowGroupsGiven DEF FormInv, Forms
<1> DEFINE new == [form.rows EXCEPT ![g] = rows]
<1>2. new = [h \in Groups |-> new[h]] /\ \A h \in Groups : new[h] \in RowsOf(h)
  BY <1>1
<1> HIDE DEF new
<1>3. new \in RowGroups
  BY <1>2, RowGroupsMade
<1>4. [form EXCEPT !.rows = new] \in Forms
  BY <1>1, <1>3 DEF Forms
<1>5. [form EXCEPT !.rows[g] = rows] = [form EXCEPT !.rows = new]
  BY DEF new
<1> QED
  BY <1>4, <1>5, FormChanged DEF EditRows, Edit

(* and so does every other step.                                          *)
LEMMA FormInvInductive == FormInv /\ [FormNext]_formVars => FormInv'
<1> SUFFICES ASSUME FormInv, [FormNext]_formVars PROVE FormInv'
  OBVIOUS
<1>0. /\ form \in Forms
      /\ chainData \in [Urls -> ChainLists \cup {NotLoaded}]
  BY DEF FormInv
<1>1. ASSUME NEW x \in TextFields, NEW t \in Typed, EditText(x, t) PROVE FormInv'
  <2>1. t \in Texts
    BY FormAssumption DEF Texts
  <2>2. [form EXCEPT !.text[x] = t] \in Forms
    BY <1>0, <2>1 DEF Forms
  <2> QED
    BY <1>1, <2>2, FormChanged DEF EditText, Edit
<1>2. ASSUME NEW x \in FlagFields, Check(x) PROVE FormInv'
  <2>1. [form EXCEPT !.flags[x] = ~ @] \in Forms
    BY <1>0 DEF Forms
  <2> QED
    BY <1>2, <2>1, FormChanged DEF Check, Edit
<1>3. ASSUME NEW newKind \in {"simulation", "tx"}, ChooseKind(newKind) PROVE FormInv'
  <2>1. [form EXCEPT !.requestKind = newKind] \in Forms
    BY <1>0 DEF Forms
  <2> QED
    BY <1>3, <2>1, FormChanged DEF ChooseKind, Edit
<1>4. ASSUME NEW chain \in Chains, ChooseChain(chain) PROVE FormInv'
  <2>1. [form EXCEPT !.chain = chain] \in Forms
    BY <1>0 DEF Forms
  <2> QED
    BY <1>4, <2>1, FormChanged DEF ChooseChain, Edit
<1>5. ASSUME NEW url \in Urls, EditApiUrl(url) PROVE FormInv'
  <2>1. [form EXCEPT !.apiUrl = url] \in Forms
    BY <1>0 DEF Forms
  <2> QED
    BY <1>5, <2>1, FormChanged DEF EditApiUrl, Edit
<1>6. ASSUME NEW url \in Urls, RestoreForm(url) PROVE FormInv'
  <2>1. form' \in Forms
    BY <1>0, <1>6 DEF RestoreForm, Forms
  <2>2. chainData'[form'.apiUrl] = NotLoaded /\ chainData' \in [Urls -> ChainLists \cup {NotLoaded}]
    BY <1>6, <2>1 DEF RestoreForm, Forms
  <2> QED
    BY <1>6, <2>1, <2>2 DEF RestoreForm, FormInv
<1>7. ASSUME NEW url \in Urls, NEW list \in ChainLists, ChainsFetched(url, list) PROVE FormInv'
  <2>1. chainData' \in [Urls -> ChainLists \cup {NotLoaded}]
    BY <1>0, <1>7 DEF ChainsFetched
  <2>2. form' = OfferedChain(form, chainData')
    BY <1>7 DEF ChainsFetched
  <2>3. /\ form' \in Forms
        /\ chainData'[form'.apiUrl] # NotLoaded => form'.chain \in ToSet(chainData'[form'.apiUrl])
    BY <1>0, <2>1, <2>2, ChainOffered
  <2> QED
    BY <1>7, <2>1, <2>3 DEF ChainsFetched, FormInv
<1>8. ASSUME NEW g \in Groups, AddRow(g) PROVE FormInv'
  <2>1. form.rows[g] \in Seq([Columns[g] -> Texts])
    BY <1>0, RowGroupsGiven DEF Forms, RowsOf
  <2>2. [c \in Columns[g] |-> ""] \in [Columns[g] -> Texts]
    BY DEF Texts
  <2>3. Append(form.rows[g], [c \in Columns[g] |-> ""]) \in RowsOf(g)
    BY <2>1, <2>2, AppendProperties DEF RowsOf
  <2> QED
    BY <1>8, <2>3, FormRowsEdited DEF AddRow
<1>9. ASSUME NEW g \in Groups, NEW i \in DOMAIN form.rows[g], RemoveRow(g, i) PROVE FormInv'
  <2> DEFINE R == [Columns[g] -> Texts]
             rows == form.rows[g]
  <2>1. rows \in Seq(R) /\ i \in 1 .. Len(rows) /\ Len(rows) \in Nat
    BY <1>0, RowGroupsGiven DEF Forms, RowsOf
  <2> HIDE DEF R, rows
  <2>2. SubSeq(rows, 1, i - 1) \in Seq(R) /\ SubSeq(rows, i + 1, Len(rows)) \in Seq(R)
    BY <2>1, SubSeqProperties
  <2>3. RemoveAt(rows, i) \in Seq(R)
    BY <2>2, ConcatProperties DEF RemoveAt
  <2>4. RemoveAt(form.rows[g], i) \in RowsOf(g)
    BY <2>3 DEF R, rows, RowsOf
  <2> QED
    BY <1>9, <2>4, FormRowsEdited DEF RemoveRow
<1>10. ASSUME NEW g \in Groups, NEW i \in DOMAIN form.rows[g], NEW c \in Columns[g],
              NEW t \in Typed, UpdateRow(g, i, c, t)
       PROVE  FormInv'
  <2> DEFINE rows == form.rows[g]
             new == [rows EXCEPT ![i][c] = t]
  <2>1. rows \in Seq([Columns[g] -> Texts]) /\ i \in 1 .. Len(rows) /\ t \in Texts
    <3>1. rows \in Seq([Columns[g] -> Texts])
      BY <1>0, RowGroupsGiven DEF Forms, RowsOf
    <3>2. t \in Texts
      BY FormAssumption DEF Texts
    <3> HIDE DEF rows, new
    <3>3. i \in 1 .. Len(rows)
      BY <3>1 DEF rows
    <3> QED
      BY <3>1, <3>2, <3>3
  <2>2. rows[i] \in [Columns[g] -> Texts]
    BY <2>1
  <2>3. [rows[i] EXCEPT ![c] = t] \in [Columns[g] -> Texts]
    BY <2>1, <2>2
  <2>4. new = [rows EXCEPT ![i] = [rows[i] EXCEPT ![c] = t]]
    OBVIOUS
  <2> HIDE DEF new, rows
  <2>5. new \in Seq([Columns[g] -> Texts])
    BY <2>1, <2>3, <2>4, ExceptSeq
  <2> QED
    BY <1>10, <2>5, FormRowsEdited DEF UpdateRow, RowsOf, new, rows
<1>11. CASE Submit
  <2>1. \A r \in sent' : Sendable(r) \/ SendableTx(r)
    <3>1. sent' = {BuildRunRequest(form)} /\ BuildRunRequest(form) # Refused
      BY <1>11 DEF Submit
    <3>2. CASE form.requestKind = "tx"
      <4>1. BuildRunRequest(form) = BuildTxRequest(form)
        BY <3>2 DEF BuildRunRequest
      <4>2. /\ BuildTxRequest(form).text["txHash"] \in Proper
            /\ BuildTxRequest(form).flags \in [{"decodeInternal", "quick"} -> {"on", "off"}]
        BY <3>1, <4>1 DEF BuildTxRequest, Sides
      <4>3. BuildRunRequest(form) \in TxRequests
        <5>1. BuildRunRequest(form) \in Requests /\ BuildRunRequest(form).kind = "tx"
          BY <1>0, <3>1, <4>1, BuiltRequests DEF BuildTxRequest
        <5> QED
          BY <5>1 DEF Requests, SimulationRequests
      <4> QED
        BY <3>1, <4>1, <4>2, <4>3 DEF SendableTx
    <3>3. CASE form.requestKind # "tx"
      <4>1. /\ BuildRunRequest(form) = SimulationRequest(form) /\ Complete(form)
            /\ MatchesSchema(SimulationRequest(form))
        BY <3>1, <3>3 DEF BuildRunRequest, BuildSimulationRequest
      <4> QED
        BY <1>0, <3>1, <4>1, BuiltSendable
    <3> QED
      BY <3>2, <3>3
  <2> QED
    BY <1>11, <2>1 DEF Submit, FormInv
<1>12. ASSUME NEW url \in Urls, NEW request \in Foreign \cup {AsStored(r) : r \in sent},
              OpenRecord(request, url)
       PROVE  FormInv'
  <2>1. request \in Requests
    <3>1. \A r \in sent : r \in Requests
      BY DEF FormInv, Sendable, SendableTx, Requests
    <3> QED
      BY <3>1, StoredRequests, FormAssumption
  <2>2. FormFromRecord(request, url) \in Forms
    BY <2>1, OpenedForms
  <2> QED
    BY <1>12, <2>2, FormChanged DEF OpenRecord
<1>13. CASE UNCHANGED formVars
  BY <1>13 DEF formVars, FormInv
<1>14. \A list \in ChainLists \cup {<<"mainnet">>} : ToSet(list) \subseteq Chains
  <2> SUFFICES ASSUME NEW list \in ChainLists \cup {<<"mainnet">>} PROVE ToSet(list) \subseteq Chains
    OBVIOUS
  <2>1. CASE list \in ChainLists
    BY <2>1 DEF Chains
  <2>2. CASE list = <<"mainnet">>
    <3>1. DOMAIN list = {1} /\ list[1] = "mainnet"
      BY <2>2
    <3> QED
      BY <3>1 DEF ToSet, Chains
  <2> QED
    BY <2>1, <2>2
<1> QED
  BY <1>1, <1>2, <1>3, <1>4, <1>5, <1>6, <1>7, <1>8, <1>9, <1>10, <1>11, <1>12, <1>13, <1>14
     DEF FormNext

(* A change of a field is counted, and no more are made than the bound.      *)
LEMMA EditsCounted ==
  ASSUME edits \in 0 .. MaxEdits, [FormNext]_formVars
  PROVE  edits' \in 0 .. MaxEdits
<1>0. MaxEdits \in Nat
  BY FormAssumption
<1>1. ASSUME NEW f, Edit(f) PROVE edits' \in 0 .. MaxEdits
  <2>1. edits < MaxEdits /\ edits' = edits + 1
    BY <1>1 DEF Edit
  <2> QED
    BY <1>0, <2>1
<1>2. CASE \E x \in TextFields, t \in Typed : EditText(x, t)
  BY <1>1, <1>2 DEF EditText
<1>3. CASE \E x \in FlagFields : Check(x)
  BY <1>1, <1>3 DEF Check
<1>4. CASE \E newKind \in {"simulation", "tx"} : ChooseKind(newKind)
  BY <1>1, <1>4 DEF ChooseKind
<1>5. CASE \E list \in ChainLists \cup {<<"mainnet">>} : \E chain \in ToSet(list) : ChooseChain(chain)
  BY <1>1, <1>5 DEF ChooseChain
<1>6. CASE \E url \in Urls : EditApiUrl(url) \/ RestoreForm(url)
  BY <1>1, <1>6 DEF EditApiUrl, RestoreForm
<1>7. CASE \E url \in Urls, list \in ChainLists : ChainsFetched(url, list)
  BY <1>7 DEF ChainsFetched
<1>8. ASSUME NEW g \in Groups, NEW rows, EditRows(g, rows) PROVE edits' \in 0 .. MaxEdits
  BY <1>1, <1>8 DEF EditRows
<1>9. ASSUME NEW g \in Groups,
             \/ AddRow(g)
             \/ \E i \in DOMAIN form.rows[g] :
                  RemoveRow(g, i) \/ \E c \in Columns[g], t \in Typed : UpdateRow(g, i, c, t)
      PROVE  edits' \in 0 .. MaxEdits
  BY <1>8, <1>9 DEF AddRow, RemoveRow, UpdateRow
<1>10. CASE Submit \/ \E url \in Urls, request \in Foreign \cup {AsStored(r) : r \in sent} :
                        OpenRecord(request, url)
  BY <1>10 DEF Submit, OpenRecord
<1>11. CASE UNCHANGED formVars
  BY <1>11 DEF formVars
<1> QED
  BY <1>2, <1>3, <1>4, <1>5, <1>6, <1>7, <1>9, <1>10, <1>11 DEF FormNext

(* The form holds values of its fields, whatever is typed, opened or         *)
(* restored, and what is sent is a request (form.ts FormState,               *)
(* schemas.ts simulateRequestSchema and txRequestSchema).                    *)
THEOREM FormTypeCorrect == FormSpec => []FormTypeOK
<1> DEFINE I == FormInv /\ edits \in 0 .. MaxEdits
<1>1. FormInit => I
  <2>1. MaxEdits \in Nat
    BY FormAssumption
  <2>2. FormInit => edits \in 0 .. MaxEdits
    BY <2>1 DEF FormInit
  <2> QED
    BY <2>2, FormInitially
<1>2. I /\ [FormNext]_formVars => I'
  BY FormInvInductive, EditsCounted
<1>3. I => FormTypeOK
  BY DEF FormInv, FormTypeOK, Sendable, SendableTx, Requests
<1> QED
  BY <1>1, <1>2, <1>3, PTL DEF FormSpec

(* A run sends what the form shows, whatever was typed, checked, hidden,     *)
(* opened, fetched and restored before (RequestForm.tsx, form.ts, and the    *)
(* effect of App.tsx on the chain).                                          *)
THEOREM SentAlwaysShown == FormSpec => []SentIsShown
<1>1. ASSUME FormInv PROVE SentIsShown
  <2> SUFFICES ASSUME chainData[form.apiUrl] # NotLoaded
               PROVE  BuildRunRequest(form) = BuildRunRequest(Shown(form))
    BY DEF SentIsShown
  <2> DEFINE s == Shown(form)
  <2>1. form \in Forms /\ form.chain \in ToSet(chainData[form.apiUrl])
    BY <1>1 DEF FormInv
  <2>2. s = [form EXCEPT
               !.text = [x \in TextFields |-> IF x \in ShownText(form) THEN form.text[x] ELSE ""],
               !.flags = [x \in FlagFields |-> IF x \in ShownFlags(form) THEN form.flags[x] ELSE FALSE],
               !.rows = IF form.requestKind = "tx" THEN [g \in Groups |-> <<>>] ELSE form.rows]
    <3>1. Options(form.apiUrl, chainData) = chainData[form.apiUrl]
      BY DEF Options
    <3>2. [form EXCEPT !.chain = form.chain] = form
      BY <2>1 DEF Forms
    <3> QED
      BY <2>1, <3>1, <3>2 DEF Shown, Forms
  <2>3. /\ s.requestKind = form.requestKind /\ s.chain = form.chain
        /\ \A x \in ShownText(form) \cap TextFields : s.text[x] = form.text[x]
        /\ \A x \in ShownFlags(form) \cap FlagFields : s.flags[x] = form.flags[x]
        /\ form.requestKind # "tx" => s.rows = form.rows
    BY <2>1, <2>2 DEF Forms
  <2> HIDE DEF s
  <2>4. CASE form.requestKind = "tx"
    <3>1. {"decodeInternal", "quick"} \subseteq FlagFields /\ "txHash" \in TextFields
      BY DEF FlagFields, TextFields
    <3>2. /\ s.text.txHash = form.text.txHash
          /\ \A x \in {"decodeInternal", "quick"} : s.flags[x] = form.flags[x]
      BY <2>3, <2>4, <3>1 DEF ShownText, ShownFlags
    <3>3. BuildTxRequest(s) = BuildTxRequest(form)
      BY <2>3, <3>2 DEF BuildTxRequest
    <3> QED
      BY <2>3, <2>4, <3>3 DEF BuildRunRequest, s
  <2>5. CASE form.requestKind # "tx"
    <3>1. \A x \in FlagFields \ {"quick"} : s.flags[x] = form.flags[x]
      BY <2>3, <2>5 DEF ShownFlags
    <3>2. "useLatestBlock" \in FlagFields \ {"quick"}
      BY DEF FlagFields
    <3>3. s.flags.useLatestBlock = form.flags.useLatestBlock
      BY <3>1, <3>2
    <3>4. \A x \in TextFields \ {"txHash", "blockNumber"} : s.text[x] = form.text[x]
      BY <2>3, <2>5 DEF ShownText
    <3>5. ~ form.flags.useLatestBlock => s.text["blockNumber"] = form.text["blockNumber"]
      BY <2>3, <2>5 DEF ShownText, TextFields
    <3>6. {"data", "stateSource", "stateContractName", "sender", "target", "optimizerRuns"}
             \subseteq TextFields \ {"txHash", "blockNumber"}
      BY DEF TextFields
    <3>7. ASSUME NEW x \in TextFields \ {"txHash"} PROVE SentText(s, x) = SentText(form, x)
      <4>1. CASE x = "blockNumber"
        BY <3>3, <3>5, <4>1 DEF SentText, BlockSent
      <4>2. CASE x = "data"
        BY <3>4, <3>6, <4>2 DEF SentText
      <4>3. CASE x \in {"stateSource", "stateContractName"}
        BY <3>4, <3>6, <4>3 DEF SentText
      <4>4. CASE x \notin {"blockNumber", "data", "stateSource", "stateContractName"}
        BY <3>4, <4>4 DEF SentText
      <4> QED
        BY <4>1, <4>2, <4>3, <4>4
    <3>8. \A x \in FlagFields \ {"useLatestBlock", "quick"} : SentFlag(s, x) = SentFlag(form, x)
      BY <3>1 DEF SentFlag
    <3>9. \A g \in Groups : SentRows(s, g) = SentRows(form, g)
      BY <2>3, <2>5, <3>4, <3>6 DEF SentRows
    <3>10. SimulationRequest(s) = SimulationRequest(form)
      BY <2>3, <3>7, <3>8, <3>9 DEF SimulationRequest
    <3>11. Complete(s) <=> Complete(form)
      <4>1. /\ s.text.sender = form.text.sender /\ s.text.target = form.text.target
            /\ s.text.optimizerRuns = form.text.optimizerRuns /\ s.rows = form.rows
        BY <2>3, <2>5, <3>4, <3>6
      <4> QED
        BY <3>3, <3>5, <4>1 DEF Complete
    <3>12. BuildSimulationRequest(s) = BuildSimulationRequest(form)
      BY <3>10, <3>11 DEF BuildSimulationRequest
    <3> QED
      BY <2>3, <2>5, <3>12 DEF BuildRunRequest, s
  <2> QED
    BY <2>4, <2>5
<1> QED
  BY <1>1, FormInitially, FormInvInductive, PTL DEF FormSpec

(* A request that this window sent, opened from the record that the backend  *)
(* made of it, is the request that the form would send again (form.ts).      *)
THEOREM ReopenedAlwaysRunTheSame == FormSpec => []ReopenedRunsTheSame
<1>1. ASSUME FormInv PROVE ReopenedRunsTheSame
  <2> SUFFICES ASSUME NEW r \in sent, NEW stored \in {r, AsStored(r)}
               PROVE  BuildRunRequest(FormFromRecord(stored, form.apiUrl)) = stored
    BY DEF ReopenedRunsTheSame
  <2>1. form.apiUrl \in Urls
    BY <1>1 DEF FormInv, Forms
  <2>2. CASE Sendable(r)
    <3>1. Sendable(stored)
      BY <2>2, StoredSendable
    <3> QED
      BY <2>1, <3>1, SendableReturns
  <2>3. CASE SendableTx(r)
    BY <2>1, <2>3, SendableTxReturns
  <2> QED
    BY <1>1, <2>2, <2>3 DEF FormInv
<1> QED
  BY <1>1, FormInitially, FormInvInductive, PTL DEF FormSpec

-----------------------------------------------------------------------------
(* The list of past projects.  One round of mergeProjects on the paths       *)
(* gathered so far.                                                          *)
MergeRound(paths, i, before) ==
    IF paths[i] \in {NoProject} \cup ToSet(before) THEN before ELSE Append(before, paths[i])

(* The rounds of mergeProjects are well defined. *)
LEMMA PathsMerged ==
  ASSUME NEW paths \in Seq(Projects)
  PROVE  /\ Merged(paths) \in [0 .. Len(paths) -> Seq(Projects)]
         /\ \A i \in 0 .. Len(paths) :
               Merged(paths)[i] =
                  IF i = 0 THEN <<>> ELSE MergeRound(paths, i, Merged(paths)[i - 1])
<1> DEFINE n == Len(paths)
           Found == Seq(Projects)
           step == [q \in (1 .. n) \X Found |-> MergeRound(paths, q[1], q[2])]
           Fits(f) == f = [i \in 0 .. n |-> IF i = 0 THEN <<>>
                                            ELSE MergeRound(paths, i, f[i - 1])]
<1>1. /\ n \in Nat /\ <<>> \in Found
      /\ \A i \in 1 .. n, before \in Found : MergeRound(paths, i, before) \in Found
  BY DEF MergeRound
<1>2. \A i \in 1 .. n, before \in Found :
         step[<<i, before>>] = MergeRound(paths, i, before)
  <2> HIDE DEF n
  <2> QED
    OBVIOUS
<1>3. \A i \in 1 .. n, before \in Found : step[<<i, before>>] \in Found
  BY <1>1, <1>2
<1>a. n = Len(paths) /\ Found = Seq(Projects)
  OBVIOUS
<1> HIDE DEF n, step, Found
<1>4. PICK f : AreRounds(f, n, Found, <<>>, step)
  BY <1>1, <1>3, RoundsExist
<1>5. ASSUME NEW i \in 0 .. n
      PROVE  f[i] = IF i = 0 THEN <<>> ELSE MergeRound(paths, i, f[i - 1])
  <2>1. CASE i = 0
    BY <1>4, <2>1 DEF AreRounds
  <2>2. CASE i # 0
    <3>1. i - 1 \in 0 .. n /\ i \in 1 .. n
      BY <1>1, <2>2
    <3>2. f[i - 1] \in Found /\ f[i] = step[<<i, f[i - 1]>>]
      BY <1>4, <2>2, <3>1 DEF AreRounds
    <3> QED
      BY <1>2, <2>2, <3>1, <3>2
  <2> QED
    BY <2>1, <2>2
<1>6. Fits(f)
  BY <1>4, <1>5 DEF AreRounds
<1>7. Merged(paths) = CHOOSE g : Fits(g)
  BY <1>a DEF Merged, MergeRound
<1>8. Fits(Merged(paths))
  <2> HIDE DEF Fits
  <2> QED
    BY <1>6, <1>7
<1> DEFINE merged == Merged(paths)
           Good == {i \in 0 .. n : merged[i] \in Found}
<1>9. merged = [i \in 0 .. n |-> IF i = 0 THEN <<>> ELSE MergeRound(paths, i, merged[i - 1])]
  BY <1>8
<1> HIDE DEF merged
<1>10. \A i \in 0 .. n :
          merged[i] = IF i = 0 THEN <<>> ELSE MergeRound(paths, i, merged[i - 1])
  BY <1>9
<1>11. 0 \in Good
  BY <1>1, <1>10
<1>12. ASSUME NEW i \in 1 .. n, i - 1 \in Good PROVE i \in Good
  <2>1. merged[i] = MergeRound(paths, i, merged[i - 1]) /\ i \in 0 .. n
    BY <1>10, <1>1
  <2>2. MergeRound(paths, i, merged[i - 1]) \in Found
    BY <1>1, <1>12
  <2> QED
    BY <2>1, <2>2
<1>13. \A i \in 0 .. n : i \in Good
  <2> HIDE DEF Good
  <2> QED
    BY <1>1, <1>11, <1>12, RoundsInduction
<1>14. merged \in [0 .. n -> Found]
  BY <1>9, <1>13
<1> QED
  BY <1>a, <1>10, <1>14 DEF merged

(* No place from a to b of a list holds what another of them holds. *)
Distinct(list, a, b) == \A i, j \in a .. b : list[i] = list[j] => i = j

(* u has each of the first k paths once, where it came first; the paths up   *)
(* to the first that is repeated are its beginning; and it is as long as     *)
(* they are, but for one, if only the first path may be repeated.            *)
FirstPlaces(paths, k, u) ==
    /\ Distinct(u, 1, Len(u))
    /\ Len(u) <= k
    /\ \A a \in 1 .. Len(u) : \E i \in 1 .. k : u[a] = paths[i]
    /\ \A i \in 1 .. k : \E a \in 1 .. Len(u) : u[a] = paths[i]
    /\ \A a, b \in 1 .. Len(u) : a < b =>
          \E i \in 1 .. k : paths[i] = u[a] /\ \A j \in 1 .. i : paths[j] # u[b]
    /\ \A i \in 1 .. k : Distinct(paths, 1, i) => i <= Len(u) /\ u[i] = paths[i]
    /\ Distinct(paths, 2, k) => \/ Len(u) >= k
                                \/ /\ Len(u) >= k - 1
                                   /\ \E j \in 2 .. k : paths[j] = paths[1]

(* A round keeps this. *)
LEMMA MergeRoundKeepsFirst ==
  ASSUME NEW paths \in Seq(Projects), NEW k \in 1 .. Len(paths),
         NEW u \in Seq(Projects), FirstPlaces(paths, k - 1, u)
  PROVE  FirstPlaces(paths, k, MergeRound(paths, k, u))
<1>1. /\ paths[k] \in Projects /\ paths[k] # NoProject
      /\ k \in Nat /\ Len(u) \in Nat /\ k - 1 \in Nat
      /\ ToSet(u) = {u[a] : a \in 1 .. Len(u)}
  BY HistoryAssumption DEF ToSet
<1>2. /\ Distinct(u, 1, Len(u))
      /\ Len(u) <= k - 1
      /\ \A a \in 1 .. Len(u) : \E i \in 1 .. (k - 1) : u[a] = paths[i]
      /\ \A i \in 1 .. (k - 1) : \E a \in 1 .. Len(u) : u[a] = paths[i]
      /\ \A a, b \in 1 .. Len(u) : a < b =>
            \E i \in 1 .. (k - 1) : paths[i] = u[a] /\ \A j \in 1 .. i : paths[j] # u[b]
      /\ \A i \in 1 .. (k - 1) : Distinct(paths, 1, i) => i <= Len(u) /\ u[i] = paths[i]
      /\ Distinct(paths, 2, k - 1) => \/ Len(u) >= k - 1
                                      \/ /\ Len(u) >= k - 2
                                         /\ \E j \in 2 .. (k - 1) : paths[j] = paths[1]
  BY DEF FirstPlaces
<1>3. CASE paths[k] \in ToSet(u)
  <2>1. MergeRound(paths, k, u) = u
    BY <1>3 DEF MergeRound
  <2>2. PICK c \in 1 .. Len(u) : u[c] = paths[k]
    BY <1>1, <1>3
  <2>3. PICK e \in 1 .. (k - 1) : paths[e] = paths[k]
    BY <1>2, <2>2
  <2>4. \A a \in 1 .. Len(u) : \E i \in 1 .. k : u[a] = paths[i]
    BY <1>1, <1>2
  <2>5. \A i \in 1 .. k : \E a \in 1 .. Len(u) : u[a] = paths[i]
    <3> TAKE i \in 1 .. k
    <3>1. i = k \/ i \in 1 .. (k - 1)
      BY <1>1
    <3> QED
      BY <1>2, <2>2, <3>1
  <2>6. \A a, b \in 1 .. Len(u) : a < b =>
           \E i \in 1 .. k : paths[i] = u[a] /\ \A j \in 1 .. i : paths[j] # u[b]
    <3>1. \A i \in 1 .. (k - 1) : i \in 1 .. k
      BY <1>1
    <3> QED
      BY <1>2, <3>1
  <2>7. \A i \in 1 .. k : Distinct(paths, 1, i) => i <= Len(u) /\ u[i] = paths[i]
    <3> SUFFICES ASSUME NEW i \in 1 .. k, Distinct(paths, 1, i)
                 PROVE  i <= Len(u) /\ u[i] = paths[i]
      OBVIOUS
    <3>1. i # k
      BY <1>1, <2>3 DEF Distinct
    <3>2. i \in 1 .. (k - 1)
      BY <1>1, <3>1
    <3> QED
      BY <1>2, <3>2
  <2>8. ASSUME Distinct(paths, 2, k)
        PROVE  Len(u) >= k - 1 /\ \E j \in 2 .. k : paths[j] = paths[1]
    <3>1. e = 1 /\ k \in 2 .. k
      BY <1>1, <2>3, <2>8 DEF Distinct
    <3>2. Distinct(paths, 2, k - 1)
      BY <1>1, <2>8 DEF Distinct
    <3>3. ASSUME NEW j \in 2 .. (k - 1) PROVE paths[j] # paths[1]
      <4>1. j \in 2 .. k /\ j # k
        BY <1>1
      <4> QED
        BY <2>3, <2>8, <3>1, <4>1 DEF Distinct
    <3>4. Len(u) >= k - 1
      BY <1>2, <3>2, <3>3
    <3> QED
      BY <2>3, <3>1, <3>4
  <2>9. Len(u) <= k
    BY <1>1, <1>2
  <2> QED
    BY <1>2, <2>1, <2>4, <2>5, <2>6, <2>7, <2>8, <2>9 DEF FirstPlaces
<1>4. CASE paths[k] \notin ToSet(u)
  <2> DEFINE w == Append(u, paths[k])
             n == Len(u)
  <2>1. MergeRound(paths, k, u) = w
    BY <1>1, <1>4 DEF MergeRound
  <2>2. /\ Len(w) = n + 1 /\ w[n + 1] = paths[k]
        /\ \A a \in 1 .. n : w[a] = u[a]
    BY <1>1
  <2>3. n \in Nat /\ n = Len(u) /\ \A a \in 1 .. n : u[a] # paths[k]
    BY <1>1, <1>4
  <2> HIDE DEF w, n
  <2>4. \A a \in 1 .. Len(w) : a = n + 1 \/ a \in 1 .. n
    BY <2>2, <2>3
  <2>5. \A i \in 1 .. k : i = k \/ i \in 1 .. (k - 1)
    BY <1>1
  <2>6. \A i \in 1 .. (k - 1) : i \in 1 .. k /\ paths[i] # paths[k]
    <3> TAKE i \in 1 .. (k - 1)
    <3>1. PICK a \in 1 .. n : u[a] = paths[i]
      BY <1>2, <2>3
    <3> QED
      BY <1>1, <2>3, <3>1
  <2>7. k \in 1 .. k /\ n + 1 \in 1 .. Len(w) /\ \A a \in 1 .. n : a \in 1 .. Len(w)
    BY <1>1, <2>2, <2>3
  <2>8. Distinct(w, 1, Len(w))
    <3> SUFFICES ASSUME NEW a \in 1 .. Len(w), NEW b \in 1 .. Len(w), w[a] = w[b]
                 PROVE  a = b
      BY DEF Distinct
    <3>1. CASE a \in 1 .. n /\ b \in 1 .. n
      BY <1>2, <2>2, <2>3, <3>1 DEF Distinct
    <3> QED
      BY <2>2, <2>3, <2>4, <3>1
  <2>9. \A a \in 1 .. Len(w) : \E i \in 1 .. k : w[a] = paths[i]
    <3> TAKE a \in 1 .. Len(w)
    <3>1. CASE a = n + 1
      BY <2>2, <2>7, <3>1
    <3>2. CASE a \in 1 .. n
      <4>1. PICK i \in 1 .. (k - 1) : u[a] = paths[i]
        BY <1>2, <2>3, <3>2
      <4> QED
        BY <2>2, <2>6, <3>2, <4>1
    <3> QED
      BY <2>4, <3>1, <3>2
  <2>10. \A i \in 1 .. k : \E a \in 1 .. Len(w) : w[a] = paths[i]
    <3> TAKE i \in 1 .. k
    <3>1. CASE i = k
      BY <2>2, <2>7, <3>1
    <3>2. CASE i \in 1 .. (k - 1)
      <4>1. PICK a \in 1 .. n : u[a] = paths[i]
        BY <1>2, <2>3, <3>2
      <4> QED
        BY <2>2, <2>7, <4>1
    <3> QED
      BY <2>5, <3>1, <3>2
  <2>11. ASSUME NEW a \in 1 .. Len(w), NEW b \in 1 .. Len(w), a < b
         PROVE  \E i \in 1 .. k : paths[i] = w[a] /\ \A j \in 1 .. i : paths[j] # w[b]
    <3>1. a \in 1 .. n
      BY <2>2, <2>3, <2>11
    <3>2. CASE b = n + 1
      <4>1. PICK i \in 1 .. (k - 1) : u[a] = paths[i]
        BY <1>2, <2>3, <3>1
      <4>2. \A j \in 1 .. i : j \in 1 .. (k - 1)
        BY <1>1
      <4> QED
        BY <2>2, <2>6, <3>1, <3>2, <4>1, <4>2
    <3>3. CASE b \in 1 .. n
      <4>1. PICK i \in 1 .. (k - 1) : paths[i] = u[a] /\ \A j \in 1 .. i : paths[j] # u[b]
        BY <1>2, <2>3, <2>11, <3>1, <3>3
      <4> QED
        BY <2>2, <2>6, <3>1, <3>3, <4>1
    <3> QED
      BY <2>4, <3>2, <3>3
  <2>12. ASSUME NEW i \in 1 .. k, Distinct(paths, 1, i)
         PROVE  i <= Len(w) /\ w[i] = paths[i]
    <3>1. CASE i \in 1 .. (k - 1)
      <4>1. i <= n /\ u[i] = paths[i] /\ i \in Nat /\ i >= 1
        BY <1>2, <2>3, <2>12, <3>1
      <4> QED
        BY <2>2, <2>3, <4>1
    <3>2. CASE i = k
      <4>1. CASE k = 1
        <5>1. n = 0
          BY <1>2, <2>3, <4>1
        <5> QED
          BY <2>2, <3>2, <4>1, <5>1
      <4>2. CASE k # 1
        <5>1. k - 1 \in 1 .. (k - 1) /\ Distinct(paths, 1, k - 1)
          BY <1>1, <2>12, <3>2, <4>2 DEF Distinct
        <5>2. k - 1 <= n /\ n <= k - 1
          BY <1>2, <2>3, <5>1
        <5>3. n + 1 = k
          BY <1>1, <2>3, <5>2
        <5> QED
          BY <2>2, <3>2, <5>3, <1>1
      <4> QED
        BY <4>1, <4>2
    <3> QED
      BY <2>5, <3>1, <3>2
  <2>13. ASSUME Distinct(paths, 2, k)
         PROVE  \/ Len(w) >= k
                \/ Len(w) >= k - 1 /\ \E j \in 2 .. k : paths[j] = paths[1]
    <3>1. Distinct(paths, 2, k - 1)
      BY <1>1, <2>13 DEF Distinct
    <3>2. CASE n >= k - 1
      BY <1>1, <2>2, <2>3, <3>2
    <3>3. CASE n >= k - 2 /\ \E j \in 2 .. (k - 1) : paths[j] = paths[1]
      <4>1. \A j \in 2 .. (k - 1) : j \in 2 .. k
        BY <1>1
      <4>2. Len(w) >= k - 1
        BY <1>1, <2>2, <2>3, <3>3
      <4> QED
        BY <3>3, <4>1, <4>2
    <3> QED
      BY <1>2, <2>3, <3>1, <3>2, <3>3
  <2>14. Len(w) <= k
    BY <1>1, <1>2, <2>2, <2>3
  <2> QED
    BY <2>1, <2>8, <2>9, <2>10, <2>11, <2>12, <2>13, <2>14 DEF FirstPlaces
<1> QED
  BY <1>3, <1>4

(* What mergeProjects returns. *)
LEMMA MergedFirst ==
  ASSUME NEW paths \in Seq(Projects)
  PROVE  /\ Merged(paths)[Len(paths)] \in Seq(Projects)
         /\ FirstPlaces(paths, Len(paths), Merged(paths)[Len(paths)])
<1> DEFINE n == Len(paths)
           merged == Merged(paths)
           Good == {i \in 0 .. n : FirstPlaces(paths, i, merged[i])}
<1>1. /\ n \in Nat /\ n = Len(paths)
      /\ \A i \in 0 .. n : merged[i] \in Seq(Projects)
      /\ \A i \in 0 .. n : merged[i] = IF i = 0 THEN <<>>
                                       ELSE MergeRound(paths, i, merged[i - 1])
  BY PathsMerged
<1> HIDE DEF n, merged
<1>2. 0 \in Good
  <2>1. merged[0] = <<>> /\ 0 \in 0 .. n
    BY <1>1
  <2>2. FirstPlaces(paths, 0, <<>>)
    BY DEF FirstPlaces, Distinct
  <2> QED
    BY <2>1, <2>2
<1>3. ASSUME NEW i \in 1 .. n, i - 1 \in Good PROVE i \in Good
  <2>1. i \in 0 .. n /\ i - 1 \in 0 .. n /\ i # 0
    BY <1>1
  <2>2. merged[i] = MergeRound(paths, i, merged[i - 1]) /\ merged[i - 1] \in Seq(Projects)
    BY <1>1, <2>1
  <2>3. FirstPlaces(paths, i, MergeRound(paths, i, merged[i - 1]))
    BY <1>1, <1>3, <2>2, MergeRoundKeepsFirst
  <2> QED
    BY <2>1, <2>2, <2>3
<1>4. \A i \in 0 .. n : i \in Good
  <2> HIDE DEF Good
  <2> QED
    BY <1>1, <1>2, <1>3, RoundsInduction
<1>5. n \in 0 .. n
  BY <1>1
<1> QED
  BY <1>1, <1>4, <1>5 DEF merged

(* In a list of choices, p was chosen after q was. *)
LaterIn(list, p, q) ==
    \E i \in 1 .. Len(list) : list[i] = p /\ \A j \in i .. Len(list) : list[j] # q

(* l has the latest of the chosen projects, each once, the latest first, and *)
(* HistorySize of them at most.                                              *)
LatestFirst(l, list) ==
    /\ Distinct(l, 1, Len(l))
    /\ Len(l) <= HistorySize
    /\ \A a \in 1 .. Len(l) : \E i \in 1 .. Len(list) : l[a] = list[i]
    /\ \A a, b \in 1 .. Len(l) : a < b => LaterIn(list, l[a], l[b])
    /\ \/ Len(l) = HistorySize
       \/ \A i \in 1 .. Len(list) : \E a \in 1 .. Len(l) : l[a] = list[i]
    /\ \A i \in 1 .. Len(list) : \/ \E a \in 1 .. Len(l) : l[a] = list[i]
                                 \/ \A a \in 1 .. Len(l) : LaterIn(list, l[a], list[i])

(* A choice of another project leaves alone which of two was chosen later,   *)
(* and its project comes before every other.                                 *)
LEMMA LaterStays ==
  ASSUME NEW list \in Seq(Projects), NEW path \in Projects
  PROVE  /\ \A p, q : LaterIn(list, p, q) /\ q # path => LaterIn(Append(list, path), p, q)
         /\ \A q : q # path => LaterIn(Append(list, path), path, q)
<1> DEFINE w == Append(list, path)
           n == Len(list)
<1>1. n \in Nat /\ Len(w) = n + 1 /\ w[n + 1] = path /\ \A i \in 1 .. n : w[i] = list[i]
  OBVIOUS
<1>a. n = Len(list)
  OBVIOUS
<1> HIDE DEF w, n
<1>2. ASSUME NEW p, NEW q, LaterIn(list, p, q), q # path PROVE LaterIn(w, p, q)
  <2>1. PICK i \in 1 .. n : list[i] = p /\ \A j \in i .. n : list[j] # q
    BY <1>2, <1>a DEF LaterIn
  <2>2. i \in 1 .. Len(w) /\ w[i] = p
    BY <1>1, <2>1
  <2>3. ASSUME NEW j \in i .. Len(w) PROVE w[j] # q
    <3>1. j = n + 1 \/ (j \in i .. n /\ j \in 1 .. n)
      BY <1>1, <2>1
    <3> QED
      BY <1>1, <1>2, <2>1, <3>1
  <2> QED
    BY <2>2, <2>3 DEF LaterIn
<1>3. ASSUME NEW q, q # path PROVE LaterIn(w, path, q)
  <2>1. n + 1 \in 1 .. Len(w) /\ \A j \in (n + 1) .. Len(w) : j = n + 1
    BY <1>1
  <2> QED
    BY <1>1, <1>3, <2>1 DEF LaterIn
<1> QED
  BY <1>2, <1>3 DEF w

(* Choosing a project keeps the list so: it comes first, the others follow   *)
(* in their order, and one too many is dropped from the end.                 *)
LEMMA RememberedLatest ==
  ASSUME NEW l \in Seq(Projects), NEW list \in Seq(Projects), NEW path \in Projects,
         LatestFirst(l, list)
  PROVE  /\ Remembered(path, l) \in Seq(Projects)
         /\ LatestFirst(Remembered(path, l), Append(list, path))
<1> DEFINE paths == <<path>> \o l
           u == Merged(paths)[Len(paths)]
           n == Len(l)
           m == IF Len(u) < HistorySize THEN Len(u) ELSE HistorySize
           r == SubSeq(u, 1, m)
           now == Append(list, path)
<1>1. /\ paths \in Seq(Projects) /\ n \in Nat /\ n = Len(l) /\ Len(paths) = n + 1
      /\ paths[1] = path /\ \A i \in 2 .. (n + 1) : paths[i] = l[i - 1]
  <2>1. /\ <<path>> \in Seq(Projects) /\ Len(<<path>>) = 1 /\ <<path>>[1] = path
    OBVIOUS
  <2>2. /\ paths \in Seq(Projects) /\ Len(paths) = 1 + n
        /\ \A i \in 1 .. (1 + n) : paths[i] = IF i <= 1 THEN <<path>>[i] ELSE l[i - 1]
    BY <2>1, ConcatProperties
  <2>3. n \in Nat
    OBVIOUS
  <2> HIDE DEF paths, n
  <2>4. 1 \in 1 .. (1 + n) /\ \A i \in 2 .. (n + 1) : i \in 1 .. (1 + n) /\ ~ (i <= 1)
    BY <2>3
  <2> QED
    BY <2>1, <2>2, <2>3, <2>4 DEF n
<1>2. u \in Seq(Projects) /\ FirstPlaces(paths, n + 1, u)
  BY <1>1, MergedFirst
<1>3. Remembered(path, l) = r
  BY DEF Remembered, FirstOf, MergeProjects
<1>4. /\ HistorySize \in Nat /\ HistorySize >= 1 /\ Len(u) \in Nat
      /\ m \in Nat /\ m <= Len(u) /\ m <= HistorySize /\ (m = Len(u) \/ m = HistorySize)
  BY <1>2, HistoryAssumption
<1>5. r \in Seq(Projects) /\ Len(r) = m /\ \A a \in 1 .. m : r[a] = u[a]
  <2> HIDE DEF u, m
  <2>1. \A a \in 1 .. m : a \in 1 .. Len(u) /\ u[a] \in Projects
    BY <1>2, <1>4
  <2>2. 1 \in Int /\ m \in Int
    BY <1>4
  <2>3. /\ r \in Seq(Projects) /\ Len(r) = IF 1 <= m THEN m - 1 + 1 ELSE 0
        /\ \A a \in 1 .. m - 1 + 1 : r[a] = u[1 + a - 1]
    BY <2>1, <2>2, SubSeqProperties
  <2>4. Len(r) = m
    BY <1>4, <2>3
  <2>5. \A a \in 1 .. m : a \in 1 .. m - 1 + 1 /\ 1 + a - 1 = a
    BY <1>4
  <2> QED
    BY <2>3, <2>4, <2>5
<1>6. /\ now \in Seq(Projects) /\ Len(now) = Len(list) + 1 /\ now[Len(list) + 1] = path
      /\ Len(list) \in Nat /\ \A i \in 1 .. Len(list) : now[i] = list[i]
  OBVIOUS
<1>7. /\ \A p, q : LaterIn(list, p, q) /\ q # path => LaterIn(now, p, q)
      /\ \A q : q # path => LaterIn(now, path, q)
  BY LaterStays
<1>8. /\ Distinct(l, 1, n)
      /\ n <= HistorySize
      /\ \A a \in 1 .. n : \E i \in 1 .. Len(list) : l[a] = list[i]
      /\ \A a, b \in 1 .. n : a < b => LaterIn(list, l[a], l[b])
      /\ \/ n = HistorySize
         \/ \A i \in 1 .. Len(list) : \E a \in 1 .. n : l[a] = list[i]
      /\ \A i \in 1 .. Len(list) : \/ \E a \in 1 .. n : l[a] = list[i]
                                   \/ \A a \in 1 .. n : LaterIn(list, l[a], list[i])
  BY DEF LatestFirst
<1> HIDE DEF paths, u, n, m, r, now
<1>9. /\ Distinct(u, 1, Len(u))
      /\ \A a \in 1 .. Len(u) : \E i \in 1 .. (n + 1) : u[a] = paths[i]
      /\ \A i \in 1 .. (n + 1) : \E a \in 1 .. Len(u) : u[a] = paths[i]
      /\ \A a, b \in 1 .. Len(u) : a < b =>
            \E i \in 1 .. (n + 1) : paths[i] = u[a] /\ \A j \in 1 .. i : paths[j] # u[b]
      /\ Distinct(paths, 1, 1) => 1 <= Len(u) /\ u[1] = paths[1]
      /\ Distinct(paths, 2, n + 1) => \/ Len(u) >= n + 1
                                      \/ /\ Len(u) >= n
                                         /\ \E j \in 2 .. (n + 1) : paths[j] = paths[1]
  <2>1. 1 \in 1 .. (n + 1)
    BY <1>1
  <2>2. \A i \in 1 .. (n + 1) : Distinct(paths, 1, i) => i <= Len(u) /\ u[i] = paths[i]
    BY <1>2 DEF FirstPlaces
  <2>3. Distinct(paths, 1, 1) => 1 <= Len(u) /\ u[1] = paths[1]
    BY <2>1, <2>2
  <2> DEFINE k == n + 1
  <2>a. FirstPlaces(paths, k, u)
    BY <1>2
  <2>b. Distinct(paths, 2, k) => \/ Len(u) >= k
                                 \/ Len(u) >= k - 1 /\ \E j \in 2 .. k : paths[j] = paths[1]
    <3> HIDE DEF k
    <3> QED
      BY <2>a DEF FirstPlaces
  <2>4. Distinct(paths, 2, n + 1) => \/ Len(u) >= n + 1
                                     \/ /\ Len(u) >= n
                                        /\ \E j \in 2 .. (n + 1) : paths[j] = paths[1]
    BY <1>1, <2>b
  <2>5. /\ Distinct(u, 1, Len(u))
        /\ \A a \in 1 .. Len(u) : \E i \in 1 .. (n + 1) : u[a] = paths[i]
        /\ \A i \in 1 .. (n + 1) : \E a \in 1 .. Len(u) : u[a] = paths[i]
    BY <1>2 DEF FirstPlaces
  <2>6. \A a, b \in 1 .. Len(u) : a < b =>
            \E i \in 1 .. (n + 1) : paths[i] = u[a] /\ \A j \in 1 .. i : paths[j] # u[b]
    BY <1>2 DEF FirstPlaces
  <2> QED
    BY <2>3, <2>4, <2>5, <2>6
<1>10. 1 <= Len(u) /\ u[1] = path /\ 1 \in 1 .. m
  <2>1. Distinct(paths, 1, 1)
    BY DEF Distinct
  <2> QED
    BY <1>1, <1>4, <1>9, <2>1
(* Of what the merge gathers, the project comes first and the others stood   *)
(* in the list in this order.                                                *)
<1>11. ASSUME NEW a \in 1 .. Len(u), a # 1
       PROVE  u[a] # path /\ \E i \in 1 .. n : u[a] = l[i]
  <2>1. u[a] # path
    <3>1. 1 \in 1 .. Len(u)
      BY <1>4, <1>10
    <3>2. \A x, y \in 1 .. Len(u) : u[x] = u[y] => x = y
      BY <1>9 DEF Distinct
    <3> QED
      BY <1>10, <1>11, <3>1, <3>2
  <2>2. PICK i \in 1 .. (n + 1) : u[a] = paths[i]
    BY <1>9
  <2>3. i \in 2 .. (n + 1) /\ i - 1 \in 1 .. n
    BY <1>1, <2>1, <2>2
  <2> QED
    BY <1>1, <2>1, <2>2, <2>3
<1>12. ASSUME NEW a \in 1 .. Len(u), NEW b \in 1 .. Len(u), a < b
       PROVE  LaterIn(now, u[a], u[b])
  <2>1. b # 1 /\ u[b] # path
    BY <1>4, <1>11, <1>12
  <2>2. CASE a = 1
    BY <1>7, <1>10, <2>1, <2>2
  <2>3. CASE a # 1
    <3>1. PICK i \in 1 .. (n + 1) : paths[i] = u[a] /\ \A j \in 1 .. i : paths[j] # u[b]
      BY <1>9, <1>12
    <3>2. u[a] # path
      BY <1>11, <2>3
    <3>3. i \in 2 .. (n + 1) /\ i - 1 \in 1 .. n /\ l[i - 1] = u[a]
      BY <1>1, <3>1, <3>2
    <3>4. PICK j \in 1 .. n : u[b] = l[j]
      BY <1>11, <2>1
    <3>5. i - 1 < j
      <4> SUFFICES ASSUME j + 1 <= i PROVE FALSE
        BY <1>1, <3>3, <3>4
      <4>1. j + 1 \in 1 .. i /\ j + 1 \in 2 .. (n + 1) /\ (j + 1) - 1 = j
        BY <1>1
      <4> QED
        BY <1>1, <3>1, <3>4, <4>1
    <3>6. LaterIn(list, u[a], u[b])
      BY <1>8, <3>3, <3>4, <3>5
    <3> QED
      BY <1>7, <2>1, <3>6
  <2> QED
    BY <2>2, <2>3
<1>13. \A a \in 1 .. m : a \in 1 .. Len(u)
  BY <1>4
<1>14. Distinct(r, 1, Len(r))
  <2>1. \A a, b \in 1 .. Len(u) : u[a] = u[b] => a = b
    BY <1>9 DEF Distinct
  <2>2. \A a, b \in 1 .. m : r[a] = r[b] => a = b
    BY <1>5, <1>13, <2>1
  <2> QED
    BY <1>5, <2>2 DEF Distinct
<1>15. ASSUME NEW a \in 1 .. Len(r) PROVE \E i \in 1 .. Len(now) : r[a] = now[i]
  <2>1. r[a] = u[a] /\ a \in 1 .. Len(u)
    BY <1>5, <1>13
  <2>2. CASE a = 1
    <3>1. Len(list) + 1 \in 1 .. Len(now)
      BY <1>6
    <3> QED
      BY <1>6, <1>10, <2>1, <2>2, <3>1
  <2>3. CASE a # 1
    <3>1. PICK j \in 1 .. n : u[a] = l[j]
      BY <1>11, <2>1, <2>3
    <3>2. PICK i \in 1 .. Len(list) : l[j] = list[i]
      BY <1>8
    <3>3. i \in 1 .. Len(now)
      BY <1>6
    <3> QED
      BY <1>6, <2>1, <3>1, <3>2, <3>3
  <2> QED
    BY <2>2, <2>3
<1>16. ASSUME NEW a \in 1 .. Len(r), NEW b \in 1 .. Len(r), a < b
       PROVE  LaterIn(now, r[a], r[b])
  BY <1>5, <1>12, <1>13, <1>16
<1>17. \A i \in 1 .. Len(now) : i = Len(list) + 1 \/ i \in 1 .. Len(list)
  BY <1>6
(* A project of the list is among what the merge gathers. *)
<1>18. ASSUME NEW j \in 1 .. n PROVE \E a \in 1 .. Len(u) : u[a] = l[j]
  <2>1. j + 1 \in 1 .. (n + 1) /\ j + 1 \in 2 .. (n + 1) /\ (j + 1) - 1 = j
    BY <1>1
  <2>2. paths[j + 1] = l[j]
    BY <1>1, <2>1
  <2>3. PICK a \in 1 .. Len(u) : u[a] = paths[j + 1]
    BY <1>9, <2>1
  <2> QED
    BY <2>2, <2>3
<1>19. \/ m = HistorySize
       \/ \A i \in 1 .. Len(now) : \E a \in 1 .. m : r[a] = now[i]
  <2> SUFFICES ASSUME m # HistorySize, NEW i \in 1 .. Len(now)
               PROVE  \E a \in 1 .. m : r[a] = now[i]
    OBVIOUS
  <2>1. m = Len(u) /\ Len(u) < HistorySize
    BY <1>4
  <2>2. CASE i = Len(list) + 1
    BY <1>5, <1>6, <1>10, <2>2
  <2>3. CASE i \in 1 .. Len(list)
    <3>1. Distinct(paths, 2, n + 1)
      <4> SUFFICES ASSUME NEW a \in 2 .. (n + 1), NEW b \in 2 .. (n + 1),
                          paths[a] = paths[b]
                   PROVE  a = b
        BY DEF Distinct
      <4>1. a - 1 \in 1 .. n /\ b - 1 \in 1 .. n /\ l[a - 1] = l[b - 1]
        BY <1>1
      <4>2. a - 1 = b - 1
        BY <1>8, <4>1 DEF Distinct
      <4> QED
        BY <1>1, <4>2
    <3>2. n <= Len(u)
      BY <1>1, <1>4, <1>9, <3>1
    <3>3. n # HistorySize
      BY <1>1, <1>4, <2>1, <3>2
    <3>4. PICK j \in 1 .. n : l[j] = list[i]
      BY <1>8, <2>3, <3>3
    <3>5. PICK a \in 1 .. Len(u) : u[a] = l[j]
      BY <1>18
    <3> QED
      BY <1>5, <1>6, <2>1, <2>3, <3>4, <3>5
  <2> QED
    BY <1>17, <2>2, <2>3
<1>20. ASSUME NEW i \in 1 .. Len(now), \A a \in 1 .. m : r[a] # now[i]
       PROVE  \A a \in 1 .. m : LaterIn(now, r[a], now[i])
  <2> TAKE a \in 1 .. m
  <2>1. now[i] # path
    BY <1>5, <1>10, <1>20
  <2>2. i \in 1 .. Len(list) /\ now[i] = list[i]
    BY <1>6, <1>17, <2>1
  <2>3. a \in 1 .. Len(u) /\ r[a] = u[a]
    BY <1>5, <1>13
  <2>4. CASE a = 1
    BY <1>7, <1>10, <2>1, <2>3, <2>4
  <2>5. CASE a # 1
    <3>1. PICK c \in 1 .. n : u[a] = l[c]
      BY <1>11, <2>3, <2>5
    <3>2. CASE \E j \in 1 .. n : l[j] = list[i]
      <4>1. PICK b \in 1 .. Len(u) : u[b] = list[i]
        BY <1>18, <3>2
      <4>2. b \notin 1 .. m
        BY <1>5, <1>20, <2>2, <4>1
      <4>3. a < b
        BY <1>4, <4>2
      <4> QED
        BY <1>12, <2>2, <2>3, <4>1, <4>3
    <3>3. CASE ~ \E j \in 1 .. n : l[j] = list[i]
      <4>1. LaterIn(list, l[c], list[i])
        BY <1>8, <2>2, <3>3
      <4> QED
        BY <1>7, <2>1, <2>2, <2>3, <3>1, <4>1
    <3> QED
      BY <3>2, <3>3
  <2> QED
    BY <2>4, <2>5
<1>21. LatestFirst(r, now)
  BY <1>4, <1>5, <1>14, <1>15, <1>16, <1>19, <1>20 DEF LatestFirst
<1> QED
  BY <1>3, <1>5, <1>21 DEF now

(* The page's own list begins with the latest choices; besides, the types    *)
(* of the variables.                                                         *)
HistoryInv ==
    /\ HistoryTypeOK
    /\ chosen \in Seq(Projects) /\ optimistic \in Seq(Projects) /\ served \in Seq(Projects)
    /\ LatestFirst(optimistic, chosen)

(* So does what a choice makes of it. *)
LEMMA ChoiceKeepsHistory ==
  ASSUME HistoryInv, NEW path \in Projects \cup {NoProject}, Choose(path)
  PROVE  /\ chosen' \in Seq(Projects) /\ optimistic' \in Seq(Projects)
         /\ LatestFirst(optimistic', chosen')
<1>1. CASE path = NoProject
  BY <1>1 DEF Choose, HistoryInv
<1>2. CASE path # NoProject
  <2>1. /\ path \in Projects /\ optimistic \in Seq(Projects) /\ chosen \in Seq(Projects)
        /\ LatestFirst(optimistic, chosen)
        /\ optimistic' = Remembered(path, optimistic) /\ chosen' = Append(chosen, path)
    BY <1>2 DEF Choose, HistoryInv
  <2>2. Append(chosen, path) \in Seq(Projects)
    BY <2>1
  <2> QED
    BY <2>1, <2>2, RememberedLatest
<1> QED
  BY <1>1, <1>2

(* A fresh page has it.                                                   *)
LEMMA HistoryInitially == HistoryInit => HistoryInv
<1> SUFFICES ASSUME HistoryInit PROVE HistoryInv
  OBVIOUS
<1>1. LatestFirst(<<>>, <<>>)
  BY HistoryAssumption DEF LatestFirst, Distinct
<1>2. HistoryTypeOK
  <2>1. Len(<<>>) = 0 /\ 0 <= HistorySize
    BY HistoryAssumption
  <2> QED
    BY <2>1 DEF HistoryInit, HistoryTypeOK
<1>3. chosen = <<>> /\ optimistic = <<>> /\ served = <<>>
  BY DEF HistoryInit
<1>4. chosen \in Seq(Projects) /\ optimistic \in Seq(Projects) /\ served \in Seq(Projects)
  BY <1>3
<1> QED
  BY <1>1, <1>2, <1>3, <1>4 DEF HistoryInv

(* Every step keeps it. *)
LEMMA HistoryInvInductive == HistoryInv /\ [HistoryNext]_historyVars => HistoryInv'
<1> SUFFICES ASSUME HistoryInv, [HistoryNext]_historyVars PROVE HistoryInv'
  OBVIOUS
<1>a. /\ kind \in {"simulation", "tx"} /\ running \in BOOLEAN
      /\ projectPath \in Projects \cup {NoProject}
      /\ defaultPath \in {DefaultProject, NoProject}
      /\ waiting \subseteq {"browse", "add"}
      /\ menuOpen => kind = "simulation"
      /\ chosen \in Seq(Projects) /\ optimistic \in Seq(Projects) /\ served \in Seq(Projects)
      /\ LatestFirst(optimistic, chosen)
  BY DEF HistoryInv, HistoryTypeOK
<1>b. DefaultProject \in Projects /\ Lists \subseteq Seq(Projects) /\ <<>> \in Seq(Projects)
  BY HistoryAssumption
<1> DEFINE Kept ==
             /\ kind' \in {"simulation", "tx"} /\ running' \in BOOLEAN
             /\ projectPath' \in Projects \cup {NoProject}
             /\ defaultPath' \in {DefaultProject, NoProject}
             /\ waiting' \subseteq {"browse", "add"}
             /\ menuOpen' => kind' = "simulation"
             /\ chosen' \in Seq(Projects) /\ optimistic' \in Seq(Projects)
             /\ served' \in Seq(Projects)
             /\ LatestFirst(optimistic', chosen')
<1>c. Kept => HistoryInv'
  BY DEF HistoryInv, HistoryTypeOK, LatestFirst
<1>1. ASSUME ToggleMenu PROVE Kept
  BY <1>a, <1>b, <1>1 DEF ToggleMenu
<1>2. ASSUME DismissMenu PROVE Kept
  BY <1>a, <1>b, <1>2 DEF DismissMenu
<1>3. ASSUME SelectDefault PROVE Kept
  <2>1. Choose(defaultPath)
    BY <1>3 DEF SelectDefault
  <2>2. defaultPath \in Projects \cup {NoProject}
    BY <1>a, <1>b
  <2>3. /\ chosen' \in Seq(Projects) /\ optimistic' \in Seq(Projects)
        /\ LatestFirst(optimistic', chosen')
    BY <2>1, <2>2, ChoiceKeepsHistory
  <2> QED
    BY <1>a, <1>b, <1>3, <2>3 DEF SelectDefault
<1>4. ASSUME SourceAdded PROVE Kept
  <2>1. Choose(DefaultProject)
    BY <1>4 DEF SourceAdded
  <2>2. DefaultProject \in Projects \cup {NoProject}
    BY <1>a, <1>b
  <2>3. /\ chosen' \in Seq(Projects) /\ optimistic' \in Seq(Projects)
        /\ LatestFirst(optimistic', chosen')
    BY <2>1, <2>2, ChoiceKeepsHistory
  <2> QED
    BY <1>a, <1>b, <1>4, <2>3 DEF SourceAdded
<1>5. ASSUME BeginRun PROVE Kept
  BY <1>a, <1>b, <1>5 DEF BeginRun
<1>6. ASSUME NEW newKind \in {"simulation", "tx"}, ChooseRequestKind(newKind) PROVE Kept
  BY <1>a, <1>b, <1>6 DEF ChooseRequestKind
<1>7. ASSUME NEW newKind \in {"simulation", "tx"}, NEW path \in Projects \cup {NoProject},
             ShowRecord(newKind, path)
      PROVE  Kept
  <2>1. Choose(path)
    BY <1>7 DEF ShowRecord
  <2>2. path \in Projects \cup {NoProject}
    BY <1>a, <1>b
  <2>3. /\ chosen' \in Seq(Projects) /\ optimistic' \in Seq(Projects)
        /\ LatestFirst(optimistic', chosen')
    BY <2>1, <2>2, ChoiceKeepsHistory
  <2> QED
    BY <1>a, <1>b, <1>7, <2>3 DEF ShowRecord
<1>8. ASSUME NEW path \in Projects \cup {NoProject}, TypePath(path) PROVE Kept
  BY <1>a, <1>b, <1>8 DEF TypePath
<1>9. ASSUME NEW path \in Projects, SelectPast(path) PROVE Kept
  BY <1>a, <1>b, <1>9 DEF SelectPast
<1>10. ASSUME NEW path \in Projects, Browsed(path) PROVE Kept
  <2>1. Choose(path)
    BY <1>10 DEF Browsed
  <2>2. path \in Projects \cup {NoProject}
    BY <1>a, <1>b
  <2>3. /\ chosen' \in Seq(Projects) /\ optimistic' \in Seq(Projects)
        /\ LatestFirst(optimistic', chosen')
    BY <2>1, <2>2, ChoiceKeepsHistory
  <2> QED
    BY <1>a, <1>b, <1>10, <2>3 DEF Browsed
<1>11. ASSUME NEW button \in {"browse", "add"}, Ask(button) PROVE Kept
  BY <1>a, <1>b, <1>11 DEF Ask
<1>12. ASSUME NEW button \in {"browse", "add"}, AskFails(button) PROVE Kept
  BY <1>a, <1>b, <1>12 DEF AskFails
<1>13. ASSUME NEW list \in Lists \cup {<<>>}, ProjectsFetched(list) PROVE Kept
  BY <1>a, <1>b, <1>13 DEF ProjectsFetched
<1>14. ASSUME NEW success \in BOOLEAN, EndRun(success) PROVE Kept
  <2>1. LatestFirst(<<>>, <<>>)
    BY HistoryAssumption DEF LatestFirst, Distinct
  <2> QED
    BY <1>a, <1>b, <1>14, <2>1 DEF EndRun
<1>15. CASE UNCHANGED historyVars
  BY <1>a, <1>15, <1>c DEF historyVars
<1> HIDE DEF Kept
<1> QED
  BY <1>1, <1>2, <1>3, <1>4, <1>5, <1>6, <1>7, <1>8, <1>9, <1>10, <1>11, <1>12, <1>13, <1>14, <1>15,
     <1>c DEF HistoryNext

(* What the list of past projects shows, as the list and its parts. *)
LEMMA HistoryInvShown == HistoryInv => PastListsLatestFirst
<1> SUFFICES ASSUME HistoryInv PROVE PastListsLatestFirst
  OBVIOUS
<1> DEFINE paths == optimistic \o served
           s == Suggestions
           n == Len(optimistic)
           m == Len(served)
           kept == SubSeq(s, 1, n)
           rest == SubSeq(s, n + 1, Len(s))
<1>1. /\ chosen \in Seq(Projects) /\ optimistic \in Seq(Projects) /\ served \in Seq(Projects)
      /\ LatestFirst(optimistic, chosen) /\ n \in Nat /\ m \in Nat
  BY DEF HistoryInv
<1>2. /\ paths \in Seq(Projects) /\ Len(paths) = n + m
      /\ \A i \in 1 .. (n + m) : paths[i] = IF i <= n THEN optimistic[i] ELSE served[i - n]
  BY <1>1, ConcatProperties
<1>3. s \in Seq(Projects) /\ FirstPlaces(paths, n + m, s)
  <2>1. s = Merged(paths)[Len(paths)]
    BY DEF Suggestions, MergeProjects
  <2> HIDE DEF s, paths, n, m
  <2> QED
    BY <1>2, <2>1, MergedFirst
<1>a. n = Len(optimistic) /\ m = Len(served)
  OBVIOUS
<1> HIDE DEF paths, s, n, m, kept, rest
<1>4. /\ \A i \in 1 .. n : i \in 1 .. (n + m) /\ paths[i] = optimistic[i]
      /\ \A i \in 1 .. m : n + i \in 1 .. (n + m) /\ paths[n + i] = served[i]
      /\ \A i \in 1 .. (n + m) : i \in 1 .. n \/ i - n \in 1 .. m
  <2>1. \A i \in 1 .. n : i \in 1 .. (n + m) /\ i <= n
    BY <1>1
  <2>3. \A i \in 1 .. (n + m) : i \in 1 .. n \/ i - n \in 1 .. m
    BY <1>1
  <2>4. ASSUME NEW i \in 1 .. m PROVE n + i \in 1 .. (n + m) /\ paths[n + i] = served[i]
    <3>1. n + i \in 1 .. (n + m) /\ ~ (n + i <= n) /\ (n + i) - n = i
      BY <1>1
    <3> QED
      BY <1>2, <3>1
  <2>5. \A i \in 1 .. n : i \in 1 .. (n + m) /\ paths[i] = optimistic[i]
    BY <1>2, <2>1
  <2> QED
    BY <2>3, <2>4, <2>5
<1>5. /\ Distinct(optimistic, 1, n) /\ n <= HistorySize
      /\ \A a \in 1 .. n : \E i \in 1 .. Len(chosen) : optimistic[a] = chosen[i]
      /\ \A a, b \in 1 .. n : a < b => LaterIn(chosen, optimistic[a], optimistic[b])
      /\ \/ n = HistorySize
         \/ \A i \in 1 .. Len(chosen) : \E a \in 1 .. n : optimistic[a] = chosen[i]
      /\ \A i \in 1 .. Len(chosen) :
            \/ \E a \in 1 .. n : optimistic[a] = chosen[i]
            \/ \A a \in 1 .. n : LaterIn(chosen, optimistic[a], chosen[i])
  BY <1>1, <1>a DEF LatestFirst
<1>6. /\ \A a, b \in 1 .. Len(s) : s[a] = s[b] => a = b
      /\ \A a \in 1 .. Len(s) : \E i \in 1 .. (n + m) : s[a] = paths[i]
      /\ \A i \in 1 .. (n + m) : \E a \in 1 .. Len(s) : s[a] = paths[i]
  BY <1>3 DEF FirstPlaces, Distinct
<1>7. \A a, b \in 1 .. Len(s) : a < b =>
         \E i \in 1 .. (n + m) : paths[i] = s[a] /\ \A j \in 1 .. i : paths[j] # s[b]
  BY <1>3 DEF FirstPlaces
<1>8. \A i \in 1 .. (n + m) : Distinct(paths, 1, i) => i <= Len(s) /\ s[i] = paths[i]
  BY <1>3 DEF FirstPlaces
<1>9. Len(s) \in Nat /\ DOMAIN s = 1 .. Len(s)
  BY <1>3
(* The list begins with the page's own, *)
<1>10. /\ n <= Len(s) /\ \A i \in 1 .. n : i \in 1 .. Len(s) /\ s[i] = optimistic[i]
  <2>1. ASSUME NEW i \in 1 .. n PROVE i <= Len(s) /\ s[i] = optimistic[i]
    <3>1. \A j \in 1 .. i : j \in 1 .. n
      BY <1>1
    <3>2. Distinct(paths, 1, i)
      BY <1>4, <1>5, <3>1 DEF Distinct
    <3>3. i \in 1 .. (n + m) /\ paths[i] = optimistic[i]
      BY <1>4
    <3> QED
      BY <1>8, <3>2, <3>3
  <2>2. n <= Len(s)
    <3>1. CASE n = 0
      BY <1>9, <3>1
    <3>2. CASE n # 0
      <4>1. n \in 1 .. n
        BY <1>1, <3>2
      <4> QED
        BY <2>1, <4>1
    <3> QED
      BY <3>1, <3>2
  <2>3. \A i \in 1 .. n : i \in 1 .. Len(s)
    BY <1>1, <1>9, <2>2
  <2> QED
    BY <2>1, <2>2, <2>3
<1> DEFINE r == Len(s) - n
<1>11. /\ Len(kept) = n /\ DOMAIN kept = 1 .. n /\ \A i \in 1 .. n : kept[i] = optimistic[i]
       /\ r \in Nat /\ Len(rest) = r /\ DOMAIN rest = 1 .. r
       /\ \A i \in 1 .. r : rest[i] = s[n + i] /\ n + i \in 1 .. Len(s)
  <2>1. \A i \in 1 .. Len(s) : s[i] \in Projects
    BY <1>3
  <2>2. /\ 1 \in Int /\ n \in Int /\ n + 1 \in Int /\ Len(s) \in Int
        /\ \A i \in 1 .. n : s[i] \in Projects
        /\ \A i \in (n + 1) .. Len(s) : s[i] \in Projects
    BY <1>1, <1>9, <1>10, <2>1
  <2>3. /\ kept \in Seq(Projects) /\ Len(kept) = IF 1 <= n THEN n - 1 + 1 ELSE 0
        /\ \A i \in 1 .. n - 1 + 1 : kept[i] = s[1 + i - 1]
    BY <2>2, SubSeqProperties DEF kept
  <2>4. /\ rest \in Seq(Projects)
        /\ Len(rest) = IF n + 1 <= Len(s) THEN Len(s) - (n + 1) + 1 ELSE 0
        /\ \A i \in 1 .. Len(s) - (n + 1) + 1 : rest[i] = s[(n + 1) + i - 1]
    BY <2>2, SubSeqProperties DEF rest
  <2>5. Len(kept) = n /\ \A i \in 1 .. n : i \in 1 .. n - 1 + 1 /\ 1 + i - 1 = i
    BY <1>1, <2>3
  <2>6. r \in Nat /\ Len(rest) = r /\ r = Len(s) - n
    <3> DEFINE l == Len(s)
    <3>1. l \in Nat /\ n \in Nat /\ n <= l /\ r = l - n
      BY <1>1, <1>9, <1>10
    <3>2. Len(rest) = IF n + 1 <= l THEN l - (n + 1) + 1 ELSE 0
      BY <2>4
    <3> HIDE DEF l, r
    <3>3. r \in Nat /\ (n + 1 <= l => l - (n + 1) + 1 = r) /\ (~ (n + 1 <= l) => r = 0)
      BY <3>1
    <3> QED
      BY <3>1, <3>2, <3>3 DEF l
  <2> HIDE DEF r
  <2>7. ASSUME NEW i \in 1 .. r PROVE rest[i] = s[n + i] /\ n + i \in 1 .. Len(s)
    <3>1. /\ i \in 1 .. Len(s) - (n + 1) + 1 /\ (n + 1) + i - 1 = n + i
          /\ n + i \in 1 .. Len(s)
      BY <1>1, <1>9, <2>6
    <3> QED
      BY <2>4, <3>1
  <2>8. \A i \in 1 .. n : kept[i] = optimistic[i]
    <3> TAKE i \in 1 .. n
    <3>1. kept[i] = s[1 + i - 1] /\ 1 + i - 1 = i
      BY <2>3, <2>5
    <3> QED
      BY <1>10, <3>1
  <2>9. DOMAIN kept = 1 .. n /\ DOMAIN rest = 1 .. r
    BY <2>3, <2>4, <2>5, <2>6
  <2> QED
    BY <2>5, <2>6, <2>7, <2>8, <2>9
<1> HIDE DEF r
(* and goes on with what only the backend lists. *)
<1>12. ASSUME NEW i \in 1 .. r
       PROVE  /\ \A a \in 1 .. n : optimistic[a] # rest[i]
              /\ \E j \in 1 .. m : served[j] = rest[i]
  <2>1. ASSUME NEW a \in 1 .. n PROVE optimistic[a] # rest[i]
    <3>1. s[a] = optimistic[a] /\ rest[i] = s[n + i] /\ a # n + i
      BY <1>1, <1>10, <1>11
    <3>2. a \in 1 .. Len(s) /\ n + i \in 1 .. Len(s)
      BY <1>10, <1>11
    <3>3. s[a] # s[n + i]
      BY <1>6, <3>1, <3>2
    <3> QED
      BY <3>1, <3>3
  <2>a. rest[i] = s[n + i] /\ n + i \in 1 .. Len(s)
    BY <1>11
  <2>2. PICK j \in 1 .. (n + m) : rest[i] = paths[j]
    BY <1>6, <2>a
  <2>3. j \notin 1 .. n
    BY <1>4, <2>1, <2>2
  <2>4. j - n \in 1 .. m /\ n + (j - n) = j
    BY <1>1, <1>4, <2>3
  <2>5. served[j - n] = rest[i]
    BY <1>4, <2>2, <2>4
  <2> QED
    BY <2>1, <2>4, <2>5
<1>13. ASSUME NEW j \in 1 .. m, \A a \in 1 .. n : optimistic[a] # served[j]
       PROVE  \E i \in 1 .. r : rest[i] = served[j]
  <2>1. PICK a \in 1 .. Len(s) : s[a] = served[j]
    BY <1>4, <1>6
  <2>2. a \notin 1 .. n
    BY <1>10, <1>13, <2>1
  <2>3. a - n \in 1 .. r /\ n + (a - n) = a
    BY <1>1, <1>9, <2>2 DEF r
  <2> QED
    BY <1>11, <2>1, <2>3
<1>14. ASSUME NEW i \in 1 .. r, NEW j \in 1 .. r, i < j
       PROVE  ListedBefore(served, rest[i], rest[j])
  <2>1. n + i < n + j
    BY <1>1, <1>14
  <2>a. /\ rest[i] = s[n + i] /\ n + i \in 1 .. Len(s)
        /\ rest[j] = s[n + j] /\ n + j \in 1 .. Len(s)
    BY <1>11
  <2>2. PICK t \in 1 .. (n + m) : /\ paths[t] = rest[i]
                                  /\ \A c \in 1 .. t : paths[c] # rest[j]
    BY <1>7, <2>1, <2>a
  <2>3. t \notin 1 .. n
    BY <1>4, <1>12, <2>2
  <2>4. t - n \in 1 .. m /\ n + (t - n) = t
    BY <1>1, <1>4, <2>3
  <2>5. served[t - n] = rest[i]
    BY <1>4, <2>2, <2>4
  <2>6. ASSUME NEW c \in 1 .. (t - n) PROVE served[c] # rest[j]
    <3>1. c \in 1 .. m /\ n + c \in 1 .. t
      BY <1>1, <2>4
    <3> QED
      BY <1>4, <2>2, <3>1
  <2>7. DOMAIN served = 1 .. m
    BY <1>1, <1>a
  <2> QED
    BY <2>4, <2>5, <2>6, <2>7 DEF ListedBefore
<1>15. /\ \A p : p \in ToSet(kept) <=> \E a \in 1 .. n : optimistic[a] = p
       /\ \A p : p \in ToSet(rest) <=> \E i \in 1 .. r : rest[i] = p
       /\ \A p : p \in ToSet(chosen) <=> \E i \in 1 .. Len(chosen) : chosen[i] = p
       /\ \A p : p \in ToSet(served) <=> \E i \in 1 .. m : served[i] = p
  <2>1. DOMAIN chosen = 1 .. Len(chosen) /\ DOMAIN served = 1 .. m
    BY <1>1, <1>a
  <2> QED
    BY <1>11, <2>1 DEF ToSet
<1>16. \A p, q : LaterIn(chosen, p, q) <=> ChosenAfter(p, q)
  <2>1. DOMAIN chosen = 1 .. Len(chosen)
    BY <1>1
  <2> QED
    BY <2>1 DEF LaterIn, ChosenAfter
<1>17. IsInjective(s)
  BY <1>6, <1>9 DEF IsInjective
<1>18. ToSet(kept) \subseteq ToSet(chosen)
  BY <1>5, <1>15
<1>19. n = HistorySize \/ (n < HistorySize /\ ToSet(chosen) \subseteq ToSet(kept))
  <2>1. HistorySize \in Nat
    BY HistoryAssumption
  <2>2. CASE n = HistorySize
    BY <2>2
  <2>3. CASE n # HistorySize
    <3>1. n < HistorySize
      BY <1>1, <1>5, <2>1, <2>3
    <3> QED
      BY <1>5, <1>15, <2>3, <3>1
  <2> QED
    BY <2>2, <2>3
<1>20. \A i, j \in 1 .. n : i < j => ChosenAfter(kept[i], kept[j])
  BY <1>5, <1>11, <1>16
<1>21. ASSUME NEW p \in ToSet(kept), NEW q \in ToSet(chosen) \ ToSet(kept)
       PROVE  ChosenAfter(p, q)
  <2>1. PICK a \in 1 .. n : optimistic[a] = p
    BY <1>15
  <2>2. PICK i \in 1 .. Len(chosen) : chosen[i] = q
    BY <1>15
  <2>3. ~ \E b \in 1 .. n : optimistic[b] = chosen[i]
    BY <1>15, <2>2
  <2>4. LaterIn(chosen, optimistic[a], chosen[i])
    BY <1>5, <2>3
  <2> QED
    BY <1>16, <2>1, <2>2, <2>4
<1>22. ToSet(rest) = ToSet(served) \ ToSet(kept)
  <2>1. ASSUME NEW p \in ToSet(rest) PROVE p \in ToSet(served) \ ToSet(kept)
    BY <1>12, <1>15
  <2>2. ASSUME NEW p \in ToSet(served) \ ToSet(kept) PROVE p \in ToSet(rest)
    <3>1. PICK j \in 1 .. m : served[j] = p
      BY <1>15
    <3> QED
      BY <1>13, <1>15, <3>1
  <2> QED
    BY <2>1, <2>2
<1>23. \A i, j \in DOMAIN rest : i < j => ListedBefore(served, rest[i], rest[j])
  BY <1>11, <1>14
<1>24. n \in 0 .. Len(s)
  BY <1>1, <1>9, <1>10
<1>25. \E c \in 0 .. Len(s) :
          LET K == SubSeq(s, 1, c)
              R == SubSeq(s, c + 1, Len(s))
          IN  /\ ToSet(K) \subseteq ToSet(chosen)
              /\ c = HistorySize \/ (c < HistorySize /\ ToSet(chosen) \subseteq ToSet(K))
              /\ \A i, j \in 1 .. c : i < j => ChosenAfter(K[i], K[j])
              /\ \A p \in ToSet(K), q \in ToSet(chosen) \ ToSet(K) : ChosenAfter(p, q)
              /\ ToSet(R) = ToSet(served) \ ToSet(K)
              /\ \A i, j \in DOMAIN R : i < j => ListedBefore(served, R[i], R[j])
  <2> WITNESS n \in 0 .. Len(s)
  <2> QED
    BY <1>18, <1>19, <1>20, <1>21, <1>22, <1>23 DEF kept, rest
<1> QED
  BY <1>17, <1>25 DEF PastListsLatestFirst, s

(* The project and its list have their types: the menu is open only for a    *)
(* simulation, and the page remembers no more than HistorySize choices       *)
(* (ProjectHistory.tsx, App.tsx).                                            *)
THEOREM HistoryTypeCorrect == HistorySpec => []HistoryTypeOK
<1>1. HistoryInv => HistoryTypeOK
  BY DEF HistoryInv
<1> QED
  BY <1>1, HistoryInitially, HistoryInvInductive, PTL DEF HistorySpec

(* The list of past projects has each once, first those that were chosen     *)
(* since the last run that succeeded, the latest first, then those that only *)
(* the backend lists (mergeProjects, rememberProject, App.tsx).              *)
THEOREM PastAlwaysLatestFirst == HistorySpec => []PastListsLatestFirst
<1>1. HistorySpec => []HistoryInv
  BY HistoryInitially, HistoryInvInductive, PTL DEF HistorySpec
<1> QED
  BY <1>1, HistoryInvShown, PTL

-----------------------------------------------------------------------------
(* The names.  What is shown and what is known of names are partial          *)
(* functions; a name is a label, "Sender" or, in labeled_addresses, an       *)
(* address.                                                                  *)
NameTexts == Labels \cup Addresses \cup {Sender}
Tagged == [name : NameTexts, address : Addresses]
PartialMaps(S, T) == UNION {[D -> T] : D \in SUBSET S}
Tables == [byAddress : PartialMaps(Addresses, NameTexts), byLabel : PartialMaps(NameTexts, Addresses)]

(* A partial function has a domain within S and its values in T.             *)
LEMMA PartialIs ==
  ASSUME NEW S, NEW T
  PROVE  /\ \A f \in PartialMaps(S, T) :
              /\ DOMAIN f \subseteq S /\ \A x \in DOMAIN f : f[x] \in T
              /\ f = [x \in DOMAIN f |-> f[x]]
         /\ \A f : /\ DOMAIN f \subseteq S /\ f = [x \in DOMAIN f |-> f[x]]
                   /\ \A x \in DOMAIN f : f[x] \in T
                   => f \in PartialMaps(S, T)
<1>1. ASSUME NEW f \in PartialMaps(S, T)
      PROVE  /\ DOMAIN f \subseteq S /\ \A x \in DOMAIN f : f[x] \in T
             /\ f = [x \in DOMAIN f |-> f[x]]
  BY DEF PartialMaps
<1>2. ASSUME NEW f, DOMAIN f \subseteq S, f = [x \in DOMAIN f |-> f[x]],
             \A x \in DOMAIN f : f[x] \in T
      PROVE  f \in PartialMaps(S, T)
  <2>1. f \in [DOMAIN f -> T]
    BY <1>2
  <2> QED
    BY <1>2, <2>1 DEF PartialMaps
<1> QED
  BY <1>1, <1>2

(* g is f with one value more, or one changed.                               *)
IsPut(g, f, key, value) ==
    /\ DOMAIN g = DOMAIN f \cup {key} /\ g[key] = value
    /\ \A x \in DOMAIN f : x # key => g[x] = f[x]

(* What Map.set makes of a partial function.                                 *)
LEMMA PutIs ==
  ASSUME NEW S, NEW T, NEW f, f \in PartialMaps(S, T), NEW key, key \in S, NEW value, value \in T
  PROVE  Put(f, key, value) \in PartialMaps(S, T) /\ IsPut(Put(f, key, value), f, key, value)
<1> DEFINE g == Put(f, key, value)
<1>1. /\ DOMAIN g = DOMAIN f \cup {key} /\ g[key] = value
      /\ \A x \in DOMAIN f : x # key => g[x] = f[x]
      /\ g = [x \in DOMAIN g |-> g[x]]
  BY DEF Put
<1>2. DOMAIN f \subseteq S /\ \A x \in DOMAIN f : f[x] \in T
  BY PartialIs
<1> HIDE DEF g
<1>3. DOMAIN g \subseteq S /\ \A x \in DOMAIN g : g[x] \in T
  BY <1>1, <1>2
<1>4. g \in PartialMaps(S, T)
  BY <1>1, <1>3, PartialIs
<1>5. IsPut(g, f, key, value)
  BY <1>1 DEF IsPut
<1> QED
  BY <1>4, <1>5 DEF g

(* The parts of a table.                                                     *)
LEMMA TableParts ==
  ASSUME NEW t \in Tables
  PROVE  /\ t.byAddress \in PartialMaps(Addresses, NameTexts) /\ t.byLabel \in PartialMaps(NameTexts, Addresses)
         /\ DOMAIN t.byAddress \subseteq Addresses /\ DOMAIN t.byLabel \subseteq NameTexts
         /\ \A a \in DOMAIN t.byAddress : t.byAddress[a] \in NameTexts
         /\ \A x \in DOMAIN t.byLabel : t.byLabel[x] \in Addresses
<1>1. t.byAddress \in PartialMaps(Addresses, NameTexts) /\ t.byLabel \in PartialMaps(NameTexts, Addresses)
  BY DEF Tables
<1> QED
  BY <1>1, PartialIs

(* What one name more makes of a table (addAddressLabel).                    *)
LEMMA AddIs ==
  ASSUME NEW t \in Tables, NEW a \in Addresses, NEW x \in NameTexts, NEW prefer \in BOOLEAN,
         NEW u, u = AddAddressLabel(t, a, x, prefer)
  PROVE  /\ u \in Tables
         /\ DOMAIN u.byAddress = DOMAIN t.byAddress \cup {a}
         /\ \A b \in DOMAIN t.byAddress : b # a => u.byAddress[b] = t.byAddress[b]
         /\ IF prefer \/ a \notin DOMAIN t.byAddress THEN u.byAddress[a] = x
            ELSE u.byAddress[a] = t.byAddress[a]
         /\ x \in DOMAIN u.byLabel /\ DOMAIN t.byLabel \subseteq DOMAIN u.byLabel
         /\ \A l \in DOMAIN u.byLabel :
              \/ u.byLabel[l] = a /\ (l = x \/ (a \in DOMAIN t.byAddress /\ l = t.byAddress[a]))
              \/ l \in DOMAIN t.byLabel /\ u.byLabel[l] = t.byLabel[l]
<1> DEFINE showing == prefer \/ a \notin DOMAIN t.byAddress
           replaces == showing /\ a \in DOMAIN t.byAddress
           known == IF replaces THEN Put(t.byLabel, t.byAddress[a], a) ELSE t.byLabel
           names == IF showing THEN Put(t.byAddress, a, x) ELSE t.byAddress
           found == Put(known, x, a)
<1>1. u = [byAddress |-> names, byLabel |-> found]
  BY DEF AddAddressLabel
<1>2. u.byAddress = names /\ u.byLabel = found
  BY <1>1
<1>3. known \in PartialMaps(NameTexts, Addresses) /\ DOMAIN t.byLabel \subseteq DOMAIN known
      /\ \A l \in DOMAIN known :
           \/ known[l] = a /\ a \in DOMAIN t.byAddress /\ l = t.byAddress[a]
           \/ l \in DOMAIN t.byLabel /\ known[l] = t.byLabel[l]
  <2>1. CASE replaces
    <3>1. t.byAddress[a] \in NameTexts /\ t.byLabel \in PartialMaps(NameTexts, Addresses)
      BY <2>1, TableParts
    <3>2. known = Put(t.byLabel, t.byAddress[a], a)
      BY <2>1
    <3> HIDE DEF known
    <3>3. /\ known \in PartialMaps(NameTexts, Addresses)
          /\ DOMAIN known = DOMAIN t.byLabel \cup {t.byAddress[a]}
          /\ known[t.byAddress[a]] = a
          /\ \A l \in DOMAIN t.byLabel : l # t.byAddress[a] => known[l] = t.byLabel[l]
      <4>1. known \in PartialMaps(NameTexts, Addresses) /\ IsPut(known, t.byLabel, t.byAddress[a], a)
        BY <3>1, <3>2, PutIs
      <4> QED
        BY <4>1 DEF IsPut
    <3> QED
      BY <2>1, <3>3
  <2>2. CASE ~ replaces
    BY <2>2, TableParts
  <2> QED
    BY <2>1, <2>2
<1> HIDE DEF known
<1>4. /\ found \in PartialMaps(NameTexts, Addresses) /\ DOMAIN found = DOMAIN known \cup {x}
      /\ found[x] = a /\ \A l \in DOMAIN known : l # x => found[l] = known[l]
  <2>1. found \in PartialMaps(NameTexts, Addresses) /\ IsPut(found, known, x, a)
    BY <1>3, PutIs
  <2> HIDE DEF found
  <2> QED
    BY <2>1 DEF IsPut
<1> HIDE DEF found
<1>5. /\ names \in PartialMaps(Addresses, NameTexts) /\ DOMAIN names = DOMAIN t.byAddress \cup {a}
      /\ \A b \in DOMAIN t.byAddress : b # a => names[b] = t.byAddress[b]
      /\ IF showing THEN names[a] = x ELSE names[a] = t.byAddress[a]
  <2>1. CASE showing
    <3>1. t.byAddress \in PartialMaps(Addresses, NameTexts) /\ names = Put(t.byAddress, a, x)
      BY <2>1, TableParts
    <3> QED
      <4>1. names \in PartialMaps(Addresses, NameTexts) /\ IsPut(names, t.byAddress, a, x)
        BY <3>1, PutIs
      <4> HIDE DEF names
      <4> QED
        BY <2>1, <4>1 DEF IsPut
  <2>2. CASE ~ showing
    BY <2>2, TableParts
  <2> QED
    BY <2>1, <2>2
<1> HIDE DEF names
<1>6. u \in Tables
  BY <1>1, <1>4, <1>5 DEF Tables
<1>7. x \in DOMAIN found /\ DOMAIN t.byLabel \subseteq DOMAIN found
  BY <1>3, <1>4
<1>8. ASSUME NEW l \in DOMAIN found
      PROVE  \/ found[l] = a /\ (l = x \/ (a \in DOMAIN t.byAddress /\ l = t.byAddress[a]))
             \/ l \in DOMAIN t.byLabel /\ found[l] = t.byLabel[l]
  BY <1>3, <1>4
<1> QED
  BY <1>2, <1>5, <1>6, <1>7, <1>8
(* The loop of buildAddressLabels over a list of names.                      *)
LEMMA AddedRounds ==
  ASSUME NEW t \in Tables, NEW list \in Seq(Tagged), NEW prefer \in BOOLEAN
  PROVE  /\ AddedAfter(t, list, prefer)[0] = t
         /\ \A i \in 0 .. Len(list) : AddedAfter(t, list, prefer)[i] \in Tables
         /\ \A i \in 1 .. Len(list) :
              AddedAfter(t, list, prefer)[i] =
                AddAddressLabel(AddedAfter(t, list, prefer)[i - 1], list[i].address,
                                list[i].name, prefer)
<1> DEFINE n == Len(list)
           One(before, i) == AddAddressLabel(before, list[i].address, list[i].name, prefer)
           step == [q \in (1 .. n) \X Tables |-> One(q[2], q[1])]
           Fits(h) == h = [i \in 0 .. n |-> IF i = 0 THEN t ELSE One(h[i - 1], i)]
           g == CHOOSE h : Fits(h)
<1>1. n \in Nat /\ \A i \in 1 .. n : list[i].address \in Addresses /\ list[i].name \in NameTexts
  <2>1. n \in Nat /\ \A i \in 1 .. n : list[i] \in Tagged
    OBVIOUS
  <2> QED
    BY <2>1 DEF Tagged
<1>2. AddedAfter(t, list, prefer) = g
  BY DEF AddedAfter
<1>3. ASSUME NEW i \in 1 .. n, NEW before \in Tables PROVE One(before, i) \in Tables
  BY <1>1, AddIs
<1>a. n = Len(list)
  OBVIOUS
<1> HIDE DEF n, One
<1>4. \A i \in 1 .. n, before \in Tables : step[<<i, before>>] = One(before, i)
  OBVIOUS
<1>5. \A i \in 1 .. n, before \in Tables : step[<<i, before>>] \in Tables
  BY <1>3, <1>4
<1> HIDE DEF step
<1>6. PICK f : AreRounds(f, n, Tables, t, step)
  BY <1>1, <1>5, RoundsExist
<1>7. Fits(f)
  <2>1. f \in [0 .. n -> Tables]
    BY <1>6 DEF AreRounds
  <2>2. ASSUME NEW i \in 0 .. n
        PROVE  f[i] = IF i = 0 THEN t ELSE One(f[i - 1], i)
    <3>1. i # 0 => i \in 1 .. n /\ i - 1 \in 0 .. n
      BY <1>1
    <3>2. i # 0 => f[i - 1] \in Tables
      BY <2>1, <3>1
    <3>3. f[i] = IF i = 0 THEN t ELSE step[<<i, f[i - 1]>>]
      BY <1>6 DEF AreRounds
    <3> QED
      BY <1>4, <3>1, <3>2, <3>3
  <2> QED
    BY <2>1, <2>2
<1>8. Fits(g)
  <2> HIDE DEF Fits
  <2> QED
    BY <1>7
<1> HIDE DEF g
<1>9. g[0] = t /\ \A i \in 1 .. n : g[i] = One(g[i - 1], i)
  <2>1. g[0] = t
    BY <1>1, <1>8
  <2>2. ASSUME NEW i \in 1 .. n PROVE g[i] = One(g[i - 1], i)
    <3>1. i \in 0 .. n /\ i # 0
      BY <1>1
    <3> QED
      BY <1>8, <3>1
  <2> QED
    BY <2>1, <2>2
<1>10. \A i \in 0 .. n : g[i] \in Tables
  <2> DEFINE Good == {i \in 0 .. n : g[i] \in Tables}
  <2>1. 0 \in Good
    BY <1>1, <1>9
  <2>2. ASSUME NEW i \in 1 .. n, i - 1 \in Good PROVE i \in Good
    BY <1>1, <1>3, <1>9, <2>2
  <2> HIDE DEF Good
  <2>3. \A i \in 0 .. n : i \in Good
    BY <1>1, <2>1, <2>2, RoundsInduction
  <2> QED
    BY <2>3 DEF Good
<1>11. AddedAfter(t, list, prefer)[0] = t
  BY <1>2, <1>9
<1>12. \A i \in 0 .. Len(list) : AddedAfter(t, list, prefer)[i] \in Tables
  BY <1>2, <1>10, <1>a
<1>13. \A i \in 1 .. Len(list) :
          AddedAfter(t, list, prefer)[i] = One(AddedAfter(t, list, prefer)[i - 1], i)
  BY <1>2, <1>9, <1>a
<1> QED
  BY <1>11, <1>12, <1>13 DEF One

(* Each name that is known or shown is one of the address it stands for, and *)
(* what is shown is known.                                                   *)
Sound(t) ==
    /\ t \in Tables
    /\ \A a \in DOMAIN t.byAddress : t.byAddress[a] \in Names(a) \cap DOMAIN t.byLabel
    /\ \A x \in DOMAIN t.byLabel : x \in Names(t.byLabel[x])

(* u knows what t knows, and shows for each address of S what t shows.       *)
Extends(u, t, S) ==
    /\ DOMAIN t.byAddress \subseteq DOMAIN u.byAddress /\ DOMAIN t.byLabel \subseteq DOMAIN u.byLabel
    /\ \A a \in S : a \in DOMAIN t.byAddress => u.byAddress[a] = t.byAddress[a]

(* u has one name more than t.                                               *)
Added(u, t, a, x, prefer) ==
    /\ Sound(u) /\ a \in DOMAIN u.byAddress /\ x \in DOMAIN u.byLabel
    /\ DOMAIN u.byAddress = DOMAIN t.byAddress \cup {a}
    /\ Extends(u, t, Addresses \ {a})
    /\ prefer => u.byAddress[a] = x
    /\ ~ prefer => Extends(u, t, Addresses)

(* One name more of an address that has it leaves a table sound.             *)
LEMMA AddKeepsSound ==
  ASSUME NEW t, Sound(t), NEW a \in Addresses, NEW x \in NameTexts, x \in Names(a),
         NEW prefer \in BOOLEAN
  PROVE  Added(AddAddressLabel(t, a, x, prefer), t, a, x, prefer)
<1> DEFINE u == AddAddressLabel(t, a, x, prefer)
<1>u. u = AddAddressLabel(t, a, x, prefer)
  OBVIOUS
<1> HIDE DEF u
<1>1. /\ t \in Tables
      /\ \A b \in DOMAIN t.byAddress : t.byAddress[b] \in Names(b) /\ t.byAddress[b] \in DOMAIN t.byLabel
      /\ \A l \in DOMAIN t.byLabel : l \in Names(t.byLabel[l])
  BY DEF Sound
<1>2. /\ u \in Tables
      /\ DOMAIN u.byAddress = DOMAIN t.byAddress \cup {a}
      /\ \A b \in DOMAIN t.byAddress : b # a => u.byAddress[b] = t.byAddress[b]
      /\ IF prefer \/ a \notin DOMAIN t.byAddress THEN u.byAddress[a] = x
         ELSE u.byAddress[a] = t.byAddress[a]
      /\ x \in DOMAIN u.byLabel /\ DOMAIN t.byLabel \subseteq DOMAIN u.byLabel
      /\ \A l \in DOMAIN u.byLabel :
           \/ u.byLabel[l] = a /\ (l = x \/ (a \in DOMAIN t.byAddress /\ l = t.byAddress[a]))
           \/ l \in DOMAIN t.byLabel /\ u.byLabel[l] = t.byLabel[l]
  BY <1>u, <1>1, AddIs
<1>3. ASSUME NEW b \in DOMAIN u.byAddress
      PROVE  u.byAddress[b] \in Names(b) /\ u.byAddress[b] \in DOMAIN u.byLabel
  <2>1. CASE b = a /\ u.byAddress[a] = x
    BY <1>2, <2>1
  <2>2. CASE b \in DOMAIN t.byAddress /\ u.byAddress[b] = t.byAddress[b]
    BY <1>1, <1>2, <2>2
  <2> QED
    BY <1>2, <2>1, <2>2
<1>4. ASSUME NEW l \in DOMAIN u.byLabel PROVE l \in Names(u.byLabel[l])
  <2>1. CASE u.byLabel[l] = a /\ l = x
    BY <2>1
  <2>2. CASE u.byLabel[l] = a /\ a \in DOMAIN t.byAddress /\ l = t.byAddress[a]
    BY <1>1, <2>2
  <2>3. CASE l \in DOMAIN t.byLabel /\ u.byLabel[l] = t.byLabel[l]
    BY <1>1, <2>3
  <2> QED
    BY <1>2, <2>1, <2>2, <2>3
<1>5. Sound(u)
  BY <1>2, <1>3, <1>4 DEF Sound
<1>6. Extends(u, t, Addresses \ {a})
  BY <1>2 DEF Extends
<1>7. ~ prefer => Extends(u, t, Addresses)
  BY <1>2 DEF Extends
<1>8. Added(u, t, a, x, prefer)
  BY <1>2, <1>5, <1>6, <1>7 DEF Added
<1> QED
  BY <1>8 DEF u

(* The addresses that the first n items of a list name.                      *)
NamedBy(list, n) == {list[k].address : k \in 1 .. n}

(* So does a list of them, after which each name of the list is known; an    *)
(* address is shown as before if it is not in the list or the names are not  *)
(* preferred, and otherwise as its last name in the list.                    *)
LEMMA AddAllKeepsSound ==
  ASSUME NEW t, Sound(t), NEW list \in Seq(Tagged), NEW prefer \in BOOLEAN,
         \A k \in 1 .. Len(list) : list[k].name \in Names(list[k].address),
         NEW u, u = AddAll(t, list, prefer)
  PROVE  /\ Sound(u)
         /\ \A k \in 1 .. Len(list) :
              list[k].address \in DOMAIN u.byAddress /\ list[k].name \in DOMAIN u.byLabel
         /\ DOMAIN u.byAddress \subseteq DOMAIN t.byAddress \cup NamedBy(list, Len(list))
         /\ Extends(u, t, Addresses \ NamedBy(list, Len(list)))
         /\ ~ prefer => Extends(u, t, Addresses)
         /\ prefer => \A k \in 1 .. Len(list) :
              (\A j \in (k + 1) .. Len(list) : list[j].address # list[k].address)
                => u.byAddress[list[k].address] = list[k].name
<1> DEFINE n == Len(list)
           T == AddedAfter(t, list, prefer)
           Holds(i, v) ==
              /\ Sound(v)
              /\ \A k \in 1 .. i :
                   list[k].address \in DOMAIN v.byAddress /\ list[k].name \in DOMAIN v.byLabel
              /\ DOMAIN v.byAddress \subseteq DOMAIN t.byAddress \cup NamedBy(list, i)
              /\ Extends(v, t, Addresses \ NamedBy(list, i))
              /\ ~ prefer => Extends(v, t, Addresses)
              /\ prefer => \A k \in 1 .. i :
                   (\A j \in (k + 1) .. i : list[j].address # list[k].address)
                     => v.byAddress[list[k].address] = list[k].name
           Good == {i \in 0 .. n : Holds(i, T[i])}
<1>1. n \in Nat /\ u = T[n]
  BY DEF AddAll
<1>2. \A i \in 1 .. n : list[i].address \in Addresses /\ list[i].name \in NameTexts
                        /\ list[i].name \in Names(list[i].address)
  <2>1. \A i \in 1 .. n : list[i] \in Tagged
    OBVIOUS
  <2> QED
    BY <2>1 DEF Tagged
<1>3. /\ T[0] = t
      /\ \A i \in 1 .. n : T[i] = AddAddressLabel(T[i - 1], list[i].address, list[i].name, prefer)
  <2>1. t \in Tables
    BY DEF Sound
  <2> QED
    BY <2>1, AddedRounds
<1> HIDE DEF n, T
<1>4. 0 \in Good
  <2>1. Extends(t, t, Addresses) /\ Extends(t, t, Addresses \ NamedBy(list, 0))
    BY DEF Extends
  <2>2. Holds(0, t)
    BY <2>1
  <2> QED
    BY <1>1, <1>3, <2>2
<1>5. ASSUME NEW i \in 1 .. n, i - 1 \in Good PROVE i \in Good
  <2> DEFINE a == list[i].address
             x == list[i].name
             v == T[i - 1]
             w == T[i]
  <2>1. i - 1 \in 0 .. n /\ Holds(i - 1, v)
    BY <1>5
  <2>2. w = AddAddressLabel(v, a, x, prefer) /\ a \in Addresses /\ x \in NameTexts /\ x \in Names(a)
    BY <1>2, <1>3
  <2>a. a = list[i].address /\ x = list[i].name
    OBVIOUS
  <2>i. i \in 1 .. n /\ \A k \in 1 .. i : k = i \/ k \in 1 .. (i - 1)
    BY <1>1
  <2> HIDE DEF v, w, a, x
  <2>b. Sound(v)
    BY <2>1
  <2>c. Added(w, v, a, x, prefer)
    BY <2>b, <2>2, AddKeepsSound
  <2>3. /\ Sound(w) /\ a \in DOMAIN w.byAddress /\ x \in DOMAIN w.byLabel
        /\ DOMAIN w.byAddress = DOMAIN v.byAddress \cup {a}
        /\ Extends(w, v, Addresses \ {a})
        /\ prefer => w.byAddress[a] = x
        /\ ~ prefer => Extends(w, v, Addresses)
    BY <2>c DEF Added
  <2>4. DOMAIN v.byAddress \subseteq DOMAIN w.byAddress /\ DOMAIN v.byLabel \subseteq DOMAIN w.byLabel
    BY <2>3 DEF Extends
  <2>5. ASSUME NEW k \in 1 .. i
        PROVE  list[k].address \in DOMAIN w.byAddress /\ list[k].name \in DOMAIN w.byLabel
    BY <2>1, <2>3, <2>4, <2>a, <2>i
  <2>6. NamedBy(list, i) = NamedBy(list, i - 1) \cup {a}
    BY <1>1, <2>a, <2>i DEF NamedBy
  <2>7. Extends(w, t, Addresses \ NamedBy(list, i))
    BY <2>1, <2>3, <2>6 DEF Extends
  <2>8. ~ prefer => Extends(w, t, Addresses)
    BY <2>1, <2>3 DEF Extends
  <2>9. ASSUME prefer, NEW k \in 1 .. i,
               \A j \in (k + 1) .. i : list[j].address # list[k].address
        PROVE  w.byAddress[list[k].address] = list[k].name
    <3>1. CASE k = i
      BY <2>3, <2>9, <2>a, <3>1
    <3>2. CASE k # i
      <4>1. k \in 1 .. (i - 1) /\ i \in (k + 1) .. i
        BY <1>1, <2>i, <3>2
      <4>2. \A j \in (k + 1) .. (i - 1) : list[j].address # list[k].address
        BY <1>1, <2>9
      <4>3. v.byAddress[list[k].address] = list[k].name
        BY <2>1, <2>9, <4>1, <4>2
      <4>4. list[k].address # a /\ list[k].address \in DOMAIN v.byAddress
            /\ list[k].address \in Addresses
        <5>1. k \in 1 .. n
          BY <1>1, <4>1
        <5> QED
          BY <1>2, <2>1, <2>9, <2>a, <4>1, <5>1
      <4> QED
        BY <2>3, <4>3, <4>4 DEF Extends
    <3> QED
      BY <3>1, <3>2
  <2>10. DOMAIN w.byAddress \subseteq DOMAIN t.byAddress \cup NamedBy(list, i)
    BY <2>1, <2>3, <2>6
  <2>11. Holds(i, w)
    BY <2>3, <2>5, <2>7, <2>8, <2>9, <2>10
  <2> HIDE DEF Holds
  <2> QED
    BY <1>1, <2>11 DEF w
<1> HIDE DEF Good
<1>6. \A i \in 0 .. n : i \in Good
  BY <1>1, <1>4, <1>5, RoundsInduction
<1>7. Holds(n, u)
  <2>1. n \in 0 .. n
    BY <1>1
  <2>2. n \in Good
    BY <1>6, <2>1
  <2>3. Holds(n, T[n])
    <3> HIDE DEF Holds
    <3> QED
      BY <2>2 DEF Good
  <2> QED
    BY <1>1, <2>3
<1> QED
  BY <1>7 DEF n
(* What a name set in the labels of the trace makes of them.                 *)
LEMMA SetNameTagged ==
  ASSUME NEW entries \in Seq(Tagged), NEW a \in Addresses, NEW x \in NameTexts
  PROVE  SetName(entries, a, x) \in Seq(Tagged)
<1>1. \A k \in DOMAIN entries : entries[k] \in Tagged
  OBVIOUS
<1>2. CASE IsNamed(entries, a)
  <2> DEFINE g == [k \in DOMAIN entries |->
                     IF entries[k].address = a THEN [entries[k] EXCEPT !.name = x] ELSE entries[k]]
  <2>1. SetName(entries, a, x) = g
    BY <1>2 DEF SetName
  <2>2. ASSUME NEW k \in DOMAIN entries PROVE g[k] \in Tagged
    <3>1. [entries[k] EXCEPT !.name = x] \in Tagged
      BY <1>1 DEF Tagged
    <3> QED
      BY <1>1, <3>1
  <2>3. Len(entries) \in Nat /\ DOMAIN entries = 1 .. Len(entries)
    OBVIOUS
  <2>4. g \in [1 .. Len(entries) -> Tagged]
    BY <2>2, <2>3
  <2> HIDE DEF g
  <2>5. g \in Seq(Tagged)
    BY <2>3, <2>4, SeqDef
  <2> QED
    BY <2>1, <2>5
<1>3. CASE ~ IsNamed(entries, a)
  <2>1. [name |-> x, address |-> a] \in Tagged
    BY DEF Tagged
  <2> QED
    BY <1>3, <2>1 DEF SetName
<1> QED
  BY <1>2, <1>3

(* The entries of labeled_addresses, and the calls of an arena.              *)
Called ==
    [address : Addresses, label : Labels \cup {None}, mentions : SUBSET (Addresses \cup Labels)]

(* The loop of normalizeLabels.                                              *)
LEMMA NormalizedTagged ==
  ASSUME NEW record \in Seq(Labeled)
  PROVE  NormalizeLabels(record) \in Seq(Tagged)
<1> DEFINE n == Len(record)
           A == Seq(Tagged)
           step == [q \in (1 .. n) \X A |-> NormalizeEntry(q[2], record[q[1]])]
           Fits(h) == h = [i \in 0 .. n |-> IF i = 0 THEN <<>> ELSE NormalizeEntry(h[i - 1], record[i])]
           g == CHOOSE h : Fits(h)
<1>1. n \in Nat /\ \A i \in 1 .. n : record[i] \in Labeled
  OBVIOUS
<1>2. NormalizeLabels(record) = g[n]
  BY DEF NormalizeLabels, NormalizedAfter
<1>3. <<>> \in A
  OBVIOUS
<1>4. ASSUME NEW i \in 1 .. n, NEW before \in A PROVE NormalizeEntry(before, record[i]) \in A
  <2> DEFINE entry == record[i]
             from == IF entry.key \in Addresses THEN SetName(before, entry.key, entry.value) ELSE before
  <2>1. entry.key \in NameTexts /\ entry.value \in NameTexts
    BY <1>1 DEF Labeled, NameTexts
  <2> HIDE DEF entry
  <2>2. from \in A
    BY <2>1, SetNameTagged
  <2> HIDE DEF A
  <2>3. NormalizeEntry(before, entry)
          = IF entry.value \in Addresses THEN SetName(from, entry.value, entry.key) ELSE from
    BY DEF NormalizeEntry
  <2> HIDE DEF from
  <2>4. entry.value \in Addresses => SetName(from, entry.value, entry.key) \in A
    BY <2>1, <2>2, SetNameTagged DEF A
  <2>5. NormalizeEntry(before, entry) \in A
    BY <2>2, <2>3, <2>4
  <2> QED
    BY <2>5 DEF entry
<1> HIDE DEF n, A
<1>5. \A i \in 1 .. n, before \in A : step[<<i, before>>] = NormalizeEntry(before, record[i])
  OBVIOUS
<1>6. \A i \in 1 .. n, before \in A : step[<<i, before>>] \in A
  BY <1>4, <1>5
<1> HIDE DEF step
<1>7. PICK f : AreRounds(f, n, A, <<>>, step)
  BY <1>1, <1>3, <1>6, RoundsExist
<1>8. Fits(f)
  <2>1. f \in [0 .. n -> A]
    BY <1>7 DEF AreRounds
  <2>2. ASSUME NEW i \in 0 .. n
        PROVE  f[i] = IF i = 0 THEN <<>> ELSE NormalizeEntry(f[i - 1], record[i])
    <3>1. i # 0 => i \in 1 .. n /\ i - 1 \in 0 .. n
      BY <1>1
    <3>2. i # 0 => f[i - 1] \in A
      BY <2>1, <3>1
    <3>3. f[i] = IF i = 0 THEN <<>> ELSE step[<<i, f[i - 1]>>]
      BY <1>7 DEF AreRounds
    <3> QED
      BY <1>5, <3>1, <3>2, <3>3
  <2> QED
    BY <2>1, <2>2
<1>9. Fits(g)
  <2> HIDE DEF Fits
  <2> QED
    BY <1>8
<1> HIDE DEF g
<1>10. \A i \in 0 .. n : g[i] \in A
  <2> DEFINE Good == {i \in 0 .. n : g[i] \in A}
  <2>1. 0 \in Good
    BY <1>1, <1>3, <1>9
  <2>2. ASSUME NEW i \in 1 .. n, i - 1 \in Good PROVE i \in Good
    <3>1. i \in 0 .. n /\ i # 0 /\ g[i - 1] \in A
      BY <1>1, <2>2
    <3>2. g[i] = NormalizeEntry(g[i - 1], record[i])
      BY <1>9, <3>1
    <3> QED
      BY <1>4, <3>1, <3>2
  <2> HIDE DEF Good
  <2>3. \A i \in 0 .. n : i \in Good
    BY <1>1, <2>1, <2>2, RoundsInduction
  <2> QED
    BY <2>3 DEF Good
<1> QED
  BY <1>1, <1>2, <1>10 DEF A

(* The loop of collectArenaLabels.                                           *)
LEMMA CollectedTagged ==
  ASSUME NEW calls \in Seq(Called), NEW known \in Seq(Tagged)
  PROVE  CollectArenaLabels(calls, known) \in Seq(Tagged)
<1> DEFINE n == Len(calls)
           A == Seq(Tagged)
           step == [q \in (1 .. n) \X A |-> CollectCall(q[2], calls[q[1]])]
           Fits(h) == h = [i \in 0 .. n |-> IF i = 0 THEN known ELSE CollectCall(h[i - 1], calls[i])]
           g == CHOOSE h : Fits(h)
<1>1. n \in Nat /\ \A i \in 1 .. n : calls[i] \in Called
  OBVIOUS
<1>2. CollectArenaLabels(calls, known) = g[n]
  BY DEF CollectArenaLabels, CollectedAfter
<1>3. known \in A
  OBVIOUS
<1>4. ASSUME NEW i \in 1 .. n, NEW before \in A PROVE CollectCall(before, calls[i]) \in A
  <2> DEFINE call == calls[i]
  <2>1. call.address \in Addresses /\ (call.label = None \/ call.label \in NameTexts)
    BY <1>1 DEF Called, NameTexts
  <2> HIDE DEF call
  <2>2. call.label # None => SetName(before, call.address, call.label) \in A
    BY <2>1, SetNameTagged
  <2>3. CollectCall(before, call) \in A
    BY <2>2 DEF CollectCall
  <2> QED
    BY <2>3 DEF call
<1> HIDE DEF n, A
<1>5. \A i \in 1 .. n, before \in A : step[<<i, before>>] = CollectCall(before, calls[i])
  OBVIOUS
<1>6. \A i \in 1 .. n, before \in A : step[<<i, before>>] \in A
  BY <1>4, <1>5
<1> HIDE DEF step
<1>7. PICK f : AreRounds(f, n, A, known, step)
  BY <1>1, <1>3, <1>6, RoundsExist
<1>8. Fits(f)
  <2>1. f \in [0 .. n -> A]
    BY <1>7 DEF AreRounds
  <2>2. ASSUME NEW i \in 0 .. n
        PROVE  f[i] = IF i = 0 THEN known ELSE CollectCall(f[i - 1], calls[i])
    <3>1. i # 0 => i \in 1 .. n /\ i - 1 \in 0 .. n
      BY <1>1
    <3>2. i # 0 => f[i - 1] \in A
      BY <2>1, <3>1
    <3>3. f[i] = IF i = 0 THEN known ELSE step[<<i, f[i - 1]>>]
      BY <1>7 DEF AreRounds
    <3> QED
      BY <1>5, <3>1, <3>2, <3>3
  <2> QED
    BY <2>1, <2>2
<1>9. Fits(g)
  <2> HIDE DEF Fits
  <2> QED
    BY <1>8
<1> HIDE DEF g
<1>10. \A i \in 0 .. n : g[i] \in A
  <2> DEFINE Good == {i \in 0 .. n : g[i] \in A}
  <2>1. 0 \in Good
    BY <1>1, <1>3, <1>9
  <2>2. ASSUME NEW i \in 1 .. n, i - 1 \in Good PROVE i \in Good
    <3>1. i \in 0 .. n /\ i # 0 /\ g[i - 1] \in A
      BY <1>1, <2>2
    <3>2. g[i] = CollectCall(g[i - 1], calls[i])
      BY <1>9, <3>1
    <3> QED
      BY <1>4, <3>1, <3>2
  <2> HIDE DEF Good
  <2>3. \A i \in 0 .. n : i \in Good
    BY <1>1, <2>1, <2>2, RoundsInduction
  <2> QED
    BY <2>3 DEF Good
<1> QED
  BY <1>1, <1>2, <1>10 DEF A

-----------------------------------------------------------------------------
(* What the names are made of: the calls of one address have the label that  *)
(* forge has decoded for it.                                                 *)
LabelsInv ==
    /\ inputs.overrides \in Seq(Named) /\ inputs.tokens \in Seq(Named)
    /\ inputs.sender \in Addresses \cup {None}
    /\ inputs.labeled \in Seq(Labeled) /\ inputs.arena \in Seq(Called)
    /\ \A i, j \in 1 .. Len(inputs.arena) :
         inputs.arena[i].address = inputs.arena[j].address => inputs.arena[i].label = inputs.arena[j].label

(* A list of some length is a list.                                          *)
LEMMA UpToSeq == ASSUME NEW n \in Nat, NEW S PROVE UpTo(n, S) \subseteq Seq(S)
<1> SUFFICES ASSUME NEW s \in UpTo(n, S) PROVE s \in Seq(S)
  OBVIOUS
<1>1. PICK k \in 0 .. n : s \in [1 .. k -> S]
  BY DEF UpTo
<1> QED
  BY <1>1, SeqDef

(* It holds of no response,                                                  *)
LEMMA LabelsInitially == LabelsInit => LabelsInv
<1> SUFFICES ASSUME inputs = Nothing PROVE LabelsInv
  BY DEF LabelsInit
<1> QED
  BY DEF Nothing, LabelsInv

(* and of each.                                                              *)
LEMMA LabelsInvInductive == LabelsInv /\ [LabelsNext]_inputs => LabelsInv'
<1> SUFFICES ASSUME LabelsInv, [LabelsNext]_inputs PROVE LabelsInv'
  OBVIOUS
<1>1. CASE UNCHANGED inputs
  BY <1>1 DEF LabelsInv
<1>2. ASSUME NEW overrides \in UpTo(MaxOverrides, Named), NEW sender \in Addresses \cup {None},
             NEW labeled \in UpTo(MaxItems, Labeled),
             NEW called \in [1 .. MaxCalls -> Addresses],
             NEW decoded \in [Addresses -> Labels \cup {None}],
             NEW mentions \in [1 .. MaxCalls -> Mentions],
             NEW tokens \in UpTo(MaxItems, Named), NEW calls,
             calls = [i \in 1 .. MaxCalls |->
                        [address |-> called[i], label |-> decoded[called[i]],
                         mentions |-> mentions[i]]],
             Respond(overrides, sender, labeled, calls, tokens)
      PROVE  LabelsInv'
  <2>1. /\ inputs'.overrides = overrides /\ inputs'.sender = sender /\ inputs'.labeled = labeled
        /\ inputs'.arena = calls /\ inputs'.tokens = tokens
    BY <1>2 DEF Respond
  <2>2. overrides \in Seq(Named) /\ tokens \in Seq(Named) /\ labeled \in Seq(Labeled)
    BY UpToSeq, LabelAssumption
  <2>3. \A i \in 1 .. MaxCalls :
          /\ calls[i] \in Called
          /\ calls[i].address = called[i] /\ calls[i].label = decoded[called[i]]
    <3>1. \A i \in 1 .. MaxCalls : mentions[i] \in SUBSET (Addresses \cup Labels)
      BY LabelAssumption
    <3> QED
      BY <1>2, <3>1 DEF Called
  <2>4. calls \in Seq(Called) /\ Len(calls) = MaxCalls
    <3>1. calls \in [1 .. MaxCalls -> Called]
      BY <1>2, <2>3
    <3> QED
      BY <3>1, LabelAssumption, SeqDef, LenProperties
  <2>5. \A i, j \in 1 .. MaxCalls :
          calls[i].address = calls[j].address => calls[i].label = calls[j].label
    BY <2>3
  <2> QED
    BY <2>1, <2>2, <2>4, <2>5 DEF LabelsInv
<1> QED
  BY <1>1, <1>2 DEF LabelsNext

(* An entry of a list has its address and its name.                          *)
LEMMA EntryNamed ==
  ASSUME NEW list \in Seq(Tagged), NEW k \in 1 .. Len(list)
  PROVE  list[k].address \in Addresses /\ list[k].name \in NameTexts /\ list[k] \in ToSet(list)
<1>1. list[k] \in Tagged
  OBVIOUS
<1> QED
  BY <1>1 DEF Tagged, ToSet

(* The labels of the trace.                                                  *)
LEMMA TraceLabelsTagged == LabelsInv => TraceLabels \in Seq(Tagged)
  BY NormalizedTagged, CollectedTagged DEF LabelsInv, TraceLabels

(* A list of the user's or of the tokens is a list of names.                 *)
LEMMA NamedTagged == Seq(Named) \subseteq Seq(Tagged)
<1>1. Named \subseteq Tagged
  BY DEF Named, Tagged, NameTexts
<1> QED
  BY <1>1

(* Nothing is known before the first name.                                   *)
LEMMA NoLabelsSound == Sound(NoLabels)
<1>1. <<>> \in PartialMaps(Addresses, NameTexts) /\ <<>> \in PartialMaps(NameTexts, Addresses)
  <2>1. \A T : <<>> \in [{} -> T]
    OBVIOUS
  <2> QED
    BY <2>1 DEF PartialMaps
<1> QED
  BY <1>1 DEF Sound, NoLabels, Tables

(* What is shown and known in the end: it is sound, each name of the user,   *)
(* of the trace and of the tokens is known, "Sender" too where it is the     *)
(* sender's, and the user's last label of an address that is no token with a *)
(* symbol is shown.                                                          *)
LEMMA BuiltSound ==
  ASSUME LabelsInv, NEW x, x = BuildAddressLabels
  PROVE  /\ Sound(x)
         /\ \A e \in ToSet(inputs.overrides) \cup ToSet(TraceLabels) \cup ToSet(inputs.tokens) :
              e.name \in DOMAIN x.byLabel
         /\ inputs.sender \in Addresses /\ ~ IsNamed(inputs.overrides, inputs.sender)
              => Sender \in DOMAIN x.byLabel
         /\ \A i \in 1 .. Len(inputs.overrides) :
              /\ \A e \in ToSet(inputs.tokens) : e.address # inputs.overrides[i].address
              /\ \A j \in (i + 1) .. Len(inputs.overrides) :
                   inputs.overrides[j].address # inputs.overrides[i].address
              => x.byAddress[inputs.overrides[i].address] = inputs.overrides[i].name
<1> DEFINE o == inputs.overrides
           r == TraceLabels
           k == inputs.tokens
           s == inputs.sender
           u == UserLabels
           v == AddSender(u)
           w == AddTraceLabels(v)
<1>1. /\ o \in Seq(Tagged) /\ k \in Seq(Tagged) /\ r \in Seq(Tagged)
      /\ s = None \/ s \in Addresses
  BY NamedTagged, TraceLabelsTagged DEF LabelsInv
<1>2. /\ \A e \in ToSet(o) \cup ToSet(k) \cup ToSet(r) : e.name \in Names(e.address)
      /\ s \in Addresses /\ ~ IsNamed(o, s) => Sender \in Names(s)
  BY DEF Names, BookNames
<1>3. /\ u = AddAll(NoLabels, o, TRUE) /\ w = AddAll(v, r, FALSE) /\ x = AddAll(w, k, TRUE)
      /\ v = IF s = None \/ s \in DOMAIN u.byAddress THEN u ELSE AddAddressLabel(u, s, Sender, TRUE)
  BY DEF BuildAddressLabels, UserLabels, AddTraceLabels, AddSender
<1> HIDE DEF o, r, k, s, u, v, w
<1>a. /\ \A i \in 1 .. Len(o) : o[i].address \in Addresses /\ o[i] \in ToSet(o)
                                  /\ o[i].name \in Names(o[i].address)
      /\ \A i \in 1 .. Len(r) : r[i].name \in Names(r[i].address)
      /\ \A i \in 1 .. Len(k) : k[i] \in ToSet(k) /\ k[i].name \in Names(k[i].address)
  BY <1>1, <1>2, EntryNamed
<1>b. NoLabels.byAddress = <<>> /\ DOMAIN NoLabels.byAddress = {}
  BY DEF NoLabels
<1>4. /\ Sound(u)
      /\ \A i \in 1 .. Len(o) : o[i].address \in DOMAIN u.byAddress /\ o[i].name \in DOMAIN u.byLabel
      /\ DOMAIN u.byAddress \subseteq NamedBy(o, Len(o))
      /\ \A i \in 1 .. Len(o) :
           (\A j \in (i + 1) .. Len(o) : o[j].address # o[i].address)
             => u.byAddress[o[i].address] = o[i].name
  <2>1. \A i \in 1 .. Len(o) : o[i].name \in Names(o[i].address)
    BY <1>a
  <2> QED
    BY <1>1, <1>3, <1>b, <2>1, NoLabelsSound, AddAllKeepsSound
<1>5. /\ Sound(v) /\ Extends(v, u, DOMAIN u.byAddress)
      /\ s \in Addresses /\ ~ IsNamed(o, s) => Sender \in DOMAIN v.byLabel
  <2>1. CASE s = None \/ s \in DOMAIN u.byAddress
    <3>1. v = u
      BY <1>3, <2>1
    <3>2. s \in DOMAIN u.byAddress => IsNamed(o, s)
      BY <1>1, <1>4 DEF NamedBy, IsNamed
    <3>3. s = None => s \notin Addresses
      BY LabelAssumption
    <3> QED
      BY <1>4, <2>1, <3>1, <3>2, <3>3 DEF Extends
  <2>2. CASE ~ (s = None \/ s \in DOMAIN u.byAddress)
    <3>1. s \in Addresses /\ v = AddAddressLabel(u, s, Sender, TRUE) /\ Sender \in NameTexts
      BY <1>1, <1>3, <2>2 DEF NameTexts
    <3>2. ~ IsNamed(o, s)
      BY <1>1, <1>4, <2>2 DEF IsNamed
    <3>3. Sender \in Names(s)
      BY <1>2, <3>1, <3>2
    <3>4. /\ Sound(v) /\ Sender \in DOMAIN v.byLabel /\ Extends(v, u, Addresses \ {s})
      <4>1. Added(v, u, s, Sender, TRUE)
        BY <1>4, <3>1, <3>3, AddKeepsSound
      <4> QED
        BY <4>1 DEF Added
    <3>5. DOMAIN u.byAddress \subseteq Addresses \ {s}
      BY <1>4, <2>2, TableParts DEF Sound
    <3> QED
      BY <3>4, <3>5 DEF Extends
  <2> QED
    BY <2>1, <2>2
<1>6. /\ Sound(w) /\ Extends(w, v, Addresses)
      /\ \A i \in 1 .. Len(r) : r[i].name \in DOMAIN w.byLabel
  <2>1. \A i \in 1 .. Len(r) : r[i].name \in Names(r[i].address)
    BY <1>a
  <2> QED
    BY <1>1, <1>3, <1>5, <2>1, AddAllKeepsSound
<1>7. /\ Sound(x) /\ Extends(x, w, Addresses \ NamedBy(k, Len(k)))
      /\ \A i \in 1 .. Len(k) : k[i].name \in DOMAIN x.byLabel
  <2>1. \A i \in 1 .. Len(k) : k[i].name \in Names(k[i].address)
    BY <1>a
  <2> QED
    BY <1>1, <1>3, <1>6, <2>1, AddAllKeepsSound
<1>8. /\ DOMAIN u.byLabel \subseteq DOMAIN x.byLabel /\ DOMAIN v.byLabel \subseteq DOMAIN x.byLabel
      /\ DOMAIN w.byLabel \subseteq DOMAIN x.byLabel
  BY <1>5, <1>6, <1>7 DEF Extends
<1>9. \A e \in ToSet(o) \cup ToSet(r) \cup ToSet(k) : e.name \in DOMAIN x.byLabel
  <2>1. /\ \A e \in ToSet(o) : \E i \in 1 .. Len(o) : e = o[i]
        /\ \A e \in ToSet(r) : \E i \in 1 .. Len(r) : e = r[i]
        /\ \A e \in ToSet(k) : \E i \in 1 .. Len(k) : e = k[i]
    BY <1>1 DEF ToSet
  <2> QED
    BY <1>4, <1>6, <1>7, <1>8, <2>1
<1>10. ASSUME NEW i \in 1 .. Len(o),
              \A e \in ToSet(k) : e.address # o[i].address,
              \A j \in (i + 1) .. Len(o) : o[j].address # o[i].address
       PROVE  x.byAddress[o[i].address] = o[i].name
  <2> DEFINE a == o[i].address
  <2>1. a \in Addresses /\ a \in DOMAIN u.byAddress /\ u.byAddress[a] = o[i].name
    BY <1>4, <1>10, <1>a
  <2>2. a \notin NamedBy(k, Len(k))
    BY <1>10, <1>a DEF NamedBy
  <2> HIDE DEF a
  <2>3. a \in DOMAIN v.byAddress /\ v.byAddress[a] = o[i].name
    BY <1>5, <2>1 DEF Extends
  <2>4. a \in DOMAIN w.byAddress /\ w.byAddress[a] = o[i].name
    BY <1>6, <2>1, <2>3 DEF Extends
  <2>5. x.byAddress[a] = o[i].name
    BY <1>7, <2>1, <2>2, <2>4 DEF Extends
  <2> QED
    BY <2>5 DEF a
<1> QED
  BY <1>5, <1>7, <1>8, <1>9, <1>10 DEF o, r, k, s

(* A member of a list has a place in it.                                     *)
LEMMA MemberPlace ==
  ASSUME NEW S, NEW list \in Seq(S), NEW e \in ToSet(list)
  PROVE  e \in S /\ \E i \in 1 .. Len(list) : e = list[i]
<1>1. PICK i \in DOMAIN list : e = list[i]
  BY DEF ToSet
<1>2. i \in 1 .. Len(list)
  OBVIOUS
<1>3. e \in S
  BY <1>1, <1>2
<1> QED
  BY <1>1, <1>2, <1>3

(* No name is of two addresses.                                              *)
NamesDistinct == \A a, b \in Addresses : a # b => Names(a) \cap Names(b) = {}

(* What a query for a name looks for are names of its address; what a call   *)
(* is found by are names of its own.                                         *)
LEMMA TermsAreNames ==
  ASSUME LabelsInv, NamesDistinct, NEW a \in Addresses, NEW name \in Names(a)
  PROVE  TraceSearchTerms(name) \subseteq Names(a)
<1> DEFINE x == BuildAddressLabels
<1>1. Sound(x)
  BY BuiltSound
<1>2. \A b, c \in Addresses : (\E y : y \in Names(b) /\ y \in Names(c)) => b = c
  BY DEF NamesDistinct
<1>3. TraceSearchTerms(name)
        = {name} \cup (IF name \in DOMAIN x.byAddress THEN {x.byAddress[name]} ELSE {})
                 \cup (IF name \in DOMAIN x.byLabel THEN {x.byLabel[name]} ELSE {})
  BY DEF TraceSearchTerms
<1>4. \A b \in Addresses : b \in Names(b)
  BY DEF Names, BookNames
<1> HIDE DEF x
<1>5. ASSUME name \in DOMAIN x.byAddress PROVE x.byAddress[name] \in Names(a)
  <2>1. name \in Addresses
    BY <1>1, <1>5, TableParts DEF Sound
  <2>2. name = a
    BY <1>2, <1>4, <2>1
  <2> QED
    BY <1>1, <1>5, <2>2 DEF Sound
<1>6. ASSUME name \in DOMAIN x.byLabel PROVE x.byLabel[name] \in Names(a)
  <2>1. x.byLabel[name] \in Addresses /\ name \in Names(x.byLabel[name])
    BY <1>1, <1>6, TableParts DEF Sound
  <2>2. x.byLabel[name] = a
    BY <1>2, <2>1
  <2> QED
    BY <1>4, <2>2
<1> QED
  BY <1>3, <1>5, <1>6

(* and what a call is found by are names of its address and what it mentions. *)
LEMMA TextIsNames ==
  ASSUME LabelsInv, NEW call \in ToSet(inputs.arena)
  PROVE  /\ call.address \in Addresses
         /\ {call.address} \cup call.mentions \subseteq TraceSearchText(call)
         /\ TraceSearchText(call) \subseteq Names(call.address) \cup call.mentions \cup {None}
<1> DEFINE x == BuildAddressLabels
           a == call.address
<1>1. Sound(x)
  BY BuiltSound
<1>2. a \in Addresses
  <2>1. inputs.arena \in Seq(Called)
    BY DEF LabelsInv
  <2>2. call \in Called
    BY <2>1, MemberPlace
  <2> QED
    BY <2>2 DEF Called
<1>3. TraceSearchText(call)
        = {a, TargetLabel(call)} \cup call.mentions
            \cup (IF a \in DOMAIN x.byAddress THEN {x.byAddress[a]} ELSE {})
  BY DEF TraceSearchText
<1>4. a \in Names(a) /\ (call.label # None => call.label \in Names(a))
  BY DEF Names, BookNames
<1>5. IsNamed(TraceLabels, a) => NameIn(TraceLabels, a) \in Names(a)
  <2>1. ASSUME NEW k \in DOMAIN TraceLabels, TraceLabels[k].address = a
        PROVE  TraceLabels[k].name \in Names(a)
    <3>1. TraceLabels[k] \in ToSet(TraceLabels)
      BY DEF ToSet
    <3> QED
      BY <2>1, <3>1 DEF Names, BookNames
  <2> QED
    BY <2>1 DEF IsNamed, NameIn
<1>6. TargetLabel(call) \in Names(a) \cup {None}
  BY <1>4, <1>5 DEF TargetLabel
<1> HIDE DEF x
<1>7. a \in DOMAIN x.byAddress => x.byAddress[a] \in Names(a)
  BY <1>1 DEF Sound
<1> HIDE DEF a
<1>8. /\ TraceSearchText(call) \subseteq Names(a) \cup call.mentions \cup {None}
      /\ {a} \cup call.mentions \subseteq TraceSearchText(call)
  BY <1>3, <1>4, <1>6, <1>7
<1> QED
  BY <1>2, <1>8 DEF a

(* None is no name.                                                          *)
LEMMA NamesAreTexts == LabelsInv => \A a \in Addresses : None \notin Names(a)
<1> SUFFICES ASSUME LabelsInv, NEW a \in Addresses PROVE None \notin Names(a)
  OBVIOUS
<1>1. /\ inputs.overrides \in Seq(Tagged) /\ inputs.tokens \in Seq(Tagged)
      /\ TraceLabels \in Seq(Tagged)
  BY NamedTagged, TraceLabelsTagged DEF LabelsInv
<1>2. None \notin NameTexts
  BY LabelAssumption DEF NameTexts
<1>3. \A e \in ToSet(inputs.overrides) \cup ToSet(inputs.tokens) \cup ToSet(TraceLabels) :
        e.name \in NameTexts
  <2>1. \A e \in ToSet(inputs.overrides) \cup ToSet(inputs.tokens) \cup ToSet(TraceLabels) :
          e \in Tagged
    BY <1>1, MemberPlace
  <2> QED
    BY <2>1 DEF Tagged
<1>4. Sender # None /\ a # None
  BY LabelAssumption
<1> QED
  BY <1>2, <1>3, <1>4 DEF Names, BookNames

(* A name that the labels of an address have leads to the address.           *)
LEMMA BookNamesLead ==
  ASSUME LabelsInv, NamesDistinct, NEW a \in Addresses, NEW name \in BookNames(a)
  PROVE  a \in TraceSearchTerms(name)
<1> DEFINE x == BuildAddressLabels
<1>x. x = BuildAddressLabels
  OBVIOUS
<1>1. /\ Sound(x)
      /\ \A e \in ToSet(inputs.overrides) \cup ToSet(TraceLabels) \cup ToSet(inputs.tokens) :
           e.name \in DOMAIN x.byLabel
      /\ inputs.sender \in Addresses /\ ~ IsNamed(inputs.overrides, inputs.sender)
           => Sender \in DOMAIN x.byLabel
  BY BuiltSound
<1>2. \A b, c \in Addresses : (\E y : y \in Names(b) /\ y \in Names(c)) => b = c
  BY DEF NamesDistinct
<1>3. name \in Names(a)
  BY DEF Names
<1>4. name \in TraceSearchTerms(name)
  BY DEF TraceSearchTerms
<1>5. name \in DOMAIN x.byLabel => x.byLabel[name] \in TraceSearchTerms(name)
  BY DEF TraceSearchTerms
<1> HIDE DEF x
<1>6. CASE name \in DOMAIN x.byLabel
  <2>1. x.byLabel[name] \in Addresses /\ name \in Names(x.byLabel[name])
    BY <1>1, <1>6, TableParts DEF Sound
  <2>2. x.byLabel[name] = a
    BY <1>2, <1>3, <2>1
  <2> QED
    BY <1>5, <1>6, <2>2
<1>7. \/ \E e \in ToSet(inputs.overrides) \cup ToSet(inputs.tokens) \cup ToSet(TraceLabels) :
           e.name = name
      \/ a = inputs.sender /\ ~ IsNamed(inputs.overrides, a) /\ name = Sender
      \/ name = a
  BY DEF BookNames
<1> QED
  BY <1>1, <1>4, <1>6, <1>7

(* The calls to an address are found by each of its names.                   *)
LEMMA NamesFind ==
  ASSUME LabelsInv, NamesDistinct, NEW a \in Addresses, NEW name \in Names(a),
         NEW call \in ToSet(inputs.arena), call.address = a
  PROVE  Finds(name, call)
<1>1. a \in TraceSearchText(call) /\ name \in TraceSearchTerms(name)
  BY TextIsNames DEF TraceSearchTerms
<1>2. CASE name \in BookNames(a)
  BY <1>1, <1>2, BookNamesLead DEF Finds
<1>3. ASSUME NEW c \in ToSet(inputs.arena), c.address = a, c.label # None, name = c.label
      PROVE  Finds(name, call)
  <2>1. call.label = c.label
    <3>1. inputs.arena \in Seq(Called)
      BY DEF LabelsInv
    <3>2. PICK i \in 1 .. Len(inputs.arena) : c = inputs.arena[i]
      BY <3>1, MemberPlace
    <3>3. PICK j \in 1 .. Len(inputs.arena) : call = inputs.arena[j]
      BY <3>1, MemberPlace
    <3> QED
      BY <1>3, <3>2, <3>3 DEF LabelsInv
  <2>2. name \in TraceSearchText(call)
    BY <1>3, <2>1 DEF TraceSearchText, TargetLabel
  <2> QED
    BY <1>1, <2>2 DEF Finds
<1> QED
  BY <1>2, <1>3 DEF Names

(* A name of an address finds no call but those to the address and those     *)
(* that mention it or a name of it.                                          *)
LEMMA FoundIsNamed ==
  ASSUME LabelsInv, NamesDistinct, NEW a \in Addresses, NEW name \in Names(a),
         NEW call \in ToSet(inputs.arena), Finds(name, call)
  PROVE  call.address = a \/ call.mentions \cap Names(a) # {}
<1>1. PICK y : y \in TraceSearchTerms(name) /\ y \in TraceSearchText(call)
  BY DEF Finds
<1>2. y \in Names(a) /\ y # None
  BY <1>1, TermsAreNames, NamesAreTexts
<1>3. call.address \in Addresses /\ (y \in Names(call.address) \/ y \in call.mentions)
  BY <1>1, <1>2, TextIsNames
<1> QED
  BY <1>2, <1>3 DEF NamesDistinct

(* An address is shown under the user's last label, unless it is a token     *)
(* with a symbol; and where no name is of two addresses, each name that an   *)
(* address has finds the calls to it, those that mention the name and, but   *)
(* for a label of one call only, those that mention the address, and none    *)
(* that is to another address and mentions neither this one nor a name of it *)
(* (buildAddressLabels, traceSearchTerms, traceSearchText).                  *)
THEOREM LabelsAlwaysFindTheirAddress == LabelsSpec => []LabelsFindTheirAddress
<1>1. LabelsSpec => []LabelsInv
  BY LabelsInitially, LabelsInvInductive, PTL DEF LabelsSpec
<1>2. ASSUME LabelsInv PROVE LabelsFindTheirAddress
  <2>1. ASSUME NEW i \in DOMAIN inputs.overrides,
               ~ \E e \in ToSet(inputs.tokens) : e.address = inputs.overrides[i].address,
               ~ \E j \in i + 1 .. Len(inputs.overrides) :
                   inputs.overrides[j].address = inputs.overrides[i].address
        PROVE  BuildAddressLabels.byAddress[inputs.overrides[i].address] = inputs.overrides[i].name
    <3>1. i \in 1 .. Len(inputs.overrides)
      BY <1>2 DEF LabelsInv
    <3> QED
      BY <1>2, <2>1, <3>1, BuiltSound
  <2>2. ASSUME NamesDistinct, NEW a \in Addresses, NEW name \in Names(a),
               NEW call \in ToSet(inputs.arena)
        PROVE  /\ call.address = a => Finds(name, call)
               /\ name \in call.mentions => Finds(name, call)
               /\ a \in call.mentions /\ name \in BookNames(a) => Finds(name, call)
               /\ Finds(name, call) => (call.address = a \/ call.mentions \cap Names(a) # {})
    <3>1. call.mentions \subseteq TraceSearchText(call)
      BY <1>2, TextIsNames
    <3>2. name \in call.mentions => Finds(name, call)
      BY <3>1 DEF Finds, TraceSearchTerms
    <3>3. a \in call.mentions /\ name \in BookNames(a) => Finds(name, call)
      BY <1>2, <2>2, <3>1, BookNamesLead DEF Finds
    <3> QED
      BY <1>2, <2>2, <3>2, <3>3, NamesFind, FoundIsNamed
  <2> QED
    BY <2>1, <2>2 DEF LabelsFindTheirAddress, NamesDistinct
<1> QED
  BY <1>1, <1>2, PTL

-----------------------------------------------------------------------------
(***************************************************************************)
(* The page as a whole.  Its parts share no variable, so a step of the     *)
(* page is a step of one part and leaves the others as they are: what is   *)
(* proved of a part on its own holds of it on the page.                    *)
(***************************************************************************)

(* Whatever part a step of the page is taken in, each part takes a step of   *)
(* its own or none.                                                          *)
LEMMA PartsStepAlone ==
    ASSUME [MCNext]_MCVars
    PROVE  /\ [Next]_vars /\ [FormNext]_formVars /\ [PanelNext]_panelVars
           /\ [HistoryNext]_historyVars /\ [SearchNext]_searchVars
           /\ [ViewsNext]_viewVars /\ [CardNext]_cardVars /\ [LabelsNext]_inputs
BY DEF MCNext, MCVars

(* The page implements the specification of each of its parts.               *)
THEOREM PageRunsItsParts ==
    MCSpec => /\ Spec /\ FormSpec /\ PanelSpec /\ HistorySpec
              /\ SearchSpec /\ ViewsSpec /\ CardSpec /\ LabelsSpec
<1>1. MCInit => /\ Init /\ FormInit /\ PanelInit /\ HistoryInit
                /\ SearchInit /\ ViewsInit /\ CardInit /\ LabelsInit
  BY DEF MCInit
<1>2. [MCNext]_MCVars => /\ [Next]_vars /\ [FormNext]_formVars /\ [PanelNext]_panelVars
                         /\ [HistoryNext]_historyVars /\ [SearchNext]_searchVars
                         /\ [ViewsNext]_viewVars /\ [CardNext]_cardVars /\ [LabelsNext]_inputs
  BY PartsStepAlone
<1> QED
  BY <1>1, <1>2, PTL DEF MCSpec, Spec, FormSpec, PanelSpec, HistorySpec, SearchSpec,
                         ViewsSpec, CardSpec, LabelsSpec

(* Every part of the page keeps to its types and to what goes with them: one *)
(* panel at a time, no export without a record, a timer for every mark of a  *)
(* copy, no more logs, transfers, edges and edits than their bounds.         *)
THEOREM PartsTypeCorrect == MCSpec => []PartsTypeOK
<1>1. /\ TypeOK /\ FormTypeOK /\ PanelTypeOK /\ HistoryTypeOK
      /\ SearchTypeOK /\ ViewsTypeOK /\ CardTypeOK
      => PartsTypeOK
  BY DEF PartsTypeOK
<1> QED
  BY <1>1, PageRunsItsParts, FlowTypeCorrect, FormTypeCorrect, PanelsExclusive,
     HistoryTypeCorrect, SearchTypeCorrect, ViewsTypeCorrect, CardsTypeCorrect, PTL
=============================================================================
