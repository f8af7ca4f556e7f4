---------------------------- MODULE FloatingCard ----------------------------
(***************************************************************************)
(* The cards of the trace (useFloatingCard.ts) that show an address, a     *)
(* function or bytes in full and copy them (AddressReference.tsx,          *)
(* FunctionReference.tsx, TraceArguments.tsx).                             *)
(*                                                                         *)
(* A press of the mouse is one step: the listeners of pointerdown, the     *)
(* move of the focus with its blur event, and the click run before any     *)
(* timer.  The parts of a card are its trigger, which is not inside it,    *)
(* its text, which takes no focus, and its button that copies.             *)
(***************************************************************************)
EXTENDS Naturals

CONSTANTS
    Cards,        \* the references of the page that have a card
    MaxWrites     \* bound: writes to the clipboard and timers of one card

ASSUME CardAssumption == MaxWrites \in Nat /\ "page" \notin Cards

Outside == <<"page", "outside">>
NoPress == <<"page", "none">>
Parts == {"trigger", "text", "copy"}

VARIABLES
    active,       \* isActive
    focus,        \* what has the focus, Outside if nothing of a card
    pointerDown,  \* cardPointerDownRef
    writes,       \* writes to the clipboard not yet ended
    copied,       \* the button shows that it has copied
    timers,       \* timers that will take the mark away
    press         \* for the property: what the last step pressed

cardVars == <<active, focus, pointerDown, writes, copied, timers, press>>

CardInit ==
    /\ active = [c \in Cards |-> FALSE]
    /\ focus = Outside
    /\ pointerDown = [c \in Cards |-> FALSE]
    /\ writes = [c \in Cards |-> 0]
    /\ copied = [c \in Cards |-> FALSE]
    /\ timers = [c \in Cards |-> 0]
    /\ press = NoPress

(* shouldCloseOnBlur of the reference that the focus leaves. *)
ClosesOnBlur(c, down, next) == focus[1] = c /\ ~ down[c] /\ next[1] # c

(* Mistake: a press in a card is not remembered until the focus has moved. *)
DownForgotten(target) == pointerDown

(* keepOpenOnCardPointerDown: not of the button, which stops the event.      *)
Down(target) ==
    IF target[2] = "text" THEN [pointerDown EXCEPT ![target[1]] = TRUE] ELSE pointerDown

(* The listener of the window closes the active cards that the pointer is    *)
(* outside of; a press inside a card does not reach it.                      *)
OpenAfterPointerDown(target) ==
    [c \in Cards |-> active[c] /\ (target[2] \in {"text", "copy"} \/ target[1] = c)]

(* What can be pressed: the triggers, the parts of the open cards, the page. *)
Pressable == ({c \in Cards : active[c]} \X Parts) \cup (Cards \X {"trigger"}) \cup {Outside}

(* A button copies: the write begins. *)
Copies(target) ==
    /\ target[2] = "copy" => writes[target[1]] + timers[target[1]] < MaxWrites
    /\ writes' = IF target[2] = "copy" THEN [writes EXCEPT ![target[1]] = @ + 1] ELSE writes

Press(target) ==
    LET opened == OpenAfterPointerDown(target)
        next == IF target[2] = "text" THEN Outside ELSE target
        blurred == [c \in Cards |-> opened[c] /\ ~ ClosesOnBlur(c, Down(target), next)]
    IN  /\ target \in Pressable
        /\ active' = [c \in Cards |-> IF target = <<c, "trigger">> THEN ~ blurred[c] ELSE blurred[c]]
        /\ focus' = next
        /\ pointerDown' = Down(target)
        /\ press' = target
        /\ Copies(target)
        /\ UNCHANGED <<copied, timers>>

(* The timer of zero milliseconds that a press in a card has set. *)
PressEnds(c) ==
    /\ pointerDown[c]
    /\ pointerDown' = [pointerDown EXCEPT ![c] = FALSE]
    /\ UNCHANGED <<active, focus, writes, copied, timers, press>>

(* The keyboard moves the focus. *)
TabTo(target) ==
    /\ target \in Pressable /\ target[2] # "text"
    /\ \A c \in Cards : ~ pointerDown[c]
    /\ active' = [c \in Cards |-> active[c] /\ ~ ClosesOnBlur(c, pointerDown, target)]
    /\ focus' = IF target[2] = "copy" /\ ~ active'[target[1]] THEN Outside ELSE target
    /\ press' = NoPress
    /\ UNCHANGED <<pointerDown, writes, copied, timers>>

(* Enter on a trigger or a button that has the focus.  A card that closes    *)
(* takes its button with it.                                                 *)
PressEnter ==
    /\ focus # Outside
    /\ \A c \in Cards : ~ pointerDown[c]
    /\ Copies(focus)
    /\ active' = [c \in Cards |-> IF focus = <<c, "trigger">> THEN ~ active[c] ELSE active[c]]
    /\ press' = NoPress
    /\ UNCHANGED <<focus, pointerDown, copied, timers>>

(* The write to the clipboard ends: the mark is set for a while, or not.     *)
WriteEnds(c, done) ==
    /\ writes[c] > 0
    /\ writes' = [writes EXCEPT ![c] = @ - 1]
    /\ copied' = [copied EXCEPT ![c] = done]
    /\ timers' = IF done THEN [timers EXCEPT ![c] = @ + 1] ELSE timers
    /\ UNCHANGED <<active, focus, pointerDown, press>>

(* A timer takes the mark away, one of an earlier copy the mark of a later.  *)
MarkEnds(c) ==
    /\ timers[c] > 0
    /\ timers' = [timers EXCEPT ![c] = @ - 1]
    /\ copied' = [copied EXCEPT ![c] = FALSE]
    /\ UNCHANGED <<active, focus, pointerDown, writes, press>>

CardNext ==
    \/ \E target \in Pressable : Press(target) \/ TabTo(target)
    \/ PressEnter
    \/ \E c \in Cards : \/ PressEnds(c) \/ MarkEnds(c)
                        \/ \E done \in BOOLEAN : WriteEnds(c, done)

CardSpec == CardInit /\ [][CardNext]_cardVars

-----------------------------------------------------------------------------
(* Types; besides, a mark has a timer that will take it away. *)
CardTypeOK ==
    /\ active \in [Cards -> BOOLEAN] /\ pointerDown \in [Cards -> BOOLEAN]
    /\ focus \in (Cards \X {"trigger", "copy"}) \cup {Outside}
    /\ \A c \in Cards : writes[c] + timers[c] \in 0 .. MaxWrites
    /\ \A c \in Cards : copied[c] => timers[c] > 0

(* A press in an open card, on its text or its button, does not close it,    *)
(* though the focus may leave the reference; one on a trigger leaves no      *)
(* other card open, and one on the page none.                                *)
CardsFollowPresses ==
    \A c \in Cards :
      /\ press \in {<<c, "text">>, <<c, "copy">>} => active[c]
      /\ active[c] => press # Outside /\ ~ (press[2] = "trigger" /\ press[1] # c)
=============================================================================
