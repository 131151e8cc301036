----------------------------- MODULE ClientModal -----------------------------
(***************************************************************************)
(* The dialogs of the web client.  A dialog that is closed fades out       *)
(* before it goes; while any is on the screen the page behind is fixed in  *)
(* its place, and while one is open the focus goes round in it.            *)
(*                                                                         *)
(* An effect runs in the step whose change it depends on.                  *)
(***************************************************************************)
EXTENDS Integers, FiniteSets

CONSTANTS
  Dialog,
  Fields,    \* what getFocusableElements finds in a dialog: 1..Fields
  MaxScroll  \* bound: how far the page can be scrolled

ASSUME ModalAssumption ==
  "page" \notin Dialog /\ IsFiniteSet(Dialog) /\ Fields \in Nat \ {0} /\ MaxScroll \in Nat

VARIABLES
  mounted,          \* the dialogs whose component is mounted
  opened,           \* those whose parent has them open
  isVisible,        \* those on the screen, open or fading out
  closeTimer,       \* the dialogs whose closeTimerRef is set, and whether it will notify
  isClosing,
  activeModalCount,
  scrollLock,       \* the page: its own style or fixed, and its place
  snapshot,         \* scrollLockSnapshot
  place,            \* auxiliary: where the user has scrolled to
  focus,            \* the element with the focus
  focusTimer,       \* the dialogs that will take it
  focusBack         \* previouslyFocusedRef

modalVars == <<mounted, opened, isVisible, closeTimer, isClosing, activeModalCount, scrollLock,
               snapshot, place, focus, focusTimer, focusBack>>
scrollVars == <<activeModalCount, scrollLock, snapshot>>
focusVars == <<focus, focusTimer, focusBack>>

Page == [in |-> "page", at |-> 0]
Element == {Page} \cup [in : Dialog, at : 0..Fields]  \* at 0 is the dialog itself
PageState == [fixed : BOOLEAN, y : 0..MaxScroll]
Unlocked == [fixed |-> FALSE, y |-> 0]

ModalTypeOK ==
  /\ mounted \subseteq Dialog /\ opened \subseteq mounted /\ isVisible \subseteq mounted
  /\ closeTimer \in [Dialog -> {"none", "quiet", "notify"}]
  /\ isClosing \subseteq mounted
  /\ activeModalCount \in 0..Cardinality(Dialog)
  /\ scrollLock \in PageState /\ snapshot \in PageState /\ place \in 0..MaxScroll
  /\ focus \in Element /\ focusTimer \subseteq Dialog /\ focusBack \in [Dialog -> Element]

ModalInit ==
  /\ mounted = Dialog /\ opened = {} /\ isVisible = {} /\ isClosing = {}
  /\ closeTimer = [d \in Dialog |-> "none"]
  /\ activeModalCount = 0 /\ scrollLock = Unlocked /\ snapshot = Unlocked /\ place = 0
  /\ focus = Page /\ focusTimer = {} /\ focusBack = [d \in Dialog |-> Page]

OnScreen(d) == d \in opened \cup isVisible
InDialog(e, d) == e.in = d

-----------------------------------------------------------------------------
(* The page behind. *)

(* Mutant: every dialog takes the snapshot. *)
LockScrollAlways ==
  /\ activeModalCount' = activeModalCount + 1
  /\ snapshot' = scrollLock
  /\ scrollLock' = [fixed |-> TRUE, y |-> 0]

(* lockScroll: the first dialog fixes the page, whose scroll position becomes 0. *)
LockScroll ==
  /\ activeModalCount' = activeModalCount + 1
  /\ IF activeModalCount = 0
     THEN snapshot' = scrollLock /\ scrollLock' = [fixed |-> TRUE, y |-> 0]
     ELSE UNCHANGED <<snapshot, scrollLock>>

(* unlockScroll: the last puts it back. *)
UnlockScroll ==
  /\ activeModalCount' = IF activeModalCount > 0 THEN activeModalCount - 1 ELSE 0
  /\ IF activeModalCount' = 0
     THEN scrollLock' = snapshot /\ snapshot' = [snapshot EXCEPT !.y = 0]
     ELSE UNCHANGED <<snapshot, scrollLock>>

(* The user scrolls the page. *)
ScrollPage(y) ==
  /\ ~scrollLock.fixed
  /\ scrollLock' = [scrollLock EXCEPT !.y = y] /\ place' = y
  /\ UNCHANGED <<mounted, opened, isVisible, closeTimer, isClosing, activeModalCount, snapshot, focusVars>>

-----------------------------------------------------------------------------
(* A dialog. *)

(* startClose: the timer of an earlier close goes on. *)
StartClose(d, notify) ==
  IF closeTimer[d] # "none"
  THEN UNCHANGED <<closeTimer, isClosing>>
  ELSE /\ closeTimer' = [closeTimer EXCEPT ![d] = IF notify THEN "notify" ELSE "quiet"]
       /\ isClosing' = isClosing \cup {d}

(* The effect on open: a close under way is given up. *)
Reshow(d) ==
  /\ isVisible' = isVisible \cup {d}
  /\ closeTimer' = [closeTimer EXCEPT ![d] = "none"]
  /\ isClosing' = isClosing \ {d}

(* The parent opens it: by a button of the page or of another dialog, which has the focus. *)
OpenDialog(d) ==
  /\ d \in mounted \ opened
  /\ opened' = opened \cup {d}
  /\ Reshow(d)
  /\ IF OnScreen(d) THEN UNCHANGED scrollVars ELSE LockScroll
  /\ focusBack' = [focusBack EXCEPT ![d] = focus]
  /\ focusTimer' = focusTimer \cup {d}
  /\ ~InDialog(focus, d)
  /\ UNCHANGED <<mounted, place, focus>>

(* The parent closes it, as after an edit was saved. *)
CloseDialog(d) ==
  /\ d \in opened
  /\ opened' = opened \ {d}
  /\ StartClose(d, FALSE)
  /\ focusTimer' = focusTimer \ {d}
  /\ UNCHANGED <<mounted, isVisible, scrollVars, place, focus, focusBack>>

(* The parent renders with another onClose: the effect runs again. *)
RenderParent(d) ==
  /\ OnScreen(d)
  /\ IF d \in opened THEN Reshow(d) ELSE UNCHANGED isVisible /\ StartClose(d, FALSE)
  /\ UNCHANGED <<mounted, opened, scrollVars, place, focusVars>>

(* handleClose, of the button. *)
PressClose(d) ==
  /\ OnScreen(d)
  /\ StartClose(d, TRUE)
  /\ UNCHANGED <<mounted, opened, isVisible, scrollVars, place, focusVars>>

(* handleKeyDown: Escape closes every dialog that is open. *)
PressEscape ==
  /\ opened # {}
  /\ closeTimer' = [d \in Dialog |-> IF d \in opened /\ closeTimer[d] = "none" THEN "notify" ELSE closeTimer[d]]
  /\ isClosing' = isClosing \cup opened
  /\ UNCHANGED <<mounted, opened, isVisible, scrollVars, place, focusVars>>

(* What has the focus once d has gone; an element that has gone too cannot take it. *)
FocusWithout(d) ==
  LET e == focusBack[d] IN IF e = Page \/ \E f \in (opened \cup isVisible) \ {d} : InDialog(e, f) THEN e ELSE Page

(* CLOSE_ANIMATION_DURATION have gone by. *)
CloseTimer(d) ==
  /\ closeTimer[d] # "none"
  /\ closeTimer' = [closeTimer EXCEPT ![d] = "none"]
  /\ isVisible' = isVisible \ {d} /\ isClosing' = isClosing \ {d}
  /\ opened' = IF closeTimer[d] = "notify" THEN opened \ {d} ELSE opened
  /\ focusTimer' = focusTimer \cap opened'
  /\ IF d \in opened' THEN UNCHANGED <<scrollVars, focus, focusBack>>
     ELSE /\ UnlockScroll
          /\ focus' = FocusWithout(d)
          /\ focusBack' = [focusBack EXCEPT ![d] = Page]
  /\ UNCHANGED <<mounted, place>>

(* The tab of its page is left. *)
Unmount(d) ==
  /\ d \in mounted
  /\ mounted' = mounted \ {d}
  /\ opened' = opened \ {d} /\ isVisible' = isVisible \ {d} /\ isClosing' = isClosing \ {d}
  /\ closeTimer' = [closeTimer EXCEPT ![d] = "none"]
  /\ IF OnScreen(d) THEN UnlockScroll ELSE UNCHANGED scrollVars
  /\ focus' = IF InDialog(focus, d) THEN Page ELSE focus
  /\ focusTimer' = focusTimer \ {d}
  /\ focusBack' = [focusBack EXCEPT ![d] = Page]
  /\ UNCHANGED place

Mount(d) ==
  /\ d \notin mounted
  /\ mounted' = mounted \cup {d}
  /\ UNCHANGED <<opened, isVisible, closeTimer, isClosing, scrollVars, place, focusVars>>

-----------------------------------------------------------------------------
(* The focus. *)

(* The first element of a dialog that was opened takes it. *)
FocusFirst(d) ==
  /\ d \in focusTimer
  /\ focus' = [in |-> d, at |-> 1]
  /\ focusTimer' = focusTimer \ {d}
  /\ UNCHANGED <<mounted, opened, isVisible, closeTimer, isClosing, scrollVars, place, focusBack>>

(* What Tab (step 1) or Shift+Tab (step -1) leads to: handleKeyDown in an open dialog,
   the browser otherwise, which leaves the dialog behind its last element. *)
NextElement(step) ==
  LET d == focus.in
      i == focus.at + step
  IN CASE focus.at = 0 -> [in |-> d, at |-> IF step = 1 THEN 1 ELSE Fields]
       [] i \in 1..Fields -> [in |-> d, at |-> i]
       [] i \notin 1..Fields /\ d \in opened -> [in |-> d, at |-> IF step = 1 THEN 1 ELSE Fields]
       [] OTHER -> Page

PressTab(step) ==
  /\ focus # Page
  /\ focus' = NextElement(step)
  /\ UNCHANGED <<mounted, opened, isVisible, closeTimer, isClosing, scrollVars, place, focusTimer, focusBack>>

(* The user clicks at the dialog, beside its fields. *)
ClickDialog(d) ==
  /\ d \in opened
  /\ focus' = [in |-> d, at |-> 0]
  /\ UNCHANGED <<mounted, opened, isVisible, closeTimer, isClosing, scrollVars, place, focusTimer, focusBack>>

ModalNext ==
  \/ \E y \in 0..MaxScroll : ScrollPage(y)
  \/ \E d \in Dialog :
       \/ OpenDialog(d) \/ CloseDialog(d) \/ RenderParent(d) \/ PressClose(d) \/ CloseTimer(d)
       \/ Unmount(d) \/ Mount(d) \/ FocusFirst(d) \/ ClickDialog(d)
  \/ PressEscape
  \/ \E step \in {-1, 1} : PressTab(step)

ModalSpec == ModalInit /\ [][ModalNext]_modalVars

-----------------------------------------------------------------------------
(* Properties. *)

(***************************************************************************)
(* The page is fixed exactly while a dialog is on the screen, and lies     *)
(* where the user had left it when the last one has gone, in whatever      *)
(* order dialogs are opened, closed twice, opened again while they fade    *)
(* out, or unmounted.  A dialog fades out exactly while its timer runs,    *)
(* and one that is open is on the screen.                                  *)
(***************************************************************************)
ScrollRestored ==
  /\ activeModalCount = Cardinality(opened \cup isVisible)
  /\ scrollLock.fixed <=> activeModalCount > 0
  /\ ~scrollLock.fixed => scrollLock.y = place
  /\ \A d \in Dialog : d \in isClosing <=> closeTimer[d] # "none"
  /\ opened \subseteq isVisible

(***************************************************************************)
(* No key takes the focus out of a dialog that stays open: only another    *)
(* dialog does, when it opens, or goes and gives the focus back.  Nor does *)
(* the focus stay in a dialog that has gone.                               *)
(***************************************************************************)
FocusTrapped ==
  \A d \in Dialog :
    InDialog(focus, d) =>
      /\ d \in opened /\ d \in opened' /\ isVisible \subseteq isVisible' =>
           InDialog(focus', d) \/ focus'.in \in opened'
      /\ d \notin (opened \cup isVisible)' => ~InDialog(focus', d)

(***************************************************************************)
(* What dialogs take from the page, its scrolling and its focus, they hold *)
(* while they are open and give back, step by step.                        *)
(***************************************************************************)
DialogsGiveBack == [][ScrollRestored' /\ FocusTrapped]_modalVars
=============================================================================
