--------------------------- MODULE HealthTooltip ----------------------------
(***************************************************************************)
(* The tooltip of the service health grid (ServiceHealthCard.tsx): opened  *)
(* by mouse, touch or focus, placed by the block's rectangle on the screen   *)
(* and placed anew when the page scrolls or is resized, while reloads may  *)
(* take blocks away.  Lengths are whole units of the screen.               *)
(***************************************************************************)
EXTENDS Integers

CONSTANTS
  GridSizes,     \* numbers of blocks an answer may have; the grid keeps its width
  GridWidth, BlockHeight,
  Scrolls,       \* scroll positions [x, y]
  ScreenWidth, SafeWidth, SafeHeight, Gap \* TOOLTIP_SAFE_WIDTH, _HEIGHT, _OFFSET

ASSUME GridAssumption == GridSizes \subseteq Nat \ {0} /\ GridWidth \in Nat
ASSUME ScreenAssumption ==
  /\ Scrolls \subseteq [x : Int, y : Int]
  /\ ScreenWidth \in Nat /\ SafeWidth \in Nat /\ SafeHeight \in Nat /\ BlockHeight \in Nat /\ Gap \in Nat

VARIABLES
  grid,     \* blocks of the answer shown; 0 before the first one
  scroll,
  tip,      \* activeTooltip: the block's index and the place computed for it
  attached, \* its anchor is still in the document
  relaid,   \* the grid has been laid out anew since the place was computed
  mouse, focused \* the block under the mouse and the one with the focus

healthVars == <<grid, scroll, tip, attached, relaid, mouse, focused>>

None == 0

Block == UNION {1..n : n \in GridSizes}

NoTip == [idx |-> None, horizontal |-> "center", vertical |-> "above", left |-> 0, top |-> 0]

HealthInit ==
  /\ grid = 0 /\ scroll \in Scrolls
  /\ tip = NoTip /\ attached = FALSE /\ relaid = FALSE
  /\ mouse = None /\ focused = None

HealthTypeOK ==
  /\ grid \in GridSizes \cup {0} /\ scroll \in Scrolls
  /\ tip.idx \in Block \cup {None}
  /\ attached \in BOOLEAN /\ relaid \in BOOLEAN
  /\ mouse \in Block \cup {None} /\ focused \in Block \cup {None}

-----------------------------------------------------------------------------
Width == GridWidth \div grid
RectLeft(i, s) == (i - 1) * Width - s.x
RectRight(i, s) == i * Width - s.x
RectTop(s) == 0 - s.y
Center(i, s) == (RectLeft(i, s) + RectRight(i, s)) \div 2

Horizontal(i, s) ==
  IF Center(i, s) <= SafeWidth \div 2 THEN "left"
  ELSE IF Center(i, s) >= ScreenWidth - SafeWidth \div 2 THEN "right" ELSE "center"

Vertical(s) == IF RectTop(s) <= SafeHeight THEN "below" ELSE "above"

BuildTooltipState(i, s) ==
  [idx |-> i, horizontal |-> Horizontal(i, s), vertical |-> Vertical(s),
   left |-> CASE Horizontal(i, s) = "left" -> RectLeft(i, s)
              [] Horizontal(i, s) = "right" -> RectRight(i, s)
              [] OTHER -> Center(i, s),
   top |-> IF Vertical(s) = "below" THEN RectTop(s) + BlockHeight + Gap ELSE RectTop(s) - Gap]

Open(i) == tip' = BuildTooltipState(i, scroll) /\ attached' = TRUE /\ relaid' = FALSE
Close == tip' = NoTip /\ attached' = FALSE /\ relaid' = FALSE

-----------------------------------------------------------------------------
PointerEnter(i) ==
  /\ mouse = None /\ i \in 1..grid
  /\ mouse' = i /\ Open(i)
  /\ UNCHANGED <<grid, scroll, focused>>

(* Leaving any block closes the tooltip, whichever block it belongs to.    *)
PointerLeave ==
  /\ mouse # None
  /\ mouse' = None /\ Close
  /\ UNCHANGED <<grid, scroll, focused>>

(* A touch opens the tooltip of its block, or closes it. *)
Touch(i) ==
  /\ i \in 1..grid
  /\ IF tip.idx = i THEN Close ELSE Open(i)
  /\ UNCHANGED <<grid, scroll, mouse, focused>>

PressOutside ==
  /\ tip # NoTip /\ Close
  /\ UNCHANGED <<grid, scroll, mouse, focused>>

Focus(i) ==
  /\ focused = None /\ i \in 1..grid
  /\ focused' = i /\ Open(i)
  /\ UNCHANGED <<grid, scroll, mouse>>

Blur ==
  /\ focused # None
  /\ focused' = None /\ Close
  /\ UNCHANGED <<grid, scroll, mouse>>

(* Mutant of ScrollTo: the tooltip stays where it was. *)
ScrollToOnly(s) ==
  /\ s # scroll
  /\ scroll' = s
  /\ UNCHANGED <<grid, tip, attached, relaid, mouse, focused>>

(* updateTooltipPosition: the place is computed again, unless the block's  *)
(* element has left the document.                                          *)
ScrollTo(s) ==
  /\ s # scroll
  /\ scroll' = s
  /\ IF tip = NoTip THEN UNCHANGED <<tip, attached, relaid>>
     ELSE IF ~attached THEN Close
     ELSE tip' = BuildTooltipState(tip.idx, s) /\ relaid' = FALSE /\ UNCHANGED attached
  /\ UNCHANGED <<grid, mouse, focused>>

(* An answer with another number of blocks: those beyond it leave the      *)
(* document without an event, and new ones are other elements.             *)
ShowHealth(n) ==
  /\ n # grid
  /\ grid' = n
  /\ attached' = (attached /\ tip.idx <= n)
  /\ relaid' = (tip # NoTip)
  /\ mouse' = IF mouse <= n THEN mouse ELSE None
  /\ focused' = IF focused <= n THEN focused ELSE None
  /\ UNCHANGED <<scroll, tip>>

HealthNext ==
  \/ \E i \in Block : PointerEnter(i) \/ Touch(i) \/ Focus(i)
  \/ PointerLeave \/ PressOutside \/ Blur
  \/ \E s \in Scrolls : ScrollTo(s)
  \/ \E n \in GridSizes : ShowHealth(n)

HealthSpec == HealthInit /\ [][HealthNext]_healthVars

-----------------------------------------------------------------------------
Shown == tip # NoTip /\ tip.idx \in 1..grid

TipLeft == CASE tip.horizontal = "left" -> tip.left
             [] tip.horizontal = "right" -> tip.left - SafeWidth
             [] OTHER -> tip.left - SafeWidth \div 2

(* Until an answer lays the grid out anew, the tooltip shown is that of a  *)
(* block in the document, stands at the block's present place whatever has *)
(* been scrolled since, and, when the whole block is on the screen, is on  *)
(* the screen itself.                                                      *)
TooltipAtBlock ==
  Shown /\ ~relaid =>
    /\ attached
    /\ tip = BuildTooltipState(tip.idx, scroll)
    /\ RectLeft(tip.idx, scroll) >= 0 /\ RectRight(tip.idx, scroll) <= ScreenWidth =>
         TipLeft >= 0 /\ TipLeft + SafeWidth <= ScreenWidth
=============================================================================
