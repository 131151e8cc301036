----------------------------- MODULE ClientSelect -----------------------------
(***************************************************************************)
(* The drop-down list of the web client: opened, moved through and chosen  *)
(* from by keys or the mouse, while its parent may change its value and    *)
(* its options; and placed under or over its button, again in the next     *)
(* frame when the window scrolls or changes its size.                      *)
(***************************************************************************)
EXTENDS Integers, Sequences, FiniteSets

CONSTANTS
  OptionLists,  \* the options a parent may give, sequences without repetition
  Layouts,      \* where the button may be in the window
  Margin,       \* VIEWPORT_MARGIN
  Offset,       \* DROPDOWN_OFFSET
  MaxHeight     \* DROPDOWN_MAX_HEIGHT

ASSUME MarginAssumption == Margin \in Nat /\ Offset \in Nat /\ MaxHeight \in Nat
ASSUME LayoutsAssumption ==
  Layouts \subseteq [wide : Nat, high : Nat, left : Int, right : Int, top : Int, bottom : Int]

OptionValues == UNION {{l[i] : i \in DOMAIN l} : l \in OptionLists}

ASSUME OptionListsAssumption == OptionLists \subseteq Seq(OptionValues)

VARIABLES
  choices,     \* options
  chosen,      \* value
  listed,      \* open
  inert,       \* disabled
  highlighted, \* highlightedIndex; options count from 0, -1 is none
  layout,      \* what getBoundingClientRect and the window say
  placed,      \* dropdownStyle
  frame,       \* rafRef is set
  stale        \* auxiliary: the options have changed since one was highlighted

selectVars == <<choices, chosen, listed, inert, highlighted, layout, placed, frame, stale>>

-----------------------------------------------------------------------------
(* Where the list goes. *)

Least(a, b) == IF a < b THEN a ELSE b
Most(a, b) == IF a > b THEN a ELSE b
Clamp(v, low, high) == Least(Most(v, low), high)

SpaceBelow(l) == l.high - l.bottom - Margin - Offset
SpaceAbove(l) == l.top - Margin - Offset

(* Mutant: the list goes up only where there is no space below. *)
DownUnlessNone(l) == SpaceBelow(l) > 0

Down(l) == SpaceBelow(l) >= MaxHeight \/ SpaceBelow(l) >= SpaceAbove(l)

(* resolveDropdownStyle: edge is the top of a list that goes down, the bottom of one that
   goes up. *)
DropdownStyle(l) ==
  LET width == Least(l.right - l.left, Most(0, l.wide - 2 * Margin)) IN
  [down   |-> Down(l),
   edge   |-> IF Down(l) THEN l.bottom + Offset ELSE l.high - l.top + Offset,
   left   |-> Clamp(l.left, Margin, Most(Margin, l.wide - width - Margin)),
   width  |-> width,
   height |-> Most(0, Least(MaxHeight, IF Down(l) THEN SpaceBelow(l) ELSE SpaceAbove(l)))]

-----------------------------------------------------------------------------
Positions == {i - 1 : i \in DOMAIN choices}
IsOpen == listed /\ ~inert

SelectTypeOK ==
  /\ choices \in OptionLists
  /\ chosen \in OptionValues
  /\ listed \in BOOLEAN /\ inert \in BOOLEAN /\ frame \in BOOLEAN /\ stale \in BOOLEAN
  /\ highlighted \in Nat \cup {-1}
  /\ layout \in Layouts /\ placed \in {DropdownStyle(l) : l \in Layouts}

SelectInit ==
  /\ choices \in OptionLists /\ chosen \in OptionValues
  /\ listed = FALSE /\ inert = FALSE
  /\ highlighted = -1
  /\ layout \in Layouts /\ placed = DropdownStyle(layout)
  /\ frame = FALSE /\ stale = FALSE

SelectedIndex ==
  IF chosen \in {choices[i] : i \in DOMAIN choices}
  THEN (CHOOSE i \in DOMAIN choices : choices[i] = chosen) - 1
  ELSE -1

(* resolvedHighlightedIndex: without a highlight, the value, or the first option. *)
Highlight ==
  IF highlighted >= 0 THEN highlighted
  ELSE IF SelectedIndex >= 0 THEN SelectedIndex
  ELSE IF choices # <<>> THEN 0 ELSE -1

(* The layout effect of a list that has just opened, or is not any more. *)
ShowList ==
  /\ placed' = DropdownStyle(layout)
  /\ UNCHANGED frame

HideList ==
  /\ frame' = FALSE
  /\ UNCHANGED placed

(* The button, or an arrow key, Enter or the space bar, on a list that is closed. *)
OpenList ==
  /\ ~listed /\ ~inert
  /\ listed' = TRUE
  /\ ShowList
  /\ UNCHANGED <<choices, chosen, inert, highlighted, layout, stale>>

(* The button, Escape, Tab, or a click elsewhere. *)
CloseList ==
  /\ IsOpen
  /\ listed' = FALSE
  /\ HideList
  /\ UNCHANGED <<choices, chosen, inert, highlighted, layout, stale>>

HighlightAt(i) ==
  /\ IsOpen
  /\ highlighted' = i /\ stale' = FALSE
  /\ UNCHANGED <<choices, chosen, listed, inert, layout, placed, frame>>

(* moveHighlight: round the ends of the list. *)
MoveHighlight(direction) ==
  /\ choices # <<>>
  /\ HighlightAt((Highlight + direction + Len(choices)) % Len(choices))

PressHome == choices # <<>> /\ HighlightAt(0)
PressEnd == choices # <<>> /\ HighlightAt(Len(choices) - 1)
PointAt(i) == i \in Positions /\ HighlightAt(i)

(* commitSelection, by Enter or a click: nothing where there is no such option. *)
CommitSelection(i) ==
  /\ IsOpen /\ i \in Positions
  /\ chosen' = choices[i + 1]
  /\ listed' = FALSE /\ highlighted' = i /\ stale' = FALSE
  /\ HideList
  /\ UNCHANGED <<choices, inert, layout>>

PressEnter == CommitSelection(Highlight)
ClickOption(i) == CommitSelection(i)

(* The parent. *)
ChangeOptions(l) ==
  /\ l # choices
  /\ choices' = l
  /\ stale' = (highlighted >= 0)
  /\ UNCHANGED <<chosen, listed, inert, highlighted, layout, placed, frame>>

ChangeValue(v) ==
  /\ v # chosen
  /\ chosen' = v
  /\ UNCHANGED <<choices, listed, inert, highlighted, layout, placed, frame, stale>>

(* A list that is disabled while it is open opens again with its button. *)
SetDisabled ==
  /\ inert' = ~inert
  /\ IF ~listed THEN UNCHANGED <<placed, frame>> ELSE IF inert THEN ShowList ELSE HideList
  /\ UNCHANGED <<choices, chosen, listed, highlighted, layout, stale>>

(* The window scrolls or changes its size, or the button does: an open list asks for a
   frame. *)
ViewportChange(l) ==
  /\ l # layout
  /\ layout' = l
  /\ frame' = IsOpen
  /\ UNCHANGED <<choices, chosen, listed, inert, highlighted, placed, stale>>

(* requestAnimationFrame. *)
NextFrame ==
  /\ frame
  /\ frame' = FALSE
  /\ placed' = DropdownStyle(layout)
  /\ UNCHANGED <<choices, chosen, listed, inert, highlighted, layout, stale>>

SelectNext ==
  \/ OpenList \/ CloseList
  \/ \E direction \in {-1, 1} : MoveHighlight(direction)
  \/ PressHome \/ PressEnd \/ PressEnter
  \/ \E i \in 0..Cardinality(OptionValues) : PointAt(i) \/ ClickOption(i)
  \/ \E l \in OptionLists : ChangeOptions(l)
  \/ \E v \in OptionValues : ChangeValue(v)
  \/ SetDisabled
  \/ \E l \in Layouts : ViewportChange(l)
  \/ NextFrame

SelectSpec == SelectInit /\ [][SelectNext]_selectVars

-----------------------------------------------------------------------------
(* Properties. *)

(***************************************************************************)
(* A list that is open lies where the button and the window are now, once  *)
(* the frame that was asked for has come: within the margins of a window   *)
(* that is wide enough, and with as much height as either side offers.  No *)
(* order of opening, disabling, scrolling and late frames leaves it where  *)
(* the button was.  Enter has an option to choose unless the options have  *)
(* changed, until the next key moves the highlight.                        *)
(***************************************************************************)
ListUsable ==
  /\ choices # <<>> /\ ~stale => Highlight \in Positions
  /\ IsOpen /\ ~frame =>
    /\ placed = DropdownStyle(layout)
    /\ placed.height = Most(0, Least(MaxHeight, Most(SpaceBelow(layout), SpaceAbove(layout))))
    /\ placed.height > 0 => placed.edge + placed.height <= layout.high - Margin
    /\ layout.wide >= 2 * Margin =>
         placed.left >= Margin /\ placed.left + placed.width <= layout.wide - Margin
=============================================================================
