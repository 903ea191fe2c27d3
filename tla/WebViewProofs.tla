----------------------------- MODULE WebViewProofs -----------------------------
(***************************************************************************)
(* The type invariant of WebView, and that what is out of date is painted, *)
(* for every size of the view and any number of menus and titles.          *)
(***************************************************************************)
EXTENDS WebView, TLAPS

-----------------------------------------------------------------------------
(* Areas.                                                                   *)

\* The area around two areas holds both and nothing outside the view.
LEMMA UniteHolds ==
    ASSUME NEW a \in SUBSET Cell, NEW b \in SUBSET Cell
    PROVE  /\ Unite(a, b) \subseteq Cell
           /\ a \cup b \subseteq Unite(a, b)
BY WidthAssumption DEF Unite, Cell

\* What is around a part of the view and the whole of it is the whole.
LEMMA UniteWhole ==
    ASSUME NEW w \in 0..MaxWidth, NEW b \in SUBSET (1..w)
    PROVE  Unite(1..w, b) = 1..w
<1>1. 1..w \subseteq Cell /\ b \subseteq Cell
  BY WidthAssumption DEF Cell
<1>2. 1..w \subseteq Unite(1..w, b)
  BY <1>1, UniteHolds
<1>3. ASSUME NEW c \in Unite(1..w, b) PROVE c \in 1..w
  <2>1. PICK low \in 1..w, high \in 1..w : low <= c /\ c <= high /\ c \in Cell
    BY <1>3 DEF Unite
  <2> QED  BY <2>1, WidthAssumption DEF Cell
<1> QED  BY <1>2, <1>3

\* What is invalidated lies in the view, and the view in the cells.
LEMMA AreasInView ==
    ASSUME TypeOK
    PROVE  /\ View \subseteq Cell
           /\ \A area \in Areas : area \subseteq View
BY WidthAssumption DEF TypeOK, View, Cell, Areas


-----------------------------------------------------------------------------
(* Types.                                                                   *)

LEMMA TypeInit == Init => TypeOK
<1> SUFFICES ASSUME Init PROVE TypeOK
  OBVIOUS
<1>1. width \in 0..MaxWidth
  BY WidthAssumption DEF Init
<1>2. picture \in [popup : Menu \cup {None}, tip : Title \cup {None}, pitch : Pitches]
  BY DEF Init, NoPicture, Pitches
<1>3. /\ transparent \in BOOLEAN /\ context \in BOOLEAN
      /\ dirty \in BOOLEAN /\ quiet \in BOOLEAN
  BY DEF Init
<1>4. tip \in Title /\ tipPixels \in Title \cup {None}
  BY TitleAssumption DEF Init
<1> QED  BY <1>1, <1>2, <1>3, <1>4 DEF Init, TypeOK

LEMMA HideType ==
    ASSUME TypeOK, NEW m \in Menu, Hide(m)
    PROVE  /\ shown' \subseteq Menu /\ visible' \subseteq Menu /\ drawn' \subseteq Menu
           /\ popupMenu' \in Menu \cup {None}
           /\ quiet' \in BOOLEAN /\ dirty' \in BOOLEAN
BY DEF TypeOK, Hide, Invalidate

LEMMA TypeStep ==
    ASSUME TypeOK, [Next]_vars
    PROVE  TypeOK'
<1> USE DEF view, popups, toolTip
<1>0. View \subseteq Cell /\ \A area \in Areas : area \subseteq View
  BY AreasInView
<1>1. CASE InvalidateWindow
  <2>1. PICK area \in Areas \ {{}} :
          /\ dirtyArea' = Unite(dirtyArea, area) /\ dirty' = TRUE
          /\ stale' = stale \cup area /\ lost' = lost \ area
    BY <1>1 DEF InvalidateWindow, AddDirtyArea
  <2>2. area \subseteq Cell
    BY <1>0
  <2>3. dirtyArea \subseteq Cell
    BY DEF TypeOK
  <2>4. Unite(dirtyArea, area) \subseteq Cell
    BY <2>2, <2>3, UniteHolds
  <2> QED  BY <1>1, <2>1, <2>2, <2>4 DEF InvalidateWindow, TypeOK
<1>2. CASE Resize
  <2>1. width' \in 0..MaxWidth
    BY <1>2 DEF Resize
  <2>2. 1..width' \subseteq Cell
    BY <2>1, WidthAssumption DEF Cell
  <2> QED  BY <1>2, <2>1, <2>2 DEF Resize, StartOver, TypeOK
<1>3. CASE SetTransparent
  <2>1. 1..width' \subseteq Cell
    BY <1>3, <1>0 DEF SetTransparent, View
  <2> QED  BY <1>3, <2>1 DEF SetTransparent, StartOver, TypeOK
<1>4. CASE SetDirty
  BY <1>4 DEF SetDirty, TypeOK
<1>5. CASE Paint
  <2>1. PICK laidOut \in Areas, advanced \in Areas :
          /\ stale' = ((IF context THEN stale \cup laidOut ELSE View) \cup advanced)
                        \ Unite(dirtyArea, laidOut)
          /\ lost' = (lost \cup advanced) \ Unite(dirtyArea, laidOut)
    BY <1>5 DEF Paint
  <2>2. stale' \subseteq Cell /\ lost' \subseteq Cell
    BY <2>1, <1>0 DEF TypeOK
  <2>3. drawn' \subseteq Menu /\ tipPixels' \in Title \cup {None}
    BY <1>5 DEF Paint, PaintOverlays, TypeOK
  <2>4. picture' \in [popup : Menu \cup {None}, tip : Title \cup {None}, pitch : Pitches]
    BY <1>5, <2>3 DEF Paint, PaintOverlays, TypeOK
  <2> QED  BY <1>5, <2>2, <2>3, <2>4 DEF Paint, PaintOverlays, TypeOK
<1>6. CASE MouseMoves
  BY <1>6 DEF MouseMoves, TypeOK
<1>7. CASE \E m \in Menu : PopupNext(m)
  <2> PICK m \in Menu : PopupNext(m)
    BY <1>7
  <2>1. CASE CreateMenu(m)
    BY <2>1 DEF CreateMenu, TypeOK
  <2>2. CASE ShowPopup(m)
    BY <2>2 DEF ShowPopup, Invalidate, TypeOK
  <2>3. CASE HidePopup(m)
    BY <2>3, HideType DEF HidePopup, TypeOK
  <2>4. CASE DestroyMenu(m)
    BY <2>4, HideType DEF DestroyMenu, TypeOK
  <2>5. CASE KeyDownCommits(m)
    BY <2>5 DEF KeyDownCommits, TypeOK
  <2>6. CASE KeyDownHides(m)
    BY <2>6, HideType DEF KeyDownHides, TypeOK
  <2>7. CASE SetFocusedIndex(m) \/ UpdateFromElement(m) \/ ScrollTo(m)
    BY <2>7 DEF SetFocusedIndex, UpdateFromElement, ScrollTo, Invalidate, TypeOK
  <2> QED
    BY <2>1, <2>2, <2>3, <2>4, <2>5, <2>6, <2>7 DEF PopupNext
<1>8. CASE UNCHANGED vars
  BY <1>8 DEF vars, TypeOK
<1> QED
  BY <1>1, <1>2, <1>3, <1>4, <1>5, <1>6, <1>7, <1>8 DEF Next, ViewNext

\* The state of a view keeps its types: areas stay within the cells there are.
THEOREM TypeCorrect == Spec => []TypeOK
<1> QED  BY TypeInit, TypeStep, PTL DEF Spec

-----------------------------------------------------------------------------
(* What is out of date.                                                     *)

LEMMA PaintedInit == Init => InvalidatedIsPainted
BY DEF Init, InvalidatedIsPainted, View

LEMMA PaintedStep ==
    ASSUME TypeOK, InvalidatedIsPainted, [Next]_vars
    PROVE  InvalidatedIsPainted'
<1>0. View \subseteq Cell /\ \A area \in Areas : area \subseteq View
  BY AreasInView
<1>1. CASE InvalidateWindow
  <2>1. PICK area \in Areas \ {{}} :
          /\ dirtyArea' = Unite(dirtyArea, area) /\ dirty' = TRUE
          /\ stale' = stale \cup area /\ lost' = lost \ area
    BY <1>1 DEF InvalidateWindow, AddDirtyArea
  <2>2. /\ area \subseteq Cell /\ area \subseteq View
        /\ dirtyArea \subseteq Cell /\ width \in 0..MaxWidth
    BY <1>0 DEF TypeOK
  <2>3. dirtyArea \cup area \subseteq dirtyArea'
    BY <2>1, <2>2, UniteHolds
  <2>4. stale' \subseteq dirtyArea' \cup lost'
    BY <2>1, <2>3 DEF InvalidatedIsPainted
  <2>5. ASSUME ~context' PROVE dirtyArea' = View'
    <3>1. dirtyArea = 1..width /\ width' = width
      BY <1>1, <2>5 DEF InvalidateWindow, InvalidatedIsPainted, View
    <3>2. area \in SUBSET (1..width)
      BY <2>2 DEF View
    <3> QED  BY <2>1, <2>2, <3>1, <3>2, UniteWhole DEF View
  <2> QED  BY <2>1, <2>4, <2>5 DEF InvalidatedIsPainted
<1>2. CASE Resize \/ SetTransparent
  BY <1>2 DEF Resize, SetTransparent, StartOver, InvalidatedIsPainted, View
<1>3. CASE Paint
  <2>1. PICK laidOut \in Areas, advanced \in Areas :
          /\ stale' = ((IF context THEN stale \cup laidOut ELSE View) \cup advanced)
                        \ Unite(dirtyArea, laidOut)
          /\ lost' = (lost \cup advanced) \ Unite(dirtyArea, laidOut)
    BY <1>3 DEF Paint
  <2>2. dirtyArea \cup laidOut \subseteq Unite(dirtyArea, laidOut)
    BY <1>0, UniteHolds DEF TypeOK
  <2>3. stale' \subseteq lost'
    BY <2>1, <2>2 DEF InvalidatedIsPainted
  <2>4. dirtyArea' = {} /\ context' = TRUE
    BY <1>3 DEF Paint
  <2> QED  BY <2>3, <2>4 DEF InvalidatedIsPainted
<1>4. CASE UNCHANGED view /\ (dirty' = TRUE \/ UNCHANGED dirty)
  BY <1>4 DEF view, InvalidatedIsPainted, View
<1>5. CASE SetDirty \/ MouseMoves \/ UNCHANGED vars
  BY <1>4, <1>5 DEF SetDirty, MouseMoves, vars
<1>6. CASE \E m \in Menu : PopupNext(m)
  <2> PICK m \in Menu : PopupNext(m)
    BY <1>6
  <2>1. CASE CreateMenu(m) \/ KeyDownCommits(m)
    BY <1>4, <2>1 DEF CreateMenu, KeyDownCommits
  <2>2. CASE ShowPopup(m)
    BY <1>4, <2>2 DEF ShowPopup, Invalidate
  <2>3. CASE HidePopup(m) \/ DestroyMenu(m) \/ KeyDownHides(m)
    BY <1>4, <2>3 DEF HidePopup, DestroyMenu, KeyDownHides, Hide, Invalidate
  <2>4. CASE SetFocusedIndex(m) \/ UpdateFromElement(m) \/ ScrollTo(m)
    BY <1>4, <2>4 DEF SetFocusedIndex, UpdateFromElement, ScrollTo, Invalidate
  <2> QED  BY <2>1, <2>2, <2>3, <2>4 DEF PopupNext
<1> QED
  BY <1>1, <1>2, <1>3, <1>5, <1>6 DEF Next, ViewNext

\* What is out of date in the host's picture is in the dirty area and the view is
\* dirty, whatever is invalidated, resized and painted, but for what is invalidated
\* by a paint itself.
THEOREM Painted == Spec => []InvalidatedIsPainted
<1>1. Init => TypeOK /\ InvalidatedIsPainted
  BY TypeInit, PaintedInit
<1>2. TypeOK /\ InvalidatedIsPainted /\ [Next]_vars => (TypeOK /\ InvalidatedIsPainted)'
  BY TypeStep, PaintedStep
<1> QED  BY <1>1, <1>2, PTL DEF Spec

-----------------------------------------------------------------------------
(* Overlays.                                                                *)

\* The pixels of the tool tip show its title.
TipDrawn == tipPixels # None => tipPixels = tip /\ tip # NoTitle

OverlayInv == TypeOK /\ PopupUsable /\ TipDrawn /\ OverlaysCurrent

LEMMA OverlayInit == Init => OverlayInv
BY TypeInit DEF Init, NoPicture, OverlayInv, PopupUsable, TipDrawn, OverlaysCurrent

LEMMA UsableStep ==
    ASSUME TypeOK, PopupUsable, [Next]_vars
    PROVE  PopupUsable'
<1>1. CASE UNCHANGED <<menus, visible, shown, popupMenu>>
  BY <1>1 DEF PopupUsable
<1>2. CASE ViewNext \/ UNCHANGED vars
  <2>1. CASE Paint
    BY <1>1, <2>1 DEF Paint
  <2>2. CASE ~Paint
    BY <1>1, <1>2, <2>2 DEF ViewNext, InvalidateWindow, Resize, SetTransparent, SetDirty,
         MouseMoves, vars, popups
  <2> QED  BY <2>1, <2>2
<1>3. CASE \E m \in Menu : PopupNext(m)
  <2> PICK m \in Menu : PopupNext(m)
    BY <1>3
  <2>0. m # None
    BY NoneAssumption
  <2>1. CASE CreateMenu(m)
    BY <2>1 DEF CreateMenu, PopupUsable
  <2>2. CASE ShowPopup(m)
    BY <2>2 DEF ShowPopup, PopupUsable
  <2>3. ASSUME Hide(m)
        PROVE  /\ shown' = shown \ {m} /\ visible' = visible \ {m}
               /\ popupMenu' # None => popupMenu' \in shown'
    BY <2>3 DEF Hide, PopupUsable
  <2>4. CASE HidePopup(m) \/ KeyDownHides(m)
    BY <2>3, <2>4 DEF HidePopup, KeyDownHides, PopupUsable
  <2>5. CASE DestroyMenu(m)
    BY <2>3, <2>5 DEF DestroyMenu, PopupUsable
  <2>6. CASE KeyDownCommits(m)
    BY <1>1, <2>6 DEF KeyDownCommits
  <2>7. CASE SetFocusedIndex(m) \/ UpdateFromElement(m) \/ ScrollTo(m)
    BY <1>1, <2>7 DEF SetFocusedIndex, UpdateFromElement, ScrollTo
  <2> QED  BY <2>1, <2>2, <2>4, <2>5, <2>6, <2>7 DEF PopupNext
<1> QED  BY <1>2, <1>3 DEF Next

LEMMA TipStep ==
    ASSUME TypeOK, TipDrawn, [Next]_vars
    PROVE  TipDrawn'
<1>1. CASE UNCHANGED toolTip
  BY <1>1 DEF toolTip, TipDrawn
<1>2. CASE Paint
  BY <1>2 DEF Paint, PaintOverlays, TipDrawn
<1>3. CASE MouseMoves
  BY <1>3 DEF MouseMoves, TipDrawn
<1>4. CASE InvalidateWindow \/ Resize \/ SetTransparent \/ SetDirty \/ UNCHANGED vars
  BY <1>1, <1>4 DEF InvalidateWindow, Resize, SetTransparent, SetDirty, vars
<1>5. CASE \E m \in Menu : PopupNext(m)
  BY <1>1, <1>5 DEF PopupNext, CreateMenu, ShowPopup, HidePopup, DestroyMenu, KeyDownCommits,
       KeyDownHides, SetFocusedIndex, UpdateFromElement, ScrollTo
<1> QED  BY <1>2, <1>3, <1>4, <1>5 DEF Next, ViewNext

LEMMA CurrentStep ==
    ASSUME OverlayInv, [Next]_vars
    PROVE  OverlaysCurrent'
<1>1. CASE dirty' = TRUE \/ quiet' = TRUE
  BY <1>1 DEF OverlaysCurrent
<1>2. CASE UNCHANGED <<dirty, quiet, picture, popupMenu, drawn, tip, width>>
  BY <1>2 DEF OverlayInv, OverlaysCurrent
<1>3. CASE Paint
  <2>1. picture'.pitch # "zero" => picture'.popup = popupMenu' /\ picture'.tip = tipPixels'
    BY <1>3 DEF Paint, PaintOverlays
  <2>2. popupMenu' \in drawn' \cup {None}
    BY <1>3 DEF Paint, PaintOverlays
  <2>3. width' # 0 => tipPixels' = IF tip' = NoTitle THEN None ELSE tip'
    BY <1>3 DEF Paint, PaintOverlays, OverlayInv, TipDrawn
  <2> QED  BY <2>1, <2>2, <2>3 DEF OverlaysCurrent
<1>4. CASE InvalidateWindow \/ Resize \/ SetTransparent \/ SetDirty \/ MouseMoves
  BY <1>1, <1>4 DEF InvalidateWindow, AddDirtyArea, Resize, SetTransparent, StartOver,
       SetDirty, MouseMoves
<1>5. CASE \E m \in Menu : PopupNext(m)
  <2> PICK m \in Menu : PopupNext(m)
    BY <1>5
  <2>1. CASE CreateMenu(m) \/ KeyDownCommits(m)
    BY <1>2, <2>1 DEF CreateMenu, KeyDownCommits, view, toolTip
  <2>2. CASE ShowPopup(m)
    BY <1>1, <1>2, <2>2 DEF ShowPopup, Invalidate, view, toolTip
  <2>3. CASE HidePopup(m) \/ DestroyMenu(m) \/ KeyDownHides(m)
    BY <1>1, <1>2, <2>3 DEF HidePopup, DestroyMenu, KeyDownHides, Hide, Invalidate, view,
         toolTip
  <2>4. CASE SetFocusedIndex(m) \/ UpdateFromElement(m) \/ ScrollTo(m)
    BY <1>1, <2>4 DEF SetFocusedIndex, UpdateFromElement, ScrollTo, Invalidate
  <2> QED  BY <2>1, <2>2, <2>3, <2>4 DEF PopupNext
<1>6. CASE UNCHANGED vars
  BY <1>2, <1>6 DEF vars, view, popups, toolTip
<1> QED  BY <1>3, <1>4, <1>5, <1>6 DEF Next, ViewNext

LEMMA OverlayStep ==
    ASSUME OverlayInv, [Next]_vars
    PROVE  OverlayInv'
BY TypeStep, UsableStep, TipStep, CurrentStep DEF OverlayInv

\* The popup that is painted and given events exists and is shown, whoever closes
\* and destroys menus, and in whatever order.
THEOREM Usable == Spec => []PopupUsable
<1>1. OverlayInv => PopupUsable
  BY DEF OverlayInv
<1> QED  BY <1>1, OverlayInit, OverlayStep, PTL DEF Spec

\* A host that paints when the view is dirty, and passes the pitch of its picture,
\* has the popup and the tool tip of now in it, unless show() has invalidated
\* nothing.  Passed a pitch of zero, paint() still draws the popup anew.
THEOREM Current == Spec => []OverlaysCurrent
<1>1. OverlayInv => OverlaysCurrent
  BY DEF OverlayInv
<1> QED  BY <1>1, OverlayInit, OverlayStep, PTL DEF Spec

=============================================================================
