-------------------------------- MODULE WebView --------------------------------
(***************************************************************************)
(* A view and what the host sees of it: the bitmap WebCore paints into,    *)
(* the dirty flag and the dirty area that say what is out of date, and the *)
(* popup menu and tool tip that are laid over the host's copy.             *)
(*                                                                         *)
(*   wke/wkeWebView.cpp, wkeChromeClient.inl, wkePopupMenu.cpp, and, of    *)
(*   Source/WebCore/rendering, RenderMenuList.cpp                          *)
(*                                                                         *)
(* The view is a row of cells, an area an interval of them.  A menu is a   *)
(* RenderMenuList with its popup, which lives as long as it does.  Left    *)
(* out: positions on the screen, the text of items, and a host that calls  *)
(* setDirty(false), by which it gives up what it has not painted.          *)
(***************************************************************************)
EXTENDS Naturals

CONSTANTS
    Menu,
    None,       \* no popup, or no drawing
    Title,      \* of elements under the mouse
    NoTitle,
    MaxWidth

ASSUME NoneAssumption == None \notin Menu \cup Title
ASSUME TitleAssumption == NoTitle \in Title
ASSUME WidthAssumption == MaxWidth \in Nat

VARIABLES
    width,          \* width_
    transparent,    \* transparent_
    context,        \* gfxContext_ and the bitmap exist
    dirty,          \* dirty_
    dirtyArea,      \* dirtyArea_
    stale,          \* cells of the host's picture that are not what the page shows
    lost,           \* history: cells invalidated while the view was painted,
                    \* outside the area that was painted
    menus,          \* the RenderMenuLists there are
    visible,        \* m_popupIsVisible
    shown,          \* showPopup_ of their popups
    drawn,          \* popups whose pixels_ are drawn
    popupMenu,      \* ChromeClient::popupMenu_
    committing,     \* popups in keyDown, which hide() when valueChanged returns
    quiet,          \* history: popupMenu_ was set without an invalidation
    tip,            \* the title of the tool tip
    tipPixels,      \* the title its pixels_ show
    picture         \* the popup and the tool tip in the host's picture, and
                    \* the pitch it was last painted with

view == <<width, transparent, context, dirtyArea, stale, lost>>
popups == <<menus, visible, shown, drawn, popupMenu, committing, quiet>>
toolTip == <<tip, tipPixels>>
vars == <<view, dirty, popups, toolTip, picture>>

Cell == 1..MaxWidth
View == 1..width

\* What the host passes as the pitch of its picture: zero, which paint() takes
\* for rows without gaps, or the length of a row, with a gap or without.
Pitches == {"zero", "row"}

NoPicture == [popup |-> None, tip |-> None, pitch |-> "row"]

\* The areas of a view that may be invalidated, and none.
Areas == {{}} \cup {a..b : a \in View, b \in View}

TypeOK ==
    /\ width \in 0..MaxWidth
    /\ transparent \in BOOLEAN /\ context \in BOOLEAN
    /\ dirty \in BOOLEAN /\ quiet \in BOOLEAN
    /\ dirtyArea \subseteq Cell /\ stale \subseteq Cell /\ lost \subseteq Cell
    /\ menus \subseteq Menu /\ visible \subseteq Menu /\ shown \subseteq Menu
    /\ drawn \subseteq Menu /\ committing \subseteq Menu
    /\ popupMenu \in Menu \cup {None}
    /\ tip \in Title
    /\ tipPixels \in Title \cup {None}
    /\ picture \in [popup : Menu \cup {None}, tip : Title \cup {None}, pitch : Pitches]

\* IntRect::unite: the smallest area around both.
Unite(a, b) ==
    {c \in Cell : \E low \in a \cup b, high \in a \cup b : low <= c /\ c <= high}

Init ==
    /\ width = 0 /\ transparent = FALSE /\ context = FALSE
    /\ dirty = FALSE /\ dirtyArea = {}
    /\ stale = {} /\ lost = {}
    /\ menus = {} /\ visible = {} /\ shown = {} /\ drawn = {}
    /\ popupMenu = None /\ committing = {} /\ quiet = FALSE
    /\ tip = NoTitle /\ tipPixels = None
    /\ picture = NoPicture

-----------------------------------------------------------------------------
(* The page and the host change the view.                                   *)

\* Mutant: the last area is kept, and not the one around both.
AddDirtyAreaReplaces(area) ==
    /\ dirtyArea' = area
    /\ dirty' = TRUE

AddDirtyArea(area) ==
    /\ dirtyArea' = Unite(dirtyArea, area)
    /\ dirty' = TRUE

\* WebCore invalidates what it changes.
InvalidateWindow ==
    /\ \E area \in Areas \ {{}} :
          /\ AddDirtyArea(area)
          /\ stale' = stale \cup area
          /\ lost' = lost \ area
    /\ UNCHANGED <<width, transparent, context, popups, toolTip, picture>>

\* All of it, into a new bitmap.
StartOver ==
    /\ dirtyArea' = 1..width'
    /\ dirty' = TRUE
    /\ stale' = 1..width'
    /\ lost' = {}
    /\ context' = FALSE

Resize ==
    /\ width' \in (0..MaxWidth) \ {width}
    /\ StartOver
    /\ UNCHANGED <<transparent, popups, toolTip, picture>>

\* Mutant: only what was dirty is painted into the new bitmap.
SetTransparentKeepsArea ==
    /\ transparent' = ~transparent
    /\ dirty' = TRUE
    /\ stale' = View
    /\ lost' = {}
    /\ context' = FALSE
    /\ UNCHANGED <<width, dirtyArea, popups, toolTip, picture>>

SetTransparent ==
    /\ transparent' = ~transparent
    /\ UNCHANGED width
    /\ StartOver
    /\ UNCHANGED <<popups, toolTip, picture>>

\* wkeSetDirty
SetDirty ==
    /\ dirty' = TRUE
    /\ UNCHANGED <<view, popups, toolTip, picture>>

\* The overlays are drawn when they have no pixels, and copied; a tool tip needs
\* some room, which a view of width zero stands for the lack of.  They are copied
\* with the pitch as it was passed: with zero their rows all go to one line, and
\* the host has neither.
PaintOverlays(pitch) ==
    /\ drawn' = IF popupMenu = None THEN drawn ELSE drawn \cup {popupMenu}
    /\ tipPixels' = IF tipPixels = None /\ tip # NoTitle /\ width # 0 THEN tip ELSE tipPixels
    /\ picture' = IF pitch = "zero"
                  THEN [popup |-> None, tip |-> None, pitch |-> pitch]
                  ELSE [popup |-> popupMenu, tip |-> tipPixels', pitch |-> pitch]
    /\ quiet' = FALSE

\* The layout that comes first invalidates as well.  An animation that advances
\* while it is painted invalidates every place of its image: that is forgotten
\* with the dirty area.  The page is copied row by row, whatever the pitch: zero
\* is corrected for it.
Paint ==
    /\ \E laidOut \in Areas, advanced \in Areas :
         LET area == Unite(dirtyArea, laidOut)
             old == IF context THEN stale \cup laidOut ELSE View
         IN  /\ stale' = (old \cup advanced) \ area
             /\ lost' = (lost \cup advanced) \ area
    /\ dirty' = FALSE
    /\ dirtyArea' = {}
    /\ context' = TRUE
    /\ \E pitch \in Pitches : PaintOverlays(pitch)
    /\ UNCHANGED <<width, transparent, menus, visible, shown, popupMenu, committing, tip>>

\* Mutant: the old pixels stay.
MouseMovesKeepsPixels ==
    /\ tip' \in Title \ {tip}
    /\ dirty' = TRUE
    /\ UNCHANGED <<tipPixels, view, popups, picture>>

\* mouseDidMoveOverElement
MouseMoves ==
    /\ tip' \in Title \ {tip}
    /\ tipPixels' = None
    /\ dirty' = TRUE
    /\ UNCHANGED <<view, popups, picture>>

-----------------------------------------------------------------------------
(* Popup menus.                                                             *)

CreateMenu(m) ==
    /\ m \notin menus \cup committing
    /\ menus' = menus \cup {m}
    /\ UNCHANGED <<view, dirty, visible, shown, drawn, popupMenu, committing, quiet, toolTip,
                   picture>>

\* PopupMenu::invalidate
Invalidate(m) ==
    /\ dirty' = TRUE
    /\ drawn' = drawn \ {m}

\* show(): a menu without items is not put into the slot; the popup is
\* invalidated only if the focus moves to another item than before.
ShowPopup(m) ==
    /\ m \in menus \ visible
    /\ visible' = visible \cup {m}
    /\ shown' = shown \cup {m}
    /\ \/ UNCHANGED <<dirty, drawn, popupMenu, quiet>>
       \/ /\ popupMenu' = m
          /\ \/ Invalidate(m) /\ quiet' = FALSE
             \/ quiet' = TRUE /\ UNCHANGED <<dirty, drawn>>
    /\ UNCHANGED <<view, menus, committing, toolTip, picture>>

\* Mutant: ChromeClient is left with the popup.
HideKeepsSlot(m) ==
    IF m \in shown
    THEN /\ shown' = shown \ {m}
         /\ visible' = visible \ {m}
         /\ Invalidate(m)
         /\ UNCHANGED <<popupMenu, quiet>>
    ELSE UNCHANGED <<shown, visible, popupMenu, quiet, dirty, drawn>>

\* hide(), and popupDidHide() of its client.
Hide(m) ==
    IF m \in shown
    THEN /\ shown' = shown \ {m}
         /\ visible' = visible \ {m}
         /\ IF popupMenu = m
            THEN popupMenu' = None /\ quiet' = FALSE
            ELSE UNCHANGED <<popupMenu, quiet>>
         /\ Invalidate(m)
    ELSE UNCHANGED <<shown, visible, popupMenu, quiet, dirty, drawn>>

\* A click next to the popup, on an item, or on the menu again; Tab, Escape,
\* Enter.  After a choice valueChanged runs the page's scripts.
HidePopup(m) ==
    /\ m \in menus
    /\ Hide(m)
    /\ UNCHANGED <<view, menus, committing, toolTip, picture>>

\* keyDown, F4 and Alt with an arrow: valueChanged comes first ...
KeyDownCommits(m) ==
    /\ popupMenu = m
    /\ committing' = committing \cup {m}
    /\ UNCHANGED <<view, dirty, menus, visible, shown, drawn, popupMenu, quiet, toolTip,
                   picture>>

\* ... and then hide(), which finds a popup that is gone hidden.
KeyDownHides(m) ==
    /\ m \in committing
    /\ committing' = committing \ {m}
    /\ Hide(m)
    /\ UNCHANGED <<view, menus, toolTip, picture>>

\* ~RenderMenuList disconnects its popup, and ~PopupMenu hides.
DestroyMenu(m) ==
    /\ m \in menus
    /\ menus' = menus \ {m}
    /\ Hide(m)
    /\ UNCHANGED <<view, committing, toolTip, picture>>

\* The mouse or a key moves the focus, and the text of the menu follows, ...
SetFocusedIndex(m) ==
    /\ popupMenu = m
    /\ Invalidate(m)
    /\ UNCHANGED <<view, menus, visible, shown, popupMenu, committing, quiet, toolTip, picture>>

\* ... a script changes the items of a menu that is open, ...
UpdateFromElement(m) ==
    /\ m \in visible
    /\ Invalidate(m)
    /\ UNCHANGED <<view, menus, visible, shown, popupMenu, committing, quiet, toolTip, picture>>

\* ... or the list is scrolled, by a timer too that outlasts the popup.
ScrollTo(m) ==
    /\ m \in menus
    /\ Invalidate(m)
    /\ UNCHANGED <<view, menus, visible, shown, popupMenu, committing, quiet, toolTip, picture>>

-----------------------------------------------------------------------------
PopupNext(m) ==
    \/ CreateMenu(m) \/ ShowPopup(m) \/ HidePopup(m) \/ DestroyMenu(m)
    \/ KeyDownCommits(m) \/ KeyDownHides(m)
    \/ SetFocusedIndex(m) \/ UpdateFromElement(m) \/ ScrollTo(m)

ViewNext ==
    InvalidateWindow \/ Resize \/ SetTransparent \/ SetDirty \/ Paint \/ MouseMoves

Next == ViewNext \/ \E m \in Menu : PopupNext(m)

Spec == Init /\ [][Next]_vars

-----------------------------------------------------------------------------
\* What the host's picture shows wrongly is in the dirty area, and the host is
\* told to paint it, but for what was invalidated during a paint; a bitmap that
\* is to be made is painted from end to end.
InvalidatedIsPainted ==
    /\ stale \subseteq dirtyArea \cup lost
    /\ dirtyArea # {} => dirty
    /\ ~context => dirtyArea = View

\* The popup that is painted, and given the mouse and the keys, exists and is
\* shown; menu and popup agree on whether it is.
PopupUsable ==
    /\ popupMenu # None => popupMenu \in shown
    /\ shown = visible /\ shown \subseteq menus

\* A host that paints when it is told to, and passes the pitch of its picture,
\* has the popup and the tool tip of now in it, and none that is gone, but for a
\* popup that show() did not invalidate.  Whatever the pitch, the pixels of the
\* popup are those of now.
OverlaysCurrent ==
    ~dirty /\ ~quiet =>
        /\ popupMenu \in drawn \cup {None}
        /\ picture.pitch # "zero" =>
              /\ picture.popup = popupMenu
              /\ width # 0 => picture.tip = IF tip = NoTitle THEN None ELSE tip

=============================================================================
