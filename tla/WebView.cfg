\* A view of up to three cells and two menus.
SPECIFICATION Spec
CONSTANTS
    Menu = {m1, m2}
    None = None
    Title = {NoTitle, title}
    NoTitle = NoTitle
    MaxWidth = 3
INVARIANTS InvalidatedIsPainted PopupUsable OverlaysCurrent
