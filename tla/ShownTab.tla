------------------------------ MODULE ShownTab ------------------------------
(***************************************************************************)
(* What the passage from one tab to another promises the user: the chrome  *)
(* names one page, the pixels shown are that page's or nobody's, and which *)
(* page the chrome names changes only as the pixels are taken away.        *)
(* NativeTabs implements this specification step by step.                  *)
(***************************************************************************)
CONSTANTS Page, Nothing

VARIABLES
    chrome,     \* the page the window stands for
    shown       \* the page whose pixels can be seen, or Nothing

Init == chrome \in Page /\ shown = Nothing

Show ==
    /\ shown = Nothing
    /\ shown' = chrome
    /\ chrome' = chrome

Hide ==
    /\ shown' = Nothing
    /\ chrome' \in Page

Next == Show \/ Hide

Spec == Init /\ [][Next]_<<chrome, shown>>
=============================================================================
