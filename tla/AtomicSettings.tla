--------------------------- MODULE AtomicSettings ----------------------------
(***************************************************************************)
(* What the settings promise their editors: an edit is one step, and it is     *)
(* applied to exactly the settings its editor was looking at, or refused.      *)
(***************************************************************************)
CONSTANTS
    Editors, Images,
    Contents,           \* values of the settings row, images aside
    None,               \* no settings on the screen
    Edits(_)            \* what an edit may turn a content into

VARIABLES
    val, img,
    screen      \* what an editor has on the screen and may submit

vars == <<val, img, screen>>

Init ==
    /\ val \in Contents /\ img \in Images
    /\ screen = [e \in Editors |-> None]

\* The settings are shown.
Show(e) ==
    /\ screen' = [screen EXCEPT ![e] = val]
    /\ UNCHANGED <<val, img>>

\* An edit of the settings on the screen, which are the current ones.
Save(e) ==
    /\ screen[e] = val
    /\ val' \in Edits(screen[e])
    /\ screen' = [screen EXCEPT ![e] = None]
    /\ UNCHANGED img

\* An edit that is refused.
Refuse(e) ==
    /\ screen' = [screen EXCEPT ![e] = None]
    /\ UNCHANGED <<val, img>>

\* A new image: it replaces the image and nothing else.
Upload ==
    /\ img' \in Images
    /\ UNCHANGED <<val, screen>>

Next == Upload \/ \E e \in Editors : Show(e) \/ Save(e) \/ Refuse(e)

Spec == Init /\ [][Next]_vars
==============================================================================
