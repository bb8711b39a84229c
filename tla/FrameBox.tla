------------------------------ MODULE FrameBox ------------------------------
(***************************************************************************)
(* What a hand-over of pictures between two threads promises (the screen   *)
(* ring of runtime/gxr.c, the overlay's frames of runtime/overlay.c): one  *)
(* thread offers pictures, the other shows the one offered last, whole,    *)
(* for as long as it likes; pictures offered meanwhile replace each other. *)
(***************************************************************************)
EXTENDS Integers

CONSTANTS
    Pictures,     \* what can be offered
    First         \* what is shown before anything is

VARIABLES
    offered,      \* the picture offered last
    isNew,        \* has it still to be taken
    shown         \* the picture the taker shows

vars == <<offered, isNew, shown>>

Init == offered = First /\ isNew = FALSE /\ shown = First

Offer ==
    /\ offered' \in Pictures
    /\ isNew' = TRUE
    /\ UNCHANGED shown

Take ==
    /\ isNew
    /\ shown' = offered
    /\ isNew' = FALSE
    /\ UNCHANGED offered

Next == Offer \/ Take

Spec == Init /\ [][Next]_vars
=============================================================================
