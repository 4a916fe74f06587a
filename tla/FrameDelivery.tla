---------------------------- MODULE FrameDelivery ----------------------------
(***************************************************************************)
(* What the whole system promises, without saying how: the frames the      *)
(* camera takes are dealt with one after the other, and each is stored or  *)
(* given up; none is stored twice or out of order, and none stays          *)
(* undecided for ever.  A frame is stored whole, unless the receiver has   *)
(* missed chunks.                                                          *)
(*                                                                         *)
(* Pipeline implements it, with the modem and the receiver in between.     *)
(***************************************************************************)
EXTENDS Integers, Sequences

CONSTANT Heals    \* the next frame replaces what a damaged one has left

VARIABLES
    taken,     \* frames the camera has sent, the number of the last one
    handled,   \* frames the modem has done with
    missed,    \* the receiver has missed chunks, which may show in an image
    stored     \* the images stored so far: of which frame, and is it whole

vars == <<taken, handled, missed, stored>>

Last == IF stored = <<>> THEN 0 ELSE stored[Len(stored)].frame

Init == taken = 0 /\ handled = 0 /\ missed = FALSE /\ stored = <<>>

\* The camera has sent the next frame.
Take == taken' = taken + 1 /\ UNCHANGED <<handled, missed, stored>>

\* The frame being dealt with is stored: at most once, and whole if nothing was
\* missed.
Store(whole) ==
    /\ handled < taken /\ Last < handled + 1
    /\ missed \/ whole
    /\ stored' = Append(stored, [frame |-> handled + 1, whole |-> whole])
    /\ UNCHANGED <<taken, handled, missed>>

\* The frame is done with, stored or not.
Finish ==
    /\ handled < taken
    /\ handled' = handled + 1
    /\ missed' = (missed /\ ~Heals)
    /\ UNCHANGED <<taken, stored>>

\* Chunks of the frame being dealt with are missed.
Miss == handled < taken /\ missed' = TRUE /\ UNCHANGED <<taken, handled, stored>>

\* The receiver starts afresh.
Restart == missed' = FALSE /\ UNCHANGED <<taken, handled, stored>>

Next == Take \/ (\E whole \in BOOLEAN : Store(whole)) \/ Finish \/ Miss \/ Restart

\* The frames are dealt with in order, ...
Safety == Init /\ [][Next]_vars

\* ... and each in the end.
Progress == WF_<<taken, handled, stored>>(Finish)

Spec == Safety /\ Progress

-----------------------------------------------------------------------------
(* Properties.                                                             *)

TypeOK ==
    /\ taken \in Nat /\ handled \in 0 .. taken /\ missed \in BOOLEAN
    /\ stored \in Seq([frame : 1 .. taken, whole : BOOLEAN])

\* The frames that are stored were taken, and are stored in order and once.
InOrder ==
    /\ \A k \in 1 .. Len(stored) : stored[k].frame <= handled + 1
    /\ \A k, m \in 1 .. Len(stored) : k < m => stored[k].frame < stored[m].frame
=============================================================================
