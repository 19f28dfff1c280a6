----------------------------- MODULE FramePipeline -----------------------------
(***************************************************************************)
(* What the driver promises the viewer of an image.  Frames are numbered    *)
(* as they are finished; a frame may be finished only while the one before *)
(* it is on display, or nothing is, so no frame is overtaken unseen; and   *)
(* the picture on display only ever advances to the last finished frame,   *)
(* or goes black.  Half-drawn pictures do not exist at this level.         *)
(***************************************************************************)
EXTENDS Integers

CONSTANT MaxFrames     \* the frames of an image

VARIABLES
    drawn,    \* frames of the current image finished so far
    shown     \* the frame on display, 0 for black

Init == drawn = 0 /\ shown = 0

(* A new image may only be started on a black display.                     *)
NewImage == shown = 0 /\ drawn' = 0 /\ UNCHANGED shown

Finish ==
    /\ drawn < MaxFrames
    /\ shown \in {0, drawn}
    /\ drawn' = drawn + 1
    /\ UNCHANGED shown

Show == shown' = drawn /\ UNCHANGED drawn

Blank == shown' = 0 /\ UNCHANGED drawn

Next == NewImage \/ Finish \/ Show \/ Blank

Spec == Init /\ [][Next]_<<drawn, shown>>

=============================================================================
