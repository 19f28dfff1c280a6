------------------------------- MODULE MCExamples -------------------------------
(***************************************************************************)
(* The examples for TLC: the program that was built is moving_square, at    *)
(* its own sizes, or one of ExamplePictures, in three modes each wider and   *)
(* higher than the one before it; the second gives rotating_bars 64         *)
(* positions.                                                              *)
(***************************************************************************)
EXTENDS MovingSquare, ExamplePictures

MCModes ==
    [m \in 0..2 |->
        CASE m = 0 -> [h_active |-> 72, v_active |-> 5]
          [] m = 1 -> [h_active |-> 128, v_active |-> 6]
          [] m = 2 -> [h_active |-> 192, v_active |-> 8]]

VARIABLE built

EitherInit == built \in {"moving_square", "pictures"} /\ SquareInit /\ PicturesInit

EitherNext ==
    \/ built = "moving_square" /\ SquareNext /\ UNCHANGED <<built, picturesVars>>
    \/ built = "pictures" /\ PicturesNext /\ UNCHANGED <<built, squareVars>>

EitherSpec == EitherInit /\ [][EitherNext]_<<squareVars, built, picturesVars>>

=============================================================================
