------------------------------ MODULE MovingSquare ------------------------------
(***************************************************************************)
(* The client of examples/moving_square: a square drawn one step further in *)
(* each frame, in two buffers by turns.  The example keeps its own idea of  *)
(* which buffer it is drawing in (current_fb) beside the driver's           *)
(* (active_frame_buffer_offset), and clears in each only what it remembers  *)
(* of it.                                                                  *)
(***************************************************************************)
EXTENDS Integers

CONSTANTS h_active, v_active, MOVING_SQUARE_SIDE_LENGTH

ASSUME SizesAssumption ==
    /\ MOVING_SQUARE_SIDE_LENGTH \in Nat \ {0}
    /\ h_active \in Nat /\ v_active \in Nat

VARIABLES
    pc,                         \* what happens next: a frame is drawn, or shown
    x_pos, y_pos, direction,
    previous_buffer_position,   \* of each buffer, as the example counts them
    current_fb,                 \* the example's count
    active,                     \* the buffer behind get_active_frame_buffer_uint32()
    fb                          \* the squares each buffer holds

squareVars == <<pc, x_pos, y_pos, direction, previous_buffer_position, current_fb, active, fb>>

LIMIT_NOT_SET == -5

x_limit == h_active - MOVING_SQUARE_SIDE_LENGTH
y_limit == v_active - MOVING_SQUARE_SIDE_LENGTH

(* A row of square_pos[]: the step, the limits and where each one sends it.  *)
Row(x, y, xl, yl, xd, yd) ==
    [x |-> x, y |-> y, x_limit |-> xl, y_limit |-> yl,
     x_dir_change |-> xd, y_dir_change |-> yd]

(* The bottom left out of DOWN_LEFT's limits.                               *)
square_pos_NoBottom ==
    [DOWN_RIGHT |-> Row(1, 1, x_limit, y_limit, "DOWN_LEFT", "UP_RIGHT"),
     DOWN_LEFT |-> Row(-1, 1, -1, LIMIT_NOT_SET, "DOWN_RIGHT", "UP_LEFT"),
     UP_RIGHT |-> Row(1, -1, x_limit, -1, "UP_LEFT", "DOWN_RIGHT"),
     UP_LEFT |-> Row(-1, -1, -1, -1, "UP_RIGHT", "DOWN_LEFT")]

square_pos ==
    [DOWN_RIGHT |-> Row(1, 1, x_limit, y_limit, "DOWN_LEFT", "UP_RIGHT"),
     DOWN_LEFT |-> Row(-1, 1, -1, y_limit, "DOWN_RIGHT", "UP_LEFT"),
     UP_RIGHT |-> Row(1, -1, x_limit, -1, "UP_LEFT", "DOWN_RIGHT"),
     UP_LEFT |-> Row(-1, -1, -1, -1, "UP_RIGHT", "DOWN_LEFT")]

(* The globals, and init_example(); both buffers are black.                 *)
SquareInit ==
    /\ pc = "write"
    /\ x_pos = 5 /\ y_pos = 300 /\ direction = "UP_LEFT"
    /\ previous_buffer_position = [b \in 0..1 |-> IF b = 0 THEN <<5, 300>> ELSE <<0, 0>>]
    /\ current_fb = 0 /\ active = 0
    /\ fb = [b \in 0..1 |-> {}]

(* Of both sides met in one step, only the top or the bottom turns it.      *)
NextDirection ==
    LET d == square_pos[direction]
    IN CASE y_pos + d.y = d.y_limit -> d.y_dir_change
         [] y_pos + d.y # d.y_limit /\ x_pos + d.x = d.x_limit -> d.x_dir_change
         [] OTHER -> direction

(* One memory for both buffers: where the last square was drawn.            *)
Remembered_Last(b) == [c \in 0..1 |-> <<x_pos, y_pos>>]

Remembered(b) == [previous_buffer_position EXCEPT ![b] = <<x_pos, y_pos>>]

(* write_frame_buffer(): clear, draw, remember, turn, move.                 *)
write_frame_buffer ==
    /\ pc = "write"
    /\ fb' = [fb EXCEPT ![active] =
                (@ \ {previous_buffer_position[current_fb]}) \union {<<x_pos, y_pos>>}]
    /\ previous_buffer_position' = Remembered(current_fb)
    /\ current_fb' = 1 - current_fb
    /\ direction' = NextDirection
    /\ y_pos' = y_pos + square_pos[NextDirection].y
    /\ x_pos' = x_pos + square_pos[NextDirection].x
    /\ pc' = "show"
    /\ UNCHANGED active

(* run_context_loader(): the buffer is shown and the other one handed out.   *)
run_context_loader ==
    /\ pc = "show"
    /\ active' = 1 - active
    /\ pc' = "write"
    /\ UNCHANGED <<x_pos, y_pos, direction, previous_buffer_position, current_fb, fb>>

SquareNext == write_frame_buffer \/ run_context_loader

SquareSpec == SquareInit /\ [][SquareNext]_squareVars

-----------------------------------------------------------------------------
(* A square lies in the picture, so that drawing it neither wraps round to   *)
(* the next line nor leaves the buffer: the turns of square_pos[] never let  *)
(* it past a side, a corner met from this starting point included.           *)
InPicture ==
    \A b \in 0..1 : \A s \in fb[b] : s[1] \in 0..x_limit /\ s[2] \in 0..y_limit

(* A frame that is shown holds one square: what the example remembers of a   *)
(* buffer is what the buffer it is about to draw in really holds, so that no *)
(* trail is left behind.                                                    *)
OneSquareShown ==
    pc = "show" => \E s \in fb[active] : fb[active] = {s}

=============================================================================
