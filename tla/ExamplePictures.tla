---------------------------- MODULE ExamplePictures ----------------------------
(***************************************************************************)
(* What examples/static_image, resolution_change and rotating_bars draw,    *)
(* pixel by pixel, and what the viewer sees of it through the order of the  *)
(* components (rgb_format) that the mode hands to the display controller.   *)
(***************************************************************************)
EXTENDS Integers

CONSTANTS
    Modes,      \* the first three rows of vic_table: [h_active, v_active]
    API_EXAMPLE_2_SIDE_LENGTH

(* Bars are quarters of a line, the square fits, the third of the modes has *)
(* the most pixels, and a bar of the second fades in within a byte.         *)
ASSUME ModesAssumption ==
    /\ API_EXAMPLE_2_SIDE_LENGTH \in Nat
    /\ \A m \in 0..2 :
        /\ Modes[m].h_active \in Nat \ {0} /\ Modes[m].v_active \in Nat \ {0}
        /\ Modes[m].h_active % 4 = 0
        /\ API_EXAMPLE_2_SIDE_LENGTH <= Modes[m].h_active
        /\ API_EXAMPLE_2_SIDE_LENGTH <= Modes[m].v_active
        /\ Modes[m].h_active * Modes[m].v_active <= Modes[2].h_active * Modes[2].v_active
    /\ Modes[1].h_active <= 3060

VARIABLES
    example,        \* the program that was built
    step,           \* what the client does next
    hdmi_config,    \* of the mode: size, format, and whether alpha counts
    image,          \* resolution_change's loop
    width_offset,   \* rotating_bars' global
    buffers,        \* the buffers' pixels, four bytes each
    drawn_in,       \* the one handed out
    shown           \* the one on display

picturesVars ==
    <<example, step, hdmi_config, image, width_offset, buffers, drawn_in, shown>>

Dark == -1
Black == <<0, 0, 0, 0>>
Places == 0 .. Modes[2].h_active * Modes[2].v_active - 1

-----------------------------------------------------------------------------
(* enum RGB_FORMAT, the value of MODE_CTRL0: two bits for each component    *)
(* say which byte of a pixel it is read from.                              *)
RGB_FORMAT ==
    [RGBA |-> \hc6203, RBGA |-> \hc9203, GRBA |-> \hd2203,
     GBRA |-> \he1203, BGRA |-> \he4203, BRGA |-> \hd8203]

ByteOf(component, format) ==
    LET unit == [A |-> 2^18, R |-> 2^16, G |-> 2^14, B |-> 2^12]
    IN 1 + ((RGB_FORMAT[format] \div unit[component]) % 4)

Hd(m, format, alpha) ==
    [h_active |-> Modes[m].h_active, v_active |-> Modes[m].v_active,
     rgb_format |-> format, alpha_enable |-> alpha]

-----------------------------------------------------------------------------
(* write_frame_buffer() of each example: the pixels it stores.              *)

(* static_image's alpha, carried from one pixel to the next.                *)
StaticAlpha(width, height) ==
    LET alpha[k \in 0 .. width * height - 1] ==
            IF (k % width) % (width \div 4) = 0 THEN 0
            ELSE alpha[k-1] + (IF ((k-1) % width) % 3 = 0 THEN 1 ELSE 0)
    IN alpha

StaticPixel(j, width, alpha) ==
    CASE j < width \div 4 -> <<255, 0, 0, alpha % 256>>
      [] j >= width \div 4 /\ j < width \div 2 -> <<0, 255, 0, alpha % 256>>
      [] j >= width \div 2 /\ j < (3 * width) \div 4 -> <<0, 0, 255, alpha % 256>>
      [] OTHER -> <<255, 255, 255, alpha % 256>>

StaticPicture(h, buffer) ==
    LET alpha == StaticAlpha(h.h_active, h.v_active)
    IN [p \in Places |->
          IF p \in DOMAIN alpha
          THEN StaticPixel(p % h.h_active, h.h_active, alpha[p]) ELSE buffer[p]]

(* resolution_change: the square's lines, each a picture's width further,   *)
(* of a pixel in which RBGA has green third.                               *)
RBGA_GREEN == <<0, 0, 255, 0>>

SquarePicture(h, buffer) ==
    LET side == 0 .. API_EXAMPLE_2_SIDE_LENGTH - 1
        square == {line * h.h_active + j : line \in side, j \in side}
    IN [p \in Places |-> IF p \in square THEN RBGA_GREEN ELSE buffer[p]]

(* rotating_bars: the position in the bars starts at width_offset and goes   *)
(* round at the width, in pairs of pixels, on from line to line.            *)
BarPosition(k, width) == (width_offset + k) % width

RotatingPixel(j_pos, width) ==
    CASE j_pos < width \div 4 -> <<255, 0, 0, 255>>
      [] j_pos >= width \div 4 /\ j_pos < width \div 2 -> <<0, 255, 0, 255>>
      [] j_pos >= width \div 2 /\ j_pos < (3 * width) \div 4 -> <<0, 0, 255, 255>>
      [] OTHER -> <<255, 255, 255, 255>>

BarsPicture(h, buffer) ==
    LET width == h.h_active \div 2
    IN [p \in Places |->
          IF p \div 2 < width * h.v_active
          THEN RotatingPixel(BarPosition(p \div 2, width), width) ELSE buffer[p]]

(* Starting over one pair late.                                            *)
NextOffset_Late(width) == IF width_offset = width THEN 0 ELSE width_offset + 1

NextOffset(width) == IF width_offset + 1 = width THEN 0 ELSE width_offset + 1

-----------------------------------------------------------------------------
(* The clears of frame_buffer.c.                                           *)

(* As many stores as the buffer has pairs of pixels, of half the width.     *)
Cleared_Narrow(h, buffer) ==
    [p \in Places |-> IF p < h.v_active * (h.h_active \div 2) THEN Black ELSE buffer[p]]

Cleared(h, buffer) ==
    [p \in Places |->
       IF p \div 2 < h.v_active * (h.h_active \div 2) THEN Black ELSE buffer[p]]

ClearBoth == buffers' = [b \in 0..1 |-> Cleared(hdmi_config, buffers[b])]

-----------------------------------------------------------------------------

(* Zeroed memory; hd gets its first value from the first image.             *)
PicturesInit ==
    /\ example \in {"static_image", "resolution_change", "rotating_bars"}
    /\ step = "start"
    /\ hdmi_config = Hd(0, "RGBA", "ALPHA_OFF")
    /\ image = 0 /\ width_offset = 0
    /\ buffers = [b \in 0..1 |-> [p \in Places |-> Black]]
    /\ drawn_in = 0 /\ shown = Dark

(* static_image() of static_image: the second row, bytes as RBGA.           *)
ShowBars ==
    /\ example = "static_image" /\ step = "start"
    /\ hdmi_config' = Hd(1, "RBGA", "ALPHA_ON")
    /\ buffers' = [buffers EXCEPT ![drawn_in] = StaticPicture(hdmi_config', @)]
    /\ shown' = drawn_in
    /\ step' = "reset"
    /\ UNCHANGED <<example, image, width_offset, drawn_in>>

(* ... of resolution_change: the next of the three rows, bytes as RBGA.     *)
ShowSquare ==
    /\ example = "resolution_change" /\ step = "start"
    /\ hdmi_config' = Hd(image, "RBGA", "ALPHA_OFF")
    /\ buffers' = [buffers EXCEPT ![drawn_in] = SquarePicture(hdmi_config', @)]
    /\ shown' = drawn_in
    /\ step' = "reset"
    /\ UNCHANGED <<example, image, width_offset, drawn_in>>

(* The clears, and the display goes dark for the next image.                *)
reset_static_image ==
    /\ step = "reset"
    /\ ClearBoth
    /\ shown' = Dark
    /\ image' = image + 1
    /\ step' = IF example = "resolution_change" /\ image < 2 THEN "start" ELSE "end"
    /\ UNCHANGED <<example, hdmi_config, width_offset, drawn_in>>

(* moving_image() and notified(52): a frame, drawn where the offset word    *)
(* says; the mode is written out in the example, and is the second row.     *)
DrawFrame ==
    /\ example = "rotating_bars" /\ step \in {"start", "draw"}
    /\ hdmi_config' = Hd(1, "RGBA", "ALPHA_OFF")
    /\ buffers' = [buffers EXCEPT ![drawn_in] = BarsPicture(hdmi_config', @)]
    /\ width_offset' = NextOffset(hdmi_config'.h_active \div 2)
    /\ step' = "load"
    /\ UNCHANGED <<example, image, drawn_in, shown>>

(* run_context_loader(): the frame is shown, the other buffer handed out.   *)
ShowFrame ==
    /\ step = "load"
    /\ shown' = drawn_in
    /\ drawn_in' = 1 - drawn_in
    /\ step' = "draw"
    /\ UNCHANGED <<example, hdmi_config, image, width_offset, buffers>>

(* After the last image, or after MAX_FRAME_COUNT frames, of any number.    *)
reset_api ==
    /\ step \in {"draw", "end"}
    /\ ClearBoth
    /\ step' = "done"
    /\ UNCHANGED <<example, hdmi_config, image, width_offset, drawn_in, shown>>

PicturesNext ==
    \/ ShowBars \/ ShowSquare \/ reset_static_image
    \/ DrawFrame \/ ShowFrame \/ reset_api

PicturesSpec == PicturesInit /\ [][PicturesNext]_picturesVars

-----------------------------------------------------------------------------
(* What the viewer sees at column x of line y.                             *)
Shown(x, y) == buffers[shown][y * hdmi_config.h_active + x]
Colour(pixel) == [c \in {"R", "G", "B"} |-> pixel[ByteOf(c, hdmi_config.rgb_format)]]
Alpha(pixel) == pixel[ByteOf("A", hdmi_config.rgb_format)]

Of(r, g, b) == [R |-> 255 * r, G |-> 255 * g, B |-> 255 * b]
Red == Of(1, 0, 0)
Green == Of(0, 1, 0)
Blue == Of(0, 0, 1)
White == Of(1, 1, 1)

Columns == 0 .. hdmi_config.h_active - 1
Lines == 0 .. hdmi_config.v_active - 1
Bar(x) == (4 * x) \div hdmi_config.h_active

(* examples/README.md:8: bars of red, blue, green and white, which fade in  *)
(* from 0 by one for every three pixels, each bar and each line alike.      *)
BarsFadeIn ==
    example = "static_image" /\ shown # Dark =>
        \A x \in Columns, y \in Lines :
            LET pixel == Shown(x, y)
            IN /\ Colour(pixel) = <<Red, Blue, Green, White>>[Bar(x) + 1]
               /\ x % (hdmi_config.h_active \div 4) = 0 => Alpha(pixel) = 0
               /\ x + 3 \in Columns /\ Bar(x + 3) = Bar(x) =>
                      Alpha(Shown(x + 3, y)) = Alpha(pixel) + 1

(* One square, green as its constant says, and black beside it, at each of  *)
(* the three resolutions: what was drawn for one mode is cleared before a   *)
(* line has another length.                                                *)
SquareAlone ==
    example = "resolution_change" /\ shown # Dark =>
        \A x \in Columns, y \in Lines :
            Colour(Shown(x, y)) =
                IF x < API_EXAMPLE_2_SIDE_LENGTH /\ y < API_EXAMPLE_2_SIDE_LENGTH
                THEN Green ELSE Of(0, 0, 0)

(* The two still examples show what they document, and only that.          *)
StillPictures == BarsFadeIn /\ SquareAlone

(* Each frame shows the one before it moved left by two pixels, and round   *)
(* the edge, though each was drawn in another buffer over an older picture; *)
(* all lines are alike.                                                    *)
BarsRotate ==
    [][example = "rotating_bars" /\ shown # Dark /\ shown' # shown =>
         \A x \in Columns, y \in Lines :
            Shown(x, y)' = Shown((x + 2) % hdmi_config.h_active,
                                 (y + 1) % hdmi_config.v_active)]_picturesVars

=============================================================================
