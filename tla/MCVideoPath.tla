------------------------------ MODULE MCVideoPath ------------------------------
(* The three modes the examples use (vic_table rows 0 to 2), and all five.  *)
EXTENDS VideoPathInv

MCModes == {vic_table[i] : i \in 1..3}
MCAllModes == {vic_table[i] : i \in 1..5}
MCFrameBufferSize == 2000 * 1080 * 4
=============================================================================
