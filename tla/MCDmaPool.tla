------------------------------- MODULE MCDmaPool -------------------------------
(***************************************************************************)
(* Words of 512 values, buffers of eight pixels, small regions eight bytes  *)
(* apart, and two modes, one of which fills a buffer.  The pool's virtual   *)
(* address is negative as an int.                                          *)
(***************************************************************************)
EXTENDS DmaPool

MCGeometries == {[h_active |-> 2, v_active |-> 2], [h_active |-> 4, v_active |-> 2]}
=============================================================================
