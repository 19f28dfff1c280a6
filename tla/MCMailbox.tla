------------------------------- MODULE MCMailbox -------------------------------
(***************************************************************************)
(* Mailbox for TLC.  With a radix of 2 the numbers, and the length in the   *)
(* header, take two cells, so that their order matters; the FIFOs are       *)
(* shorter than every message.                                             *)
(***************************************************************************)
EXTENDS Mailbox

MCAddr == {1, 2}
MCVal == {0, 3}
MCEchoes == {<<9>>, <<9, 0, 1>>}
=============================================================================
