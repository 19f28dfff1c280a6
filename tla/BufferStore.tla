------------------------------ MODULE BufferStore ------------------------------
(***************************************************************************)
(* What Platform takes the DMA pool to be: cells of their own for the two   *)
(* offset words, the two context-loader entries and the two pictures, and a *)
(* base register that holds a frame buffer.  A step changes one cell, and a *)
(* load brings the entry it selects.                                       *)
(***************************************************************************)
CONSTANTS Contexts, Buffers, NoBuffer, EntryOf(_), Pens

VARIABLES active, cache, entry, base, picture

vars == <<active, cache, entry, base, picture>>

(* The pool is zero at first: both words name the buffer at offset zero.    *)
Init ==
    /\ active = EntryOf(0) /\ cache = EntryOf(0)
    /\ entry = [c \in Contexts |-> NoBuffer]
    /\ base = NoBuffer
    /\ picture = [b \in Buffers |-> {0}]

SetActive == active' \in Buffers /\ UNCHANGED <<cache, entry, base, picture>>

SetCache == cache' \in Buffers /\ UNCHANGED <<active, entry, base, picture>>

SetEntry(c) ==
    /\ entry' = [entry EXCEPT ![c] = EntryOf(c)]
    /\ UNCHANGED <<active, cache, base, picture>>

SetBase == base' = EntryOf(0) /\ UNCHANGED <<active, cache, entry, picture>>

Load(c) ==
    /\ entry[c] # NoBuffer
    /\ base' = entry[c]
    /\ UNCHANGED <<active, cache, entry, picture>>

(* A pixel, or two, of a picture is painted over: no other one is touched.  *)
Paint(b, pen) ==
    /\ picture'[b] \subseteq picture[b] \union {pen}
    /\ picture' = [picture EXCEPT ![b] = picture'[b]]
    /\ UNCHANGED <<active, cache, entry, base>>

Next ==
    \/ SetActive \/ SetCache \/ SetBase
    \/ \E c \in Contexts : SetEntry(c) \/ Load(c)
    \/ \E b \in Buffers, pen \in Pens : Paint(b, pen)

Spec == Init /\ [][Next]_vars

=============================================================================
