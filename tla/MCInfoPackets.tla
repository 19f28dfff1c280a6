----------------------------- MODULE MCInfoPackets -----------------------------
(***************************************************************************)
(* All five modes, two with the vic that the examples hand over: 23, which  *)
(* rotating_bars writes, and what was in the memory of hd.  And packets of  *)
(* other callers: another type in the AVI packet's entry, and a longer one  *)
(* in an entry of its own.                                                 *)
(***************************************************************************)
EXTENDS InfoPackets

W(n) == <<n, n, n, n>>
Unset == 70001
MCModes ==
    {vic_table[i] : i \in {1, 4, 5}}
        \union {[VIC_4 EXCEPT !.vic = 23], [VIC_16 EXCEPT !.vic = Unset]}
MCOther ==
    {[entry |-> 0, type |-> 131, packet |-> <<W(1), W(2)>>, idle |-> FALSE],
     [entry |-> 1, type |-> 129, packet |-> [i \in 1 .. 8 |-> W(i)], idle |-> TRUE]}
=============================================================================
