---------------------------- MODULE MCMailboxCalls ----------------------------
(***************************************************************************)
(* Bytes of 32 values, each call with one or two sets of arguments whose    *)
(* numbers need more than one byte where they have more, and a sink with a  *)
(* slave that answers and one that does not.                               *)
(***************************************************************************)
EXTENDS MailboxCalls

MCEdid == [o \in 0 .. 3 |-> 20 + o]
MCArgs ==
    [test_echo |-> {<<1000>>}, maincontrol |-> {<<0>>, <<1>>},
     apbconf |-> {<<1, 0, 0, 1, 1, 0>>}, write_register |-> {<<33, 1023>>},
     write_field |-> {<<33, 2, 5, 9>>}, read_register |-> {<<33>>},
     phy_test_access |-> {<<>>}, GetHpdStatus |-> {<<>>},
     DDC_READ |-> {<<5, 1, 3>>, <<6, 0, 2>>}, DDC_WRITE |-> {<<5, 2, 2, <<7, 8>>>>},
     DDC_UPDATE_READ |-> {<<>>}, READ_EDID |-> {<<1, 0>>}, ReadEvents |-> {<<>>}]
=============================================================================
