------------------------------ MODULE InfoPackets ------------------------------
(***************************************************************************)
(* API_Infoframe.c and API_AVI.c: packets put into the packet memory of the *)
(* transmitter while the transmitter sends, once a frame, every entry that  *)
(* its allocation table marks valid.  Setting an entry takes a dozen        *)
(* register writes, and a packet may be sent between any two of them.       *)
(*                                                                         *)
(* A word is its four bytes.  The hardware (source_pif.h) collects words in *)
(* FIFO1, moves them to an entry of the memory on WR_REQ and takes          *)
(* PKT_ALLOC_REG over on PKT_ALLOC_WR_EN; the code polls none of its        *)
(* status bits, so that each register write has taken effect before the     *)
(* next one here.                                                          *)
(***************************************************************************)
EXTENDS VicTable

CONSTANTS
    Modes,          \* the hdmi_data given to cdn_api_set_avi()
    Stack,          \* what the two bytes behind an AVI packet may hold
    Other           \* packets of other callers: [entry, type, packet, idle]

Entries == {0} \union {o.entry : o \in Other}

(* The other callers hand over a word at least, and no more than fit.       *)
EntryWords == 8
ASSUME OtherAssumption ==
    \A o \in Other : \E n \in 1 .. EntryWords : o.packet = [i \in 1 .. n |-> o.packet[i]]

VARIABLES
    pc, idx,            \* infoframeSet(): where it is, the next word
    args,               \* its arguments
    alloc_reg,          \* PKT_ALLOC_REG
    fifo1, wr_addr,     \* FIFO1 and WR_ADDR
    table, memory,      \* the allocation table and the packet memory
    current             \* history: what each entry was last set to

hw == <<alloc_reg, fifo1, wr_addr, table, memory>>
vars == <<pc, idx, args, hw, current>>

None == [type |-> 0, packet |-> <<>>, from |-> <<>>]

-----------------------------------------------------------------------------
(* cdn_api_set_avi()                                                       *)

PXL_RGB == 1
YCBCR_4_4_4 == 2
YCBCR_4_2_2 == 4
YCBCR_4_2_0 == 8
Y_ONLY == 16
Formats == {PXL_RGB, YCBCR_4_4_4, YCBCR_4_2_2, YCBCR_4_2_0, Y_ONLY}
BT_601 == 0
BT_709 == 1
BtTypes == {BT_601, BT_709}

packet_y(color_mode) ==
    CASE color_mode = YCBCR_4_4_4 -> 2
      [] color_mode = YCBCR_4_2_2 -> 1
      [] color_mode = YCBCR_4_2_0 -> 3
      [] OTHER -> 0
packet_c(itu_ver) == CASE itu_ver = BT_601 -> 1 [] itu_ver = BT_709 -> 2 [] OTHER -> 0

(* The bars: the line after the picture and the pixel after it.             *)
vactive(hd) == hd.v_active + 1
hactive(hd) == hd.h_total - hd.h_blank + 1

AVI == 130      \* 0x82
Header == <<AVI, 2, 13>>

Fields_Swapped(hd, color_mode, itu_ver) ==
    <<32 * packet_y(color_mode) + 16, 64 * packet_c(itu_ver) + hd.vic_r3,
      0, hd.vic, hd.vic_pr, 0, 0,
      vactive(hd) \div 256, vactive(hd) % 256, 0, 0,
      hactive(hd) \div 256, hactive(hd) % 256>>

(* PB1 to PB13; what the code keeps at zero is left out of the sums.        *)
Fields(hd, color_mode, itu_ver) ==
    <<32 * packet_y(color_mode) + 16, 64 * packet_c(itu_ver) + hd.vic_r3,
      0, hd.vic, hd.vic_pr, 0, 0,
      vactive(hd) % 256, vactive(hd) \div 256, 0, 0,
      hactive(hd) % 256, hactive(hd) \div 256>>

pb1_13_chksum(hb, pb) ==
    hb[1] + hb[2] + hb[3] + pb[1] + pb[2] + pb[3] + pb[4] + pb[5] + pb[6] + pb[7]
    + pb[8] + pb[9] + pb[10] + pb[11] + pb[12] + pb[13]

Checksum(hb, pb) == 256 - (pb1_13_chksum(hb, pb) % 256)

(* The 18 bytes as they are stored, an unsigned char each, and the two of   *)
(* the fifth word that are not.                                            *)
AviPacket(hd, color_mode, itu_ver, stack) ==
    LET pb == Fields(hd, color_mode, itu_ver)
        byte(n) == pb[n] % 256
    IN <<<<0, Header[1], Header[2], Header[3]>>,
         <<Checksum(Header, pb) % 256, byte(1), byte(2), byte(3)>>,
         <<byte(4), byte(5), byte(6), byte(7)>>,
         <<byte(8), byte(9), byte(10), byte(11)>>,
         <<byte(12), byte(13), stack, stack>>>>

-----------------------------------------------------------------------------
(* infoframeSet(): each action is a write to a register of the PIF.         *)

(* A call of cdn_api_infoframeset() or ...setnoactiveidle().                *)
Call(entry, type, packet, idle, from) ==
    /\ pc = "idle"
    /\ args' = [entry |-> entry, type |-> type, packet |-> packet, idle |-> idle, from |-> from]
    /\ pc' = "invalidate" /\ idx' = 1
    /\ UNCHANGED <<hw, current>>

cdn_api_set_avi ==
    \E hd \in Modes, color_mode \in Formats, itu_ver \in BtTypes, stack \in Stack :
        Call(0, AVI, AviPacket(hd, color_mode, itu_ver, stack), TRUE,
             <<hd, color_mode, itu_ver>>)

cdn_api_infoframeset == \E o \in Other : Call(o.entry, o.type, o.packet, o.idle, <<>>)

(* cdn_api_infoframeremove(): the first two writes alone.                   *)
cdn_api_infoframeremove ==
    /\ pc = "idle"
    /\ \E e \in Entries :
          args' = [entry |-> e, type |-> 0, packet |-> <<>>, idle |-> TRUE, from |-> <<>>]
    /\ pc' = "invalidate" /\ idx' = 1
    /\ UNCHANGED <<hw, current>>

Removing == args.packet = <<>>

(* The value written to PKT_ALLOC_REG.                                     *)
AllocValue(valid) ==
    [entry |-> args.entry, valid |-> valid, idle |-> args.idle,
     type |-> IF valid THEN args.type ELSE 0]

(* The entry not invalidated first.                                        *)
Invalidate_Skipped ==
    /\ pc = "invalidate" /\ pc' = "invalidate_en"
    /\ alloc_reg' = AllocValue(TRUE)
    /\ UNCHANGED <<idx, args, fifo1, wr_addr, table, memory, current>>

Invalidate ==
    /\ pc = "invalidate" /\ pc' = "invalidate_en"
    /\ alloc_reg' = AllocValue(FALSE)
    /\ UNCHANGED <<idx, args, fifo1, wr_addr, table, memory, current>>

TakeAlloc == table' = [table EXCEPT ![alloc_reg.entry] = alloc_reg]

(* PKT_ALLOC_WR_EN.  Nothing is promised for the entry from here on.        *)
InvalidateEnable ==
    /\ pc = "invalidate_en" /\ pc' = IF Removing THEN "idle" ELSE "flush"
    /\ TakeAlloc
    /\ current' = [current EXCEPT ![args.entry] = None]
    /\ UNCHANGED <<idx, args, alloc_reg, fifo1, wr_addr, memory>>

Flush ==
    /\ pc = "flush" /\ pc' = "data"
    /\ fifo1' = <<>>
    /\ UNCHANGED <<idx, args, alloc_reg, wr_addr, table, memory, current>>

DataWr ==
    /\ pc = "data" /\ idx <= Len(args.packet)
    /\ fifo1' = Append(fifo1, args.packet[idx])
    /\ idx' = idx + 1
    /\ UNCHANGED <<pc, args, alloc_reg, wr_addr, table, memory, current>>

WrAddr ==
    /\ pc = "data" /\ idx > Len(args.packet) /\ pc' = "request"
    /\ wr_addr' = args.entry
    /\ UNCHANGED <<idx, args, alloc_reg, fifo1, table, memory, current>>

(* WR_REQ: the FIFO's words go over those of the entry, from its first.     *)
WrReq ==
    /\ pc = "request" /\ pc' = "validate"
    /\ memory' = [memory EXCEPT ![wr_addr] =
                     fifo1 \o SubSeq(memory[wr_addr], Len(fifo1) + 1, Len(memory[wr_addr]))]
    /\ fifo1' = <<>>
    /\ UNCHANGED <<idx, args, alloc_reg, wr_addr, table, current>>

Validate ==
    /\ pc = "validate" /\ pc' = "validate_en"
    /\ alloc_reg' = AllocValue(TRUE)
    /\ UNCHANGED <<idx, args, fifo1, wr_addr, table, memory, current>>

ValidateEnable ==
    /\ pc = "validate_en" /\ pc' = "idle"
    /\ TakeAlloc
    /\ current' = [current EXCEPT ![args.entry] =
                      [type |-> args.type, packet |-> args.packet, from |-> args.from]]
    /\ UNCHANGED <<idx, args, alloc_reg, fifo1, wr_addr, memory>>

Next ==
    \/ cdn_api_set_avi \/ cdn_api_infoframeset \/ cdn_api_infoframeremove
    \/ Invalidate \/ InvalidateEnable \/ Flush \/ DataWr \/ WrAddr \/ WrReq
    \/ Validate \/ ValidateEnable

(* The firmware may have used the FIFO before the driver does.              *)
Junk == <<255, 255, 255, 255>>

Init ==
    /\ pc = "idle" /\ idx = 1
    /\ args = [entry |-> 0, type |-> 0, packet |-> <<>>, idle |-> FALSE, from |-> <<>>]
    /\ alloc_reg = [entry |-> 0, valid |-> FALSE, idle |-> FALSE, type |-> 0]
    /\ fifo1 \in {<<>>, <<Junk>>} /\ wr_addr = 0
    /\ table = [e \in Entries |-> alloc_reg]
    /\ memory = [e \in Entries |-> [i \in 1 .. EntryWords |-> Junk]]
    /\ current = [e \in Entries |-> None]

Spec == Init /\ [][Next]_vars

-----------------------------------------------------------------------------

(* Whatever the transmitter may send next is what a finished call set, from *)
(* its type to its last word: no packet of two calls, none half written,    *)
(* none of an entry that has been withdrawn or that a call is working on.   *)
SendsWhatWasSet ==
    \A e \in Entries :
        table[e].valid =>
            /\ current[e] # None
            /\ table[e].type = current[e].type
            /\ SubSeq(memory[e], 1, Len(current[e].packet)) = current[e].packet

(* The AVI packets it may send, as HB0 to HB2 and PB0 to PB13.           *)
AviEntries == {e \in Entries : table[e].valid /\ table[e].type = AVI}
SentByte(e, i) == memory[e][(i \div 4) + 1][(i % 4) + 1]
SentHeader(e) == [i \in 1 .. 3 |-> SentByte(e, i)]
SentBody(e) == [i \in 0 .. 13 |-> SentByte(e, i + 4)]

(* A receiver takes an AVI packet only if its header, its checksum and its  *)
(* thirteen bytes add up to zero: they do for every mode, format and        *)
(* colorimetry, after each byte was cut to its width.  And read back as     *)
(* CTA-861 has it, the packet tells of the mode it was made from: bars that *)
(* begin right behind the picture in both directions, and numbers that      *)
(* still are what they were before they were cut into bytes.  Of the vic,   *)
(* which a client may have left unset, it is the low byte that is sent.     *)
AviTellsMode ==
    \A e \in AviEntries :
        LET pb == SentBody(e)
            hd == current[e].from[1]
            color_mode == current[e].from[2]
        IN /\ (pb[0] + pb1_13_chksum(SentHeader(e), pb)) % 256 = 0
           /\ pb[8] + 256 * pb[9] = hd.v_active + 1
           /\ pb[12] + 256 * pb[13] = hd.h_active + 1
           /\ pb[4] = hd.vic % 256 /\ pb[5] % 16 = hd.vic_pr /\ pb[2] % 16 = hd.vic_r3
           /\ (pb[1] \div 32 = 0) <=> (color_mode \in {PXL_RGB, Y_ONLY})

=============================================================================
