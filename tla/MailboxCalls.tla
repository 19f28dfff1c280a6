----------------------------- MODULE MailboxCalls -----------------------------
(***************************************************************************)
(* The calls of API_General.h and API_HDMITX.h that go through the mailbox, *)
(* message by message (Mailbox has the bytes on their way): how each lays   *)
(* out its request, what it takes from the reply, and the pointers into     *)
(* rxbuffer that three of them hand to the caller.  What the firmware does  *)
(* and the order of its replies' fields are taken from these calls.         *)
(***************************************************************************)
EXTENDS Integers, Sequences

CONSTANTS
    Radix,          \* values of a byte (256)
    BufferSize,     \* of txbuffer and rxbuffer (1024)
    Args,           \* for each call, the arguments it is made with
    Registers,      \* addresses behind the firmware
    Slaves, Edid,   \* I2C slaves that answer, and their data by offset
    Prior,          \* what the caller's data_out->status may hold above its low byte
    MaxPosted       \* bound on the messages in the mailbox

HEAD == 4           \* INTERNAL_CMD_HEAD_SIZE
GENERAL == 10       \* MB_MODULE_ID_GENERAL
HDMI_TX == 3        \* MB_MODULE_ID_HDMI_TX

VARIABLES
    call, out,          \* the call being made; what the last one gave its caller
    rxbuffer, rxi,      \* state_struct
    buff,               \* the caller's pointer into rxbuffer: where it points, what it was for
    to_fw, to_host,     \* messages in the mailbox
    regs, ddc,          \* firmware: registers; the sink's I2C memory
    active, hpd,        \* main control's active bit; hot plug
    asked, shadow       \* history: the answer to the call; regs as the writes left them

firmware == <<regs, ddc, active, hpd>>
vars == <<call, out, rxbuffer, rxi, buff, to_fw, to_host, firmware, asked, shadow>>

Idle == [fn |-> "none", args |-> <<>>]
NoBuff == [at |-> 0, bytes |-> <<>>]

-----------------------------------------------------------------------------
(* The layouts: module and opcode, the sizes of the request's numbers, and  *)
(* the sizes of those of the reply, each as the call gives them.            *)

Header ==
    [test_echo |-> <<2, GENERAL>>, maincontrol |-> <<1, GENERAL>>,
     apbconf |-> <<3, GENERAL>>, write_register |-> <<5, GENERAL>>,
     write_field |-> <<6, GENERAL>>, read_register |-> <<7, GENERAL>>,
     phy_test_access |-> <<4, GENERAL>>, GetHpdStatus |-> <<17, GENERAL>>,
     DDC_READ |-> <<0, HDMI_TX>>, DDC_WRITE |-> <<1, HDMI_TX>>,
     DDC_UPDATE_READ |-> <<2, HDMI_TX>>, READ_EDID |-> <<3, HDMI_TX>>,
     ReadEvents |-> <<4, HDMI_TX>>]

Calls == DOMAIN Header

RequestSizes ==
    [test_echo |-> <<4>>, maincontrol |-> <<1>>, apbconf |-> <<1>>,
     write_register |-> <<4, 4>>, write_field |-> <<4, 1, 1, 4>>,
     read_register |-> <<4>>, phy_test_access |-> <<>>, GetHpdStatus |-> <<>>,
     DDC_READ |-> <<1, 1, 2>>, DDC_WRITE |-> <<1, 1, 2>>,
     DDC_UPDATE_READ |-> <<>>, READ_EDID |-> <<1, 1>>, ReadEvents |-> <<>>]

NoReply == {"write_register", "write_field"}

ReplySizes ==
    [test_echo |-> <<4>>, maincontrol |-> <<1>>, apbconf |-> <<1>>,
     read_register |-> <<4, 4>>, phy_test_access |-> <<1>>, GetHpdStatus |-> <<1>>,
     DDC_READ |-> <<1, 1, 1, 2>>, DDC_WRITE |-> <<1, 1, 1, 2>>,
     DDC_UPDATE_READ |-> <<1>>, READ_EDID |-> <<1, 1, 1, 2>>, ReadEvents |-> <<4>>]

(* These end with "0, &data_out->buff", and with DDC_WRITE have a status.   *)
HandsOutBuff == {"DDC_READ", "DDC_UPDATE_READ", "READ_EDID"}
HasStatus == HandsOutBuff \union {"DDC_WRITE"}

(* A number has four bytes at most (internal_betoi(): "Read request for     *)
(* payload larger then supported"): what they count, from the last one.     *)
Weight == <<1, Radix, Radix * Radix, Radix * Radix * Radix, Radix * Radix * Radix * Radix>>

internal_itobe(val, bytes) == [i \in 1 .. bytes |-> (val \div Weight[bytes - i + 1]) % Radix]
internal_betoi(src, bytes) ==
    LET part(i) == IF i <= bytes THEN src[i] * Weight[bytes - i + 1] ELSE 0
    IN part(1) + part(2) + part(3) + part(4)

(* The bytes before the k-th number; no call has more than four numbers.    *)
Before(sizes, k) ==
    LET size(i) == IF i < k /\ i <= Len(sizes) THEN sizes[i] ELSE 0
    IN size(1) + size(2) + size(3) + size(4)
Total(sizes) == Before(sizes, Len(sizes) + 1)

(* The numbers laid out one behind the other ...                            *)
Layout(numbers, sizes) ==
    LET at(p) == CHOOSE k \in 1 .. Len(sizes) : p - Before(sizes, k) \in 1 .. sizes[k]
    IN [p \in 1 .. Total(sizes) |->
            internal_itobe(numbers[at(p)], sizes[at(p)])[p - Before(sizes, at(p))]]

(* ... and read back.                                                      *)
Numbers(cells, sizes) ==
    [k \in 1 .. Len(sizes) |->
        internal_betoi([i \in 1 .. sizes[k] |-> cells[Before(sizes, k) + i]], sizes[k])]

(* apbconf(): six flags in one byte.                                       *)
BusSettings(flags) ==
    flags[1] + 2 * flags[2] + 4 * flags[3] + 8 * flags[4] + 16 * flags[5] + 32 * flags[6]

Sent(c) ==
    [k \in 1 .. Len(RequestSizes[c.fn]) |->
        IF c.fn = "apbconf" THEN BusSettings(c.args) ELSE c.args[k]]

(* data_in->buff goes behind the numbers, byte by byte.                    *)
DataSent(c) == IF c.fn = "DDC_WRITE" THEN c.args[4] ELSE <<>>

Message(header, payload) == header \o internal_itobe(Len(payload), 2) \o payload
Request(c) == Message(Header[c.fn], Layout(Sent(c), RequestSizes[c.fn]) \o DataSent(c))

(* A number lies within the bytes it is sent in.                           *)
Fit(numbers, sizes) ==
    \A k \in 1 .. Len(sizes) : numbers[k] \in 0 .. Weight[sizes[k] + 1] - 1

-----------------------------------------------------------------------------
(* The driver: blocking calls, one at a time.                              *)

cdn_api_init ==
    /\ call = Idle
    /\ rxbuffer' = [i \in 0 .. BufferSize - 1 |-> 0] /\ rxi' = 0
    /\ buff' = NoBuff
    /\ UNCHANGED <<call, out, to_fw, to_host, firmware, asked, shadow>>

(* A field of the register replaced.                                       *)
WithField(word, startbit, bitsno, val) ==
    LET above == 2 ^ (startbit + bitsno)
    IN (word \div above) * above + (val % 2 ^ bitsno) * 2 ^ startbit + (word % 2 ^ startbit)

Written(c, r) ==
    IF c.fn \notin NoReply THEN r
    ELSE [r EXCEPT ![c.args[1]] = IF c.fn = "write_register" THEN c.args[2]
                                  ELSE WithField(@, c.args[2], c.args[3], c.args[4])]

(* Stand-by: "HDMI TX Module is inactive" (API_HDMITX.c), and is not asked. *)
Asleep == {"DDC_READ", "DDC_WRITE", "DDC_UPDATE_READ", "READ_EDID", "ReadEvents"}

Send(c) ==
    /\ call = Idle
    /\ Len(to_fw) < MaxPosted
    /\ c.fn \in Asleep => active = 1 /\ to_fw = <<>>
    /\ to_fw' = Append(to_fw, Request(c))
    /\ shadow' = Written(c, shadow)
    /\ IF c.fn \in NoReply
       THEN call' = Idle /\ out' = [fn |-> c.fn, numbers |-> <<>>]
       ELSE call' = c /\ UNCHANGED out
    /\ UNCHANGED <<rxbuffer, rxi, buff, to_host, firmware, asked>>

(* The bytes go to rxbuffer + rxi, however many there are.                  *)
Store(msg) ==
    [i \in DOMAIN rxbuffer \union rxi .. rxi + Len(msg) - 1 |->
        IF i < rxi \/ i >= rxi + Len(msg) THEN rxbuffer[i] ELSE msg[i - rxi + 1]]

NextRxi(msg) == 0

Receive ==
    /\ call # Idle /\ to_host # <<>>
    /\ rxbuffer' = Store(Head(to_host)) /\ rxi' = NextRxi(Head(to_host))
    /\ to_host' = Tail(to_host)
    /\ buff' = NoBuff
    /\ UNCHANGED <<call, out, to_fw, firmware, asked, shadow>>

Cells(first, n) == [i \in 1 .. n |-> rxbuffer[first + i - 1]]
Received == call # Idle /\ to_fw = <<>> /\ to_host = <<>> /\ asked.fn = call.fn

HeadOk == rxbuffer[0] = Header[call.fn][1] /\ rxbuffer[1] = Header[call.fn][2]

(* The numbers found where the header begins.                               *)
ReadMsg_Header(sizes) == Numbers(Cells(0, Total(sizes)), sizes)

ReadMsg(sizes) == Numbers(Cells(HEAD, Total(sizes)), sizes)

(* The pointer handed out as soon as the status was read.                   *)
BuffAt_Status(sizes) == HEAD + 1
BuffAt(sizes) == HEAD + Total(sizes)

(* internal_readmsg() stores one byte of the four data_out->status has.     *)
Finish ==
    /\ Received
    /\ LET sizes == ReplySizes[call.fn]
           numbers == ReadMsg(sizes)
       IN IF HeadOk
          THEN /\ \E p \in Prior :
                     out' = [fn |-> call.fn,
                             numbers |-> IF call.fn \in HasStatus
                                         THEN [numbers EXCEPT ![1] = p * Radix + @] ELSE numbers]
               /\ buff' = IF call.fn \in HandsOutBuff
                          THEN [at |-> BuffAt(sizes), bytes |-> asked.data] ELSE NoBuff
          ELSE /\ out' = [fn |-> "CDN_BAD_OPCODE", numbers |-> <<>>]
               /\ UNCHANGED buff
    /\ call' = Idle
    /\ UNCHANGED <<rxbuffer, rxi, to_fw, to_host, firmware, asked, shadow>>

Driver == Receive \/ Finish

-----------------------------------------------------------------------------
(* The firmware and the sink.                                              *)

ACK == 0
NACK == 1
Slice(bytes, offset, len) == [i \in 1 .. len |-> bytes[offset + i - 1]]

(* The answer to a call: its numbers, the status first if it has one, and   *)
(* the data behind them.                                                   *)
AnswerNumbers(fn, a, words) ==
    LET answers == a[1] \in Slaves
    IN CASE fn \in {"test_echo", "maincontrol"} -> <<a[1]>>
         [] fn = "apbconf" -> <<(a[1] % 2) + 2 * ((a[1] \div 4) % 2) + 4 * ((a[1] \div 16) % 2)>>
         [] fn = "read_register" -> <<a[1], words[a[1]]>>
         [] fn = "phy_test_access" -> <<1>>
         [] fn = "GetHpdStatus" -> <<hpd>>
         [] fn = "ReadEvents" -> <<Radix * Radix * hpd + 1>>
         [] fn \in {"DDC_READ", "DDC_WRITE"} ->
              <<IF answers THEN ACK ELSE NACK, a[1], a[2], IF answers THEN a[3] ELSE 0>>
         [] fn = "DDC_UPDATE_READ" -> <<ACK>>
         [] fn = "READ_EDID" -> <<ACK, a[1], a[2], 2>>

AnswerData(fn, a) ==
    CASE fn = "DDC_READ" -> Slice(ddc, a[2], IF a[1] \in Slaves THEN a[3] ELSE 0)
      [] fn = "DDC_UPDATE_READ" -> Slice(ddc, 0, 2)
      [] fn = "READ_EDID" -> Slice(Edid, 2 * a[1], 2)
      [] OTHER -> <<>>

Answer(fn, a, words) ==
    [fn |-> fn, numbers |-> AnswerNumbers(fn, a, words), data |-> AnswerData(fn, a)]

Reply(ans) ==
    Message(Header[ans.fn], Layout(ans.numbers, ReplySizes[ans.fn]) \o ans.data)

(* What the firmware makes of a message.                                   *)
CallOf(msg) == CHOOSE fn \in Calls : Header[fn] = SubSeq(msg, 1, 2)
Rest(msg) == SubSeq(msg, HEAD + 1, Len(msg))
ArgsOf(msg) == Numbers(Rest(msg), RequestSizes[CallOf(msg)])
DataOf(msg) == SubSeq(Rest(msg), Total(RequestSizes[CallOf(msg)]) + 1, Len(Rest(msg)))

Execute ==
    /\ to_fw # <<>>
    /\ LET fn == CallOf(Head(to_fw))
           a == ArgsOf(Head(to_fw))
           data == DataOf(Head(to_fw))
       IN /\ Header[fn][2] = HDMI_TX => active = 1
          /\ regs' = IF fn \in NoReply /\ a[1] \in Registers
                     THEN Written([fn |-> fn, args |-> a], regs) ELSE regs
          /\ active' = IF fn = "maincontrol" THEN a[1] % 2 ELSE active
          /\ ddc' = IF fn = "DDC_WRITE" /\ a[1] \in Slaves
                    THEN [o \in DOMAIN ddc |-> IF o >= a[2] /\ o < a[2] + a[3]
                                               THEN data[o - a[2] + 1] ELSE ddc[o]]
                    ELSE ddc
          /\ IF fn \in NoReply THEN UNCHANGED <<to_host, asked>>
             ELSE /\ to_host' = Append(to_host, Reply(Answer(fn, a, regs)))
                  /\ asked' = Answer(call.fn, Sent(call), shadow)
    /\ to_fw' = Tail(to_fw)
    /\ UNCHANGED <<call, out, rxbuffer, rxi, buff, hpd, shadow>>

HotPlug ==
    /\ hpd' = 1 - hpd
    /\ UNCHANGED <<call, out, rxbuffer, rxi, buff, to_fw, to_host, regs, ddc, active,
                   asked, shadow>>

-----------------------------------------------------------------------------

(* What the calls are made with: the numbers of each call fit its message,  *)
(* a field lies within its register, data is as long as the call says it    *)
(* is, and what is read is there.                                          *)
Bytes == 0 .. Radix - 1
Words == 0 .. Weight[5] - 1

ArgsFit(c) ==
    /\ Fit(Sent(c), RequestSizes[c.fn])
    /\ c.fn = "read_register" => c.args[1] \in Registers
    /\ c.fn = "write_field" =>
          \A word \in Words : WithField(word, c.args[2], c.args[3], c.args[4]) \in Words
    /\ c.fn = "DDC_WRITE" => c.args[4] \in Seq(Bytes) /\ Len(c.args[4]) = c.args[3]
    /\ c.fn = "DDC_READ" /\ c.args[1] \in Slaves =>
          c.args[2] .. c.args[2] + c.args[3] - 1 \subseteq DOMAIN Edid
    /\ c.fn = "READ_EDID" => {2 * c.args[1], 2 * c.args[1] + 1} \subseteq DOMAIN Edid

ASSUME RadixAssumption ==
    Radix \in Nat /\ \A fn \in Calls : Header[fn][1] < Radix /\ Header[fn][2] < Radix
ASSUME BufferAssumption == BufferSize \in Nat /\ BufferSize > HEAD
ASSUME PriorAssumption == Prior \subseteq Nat
ASSUME EdidAssumption ==
    /\ {0, 1} \subseteq DOMAIN Edid /\ DOMAIN Edid \subseteq Nat
    /\ Edid \in [DOMAIN Edid -> Bytes]
ASSUME ArgsAssumption == \A fn \in Calls : \A args \in Args[fn] : ArgsFit([fn |-> fn, args |-> args])

Nobody == [fn |-> "none", numbers |-> <<>>, data |-> <<>>]

Init ==
    /\ call = Idle /\ out = [fn |-> "none", numbers |-> <<>>]
    /\ rxbuffer = [i \in 0 .. BufferSize - 1 |-> 0] /\ rxi = 0 /\ buff = NoBuff
    /\ to_fw = <<>> /\ to_host = <<>>
    /\ regs = [a \in Registers |-> 0] /\ shadow = regs
    /\ ddc = Edid /\ active = 0 /\ hpd = 0
    /\ asked = Nobody

Next ==
    \/ cdn_api_init
    \/ \E fn \in Calls : \E args \in Args[fn] : Send([fn |-> fn, args |-> args])
    \/ Driver \/ Execute \/ HotPlug

Spec == Init /\ [][Next]_vars

-----------------------------------------------------------------------------

(* Every call gives its caller the answer to what it asked: each number     *)
(* where the other side put it, in its width, for all of the layouts, and   *)
(* none of an earlier reply whose rest rxbuffer still holds.  A register is *)
(* read as the register and field writes before it left it, posted as they  *)
(* were, and no bit beside a field was touched.                            *)
Answered ==
    out.fn \notin NoReply \union {"none"} /\ call = Idle =>
        /\ out.fn = asked.fn /\ Len(out.numbers) = Len(asked.numbers)
        /\ \A k \in 1 .. Len(out.numbers) :
              asked.numbers[k] = IF k = 1 /\ out.fn \in HasStatus
                                 THEN out.numbers[k] % Radix ELSE out.numbers[k]

(* The data a reply handed out a pointer to stays there, through any number *)
(* of register writes and hot plugs, until the next reply comes in or       *)
(* cdn_api_init() is called: the caller need not copy it before.            *)
BuffKept ==
    buff # NoBuff => Cells(buff.at, Len(buff.bytes)) = buff.bytes

=============================================================================
