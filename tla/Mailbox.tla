-------------------------------- MODULE Mailbox --------------------------------
(***************************************************************************)
(* The mailbox between the driver and the firmware of the HDMI transmitter: *)
(* util.c and the calls of API_general.c the driver makes.  A call fills    *)
(* state.txbuffer and is then polled until its message has gone out, cell  *)
(* by cell, and its reply, if it has one, has come in.                     *)
(*                                                                         *)
(* Both directions are FIFOs of FifoDepth cells, fewer than a message has.  *)
(* A cell is a byte; numbers are sent big endian in Width cells of Radix    *)
(* values (4 and 256 in the code).  Writes are posted: the call returns     *)
(* when the last cell is in the FIFO, not when the firmware has acted on it.*)
(* mailbox_write() and mailbox_read() look at FULL or EMPTY and then move a *)
(* cell; only the driver fills the one and drains the other, so nothing can *)
(* come between that changes the outcome and each is one step here.         *)
(* cdn_apb_read() and cdn_apb_write() always return 0: there is no APB     *)
(* error to model.                                                         *)
(***************************************************************************)
EXTENDS Integers, Sequences

CONSTANTS
    Radix, Width,     \* how numbers are laid out in cells
    FifoDepth,        \* of either hardware FIFO
    BufferSize,       \* of txbuffer and rxbuffer (1024)
    Addr, Val,        \* register addresses and contents used
    Echoes            \* messages echoed (1 to 100 cells in the code)

INTERNAL_CMD_HEAD_SIZE == 4

ASSUME LayoutAssumption ==
    /\ Radix \in Nat /\ Radix > 1 /\ Width \in Nat \ {0}
    /\ Addr \union Val \subseteq 0 .. Radix ^ Width - 1
ASSUME FifoAssumption == FifoDepth \in Nat \ {0}
ASSUME BufferAssumption ==
    /\ BufferSize \in Nat /\ BufferSize >= INTERNAL_CMD_HEAD_SIZE + 2 * Width
    /\ \A msg \in Echoes : /\ msg \in Seq(0 .. 255)
                           /\ Len(msg) \in 1 .. BufferSize - INTERNAL_CMD_HEAD_SIZE

VARIABLES
    txbuffer, rxbuffer, txi, rxi, txenable, rxenable, running,  \* state_struct
    call,               \* the call being made, or NoCall
    response,           \* what the last one returned
    to_fw, to_host,     \* the FIFOs
    fw_in, fw_out,      \* the firmware: message being received, reply being sent
    fw_regs,            \* the registers behind it
    shadow              \* history: registers as of the last call that returned

driver == <<txbuffer, rxbuffer, txi, rxi, txenable, rxenable, running>>
fifos == <<to_fw, to_host>>
firmware == <<fw_in, fw_out, fw_regs>>
vars == <<driver, call, response, fifos, firmware, shadow>>

-----------------------------------------------------------------------------
(* Messages.                                                               *)

MB_MODULE_ID_GENERAL == 10
Opcode == [echo |-> 2, write |-> 5, read |-> 7]

NoCall == [op |-> "none", args |-> <<>>]
Calls == [op : {"echo"}, args : Echoes]
         \union {[op |-> "read", args |-> <<a>>] : a \in Addr}
         \union {[op |-> "write", args |-> <<a, v>>] : a \in Addr, v \in Val}

(* internal_itobe() storing in the host's own, little-endian, order.       *)
internal_itobe_Host(n) == [i \in 1 .. Width |-> (n \div Radix ^ (i - 1)) % Radix]

internal_itobe(n) == [i \in 1 .. Width |-> (n \div Radix ^ (Width - i)) % Radix]
internal_betoi(cells) ==
    LET n[i \in 0 .. Len(cells)] == IF i = 0 THEN 0 ELSE n[i - 1] * Radix + cells[i]
    IN n[Len(cells)]

(* internal_vmkmsg(): echoes are copied, numbers laid out one by one.      *)
Payload(c) ==
    CASE c.op = "echo" -> c.args
      [] c.op = "read" -> internal_itobe(c.args[1])
      [] c.op = "write" -> internal_itobe(c.args[1]) \o internal_itobe(c.args[2])

Message(opcode, payload) ==
    <<opcode, MB_MODULE_ID_GENERAL, Len(payload) \div Radix, Len(payload) % Radix>>
        \o payload

(* Where a message ends, from its header.                                  *)
MessageLength(buffer) == INTERNAL_CMD_HEAD_SIZE + buffer[2] * Radix + buffer[3]

Blank == [i \in 0 .. BufferSize - 1 |-> 0]
Fill(buffer, msg) == [i \in DOMAIN buffer |-> IF i < Len(msg) THEN msg[i + 1] ELSE buffer[i]]
Cells(buffer, first, n) == [i \in 1 .. n |-> buffer[first + i - 1]]

-----------------------------------------------------------------------------
(* The calls.  The *_blocking() functions call again while the result is    *)
(* CDN_BSY or CDN_STARTED; a turn that finds FULL or EMPTY changes nothing.  *)

CdnApiInit ==
    /\ call = NoCall
    /\ txbuffer' = Blank /\ rxbuffer' = Blank
    /\ txi' = 0 /\ rxi' = 0
    /\ txenable' = FALSE /\ rxenable' = FALSE /\ running' = FALSE
    /\ UNCHANGED <<call, response, fifos, firmware, shadow>>

MakeCall ==
    /\ call = NoCall
    /\ call' \in Calls
    /\ UNCHANGED <<driver, response, fifos, firmware, shadow>>

internal_apb_available == ~(rxenable \/ txenable)

(* internal_macro_command_txrx in place of internal_macro_command_tx.      *)
ReplyExpected_Always == TRUE
ReplyExpected == call.op # "write"

Start ==
    /\ call # NoCall
    /\ ~running /\ internal_apb_available
    /\ txbuffer' = Fill(txbuffer, Message(Opcode[call.op], Payload(call)))
    /\ txenable' = TRUE /\ running' = TRUE
    /\ rxenable' = ReplyExpected
    /\ UNCHANGED <<rxbuffer, txi, rxi, call, response, fifos, firmware, shadow>>

(* A message that is cut one cell short, and an index that is not reset.   *)
EndOfTx_Early == txi + 2 >= MessageLength(txbuffer)
EndOfTx == txi + 1 >= MessageLength(txbuffer)

NextTxi == IF EndOfTx THEN 0 ELSE txi + 1

internal_mbox_tx_process ==
    /\ call # NoCall
    /\ running /\ txenable
    /\ Len(to_fw) < FifoDepth
    /\ to_fw' = Append(to_fw, txbuffer[txi])
    /\ txi' = NextTxi
    /\ txenable' = ~EndOfTx
    /\ UNCHANGED <<txbuffer, rxbuffer, rxi, rxenable, running, call, response,
                   to_host, firmware, shadow>>

(* Counting the payload without its last cell.                             *)
EndOfRx_Early(buffer) == rxi + 2 >= MessageLength(buffer)
EndOfRx(buffer) == rxi + 1 >= MessageLength(buffer)

internal_mbox_rx_process ==
    /\ call # NoCall
    /\ running /\ ~txenable /\ rxenable
    /\ to_host # <<>>
    /\ to_host' = Tail(to_host)
    /\ rxbuffer' = [rxbuffer EXCEPT ![rxi] = Head(to_host)]
    /\ rxi' = IF EndOfRx(rxbuffer') THEN 0 ELSE rxi + 1
    /\ rxenable' = ~EndOfRx(rxbuffer')
    /\ UNCHANGED <<txbuffer, txi, txenable, running, call, response,
                   to_fw, firmware, shadow>>

internal_test_rx_head(opcode) ==
    IF rxbuffer[0] # opcode THEN "CDN_BAD_OPCODE"
    ELSE IF rxbuffer[1] # MB_MODULE_ID_GENERAL THEN "CDN_BAD_MODULE"
    ELSE "CDN_OK"

(* internal_readmsg(): two numbers, or the cells of an echo.               *)
ReadMsg ==
    IF call.op = "read"
    THEN [i \in 1 .. 2 |-> internal_betoi(
             Cells(rxbuffer, INTERNAL_CMD_HEAD_SIZE + (i - 1) * Width, Width))]
    ELSE Cells(rxbuffer, INTERNAL_CMD_HEAD_SIZE, Len(call.args))

Response ==
    LET head == internal_test_rx_head(Opcode[call.op])
    IN CASE call.op = "write" -> [status |-> "CDN_OK", value |-> <<>>]
         [] call.op # "write" /\ head # "CDN_OK" -> [status |-> head, value |-> <<>>]
         [] call.op = "echo" /\ head = "CDN_OK" /\ ReadMsg # call.args ->
                [status |-> "CDN_ERR", value |-> <<>>]
         [] OTHER -> [status |-> "CDN_OK", value |-> ReadMsg]

Finish ==
    /\ call # NoCall
    /\ running /\ ~txenable /\ ~rxenable
    /\ running' = FALSE
    /\ response' = Response
    /\ shadow' = IF call.op = "write" THEN [shadow EXCEPT ![call.args[1]] = call.args[2]]
                 ELSE shadow
    /\ call' = NoCall
    /\ UNCHANGED <<txbuffer, rxbuffer, txi, rxi, txenable, rxenable, fifos, firmware>>

(* The driver while a call is being made.                                  *)
Driver == Start \/ internal_mbox_tx_process \/ internal_mbox_rx_process \/ Finish

-----------------------------------------------------------------------------
(* The firmware: receives a whole message, acts on it, sends the reply.     *)

Received == /\ Len(fw_in) >= INTERNAL_CMD_HEAD_SIZE
            /\ Len(fw_in) >= MessageLength([i \in 0 .. Len(fw_in) - 1 |-> fw_in[i + 1]])

FwReceive ==
    /\ ~Received /\ fw_out = <<>> /\ to_fw # <<>>
    /\ fw_in' = Append(fw_in, Head(to_fw))
    /\ to_fw' = Tail(to_fw)
    /\ UNCHANGED <<driver, call, response, to_host, fw_out, fw_regs, shadow>>

FwNumber(n) == [i \in 1 .. Width |-> (n \div Radix ^ (Width - i)) % Radix]
Arg(i) == internal_betoi(SubSeq(fw_in, INTERNAL_CMD_HEAD_SIZE + (i - 1) * Width + 1,
                                       INTERNAL_CMD_HEAD_SIZE + i * Width))

FwExecute ==
    /\ Received
    /\ fw_in' = <<>>
    /\ \/ /\ fw_in[1] = Opcode.echo
          /\ fw_out' = fw_in
          /\ UNCHANGED fw_regs
       \/ /\ fw_in[1] = Opcode.read /\ Arg(1) \in Addr
          /\ fw_out' = Message(Opcode.read, FwNumber(Arg(1)) \o FwNumber(fw_regs[Arg(1)]))
          /\ UNCHANGED fw_regs
       \/ /\ fw_in[1] = Opcode.write
          /\ fw_regs' = [a \in Addr |-> IF a = Arg(1) THEN Arg(2) ELSE fw_regs[a]]
          /\ UNCHANGED fw_out
    /\ UNCHANGED <<driver, call, response, fifos, shadow>>

FwReply ==
    /\ fw_out # <<>> /\ Len(to_host) < FifoDepth
    /\ to_host' = Append(to_host, Head(fw_out))
    /\ fw_out' = Tail(fw_out)
    /\ UNCHANGED <<driver, call, response, to_fw, fw_in, fw_regs, shadow>>

Firmware == FwReceive \/ FwExecute \/ FwReply

-----------------------------------------------------------------------------

Init ==
    /\ txbuffer = Blank /\ rxbuffer = Blank /\ txi = 0 /\ rxi = 0
    /\ txenable = FALSE /\ rxenable = FALSE /\ running = FALSE
    /\ call = NoCall /\ response = [status |-> "CDN_OK", value |-> <<>>]
    /\ to_fw = <<>> /\ to_host = <<>> /\ fw_in = <<>> /\ fw_out = <<>>
    /\ fw_regs \in [Addr -> Val] /\ shadow = fw_regs

Next == CdnApiInit \/ MakeCall \/ Driver \/ Firmware

Spec == Init /\ [][Next]_vars

(* A polled call gets its turns, and so does the firmware.                 *)
FairSpec == Spec /\ WF_vars(Driver) /\ WF_vars(Firmware)

-----------------------------------------------------------------------------
Byte == 0 .. 255
Index == 0 .. BufferSize - 1

(* Between calls the driver's state is at rest and no cell of a reply is    *)
(* left for the next call to take for its own: the next one starts at once, *)
(* even after cdn_api_init() has been called again on a mailbox that still  *)
(* holds posted writes.                                                    *)
QuietBetweenCalls ==
    call = NoCall =>
        /\ ~running /\ internal_apb_available
        /\ txi = 0 /\ rxi = 0
        /\ to_host = <<>> /\ fw_out = <<>>

(* The calls implement RegisterService: every read returns what was last    *)
(* written, although writes are posted, every echo returns its message, and *)
(* no call fails.                                                          *)
Service == INSTANCE RegisterService WITH regs <- shadow
ImplementsService == Service!Spec

(* Every call returns.                                                     *)
CallEnds == call # NoCall ~> call = NoCall

(* Every posted write reaches its register, unless a later one replaces it. *)
WritesLand ==
    \A a \in Addr, v \in Val : shadow[a] = v ~> fw_regs[a] = v \/ shadow[a] # v

=============================================================================
