------------------------------ MODULE MailboxProofs ------------------------------
(***************************************************************************)
(* The calls through the mailbox implement RegisterService, and leave       *)
(* nothing behind for the next call, whatever the depth of the FIFOs, the   *)
(* size of the buffers and the registers, values and messages in use.       *)
(*                                                                         *)
(* The cells on their way to the firmware are the messages of any number of *)
(* posted writes, and of the call being made, one after the other.  The     *)
(* invariant says where each begins, cell by cell and without a recursive   *)
(* definition.                                                             *)
(***************************************************************************)
EXTENDS Mailbox, SequenceTheorems, TLAPS

(* The mailbox carries numbers: what internal_itobe() laid out,             *)
(* internal_betoi() reads back.                                            *)
NumbersReadBack ==
    \A n \in Addr \union Val : internal_betoi(internal_itobe(n)) = n

-----------------------------------------------------------------------------
(* Messages and replies.                                                   *)

MessageOf(c) == Message(Opcode[c.op], Payload(c))

ReadReply(a, v) == Message(Opcode.read, internal_itobe(a) \o internal_itobe(v))

(* What the call being made is waiting for.                                *)
Reply == IF call.op = "read" THEN ReadReply(call.args[1], shadow[call.args[1]])
         ELSE MessageOf(call)

Messages == {MessageOf(c) : c \in Calls} \union {ReadReply(a, v) : a \in Addr, v \in Val}
Cell == {0} \union UNION {{msg[i] : i \in DOMAIN msg} : msg \in Messages}

WritesTo(c, a) == c.op = "write" /\ c.args[1] = a

(* The cells on their way to the firmware, those it has of an unfinished    *)
(* message and those not yet out of txbuffer included.                     *)
Unsent == IF txenable THEN Len(MessageOf(call)) - txi ELSE 0
StreamLen == Len(fw_in) + Len(to_fw) + Unsent
StreamCell(i) ==
    IF i <= Len(fw_in) THEN fw_in[i]
    ELSE IF i <= Len(fw_in) + Len(to_fw) THEN to_fw[i - Len(fw_in)]
    ELSE txbuffer[txi + i - Len(fw_in) - Len(to_fw) - 1]

(* ... and of the reply, those already in rxbuffer included.                *)
ReplyLen == rxi + Len(to_host) + Len(fw_out)
ReplyCell(i) ==
    IF i <= rxi THEN rxbuffer[i - 1]
    ELSE IF i <= rxi + Len(to_host) THEN to_host[i - rxi]
    ELSE fw_out[i - rxi - Len(to_host)]

-----------------------------------------------------------------------------
(* The inductive invariant.                                                *)

TypeOK ==
    /\ txbuffer \in [Index -> Cell] /\ rxbuffer \in [Index -> Cell]
    /\ txi \in Nat /\ rxi \in Nat
    /\ txenable \in BOOLEAN /\ rxenable \in BOOLEAN /\ running \in BOOLEAN
    /\ call \in Calls \union {NoCall}
    /\ to_fw \in Seq(Cell) /\ to_host \in Seq(Cell)
    /\ fw_in \in Seq(Cell) /\ fw_out \in Seq(Cell)
    /\ fw_regs \in [Addr -> Val] /\ shadow \in [Addr -> Val]

(* The flags and the index of the driver, and its copy of the message.      *)
CallHolds ==
    /\ call = NoCall => ~running
    /\ ~running => ~txenable /\ ~rxenable
    /\ running /\ call.op = "write" => ~rxenable
    /\ IF txenable
       THEN /\ txi < Len(MessageOf(call))
            /\ \A i \in 1 .. Len(MessageOf(call)) : txbuffer[i - 1] = MessageOf(call)[i]
       ELSE txi = 0

(* at[c] is the call whose message begins behind the first c cells.         *)
Posted(at) ==
    /\ at = [c \in DOMAIN at |-> at[c]] /\ DOMAIN at \subseteq Nat
    /\ StreamLen > 0 => 0 \in DOMAIN at /\ Len(fw_in) <= Len(MessageOf(at[0]))
    /\ \A c \in DOMAIN at :
          LET end == c + Len(MessageOf(at[c]))
          IN /\ at[c] \in Calls
             /\ end <= StreamLen /\ end \in DOMAIN at \union {StreamLen}
             /\ \A d \in DOMAIN at : d > c => d >= end
             /\ \A i \in 1 .. Len(MessageOf(at[c])) : StreamCell(c + i) = MessageOf(at[c])[i]

(* Only the last message may want a reply, and the call waits for it.       *)
OneAwaited(at) ==
    /\ \A c \in DOMAIN at : at[c].op # "write" =>
          running /\ at[c] = call /\ c + Len(MessageOf(at[c])) = StreamLen
    /\ running /\ call.op # "write" /\ StreamLen > 0 => \E c \in DOMAIN at : at[c] = call

(* The registers as they will be when everything posted has been executed.  *)
Goal == IF running /\ call.op = "write"
        THEN [shadow EXCEPT ![call.args[1]] = call.args[2]] ELSE shadow

(* Each holds its goal already, or the last write posted to it brings it.    *)
RegistersFollow(at) ==
    \A a \in Addr :
        \/ \E c \in DOMAIN at :
              /\ WritesTo(at[c], a) /\ at[c].args[2] = Goal[a]
              /\ \A d \in DOMAIN at : d > c => ~WritesTo(at[d], a)
        \/ /\ fw_regs[a] = Goal[a]
           /\ \A c \in DOMAIN at : ~WritesTo(at[c], a)

Stream(at) == Posted(at) /\ OneAwaited(at) /\ RegistersFollow(at)

Answering == running /\ call.op # "write" /\ StreamLen = 0

ReplyHolds ==
    IF Answering /\ rxenable
    THEN /\ ReplyLen = Len(Reply) /\ rxi < Len(Reply)
         /\ \A i \in 1 .. Len(Reply) : ReplyCell(i) = Reply[i]
    ELSE /\ rxi = 0 /\ to_host = <<>> /\ fw_out = <<>>
         /\ running /\ call.op # "write" =>
               \/ rxenable
               \/ /\ StreamLen = 0
                  /\ \A i \in 1 .. Len(Reply) : rxbuffer[i - 1] = Reply[i]

(* What rxbuffer holds where a header has its length, from whatever reply.   *)
OldHeader == rxbuffer[2] \in Nat /\ rxbuffer[3] \in Nat

MailboxInv ==
    /\ TypeOK /\ CallHolds /\ ReplyHolds /\ OldHeader
    /\ \E at : Stream(at)

-----------------------------------------------------------------------------
(* The shapes of messages.                                                 *)

LEMMA Sizes ==
  /\ Radix \in Nat /\ Radix > 1 /\ Width \in Nat \ {0} /\ BufferSize \in Nat
  /\ INTERNAL_CMD_HEAD_SIZE = 4 /\ BufferSize >= 4 + 2 * Width /\ FifoDepth \in Nat \ {0}
  BY LayoutAssumption, BufferAssumption, FifoAssumption DEF INTERNAL_CMD_HEAD_SIZE

LEMMA FunctionIsSeq ==
  ASSUME NEW n \in Nat, NEW S, NEW f \in [1 .. n -> S]
  PROVE  f \in Seq(S) /\ Len(f) = n
  <1>1. f \in Seq(S) BY SeqDef
  <1>2. DOMAIN f = 1 .. n /\ DOMAIN f = 1 .. Len(f) /\ Len(f) \in Nat BY <1>1, LenProperties
  <1> QED BY <1>1, <1>2

LEMMA NumberIsSeq ==
  ASSUME NEW n
  PROVE  /\ internal_itobe(n) \in Seq({internal_itobe(n)[i] : i \in 1 .. Width})
         /\ Len(internal_itobe(n)) = Width
         /\ internal_itobe(n) = [i \in 1 .. Width |-> internal_itobe(n)[i]]
  <1> DEFINE f == internal_itobe(n)
  <1>1. f = [i \in 1 .. Width |-> f[i]] BY DEF internal_itobe
  <1> HIDE DEF f
  <1>2. f \in [1 .. Width -> {f[i] : i \in 1 .. Width}] BY <1>1
  <1>3. f \in Seq({f[i] : i \in 1 .. Width}) /\ Len(f) = Width BY <1>2, Sizes, FunctionIsSeq
  <1> QED BY <1>1, <1>3 DEF f

(* What the operators \div and % return.                                   *)
LEMMA DivMod ==
  ASSUME NEW m \in Nat \ {0}, NEW n \in Int
  PROVE  n \div m \in Int /\ n % m \in 0 .. m - 1 /\ n = m * (n \div m) + (n % m)
  OBVIOUS

LEMMA LengthInTwo ==
  ASSUME NEW n \in Nat
  PROVE  n \div Radix \in Nat /\ n % Radix \in Nat /\ (n \div Radix) * Radix + (n % Radix) = n
  <1> DEFINE hi == n \div Radix
             lo == n % Radix
  <1>0. Radix \in Nat \ {0} /\ n \in Int BY Sizes
  <1>1. hi \in Int /\ lo \in 0 .. Radix - 1 /\ n = Radix * hi + lo BY <1>0, DivMod
  <1> HIDE DEF hi, lo
  <1>2. hi >= 0
    <2>1. CASE hi < 0
      <3>1. Radix * hi <= -Radix BY <1>1, <2>1, Sizes
      <3> QED BY <1>1, <3>1, Sizes
    <2> QED BY <1>1, <2>1
  <1>3. Radix * hi = hi * Radix BY <1>1, Sizes
  <1> QED BY <1>1, <1>2, <1>3 DEF hi, lo

(* A header tells the length of its message.                               *)
LEMMA MessageShape ==
  ASSUME NEW op, NEW S, NEW p \in Seq(S)
  PROVE  /\ Message(op, p) = [i \in 1 .. 4 + Len(p) |-> Message(op, p)[i]]
         /\ Message(op, p)[1] = op
         /\ Message(op, p)[2] = MB_MODULE_ID_GENERAL
         /\ Message(op, p)[3] \in Nat /\ Message(op, p)[4] \in Nat
         /\ 4 + Message(op, p)[3] * Radix + Message(op, p)[4] = 4 + Len(p)
         /\ \A i \in 1 .. Len(p) : Message(op, p)[4 + i] = p[i]
  <1> DEFINE hi == Len(p) \div Radix
             lo == Len(p) % Radix
             T == S \union {op, MB_MODULE_ID_GENERAL, hi, lo}
             head == <<op, MB_MODULE_ID_GENERAL, hi, lo>>
             m == head \o p
  <1>1. m = Message(op, p) BY DEF Message
  <1>2. Len(p) \in Nat BY LenProperties
  <1>3. hi \in Nat /\ lo \in Nat /\ hi * Radix + lo = Len(p) BY <1>2, LengthInTwo
  <1> HIDE DEF hi, lo
  <1>4. head \in Seq(T) /\ Len(head) = 4 OBVIOUS
  <1>5. p \in Seq(T)
    <2>1. S \subseteq T OBVIOUS
    <2> HIDE DEF T
    <2> QED BY <2>1, SeqMonotonic
  <1> HIDE DEF T
  <1>6. /\ m \in Seq(T) /\ Len(m) = 4 + Len(p)
        /\ \A i \in 1 .. 4 + Len(p) : m[i] = IF i <= 4 THEN head[i] ELSE p[i - 4]
    <2> HIDE DEF head
    <2>1. /\ head \o p \in Seq(T) /\ Len(head \o p) = Len(head) + Len(p)
          /\ \A i \in 1 .. Len(head) + Len(p) :
                (head \o p)[i] = IF i <= Len(head) THEN head[i] ELSE p[i - Len(head)]
      BY <1>4, <1>5, ConcatProperties
    <2> QED BY <1>4, <2>1
  <1>7. m = [i \in 1 .. 4 + Len(p) |-> m[i]] BY <1>6, LenProperties
  <1>8. \A i \in 1 .. Len(p) : m[4 + i] = p[i] BY <1>2, <1>6
  <1>9. m[1] = op /\ m[2] = MB_MODULE_ID_GENERAL /\ m[3] = hi /\ m[4] = lo BY <1>2, <1>6
  <1> HIDE DEF m
  <1>10. 4 + m[3] * Radix + m[4] = 4 + Len(p)
    <2>1. m[3] * Radix = hi * Radix BY <1>9
    <2>2. hi * Radix \in Nat BY <1>3, Sizes
    <2> QED BY <1>2, <1>3, <1>9, <2>1, <2>2
  <1> QED BY <1>1, <1>3, <1>7, <1>8, <1>9, <1>10

LEMMA CallShapes ==
  ASSUME NEW c \in Calls
  PROVE  \/ c.op = "echo" /\ c.args \in Echoes
         \/ c.op = "read" /\ \E a \in Addr : c.args = <<a>>
         \/ c.op = "write" /\ \E a \in Addr, v \in Val : c.args = <<a, v>>
  BY DEF Calls

LEMMA Payloads ==
  ASSUME NEW c \in Calls
  PROVE  /\ c.op = "echo" => Payload(c) = c.args
         /\ c.op = "read" => Payload(c) = internal_itobe(c.args[1])
         /\ c.op = "write" => Payload(c) = internal_itobe(c.args[1]) \o internal_itobe(c.args[2])
  BY DEF Payload

(* Two numbers, one after the other.                                       *)
LEMMA TwoNumbers ==
  ASSUME NEW a, NEW v
  PROVE  LET p == internal_itobe(a) \o internal_itobe(v)
         IN /\ \E S : p \in Seq(S)
            /\ Len(p) = 2 * Width
            /\ \A i \in 1 .. Width : p[i] = internal_itobe(a)[i]
            /\ \A i \in 1 .. Width : p[Width + i] = internal_itobe(v)[i]
  <1> DEFINE s == internal_itobe(a)
             t == internal_itobe(v)
             S == {s[i] : i \in 1 .. Width} \union {t[i] : i \in 1 .. Width}
  <1>1. s \in Seq({s[i] : i \in 1 .. Width}) /\ Len(s) = Width BY NumberIsSeq
  <1>2. t \in Seq({t[i] : i \in 1 .. Width}) /\ Len(t) = Width BY NumberIsSeq
  <1> HIDE DEF s, t
  <1>3. s \in Seq(S) BY <1>1, SeqMonotonic
  <1>4. t \in Seq(S) BY <1>2, SeqMonotonic
  <1> HIDE DEF S
  <1>5. /\ s \o t \in Seq(S) /\ Len(s \o t) = Len(s) + Len(t)
        /\ \A i \in 1 .. Len(s) + Len(t) : (s \o t)[i] =
              IF i <= Len(s) THEN s[i] ELSE t[i - Len(s)]
    BY <1>3, <1>4, ConcatProperties
  <1>6. Len(s \o t) = 2 * Width BY <1>1, <1>2, <1>5, Sizes
  <1>7. \A i \in 1 .. Width : (s \o t)[i] = s[i] BY <1>1, <1>2, <1>5, Sizes
  <1>8. \A i \in 1 .. Width : (s \o t)[Width + i] = t[i]
    <2> TAKE i \in 1 .. Width
    <2> DEFINE k == Width + i
    <2>1. k \in 1 .. Len(s) + Len(t) /\ ~(k <= Len(s)) /\ k - Len(s) = i
      BY <1>1, <1>2, Sizes
    <2> HIDE DEF k
    <2>2. (s \o t)[k] = t[i] BY <1>5, <2>1
    <2> QED BY <2>2 DEF k
  <1>9. \E R : s \o t \in Seq(R) BY <1>5
  <1> QED BY <1>6, <1>7, <1>8, <1>9 DEF s, t

LEMMA PayloadIsSeq ==
  ASSUME NEW c \in Calls
  PROVE  /\ \E S : Payload(c) \in Seq(S)
         /\ Len(Payload(c)) \in 1 .. BufferSize - 4
         /\ c.op = "echo" => Len(Payload(c)) = Len(c.args)
         /\ c.op = "read" => Len(Payload(c)) = Width
         /\ c.op = "write" => Len(Payload(c)) = 2 * Width
  <1>1. CASE c.op = "echo" /\ c.args \in Echoes
    <2>1. c.args \in Seq(0 .. 255) /\ Len(c.args) \in 1 .. BufferSize - 4
      BY <1>1, Sizes, BufferAssumption
    <2> QED BY <1>1, <2>1, Payloads
  <1>2. CASE c.op = "read"
    <2>1. Payload(c) = internal_itobe(c.args[1]) BY <1>2, Payloads
    <2>2. /\ \E S : internal_itobe(c.args[1]) \in Seq(S)
          /\ Len(internal_itobe(c.args[1])) = Width
      BY NumberIsSeq
    <2> QED BY <1>2, <2>1, <2>2, Sizes
  <1>3. CASE c.op = "write"
    <2>1. Payload(c) = internal_itobe(c.args[1]) \o internal_itobe(c.args[2])
      BY <1>3, Payloads
    <2>2. /\ \E S : Payload(c) \in Seq(S)
          /\ Len(Payload(c)) = 2 * Width
      BY <2>1, TwoNumbers
    <2> QED BY <1>3, <2>2, Sizes
  <1> QED BY <1>1, <1>2, <1>3, CallShapes

IsMessage(m) ==
    /\ m \in Seq(Cell) /\ Len(m) \in 5 .. BufferSize
    /\ m[2] = MB_MODULE_ID_GENERAL
    /\ m[3] \in Nat /\ m[4] \in Nat /\ 4 + m[3] * Radix + m[4] = Len(m)

LEMMA MessageFacts ==
  ASSUME NEW m \in Messages
  PROVE  IsMessage(m)
  <1>1. \E op, p, S : m = Message(op, p) /\ p \in Seq(S) /\ Len(p) \in 1 .. BufferSize - 4
    <2>1. CASE \E c \in Calls : m = MessageOf(c)
      <3>1. PICK c \in Calls : m = MessageOf(c) BY <2>1
      <3>2. PICK S : Payload(c) \in Seq(S) BY PayloadIsSeq
      <3>3. Len(Payload(c)) \in 1 .. BufferSize - 4 BY PayloadIsSeq
      <3> QED BY <3>1, <3>2, <3>3 DEF MessageOf
    <2>2. CASE \E a \in Addr, v \in Val : m = ReadReply(a, v)
      <3>1. PICK a \in Addr, v \in Val : m = ReadReply(a, v) BY <2>2
      <3> DEFINE p == internal_itobe(a) \o internal_itobe(v)
      <3>2. PICK S : p \in Seq(S) BY TwoNumbers
      <3>3. Len(p) = 2 * Width BY TwoNumbers
      <3>4. Len(p) \in 1 .. BufferSize - 4 BY <3>3, Sizes
      <3> QED BY <3>1, <3>2, <3>4 DEF ReadReply
    <2> QED BY <2>1, <2>2 DEF Messages
  <1>2. PICK op, p, S : m = Message(op, p) /\ p \in Seq(S) /\ Len(p) \in 1 .. BufferSize - 4
    BY <1>1
  <1>3. /\ m = [i \in 1 .. 4 + Len(p) |-> m[i]]
        /\ m[2] = MB_MODULE_ID_GENERAL
        /\ m[3] \in Nat /\ m[4] \in Nat /\ 4 + m[3] * Radix + m[4] = 4 + Len(p)
    BY <1>2, MessageShape
  <1>4. m \in [1 .. 4 + Len(p) -> Cell]
    <2>1. \A i \in 1 .. 4 + Len(p) : m[i] \in Cell BY <1>3 DEF Cell
    <2> QED BY <1>3, <2>1
  <1>5. 4 + Len(p) \in 5 .. BufferSize BY <1>2, Sizes
  <1>6. m \in Seq(Cell) /\ Len(m) = 4 + Len(p) BY <1>4, <1>5, FunctionIsSeq
  <1> QED BY <1>3, <1>5, <1>6 DEF IsMessage

LEMMA MessageOfFacts ==
  ASSUME NEW c \in Calls
  PROVE  /\ MessageOf(c) \in Messages /\ IsMessage(MessageOf(c))
         /\ MessageOf(c)[1] = Opcode[c.op]
         /\ Len(MessageOf(c)) = 4 + Len(Payload(c))
         /\ \A i \in 1 .. Len(Payload(c)) : MessageOf(c)[4 + i] = Payload(c)[i]
  <1>1. MessageOf(c) \in Messages BY DEF Messages
  <1>2. IsMessage(MessageOf(c)) BY <1>1, MessageFacts
  <1>3. PICK S : Payload(c) \in Seq(S) BY PayloadIsSeq
  <1>4. Len(Payload(c)) \in Nat BY PayloadIsSeq
  <1>5. /\ MessageOf(c)[1] = Opcode[c.op]
        /\ MessageOf(c)[3] \in Nat /\ MessageOf(c)[4] \in Nat
        /\ 4 + MessageOf(c)[3] * Radix + MessageOf(c)[4] = 4 + Len(Payload(c))
        /\ \A i \in 1 .. Len(Payload(c)) : MessageOf(c)[4 + i] = Payload(c)[i]
    BY <1>3, MessageShape DEF MessageOf
  <1>6. Len(MessageOf(c)) = 4 + Len(Payload(c)) BY <1>2, <1>5 DEF IsMessage
  <1> QED BY <1>1, <1>2, <1>5, <1>6

LEMMA ReadReplyFacts ==
  ASSUME NEW a \in Addr, NEW v \in Val
  PROVE  /\ ReadReply(a, v) \in Messages /\ IsMessage(ReadReply(a, v))
         /\ ReadReply(a, v)[1] = Opcode.read
         /\ Len(ReadReply(a, v)) = 4 + 2 * Width
         /\ \A i \in 1 .. Width : ReadReply(a, v)[4 + i] = internal_itobe(a)[i]
         /\ \A i \in 1 .. Width : ReadReply(a, v)[4 + Width + i] = internal_itobe(v)[i]
  <1> DEFINE p == internal_itobe(a) \o internal_itobe(v)
             m == ReadReply(a, v)
  <1>1. m \in Messages BY DEF Messages
  <1>2. IsMessage(m) BY <1>1, MessageFacts
  <1>3. /\ Len(p) = 2 * Width
        /\ \A i \in 1 .. Width : p[i] = internal_itobe(a)[i]
        /\ \A i \in 1 .. Width : p[Width + i] = internal_itobe(v)[i]
    BY TwoNumbers, ZenonT(60)
  <1>4. PICK S : p \in Seq(S) BY TwoNumbers
  <1>5. m = Message(Opcode.read, p) BY DEF ReadReply
  <1> HIDE DEF p, m
  <1>6. /\ m[1] = Opcode.read
        /\ m[3] \in Nat /\ m[4] \in Nat
        /\ 4 + m[3] * Radix + m[4] = 4 + Len(p)
        /\ \A i \in 1 .. Len(p) : m[4 + i] = p[i]
    BY <1>4, <1>5, MessageShape
  <1>7. Len(m) = 4 + 2 * Width BY <1>2, <1>3, <1>6 DEF IsMessage
  <1>8. \A i \in 1 .. Width : m[4 + i] = internal_itobe(a)[i] BY <1>3, <1>6, Sizes, SMTT(30)
  <1>9. \A i \in 1 .. Width : m[4 + Width + i] = internal_itobe(v)[i]
    <2> TAKE i \in 1 .. Width
    <2>1. Width + i \in 1 .. Len(p) /\ 4 + (Width + i) = 4 + Width + i BY <1>3, Sizes
    <2> QED BY <1>3, <1>6, <2>1
  <1> QED BY <1>1, <1>2, <1>6, <1>7, <1>8, <1>9 DEF m

-----------------------------------------------------------------------------
(* The two streams of cells.                                               *)

(* The lengths of messages, typed.                                         *)
LEMMA PostedFacts ==
  ASSUME TypeOK, NEW at, Posted(at), NEW c \in DOMAIN at
  PROVE  /\ c \in Nat /\ at[c] \in Calls /\ IsMessage(MessageOf(at[c]))
         /\ Len(MessageOf(at[c])) \in 5 .. BufferSize
         /\ c + Len(MessageOf(at[c])) <= StreamLen
  <1>1. c \in Nat /\ at[c] \in Calls /\ c + Len(MessageOf(at[c])) <= StreamLen BY DEF Posted
  <1>2. IsMessage(MessageOf(at[c])) BY <1>1, MessageOfFacts
  <1> QED BY <1>1, <1>2 DEF IsMessage

LEMMA CallFacts ==
  ASSUME TypeOK, CallHolds, running
  PROVE  /\ call \in Calls /\ call # NoCall /\ IsMessage(MessageOf(call))
         /\ Len(MessageOf(call)) \in 5 .. BufferSize
  <1>1. call \in Calls /\ call # NoCall BY DEF TypeOK, CallHolds
  <1>2. IsMessage(MessageOf(call)) BY <1>1, MessageOfFacts
  <1> QED BY <1>1, <1>2 DEF IsMessage

LEMMA StreamTypes ==
  ASSUME TypeOK, CallHolds
  PROVE  /\ Len(fw_in) \in Nat /\ Len(to_fw) \in Nat /\ Unsent \in Nat /\ StreamLen \in Nat
         /\ Len(to_host) \in Nat /\ Len(fw_out) \in Nat /\ txi \in Nat /\ rxi \in Nat
  <1>1. /\ Len(fw_in) \in Nat /\ Len(to_fw) \in Nat /\ txi \in Nat /\ rxi \in Nat
        /\ Len(to_host) \in Nat /\ Len(fw_out) \in Nat
    BY LenProperties DEF TypeOK
  <1>2. Unsent \in Nat
    <2>1. CASE txenable
      <3>1. running BY <2>1 DEF CallHolds, TypeOK
      <3>2. Len(MessageOf(call)) \in Nat /\ txi < Len(MessageOf(call))
        BY <2>1, <3>1, CallFacts DEF CallHolds
      <3> QED BY <1>1, <2>1, <3>2 DEF Unsent
    <2>2. CASE ~txenable BY <2>2 DEF Unsent
    <2> QED BY <2>1, <2>2 DEF TypeOK
  <1> QED BY <1>1, <1>2 DEF StreamLen

(* Moving a cell on leaves the stream what it was.                         *)
LEMMA StreamKept ==
  ASSUME TypeOK, CallHolds, NEW at, Stream(at), StreamLen' = StreamLen,
         \A i \in 1 .. StreamLen : StreamCell(i)' = StreamCell(i),
         UNCHANGED <<running, call, shadow, fw_regs>>,
         StreamLen > 0 => Len(fw_in)' <= Len(MessageOf(at[0]))
  PROVE  Stream(at)'
  <1>1. Posted(at)'
    <2>1. ASSUME NEW c \in DOMAIN at, NEW i \in 1 .. Len(MessageOf(at[c]))
          PROVE  StreamCell(c + i)' = MessageOf(at[c])[i]
      <3>1. c + i \in 1 .. StreamLen
        <4>1. /\ c \in Nat /\ Len(MessageOf(at[c])) \in Nat
              /\ c + Len(MessageOf(at[c])) <= StreamLen
          BY PostedFacts DEF Stream
        <4>2. StreamLen \in Nat BY StreamTypes
        <4> QED BY <4>1, <4>2
      <3> QED BY <3>1 DEF Stream, Posted
    <2> QED BY <2>1 DEF Stream, Posted
  <1>2. OneAwaited(at)' BY DEF Stream, OneAwaited
  <1>3. Goal' = Goal BY DEF Goal
  <1>4. RegistersFollow(at)' BY <1>3 DEF Stream, RegistersFollow
  <1> QED BY <1>1, <1>2, <1>4 DEF Stream

(* The firmware has a prefix of the first message, and sees its end.        *)
LEMMA FirstMessage ==
  ASSUME TypeOK, CallHolds, NEW at, Posted(at), StreamLen > 0
  PROVE  /\ 0 \in DOMAIN at
         /\ \A i \in 1 .. Len(fw_in) : fw_in[i] = MessageOf(at[0])[i]
         /\ Received <=> Len(fw_in) = Len(MessageOf(at[0]))
  <1> DEFINE m == MessageOf(at[0])
  <1>1. 0 \in DOMAIN at /\ Len(fw_in) <= Len(m) BY DEF Posted
  <1>2. IsMessage(m) /\ Len(m) \in 5 .. BufferSize BY <1>1, PostedFacts
  <1>3. Len(fw_in) \in Nat BY StreamTypes
  <1>4. \A i \in 1 .. Len(m) : StreamCell(0 + i) = m[i] BY <1>1 DEF Posted
  <1> HIDE DEF m
  <1>5. \A i \in 1 .. Len(fw_in) : fw_in[i] = m[i]
    <2> TAKE i \in 1 .. Len(fw_in)
    <2>1. i \in 1 .. Len(m) /\ 0 + i = i BY <1>1, <1>2, <1>3
    <2>2. StreamCell(i) = m[i] BY <1>4, <2>1
    <2> QED BY <2>2 DEF StreamCell
  <1>6. Received <=> Len(fw_in) = Len(m)
    <2> DEFINE b == [i \in 0 .. Len(fw_in) - 1 |-> fw_in[i + 1]]
    <2>1. CASE Len(fw_in) >= 4
      <3>1. b[2] = fw_in[3] /\ b[3] = fw_in[4] BY <1>3, <2>1
      <3>2. b[2] = m[3] /\ b[3] = m[4] BY <1>3, <1>5, <2>1, <3>1
      <3>3. MessageLength(b) = Len(m) BY <1>2, <3>2, Sizes DEF MessageLength, IsMessage
      <3>4. Received <=> Len(fw_in) >= 4 /\ Len(fw_in) >= MessageLength(b)
        BY Sizes DEF Received
      <3> QED BY <1>1, <1>2, <1>3, <2>1, <3>3, <3>4
    <2>2. CASE ~(Len(fw_in) >= 4) BY <1>2, <1>3, <2>2, Sizes DEF Received
    <2> QED BY <2>1, <2>2
  <1> QED BY <1>1, <1>5, <1>6 DEF m

LEMMA AppendFacts ==
  ASSUME NEW S, NEW s \in Seq(S), NEW e \in S
  PROVE  /\ Append(s, e) \in Seq(S) /\ Len(Append(s, e)) = Len(s) + 1
         /\ \A i \in 1 .. Len(s) : Append(s, e)[i] = s[i]
         /\ Append(s, e)[Len(s) + 1] = e
  BY AppendProperties, LenProperties

LEMMA TailFacts ==
  ASSUME NEW S, NEW s \in Seq(S), s # <<>>
  PROVE  /\ Tail(s) \in Seq(S) /\ Len(Tail(s)) = Len(s) - 1 /\ Len(s) \in Nat \ {0}
         /\ \A i \in 1 .. Len(s) - 1 : Tail(s)[i] = s[i + 1]
         /\ Head(s) = s[1] /\ Head(s) \in S
  BY HeadTailProperties, LenProperties, EmptySeq

-----------------------------------------------------------------------------
(* The steps of the driver.                                                *)

LEMMA InitHolds == Init => MailboxInv
  <1> SUFFICES ASSUME Init PROVE MailboxInv OBVIOUS
  <1> USE DEF Init
  <1>1. TypeOK
    <2>1. Blank \in [Index -> Cell] BY DEF Blank, Index, Cell
    <2>2. <<>> \in Seq(Cell) BY EmptySeq
    <2> QED BY <2>1, <2>2 DEF TypeOK
  <1>2. CallHolds BY DEF CallHolds
  <1>3. OldHeader
    <2>1. 2 \in 0 .. BufferSize - 1 /\ 3 \in 0 .. BufferSize - 1 BY Sizes
    <2> QED BY <2>1 DEF OldHeader, Blank
  <1>4. ReplyHolds BY DEF ReplyHolds, Answering
  <1>5. StreamLen = 0 BY DEF StreamLen, Unsent
  <1>6. Stream([c \in {} |-> call])
    <2> DEFINE none == [c \in {} |-> call]
    <2>1. DOMAIN none = {} /\ none = [c \in DOMAIN none |-> none[c]] OBVIOUS
    <2> HIDE DEF none
    <2>2. Posted(none) BY <1>5, <2>1 DEF Posted
    <2>3. OneAwaited(none) BY <2>1 DEF OneAwaited
    <2>4. RegistersFollow(none) BY <2>1 DEF RegistersFollow, Goal
    <2> QED BY <2>2, <2>3, <2>4 DEF Stream, none
  <1> QED BY <1>1, <1>2, <1>3, <1>4, <1>6 DEF MailboxInv

LEMMA CdnApiInitStep == MailboxInv /\ CdnApiInit => MailboxInv'
  <1> SUFFICES ASSUME MailboxInv, CdnApiInit PROVE MailboxInv' OBVIOUS
  <1> USE DEF MailboxInv, CdnApiInit
  <1>0. ~running /\ ~txenable /\ ~rxenable BY DEF CallHolds, TypeOK
  <1>1. TypeOK'
    <2>1. Blank \in [Index -> Cell] BY DEF Blank, Index, Cell
    <2> QED BY <2>1 DEF TypeOK, fifos, firmware
  <1>2. CallHolds' BY DEF CallHolds
  <1>3. OldHeader'
    <2>1. 2 \in 0 .. BufferSize - 1 /\ 3 \in 0 .. BufferSize - 1 BY Sizes
    <2> QED BY <2>1 DEF OldHeader, Blank
  <1>4. ReplyHolds' BY <1>0 DEF ReplyHolds, Answering, fifos, firmware
  <1>5. PICK at : Stream(at) OBVIOUS
  <1>6. StreamLen' = StreamLen BY <1>0 DEF StreamLen, Unsent, fifos, firmware
  <1>7. \A i \in 1 .. StreamLen : StreamCell(i)' = StreamCell(i)
    <2> TAKE i \in 1 .. StreamLen
    <2>1. i <= Len(fw_in) + Len(to_fw) BY <1>0, StreamTypes DEF StreamLen, Unsent
    <2> QED BY <2>1 DEF StreamCell, fifos, firmware
  <1>8. Stream(at)'
    <2>1. UNCHANGED <<running, call, shadow, fw_regs>> BY <1>0 DEF firmware, TypeOK
    <2>2. StreamLen > 0 => Len(fw_in)' <= Len(MessageOf(at[0]))
      BY <1>5 DEF Stream, Posted, firmware
    <2> QED BY <1>5, <1>6, <1>7, <2>1, <2>2, StreamKept
  <1> QED BY <1>1, <1>2, <1>3, <1>4, <1>8

LEMMA MakeCallStep == MailboxInv /\ MakeCall => MailboxInv'
  <1> SUFFICES ASSUME MailboxInv, MakeCall PROVE MailboxInv' OBVIOUS
  <1> USE DEF MailboxInv, MakeCall
  <1>0. ~running /\ ~txenable /\ ~rxenable BY DEF CallHolds, TypeOK
  <1>1. TypeOK' BY DEF TypeOK, driver, fifos, firmware
  <1>2. CallHolds' BY <1>0 DEF CallHolds, driver
  <1>3. OldHeader' BY DEF OldHeader, driver
  <1>4. ReplyHolds' BY <1>0 DEF ReplyHolds, Answering, driver, fifos, firmware
  <1>5. PICK at : Stream(at) OBVIOUS
  <1>6. StreamLen' = StreamLen BY <1>0 DEF StreamLen, Unsent, driver, fifos, firmware
  <1>7. \A i : StreamCell(i)' = StreamCell(i) BY DEF StreamCell, driver, fifos, firmware
  <1>8. Stream(at)'
    <2>1. Posted(at)' BY <1>5, <1>6, <1>7 DEF Stream, Posted, firmware
    <2>2. OneAwaited(at)' BY <1>0, <1>5 DEF Stream, OneAwaited, driver
    <2>3. Goal' = Goal BY <1>0 DEF Goal, driver
    <2>4. RegistersFollow(at)' BY <1>5, <2>3 DEF Stream, RegistersFollow, firmware
    <2> QED BY <2>1, <2>2, <2>4 DEF Stream
  <1> QED BY <1>1, <1>2, <1>3, <1>4, <1>8

(* The call's message is put behind what is still under way.                *)
LEMMA StartStep == MailboxInv /\ Start => MailboxInv'
  <1> SUFFICES ASSUME MailboxInv, Start PROVE MailboxInv' OBVIOUS
  <1> USE DEF MailboxInv, Start
  <1> DEFINE m == MessageOf(call)
  <1>0. /\ ~running /\ ~txenable /\ ~rxenable /\ txi = 0
        /\ running' /\ txenable' /\ call \in Calls /\ call' = call
    BY DEF CallHolds, TypeOK
  <1>1. m = Message(Opcode[call.op], Payload(call)) BY DEF MessageOf
  <1>2. IsMessage(m) /\ Len(m) \in 5 .. BufferSize BY <1>0, MessageOfFacts DEF IsMessage
  <1>3. txbuffer' = Fill(txbuffer, m) BY <1>1
  <1>4. MessageOf(call)' = m BY <1>0
  <1>5. Unsent = 0 /\ Unsent' = Len(m) BY <1>0, <1>2, <1>4 DEF Unsent, IsMessage
  <1> HIDE DEF m
  <1>6. txbuffer' \in [Index -> Cell] /\ \A i \in 1 .. Len(m) : txbuffer'[i - 1] = m[i]
    <2>1. txbuffer' = [i \in Index |-> IF i < Len(m) THEN m[i + 1] ELSE txbuffer[i]]
      BY <1>3 DEF Fill, TypeOK
    <2>2. \A i \in 0 .. Len(m) - 1 : i \in Index /\ m[i + 1] \in Cell
      BY <1>2, Sizes, ElementOfSeq DEF IsMessage, Index
    <2>3. \A i \in Index : i < Len(m) => i \in 0 .. Len(m) - 1 BY <1>2, Sizes DEF Index
    <2>4. \A i \in Index : txbuffer'[i] \in Cell
      <3> TAKE i \in Index
      <3>1. CASE i < Len(m) BY <2>1, <2>2, <2>3, <3>1
      <3>2. CASE ~(i < Len(m)) BY <2>1, <3>2 DEF TypeOK
      <3> QED BY <3>1, <3>2
    <2>5. txbuffer' \in [Index -> Cell] BY <2>1, <2>4
    <2>6. ASSUME NEW i \in 1 .. Len(m) PROVE txbuffer'[i - 1] = m[i]
      <3>1. i - 1 \in 0 .. Len(m) - 1 /\ i - 1 < Len(m) /\ (i - 1) + 1 = i BY <1>2
      <3>2. i - 1 \in Index BY <2>2, <3>1
      <3> QED BY <2>1, <3>1, <3>2
    <2> QED BY <2>5, <2>6
  <1>7. TypeOK' BY <1>0, <1>6 DEF TypeOK, fifos, firmware, ReplyExpected
  <1>8. CallHolds'
    <2>1. call' # NoCall BY <1>0
    <2>2. call'.op = "write" => ~rxenable' BY <1>0 DEF ReplyExpected
    <2>3. txi' < Len(MessageOf(call)') BY <1>0, <1>2, <1>4
    <2>4. \A i \in 1 .. Len(MessageOf(call)') : txbuffer'[i - 1] = MessageOf(call)'[i]
      BY <1>4, <1>6
    <2> QED BY <1>0, <2>1, <2>2, <2>3, <2>4 DEF CallHolds
  <1>9. OldHeader' BY DEF OldHeader
  <1>10. StreamLen \in Nat /\ StreamLen' = StreamLen + Len(m)
         /\ StreamLen = Len(fw_in) + Len(to_fw)
         /\ Len(fw_in) \in Nat /\ Len(to_fw) \in Nat
    <2>1. Len(fw_in) \in Nat /\ Len(to_fw) \in Nat BY StreamTypes
    <2> QED BY <1>2, <1>5, <2>1 DEF StreamLen, fifos, firmware
  <1>11. ReplyHolds'
    <2>1. ~Answering' BY <1>2, <1>10 DEF Answering
    <2> QED BY <1>0, <2>1 DEF ReplyHolds, Answering, ReplyExpected, fifos, firmware
  <1>12. PICK at : Stream(at) OBVIOUS
  <1>n. PICK n : n = StreamLen OBVIOUS
  <1>13. PICK next : next = [c \in DOMAIN at \union {n} |-> IF c = n THEN call ELSE at[c]]
    OBVIOUS
  <1>14. /\ \A i \in 1 .. n : StreamCell(i)' = StreamCell(i)
         /\ \A i \in 1 .. Len(m) : StreamCell(n + i)' = m[i]
    <2> USE <1>n
    <2>1. ASSUME NEW i \in 1 .. n PROVE StreamCell(i)' = StreamCell(i)
      BY <1>10 DEF StreamCell, fifos, firmware
    <2>2. ASSUME NEW i \in 1 .. Len(m) PROVE StreamCell(n + i)' = m[i]
      <3>1. ~(n + i <= Len(fw_in)) /\ ~(n + i <= Len(fw_in) + Len(to_fw)) BY <1>2, <1>10
      <3>2. txi' + (n + i) - Len(fw_in) - Len(to_fw) - 1 = i - 1 BY <1>0, <1>2, <1>10
      <3>3. StreamCell(n + i)' = txbuffer'[txi' + (n + i) - Len(fw_in) - Len(to_fw) - 1]
        BY <3>1 DEF StreamCell, fifos, firmware
      <3> QED BY <1>6, <3>2, <3>3
    <2> QED BY <2>1, <2>2
  <1>15. /\ DOMAIN next = DOMAIN at \union {n} /\ next[n] = call
         /\ \A c \in DOMAIN at : next[c] = at[c] /\ c \in Nat /\ c < n
                                 /\ c + Len(MessageOf(at[c])) <= n
                                 /\ at[c] \in Calls /\ Len(MessageOf(at[c])) \in 5 .. BufferSize
    <2>1. ASSUME NEW c \in DOMAIN at
          PROVE  /\ c \in Nat /\ c < n /\ c + Len(MessageOf(at[c])) <= n
                 /\ at[c] \in Calls /\ Len(MessageOf(at[c])) \in 5 .. BufferSize
      <3> USE <1>n
      <3>1. /\ c \in Nat /\ Len(MessageOf(at[c])) \in 5 .. BufferSize /\ at[c] \in Calls
            /\ c + Len(MessageOf(at[c])) <= n
        BY <1>12, PostedFacts DEF Stream
      <3> QED BY <1>10, <3>1
    <2>2. n \notin DOMAIN at BY <2>1, <1>10, <1>n
    <2> QED BY <1>13, <2>1, <2>2
  <1>16. Len(fw_in)' = Len(fw_in) BY DEF firmware
  <1>17. Posted(next)'
    <2> USE <1>n
    <2>1. next = [c \in DOMAIN next |-> next[c]] /\ DOMAIN next \subseteq Nat
      BY <1>10, <1>13, <1>15
    <2>2. StreamLen' > 0 => 0 \in DOMAIN next /\ Len(fw_in)' <= Len(MessageOf(next[0]))
      <3>1. CASE n > 0 BY <1>12, <1>15, <1>16, <3>1 DEF Stream, Posted
      <3>2. CASE n = 0
        <4>1. next[0] = call /\ 0 \in DOMAIN next BY <1>15, <3>2
        <4>2. Len(fw_in) = 0 BY <1>10, <3>2
        <4> QED BY <1>2, <1>16, <4>1, <4>2 DEF m
      <3> QED BY <1>10, <3>1, <3>2
    <2>3. ASSUME NEW c \in DOMAIN next
          PROVE  LET end == c + Len(MessageOf(next[c]))
                 IN /\ next[c] \in Calls
                    /\ end <= StreamLen' /\ end \in DOMAIN next \union {StreamLen'}
                    /\ \A d \in DOMAIN next : d > c => d >= end
                    /\ \A i \in 1 .. Len(MessageOf(next[c])) :
                          StreamCell(c + i)' = MessageOf(next[c])[i]
      <3>1. CASE c = n
        <4>1. next[c] = call /\ MessageOf(next[c]) = m BY <1>15, <3>1 DEF m
        <4>2. \A d \in DOMAIN next : ~(d > c) BY <1>10, <1>15, <3>1
        <4>3. n + Len(m) <= StreamLen' /\ n + Len(m) = StreamLen' BY <1>2, <1>10
        <4> QED BY <1>0, <1>14, <3>1, <4>1, <4>2, <4>3
      <3>2. CASE c \in DOMAIN at
        <4> DEFINE e == c + Len(MessageOf(at[c]))
        <4>1. /\ next[c] = at[c] /\ at[c] \in Calls /\ c \in Nat /\ e <= n
              /\ Len(MessageOf(at[c])) \in 5 .. BufferSize
          BY <1>15, <3>2
        <4>2. /\ e \in DOMAIN at \union {n}
              /\ \A d \in DOMAIN at : d > c => d >= e
              /\ \A i \in 1 .. Len(MessageOf(at[c])) : StreamCell(c + i) = MessageOf(at[c])[i]
          BY <1>12, <3>2 DEF Stream, Posted
        <4>3. e <= StreamLen' /\ e \in DOMAIN next \union {StreamLen'}
          BY <1>2, <1>10, <1>15, <4>1, <4>2
        <4>4. \A d \in DOMAIN next : d > c => d >= e BY <1>15, <4>1, <4>2
        <4>5. ASSUME NEW i \in 1 .. Len(MessageOf(at[c]))
              PROVE  StreamCell(c + i)' = MessageOf(at[c])[i]
          <5>1. c + i \in 1 .. n BY <1>10, <4>1
          <5> QED BY <1>14, <4>2, <5>1
        <4> QED BY <4>1, <4>3, <4>4, <4>5
      <3> QED BY <1>15, <3>1, <3>2
    <2> QED BY <2>1, <2>2, <2>3 DEF Posted
  <1>18. OneAwaited(next)'
    <2>1. \A c \in DOMAIN at : at[c].op = "write"
      BY <1>0, <1>12 DEF Stream, OneAwaited
    <2> QED BY <1>0, <1>10, <1>15, <1>n, <2>1 DEF OneAwaited, m
  <1>19. RegistersFollow(next)'
    <2> USE <1>n
    <2>1. Goal = shadow BY <1>0 DEF Goal
    <2>2. Goal' = IF call.op = "write"
                  THEN [shadow EXCEPT ![call.args[1]] = call.args[2]] ELSE shadow
      BY <1>0 DEF Goal
    <2> SUFFICES ASSUME NEW a \in Addr
                 PROVE \/ \E c \in DOMAIN next :
                            /\ WritesTo(next[c], a) /\ next[c].args[2] = Goal'[a]
                            /\ \A d \in DOMAIN next : d > c => ~WritesTo(next[d], a)
                       \/ /\ fw_regs[a] = Goal'[a]
                          /\ \A c \in DOMAIN next : ~WritesTo(next[c], a)
      BY DEF RegistersFollow, firmware
    <2>3. CASE WritesTo(call, a)
      <3>1. Goal'[a] = call.args[2] BY <2>2, <2>3 DEF WritesTo, TypeOK
      <3>2. \A d \in DOMAIN next : ~(d > n) BY <1>10, <1>15
      <3> QED BY <1>15, <2>3, <3>1, <3>2
    <2>4. CASE ~WritesTo(call, a)
      <3>1. Goal'[a] = Goal[a] BY <2>1, <2>2, <2>4 DEF WritesTo, TypeOK
      <3> QED BY <1>12, <1>15, <2>4, <3>1 DEF Stream, RegistersFollow
    <2> QED BY <2>3, <2>4
  <1>20. Stream(next)' BY <1>17, <1>18, <1>19 DEF Stream
  <1> QED BY <1>7, <1>8, <1>9, <1>11, <1>20

(* The message goes out cell by cell, and ends where its header says.       *)
LEMMA TxStep == MailboxInv /\ internal_mbox_tx_process => MailboxInv'
  <1> SUFFICES ASSUME MailboxInv, internal_mbox_tx_process PROVE MailboxInv' OBVIOUS
  <1> USE DEF MailboxInv, internal_mbox_tx_process
  <1> DEFINE m == MessageOf(call)
  <1>0. /\ running /\ txenable /\ call \in Calls /\ call' = call
        /\ IsMessage(m) /\ Len(m) \in 5 .. BufferSize
        /\ txi \in Nat /\ txi < Len(m)
        /\ \A i \in 1 .. Len(m) : txbuffer[i - 1] = m[i]
    BY CallFacts DEF CallHolds, TypeOK
  <1>1. MessageLength(txbuffer) = Len(m)
    <2>1. txbuffer[2] = m[3] /\ txbuffer[3] = m[4]
      <3>1. 3 \in 1 .. Len(m) /\ 4 \in 1 .. Len(m) /\ 3 - 1 = 2 /\ 4 - 1 = 3 BY <1>0
      <3>2. txbuffer[3 - 1] = m[3] /\ txbuffer[4 - 1] = m[4] BY <1>0, <3>1
      <3> QED BY <3>1, <3>2
    <2> QED BY <1>0, <2>1, Sizes DEF MessageLength, IsMessage
  <1>2. MessageOf(call)' = m BY <1>0
  <1>3. Unsent = Len(m) - txi BY <1>0 DEF Unsent
  <1> HIDE DEF m
  <1>4. EndOfTx <=> txi + 1 = Len(m) BY <1>0, <1>1 DEF EndOfTx
  <1>5. \/ txi + 1 = Len(m) /\ ~txenable' /\ txi' = 0
        \/ txi + 1 < Len(m) /\ txenable' /\ txi' = txi + 1
    <2>1. Len(m) \in Nat /\ (txi + 1 = Len(m) \/ txi + 1 < Len(m)) BY <1>0
    <2>2. CASE EndOfTx
      <3>1. ~txenable' /\ txi' = 0 BY <2>2 DEF NextTxi
      <3> QED BY <1>4, <2>2, <3>1
    <2>3. CASE ~EndOfTx
      <3>1. txenable' /\ txi' = txi + 1 BY <2>3 DEF NextTxi
      <3> QED BY <1>4, <2>1, <2>3, <3>1
    <2> QED BY <2>2, <2>3
  <1>6. txbuffer[txi] \in Cell
    <2>1. txi \in Index BY <1>0, Sizes DEF Index
    <2> QED BY <2>1 DEF TypeOK
  <1>7. /\ to_fw' \in Seq(Cell) /\ Len(to_fw') = Len(to_fw) + 1
        /\ \A i \in 1 .. Len(to_fw) : to_fw'[i] = to_fw[i]
        /\ to_fw'[Len(to_fw) + 1] = txbuffer[txi]
    BY <1>6, AppendFacts DEF TypeOK
  <1>8. Len(fw_in) \in Nat /\ Len(to_fw) \in Nat BY StreamTypes
  <1>9. TypeOK' BY <1>0, <1>5, <1>7 DEF TypeOK, firmware
  <1>10. CallHolds' BY <1>0, <1>2, <1>5 DEF CallHolds
  <1>11. OldHeader' BY DEF OldHeader
  <1>12. Unsent' = Len(m) - (txi + 1)
    <2>1. CASE txenable' BY <1>2, <1>5, <2>1 DEF Unsent
    <2>2. CASE ~txenable' BY <1>0, <1>5, <2>2 DEF Unsent
    <2> QED BY <2>1, <2>2
  <1>13. StreamLen' = StreamLen /\ StreamLen > 0 /\ StreamLen \in Nat
    BY <1>0, <1>3, <1>7, <1>8, <1>12 DEF StreamLen, firmware
  <1>14. ReplyHolds' BY <1>0, <1>13 DEF ReplyHolds, Answering, firmware
  <1>15. PICK at : Stream(at) OBVIOUS
  <1>16. ASSUME NEW i \in 1 .. StreamLen PROVE StreamCell(i)' = StreamCell(i)
    <2> DEFINE f == Len(fw_in)
               n == Len(to_fw)
    <2>0. i \in Int /\ Len(fw_in') = f /\ fw_in' = fw_in /\ i <= f + n + (Len(m) - txi)
      BY <1>3, <1>13 DEF firmware, StreamLen
    <2>1. CASE i <= f BY <2>0, <2>1 DEF StreamCell
    <2>2. CASE f < i /\ i <= f + n
      <3>1. i - f \in 1 .. n /\ ~(i <= f) /\ i <= f + (n + 1) BY <1>8, <2>0, <2>2
      <3>2. StreamCell(i) = to_fw[i - f] BY <2>2, <3>1 DEF StreamCell
      <3>3. StreamCell(i)' = to_fw'[i - f] BY <1>7, <2>0, <3>1 DEF StreamCell
      <3> QED BY <1>7, <3>1, <3>2, <3>3
    <2>3. CASE i = f + n + 1
      <3>1. ~(i <= f) /\ ~(i <= f + n) /\ i <= f + (n + 1) /\ i - f = n + 1
            /\ txi + i - f - n - 1 = txi
        BY <1>0, <1>8, <2>0, <2>3
      <3>2. StreamCell(i) = txbuffer[txi] BY <3>1 DEF StreamCell
      <3>3. StreamCell(i)' = to_fw'[n + 1] BY <1>7, <2>0, <3>1 DEF StreamCell
      <3> QED BY <1>7, <3>2, <3>3
    <2>4. CASE i > f + n + 1
      <3>1. ~(i <= f) /\ ~(i <= f + n) /\ ~(i <= f + (n + 1)) BY <1>8, <2>0, <2>4
      <3>2. txi + 1 < Len(m) BY <1>0, <1>8, <2>0, <2>4
      <3>3. txi' = txi + 1 BY <1>0, <1>5, <3>2
      <3>4. (txi + 1) + i - f - (n + 1) - 1 = txi + i - f - n - 1 BY <1>0, <1>8, <2>0
      <3>5. StreamCell(i) = txbuffer[txi + i - f - n - 1] BY <3>1 DEF StreamCell
      <3>6. StreamCell(i)' = txbuffer[(txi + 1) + i - f - (n + 1) - 1]
        BY <1>7, <2>0, <3>1, <3>3 DEF StreamCell
      <3> QED BY <3>4, <3>5, <3>6
    <2> QED BY <1>8, <2>0, <2>1, <2>2, <2>3, <2>4
  <1>17. Stream(at)'
    <2>1. UNCHANGED <<running, call, shadow, fw_regs>> BY DEF firmware
    <2>2. Len(fw_in)' <= Len(MessageOf(at[0])) BY <1>13, <1>15 DEF Stream, Posted, firmware
    <2> QED BY <1>13, <1>15, <1>16, <2>1, <2>2, StreamKept
  <1> QED BY <1>9, <1>10, <1>11, <1>14, <1>17

(* A reply is as long as its header says, from the first cell on: what      *)
(* rxbuffer holds of an older one is a length too, and no shorter than 4.   *)
LEMMA ReplyFacts ==
  ASSUME TypeOK, CallHolds, running, call.op # "write"
  PROVE  /\ Reply \in Messages /\ IsMessage(Reply) /\ Len(Reply) \in 5 .. BufferSize
         /\ Reply[1] = Opcode[call.op]
  <1>1. call \in Calls BY CallFacts
  <1>2. CASE call.op = "read"
    <2>1. PICK a \in Addr : call.args = <<a>> BY <1>1, <1>2, CallShapes
    <2>2. call.args[1] \in Addr /\ shadow[call.args[1]] \in Val BY <2>1 DEF TypeOK
    <2>3. Reply = ReadReply(call.args[1], shadow[call.args[1]]) BY <1>2 DEF Reply
    <2>4. Reply \in Messages /\ IsMessage(Reply) /\ Reply[1] = Opcode.read
      BY <2>2, <2>3, ReadReplyFacts
    <2> QED BY <1>2, <2>4 DEF IsMessage
  <1>3. CASE call.op # "read"
    <2>1. Reply = MessageOf(call) BY <1>3 DEF Reply
    <2> QED BY <1>1, <2>1, MessageOfFacts DEF IsMessage
  <1> QED BY <1>2, <1>3

LEMMA LengthAtLeast4 ==
  ASSUME NEW b, b[2] \in Nat, b[3] \in Nat
  PROVE  MessageLength(b) \in Nat /\ MessageLength(b) >= 4
  <1>1. b[2] * Radix \in Nat BY Sizes
  <1> QED BY <1>1, Sizes DEF MessageLength

(* The reply comes in cell by cell, and ends where its header says.         *)
LEMMA RxStep == MailboxInv /\ internal_mbox_rx_process => MailboxInv'
  <1> SUFFICES ASSUME MailboxInv, internal_mbox_rx_process PROVE MailboxInv' OBVIOUS
  <1> USE DEF MailboxInv, internal_mbox_rx_process
  <1> DEFINE r == Reply
             L == Len(r)
  <1>0. /\ Answering /\ running /\ ~txenable /\ rxenable /\ call.op # "write" /\ StreamLen = 0
        /\ ReplyLen = L /\ rxi < L
        /\ \A i \in 1 .. L : ReplyCell(i) = r[i]
    BY DEF ReplyHolds, Answering
  <1>1. IsMessage(r) /\ L \in 5 .. BufferSize BY <1>0, ReplyFacts
  <1>2. Reply' = r BY DEF Reply
  <1> HIDE DEF r
  <1>3. /\ to_host' \in Seq(Cell) /\ Len(to_host') = Len(to_host) - 1
        /\ Len(to_host) \in Nat \ {0}
        /\ \A i \in 1 .. Len(to_host) - 1 : to_host'[i] = to_host[i + 1]
        /\ Head(to_host) = to_host[1] /\ Head(to_host) \in Cell
    BY TailFacts DEF TypeOK
  <1>4. rxi \in Nat /\ Len(fw_out) \in Nat BY StreamTypes
  <1>5. rxi \in Index BY <1>0, <1>1, <1>4, Sizes DEF Index
  <1>6. Head(to_host) = r[rxi + 1]
    <2>1. rxi + 1 \in 1 .. L /\ ~(rxi + 1 <= rxi) /\ rxi + 1 <= rxi + Len(to_host)
          /\ (rxi + 1) - rxi = 1
      BY <1>0, <1>1, <1>3, <1>4
    <2>2. ReplyCell(rxi + 1) = to_host[1] BY <2>1 DEF ReplyCell
    <2> QED BY <1>0, <1>3, <2>1, <2>2
  <1>7. rxbuffer' \in [Index -> Cell] BY <1>3, <1>5 DEF TypeOK
  <1>8. /\ rxbuffer'[rxi] = r[rxi + 1]
        /\ \A i \in Index : i # rxi => rxbuffer'[i] = rxbuffer[i]
    BY <1>5, <1>6 DEF TypeOK
  <1>9. \A i \in 1 .. rxi + 1 : rxbuffer'[i - 1] = r[i]
    <2> TAKE i \in 1 .. rxi + 1
    <2>1. CASE i = rxi + 1
      <3>1. i - 1 = rxi BY <1>4, <2>1
      <3> QED BY <1>8, <2>1, <3>1
    <2>2. CASE i # rxi + 1
      <3>1. i \in 1 .. L /\ i <= rxi /\ i - 1 \in Index /\ i - 1 # rxi
        BY <1>0, <1>1, <1>4, <2>2, Sizes DEF Index
      <3>2. ReplyCell(i) = rxbuffer[i - 1] BY <3>1 DEF ReplyCell
      <3> QED BY <1>0, <1>8, <3>1, <3>2
    <2> QED BY <2>1, <2>2
  <1>10. OldHeader'
    <2>1. 2 \in Index /\ 3 \in Index BY Sizes DEF Index
    <2>2. rxbuffer'[2] \in Nat
      <3>1. CASE rxi = 2 BY <1>1, <1>8, <3>1 DEF IsMessage
      <3>2. CASE rxi # 2 BY <1>8, <2>1, <3>2 DEF OldHeader
      <3> QED BY <3>1, <3>2
    <2>3. rxbuffer'[3] \in Nat
      <3>1. CASE rxi = 3 BY <1>1, <1>8, <3>1 DEF IsMessage
      <3>2. CASE rxi # 3 BY <1>8, <2>1, <3>2 DEF OldHeader
      <3> QED BY <3>1, <3>2
    <2> QED BY <2>2, <2>3 DEF OldHeader
  <1>11. EndOfRx(rxbuffer') <=> rxi + 1 = L
    <2>1. CASE rxi >= 3
      <3>1. 3 \in 1 .. rxi + 1 /\ 4 \in 1 .. rxi + 1 /\ 3 - 1 = 2 /\ 4 - 1 = 3 BY <1>4, <2>1
      <3>2. rxbuffer'[3 - 1] = r[3] /\ rxbuffer'[4 - 1] = r[4] BY <1>9, <3>1
      <3>3. rxbuffer'[2] = r[3] /\ rxbuffer'[3] = r[4] BY <3>1, <3>2
      <3>4. MessageLength(rxbuffer') = L BY <1>1, <3>3, Sizes DEF MessageLength, IsMessage
      <3> QED BY <1>0, <1>1, <1>4, <3>4 DEF EndOfRx
    <2>2. CASE ~(rxi >= 3)
      <3>1. MessageLength(rxbuffer') \in Nat /\ MessageLength(rxbuffer') >= 4
        BY <1>10, LengthAtLeast4 DEF OldHeader
      <3> QED BY <1>1, <1>4, <2>2, <3>1 DEF EndOfRx
    <2> QED BY <2>1, <2>2
  <1>12. \/ rxi + 1 = L /\ ~rxenable' /\ rxi' = 0
         \/ rxi + 1 < L /\ rxenable' /\ rxi' = rxi + 1
    <2>1. rxi + 1 = L \/ rxi + 1 < L BY <1>0, <1>1, <1>4
    <2>2. CASE EndOfRx(rxbuffer')
      <3>1. ~rxenable' /\ rxi' = 0 BY <2>2
      <3> QED BY <1>11, <2>2, <3>1
    <2>3. CASE ~EndOfRx(rxbuffer')
      <3>1. rxenable' /\ rxi' = rxi + 1 BY <2>3
      <3> QED BY <1>11, <2>1, <2>3, <3>1
    <2> QED BY <2>2, <2>3
  <1>13. TypeOK' BY <1>3, <1>4, <1>7, <1>12 DEF TypeOK, firmware
  <1>14. CallHolds' BY <1>0 DEF CallHolds
  <1>15. StreamLen' = StreamLen /\ \A i : StreamCell(i)' = StreamCell(i)
    BY DEF StreamLen, Unsent, StreamCell, firmware
  <1>16. Answering' BY <1>0, <1>15 DEF Answering
  <1>17. ReplyHolds'
    <2>1. CASE rxi + 1 = L
      <3>1. ~rxenable' /\ rxi' = 0 BY <1>12, <2>1
      <3>2. Len(to_host') = 0 /\ Len(fw_out) = 0 BY <1>0, <1>3, <1>4, <2>1 DEF ReplyLen
      <3>3. to_host' = <<>> /\ fw_out' = <<>>
        BY <1>3, <3>2, EmptySeq DEF TypeOK, firmware
      <3>4. \A i \in 1 .. Len(Reply') : rxbuffer'[i - 1] = Reply'[i]
        BY <1>2, <1>9, <2>1
      <3>5. StreamLen' = 0 BY <1>0, <1>15
      <3> QED BY <3>1, <3>3, <3>4, <3>5 DEF ReplyHolds
    <2>2. CASE rxi + 1 < L
      <3> DEFINE h == Len(to_host)
      <3>1. rxenable' /\ rxi' = rxi + 1 BY <1>4, <1>12, <2>2
      <3>2. ReplyLen' = L BY <1>0, <1>3, <1>4, <3>1 DEF ReplyLen, firmware
      <3>3. ASSUME NEW i \in 1 .. L PROVE ReplyCell(i)' = r[i]
        <4>0. i \in Int /\ h \in Int /\ fw_out' = fw_out BY <1>1, <1>3 DEF firmware
        <4>1. CASE i <= rxi + 1 BY <1>4, <1>9, <3>1, <4>1 DEF ReplyCell
        <4>2. CASE rxi + 1 < i /\ i <= rxi + h
          <5>1. /\ ~(i <= rxi + 1) /\ ~(i <= rxi) /\ i <= (rxi + 1) + (h - 1)
                /\ i - (rxi + 1) \in 1 .. h - 1 /\ (i - (rxi + 1)) + 1 = i - rxi
            BY <1>4, <4>0, <4>2
          <5>2. ReplyCell(i)' = to_host'[i - (rxi + 1)] BY <1>3, <3>1, <5>1 DEF ReplyCell
          <5>3. ReplyCell(i) = to_host[i - rxi] BY <4>2, <5>1 DEF ReplyCell
          <5> QED BY <1>0, <1>3, <5>1, <5>2, <5>3
        <4>3. CASE i > rxi + h
          <5>1. /\ ~(i <= rxi + 1) /\ ~(i <= (rxi + 1) + (h - 1))
                /\ ~(i <= rxi) /\ ~(i <= rxi + h)
                /\ i - (rxi + 1) - (h - 1) = i - rxi - h
            BY <1>3, <1>4, <4>0, <4>3
          <5>2. ReplyCell(i)' = fw_out[i - (rxi + 1) - (h - 1)]
            BY <1>3, <3>1, <4>0, <5>1 DEF ReplyCell
          <5>3. ReplyCell(i) = fw_out[i - rxi - h] BY <5>1 DEF ReplyCell
          <5> QED BY <1>0, <5>1, <5>2, <5>3
        <4> QED BY <1>4, <4>0, <4>1, <4>2, <4>3
      <3>4. rxi' < L BY <2>2, <3>1
      <3> QED BY <1>2, <1>16, <3>1, <3>2, <3>3, <3>4 DEF ReplyHolds
    <2> QED BY <1>12, <2>1, <2>2
  <1>18. PICK at : Stream(at) OBVIOUS
  <1>19. Stream(at)'
    <2>1. UNCHANGED <<running, call, shadow, fw_regs>> BY DEF firmware
    <2>2. StreamLen > 0 => Len(fw_in)' <= Len(MessageOf(at[0])) BY <1>0
    <2> QED BY <1>15, <1>18, <2>1, <2>2, StreamKept
  <1> QED BY <1>10, <1>13, <1>14, <1>17, <1>19

(* A call that returns has had its reply, and has left its goal behind.     *)
LEMMA FinishStep == MailboxInv /\ Finish => MailboxInv' /\ shadow' = Goal
  <1> SUFFICES ASSUME MailboxInv, Finish PROVE MailboxInv' /\ shadow' = Goal OBVIOUS
  <1> USE DEF MailboxInv, Finish
  <1>0. /\ running /\ ~txenable /\ ~rxenable /\ call \in Calls
        /\ ~running' /\ ~txenable' /\ ~rxenable' /\ call' = NoCall
    BY CallFacts
  <1>1. /\ rxi = 0 /\ to_host = <<>> /\ fw_out = <<>>
        /\ call.op # "write" => StreamLen = 0
    BY <1>0 DEF ReplyHolds
  <1>2. shadow' = Goal BY <1>0 DEF Goal
  <1>3. shadow' \in [Addr -> Val]
    <2>1. CASE call.op = "write"
      <3>1. PICK a \in Addr, v \in Val : call.args = <<a, v>> BY <1>0, <2>1, CallShapes
      <3>2. shadow' = [shadow EXCEPT ![a] = v] BY <2>1, <3>1
      <3> QED BY <3>2 DEF TypeOK
    <2>2. CASE call.op # "write" BY <2>2 DEF TypeOK
    <2> QED BY <2>1, <2>2
  <1>4. TypeOK' BY <1>0, <1>3 DEF TypeOK, fifos, firmware
  <1>5. CallHolds' BY <1>0 DEF CallHolds
  <1>6. OldHeader' BY DEF OldHeader
  <1>7. ReplyHolds' BY <1>0, <1>1 DEF ReplyHolds, Answering, fifos, firmware
  <1>8. PICK at : Stream(at) OBVIOUS
  <1>9. StreamLen' = StreamLen BY <1>0 DEF StreamLen, Unsent, fifos, firmware
  <1>10. \A i : StreamCell(i)' = StreamCell(i) BY DEF StreamCell, fifos, firmware
  <1>11. Posted(at)' BY <1>8, <1>9, <1>10 DEF Stream, Posted, firmware
  <1>12. OneAwaited(at)'
    <2>1. ASSUME NEW c \in DOMAIN at PROVE at[c].op = "write"
      <3>1. SUFFICES ASSUME at[c].op # "write" PROVE FALSE OBVIOUS
      <3>2. StreamLen = 0 BY <1>1, <1>8, <3>1 DEF Stream, OneAwaited
      <3>3. /\ c \in Nat /\ Len(MessageOf(at[c])) \in 5 .. BufferSize
            /\ c + Len(MessageOf(at[c])) <= StreamLen
        BY <1>8, PostedFacts DEF Stream
      <3> QED BY <3>2, <3>3
    <2> QED BY <1>0, <2>1 DEF OneAwaited
  <1>13. Goal' = Goal BY <1>0, <1>2 DEF Goal
  <1>14. RegistersFollow(at)' BY <1>8, <1>13 DEF Stream, RegistersFollow, firmware
  <1>15. Stream(at)' BY <1>11, <1>12, <1>14 DEF Stream
  <1> QED BY <1>2, <1>4, <1>5, <1>6, <1>7, <1>15

-----------------------------------------------------------------------------
(* The steps of the firmware.                                              *)

LEMMA FwReceiveStep == MailboxInv /\ FwReceive => MailboxInv'
  <1> SUFFICES ASSUME MailboxInv, FwReceive PROVE MailboxInv' OBVIOUS
  <1> USE DEF MailboxInv, FwReceive
  <1>1. /\ to_fw' \in Seq(Cell) /\ Len(to_fw') = Len(to_fw) - 1
        /\ Len(to_fw) \in Nat \ {0}
        /\ \A i \in 1 .. Len(to_fw) - 1 : to_fw'[i] = to_fw[i + 1]
        /\ Head(to_fw) = to_fw[1] /\ Head(to_fw) \in Cell
    BY TailFacts DEF TypeOK
  <1>2. /\ fw_in' \in Seq(Cell) /\ Len(fw_in') = Len(fw_in) + 1
        /\ \A i \in 1 .. Len(fw_in) : fw_in'[i] = fw_in[i]
        /\ fw_in'[Len(fw_in) + 1] = Head(to_fw)
    BY <1>1, AppendFacts DEF TypeOK
  <1>3. Len(fw_in) \in Nat /\ Unsent \in Nat BY StreamTypes
  <1>4. TypeOK' BY <1>1, <1>2 DEF TypeOK, driver
  <1>5. CallHolds' BY DEF CallHolds, driver
  <1>6. OldHeader' BY DEF OldHeader, driver
  <1>7. Unsent' = Unsent BY DEF Unsent, driver
  <1>8. StreamLen' = StreamLen /\ StreamLen > 0 BY <1>1, <1>2, <1>3, <1>7 DEF StreamLen
  <1>9. ReplyHolds' BY <1>8 DEF ReplyHolds, Answering, driver
  <1>10. PICK at : Stream(at) OBVIOUS
  <1>11. ASSUME NEW i \in 1 .. StreamLen PROVE StreamCell(i)' = StreamCell(i)
    <2> DEFINE f == Len(fw_in)
               n == Len(to_fw)
    <2>0. i \in Int /\ f \in Nat /\ n \in Nat \ {0} /\ txi \in Nat /\ txi' = txi
          /\ Len(fw_in') = f + 1 /\ Len(to_fw') = n - 1
      BY <1>1, <1>2, <1>3, StreamTypes DEF driver
    <2>1. CASE i <= f
      <3>1. i \in 1 .. f /\ i <= f + 1 BY <2>0, <2>1
      <3> QED BY <1>2, <2>0, <2>1, <3>1 DEF StreamCell
    <2>2. CASE i = f + 1
      <3>1. ~(i <= f) /\ i <= f + n /\ i - f = 1 /\ i <= f + 1 BY <2>0, <2>2
      <3>2. StreamCell(i) = to_fw[1] BY <3>1 DEF StreamCell
      <3>3. StreamCell(i)' = fw_in'[f + 1] BY <2>0, <2>2, <3>1 DEF StreamCell
      <3> QED BY <1>1, <1>2, <3>2, <3>3
    <2>3. CASE f + 1 < i /\ i <= f + n
      <3>1. /\ ~(i <= f) /\ ~(i <= f + 1) /\ i <= (f + 1) + (n - 1)
            /\ i - (f + 1) \in 1 .. n - 1 /\ (i - (f + 1)) + 1 = i - f
        BY <2>0, <2>3
      <3>2. StreamCell(i) = to_fw[i - f] BY <2>3, <3>1 DEF StreamCell
      <3>3. StreamCell(i)' = to_fw'[i - (f + 1)] BY <2>0, <3>1 DEF StreamCell
      <3> QED BY <1>1, <3>1, <3>2, <3>3
    <2>4. CASE i > f + n
      <3>1. /\ ~(i <= f) /\ ~(i <= f + n) /\ ~(i <= f + 1) /\ ~(i <= (f + 1) + (n - 1))
            /\ txi + i - (f + 1) - (n - 1) - 1 = txi + i - f - n - 1
        BY <2>0, <2>4
      <3>2. StreamCell(i) = txbuffer[txi + i - f - n - 1] BY <3>1 DEF StreamCell
      <3>3. StreamCell(i)' = txbuffer[txi + i - (f + 1) - (n - 1) - 1]
        BY <2>0, <3>1 DEF StreamCell, driver
      <3> QED BY <3>1, <3>2, <3>3
    <2> HIDE DEF f, n
    <2> QED BY <2>0, <2>1, <2>2, <2>3, <2>4
  <1>12. Stream(at)'
    <2>1. UNCHANGED <<running, call, shadow, fw_regs>> BY DEF driver
    <2>2. Len(fw_in') <= Len(MessageOf(at[0]))
      <3>1. 0 \in DOMAIN at /\ Len(fw_in) # Len(MessageOf(at[0]))
        BY <1>8, <1>10, FirstMessage DEF Stream
      <3>2. Len(MessageOf(at[0])) \in 5 .. BufferSize BY <1>10, <3>1, PostedFacts DEF Stream
      <3>3. Len(fw_in) <= Len(MessageOf(at[0])) BY <1>8, <1>10 DEF Stream, Posted
      <3> QED BY <1>2, <1>3, <3>1, <3>2, <3>3
    <2> QED BY <1>8, <1>10, <1>11, <2>1, <2>2, StreamKept
  <1> QED BY <1>4, <1>5, <1>6, <1>9, <1>12

LEMMA FwReplyStep == MailboxInv /\ FwReply => MailboxInv'
  <1> SUFFICES ASSUME MailboxInv, FwReply PROVE MailboxInv' OBVIOUS
  <1> USE DEF MailboxInv, FwReply
  <1>1. /\ fw_out' \in Seq(Cell) /\ Len(fw_out') = Len(fw_out) - 1
        /\ Len(fw_out) \in Nat \ {0}
        /\ \A i \in 1 .. Len(fw_out) - 1 : fw_out'[i] = fw_out[i + 1]
        /\ Head(fw_out) = fw_out[1] /\ Head(fw_out) \in Cell
    BY TailFacts DEF TypeOK
  <1>2. /\ to_host' \in Seq(Cell) /\ Len(to_host') = Len(to_host) + 1
        /\ \A i \in 1 .. Len(to_host) : to_host'[i] = to_host[i]
        /\ to_host'[Len(to_host) + 1] = Head(fw_out)
    BY <1>1, AppendFacts DEF TypeOK
  <1>3. Len(to_host) \in Nat /\ rxi \in Nat BY StreamTypes
  <1>4. TypeOK' BY <1>1, <1>2 DEF TypeOK, driver
  <1>5. CallHolds' BY DEF CallHolds, driver
  <1>6. OldHeader' BY DEF OldHeader, driver
  <1>7. StreamLen' = StreamLen /\ \A i : StreamCell(i)' = StreamCell(i)
    BY DEF StreamLen, Unsent, StreamCell, driver
  <1>8. /\ Answering /\ rxenable
        /\ ReplyLen = Len(Reply) /\ rxi < Len(Reply)
        /\ \A i \in 1 .. Len(Reply) : ReplyCell(i) = Reply[i]
    BY DEF ReplyHolds
  <1>9. Len(Reply) \in 5 .. BufferSize BY <1>8, ReplyFacts DEF Answering
  <1>10. Answering' /\ rxenable' /\ rxi' = rxi /\ Reply' = Reply
    BY <1>7, <1>8 DEF Answering, Reply, driver
  <1>11. ReplyLen' = ReplyLen BY <1>1, <1>2, <1>3, <1>10 DEF ReplyLen
  <1>12. ASSUME NEW i \in 1 .. Len(Reply) PROVE ReplyCell(i)' = ReplyCell(i)
    <2> DEFINE h == Len(to_host)
               n == Len(fw_out)
    <2>0. i \in Int /\ h \in Nat /\ n \in Nat \ {0} /\ rxi \in Nat /\ rxi' = rxi
          /\ Len(to_host') = h + 1 /\ Len(fw_out') = n - 1
          /\ i <= rxi + h + n /\ rxbuffer' = rxbuffer
      BY <1>1, <1>2, <1>3, <1>8, <1>9, <1>10 DEF driver, ReplyLen
    <2>1. CASE i <= rxi BY <2>0, <2>1 DEF ReplyCell
    <2>2. CASE rxi < i /\ i <= rxi + h
      <3>1. i - rxi \in 1 .. h /\ ~(i <= rxi) /\ i <= rxi + (h + 1) BY <2>0, <2>2
      <3>2. ReplyCell(i) = to_host[i - rxi] BY <2>2, <3>1 DEF ReplyCell
      <3>3. ReplyCell(i)' = to_host'[i - rxi] BY <2>0, <3>1 DEF ReplyCell
      <3> QED BY <1>2, <3>1, <3>2, <3>3
    <2>3. CASE i = rxi + h + 1
      <3>1. ~(i <= rxi) /\ ~(i <= rxi + h) /\ i <= rxi + (h + 1) /\ i - rxi = h + 1
            /\ i - rxi - h = 1
        BY <2>0, <2>3
      <3>2. ReplyCell(i) = fw_out[1] BY <3>1 DEF ReplyCell
      <3>3. ReplyCell(i)' = to_host'[h + 1] BY <2>0, <3>1 DEF ReplyCell
      <3> QED BY <1>1, <1>2, <3>2, <3>3
    <2>4. CASE i > rxi + h + 1
      <3>1. /\ ~(i <= rxi) /\ ~(i <= rxi + h) /\ ~(i <= rxi + (h + 1))
            /\ i - rxi - (h + 1) \in 1 .. n - 1
            /\ (i - rxi - (h + 1)) + 1 = i - rxi - h
        BY <2>0, <2>4
      <3>2. ReplyCell(i) = fw_out[i - rxi - h] BY <3>1 DEF ReplyCell
      <3>3. ReplyCell(i)' = fw_out'[i - rxi - (h + 1)] BY <2>0, <3>1 DEF ReplyCell
      <3> QED BY <1>1, <3>1, <3>2, <3>3
    <2> HIDE DEF h, n
    <2> QED BY <2>0, <2>1, <2>2, <2>3, <2>4
  <1>13. ReplyHolds' BY <1>8, <1>10, <1>11, <1>12 DEF ReplyHolds
  <1>14. PICK at : Stream(at) OBVIOUS
  <1>15. Stream(at)'
    <2>1. UNCHANGED <<running, call, shadow, fw_regs>> BY DEF driver
    <2>2. StreamLen > 0 => Len(fw_in)' <= Len(MessageOf(at[0]))
      BY <1>14 DEF Stream, Posted
    <2> QED BY <1>7, <1>14, <2>1, <2>2, StreamKept
  <1> QED BY <1>4, <1>5, <1>6, <1>13, <1>15

LEMMA IsNumber ==
  ASSUME NEW n, NEW S, NEW s \in Seq(S), Len(s) = Width,
         \A i \in 1 .. Width : s[i] = internal_itobe(n)[i]
  PROVE  s = internal_itobe(n)
  <1>1. s = [i \in 1 .. Width |-> s[i]] BY LenProperties
  <1>2. internal_itobe(n) = [i \in 1 .. Width |-> internal_itobe(n)[i]] BY NumberIsSeq
  <1> QED BY <1>1, <1>2

LEMMA NumberInMessage ==
  ASSUME NEW n, NEW m, NEW k \in Int,
         \A i \in 1 .. Width : m[k + i] = internal_itobe(n)[i]
  PROVE  SubSeq(m, k + 1, k + Width) = internal_itobe(n)
  <1> DEFINE S == {m[i] : i \in k + 1 .. k + Width}
             s == SubSeq(m, k + 1, k + Width)
  <1>0. Width \in Nat \ {0} /\ k + 1 \in Int /\ k + Width \in Int BY Sizes
  <1>1. /\ s \in Seq(S) /\ Len(s) = Width
        /\ \A i \in 1 .. Width : s[i] = m[k + i]
    <2> DEFINE a == k + 1
               b == k + Width
    <2>1. a \in Int /\ b \in Int /\ a <= b /\ b - a + 1 = Width BY <1>0
    <2>2. \A i \in a .. b : m[i] \in S OBVIOUS
    <2>3. \A i \in 1 .. Width : a + i - 1 = k + i BY <1>0
    <2> HIDE DEF a, b, S
    <2>4. /\ SubSeq(m, a, b) \in Seq(S)
          /\ Len(SubSeq(m, a, b)) = IF a <= b THEN b - a + 1 ELSE 0
          /\ \A i \in 1 .. b - a + 1 : SubSeq(m, a, b)[i] = m[a + i - 1]
      BY <2>1, <2>2, SubSeqProperties
    <2>5. s = SubSeq(m, a, b) BY DEF a, b
    <2> HIDE DEF s
    <2> QED BY <2>1, <2>3, <2>4, <2>5
  <1> HIDE DEF s, S
  <1>2. \A i \in 1 .. Width : s[i] = internal_itobe(n)[i] BY <1>1
  <1>3. s = internal_itobe(n) BY <1>1, <1>2, IsNumber
  <1> QED BY <1>3 DEF s

(* The firmware finds the call's arguments in its message.                  *)
LEMMA ArgFacts ==
  ASSUME NumbersReadBack, NEW c \in Calls, fw_in = MessageOf(c)
  PROVE  /\ c.op = "read" => Arg(1) = c.args[1]
         /\ c.op = "write" => Arg(1) = c.args[1] /\ Arg(2) = c.args[2]
  <1> DEFINE m == MessageOf(c)
  <1>1. /\ Arg(1) = internal_betoi(SubSeq(m, 4 + 1, 4 + Width))
        /\ Arg(2) = internal_betoi(SubSeq(m, 4 + Width + 1, (4 + Width) + Width))
    <2>1. /\ INTERNAL_CMD_HEAD_SIZE + (1 - 1) * Width + 1 = 4 + 1
          /\ INTERNAL_CMD_HEAD_SIZE + 1 * Width = 4 + Width
          /\ INTERNAL_CMD_HEAD_SIZE + (2 - 1) * Width + 1 = 4 + Width + 1
          /\ INTERNAL_CMD_HEAD_SIZE + 2 * Width = (4 + Width) + Width
      BY Sizes
    <2> QED BY <2>1 DEF Arg
  <1>2. \A i \in 1 .. Len(Payload(c)) : m[4 + i] = Payload(c)[i] BY MessageOfFacts
  <1> HIDE DEF m
  <1>3. ASSUME c.op = "read" PROVE Arg(1) = c.args[1]
    <2>1. PICK a \in Addr : c.args = <<a>> BY <1>3, CallShapes
    <2>2. c.args[1] = a BY <2>1
    <2>3. Payload(c) = internal_itobe(a) /\ Len(Payload(c)) = Width
      BY <1>3, <2>2, Payloads, PayloadIsSeq
    <2>4. SubSeq(m, 4 + 1, 4 + Width) = internal_itobe(a) BY <1>2, <2>3, NumberInMessage
    <2>5. internal_betoi(internal_itobe(a)) = a BY DEF NumbersReadBack
    <2> QED BY <1>1, <2>2, <2>4, <2>5
  <1>4. ASSUME c.op = "write" PROVE Arg(1) = c.args[1] /\ Arg(2) = c.args[2]
    <2>1. PICK a \in Addr, v \in Val : c.args = <<a, v>> BY <1>4, CallShapes
    <2> DEFINE p == internal_itobe(a) \o internal_itobe(v)
    <2>0. c.args[1] = a /\ c.args[2] = v BY <2>1
    <2>2. Payload(c) = p /\ Len(p) = 2 * Width
      <3>1. Payload(c) = internal_itobe(c.args[1]) \o internal_itobe(c.args[2])
        BY <1>4, Payloads
      <3>2. Len(p) = 2 * Width BY TwoNumbers
      <3> QED BY <2>0, <3>1, <3>2
    <2>3. /\ \A i \in 1 .. Width : p[i] = internal_itobe(a)[i]
          /\ \A i \in 1 .. Width : p[Width + i] = internal_itobe(v)[i]
      BY TwoNumbers, ZenonT(60)
    <2> HIDE DEF p
    <2>4. SubSeq(m, 4 + 1, 4 + Width) = internal_itobe(a)
      <3>1. \A i \in 1 .. Width : m[4 + i] = internal_itobe(a)[i] BY <1>2, <2>2, <2>3, Sizes
      <3> QED BY <3>1, NumberInMessage
    <2>5. SubSeq(m, 4 + Width + 1, (4 + Width) + Width) = internal_itobe(v)
      <3> DEFINE k == 4 + Width
      <3>1. \A i \in 1 .. Width : m[k + i] = internal_itobe(v)[i]
        <4> TAKE i \in 1 .. Width
        <4>1. Width + i \in 1 .. Len(p) /\ 4 + (Width + i) = k + i BY <2>2, Sizes
        <4>2. m[4 + (Width + i)] = Payload(c)[Width + i] BY <1>2, <2>2, <4>1
        <4> QED BY <2>2, <2>3, <4>1, <4>2
      <3>2. k \in Int BY Sizes
      <3> HIDE DEF k
      <3>3. SubSeq(m, k + 1, k + Width) = internal_itobe(v) BY <3>1, <3>2, NumberInMessage
      <3> QED BY <3>3 DEF k
    <2>6. internal_betoi(internal_itobe(a)) = a /\ internal_betoi(internal_itobe(v)) = v
      BY DEF NumbersReadBack
    <2> QED BY <1>1, <2>0, <2>4, <2>5, <2>6
  <1> QED BY <1>3, <1>4

(* A whole message received is the first of those posted.                   *)
LEMMA FirstReceived ==
  ASSUME TypeOK, CallHolds, NEW at, Posted(at), Received
  PROVE  /\ StreamLen > 0 /\ 0 \in DOMAIN at /\ at[0] \in Calls
         /\ fw_in = MessageOf(at[0]) /\ fw_in[1] = Opcode[at[0].op]
         /\ Len(fw_in) \in 5 .. BufferSize /\ Len(fw_in) <= StreamLen
  <1>1. StreamLen > 0
    <2>1. Len(fw_in) >= 4 BY Sizes DEF Received
    <2> QED BY <2>1, StreamTypes DEF StreamLen
  <1> DEFINE m == MessageOf(at[0])
  <1>2. /\ 0 \in DOMAIN at /\ Len(fw_in) = Len(m)
        /\ \A i \in 1 .. Len(fw_in) : fw_in[i] = m[i]
    BY <1>1, FirstMessage
  <1>3. /\ at[0] \in Calls /\ IsMessage(m) /\ Len(m) \in 5 .. BufferSize
        /\ 0 + Len(m) <= StreamLen
    BY <1>2, PostedFacts
  <1>4. m[1] = Opcode[at[0].op] BY <1>3, MessageOfFacts
  <1> HIDE DEF m
  <1>5. fw_in = m BY <1>2, <1>3, SeqEqual DEF IsMessage, TypeOK
  <1> QED BY <1>1, <1>2, <1>3, <1>4, <1>5 DEF m

(* Taking the first message off moves the others up.                        *)
LEMMA OthersMoveUp ==
  ASSUME TypeOK, CallHolds, NEW at, Posted(at), Received,
         fw_in' = <<>>, UNCHANGED <<to_fw, txbuffer, txi, txenable, call>>,
         NEW next, NEW L, L = Len(fw_in),
         next = [c \in {d - L : d \in DOMAIN at \ {0}} |-> at[c + L]]
  PROVE  /\ StreamLen' = StreamLen - L
         /\ Posted(next)'
         /\ \A d \in DOMAIN at \ {0} : d - L \in DOMAIN next /\ next[d - L] = at[d]
         /\ \A c \in DOMAIN next : c + L \in DOMAIN at /\ c + L # 0 /\ next[c] = at[c + L]
                                   /\ c \in Nat
  <1>1. /\ StreamLen > 0 /\ 0 \in DOMAIN at /\ at[0] \in Calls
        /\ L = Len(MessageOf(at[0])) /\ L \in 5 .. BufferSize /\ L <= StreamLen
    BY FirstReceived
  <1>2. Len(fw_in') = 0 BY EmptySeq
  <1>3. Len(to_fw) \in Nat /\ Unsent \in Nat /\ StreamLen \in Nat BY StreamTypes
  <1>4. StreamLen' = StreamLen - L
    <2>1. Unsent' = Unsent BY DEF Unsent
    <2> QED BY <1>1, <1>2, <1>3, <2>1 DEF StreamLen
  <1>5. \A d \in DOMAIN at : d \in Nat /\ (d > 0 => d >= L)
    <2>1. \A d \in DOMAIN at : d > 0 => d >= 0 + L BY <1>1 DEF Posted
    <2>2. \A d \in DOMAIN at : d \in Nat BY DEF Posted
    <2> QED BY <1>1, <2>1, <2>2
  <1>6. DOMAIN next = {d - L : d \in DOMAIN at \ {0}} OBVIOUS
  <1>7. ASSUME NEW d \in DOMAIN at \ {0}
        PROVE  d - L \in DOMAIN next /\ next[d - L] = at[d] /\ d - L \in Nat
    <2>1. d - L \in DOMAIN next BY <1>6
    <2>2. (d - L) + L = d /\ d - L \in Nat BY <1>1, <1>5
    <2> QED BY <2>1, <2>2
  <1>8. ASSUME NEW c \in DOMAIN next
        PROVE  c + L \in DOMAIN at /\ c + L # 0 /\ next[c] = at[c + L] /\ c \in Nat
    <2>1. PICK d \in DOMAIN at \ {0} : c = d - L BY <1>6
    <2>2. c + L = d /\ d # 0 /\ c \in Nat BY <1>1, <1>5, <2>1
    <2> QED BY <2>2
  <1>9. \A i \in Nat \ {0} : StreamCell(i)' = StreamCell(i + L)
    <2> TAKE i \in Nat \ {0}
    <2> DEFINE n == Len(to_fw)
    <2>1. /\ ~(i <= 0) /\ ~(i + L <= L) /\ (i <= 0 + n <=> i + L <= L + n)
          /\ i - 0 = (i + L) - L
          /\ txi + i - 0 - n - 1 = txi + (i + L) - L - n - 1
      BY <1>1, <1>3, StreamTypes
    <2>2. StreamCell(i)' = IF i <= 0 + n THEN to_fw[i - 0] ELSE txbuffer[txi + i - 0 - n - 1]
      BY <1>2, <2>1 DEF StreamCell
    <2>3. StreamCell(i + L) = IF i + L <= L + n THEN to_fw[(i + L) - L]
                              ELSE txbuffer[txi + (i + L) - L - n - 1]
      BY <2>1 DEF StreamCell
    <2> HIDE DEF n
    <2> QED BY <2>1, <2>2, <2>3
  <1>10. ASSUME StreamLen' > 0 PROVE 0 \in DOMAIN next
    <2>1. 0 + L \in DOMAIN at \union {StreamLen} BY <1>1 DEF Posted
    <2>2. L \in DOMAIN at \ {0} /\ L - L = 0 BY <1>1, <1>3, <1>4, <1>10, <2>1
    <2> QED BY <1>7, <2>2
  <1>11. ASSUME StreamLen' > 0 PROVE Len(fw_in') <= Len(MessageOf(next[0]))
    <2>1. next[0] = at[0 + L] /\ 0 + L \in DOMAIN at BY <1>8, <1>10, <1>11
    <2>2. Len(MessageOf(next[0])) \in 5 .. BufferSize BY <2>1, PostedFacts
    <2> QED BY <1>2, <2>2
  <1>12. ASSUME NEW c \in DOMAIN next
         PROVE  LET end == c + Len(MessageOf(next[c]))
                IN /\ next[c] \in Calls
                   /\ end <= StreamLen' /\ end \in DOMAIN next \union {StreamLen'}
                   /\ \A d \in DOMAIN next : d > c => d >= end
                   /\ \A i \in 1 .. Len(MessageOf(next[c])) :
                         StreamCell(c + i)' = MessageOf(next[c])[i]
    <2> DEFINE b == c + L
               m == MessageOf(next[c])
    <2>1. b \in DOMAIN at /\ b # 0 /\ next[c] = at[b] /\ c \in Nat /\ b \in Nat BY <1>1, <1>8
    <2>2. /\ at[b] \in Calls /\ Len(m) \in 5 .. BufferSize /\ b + Len(m) <= StreamLen
      BY <2>1, PostedFacts
    <2>3. /\ b + Len(m) \in DOMAIN at \union {StreamLen}
          /\ \A d \in DOMAIN at : d > b => d >= b + Len(m)
          /\ \A i \in 1 .. Len(m) : StreamCell(b + i) = m[i]
      BY <2>1 DEF Posted
    <2> HIDE DEF m
    <2>4. c + Len(m) \in DOMAIN next \union {StreamLen'}
      <3>1. CASE b + Len(m) = StreamLen BY <1>1, <1>3, <1>4, <2>1, <2>2, <3>1
      <3>2. CASE b + Len(m) \in DOMAIN at
        <4>1. (b + Len(m)) - L \in DOMAIN next BY <1>7, <2>1, <2>2, <3>2
        <4>2. (b + Len(m)) - L = c + Len(m) BY <1>1, <2>1, <2>2
        <4> QED BY <4>1, <4>2
      <3> QED BY <2>3, <3>1, <3>2
    <2>5. ASSUME NEW d \in DOMAIN next, d > c PROVE d >= c + Len(m)
      <3>1. d + L \in DOMAIN at /\ d \in Nat BY <1>8
      <3>2. d + L > b BY <1>1, <2>1, <2>5, <3>1
      <3>3. d + L >= b + Len(m) BY <2>3, <3>1, <3>2
      <3> QED BY <1>1, <2>1, <2>2, <3>1, <3>3
    <2>6. ASSUME NEW i \in 1 .. Len(m) PROVE StreamCell(c + i)' = m[i]
      <3>1. c + i \in Nat \ {0} /\ (c + i) + L = b + i BY <1>1, <2>1, <2>2
      <3> QED BY <1>9, <2>3, <3>1
    <2>7. c + Len(m) <= StreamLen' BY <1>1, <1>3, <1>4, <2>1, <2>2
    <2> QED BY <2>1, <2>2, <2>4, <2>5, <2>6, <2>7 DEF m
  <1>13. Posted(next)'
    <2>1. next = [c \in DOMAIN next |-> next[c]] /\ DOMAIN next \subseteq Nat BY <1>8
    <2> QED BY <1>10, <1>11, <1>12, <2>1 DEF Posted
  <1> QED BY <1>4, <1>7, <1>8, <1>13

(* The firmware acts on the first message: a write reaches its register, a   *)
(* read finds what was written last, since nothing is posted behind it.     *)
LEMMA FwExecuteStep == NumbersReadBack /\ MailboxInv /\ FwExecute => MailboxInv'
  <1> SUFFICES ASSUME NumbersReadBack, MailboxInv, FwExecute PROVE MailboxInv' OBVIOUS
  <1> USE DEF MailboxInv
  <1>0. /\ Received /\ fw_in' = <<>>
        /\ UNCHANGED <<txbuffer, rxbuffer, txi, rxi, txenable, rxenable, running>>
        /\ UNCHANGED <<call, shadow, to_fw, to_host>>
    BY DEF FwExecute, driver, fifos
  <1>1. PICK at : Stream(at) OBVIOUS
  <1> DEFINE c0 == at[0]
  <1>2. /\ StreamLen > 0 /\ 0 \in DOMAIN at /\ c0 \in Calls
        /\ fw_in = MessageOf(c0) /\ fw_in[1] = Opcode[c0.op]
        /\ Len(fw_in) \in 5 .. BufferSize /\ Len(fw_in) <= StreamLen
    BY <1>0, <1>1, FirstReceived DEF Stream
  <1>L. PICK L : L = Len(fw_in) OBVIOUS
  <1>n. PICK next : next = [c \in {d - L : d \in DOMAIN at \ {0}} |-> at[c + L]] OBVIOUS
  <1>3. /\ StreamLen' = StreamLen - L
        /\ Posted(next)'
        /\ \A d \in DOMAIN at \ {0} : d - L \in DOMAIN next /\ next[d - L] = at[d]
        /\ \A c \in DOMAIN next : c + L \in DOMAIN at /\ c + L # 0 /\ next[c] = at[c + L]
                                  /\ c \in Nat
    BY <1>0, <1>1, <1>L, <1>n, OthersMoveUp DEF Stream
  <1>4. /\ rxi = 0 /\ to_host = <<>> /\ fw_out = <<>>
        /\ running /\ call.op # "write" => rxenable
    BY <1>2 DEF ReplyHolds, Answering
  <1>5. CallHolds' BY <1>0 DEF CallHolds
  <1>6. OldHeader' BY <1>0 DEF OldHeader
  <1>7. Goal' = Goal /\ Reply' = Reply BY <1>0 DEF Goal, Reply
  <1>8. StreamLen \in Nat /\ L \in 5 .. BufferSize BY <1>2, <1>L, StreamTypes
  <1>9. \A d \in DOMAIN at : d \in Nat BY <1>1 DEF Stream, Posted
  <1>10. OneAwaited(next)'
    <2>1. ASSUME NEW c \in DOMAIN next, next[c].op # "write"
          PROVE  running /\ next[c] = call /\ c + Len(MessageOf(next[c])) = StreamLen'
      <3>1. c + L \in DOMAIN at /\ next[c] = at[c + L] /\ c \in Nat BY <1>3
      <3>2. running /\ next[c] = call /\ (c + L) + Len(MessageOf(next[c])) = StreamLen
        BY <1>1, <2>1, <3>1 DEF Stream, OneAwaited
      <3>3. Len(MessageOf(next[c])) \in 5 .. BufferSize
        BY <1>1, <3>1, PostedFacts DEF Stream
      <3> QED BY <1>3, <1>8, <3>1, <3>2, <3>3
    <2>2. ASSUME running, call.op # "write", StreamLen' > 0
          PROVE  \E c \in DOMAIN next : next[c] = call
      <3>1. PICK d \in DOMAIN at : at[d] = call
        BY <1>1, <1>2, <2>2 DEF Stream, OneAwaited
      <3>2. d # 0
        <4>1. SUFFICES ASSUME d = 0 PROVE FALSE OBVIOUS
        <4>2. 0 + Len(MessageOf(c0)) = StreamLen
          BY <1>1, <1>2, <2>2, <3>1, <4>1 DEF Stream, OneAwaited
        <4> QED BY <1>2, <1>3, <1>8, <1>L, <2>2, <4>2
      <3> QED BY <1>3, <3>1, <3>2
    <2> QED BY <1>0, <2>1, <2>2 DEF OneAwaited
  <1>11. CASE c0.op = "write"
    <2>1. PICK a \in Addr, v \in Val : c0.args = <<a, v>> BY <1>2, <1>11, CallShapes
    <2>2. c0.args[1] = a /\ c0.args[2] = v BY <2>1
    <2>3. Arg(1) = a /\ Arg(2) = v BY <1>2, <1>11, <2>2, ArgFacts
    <2>4. fw_regs' = [b \in Addr |-> IF b = a THEN v ELSE fw_regs[b]] /\ fw_out' = fw_out
      <3>1. fw_in[1] = 5 BY <1>2, <1>11 DEF Opcode
      <3> QED BY <2>3, <3>1 DEF FwExecute, Opcode
    <2>5. TypeOK'
      <3>1. fw_regs' \in [Addr -> Val] BY <2>4 DEF TypeOK
      <3>2. <<>> \in Seq(Cell) BY EmptySeq
      <3> QED BY <1>0, <2>4, <3>1, <3>2 DEF TypeOK
    <2>6. ReplyHolds'
      <3>1. ~Answering'
        <4>1. SUFFICES ASSUME running, call.op # "write", StreamLen' = 0 PROVE FALSE
          BY <1>0 DEF Answering
        <4>2. PICK d \in DOMAIN at : at[d] = call
          BY <1>1, <1>2, <4>1 DEF Stream, OneAwaited
        <4>3. d # 0 BY <1>11, <4>1, <4>2
        <4>4. d - L \in DOMAIN next BY <1>3, <4>3
        <4>5. /\ d - L \in Nat /\ d + Len(MessageOf(at[d])) <= StreamLen
              /\ Len(MessageOf(at[d])) \in 5 .. BufferSize
          BY <1>1, <1>3, <4>4, PostedFacts DEF Stream
        <4> QED BY <1>3, <1>8, <1>9, <4>1, <4>5
      <3> QED BY <1>0, <1>4, <2>4, <3>1 DEF ReplyHolds
    <2>7. RegistersFollow(next)'
      <3> SUFFICES ASSUME NEW b \in Addr
                   PROVE \/ \E c \in DOMAIN next :
                              /\ WritesTo(next[c], b) /\ next[c].args[2] = Goal[b]
                              /\ \A d \in DOMAIN next : d > c => ~WritesTo(next[d], b)
                         \/ /\ fw_regs'[b] = Goal[b]
                            /\ \A c \in DOMAIN next : ~WritesTo(next[c], b)
        BY <1>7 DEF RegistersFollow
      <3>1. CASE \E c \in DOMAIN at :
                    /\ WritesTo(at[c], b) /\ at[c].args[2] = Goal[b]
                    /\ \A d \in DOMAIN at : d > c => ~WritesTo(at[d], b)
        <4>1. PICK c \in DOMAIN at : /\ WritesTo(at[c], b) /\ at[c].args[2] = Goal[b]
                                     /\ \A d \in DOMAIN at : d > c => ~WritesTo(at[d], b)
          BY <3>1
        <4>2. CASE c = 0
          <5>1. b = a /\ v = Goal[b] BY <2>2, <4>1, <4>2 DEF WritesTo
          <5>2. fw_regs'[b] = Goal[b] BY <2>4, <5>1
          <5>3. \A d \in DOMAIN next : ~WritesTo(next[d], b)
            <6> TAKE d \in DOMAIN next
            <6>1. d + L \in DOMAIN at /\ next[d] = at[d + L] /\ d \in Nat BY <1>3
            <6>2. d + L > c BY <1>8, <4>2, <6>1
            <6> QED BY <4>1, <6>1, <6>2
          <5> QED BY <5>2, <5>3
        <4>3. CASE c # 0
          <5>1. c - L \in DOMAIN next /\ next[c - L] = at[c] BY <1>3, <4>3
          <5>2. \A d \in DOMAIN next : d > c - L => ~WritesTo(next[d], b)
            <6> TAKE d \in DOMAIN next
            <6>1. d + L \in DOMAIN at /\ next[d] = at[d + L] /\ d \in Nat BY <1>3
            <6>2. d > c - L => d + L > c BY <1>8, <1>9, <6>1
            <6> QED BY <4>1, <6>1, <6>2
          <5> QED BY <4>1, <5>1, <5>2
        <4> QED BY <4>2, <4>3
      <3>2. CASE fw_regs[b] = Goal[b] /\ \A c \in DOMAIN at : ~WritesTo(at[c], b)
        <4>1. b # a BY <1>2, <1>11, <2>2, <3>2 DEF WritesTo
        <4>2. fw_regs'[b] = Goal[b] BY <2>4, <3>2, <4>1
        <4>3. \A c \in DOMAIN next : ~WritesTo(next[c], b) BY <1>3, <3>2
        <4> QED BY <4>2, <4>3
      <3> QED BY <1>1, <3>1, <3>2 DEF Stream, RegistersFollow
    <2>8. Stream(next)' BY <1>3, <1>10, <2>7 DEF Stream
    <2> QED BY <1>5, <1>6, <2>5, <2>6, <2>8
  <1>12. CASE c0.op # "write"
    <2>1. running /\ c0 = call /\ 0 + Len(MessageOf(c0)) = StreamLen
      BY <1>1, <1>2, <1>12 DEF Stream, OneAwaited
    <2>2. StreamLen' = 0 /\ L = StreamLen BY <1>2, <1>3, <1>8, <1>L, <2>1
    <2>3. Answering' /\ rxenable' BY <1>0, <1>4, <1>12, <2>1, <2>2 DEF Answering
    <2>4. \A d \in DOMAIN at : d = 0
      <3> SUFFICES ASSUME NEW d \in DOMAIN at, d # 0 PROVE FALSE OBVIOUS
      <3>1. /\ d - L \in Nat /\ d + Len(MessageOf(at[d])) <= StreamLen
            /\ Len(MessageOf(at[d])) \in 5 .. BufferSize
        BY <1>1, <1>3, PostedFacts DEF Stream
      <3> QED BY <1>8, <1>9, <2>2, <3>1
    <2>5. DOMAIN next = {} BY <1>3, <2>4
    <2>6. Goal = shadow BY <1>12, <2>1 DEF Goal
    <2>7. \A a \in Addr : fw_regs[a] = shadow[a]
      <3> TAKE a \in Addr
      <3>1. \A c \in DOMAIN at : ~WritesTo(at[c], a) BY <1>12, <2>4 DEF WritesTo
      <3> QED BY <1>1, <2>6, <3>1 DEF Stream, RegistersFollow
    <2>8. fw_out' = Reply /\ fw_regs' = fw_regs
      <3>1. CASE c0.op = "echo"
        <4>1. fw_in[1] = 2 BY <1>2, <3>1 DEF Opcode
        <4>2. fw_out' = fw_in /\ fw_regs' = fw_regs BY <4>1 DEF FwExecute, Opcode
        <4> QED BY <1>2, <2>1, <3>1, <4>2 DEF Reply
      <3>2. CASE c0.op = "read"
        <4>1. PICK a \in Addr : c0.args = <<a>> BY <1>2, <3>2, CallShapes
        <4>2. c0.args[1] = a BY <4>1
        <4>3. Arg(1) = a BY <1>2, <3>2, <4>2, ArgFacts
        <4>4. fw_in[1] = 7 BY <1>2, <3>2 DEF Opcode
        <4>5. /\ fw_regs' = fw_regs
              /\ fw_out' = Message(Opcode.read, FwNumber(a) \o FwNumber(fw_regs[a]))
          BY <4>3, <4>4 DEF FwExecute, Opcode
        <4>6. FwNumber(a) = internal_itobe(a) /\ FwNumber(fw_regs[a]) = internal_itobe(shadow[a])
          BY <2>7 DEF FwNumber, internal_itobe
        <4> QED BY <2>1, <3>2, <4>2, <4>5, <4>6 DEF Reply, ReadReply
      <3> QED BY <1>2, <1>12, <3>1, <3>2, CallShapes
    <2>9. Reply \in Messages /\ IsMessage(Reply) /\ Len(Reply) \in 5 .. BufferSize
      BY <1>12, <2>1, ReplyFacts
    <2>10. TypeOK'
      <3>1. <<>> \in Seq(Cell) BY EmptySeq
      <3> QED BY <1>0, <2>8, <2>9, <3>1 DEF TypeOK, IsMessage
    <2>11. ReplyHolds'
      <3>1. rxi' = 0 /\ to_host' = <<>> /\ Len(to_host') = 0 BY <1>0, <1>4, EmptySeq
      <3>2. ReplyLen' = Len(Reply) BY <2>8, <2>9, <3>1 DEF ReplyLen
      <3>3. \A i \in 1 .. Len(Reply) : ReplyCell(i)' = Reply[i]
        <4> TAKE i \in 1 .. Len(Reply)
        <4>1. ~(i <= 0) /\ ~(i <= 0 + 0) /\ i - 0 - 0 = i BY <2>9
        <4> QED BY <2>8, <3>1, <4>1 DEF ReplyCell
      <3> QED BY <1>7, <2>3, <2>9, <3>1, <3>2, <3>3 DEF ReplyHolds
    <2>12. RegistersFollow(next)' BY <1>7, <2>5, <2>6, <2>7, <2>8 DEF RegistersFollow
    <2>13. Stream(next)' BY <1>3, <1>10, <2>12 DEF Stream
    <2> QED BY <1>5, <1>6, <2>10, <2>11, <2>13
  <1> QED BY <1>11, <1>12

-----------------------------------------------------------------------------
(* What the calls return.                                                  *)

LEMMA NumberReceived ==
  ASSUME NEW n, NEW b, NEW k \in Int,
         \A j \in 1 .. Width : b[k + j - 1] = internal_itobe(n)[j]
  PROVE  Cells(b, k, Width) = internal_itobe(n)
  <1>1. Cells(b, k, Width) = [j \in 1 .. Width |-> b[k + j - 1]] BY DEF Cells
  <1>2. internal_itobe(n) = [j \in 1 .. Width |-> internal_itobe(n)[j]] BY NumberIsSeq
  <1> QED BY <1>1, <1>2

LEMMA ReadReturns ==
  ASSUME NumbersReadBack, TypeOK, CallHolds, running, NEW a \in Addr,
         call.op = "read", call.args = <<a>>,
         \A i \in 1 .. Len(Reply) : rxbuffer[i - 1] = Reply[i]
  PROVE  ReadMsg = <<a, shadow[a]>>
  <1> DEFINE v == shadow[a]
  <1>1. v \in Val /\ call.args[1] = a BY DEF TypeOK
  <1> HIDE DEF v
  <1>2. Reply = ReadReply(a, v) BY <1>1 DEF Reply, v
  <1> DEFINE r == ReadReply(a, v)
  <1>3. /\ Len(r) = 4 + 2 * Width
        /\ \A i \in 1 .. Width : r[4 + i] = internal_itobe(a)[i]
        /\ \A i \in 1 .. Width : r[4 + Width + i] = internal_itobe(v)[i]
    BY <1>1, ReadReplyFacts
  <1>4. \A i \in 1 .. Len(r) : rxbuffer[i - 1] = r[i] BY <1>2
  <1> HIDE DEF r
  <1>5. Cells(rxbuffer, 4, Width) = internal_itobe(a)
    <2>1. \A j \in 1 .. Width : rxbuffer[4 + j - 1] = internal_itobe(a)[j]
      <3> TAKE j \in 1 .. Width
      <3>1. 4 + j \in 1 .. Len(r) /\ (4 + j) - 1 = 4 + j - 1 BY <1>3, Sizes
      <3>2. rxbuffer[(4 + j) - 1] = r[4 + j] BY <1>4, <3>1
      <3> QED BY <1>3, <3>1, <3>2
    <2> QED BY <2>1, NumberReceived
  <1>6. Cells(rxbuffer, 4 + Width, Width) = internal_itobe(v)
    <2>1. \A j \in 1 .. Width : rxbuffer[(4 + Width) + j - 1] = internal_itobe(v)[j]
      <3> TAKE j \in 1 .. Width
      <3>1. 4 + Width + j \in 1 .. Len(r) /\ (4 + Width + j) - 1 = (4 + Width) + j - 1
        BY <1>3, Sizes
      <3>2. rxbuffer[(4 + Width + j) - 1] = r[4 + Width + j] BY <1>4, <3>1
      <3> QED BY <1>3, <3>1, <3>2
    <2>2. 4 + Width \in Int BY Sizes
    <2> QED BY <2>1, <2>2, NumberReceived
  <1>7. internal_betoi(internal_itobe(a)) = a /\ internal_betoi(internal_itobe(v)) = v
    BY <1>1 DEF NumbersReadBack
  <1> DEFINE f(i) == internal_betoi(Cells(rxbuffer, INTERNAL_CMD_HEAD_SIZE + (i - 1) * Width,
                                          Width))
  <1>8. f(1) = a
    <2>1. INTERNAL_CMD_HEAD_SIZE + (1 - 1) * Width = 4 BY Sizes
    <2> QED BY <1>5, <1>7, <2>1
  <1>9. f(2) = v
    <2>1. INTERNAL_CMD_HEAD_SIZE + (2 - 1) * Width = 4 + Width BY Sizes
    <2> QED BY <1>6, <1>7, <2>1
  <1>10. ReadMsg = [i \in 1 .. 2 |-> f(i)] BY DEF ReadMsg
  <1> HIDE DEF f
  <1>11. [i \in 1 .. 2 |-> f(i)] = <<f(1), f(2)>> OBVIOUS
  <1> QED BY <1>8, <1>9, <1>10, <1>11 DEF v

LEMMA EchoReturns ==
  ASSUME TypeOK, CallHolds, running, call.op = "echo",
         \A i \in 1 .. Len(Reply) : rxbuffer[i - 1] = Reply[i]
  PROVE  ReadMsg = call.args
  <1> DEFINE s == call.args
             r == MessageOf(call)
  <1>1. call \in Calls /\ call.args \in Echoes BY CallFacts, CallShapes
  <1>2. s \in Seq(0 .. 255) /\ Len(s) \in Nat BY <1>1, BufferAssumption, LenProperties
  <1>3. Payload(call) = s BY <1>1, Payloads
  <1>4. Len(r) = 4 + Len(s) /\ \A i \in 1 .. Len(s) : r[4 + i] = s[i]
    BY <1>1, <1>3, MessageOfFacts
  <1>5. \A i \in 1 .. Len(r) : rxbuffer[i - 1] = r[i] BY DEF Reply
  <1>6. ReadMsg = [i \in 1 .. Len(s) |-> rxbuffer[4 + i - 1]] BY Sizes DEF ReadMsg, Cells
  <1> HIDE DEF r, s
  <1>7. \A i \in 1 .. Len(s) : rxbuffer[4 + i - 1] = s[i]
    <2> TAKE i \in 1 .. Len(s)
    <2>1. 4 + i \in 1 .. Len(r) /\ (4 + i) - 1 = 4 + i - 1 BY <1>2, <1>4
    <2>2. rxbuffer[(4 + i) - 1] = r[4 + i] BY <1>5, <2>1
    <2> QED BY <1>4, <2>1, <2>2
  <1>8. s = [i \in 1 .. Len(s) |-> s[i]] BY <1>2, LenProperties
  <1> QED BY <1>6, <1>7, <1>8 DEF s

(* A call that returns is one step of the service.                         *)
LEMMA FinishServes ==
  NumbersReadBack /\ MailboxInv /\ Finish => Service!Next
  <1> SUFFICES ASSUME NumbersReadBack, MailboxInv, Finish PROVE Service!Next OBVIOUS
  <1> USE DEF MailboxInv
  <1>0. running /\ ~txenable /\ ~rxenable /\ call \in Calls BY CallFacts DEF Finish
  <1>1. CASE call.op = "write"
    <2>1. PICK a \in Addr, v \in Val : call.args = <<a, v>> BY <1>0, <1>1, CallShapes
    <2>2. shadow' = [shadow EXCEPT ![a] = v] BY <1>1, <2>1 DEF Finish
    <2>3. response' = [status |-> "CDN_OK", value |-> <<>>]
      BY <1>1 DEF Finish, Response
    <2> QED BY <2>2, <2>3 DEF Service!Next, Service!WriteRegister, Service!OK
  <1>2. CASE call.op # "write"
    <2>1. \A i \in 1 .. Len(Reply) : rxbuffer[i - 1] = Reply[i]
      BY <1>0, <1>2 DEF ReplyHolds
    <2>2. internal_test_rx_head(Opcode[call.op]) = "CDN_OK"
      <3>1. IsMessage(Reply) /\ Reply[1] = Opcode[call.op] /\ Len(Reply) \in 5 .. BufferSize
        BY <1>0, <1>2, ReplyFacts
      <3>2. 1 \in 1 .. Len(Reply) /\ 2 \in 1 .. Len(Reply) BY <3>1, Sizes
      <3>3. rxbuffer[1 - 1] = Reply[1] /\ rxbuffer[2 - 1] = Reply[2] BY <2>1, <3>2
      <3>4. rxbuffer[0] = Opcode[call.op] /\ rxbuffer[1] = MB_MODULE_ID_GENERAL
        BY <3>1, <3>3 DEF IsMessage
      <3> QED BY <3>4 DEF internal_test_rx_head
    <2>3. shadow' = shadow BY <1>2 DEF Finish
    <2>4. CASE call.op = "read"
      <3>1. PICK a \in Addr : call.args = <<a>> BY <1>0, <2>4, CallShapes
      <3>2. ReadMsg = <<a, shadow[a]>> BY <1>0, <2>1, <2>4, <3>1, ReadReturns
      <3>3. response' = [status |-> "CDN_OK", value |-> ReadMsg]
        BY <2>2, <2>4 DEF Finish, Response
      <3> QED BY <2>3, <3>2, <3>3 DEF Service!Next, Service!ReadRegister, Service!OK
    <2>5. CASE call.op = "echo"
      <3>1. ReadMsg = call.args BY <1>0, <2>1, <2>5, EchoReturns
      <3>2. response' = [status |-> "CDN_OK", value |-> ReadMsg]
        BY <2>2, <2>5, <3>1 DEF Finish, Response
      <3>3. call.args \in Echoes BY <1>0, <2>5, CallShapes
      <3> QED BY <2>3, <3>1, <3>2, <3>3 DEF Service!Next, Service!Echo, Service!OK
    <2> QED BY <1>0, <1>2, <2>4, <2>5, CallShapes
  <1> QED BY <1>1, <1>2

-----------------------------------------------------------------------------

LEMMA Invariance ==
  ASSUME NumbersReadBack
  PROVE  Spec => []MailboxInv
  <1>1. MailboxInv /\ [Next]_vars => MailboxInv'
    <2> SUFFICES ASSUME MailboxInv, [Next]_vars PROVE MailboxInv' OBVIOUS
    <2>1. CASE UNCHANGED vars
      <3>1. UNCHANGED <<txbuffer, rxbuffer, txi, rxi, txenable, rxenable, running>>
            /\ UNCHANGED <<call, to_fw, to_host, fw_in, fw_out, fw_regs, shadow>>
        BY <2>1 DEF vars, driver, fifos, firmware
      <3>2. TypeOK' /\ CallHolds' /\ OldHeader'
        BY <3>1 DEF MailboxInv, TypeOK, CallHolds, OldHeader
      <3>3. /\ StreamLen' = StreamLen /\ \A i : StreamCell(i)' = StreamCell(i)
            /\ ReplyLen' = ReplyLen /\ \A i : ReplyCell(i)' = ReplyCell(i)
            /\ Reply' = Reply
        BY <3>1 DEF StreamLen, StreamCell, Unsent, ReplyLen, ReplyCell, Reply
      <3>4. ReplyHolds' BY <3>1, <3>3 DEF MailboxInv, ReplyHolds, Answering
      <3>5. PICK at : Stream(at) BY DEF MailboxInv
      <3>6. Stream(at)'
        <4>1. StreamLen > 0 => Len(fw_in)' <= Len(MessageOf(at[0]))
          BY <3>1, <3>5 DEF Stream, Posted
        <4> QED BY <3>1, <3>3, <3>5, <4>1, StreamKept DEF MailboxInv
      <3> QED BY <3>2, <3>4, <3>6 DEF MailboxInv
    <2>2. CASE Next
      BY <2>2, CdnApiInitStep, MakeCallStep, StartStep, TxStep, RxStep, FinishStep,
         FwReceiveStep, FwExecuteStep, FwReplyStep DEF Next, Driver, Firmware
    <2> QED BY <2>1, <2>2
  <1> QED BY InitHolds, <1>1, PTL DEF Spec

(* Between calls nothing is left of the last: the state of the driver is at *)
(* rest and no cell of a reply is under way, whatever the firmware still has *)
(* to execute.                                                             *)
THEOREM Quiet ==
  ASSUME NumbersReadBack
  PROVE  Spec => []QuietBetweenCalls
  <1>1. MailboxInv => QuietBetweenCalls
    <2> SUFFICES ASSUME MailboxInv, call = NoCall PROVE QuietBetweenCalls
      BY DEF QuietBetweenCalls
    <2>1. ~running /\ ~txenable /\ ~rxenable /\ txi = 0 BY DEF MailboxInv, CallHolds, TypeOK
    <2>2. rxi = 0 /\ to_host = <<>> /\ fw_out = <<>>
      BY <2>1 DEF MailboxInv, ReplyHolds, Answering
    <2> QED BY <2>1, <2>2 DEF QuietBetweenCalls, internal_apb_available
  <1> QED BY Invariance, <1>1, PTL

(* The calls implement the register service the rest of the driver is       *)
(* written against: every read returns what was written last, although the  *)
(* write may still be on its way when its call returns, every echo its      *)
(* message, and no call fails.                                             *)
THEOREM Serves ==
  ASSUME NumbersReadBack
  PROVE  Spec => ImplementsService
  <1>1. Init => Service!Init BY DEF Init, Service!Init, Service!OK
  <1>2. MailboxInv /\ [Next]_vars => [Service!Next]_<<shadow, response>>
    <2> SUFFICES ASSUME MailboxInv, [Next]_vars
                 PROVE  Service!Next \/ UNCHANGED <<shadow, response>>
      OBVIOUS
    <2>1. CASE Finish BY <2>1, FinishServes
    <2>2. CASE \/ CdnApiInit \/ MakeCall \/ Start
               \/ internal_mbox_tx_process \/ internal_mbox_rx_process
               \/ FwReceive \/ FwExecute \/ FwReply
      BY <2>2 DEF CdnApiInit, MakeCall, Start, internal_mbox_tx_process,
         internal_mbox_rx_process, FwReceive, FwExecute, FwReply
    <2>3. CASE UNCHANGED vars BY <2>3 DEF vars
    <2> QED BY <2>1, <2>2, <2>3 DEF Next, Driver, Firmware
  <1> QED BY Invariance, <1>1, <1>2, PTL DEF Spec, ImplementsService, Service!Spec

-----------------------------------------------------------------------------
(* The code's own layout: four bytes, big endian.                          *)

(* What internal_itobe() cuts up, put together again.                      *)
LEMMA FourBytes ==
  ASSUME NEW n \in 0 .. 256 ^ 4 - 1
  PROVE  ((((n \div 256 ^ 3) % 256) * 256 + ((n \div 256 ^ 2) % 256)) * 256
              + ((n \div 256 ^ 1) % 256)) * 256 + ((n \div 256 ^ 0) % 256) = n
  BY SMT

LEMMA FourCells ==
  ASSUME NEW c1 \in Int, NEW c2 \in Int, NEW c3 \in Int, NEW c4 \in Int,
         NEW cells, cells = <<c1, c2, c3, c4>>, Radix = 256
  PROVE  internal_betoi(cells) = ((c1 * 256 + c2) * 256 + c3) * 256 + c4
  <1> DEFINE rec(g) == [i \in 0 .. Len(cells) |->
                           IF i = 0 THEN 0 ELSE g[i - 1] * Radix + cells[i]]
             n == CHOOSE g : g = rec(g)
  <1>1. internal_betoi(cells) = n[Len(cells)] BY DEF internal_betoi
  <1>2. Len(cells) = 4 OBVIOUS
  <1>3. \E g : g = rec(g)
    <2> DEFINE w == [i \in 0 .. 4 |->
                        IF i = 0 THEN 0 ELSE IF i = 1 THEN c1 ELSE IF i = 2 THEN c1 * 256 + c2
                        ELSE IF i = 3 THEN (c1 * 256 + c2) * 256 + c3
                        ELSE ((c1 * 256 + c2) * 256 + c3) * 256 + c4]
    <2>1. ASSUME NEW i \in 0 .. 4
          PROVE  w[i] = IF i = 0 THEN 0 ELSE w[i - 1] * Radix + cells[i]
      <3>1. /\ w[0] = 0 /\ w[1] = c1 /\ w[2] = c1 * 256 + c2
            /\ w[3] = (c1 * 256 + c2) * 256 + c3
            /\ w[4] = ((c1 * 256 + c2) * 256 + c3) * 256 + c4
        OBVIOUS
      <3>2. cells[1] = c1 /\ cells[2] = c2 /\ cells[3] = c3 /\ cells[4] = c4 OBVIOUS
      <3>3. i = 0 \/ i = 1 \/ i = 2 \/ i = 3 \/ i = 4 OBVIOUS
      <3> HIDE DEF w
      <3> QED BY <3>1, <3>2, <3>3
    <2>2. w = [i \in 0 .. 4 |-> w[i]] OBVIOUS
    <2> HIDE DEF w
    <2>3. w = rec(w) BY <1>2, <2>1, <2>2
    <2> QED BY <2>3
  <1>4. n = rec(n) BY <1>3
  <1> HIDE DEF n
  <1>5. \A i \in 0 .. 4 : n[i] = IF i = 0 THEN 0 ELSE n[i - 1] * 256 + cells[i]
    <2>1. n = [i \in 0 .. 4 |-> IF i = 0 THEN 0 ELSE n[i - 1] * 256 + cells[i]]
      BY <1>2, <1>4
    <2> QED BY <2>1
  <1>6. n[0] = 0 BY <1>5
  <1>7. n[1] = c1 BY <1>5, <1>6
  <1>8. n[2] = c1 * 256 + c2 BY <1>5, <1>7
  <1>9. n[3] = (c1 * 256 + c2) * 256 + c3 BY <1>5, <1>8
  <1>10. n[4] = ((c1 * 256 + c2) * 256 + c3) * 256 + c4 BY <1>5, <1>9
  <1> QED BY <1>1, <1>2, <1>10

(* 32-bit numbers in four bytes are read back as they were.                *)
THEOREM CodeReadsBack ==
  ASSUME Radix = 256, Width = 4
  PROVE  NumbersReadBack
  <1> SUFFICES ASSUME NEW n \in Addr \union Val PROVE internal_betoi(internal_itobe(n)) = n
    BY DEF NumbersReadBack
  <1>1. n \in 0 .. 256 ^ 4 - 1
    <2>1. n \in 0 .. Radix ^ Width - 1 BY LayoutAssumption, ZenonT(60)
    <2> QED BY <2>1, Zenon
  <1> DEFINE c1 == (n \div 256 ^ 3) % 256
             c2 == (n \div 256 ^ 2) % 256
             c3 == (n \div 256 ^ 1) % 256
             c4 == (n \div 256 ^ 0) % 256
             c(i) == (n \div Radix ^ (Width - i)) % Radix
  <1>2. internal_itobe(n) = <<c1, c2, c3, c4>>
    <2>1. Width - 1 = 3 /\ Width - 2 = 2 /\ Width - 3 = 1 /\ Width - 4 = 0 OBVIOUS
    <2>2. c(1) = c1 /\ c(2) = c2 /\ c(3) = c3 /\ c(4) = c4 BY <2>1, SMT
    <2>3. internal_itobe(n) = [i \in 1 .. 4 |-> c(i)] BY Zenon DEF internal_itobe
    <2> HIDE DEF c, c1, c2, c3, c4
    <2>4. [i \in 1 .. 4 |-> c(i)] = <<c(1), c(2), c(3), c(4)>> OBVIOUS
    <2> QED BY <2>2, <2>3, <2>4
  <1>3. c1 \in Int /\ c2 \in Int /\ c3 \in Int /\ c4 \in Int
    <2>1. n \in Int BY <1>1, SMT
    <2> QED BY <2>1, SMT
  <1>4. ((c1 * 256 + c2) * 256 + c3) * 256 + c4 = n BY <1>1, FourBytes, Zenon
  <1> HIDE DEF c1, c2, c3, c4
  <1> QED BY <1>2, <1>3, <1>4, FourCells

(* The two theorems for the code's own numbers, with nothing assumed but    *)
(* that a byte has 256 values and a number four bytes.                     *)
COROLLARY CodeServes ==
  ASSUME Radix = 256, Width = 4
  PROVE  Spec => []QuietBetweenCalls /\ ImplementsService
  BY CodeReadsBack, Quiet, Serves, PTL

=============================================================================
