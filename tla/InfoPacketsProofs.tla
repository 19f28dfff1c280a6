---------------------------- MODULE InfoPacketsProofs ----------------------------
(***************************************************************************)
(* The transmitter sends whole packets of finished calls only, whatever     *)
(* packets there are, whoever calls, and wherever it sends between two      *)
(* register writes.                                                        *)
(***************************************************************************)
EXTENDS InfoPackets, SequenceTheorems, TLAPS

-----------------------------------------------------------------------------
(* The inductive invariant: what the FIFO, the allocation register and the  *)
(* entry hold at each register write of infoframeSet().                     *)

AviPackets ==
    {AviPacket(hd, color_mode, itu_ver, stack) :
        hd \in Modes, color_mode \in Formats, itu_ver \in BtTypes, stack \in Stack}
Packets == AviPackets \union {o.packet : o \in Other}
Words == {Junk} \union UNION {{p[i] : i \in DOMAIN p} : p \in Packets}

(* The allocation table still, or already, says what the callers want.      *)
AtRest == {"idle", "invalidate", "invalidate_en"}
(* The entry is withdrawn and being rewritten.                             *)
Rewriting == {"flush", "data", "request", "validate", "validate_en"}

Shapes ==
    /\ pc \in AtRest \union Rewriting
    /\ args.entry \in Entries /\ args.packet \in {<<>>} \union Packets
    /\ table = [e \in Entries |-> table[e]]
    /\ current = [e \in Entries |-> current[e]]
    /\ memory = [e \in Entries |-> memory[e]]
    /\ \A e \in Entries : memory[e] \in Seq(Words)
    /\ fifo1 \in Seq(Words)
    /\ wr_addr \in Entries
    /\ idx \in Nat

EntryHolds(e) ==
    table[e].valid =>
        /\ current[e] # None
        /\ table[e].type = current[e].type
        /\ SubSeq(memory[e], 1, Len(current[e].packet)) = current[e].packet

EntriesHold ==
    /\ \A e \in Entries : pc \in AtRest \/ e # args.entry => EntryHolds(e)
    /\ pc \in Rewriting => args.packet \in Packets /\ ~table[args.entry].valid

AllocHolds ==
    /\ pc = "invalidate_en" => alloc_reg = AllocValue(FALSE)
    /\ pc = "validate_en" => alloc_reg = AllocValue(TRUE)

FifoHolds ==
    /\ pc \in {"invalidate", "invalidate_en", "flush"} => idx = 1
    /\ pc = "data" =>
          /\ idx \in 1 .. Len(args.packet) + 1 /\ Len(fifo1) = idx - 1
          /\ \A i \in 1 .. idx - 1 : fifo1[i] = args.packet[i]
    /\ pc = "request" => fifo1 = args.packet /\ wr_addr = args.entry
    /\ pc \in {"validate", "validate_en"} =>
          SubSeq(memory[args.entry], 1, Len(args.packet)) = args.packet

PacketInv == Shapes /\ EntriesHold /\ AllocHolds /\ FifoHolds

-----------------------------------------------------------------------------
(* Packets, as sequences of words.                                         *)

LEMMA PacketSeq ==
  ASSUME NEW p \in Packets
  PROVE  p \in Seq(Words) /\ p # <<>> /\ Len(p) \in Nat \ {0}
  <1>1. PICK n \in Nat \ {0} : p = [i \in 1 .. n |-> p[i]]
    <2>1. CASE p \in AviPackets
      <3>1. PICK a, b, c, d, e : p = <<a, b, c, d, e>> BY <2>1 DEF AviPackets, AviPacket
      <3>2. p = [i \in 1 .. 5 |-> p[i]] BY <3>1
      <3> QED BY <3>2
    <2>2. CASE \E o \in Other : p = o.packet
      <3>1. PICK o \in Other : p = o.packet BY <2>2
      <3>2. PICK n \in 1 .. EntryWords : p = [i \in 1 .. n |-> p[i]] BY <3>1, OtherAssumption
      <3> QED BY <3>2 DEF EntryWords
    <2> QED BY <2>1, <2>2 DEF Packets
  <1>2. DOMAIN p = 1 .. n BY <1>1
  <1>3. \A i \in 1 .. n : p[i] \in Words BY <1>2 DEF Words
  <1>4. p \in [1 .. n -> Words] BY <1>1, <1>3
  <1>5. p \in Seq(Words) BY <1>4, SeqDef
  <1>6. Len(p) = n BY <1>2, <1>5, LenProperties
  <1>7. p # <<>> BY <1>5, <1>6, EmptySeq
  <1> QED BY <1>5, <1>6, <1>7

(* Writing a packet over the head of an entry leaves the packet there.      *)
LEMMA HeadWritten ==
  ASSUME NEW s \in Seq(Words), s # <<>>, NEW t \in Seq(Words)
  PROVE  /\ SubSeq(s \o SubSeq(t, Len(s) + 1, Len(t)), 1, Len(s)) = s
         /\ s \o SubSeq(t, Len(s) + 1, Len(t)) \in Seq(Words)
  <1>1. Len(s) \in Nat \ {0} /\ Len(t) \in Nat BY EmptySeq, LenProperties
  <1> DEFINE rest == SubSeq(t, Len(s) + 1, Len(t))
  <1>2. \A i \in Len(s) + 1 .. Len(t) : t[i] \in Words BY <1>1, ElementOfSeq
  <1>3. rest \in Seq(Words) BY <1>1, <1>2, SubSeqProperties
  <1> HIDE DEF rest
  <1>4. SubSeq(s \o rest, 1, Len(s)) = SubSeq(s, 1, Len(s)) BY <1>1, <1>3, SubSeqOfConcat1
  <1>5. SubSeq(s, 1, Len(s)) = s BY SubSeqFull
  <1>6. s \o rest \in Seq(Words) BY <1>3, ConcatProperties
  <1> QED BY <1>4, <1>5, <1>6 DEF rest

-----------------------------------------------------------------------------
(* The steps, by what they change.                                         *)

LEMMA CallInv ==
  ASSUME PacketInv, pc = "idle", args'.entry \in Entries, args'.packet \in {<<>>} \union Packets,
         pc' = "invalidate", idx' = 1, UNCHANGED <<hw, current>>
  PROVE  PacketInv'
  <1> USE DEF PacketInv, hw
  <1>1. Shapes' BY DEF Shapes, AtRest
  <1>2. \A e \in Entries : EntryHolds(e)' BY DEF EntriesHold, EntryHolds, AtRest
  <1>3. EntriesHold' BY <1>2 DEF EntriesHold, AtRest, Rewriting
  <1>4. AllocHolds' /\ FifoHolds' BY DEF AllocHolds, FifoHolds
  <1> QED BY <1>1, <1>3, <1>4

LEMMA CallsInv ==
  ASSUME PacketInv, cdn_api_set_avi \/ cdn_api_infoframeset \/ cdn_api_infoframeremove
  PROVE  PacketInv'
  <1>1. CASE cdn_api_set_avi
    <2>1. PICK hd \in Modes, color_mode \in Formats, itu_ver \in BtTypes, stack \in Stack :
             Call(0, AVI, AviPacket(hd, color_mode, itu_ver, stack), TRUE,
                  <<hd, color_mode, itu_ver>>)
      BY <1>1 DEF cdn_api_set_avi
    <2>2. /\ args'.entry = 0
          /\ args'.packet = AviPacket(hd, color_mode, itu_ver, stack)
      BY <2>1 DEF Call
    <2>3. args'.packet \in Packets BY <2>2 DEF Packets, AviPackets
    <2>4. args'.entry \in Entries BY <2>2 DEF Entries
    <2> QED BY <2>1, <2>3, <2>4, CallInv DEF Call
  <1>2. CASE cdn_api_infoframeset
    <2>1. PICK o \in Other : Call(o.entry, o.type, o.packet, o.idle, <<>>)
      BY <1>2 DEF cdn_api_infoframeset
    <2>2. args'.entry = o.entry /\ args'.packet = o.packet BY <2>1 DEF Call
    <2>3. args'.packet \in Packets /\ args'.entry \in Entries BY <2>2 DEF Packets, Entries
    <2> QED BY <2>1, <2>3, CallInv DEF Call
  <1>3. CASE cdn_api_infoframeremove
    <2>1. args'.entry \in Entries /\ args'.packet = <<>> BY <1>3 DEF cdn_api_infoframeremove
    <2> QED BY <1>3, <2>1, CallInv DEF cdn_api_infoframeremove
  <1> QED BY <1>1, <1>2, <1>3

LEMMA InvalidateInv == PacketInv /\ Invalidate => PacketInv'
  <1> SUFFICES ASSUME PacketInv, Invalidate PROVE PacketInv' OBVIOUS
  <1> USE DEF PacketInv, Invalidate
  <1>1. Shapes' BY DEF Shapes, AtRest
  <1>2. \A e \in Entries : EntryHolds(e)' BY DEF EntriesHold, EntryHolds, AtRest
  <1>3. EntriesHold' BY <1>2 DEF EntriesHold, AtRest, Rewriting
  <1>4. AllocHolds' BY DEF AllocHolds, AllocValue
  <1>5. FifoHolds' BY DEF FifoHolds
  <1> QED BY <1>1, <1>3, <1>4, <1>5

LEMMA InvalidateEnableInv == PacketInv /\ InvalidateEnable => PacketInv'
  <1> SUFFICES ASSUME PacketInv, InvalidateEnable PROVE PacketInv' OBVIOUS
  <1> USE DEF PacketInv, InvalidateEnable
  <1>1. /\ pc = "invalidate_en" /\ args.entry \in Entries
        /\ alloc_reg.entry = args.entry /\ alloc_reg.valid = FALSE
        /\ pc' \in {"idle", "flush"}
    BY DEF AllocHolds, AllocValue, Shapes
  <1>2. Shapes' BY <1>1 DEF Shapes, AtRest, Rewriting, TakeAlloc
  <1>3. ~table'[args.entry].valid BY <1>1 DEF Shapes, TakeAlloc
  <1>4. \A e \in Entries : EntryHolds(e)'
    <2> SUFFICES ASSUME NEW e \in Entries PROVE EntryHolds(e)' OBVIOUS
    <2>1. CASE e = args.entry BY <1>3, <2>1 DEF EntryHolds
    <2>2. CASE e # args.entry
      <3>1. table'[e] = table[e] /\ current'[e] = current[e] /\ memory' = memory
        BY <1>1, <2>2 DEF Shapes, TakeAlloc
      <3>2. EntryHolds(e) BY <2>2 DEF EntriesHold
      <3> QED BY <3>1, <3>2 DEF EntryHolds
    <2> QED BY <2>1, <2>2
  <1>5. EntriesHold' BY <1>1, <1>3, <1>4 DEF EntriesHold, Rewriting, Removing, Shapes
  <1>6. AllocHolds' /\ FifoHolds' BY <1>1 DEF AllocHolds, FifoHolds
  <1> QED BY <1>2, <1>5, <1>6

(* A step of the rewriting leaves the table and what entries are to hold.   *)
LEMMA RewritingKeeps ==
  ASSUME PacketInv, pc \in Rewriting, pc' \in Rewriting, UNCHANGED <<args, table, current>>,
         \A e \in Entries : e # args.entry => memory'[e] = memory[e]
  PROVE  EntriesHold'
  <1>1. \A e \in Entries : e # args.entry => EntryHolds(e)'
    BY DEF PacketInv, EntriesHold, EntryHolds
  <1> QED BY <1>1 DEF PacketInv, EntriesHold, AtRest, Rewriting

LEMMA FlushInv == PacketInv /\ Flush => PacketInv'
  <1> SUFFICES ASSUME PacketInv, Flush PROVE PacketInv' OBVIOUS
  <1> USE DEF PacketInv, Flush
  <1>1. args.packet \in Packets BY DEF EntriesHold, Rewriting
  <1>2. Len(args.packet) \in Nat \ {0} BY <1>1, PacketSeq
  <1>3. <<>> \in Seq(Words) /\ Len(<<>>) = 0 BY EmptySeq
  <1>4. Shapes' BY <1>3 DEF Shapes, AtRest, Rewriting
  <1>5. EntriesHold' BY RewritingKeeps DEF Rewriting
  <1>6. AllocHolds' BY DEF AllocHolds
  <1>7. FifoHolds' BY <1>2, <1>3 DEF FifoHolds
  <1> QED BY <1>4, <1>5, <1>6, <1>7

LEMMA DataWrInv == PacketInv /\ DataWr => PacketInv'
  <1> SUFFICES ASSUME PacketInv, DataWr PROVE PacketInv' OBVIOUS
  <1> USE DEF PacketInv, DataWr
  <1> DEFINE p == args.packet
  <1>1. p \in Packets BY DEF EntriesHold, Rewriting
  <1>2. p \in Seq(Words) /\ Len(p) \in Nat \ {0} BY <1>1, PacketSeq
  <1>3. /\ idx \in 1 .. Len(p) /\ Len(fifo1) = idx - 1 /\ fifo1 \in Seq(Words)
        /\ \A i \in 1 .. idx - 1 : fifo1[i] = p[i]
    BY <1>2 DEF FifoHolds, Shapes
  <1>4. p[idx] \in Words BY <1>2, <1>3, ElementOfSeq
  <1>5. /\ fifo1' \in Seq(Words) /\ Len(fifo1') = Len(fifo1) + 1
        /\ \A i \in 1 .. Len(fifo1) : fifo1'[i] = fifo1[i]
        /\ fifo1'[Len(fifo1) + 1] = p[idx]
    BY <1>3, <1>4, AppendProperties
  <1>6. Shapes' BY <1>3, <1>5 DEF Shapes
  <1>7. EntriesHold' BY RewritingKeeps DEF Rewriting
  <1>8. AllocHolds' BY DEF AllocHolds
  <1>9. FifoHolds'
    <2>1. Len(fifo1') = idx' - 1 /\ idx' \in 1 .. Len(p) + 1 BY <1>2, <1>3, <1>5
    <2>2. \A i \in 1 .. idx' - 1 : fifo1'[i] = p[i] BY <1>2, <1>3, <1>5
    <2> QED BY <2>1, <2>2 DEF FifoHolds
  <1> QED BY <1>6, <1>7, <1>8, <1>9

LEMMA WrAddrInv == PacketInv /\ WrAddr => PacketInv'
  <1> SUFFICES ASSUME PacketInv, WrAddr PROVE PacketInv' OBVIOUS
  <1> USE DEF PacketInv, WrAddr
  <1> DEFINE p == args.packet
  <1>1. p \in Packets BY DEF EntriesHold, Rewriting
  <1>2. p \in Seq(Words) /\ Len(p) \in Nat \ {0} BY <1>1, PacketSeq
  <1>3. /\ idx = Len(p) + 1 /\ Len(fifo1) = Len(p) /\ fifo1 \in Seq(Words)
        /\ \A i \in 1 .. Len(p) : fifo1[i] = p[i]
    BY <1>2 DEF FifoHolds, Shapes
  <1>4. fifo1 = p
    <2> HIDE DEF p
    <2> QED BY <1>2, <1>3, SeqEqual
  <1>5. Shapes' BY DEF Shapes, AtRest, Rewriting
  <1>6. EntriesHold' BY RewritingKeeps DEF Rewriting
  <1>7. AllocHolds' /\ FifoHolds' BY <1>4 DEF AllocHolds, FifoHolds
  <1> QED BY <1>5, <1>6, <1>7

LEMMA WrReqInv == PacketInv /\ WrReq => PacketInv'
  <1> SUFFICES ASSUME PacketInv, WrReq PROVE PacketInv' OBVIOUS
  <1> USE DEF PacketInv, WrReq
  <1>1. args.packet \in Packets /\ fifo1 = args.packet /\ wr_addr = args.entry
        /\ args.entry \in Entries
    BY DEF EntriesHold, Rewriting, FifoHolds, Shapes
  <1>2. fifo1 \in Seq(Words) /\ fifo1 # <<>> /\ memory[wr_addr] \in Seq(Words)
    BY <1>1, PacketSeq DEF Shapes
  <1> DEFINE written == fifo1 \o SubSeq(memory[wr_addr], Len(fifo1) + 1, Len(memory[wr_addr]))
  <1>3. written \in Seq(Words) /\ SubSeq(written, 1, Len(fifo1)) = fifo1
    BY <1>2, HeadWritten
  <1>4. memory' = [memory EXCEPT ![wr_addr] = written] OBVIOUS
  <1> HIDE DEF written
  <1>5. /\ memory'[args.entry] = written
        /\ \A e \in Entries : e # args.entry => memory'[e] = memory[e]
        /\ memory' = [e \in Entries |-> memory'[e]]
    BY <1>1, <1>4 DEF Shapes
  <1>6. <<>> \in Seq(Words) BY EmptySeq
  <1>7. \A e \in Entries : memory'[e] \in Seq(Words) BY <1>3, <1>5 DEF Shapes
  <1>8. Shapes' BY <1>5, <1>6, <1>7 DEF Shapes, AtRest, Rewriting
  <1>9. EntriesHold' BY <1>5, RewritingKeeps DEF Rewriting
  <1>10. AllocHolds' BY DEF AllocHolds
  <1>11. FifoHolds' BY <1>1, <1>3, <1>5 DEF FifoHolds
  <1> QED BY <1>8, <1>9, <1>10, <1>11

LEMMA ValidateInv == PacketInv /\ Validate => PacketInv'
  <1> SUFFICES ASSUME PacketInv, Validate PROVE PacketInv' OBVIOUS
  <1> USE DEF PacketInv, Validate
  <1>1. Shapes' BY DEF Shapes, AtRest, Rewriting
  <1>2. EntriesHold' BY RewritingKeeps DEF Rewriting
  <1>3. AllocHolds' BY DEF AllocHolds, AllocValue
  <1>4. FifoHolds' BY DEF FifoHolds
  <1> QED BY <1>1, <1>2, <1>3, <1>4

LEMMA ValidateEnableInv == PacketInv /\ ValidateEnable => PacketInv'
  <1> SUFFICES ASSUME PacketInv, ValidateEnable PROVE PacketInv' OBVIOUS
  <1> USE DEF PacketInv, ValidateEnable
  <1> DEFINE x == args.entry
  <1>1. /\ pc = "validate_en" /\ x \in Entries /\ alloc_reg = AllocValue(TRUE)
        /\ args.packet \in Packets
        /\ SubSeq(memory[x], 1, Len(args.packet)) = args.packet
    BY DEF AllocHolds, EntriesHold, FifoHolds, Shapes, Rewriting
  <1>2. alloc_reg.entry = x /\ alloc_reg.type = args.type BY <1>1 DEF AllocValue
  <1>3. /\ table'[x].type = args.type
        /\ current'[x] = [type |-> args.type, packet |-> args.packet, from |-> args.from]
        /\ memory' = memory /\ args' = args
    BY <1>1, <1>2 DEF Shapes, TakeAlloc
  <1>4. Shapes' BY <1>1, <1>2 DEF Shapes, AtRest, Rewriting, TakeAlloc
  <1>5. \A e \in Entries : EntryHolds(e)'
    <2> SUFFICES ASSUME NEW e \in Entries PROVE EntryHolds(e)' OBVIOUS
    <2>1. CASE e = x
      <3>1. current'[x].packet = args.packet /\ current'[x].type = args.type BY <1>3
      <3>2. current'[x] # None
        <4>1. args.packet # <<>> BY <1>1, PacketSeq
        <4>2. None.packet = <<>> BY DEF None
        <4> QED BY <3>1, <4>1, <4>2
      <3> QED BY <1>1, <1>3, <2>1, <3>1, <3>2 DEF EntryHolds
    <2>2. CASE e # x
      <3>1. table'[e] = table[e] /\ current'[e] = current[e] /\ memory' = memory
        BY <1>1, <1>2, <2>2 DEF Shapes, TakeAlloc
      <3>2. EntryHolds(e) BY <2>2 DEF EntriesHold
      <3> QED BY <3>1, <3>2 DEF EntryHolds
    <2> QED BY <2>1, <2>2
  <1>6. EntriesHold' BY <1>5 DEF EntriesHold, AtRest, Rewriting
  <1>7. AllocHolds' /\ FifoHolds' BY DEF AllocHolds, FifoHolds
  <1> QED BY <1>4, <1>6, <1>7

LEMMA InitInv == Init => PacketInv
  <1> SUFFICES ASSUME Init PROVE PacketInv OBVIOUS
  <1>1. Junk \in Words BY DEF Words
  <1>2. \A e \in Entries : memory[e] \in Seq(Words)
    <2> SUFFICES ASSUME NEW e \in Entries PROVE memory[e] \in Seq(Words) OBVIOUS
    <2>1. memory[e] = [i \in 1 .. EntryWords |-> Junk] BY DEF Init
    <2>2. memory[e] \in [1 .. 8 -> Words] BY <1>1, <2>1 DEF EntryWords
    <2> QED BY <2>2, SeqDef
  <1>3. fifo1 \in Seq(Words)
    <2>1. <<Junk>> \in Seq(Words) BY <1>1
    <2> QED BY <2>1, EmptySeq DEF Init
  <1>4. 0 \in Entries BY DEF Entries
  <1>5. Shapes BY <1>2, <1>3, <1>4 DEF Init, Shapes, AtRest
  <1>6. \A e \in Entries : ~table[e].valid BY DEF Init
  <1> QED BY <1>5, <1>6 DEF Init, PacketInv, EntriesHold, EntryHolds, AllocHolds, FifoHolds, Rewriting

LEMMA StutterInv == PacketInv /\ UNCHANGED vars => PacketInv'
  <1> SUFFICES ASSUME PacketInv, UNCHANGED vars PROVE PacketInv' OBVIOUS
  <1> USE DEF PacketInv, vars, hw
  <1>1. Shapes' BY DEF Shapes
  <1>2. \A e \in Entries : EntryHolds(e)' = EntryHolds(e) BY DEF EntryHolds
  <1>3. EntriesHold' BY <1>2 DEF EntriesHold
  <1>4. AllocHolds' /\ FifoHolds' BY DEF AllocHolds, AllocValue, FifoHolds
  <1> QED BY <1>1, <1>3, <1>4

THEOREM PacketInvariance == Spec => []PacketInv
  <1>1. PacketInv /\ [Next]_vars => PacketInv'
    BY CallsInv, InvalidateInv, InvalidateEnableInv, FlushInv, DataWrInv, WrAddrInv, WrReqInv,
       ValidateInv, ValidateEnableInv, StutterInv DEF Next
  <1> QED BY <1>1, InitInv, PTL DEF Spec

(* Whatever is sent is what a finished call set.                           *)
THEOREM PacketsCorrect == Spec => []SendsWhatWasSet
  <1>1. PacketInv => SendsWhatWasSet
    BY DEF PacketInv, Shapes, EntriesHold, EntryHolds, SendsWhatWasSet, AtRest, Rewriting
  <1> QED BY <1>1, PacketInvariance, PTL

-----------------------------------------------------------------------------
(* What an AVI packet says.                                                *)

(* The invariant of the history: a packet of the AVI type is one that       *)
(* cdn_api_set_avi() made, of the mode and the format noted beside it.      *)
MadeOf(call) ==
    call.type = AVI =>
        \E hd \in Modes, color_mode \in Formats, itu_ver \in BtTypes, stack \in Stack :
            /\ call.packet = AviPacket(hd, color_mode, itu_ver, stack)
            /\ call.from = <<hd, color_mode, itu_ver>>

AviInv == MadeOf(args) /\ \A e \in Entries : MadeOf(current[e])

(* What the code asks of its callers: a mode whose parts make its wholes,   *)
(* and numbers that fit the fields of the packet.  The vic may be anything. *)
FitsAvi(hd) ==
    /\ Consistent(hd)
    /\ hd.v_active + 1 < 2^16 /\ hd.h_active + 1 < 2^16
    /\ hd.vic_pr < 16 /\ hd.vic_r3 < 16

LEMMA AviInitInv == Init => AviInv
  BY DEF Init, AviInv, MadeOf, None, AVI

LEMMA AviStepInv ==
  ASSUME \A o \in Other : o.type # AVI, PacketInv, AviInv, [Next]_vars
  PROVE  AviInv'
  <1> USE DEF AviInv
  <1>1. CASE cdn_api_set_avi
    <2>1. PICK hd \in Modes, color_mode \in Formats, itu_ver \in BtTypes, stack \in Stack :
             Call(0, AVI, AviPacket(hd, color_mode, itu_ver, stack), TRUE,
                  <<hd, color_mode, itu_ver>>)
      BY <1>1 DEF cdn_api_set_avi
    <2>2. /\ args'.packet = AviPacket(hd, color_mode, itu_ver, stack)
          /\ args'.from = <<hd, color_mode, itu_ver>> /\ current' = current
      BY <2>1 DEF Call
    <2> QED BY <2>2 DEF MadeOf
  <1>2. CASE cdn_api_infoframeset
    <2>1. PICK o \in Other : Call(o.entry, o.type, o.packet, o.idle, <<>>)
      BY <1>2 DEF cdn_api_infoframeset
    <2>2. args'.type # AVI /\ current' = current BY <2>1 DEF Call
    <2> QED BY <2>2 DEF MadeOf
  <1>3. CASE cdn_api_infoframeremove
    <2>1. args'.type = 0 /\ current' = current BY <1>3 DEF cdn_api_infoframeremove
    <2> QED BY <2>1 DEF MadeOf, AVI
  <1>4. CASE InvalidateEnable
    <2>1. /\ args' = args /\ current' = [current EXCEPT ![args.entry] = None]
          /\ current = [e \in Entries |-> current[e]]
      BY <1>4 DEF InvalidateEnable, PacketInv, Shapes
    <2>2. \A e \in Entries : current'[e] \in {current[e], None} BY <2>1
    <2>3. MadeOf(None) BY DEF MadeOf, None, AVI
    <2> QED BY <2>1, <2>2, <2>3
  <1>5. CASE ValidateEnable
    <2> DEFINE set == [type |-> args.type, packet |-> args.packet, from |-> args.from]
    <2>1. /\ args' = args /\ current' = [current EXCEPT ![args.entry] = set]
          /\ current = [e \in Entries |-> current[e]]
      BY <1>5 DEF ValidateEnable, PacketInv, Shapes
    <2>2. MadeOf(set) BY DEF MadeOf
    <2> HIDE DEF set
    <2>3. \A e \in Entries : current'[e] \in {current[e], set} BY <2>1
    <2> QED BY <2>1, <2>2, <2>3
  <1>6. CASE UNCHANGED <<args, current>> BY <1>6
  <1>7. \/ cdn_api_set_avi \/ cdn_api_infoframeset \/ cdn_api_infoframeremove
        \/ InvalidateEnable \/ ValidateEnable \/ UNCHANGED <<args, current>>
    BY DEF Next, vars, Invalidate, Flush, DataWr, WrAddr, WrReq, Validate
  <1> QED BY <1>1, <1>2, <1>3, <1>4, <1>5, <1>6, <1>7

(* A number of two bytes, taken apart and put together.                     *)
LEMMA TwoBytes ==
  ASSUME NEW n \in Nat, n < 2^16
  PROVE  /\ n % 256 \in 0 .. 255 /\ n \div 256 \in 0 .. 255
         /\ (n % 256) + 256 * (n \div 256) = n
  OBVIOUS

(* A byte is stored as it is.                                              *)
LEMMA ByteKept ==
  ASSUME NEW n \in 0 .. 255
  PROVE  n % 256 = n
  OBVIOUS

(* The thirteen numbers are bytes, all but the vic, and read back as the    *)
(* mode's.                                                                 *)
LEMMA FieldsRead ==
  ASSUME NEW hd, FitsAvi(hd), NEW color_mode \in Formats, NEW itu_ver \in BtTypes
  PROVE  LET pb == Fields(hd, color_mode, itu_ver) IN
         /\ \A n \in 1 .. 13 : n # 4 => pb[n] \in 0 .. 255
         /\ pb[8] + 256 * pb[9] = hd.v_active + 1
         /\ pb[12] + 256 * pb[13] = hd.h_active + 1
         /\ pb[4] = hd.vic /\ hd.vic \in Nat /\ pb[5] % 16 = hd.vic_pr /\ pb[2] % 16 = hd.vic_r3
         /\ (pb[1] \div 32 = 0) <=> (color_mode \in {PXL_RGB, Y_ONLY})
  <1> DEFINE pb == Fields(hd, color_mode, itu_ver)
             y == packet_y(color_mode)
             c == packet_c(itu_ver)
             v == hd.v_active + 1
             h == hd.h_active + 1
  <1>1. /\ hd.v_active \in Nat /\ hd.h_active \in Nat /\ hd.h_blank \in Nat
        /\ hd.h_total = hd.h_active + hd.h_blank
        /\ hd.vic \in Nat /\ hd.vic_pr \in 0 .. 15 /\ hd.vic_r3 \in 0 .. 15
        /\ v \in Nat /\ h \in Nat /\ v < 2^16 /\ h < 2^16
    <2>1. hd \in ModeType /\ hd.h_total = hd.h_active + hd.h_blank
      BY DEF FitsAvi, Consistent
    <2>2. /\ hd.v_active \in Nat /\ hd.h_active \in Nat /\ hd.h_blank \in Nat
          /\ hd.vic \in Nat /\ hd.vic_pr \in Nat /\ hd.vic_r3 \in Nat
      BY <2>1 DEF ModeType
    <2>3. /\ hd.v_active + 1 < 2^16 /\ hd.h_active + 1 < 2^16
          /\ hd.vic_pr < 16 /\ hd.vic_r3 < 16
      BY DEF FitsAvi
    <2>4. v \in Nat /\ h \in Nat BY <2>2
    <2>5. v < 2^16 /\ h < 2^16 BY <2>3
    <2>6. hd.vic \in Nat /\ hd.vic_pr \in 0 .. 15 /\ hd.vic_r3 \in 0 .. 15
      <3> HIDE DEF v, h
      <3>1. hd.vic \in Nat /\ hd.vic_pr \in Nat /\ hd.vic_r3 \in Nat BY <2>2
      <3>2. hd.vic_pr < 16 /\ hd.vic_r3 < 16 BY <2>3
      <3> QED BY <3>1, <3>2
    <2> HIDE DEF v, h
    <2> QED BY <2>1, <2>2, <2>4, <2>5, <2>6
  <1>2. vactive(hd) = v /\ hactive(hd) = h
    <2>1. hd.h_total - hd.h_blank = hd.h_active BY <1>1
    <2> QED BY <2>1 DEF vactive, hactive
  <1>3. y \in 0 .. 3 /\ (y = 0 <=> color_mode \in {PXL_RGB, Y_ONLY})
    BY DEF packet_y, Formats, PXL_RGB, YCBCR_4_4_4, YCBCR_4_2_2, YCBCR_4_2_0, Y_ONLY
  <1>4. c \in {1, 2}
    BY DEF packet_c, BtTypes, BT_601, BT_709
  <1>5. pb = <<32 * y + 16, 64 * c + hd.vic_r3, 0, hd.vic, hd.vic_pr, 0, 0,
               v % 256, v \div 256, 0, 0, h % 256, h \div 256>>
    BY <1>2 DEF Fields
  <1> HIDE DEF pb, y, c, v, h
  <1>6. /\ pb[1] = 32 * y + 16 /\ pb[2] = 64 * c + hd.vic_r3 /\ pb[3] = 0
        /\ pb[4] = hd.vic /\ pb[5] = hd.vic_pr /\ pb[6] = 0 /\ pb[7] = 0
        /\ pb[8] = v % 256 /\ pb[9] = v \div 256 /\ pb[10] = 0 /\ pb[11] = 0
        /\ pb[12] = h % 256 /\ pb[13] = h \div 256
    BY <1>5
  <1>7. /\ v % 256 \in 0 .. 255 /\ v \div 256 \in 0 .. 255
        /\ (v % 256) + 256 * (v \div 256) = v
    BY <1>1, TwoBytes
  <1>8. /\ h % 256 \in 0 .. 255 /\ h \div 256 \in 0 .. 255
        /\ (h % 256) + 256 * (h \div 256) = h
    BY <1>1, TwoBytes
  <1>9. 32 * y + 16 \in 0 .. 255 /\ ((32 * y + 16) \div 32 = 0 <=> y = 0) BY <1>3
  <1>10. 64 * c + hd.vic_r3 \in 0 .. 255 /\ (64 * c + hd.vic_r3) % 16 = hd.vic_r3
    BY <1>1, <1>4
  <1>11. hd.vic_pr % 16 = hd.vic_pr /\ hd.vic_pr \in 0 .. 255 BY <1>1
  <1>12. \A n \in 1 .. 13 : n # 4 => pb[n] \in 0 .. 255
    <2>1. 0 \in 0 .. 255 OBVIOUS
    <2>2. /\ pb[1] \in 0 .. 255 /\ pb[2] \in 0 .. 255 /\ pb[3] \in 0 .. 255
          /\ pb[5] \in 0 .. 255 /\ pb[6] \in 0 .. 255
          /\ pb[7] \in 0 .. 255 /\ pb[8] \in 0 .. 255 /\ pb[9] \in 0 .. 255
          /\ pb[10] \in 0 .. 255 /\ pb[11] \in 0 .. 255 /\ pb[12] \in 0 .. 255
          /\ pb[13] \in 0 .. 255
      BY <1>1, <1>6, <1>7, <1>8, <1>9, <1>10, <1>11, <2>1
    <2>3. ASSUME NEW n \in 1 .. 13, n # 4 PROVE pb[n] \in 0 .. 255
      <3>1. n \in {1, 2, 3, 5, 6, 7, 8, 9, 10, 11, 12, 13} BY <2>3
      <3> QED BY <2>2, <3>1
    <2> QED BY <2>3
  <1>13. pb[8] + 256 * pb[9] = hd.v_active + 1 BY <1>6, <1>7 DEF v
  <1>14. pb[12] + 256 * pb[13] = hd.h_active + 1 BY <1>6, <1>8 DEF h
  <1>15. (pb[1] \div 32 = 0) <=> (color_mode \in {PXL_RGB, Y_ONLY}) BY <1>3, <1>6, <1>9
  <1> QED BY <1>1, <1>6, <1>10, <1>11, <1>12, <1>13, <1>14, <1>15 DEF pb

(* A checksum makes up for the sum of the other bytes.                      *)
LEMMA ChecksumFits ==
  ASSUME NEW s \in Nat
  PROVE  (((256 - (s % 256)) % 256) + s) % 256 = 0
  <1> DEFINE r == s % 256
             q == s \div 256
  <1>1. r \in 0 .. 255 /\ q \in Nat /\ s = 256 * q + r OBVIOUS
  <1> HIDE DEF r, q
  <1>2. CASE r = 0
    <2>1. (256 - r) % 256 = 0 BY <1>2
    <2>2. 0 + s = 256 * q BY <1>1, <1>2
    <2>3. (256 * q) % 256 = 0 BY <1>1
    <2> QED BY <2>1, <2>2, <2>3 DEF r
  <1>3. CASE r # 0
    <2>1. (256 - r) % 256 = 256 - r BY <1>1, <1>3
    <2>2. (256 - r) + s = 256 * (q + 1) BY <1>1
    <2>3. (256 * (q + 1)) % 256 = 0 BY <1>1
    <2> QED BY <2>1, <2>2, <2>3 DEF r
  <1> QED BY <1>2, <1>3

(* It does so too where one of them was cut after it was added.             *)
LEMMA ChecksumFitsCut ==
  ASSUME NEW r \in Nat, NEW n \in Nat
  PROVE  (((256 - ((r + n) % 256)) % 256) + (r + (n % 256))) % 256 = 0
  <1> DEFINE m == n % 256
             q == n \div 256
  <1>1. m \in 0 .. 255 /\ q \in Nat /\ n = 256 * q + m OBVIOUS
  <1> HIDE DEF m, q
  <1>2. r + n = 256 * q + (r + m) /\ r + m \in Nat BY <1>1
  <1>3. (256 * q + (r + m)) % 256 = (r + m) % 256 BY <1>1, <1>2
  <1>4. (r + n) % 256 = (r + m) % 256 BY <1>2, <1>3
  <1>5. (((256 - ((r + m) % 256)) % 256) + (r + m)) % 256 = 0 BY <1>2, ChecksumFits
  <1> QED BY <1>4, <1>5 DEF m

(* What is sent of an entry that holds an AVI packet, byte by byte.         *)
LEMMA PacketSent ==
  ASSUME NEW e, NEW hd, NEW color_mode, NEW itu_ver, NEW stack,
         \A k \in 1 .. 5 : memory[e][k] = AviPacket(hd, color_mode, itu_ver, stack)[k]
  PROVE  LET pb == Fields(hd, color_mode, itu_ver) IN
         /\ \A i \in 1 .. 3 : SentHeader(e)[i] = Header[i]
         /\ SentBody(e)[0] = Checksum(Header, pb) % 256
         /\ \A i \in 1 .. 13 : SentBody(e)[i] = pb[i] % 256
  <1> DEFINE pb == Fields(hd, color_mode, itu_ver)
             sum == Checksum(Header, pb) % 256
             byte(n) == pb[n] % 256
  <1>1. AviPacket(hd, color_mode, itu_ver, stack) =
           <<<<0, Header[1], Header[2], Header[3]>>, <<sum, byte(1), byte(2), byte(3)>>,
             <<byte(4), byte(5), byte(6), byte(7)>>, <<byte(8), byte(9), byte(10), byte(11)>>,
             <<byte(12), byte(13), stack, stack>>>>
    BY DEF AviPacket
  <1> HIDE DEF pb, sum, byte
  <1>2. /\ memory[e][1] = <<0, Header[1], Header[2], Header[3]>>
        /\ memory[e][2] = <<sum, byte(1), byte(2), byte(3)>>
        /\ memory[e][3] = <<byte(4), byte(5), byte(6), byte(7)>>
        /\ memory[e][4] = <<byte(8), byte(9), byte(10), byte(11)>>
        /\ memory[e][5] = <<byte(12), byte(13), stack, stack>>
    BY <1>1
  <1>3. /\ SentByte(e, 1) = Header[1] /\ SentByte(e, 2) = Header[2]
        /\ SentByte(e, 3) = Header[3] /\ SentByte(e, 4) = sum
    <2>1. /\ 1 \div 4 = 0 /\ 2 \div 4 = 0 /\ 3 \div 4 = 0 /\ 4 \div 4 = 1
          /\ 1 % 4 = 1 /\ 2 % 4 = 2 /\ 3 % 4 = 3 /\ 4 % 4 = 0
      OBVIOUS
    <2> QED BY <1>2, <2>1 DEF SentByte
  <1>4. /\ SentByte(e, 5) = byte(1) /\ SentByte(e, 6) = byte(2) /\ SentByte(e, 7) = byte(3)
        /\ SentByte(e, 8) = byte(4) /\ SentByte(e, 9) = byte(5) /\ SentByte(e, 10) = byte(6)
        /\ SentByte(e, 11) = byte(7)
    <2>1. /\ 5 \div 4 = 1 /\ 6 \div 4 = 1 /\ 7 \div 4 = 1 /\ 8 \div 4 = 2
          /\ 9 \div 4 = 2 /\ 10 \div 4 = 2 /\ 11 \div 4 = 2
          /\ 5 % 4 = 1 /\ 6 % 4 = 2 /\ 7 % 4 = 3 /\ 8 % 4 = 0
          /\ 9 % 4 = 1 /\ 10 % 4 = 2 /\ 11 % 4 = 3
      OBVIOUS
    <2> QED BY <1>2, <2>1 DEF SentByte
  <1>5. /\ SentByte(e, 12) = byte(8) /\ SentByte(e, 13) = byte(9)
        /\ SentByte(e, 14) = byte(10) /\ SentByte(e, 15) = byte(11)
        /\ SentByte(e, 16) = byte(12) /\ SentByte(e, 17) = byte(13)
    <2>1. /\ 12 \div 4 = 3 /\ 13 \div 4 = 3 /\ 14 \div 4 = 3 /\ 15 \div 4 = 3
          /\ 16 \div 4 = 4 /\ 17 \div 4 = 4
          /\ 12 % 4 = 0 /\ 13 % 4 = 1 /\ 14 % 4 = 2 /\ 15 % 4 = 3
          /\ 16 % 4 = 0 /\ 17 % 4 = 1
      OBVIOUS
    <2> QED BY <1>2, <2>1 DEF SentByte
  <1>6. \A i \in 1 .. 3 : SentHeader(e)[i] = Header[i]
    <2>1. \A i \in 1 .. 3 : i \in {1, 2, 3} OBVIOUS
    <2> QED BY <1>3, <2>1 DEF SentHeader
  <1>7. SentBody(e)[0] = sum BY <1>3 DEF SentBody
  <1>8. ASSUME NEW i \in 1 .. 13 PROVE SentBody(e)[i] = byte(i)
    <2>1. SentBody(e)[i] = SentByte(e, i + 4) BY DEF SentBody
    <2>2. i \in {1, 2, 3, 4, 5, 6, 7, 8, 9, 10, 11, 12, 13} OBVIOUS
    <2> HIDE DEF byte
    <2> QED BY <1>4, <1>5, <2>1, <2>2
  <1> QED BY <1>6, <1>7, <1>8 DEF pb, sum, byte

LEMMA AviRead ==
  ASSUME NEW e, NEW hd, FitsAvi(hd), NEW color_mode \in Formats, NEW itu_ver \in BtTypes,
         NEW stack,
         \A k \in 1 .. 5 : memory[e][k] = AviPacket(hd, color_mode, itu_ver, stack)[k]
  PROVE  LET pb == SentBody(e) IN
         /\ (pb[0] + pb1_13_chksum(SentHeader(e), pb)) % 256 = 0
         /\ pb[8] + 256 * pb[9] = hd.v_active + 1
         /\ pb[12] + 256 * pb[13] = hd.h_active + 1
         /\ pb[4] = hd.vic % 256 /\ pb[5] % 16 = hd.vic_pr /\ pb[2] % 16 = hd.vic_r3
         /\ (pb[1] \div 32 = 0) <=> (color_mode \in {PXL_RGB, Y_ONLY})
  <1> DEFINE pb == SentBody(e)
             hb == SentHeader(e)
             set == Fields(hd, color_mode, itu_ver)
             s == pb1_13_chksum(Header, set)
             r == Header[1] + Header[2] + Header[3] + set[1] + set[2] + set[3] + set[5]
                  + set[6] + set[7] + set[8] + set[9] + set[10] + set[11] + set[12] + set[13]
  <1>1. /\ \A n \in 1 .. 13 : n # 4 => set[n] \in 0 .. 255
        /\ set[8] + 256 * set[9] = hd.v_active + 1
        /\ set[12] + 256 * set[13] = hd.h_active + 1
        /\ set[4] = hd.vic /\ hd.vic \in Nat /\ set[5] % 16 = hd.vic_pr /\ set[2] % 16 = hd.vic_r3
        /\ (set[1] \div 32 = 0) <=> (color_mode \in {PXL_RGB, Y_ONLY})
    BY FieldsRead, ZenonT(60)
  <1>2. /\ \A i \in 1 .. 3 : hb[i] = Header[i]
        /\ pb[0] = Checksum(Header, set) % 256
        /\ \A i \in 1 .. 13 : pb[i] = set[i] % 256
    BY PacketSent
  <1> HIDE DEF pb, hb, set
  <1>3. \A i \in 1 .. 13 : i # 4 => pb[i] = set[i]
    <2>1. ASSUME NEW i \in 1 .. 13, i # 4 PROVE pb[i] = set[i]
      <3>1. set[i] \in 0 .. 255 /\ pb[i] = set[i] % 256 BY <1>1, <1>2, <2>1
      <3> QED BY <3>1, ByteKept
    <2> QED BY <2>1
  <1>4. /\ Header[1] \in Nat /\ Header[2] \in Nat /\ Header[3] \in Nat
        /\ set[1] \in Nat /\ set[2] \in Nat /\ set[3] \in Nat /\ set[4] \in Nat
        /\ set[5] \in Nat /\ set[6] \in Nat /\ set[7] \in Nat /\ set[8] \in Nat
        /\ set[9] \in Nat /\ set[10] \in Nat /\ set[11] \in Nat /\ set[12] \in Nat
        /\ set[13] \in Nat
    <2>1. Header[1] \in Nat /\ Header[2] \in Nat /\ Header[3] \in Nat BY DEF Header, AVI
    <2>2. ASSUME NEW n \in 1 .. 13, n # 4 PROVE set[n] \in Nat
      <3>1. set[n] \in 0 .. 255 BY <1>1, <2>2
      <3> QED BY <3>1
    <2>3. set[4] \in Nat BY <1>1
    <2> QED BY <2>1, <2>2, <2>3
  <1>5. r \in Nat /\ s = r + set[4]
    <2>1. s = Header[1] + Header[2] + Header[3] + set[1] + set[2] + set[3] + set[4] + set[5]
              + set[6] + set[7] + set[8] + set[9] + set[10] + set[11] + set[12] + set[13]
      BY DEF pb1_13_chksum
    <2> HIDE DEF s
    <2> QED BY <1>4, <2>1
  <1>6. pb1_13_chksum(hb, pb) = r + (set[4] % 256)
    <2>1. hb[1] = Header[1] /\ hb[2] = Header[2] /\ hb[3] = Header[3] BY <1>2
    <2>2. /\ pb[1] = set[1] /\ pb[2] = set[2] /\ pb[3] = set[3] /\ pb[4] = set[4] % 256
          /\ pb[5] = set[5] /\ pb[6] = set[6] /\ pb[7] = set[7] /\ pb[8] = set[8]
          /\ pb[9] = set[9] /\ pb[10] = set[10] /\ pb[11] = set[11] /\ pb[12] = set[12]
          /\ pb[13] = set[13]
      BY <1>2, <1>3
    <2>3. pb1_13_chksum(hb, pb) =
             Header[1] + Header[2] + Header[3] + set[1] + set[2] + set[3] + (set[4] % 256)
             + set[5] + set[6] + set[7] + set[8] + set[9] + set[10] + set[11] + set[12] + set[13]
      BY <2>1, <2>2, Zenon DEF pb1_13_chksum
    <2>4. set[4] % 256 \in Nat BY <1>4
    <2> QED BY <1>4, <2>3, <2>4
  <1>7. pb[0] = (256 - (s % 256)) % 256 BY <1>2 DEF Checksum
  <1> HIDE DEF s, r
  <1>8. (pb[0] + pb1_13_chksum(hb, pb)) % 256 = 0 BY <1>4, <1>5, <1>6, <1>7, ChecksumFitsCut
  <1>9. /\ pb[1] = set[1] /\ pb[2] = set[2] /\ pb[4] = set[4] % 256 /\ pb[5] = set[5]
        /\ pb[8] = set[8] /\ pb[9] = set[9] /\ pb[12] = set[12] /\ pb[13] = set[13]
    BY <1>2, <1>3
  <1> QED BY <1>1, <1>8, <1>9 DEF pb, hb

(* Every AVI packet that is sent adds up to zero and tells of the mode it   *)
(* was made from, for all modes whose parts make their wholes and whose     *)
(* numbers fit the packet (the vic need not), in every format and           *)
(* colorimetry, as long as no other caller sends packets of that type.      *)
THEOREM AviPacketsTell ==
  ASSUME \A hd \in Modes : FitsAvi(hd), \A o \in Other : o.type # AVI
  PROVE  Spec => []AviTellsMode
  <1>1. PacketInv /\ AviInv /\ [Next]_vars => AviInv' BY AviStepInv
  <1>2. PacketInv /\ AviInv /\ SendsWhatWasSet => AviTellsMode
    <2> SUFFICES ASSUME PacketInv, AviInv, SendsWhatWasSet PROVE AviTellsMode OBVIOUS
    <2> SUFFICES
          ASSUME NEW e \in AviEntries
          PROVE  LET pb == SentBody(e)
                     hd == current[e].from[1]
                     color_mode == current[e].from[2]
                 IN /\ (pb[0] + pb1_13_chksum(SentHeader(e), pb)) % 256 = 0
                    /\ pb[8] + 256 * pb[9] = hd.v_active + 1
                    /\ pb[12] + 256 * pb[13] = hd.h_active + 1
                    /\ pb[4] = hd.vic % 256 /\ pb[5] % 16 = hd.vic_pr /\ pb[2] % 16 = hd.vic_r3
                    /\ (pb[1] \div 32 = 0) <=> (color_mode \in {PXL_RGB, Y_ONLY})
      BY DEF AviTellsMode
    <2> DEFINE p == current[e].packet
    <2>1. /\ e \in Entries /\ current[e].type = AVI
          /\ SubSeq(memory[e], 1, Len(p)) = p
      BY DEF AviEntries, SendsWhatWasSet
    <2>2. PICK hd \in Modes, color_mode \in Formats, itu_ver \in BtTypes, stack \in Stack :
             /\ p = AviPacket(hd, color_mode, itu_ver, stack)
             /\ current[e].from = <<hd, color_mode, itu_ver>>
      BY <2>1 DEF AviInv, MadeOf
    <2>3. Len(p) = 5 /\ p \in Seq(Words)
      <3>1. p \in Packets BY <2>2 DEF Packets, AviPackets
      <3>2. PICK a, b, c, d, f : p = <<a, b, c, d, f>> BY <2>2 DEF AviPacket
      <3> QED BY <3>1, <3>2, PacketSeq
    <2>4. \A k \in 1 .. 5 : memory[e][k] = p[k]
      <3>1. memory[e] \in Seq(Words) BY <2>1 DEF PacketInv, Shapes
      <3> HIDE DEF p
      <3> QED BY <2>1, <2>3, <3>1
    <2>5. current[e].from[1] = hd /\ current[e].from[2] = color_mode BY <2>2
    <2> QED BY <2>2, <2>4, <2>5, AviRead
  <1> QED BY <1>1, <1>2, AviInitInv, PacketInvariance, PacketsCorrect, PTL DEF Spec

(* The rows of vic_table.c fit, whatever vic is handed over with them.      *)
LEMMA RowsFit ==
  ASSUME NEW i \in 1 .. 5, NEW n \in Nat
  PROVE  FitsAvi([vic_table[i] EXCEPT !.vic = n])
  <1> USE DEF FitsAvi, Consistent, ModeType, Mode
  <1>1. FitsAvi([VIC_3 EXCEPT !.vic = n]) BY DEF VIC_3
  <1>2. FitsAvi([VIC_4 EXCEPT !.vic = n]) BY DEF VIC_4
  <1>3. FitsAvi([VIC_16 EXCEPT !.vic = n]) BY DEF VIC_16
  <1>4. FitsAvi([VIC_97 EXCEPT !.vic = n]) BY DEF VIC_97
  <1>5. FitsAvi([VIC_95 EXCEPT !.vic = n]) BY DEF VIC_95
  <1>6. vic_table[i] \in {VIC_3, VIC_4, VIC_16, VIC_97, VIC_95}
    <2>1. i \in {1, 2, 3, 4, 5} OBVIOUS
    <2> HIDE DEF FitsAvi, Mode
    <2> QED BY <2>1 DEF vic_table
  <1> HIDE DEF FitsAvi
  <1> QED BY <1>1, <1>2, <1>3, <1>4, <1>5, <1>6

(* So the packets made of the modes of vic_table.c tell of them, with the   *)
(* vic of the row or with another, as the examples' hd has.                 *)
COROLLARY CodePacketsTell ==
  ASSUME Modes \subseteq {[vic_table[i] EXCEPT !.vic = n] : i \in 1 .. 5, n \in Nat},
         \A o \in Other : o.type # AVI
  PROVE  Spec => []AviTellsMode
  <1>1. \A hd \in Modes : FitsAvi(hd) BY RowsFit
  <1> QED BY <1>1, AviPacketsTell

=============================================================================
