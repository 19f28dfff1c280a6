-------------------------------- MODULE DmaPool --------------------------------
(***************************************************************************)
(* The DMA pool store by store: the client's pixels and clears              *)
(* (frame_buffer.c, an example's write_fb()), the dcss PD's offset words    *)
(* (dcss.c, context_loader.c) and context-loader entries, and the loader    *)
(* that reads them.  Who runs when is HdmiDriver's matter; here a store of  *)
(* the one PD may come between any two of the other, and what is asked is   *)
(* whether each lands where it should and is read back as it was meant.     *)
(***************************************************************************)
EXTENDS Dma, FiniteSets

CONSTANTS
    Geometries,     \* the [h_active, v_active] of the clients' modes
    MaxFrames,      \* bound on the frames drawn
    dcss_base,      \* the vaddr of the display controller (sel4-hdmi.system)
    dcss_paddr,     \* its phys_addr
    DPR_1_FRAME_1P_BASE_ADDR_CTRL0  \* dpr.h

(* Clears go by pairs of pixels, and a picture fits a frame buffer.         *)
GeometryFits(g) ==
    /\ g.h_active \in Nat \ {0} /\ g.v_active \in Nat \ {0}
    /\ g.h_active % 2 = 0
    /\ 4 * (g.h_active * g.v_active) <= FRAME_BUFFER_SIZE

ASSUME GeometriesAssumption == \A g \in Geometries : GeometryFits(g)
ASSUME MaxFramesAssumption == MaxFrames \in 0 .. Word - 1
ASSUME DcssAssumption ==
    /\ dcss_base \in Nat /\ dcss_base = dcss_paddr
    /\ DPR_1_FRAME_1P_BASE_ADDR_CTRL0 \in Nat \ {0}
    /\ dcss_paddr + DPR_1_FRAME_1P_BASE_ADDR_CTRL0 < Word

VARIABLES
    mem,        \* the pool's 32-bit cells, by offset
    \* client PD
    hd,         \* the mode: a geometry
    cursor,     \* where the next store goes
    left,       \* the stores that are left
    width,      \* their width in bytes
    pen,        \* what they store
    drawn,      \* frames begun
    \* dcss PD
    dpc, moving, context,
    \* hardware
    db_base, dpr_base,
    \* history: the buffer being stored to, and what each buffer was given
    target, given

clientVars == <<hd, cursor, left, width, pen, drawn>>
dcssVars == <<dpc, moving, context>>
hwVars == <<db_base, dpr_base>>
history == <<target, given>>
vars == <<mem, clientVars, dcssVars, hwVars, history>>

Cells == {a \in 0 .. DMA_SIZE - 1 : a % 4 = 0}
Buffers == {FRAME_BUFFER_ONE_OFFSET, FRAME_BUFFER_TWO_OFFSET}
Contexts == {0, 1}
Pens == 0 .. MaxFrames

Nothing == [pen |-> 0, bytes |-> 0]

(* Microkit gives the PDs a zeroed region.                                 *)
Init ==
    /\ mem = [a \in Cells |-> 0]
    /\ hd \in Geometries
    /\ cursor = virt_base /\ left = 0 /\ width = 4 /\ pen = 0 /\ drawn = 0
    /\ dpc = "init_active" /\ moving = FALSE /\ context = 0
    /\ db_base = 0 /\ dpr_base = 0
    /\ target = FRAME_BUFFER_ONE_OFFSET
    /\ given = [b \in Buffers |-> Nothing]

-----------------------------------------------------------------------------
(* The client.  It starts after the dcss PD's init(), which outranks it.    *)

ClientReady == left = 0 /\ dpc \notin {"init_active", "init_cache"}

(* get_..._frame_buffer_uintN(): the offset word is read as a uintptr_t.    *)
OffsetAt(word) == mem[word] + Word * mem[word + 4]

(* A picture of n stores of w bytes begins at the buffer the word names.    *)
Begin(word, n, w, p) ==
    /\ ClientReady
    /\ cursor' = virt_base + OffsetAt(word)
    /\ left' = n /\ width' = w /\ pen' = p
    /\ target' = OffsetAt(word)
    /\ given' = [given EXCEPT ![OffsetAt(word)] = Nothing]
    /\ UNCHANGED <<mem, dcssVars, hwVars>>

(* static_image(), moving_image(): *hd = dc.hd.                             *)
SetHd ==
    /\ ClientReady
    /\ hd' \in Geometries
    /\ UNCHANGED <<mem, cursor, left, width, pen, drawn, dcssVars, hwVars, history>>

(* write_fb(): every pixel of the active buffer.                           *)
WriteFb ==
    /\ drawn < MaxFrames
    /\ Begin(ACTIVE_FRAME_BUFFER_ADDR_OFFSET, hd.h_active * hd.v_active, 4, drawn + 1)
    /\ drawn' = drawn + 1
    /\ UNCHANGED hd

(* Clearing every pixel with a store of two.                               *)
ClearStores_Unhalved == hd.v_active * hd.h_active
ClearStores == hd.v_active * (hd.h_active \div 2)

clear_current_frame_buffer ==
    /\ Begin(ACTIVE_FRAME_BUFFER_ADDR_OFFSET, ClearStores, 8, 0)
    /\ UNCHANGED <<hd, drawn>>

clear_current_cache_buffer ==
    /\ Begin(CACHE_FRAME_BUFFER_ADDR_OFFSET, ClearStores, 8, 0)
    /\ UNCHANGED <<hd, drawn>>

(* The cells one store covers.                                             *)
Covered(a) == a >= cursor - virt_base /\ a < cursor - virt_base + width

PictureBytes == 4 * (hd.h_active * hd.v_active)

Store ==
    /\ left > 0
    /\ mem' = [a \in Cells |-> IF Covered(a) THEN pen ELSE mem[a]]
    /\ cursor' = cursor + width
    /\ left' = left - 1
    /\ given' = IF left = 1
                THEN [given EXCEPT ![target] = [pen |-> pen, bytes |-> PictureBytes]]
                ELSE given
    /\ UNCHANGED <<hd, width, pen, drawn, dcssVars, hwVars, target>>

Client ==
    \/ SetHd \/ WriteFb
    \/ clear_current_frame_buffer \/ clear_current_cache_buffer \/ Store

-----------------------------------------------------------------------------
(* The dcss PD: one action per store to the pool or to a register.          *)

(* A store of 32 bits, and the step it leads to.                           *)
Put(pc, a, value, next) ==
    /\ dpc = pc
    /\ mem' = [mem EXCEPT ![a] = value % Word]
    /\ dpc' = next
    /\ UNCHANGED <<clientVars, moving, hwVars, history>>

InitActive ==
    /\ Put("init_active", ACTIVE_FRAME_BUFFER_ADDR_OFFSET, FRAME_BUFFER_ONE_OFFSET, "init_cache")
    /\ UNCHANGED context

InitCache ==
    /\ Put("init_cache", CACHE_FRAME_BUFFER_ADDR_OFFSET, FRAME_BUFFER_TWO_OFFSET, "recv")
    /\ UNCHANGED context

(* protected(): a static or a moving image; notified(52): the next load.    *)
Protected ==
    /\ dpc = "recv"
    /\ moving' \in BOOLEAN
    /\ dpc' = "dpr"
    /\ UNCHANGED <<mem, clientVars, context, hwVars, history>>

Notified ==
    /\ dpc = "recv" /\ moving
    /\ dpc' = "select"
    /\ UNCHANGED <<mem, clientVars, moving, context, hwVars, history>>

write_dpr_memory_registers ==
    /\ dpc = "dpr"
    /\ dpr_base' = getPhys(virt_base) % Word
    /\ dpc' = IF moving THEN "fb1" ELSE "recv"
    /\ UNCHANGED <<mem, clientVars, moving, context, db_base, history>>

(* init_context_loader(): each entry is a frame buffer and the register it  *)
(* goes to.                                                                *)
DprRegister == dcss_base + DPR_1_FRAME_1P_BASE_ADDR_CTRL0

(* The second buffer's address taken from the first one's pointer.          *)
EntryTwoBuffer_First ==
    /\ Put("fb2", CTX_LD_DB_TWO_ADDR, getPhys(virt_base), "reg2")
    /\ UNCHANGED context

EntryOneBuffer ==
    /\ Put("fb1", CTX_LD_DB_ONE_ADDR, getPhys(virt_base), "reg1")
    /\ UNCHANGED context
EntryOneRegister ==
    /\ Put("reg1", CTX_LD_DB_ONE_ADDR + 4, DprRegister, "fb2")
    /\ UNCHANGED context
EntryTwoBuffer ==
    /\ Put("fb2", CTX_LD_DB_TWO_ADDR, getPhys(virt_base + FRAME_BUFFER_TWO_OFFSET), "reg2")
    /\ UNCHANGED context
EntryTwoRegister ==
    /\ Put("reg2", CTX_LD_DB_TWO_ADDR + 4, DprRegister, "select")
    /\ UNCHANGED context

(* run_context_loader(): the entry of the context is selected, loaded, and  *)
(* the other buffer handed out.                                            *)
ContextOffset == IF context = 0 THEN CTX_LD_DB_ONE_ADDR ELSE CTX_LD_DB_TWO_ADDR

SelectEntry ==
    /\ dpc = "select"
    /\ db_base' = getPhys(virt_base + ContextOffset) % Word
    /\ dpc' = "load"
    /\ UNCHANGED <<mem, clientVars, moving, context, dpr_base, history>>

(* The hardware writes the entry's value to the register it names.          *)
ContextLoad ==
    /\ dpc = "load"
    /\ LET entry == db_base - phys_base
       IN dpr_base' = IF mem[entry + 4] = dcss_paddr + DPR_1_FRAME_1P_BASE_ADDR_CTRL0
                      THEN mem[entry] ELSE dpr_base
    /\ dpc' = "set_active"
    /\ UNCHANGED <<mem, clientVars, moving, context, db_base, history>>

SetActive ==
    /\ Put("set_active", ACTIVE_FRAME_BUFFER_ADDR_OFFSET,
           IF context = 0 THEN FRAME_BUFFER_TWO_OFFSET ELSE FRAME_BUFFER_ONE_OFFSET,
           "set_cache")
    /\ UNCHANGED context

SetCache ==
    /\ Put("set_cache", CACHE_FRAME_BUFFER_ADDR_OFFSET,
           IF context = 0 THEN FRAME_BUFFER_ONE_OFFSET ELSE FRAME_BUFFER_TWO_OFFSET,
           "recv")
    /\ context' = IF context = 1 THEN 0 ELSE 1

Dcss ==
    \/ InitActive \/ InitCache \/ Protected \/ Notified
    \/ write_dpr_memory_registers
    \/ EntryOneBuffer \/ EntryOneRegister \/ EntryTwoBuffer \/ EntryTwoRegister
    \/ SelectEntry \/ ContextLoad \/ SetActive \/ SetCache

Next == Client \/ Dcss

Spec == Init /\ [][Next]_vars

-----------------------------------------------------------------------------

Steps == {"init_active", "init_cache", "recv", "dpr", "fb1", "reg1", "fb2", "reg2",
          "select", "load", "set_active", "set_cache"}

TypeOK ==
    /\ mem \in [Cells -> 0 .. Word - 1]
    /\ hd \in Geometries
    /\ cursor \in Nat /\ left \in Nat /\ width \in {4, 8}
    /\ pen \in Pens /\ drawn \in Pens
    /\ dpc \in Steps /\ moving \in BOOLEAN /\ context \in Contexts
    /\ db_base \in Nat /\ dpr_base \in Nat
    /\ target \in Buffers
    /\ given \in [Buffers -> [pen : Pens, bytes : Nat]]

(* The client reads 64 bits where the dcss PD writes 32 (frame_buffer.c:13, *)
(* dcss.c:41): what it gets is a frame buffer, for nobody ever stores in    *)
(* the four bytes behind an offset word.                                   *)
OffsetsReadBack ==
    /\ OffsetAt(ACTIVE_FRAME_BUFFER_ADDR_OFFSET) \in Buffers
    /\ OffsetAt(CACHE_FRAME_BUFFER_ADDR_OFFSET) \in Buffers

(* A store never leaves the buffer its picture began in: the pictures stay  *)
(* off each other, off the entries and off the offset words.               *)
StoresStayHome ==
    left > 0 => /\ cursor - virt_base >= target
                /\ cursor - virt_base + left * width <= target + FRAME_BUFFER_SIZE

(* What a buffer was given last, a frame or the black of a clear, it holds  *)
(* to the last pixel until the client turns to it again, whatever either PD *)
(* stores in between.                                                      *)
PicturesKept ==
    \A b \in Buffers : \A a \in Cells :
        a >= b /\ a < b + given[b].bytes => mem[a] = given[b].pen

(* The display fetches from the head of a frame buffer.                     *)
BaseIsBuffer == dpr_base # 0 => dpr_base - phys_base \in Buffers

-----------------------------------------------------------------------------
(* The pool as Platform sees it.                                           *)

NoBuffer == -1
BufferOf(c) == IF c = 0 THEN FRAME_BUFFER_ONE_OFFSET ELSE FRAME_BUFFER_TWO_OFFSET
EntryOffset(c) == IF c = 0 THEN CTX_LD_DB_ONE_ADDR ELSE CTX_LD_DB_TWO_ADDR
EntryBuffer(c) ==
    IF mem[EntryOffset(c) + 4] = DprRegister THEN mem[EntryOffset(c)] - phys_base
    ELSE NoBuffer
Pixels(b) == {mem[a] : a \in {c \in Cells : c >= b /\ c < b + FRAME_BUFFER_SIZE}}

Pool == INSTANCE BufferStore WITH
    EntryOf <- BufferOf,
    active <- OffsetAt(ACTIVE_FRAME_BUFFER_ADDR_OFFSET),
    cache <- OffsetAt(CACHE_FRAME_BUFFER_ADDR_OFFSET),
    entry <- [c \in Contexts |-> EntryBuffer(c)],
    base <- IF dpr_base = 0 THEN NoBuffer ELSE dpr_base - phys_base,
    picture <- [b \in Buffers |-> Pixels(b)]

(* Bytes in one pool behave as the separate cells HdmiDriver is built on:   *)
(* each store of either PD changes one of them, and a load brings the base  *)
(* address its context's entry was given.                                  *)
ImplementsStore == Pool!Spec

=============================================================================
