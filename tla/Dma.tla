---------------------------------- MODULE Dma ----------------------------------
(***************************************************************************)
(* dma.c: the translation between the pool's virtual and physical addresses *)
(* with C's conversions, and the layout dma_offsets.h gives the pool.       *)
(* Addresses and sizes are in bytes; a machine word has Word values (2^32), *)
(* a uintptr_t Word^2.                                                      *)
(***************************************************************************)
EXTENDS Integers

CONSTANTS
    Word,               \* values of a 32-bit word
    phys_base,          \* dma_base_paddr, which the Microkit tool fills in
    virt_base,          \* dma_base: the pool's vaddr (sel4-hdmi.system)
    FRAME_BUFFER_SIZE,  \* dma_offsets.h
    SPACING             \* the 100000 between the small regions behind the buffers

Long == Word * Word
ToLong(n) == n % Long
ToInt(n) == LET m == n % Word IN IF m < Word \div 2 THEN m ELSE m - Word

(* getPhys(): an unsigned long less an int, kept in an int.                 *)
Offset(virt) == ToInt(ToLong(virt - ToInt(virt_base)))
getPhys(virt) == ToLong(phys_base + Offset(virt))

-----------------------------------------------------------------------------

FRAME_BUFFER_ONE_OFFSET == 0
FRAME_BUFFER_TWO_OFFSET == FRAME_BUFFER_SIZE

(* The end of the first frame buffer taken for the end of the second.       *)
CTX_LD_DB_ONE_ADDR_Single == FRAME_BUFFER_SIZE
CTX_LD_DB_ONE_ADDR == FRAME_BUFFER_SIZE * 2

CTX_LD_DB_TWO_ADDR == FRAME_BUFFER_SIZE * 2 + SPACING

ACTIVE_FRAME_BUFFER_ADDR_OFFSET == FRAME_BUFFER_SIZE * 2 + 2 * SPACING

CACHE_FRAME_BUFFER_ADDR_OFFSET == FRAME_BUFFER_SIZE * 2 + 3 * SPACING
DMA_SIZE == FRAME_BUFFER_SIZE * 3

(* An entry is two words and so is what the client reads of an offset word. *)
LayoutFits ==
    /\ FRAME_BUFFER_SIZE \in Nat \ {0} /\ FRAME_BUFFER_SIZE % 4 = 0
    /\ SPACING \in Nat /\ SPACING % 4 = 0 /\ SPACING >= 8
    /\ 3 * SPACING + 8 <= FRAME_BUFFER_SIZE

(* The pool's size fits an int, and its physical addresses fit the 32-bit   *)
(* registers and entries they are written to.                              *)
PoolFits ==
    /\ Word \in Nat \ {0} /\ Word % 2 = 0
    /\ DMA_SIZE < Word \div 2
    /\ phys_base \in Nat \ {0} /\ phys_base + DMA_SIZE <= Word
    /\ virt_base \in Nat /\ virt_base + DMA_SIZE <= Long

ASSUME LayoutAssumption == LayoutFits
ASSUME PoolAssumption == PoolFits

=============================================================================
