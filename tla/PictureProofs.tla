----------------------------- MODULE PictureProofs -----------------------------
(***************************************************************************)
(* What is in the frame buffers.                                           *)
(*                                                                         *)
(* The DMA pool, for every buffer size, spacing, virtual and physical       *)
(* address that LayoutAssumption and PoolAssumption allow: the layout's     *)
(* arithmetic, getPhys(), the invariant, and the refinement.               *)
(*                                                                         *)
(* The moving square, whatever the size of picture and square and wherever  *)
(* it turns, leaves no trail: the example's count of buffers is the         *)
(* driver's at each frame, so that what it remembers of a buffer is all     *)
(* that the buffer holds.  And it stays in the picture wherever its path    *)
(* misses the corners, as it does at the sizes of the example.              *)
(*                                                                         *)
(* The pictures of the other examples, at any sizes that ModesAssumption     *)
(* allows: that static_image's running alpha is the closed form Fade()       *)
(* follows by the least place where the two would differ, and each picture  *)
(* by what its buffer held before: nothing, or an older one, drawn over.    *)
(***************************************************************************)
EXTENDS DmaPool, MovingSquare, ExamplePictures, WellFoundedInduction, TLAPS

-----------------------------------------------------------------------------
(* The inductive invariant: what each region of the pool holds whichever    *)
(* step either PD is at.                                                   *)

(* An offset word's lower half names a buffer, and its upper half, which    *)
(* nobody stores to, is zero as Microkit left it.                          *)
OffsetWordsHold ==
    \A word \in {ACTIVE_FRAME_BUFFER_ADDR_OFFSET, CACHE_FRAME_BUFFER_ADDR_OFFSET} :
        mem[word] \in Buffers /\ mem[word + 4] = 0

(* An entry names its buffer before it names the register.                 *)
EntryHolds(c) ==
    /\ mem[EntryOffset(c) + 4] \in {0, DprRegister}
    /\ mem[EntryOffset(c) + 4] = DprRegister => mem[EntryOffset(c)] = phys_base + BufferOf(c)

EntriesHold ==
    /\ \A c \in Contexts : EntryHolds(c)
    /\ dpc = "reg1" => mem[EntryOffset(0)] = phys_base + BufferOf(0)
    /\ dpc = "reg2" => mem[EntryOffset(1)] = phys_base + BufferOf(1)

LoaderHolds ==
    /\ dpc = "load" => db_base = phys_base + EntryOffset(context)
    /\ dpr_base \in {0} \union {phys_base + b : b \in Buffers}

(* The stores done and those left make up the picture, which began at the   *)
(* head of its buffer; what was stored is there.                           *)
PaintingHolds ==
    left > 0 =>
        /\ cursor >= virt_base + target
        /\ cursor - virt_base + left * width = target + PictureBytes
        /\ given[target] = Nothing
        /\ \A a \in Cells : a >= target /\ a < cursor - virt_base => mem[a] = pen

GivenFits == \A b \in Buffers : given[b].bytes <= FRAME_BUFFER_SIZE

PoolInv ==
    /\ TypeOK
    /\ OffsetWordsHold
    /\ EntriesHold
    /\ LoaderHolds
    /\ PaintingHolds
    /\ GivenFits
    /\ PicturesKept

-----------------------------------------------------------------------------
(* What \div and % return, for divisors that are no literals.               *)

(* Quotient and remainder are unique.                                      *)
LEMMA QuotientUnique ==
  ASSUME NEW m \in Nat \ {0}, NEW q \in Int, NEW r \in 0 .. m - 1,
         NEW p \in Int, NEW s \in 0 .. m - 1, m * q + r = m * p + s
  PROVE  q = p /\ r = s
  <1>1. m * (q - p) = s - r OBVIOUS
  <1>2. CASE q > p
    <2>1. m * (q - p) >= m BY <1>2
    <2> QED BY <1>1, <2>1
  <1>3. CASE q < p
    <2>1. m * (q - p) <= -m BY <1>3
    <2> QED BY <1>1, <2>1
  <1>4. CASE q = p BY <1>4, <1>1
  <1> QED BY <1>2, <1>3, <1>4

(* What the operators \div and % return.                                   *)
LEMMA DivMod ==
  ASSUME NEW m \in Nat \ {0}, NEW n \in Int
  PROVE  /\ n \div m \in Int /\ n % m \in 0 .. m - 1
         /\ n = m * (n \div m) + (n % m)
  OBVIOUS

(* A number written as a multiple of m and a rest has that rest for remainder. *)
LEMMA RemainderOf ==
  ASSUME NEW m \in Nat \ {0}, NEW q \in Int, NEW r \in 0 .. m - 1
  PROVE  (m * q + r) % m = r
  <1> DEFINE n == m * q + r
  <1>1. n \in Int OBVIOUS
  <1>2. n \div m \in Int /\ n % m \in 0 .. m - 1 /\ n = m * (n \div m) + (n % m)
    BY <1>1, DivMod
  <1>3. m * q + r = m * (n \div m) + (n % m) BY <1>2
  <1> HIDE DEF n
  <1>4. n % m = r BY <1>2, <1>3, QuotientUnique
  <1> QED BY <1>4 DEF n

(* ... and that multiple for quotient.                                     *)
LEMMA QuotientOf ==
  ASSUME NEW m \in Nat \ {0}, NEW q \in Int, NEW r \in 0 .. m - 1
  PROVE  (m * q + r) \div m = q
  <1> DEFINE n == m * q + r
  <1>1. n \in Int OBVIOUS
  <1>2. n \div m \in Int /\ n % m \in 0 .. m - 1 /\ n = m * (n \div m) + (n % m)
    BY <1>1, DivMod
  <1>3. m * q + r = m * (n \div m) + (n % m) BY <1>2
  <1> HIDE DEF n
  <1>4. n \div m = q BY <1>2, <1>3, QuotientUnique
  <1> QED BY <1>4 DEF n

(* A set of natural numbers that is not empty has a least member.          *)
LEMMA Least ==
  ASSUME NEW T \in SUBSET Nat, T # {}
  PROVE  \E n \in T : \A m \in T : n <= m
  <1> DEFINE R == {ss \in Nat \X Nat : ss[1] < ss[2]}
  <1>1. IsWellFoundedOn(R, Nat) BY NatLessThanWellFounded, Zenon DEF OpToRel
  <1>2. PICK n \in T : \A m \in T : ~(<<m, n>> \in R) BY <1>1, WFMin
  <1>3. \A m \in T : ~(m < n) BY <1>2
  <1> QED BY <1>3

-----------------------------------------------------------------------------
(* The layout.                                                             *)

(* The four small regions of dma_offsets.h.                                *)
Regions == {CTX_LD_DB_ONE_ADDR, CTX_LD_DB_TWO_ADDR, ACTIVE_FRAME_BUFFER_ADDR_OFFSET,
            CACHE_FRAME_BUFFER_ADDR_OFFSET}

LEMMA Sizes ==
  /\ FRAME_BUFFER_SIZE \in Nat \ {0} /\ FRAME_BUFFER_SIZE % 4 = 0
  /\ SPACING \in Nat /\ SPACING % 4 = 0 /\ SPACING >= 8
  /\ 3 * SPACING + 8 <= FRAME_BUFFER_SIZE
  /\ Word \in Nat \ {0} /\ Word \div 2 \in Nat /\ Word = 2 * (Word \div 2)
  /\ Long \in Nat \ {0} /\ Word <= Long
  /\ DMA_SIZE = 3 * FRAME_BUFFER_SIZE /\ DMA_SIZE < Word \div 2
  /\ phys_base \in Nat \ {0} /\ phys_base + DMA_SIZE <= Word
  /\ virt_base \in Nat
  <1>1. Word \in Nat \ {0} /\ Word % 2 = 0 BY PoolAssumption DEF PoolFits
  <1>2. Word \div 2 \in Int /\ Word = 2 * (Word \div 2) + (Word % 2) BY <1>1, DivMod
  <1>3. Word * Word \in Nat \ {0} /\ Word <= Word * Word BY <1>1
  <1> QED
    BY <1>1, <1>2, <1>3, LayoutAssumption, PoolAssumption
    DEF LayoutFits, PoolFits, DMA_SIZE, Long

(* Each small region's two words are cells behind both frame buffers, and   *)
(* no two regions share one.                                               *)
LEMMA RegionsApart ==
  /\ \A r \in Regions : r \in Cells /\ r + 4 \in Cells /\ r >= 2 * FRAME_BUFFER_SIZE
  /\ \A r, s \in Regions : r # s => r # s + 4 /\ r + 4 # s + 4
  /\ CTX_LD_DB_ONE_ADDR # CTX_LD_DB_TWO_ADDR
  /\ ACTIVE_FRAME_BUFFER_ADDR_OFFSET # CACHE_FRAME_BUFFER_ADDR_OFFSET
  /\ {CTX_LD_DB_ONE_ADDR, CTX_LD_DB_TWO_ADDR} \cap
     {ACTIVE_FRAME_BUFFER_ADDR_OFFSET, CACHE_FRAME_BUFFER_ADDR_OFFSET} = {}
  <1> DEFINE F == FRAME_BUFFER_SIZE
  <1>1. F \in Nat \ {0} /\ F % 4 = 0 /\ SPACING \in Nat /\ SPACING % 4 = 0 /\ SPACING >= 8
        /\ 3 * SPACING + 8 <= F /\ DMA_SIZE = 3 * F
    BY Sizes
  <1> HIDE DEF F
  <1>2. /\ CTX_LD_DB_ONE_ADDR = 2 * F /\ CTX_LD_DB_TWO_ADDR = 2 * F + SPACING
        /\ ACTIVE_FRAME_BUFFER_ADDR_OFFSET = 2 * F + 2 * SPACING
        /\ CACHE_FRAME_BUFFER_ADDR_OFFSET = 2 * F + 3 * SPACING
    BY <1>1 DEF F, CTX_LD_DB_ONE_ADDR, CTX_LD_DB_TWO_ADDR,
                ACTIVE_FRAME_BUFFER_ADDR_OFFSET, CACHE_FRAME_BUFFER_ADDR_OFFSET
  <1>3. \A r \in Regions : r \in Nat /\ r % 4 = 0 /\ r + 4 \in Nat /\ (r + 4) % 4 = 0
                           /\ r >= 2 * F /\ r + 4 < 3 * F
    BY <1>1, <1>2 DEF Regions
  <1>4. \A r \in Regions : r \in Cells /\ r + 4 \in Cells BY <1>1, <1>3 DEF Cells
  <1>5. \A r, s \in Regions : r # s => r # s + 4 /\ r + 4 # s + 4
    BY <1>1, <1>2 DEF Regions
  <1>6. /\ CTX_LD_DB_ONE_ADDR # CTX_LD_DB_TWO_ADDR
        /\ ACTIVE_FRAME_BUFFER_ADDR_OFFSET # CACHE_FRAME_BUFFER_ADDR_OFFSET
        /\ {CTX_LD_DB_ONE_ADDR, CTX_LD_DB_TWO_ADDR} \cap
           {ACTIVE_FRAME_BUFFER_ADDR_OFFSET, CACHE_FRAME_BUFFER_ADDR_OFFSET} = {}
    BY <1>1, <1>2
  <1> QED BY <1>3, <1>4, <1>5, <1>6 DEF F

(* The two buffers lie one after the other in front of them.               *)
LEMMA BuffersApart ==
  /\ Buffers = {0, FRAME_BUFFER_SIZE}
  /\ \A b \in Buffers : b \in Cells /\ b \in 0 .. Word - 1
                        /\ b + FRAME_BUFFER_SIZE <= 2 * FRAME_BUFFER_SIZE
  /\ \A b, c \in Buffers : b # c => b + FRAME_BUFFER_SIZE <= c \/ c + FRAME_BUFFER_SIZE <= b
  BY Sizes DEF Buffers, Cells, FRAME_BUFFER_ONE_OFFSET, FRAME_BUFFER_TWO_OFFSET

-----------------------------------------------------------------------------
(* getPhys().                                                              *)

(* A remainder modulo Word is not changed by going through 64 bits.         *)
LEMMA ThroughLong ==
  ASSUME NEW n \in Int
  PROVE  ToLong(n) % Word = n % Word
  <1> DEFINE q == n \div Long
             x == n % Long
             p == x \div Word
             r == x % Word
  <1>1. q \in Int /\ x \in 0 .. Long - 1 /\ n = Long * q + x BY Sizes, DivMod
  <1>2. p \in Int /\ r \in 0 .. Word - 1 /\ x = Word * p + r
    <2> HIDE DEF q, x
    <2> QED BY <1>1, Sizes, DivMod
  <1>3. n = Word * (Word * q + p) + r
    <2> HIDE DEF q, x, p, r
    <2> QED BY <1>1, <1>2, Sizes DEF Long
  <1>4. Word * q + p \in Int BY <1>1, <1>2, Sizes
  <1> HIDE DEF q, x, p, r
  <1>5. n % Word = r BY <1>2, <1>3, <1>4, Sizes, RemainderOf
  <1> QED BY <1>5 DEF ToLong, x, r

(* The difference to the pool's base survives both conversions: they lose   *)
(* multiples of Word only.                                                 *)
LEMMA OffsetKept ==
  ASSUME NEW o \in 0 .. DMA_SIZE - 1
  PROVE  Offset(virt_base + o) = o
  <1> DEFINE m == virt_base % Word
             q == virt_base \div Word
             n == (virt_base + o) - ToInt(virt_base)
  <1>1. q \in Int /\ m \in 0 .. Word - 1 /\ virt_base = Word * q + m BY Sizes, DivMod
  <1>2. ToInt(virt_base) = m \/ ToInt(virt_base) = m - Word BY DEF ToInt
  <1>3. o \in 0 .. Word - 1 /\ o < Word \div 2 /\ o \in Int BY Sizes
  <1>4. PICK k \in {q, q + 1} : n = Word * k + o
    <2> HIDE DEF m, q
    <2>1. CASE ToInt(virt_base) = m
      <3>1. n = Word * q + o BY <2>1, <1>1, <1>3, Sizes
      <3> QED BY <3>1
    <2>2. CASE ToInt(virt_base) = m - Word
      <3>1. n = Word * (q + 1) + o BY <2>2, <1>1, <1>3, Sizes
      <3> QED BY <3>1
    <2> QED BY <1>2, <2>1, <2>2
  <1>5. k \in Int BY <1>1
  <1> HIDE DEF m, q, n
  <1>6. n \in Int BY <1>3, <1>4, <1>5, Sizes
  <1>7. ToLong(n) % Word = o BY <1>3, <1>4, <1>5, <1>6, Sizes, ThroughLong, RemainderOf
  <1>8. ToInt(ToLong(n)) = o BY <1>3, <1>7 DEF ToInt
  <1> QED BY <1>8 DEF n, Offset

(* For every virt_base, also one that is negative as an int or above four   *)
(* gigabytes, getPhys() of an address in the pool is the physical address   *)
(* of the same byte, and it is whole in a 32-bit register.                 *)
THEOREM GetPhysCorrect ==
  ASSUME NEW o \in 0 .. DMA_SIZE - 1
  PROVE  getPhys(virt_base + o) = phys_base + o /\ (phys_base + o) % Word = phys_base + o
  <1>1. phys_base + o \in 0 .. Word - 1 /\ phys_base + o \in 0 .. Long - 1 BY Sizes
  <1>2. (Long * 0 + (phys_base + o)) % Long = phys_base + o BY <1>1, Sizes, RemainderOf
  <1>3. (Word * 0 + (phys_base + o)) % Word = phys_base + o BY <1>1, Sizes, RemainderOf
  <1>4. Long * 0 + (phys_base + o) = phys_base + o /\ Word * 0 + (phys_base + o) = phys_base + o
    BY <1>1, Sizes
  <1>5. ToLong(phys_base + o) = phys_base + o BY <1>2, <1>4 DEF ToLong
  <1>6. getPhys(virt_base + o) = ToLong(phys_base + o) BY OffsetKept DEF getPhys
  <1> QED BY <1>3, <1>4, <1>5, <1>6

-----------------------------------------------------------------------------
(* The client's stores.                                                    *)

(* A picture's bytes, by pixels and by pairs of pixels, fit a buffer.       *)
LEMMA PictureFits ==
  ASSUME TypeOK
  PROVE  /\ PictureBytes \in Nat /\ PictureBytes <= FRAME_BUFFER_SIZE
         /\ hd.h_active * hd.v_active \in Nat /\ (hd.h_active * hd.v_active) * 4 = PictureBytes
         /\ ClearStores \in Nat /\ ClearStores * 8 = PictureBytes
  <1> DEFINE h == hd.h_active
             v == hd.v_active
             k == h \div 2
  <1>1. GeometryFits(hd) BY GeometriesAssumption DEF TypeOK
  <1>2. h \in Nat /\ v \in Nat /\ h % 2 = 0 /\ 4 * (h * v) <= FRAME_BUFFER_SIZE
    BY <1>1 DEF GeometryFits
  <1>3. k \in Nat /\ h = 2 * k BY <1>2
  <1> HIDE DEF h, v, k
  <1>4. h * v \in Nat /\ v * k \in Nat /\ (v * k) * 8 = 4 * (h * v) BY <1>2, <1>3
  <1> QED BY <1>2, <1>4, Sizes DEF PictureBytes, ClearStores, h, v, k

(* The client reads the buffer's offset, though it reads twice the bytes.   *)
LEMMA OffsetRead ==
  ASSUME TypeOK, OffsetWordsHold,
         NEW word \in {ACTIVE_FRAME_BUFFER_ADDR_OFFSET, CACHE_FRAME_BUFFER_ADDR_OFFSET}
  PROVE  OffsetAt(word) = mem[word] /\ OffsetAt(word) \in Buffers
  <1>1. mem[word] \in Buffers /\ mem[word + 4] = 0 BY DEF OffsetWordsHold
  <1>2. mem[word] \in Int /\ Word * 0 = 0 BY <1>1, BuffersApart, Sizes
  <1> QED BY <1>1, <1>2 DEF OffsetAt

(* The next store lies in the buffer its picture began in.                 *)
LEMMA StoreRange ==
  ASSUME TypeOK, PaintingHolds, left > 0
  PROVE  /\ cursor - virt_base \in Nat /\ target <= cursor - virt_base
         /\ cursor - virt_base + left * width <= target + FRAME_BUFFER_SIZE
         /\ cursor - virt_base + width <= target + FRAME_BUFFER_SIZE
         /\ left = 1 => cursor - virt_base + width = target + PictureBytes
  <1>1. cursor >= virt_base + target
        /\ cursor - virt_base + left * width = target + PictureBytes
    BY DEF PaintingHolds
  <1>2. cursor \in Nat /\ left \in Nat /\ width \in {4, 8} /\ target \in Nat
    BY BuffersApart DEF TypeOK
  <1>3. left * width >= width /\ (left = 1 => left * width = width) BY <1>2
  <1> QED BY <1>1, <1>2, <1>3, PictureFits, Sizes

LEMMA BeginInv ==
  ASSUME PoolInv,
         NEW word \in {ACTIVE_FRAME_BUFFER_ADDR_OFFSET, CACHE_FRAME_BUFFER_ADDR_OFFSET},
         NEW n \in Nat, NEW w \in {4, 8}, NEW p \in Pens, n * w = PictureBytes,
         Begin(word, n, w, p), hd' = hd, drawn' \in Pens
  PROVE  PoolInv'
  <1> USE DEF PoolInv, Begin, dcssVars, hwVars
  <1> DEFINE b == OffsetAt(word)
  <1>1. b \in Buffers /\ b \in Nat BY OffsetRead, BuffersApart
  <1> HIDE DEF b
  <1>2. /\ cursor' = virt_base + b /\ target' = b
        /\ given' = [given EXCEPT ![b] = Nothing]
    BY DEF b
  <1>3. Nothing \in [pen : Pens, bytes : Nat] /\ Nothing.bytes = 0
    BY MaxFramesAssumption DEF Nothing, Pens
  <1>4. TypeOK' BY <1>1, <1>2, <1>3, Sizes DEF TypeOK
  <1>5. (OffsetWordsHold /\ EntriesHold /\ LoaderHolds)'
    BY DEF OffsetWordsHold, EntriesHold, EntryHolds, LoaderHolds, EntryOffset
  <1>6. PictureBytes' = PictureBytes /\ PictureBytes \in Nat BY PictureFits DEF PictureBytes
  <1>7. given'[b] = Nothing /\ \A c \in Buffers \ {b} : given'[c] = given[c]
    BY <1>1, <1>2 DEF TypeOK
  <1>8. PaintingHolds'
    <2>1. cursor' - virt_base = b BY <1>1, <1>2, Sizes
    <2>2. \A a \in Cells : ~(a >= target' /\ a < cursor' - virt_base)
      BY <2>1, <1>1, <1>2 DEF Cells
    <2>3. cursor' - virt_base + left' * width' = target' + PictureBytes' BY <2>1, <1>2, <1>6
    <2> QED BY <2>1, <2>2, <2>3, <1>1, <1>2, <1>7, Sizes DEF PaintingHolds
  <1>9. GivenFits' BY <1>1, <1>3, <1>7, Sizes DEF GivenFits
  <1>10. PicturesKept'
    <2> SUFFICES ASSUME NEW c \in Buffers, NEW a \in Cells,
                        a >= c, a < c + given'[c].bytes
                 PROVE  mem'[a] = given'[c].pen
      BY DEF PicturesKept
    <2>1. c # b BY <1>1, <1>3, <1>7 DEF Cells
    <2> QED BY <2>1, <1>7 DEF PicturesKept
  <1> QED BY <1>4, <1>5, <1>8, <1>9, <1>10

(* A store of a pixel, or two: outside the buffer nothing changes.          *)
LEMMA StoreKeeps ==
  ASSUME PoolInv, Store
  PROVE  /\ mem' \in [Cells -> 0 .. Word - 1]
         /\ \A a \in Cells : a < target \/ a >= target + FRAME_BUFFER_SIZE => mem'[a] = mem[a]
         /\ \A a \in Cells : a < cursor - virt_base \/ a >= cursor - virt_base + width
                             => mem'[a] = mem[a]
         /\ \A a \in Cells : a >= cursor - virt_base /\ a < cursor - virt_base + width
                             => mem'[a] = pen
         /\ \A r \in Regions : mem'[r] = mem[r] /\ mem'[r + 4] = mem[r + 4]
  <1> USE DEF PoolInv
  <1>1. \A a \in Cells : a \in Nat BY DEF Cells
  <1>2. pen \in 0 .. Word - 1 BY MaxFramesAssumption, Sizes DEF TypeOK, Pens
  <1>3. mem' = [a \in Cells |-> IF Covered(a) THEN pen ELSE mem[a]] /\ left > 0 BY DEF Store
  <1>4. mem' \in [Cells -> 0 .. Word - 1] BY <1>2, <1>3 DEF TypeOK
  <1>5. \A a \in Cells : Covered(a) <=> a >= cursor - virt_base /\ a < cursor - virt_base + width
    BY DEF Covered
  <1>6. /\ cursor - virt_base \in Nat /\ target <= cursor - virt_base /\ target \in Nat
        /\ cursor - virt_base + width <= target + FRAME_BUFFER_SIZE /\ width \in Nat
    BY <1>3, StoreRange, BuffersApart DEF TypeOK
  <1>7. \A a \in Cells : a < target \/ a >= target + FRAME_BUFFER_SIZE => ~Covered(a)
    BY <1>1, <1>5, <1>6, Sizes
  <1>8. \A r \in Regions : r \in Cells /\ r + 4 \in Cells
                          /\ r >= target + FRAME_BUFFER_SIZE
                          /\ r + 4 >= target + FRAME_BUFFER_SIZE
    BY <1>1, <1>6, RegionsApart, BuffersApart, Sizes DEF TypeOK
  <1>9. \A a \in Cells : ~Covered(a) => mem'[a] = mem[a] BY <1>3
  <1>10. \A a \in Cells : Covered(a) => mem'[a] = pen BY <1>3
  <1>11. \A a \in Cells : a < target \/ a >= target + FRAME_BUFFER_SIZE => mem'[a] = mem[a]
    BY <1>7, <1>9
  <1>12. \A a \in Cells : a < cursor - virt_base \/ a >= cursor - virt_base + width
                         => mem'[a] = mem[a]
    BY <1>1, <1>5, <1>6, <1>9
  <1>13. \A a \in Cells : a >= cursor - virt_base /\ a < cursor - virt_base + width
                         => mem'[a] = pen
    BY <1>5, <1>10
  <1>14. \A r \in Regions : mem'[r] = mem[r] /\ mem'[r + 4] = mem[r + 4] BY <1>8, <1>11
  <1> QED BY <1>4, <1>11, <1>12, <1>13, <1>14

(* What the regions hold depends on their cells and the dcss PD's step.     *)
LEMMA RegionsKept ==
  ASSUME OffsetWordsHold, EntriesHold, UNCHANGED dpc,
         \A r \in Regions : mem'[r] = mem[r] /\ mem'[r + 4] = mem[r + 4]
  PROVE  (OffsetWordsHold /\ EntriesHold)'
  BY DEF Regions, OffsetWordsHold, EntriesHold, EntryHolds, EntryOffset

LEMMA StoreInv ==
  ASSUME PoolInv, Store
  PROVE  PoolInv'
  <1> USE DEF PoolInv
  <1> DEFINE at == cursor - virt_base
  <1>1. /\ left > 0 /\ cursor' = cursor + width /\ left' = left - 1
        /\ UNCHANGED <<hd, width, pen, drawn, dcssVars, hwVars, target>>
        /\ given' = IF left = 1
                    THEN [given EXCEPT ![target] = [pen |-> pen, bytes |-> PictureBytes]]
                    ELSE given
    BY DEF Store
  <1>2. /\ at \in Nat /\ target <= at /\ at + width <= target + FRAME_BUFFER_SIZE
        /\ left = 1 => at + width = target + PictureBytes
    BY <1>1, StoreRange
  <1>3. /\ cursor \in Nat /\ left \in Nat /\ width \in {4, 8} /\ target \in Buffers
        /\ target \in Nat /\ pen \in Pens /\ virt_base \in Nat
        /\ PictureBytes \in Nat /\ PictureBytes <= FRAME_BUFFER_SIZE
    BY BuffersApart, PictureFits, Sizes DEF TypeOK
  <1>4. cursor' - virt_base = at + width BY <1>1, <1>3
  <1>5. PictureBytes' = PictureBytes BY <1>1 DEF PictureBytes
  <1>6. given' \in [Buffers -> [pen : Pens, bytes : Nat]] BY <1>1, <1>3 DEF TypeOK
  <1>7. TypeOK'
    <2>1. cursor' \in Nat /\ left' \in Nat BY <1>1, <1>3
    <2> QED BY <1>1, <1>3, <1>6, <2>1, StoreKeeps DEF TypeOK, dcssVars, hwVars
  <1>8. (OffsetWordsHold /\ EntriesHold)' BY <1>1, StoreKeeps, RegionsKept DEF dcssVars
  <1>9. LoaderHolds' BY <1>1 DEF LoaderHolds, dcssVars, hwVars, EntryOffset
  <1>10. \A a \in Cells : a \in Nat BY DEF Cells
  <1>11. \A a \in Cells : a >= target /\ a < at => mem[a] = pen BY <1>1 DEF PaintingHolds
  <1>12. \A a \in Cells : a >= target /\ a < at + width => mem'[a] = pen
    BY <1>2, <1>3, <1>10, <1>11, StoreKeeps
  <1>13. PaintingHolds'
    <2> SUFFICES ASSUME left' > 0 PROVE PaintingHolds' BY DEF PaintingHolds
    <2>1. at + left * width = target + PictureBytes /\ given[target] = Nothing
      BY <1>1 DEF PaintingHolds
    <2>2. left # 1 BY <1>1, <1>3
    <2>3. cursor' - virt_base + left' * width' = target' + PictureBytes'
      <3>1. (left - 1) * width = left * width - width BY <1>3
      <3> HIDE DEF at
      <3> QED BY <1>1, <1>2, <1>3, <1>4, <1>5, <2>1, <3>1
    <2>4. cursor' >= virt_base + target' BY <1>1, <1>2, <1>3
    <2> QED BY <1>1, <1>4, <1>12, <2>1, <2>2, <2>3, <2>4 DEF PaintingHolds
  <1>14. \A b \in Buffers : given'[b] = given[b] \/
            (left = 1 /\ b = target /\ given'[b] = [pen |-> pen, bytes |-> PictureBytes])
    BY <1>1 DEF TypeOK
  <1>15. GivenFits'
    <2> SUFFICES ASSUME NEW b \in Buffers PROVE given'[b].bytes <= FRAME_BUFFER_SIZE
      BY DEF GivenFits
    <2>1. given[b].bytes <= FRAME_BUFFER_SIZE BY DEF PoolInv, GivenFits
    <2> QED BY <1>3, <1>14, <2>1
  <1>16. PicturesKept'
    <2> SUFFICES ASSUME NEW b \in Buffers, NEW a \in Cells,
                        a >= b, a < b + given'[b].bytes
                 PROVE  mem'[a] = given'[b].pen
      BY DEF PicturesKept
    <2>1. CASE b = target /\ left = 1
      <3>1. given'[b] = [pen |-> pen, bytes |-> PictureBytes] BY <1>1, <2>1 DEF TypeOK
      <3> QED BY <1>2, <1>12, <2>1, <3>1
    <2>2. CASE b = target /\ left # 1
      <3>1. given'[b] = Nothing BY <1>1, <2>2 DEF PaintingHolds
      <3> QED BY <3>1, <1>3, <1>10, <2>2 DEF Nothing
    <2>3. CASE b # target
      <3>1. given'[b] = given[b] BY <1>14, <2>3
      <3>2. given[b].bytes \in Nat /\ given[b].bytes <= FRAME_BUFFER_SIZE
        BY DEF TypeOK, GivenFits
      <3>3. a < target \/ a >= target + FRAME_BUFFER_SIZE
        BY <1>3, <1>10, <2>3, <3>1, <3>2, BuffersApart, Sizes
      <3>4. mem'[a] = mem[a] BY <3>3, StoreKeeps
      <3> QED BY <3>1, <3>4 DEF PicturesKept
    <2> QED BY <2>1, <2>2, <2>3
  <1> QED BY <1>7, <1>8, <1>9, <1>13, <1>15, <1>16

(* The mode may change between two pictures.                               *)
LEMMA SetHdInv ==
  ASSUME PoolInv, SetHd
  PROVE  PoolInv'
  <1> USE DEF PoolInv, SetHd, ClientReady, dcssVars, hwVars, history
  <1>1. TypeOK' BY DEF TypeOK
  <1>2. (OffsetWordsHold /\ EntriesHold)' BY DEF OffsetWordsHold, EntriesHold, EntryHolds, EntryOffset
  <1>3. (LoaderHolds /\ GivenFits /\ PicturesKept)'
    BY DEF LoaderHolds, GivenFits, PicturesKept, EntryOffset
  <1>4. PaintingHolds' BY DEF PaintingHolds
  <1> QED BY <1>1, <1>2, <1>3, <1>4

LEMMA ClientInv ==
  ASSUME PoolInv, Client
  PROVE  PoolInv'
  <1> USE DEF PoolInv
  <1>1. CASE SetHd BY <1>1, SetHdInv
  <1>2. CASE WriteFb
    <2>1. drawn \in Nat /\ drawn + 1 \in Pens BY <1>2, MaxFramesAssumption DEF WriteFb, TypeOK, Pens
    <2> QED BY <1>2, <2>1, PictureFits, BeginInv DEF WriteFb
  <1>3. CASE clear_current_frame_buffer
    <2>1. 0 \in Pens /\ drawn' \in Pens
      BY <1>3, MaxFramesAssumption, Sizes DEF clear_current_frame_buffer, TypeOK, Pens
    <2> QED BY <1>3, <2>1, PictureFits, BeginInv DEF clear_current_frame_buffer
  <1>4. CASE clear_current_cache_buffer
    <2>1. 0 \in Pens /\ drawn' \in Pens
      BY <1>4, MaxFramesAssumption, Sizes DEF clear_current_cache_buffer, TypeOK, Pens
    <2> QED BY <1>4, <2>1, PictureFits, BeginInv DEF clear_current_cache_buffer
  <1>5. CASE Store BY <1>5, StoreInv
  <1> QED BY <1>1, <1>2, <1>3, <1>4, <1>5 DEF Client

-----------------------------------------------------------------------------
(* The dcss PD's stores.                                                   *)

(* The values it stores are words.                                         *)
LEMMA WordsStored ==
  /\ \A b \in Buffers : b % Word = b /\ phys_base + b \in 1 .. Word - 1
  /\ getPhys(virt_base) % Word = phys_base + BufferOf(0)
  /\ getPhys(virt_base + FRAME_BUFFER_TWO_OFFSET) % Word = phys_base + BufferOf(1)
  /\ \A c \in Contexts : getPhys(virt_base + EntryOffset(c)) % Word = phys_base + EntryOffset(c)
  /\ DprRegister % Word = DprRegister /\ DprRegister \in 1 .. Word - 1
  /\ DprRegister = dcss_paddr + DPR_1_FRAME_1P_BASE_ADDR_CTRL0
  <1>1. \A n \in 0 .. Word - 1 : n % Word = n
    <2> SUFFICES ASSUME NEW n \in 0 .. Word - 1 PROVE n % Word = n OBVIOUS
    <2>1. (Word * 0 + n) % Word = n BY Sizes, RemainderOf
    <2>2. Word * 0 + n = n BY Sizes
    <2> QED BY <2>1, <2>2
  <1>2. 0 \in 0 .. DMA_SIZE - 1 /\ FRAME_BUFFER_SIZE \in 0 .. DMA_SIZE - 1
        /\ \A c \in Contexts : EntryOffset(c) \in 0 .. DMA_SIZE - 1
    BY Sizes DEF EntryOffset, CTX_LD_DB_ONE_ADDR, CTX_LD_DB_TWO_ADDR
  <1>3. \A o \in 0 .. DMA_SIZE - 1 : getPhys(virt_base + o) % Word = phys_base + o
    BY GetPhysCorrect
  <1>4. virt_base + 0 = virt_base BY Sizes
  <1>5. BufferOf(0) = 0 /\ BufferOf(1) = FRAME_BUFFER_SIZE /\ FRAME_BUFFER_TWO_OFFSET = FRAME_BUFFER_SIZE
    BY DEF BufferOf, FRAME_BUFFER_ONE_OFFSET, FRAME_BUFFER_TWO_OFFSET
  <1>6. DprRegister \in 1 .. Word - 1 /\ DprRegister = dcss_paddr + DPR_1_FRAME_1P_BASE_ADDR_CTRL0
    BY DcssAssumption, Sizes DEF DprRegister
  <1>7. \A b \in Buffers : b \in 0 .. Word - 1 /\ phys_base + b \in 1 .. Word - 1
    BY BuffersApart, Sizes
  <1>8. getPhys(virt_base) % Word = phys_base + BufferOf(0) BY <1>2, <1>3, <1>4, <1>5
  <1>9. getPhys(virt_base + FRAME_BUFFER_TWO_OFFSET) % Word = phys_base + BufferOf(1)
    BY <1>2, <1>3, <1>5
  <1>10. \A c \in Contexts : getPhys(virt_base + EntryOffset(c)) % Word = phys_base + EntryOffset(c)
    BY <1>2, <1>3
  <1>11. DprRegister % Word = DprRegister BY <1>1, <1>6
  <1> QED BY <1>1, <1>6, <1>7, <1>8, <1>9, <1>10, <1>11

(* A store to a small region leaves the pictures and the other cells alone. *)
LEMMA RegionStore ==
  ASSUME PoolInv, NEW a \in Cells, a >= 2 * FRAME_BUFFER_SIZE, NEW v \in 0 .. Word - 1,
         mem' = [mem EXCEPT ![a] = v], UNCHANGED <<clientVars, history>>
  PROVE  /\ mem' \in [Cells -> 0 .. Word - 1]
         /\ mem'[a] = v /\ \A c \in Cells \ {a} : mem'[c] = mem[c]
         /\ (PaintingHolds /\ GivenFits /\ PicturesKept)'
  <1> USE DEF PoolInv, clientVars, history
  <1>1. a \in Nat BY DEF Cells
  <1>2. mem' \in [Cells -> 0 .. Word - 1] /\ mem'[a] = v
        /\ \A c \in Cells \ {a} : mem'[c] = mem[c]
    BY <1>1 DEF TypeOK
  <1>3. \A c \in Cells : c \in Nat BY DEF Cells
  <1>4. PaintingHolds'
    <2> SUFFICES ASSUME left > 0 PROVE PaintingHolds' BY DEF PaintingHolds
    <2>1. /\ cursor - virt_base \in Nat /\ target \in Buffers /\ width \in {4, 8}
          /\ cursor - virt_base + width <= target + FRAME_BUFFER_SIZE
      BY StoreRange DEF TypeOK
    <2>2. a >= cursor - virt_base BY <1>1, <2>1, BuffersApart, Sizes
    <2>3. \A c \in Cells : c >= target /\ c < cursor - virt_base => mem'[c] = pen
      BY <1>1, <1>2, <1>3, <2>1, <2>2 DEF PaintingHolds
    <2> QED BY <2>3 DEF PaintingHolds, PictureBytes
  <1>5. PicturesKept'
    <2> SUFFICES ASSUME NEW b \in Buffers, NEW c \in Cells, c >= b, c < b + given[b].bytes
                 PROVE  mem'[c] = given[b].pen
      BY DEF PicturesKept
    <2>1. given[b].bytes \in Nat /\ given[b].bytes <= FRAME_BUFFER_SIZE
      BY DEF TypeOK, GivenFits
    <2>2. c # a BY <1>1, <1>3, <2>1, BuffersApart, Sizes
    <2> QED BY <1>2, <2>2 DEF PicturesKept
  <1>6. GivenFits' BY DEF GivenFits
  <1> QED BY <1>2, <1>4, <1>5, <1>6

(* The steps that store an offset word.                                    *)
LEMMA OffsetStoreInv ==
  ASSUME PoolInv,
         NEW word \in {ACTIVE_FRAME_BUFFER_ADDR_OFFSET, CACHE_FRAME_BUFFER_ADDR_OFFSET},
         NEW b \in Buffers, NEW at, NEW next \in Steps \ {"load", "reg1", "reg2"},
         Put(at, word, b, next), context' \in Contexts
  PROVE  PoolInv'
  <1> USE DEF PoolInv, Put, hwVars, clientVars, history
  <1>1. word \in Regions BY DEF Regions
  <1>2. b % Word = b /\ b \in 0 .. Word - 1 BY WordsStored, BuffersApart
  <1>3. mem' = [mem EXCEPT ![word] = b] BY <1>2
  <1>4. /\ mem' \in [Cells -> 0 .. Word - 1]
        /\ mem'[word] = b /\ \A c \in Cells \ {word} : mem'[c] = mem[c]
        /\ (PaintingHolds /\ GivenFits /\ PicturesKept)'
    <2>1. word \in Cells /\ word >= 2 * FRAME_BUFFER_SIZE BY <1>1, RegionsApart
    <2> QED BY <1>2, <1>3, <2>1, RegionStore
  <1>5. TypeOK' BY <1>4 DEF TypeOK
  <1>6. OffsetWordsHold'
    <2> SUFFICES ASSUME NEW w \in {ACTIVE_FRAME_BUFFER_ADDR_OFFSET, CACHE_FRAME_BUFFER_ADDR_OFFSET}
                 PROVE  mem'[w] \in Buffers /\ mem'[w + 4] = 0
      BY DEF OffsetWordsHold
    <2>1. mem[w] \in Buffers /\ mem[w + 4] = 0 BY DEF OffsetWordsHold
    <2>2. w \in Regions /\ w \in Cells /\ w + 4 \in Cells /\ w \in Nat
      BY RegionsApart DEF Regions, Cells
    <2>3. w + 4 # word BY <1>1, <2>2, RegionsApart
    <2> QED BY <1>4, <2>1, <2>2, <2>3
  <1>7. \A c \in Contexts : mem'[EntryOffset(c)] = mem[EntryOffset(c)]
                            /\ mem'[EntryOffset(c) + 4] = mem[EntryOffset(c) + 4]
    <2> SUFFICES ASSUME NEW c \in Contexts
                 PROVE  mem'[EntryOffset(c)] = mem[EntryOffset(c)]
                        /\ mem'[EntryOffset(c) + 4] = mem[EntryOffset(c) + 4]
      OBVIOUS
    <2>1. EntryOffset(c) \in {CTX_LD_DB_ONE_ADDR, CTX_LD_DB_TWO_ADDR} BY DEF EntryOffset
    <2>2. EntryOffset(c) \in Regions /\ EntryOffset(c) # word BY <2>1, RegionsApart DEF Regions
    <2>3. EntryOffset(c) + 4 # word BY <1>1, <2>2, RegionsApart
    <2> QED BY <1>4, <2>2, <2>3, RegionsApart
  <1>8. EntriesHold' BY <1>7 DEF EntriesHold, EntryHolds, Contexts
  <1>9. LoaderHolds' BY DEF LoaderHolds
  <1> QED BY <1>4, <1>5, <1>6, <1>8, <1>9

(* A store to an entry leaves the offset words and the other entry alone.   *)
LEMMA EntryStore ==
  ASSUME PoolInv, NEW c \in Contexts, NEW a \in Cells,
         a = EntryOffset(c) \/ a = EntryOffset(c) + 4,
         NEW v \in 0 .. Word - 1, mem' = [mem EXCEPT ![a] = v], UNCHANGED <<clientVars, history>>
  PROVE  /\ mem' \in [Cells -> 0 .. Word - 1]
         /\ mem'[a] = v
         /\ \A b \in Cells \ {a} : mem'[b] = mem[b]
         /\ (PaintingHolds /\ GivenFits /\ PicturesKept /\ OffsetWordsHold)'
         /\ \A d \in Contexts \ {c} : /\ mem'[EntryOffset(d)] = mem[EntryOffset(d)]
                                     /\ mem'[EntryOffset(d) + 4] = mem[EntryOffset(d) + 4]
  <1> DEFINE r == EntryOffset(c)
             Words == {ACTIVE_FRAME_BUFFER_ADDR_OFFSET, CACHE_FRAME_BUFFER_ADDR_OFFSET}
  <1>1. \A d \in Contexts : EntryOffset(d) \in Regions
                            /\ EntryOffset(d) \in {CTX_LD_DB_ONE_ADDR, CTX_LD_DB_TWO_ADDR}
    BY DEF EntryOffset, Regions
  <1>2. r \in Regions /\ (a = r \/ a = r + 4) BY <1>1
  <1> HIDE DEF r
  <1>3. /\ mem' \in [Cells -> 0 .. Word - 1]
        /\ mem'[a] = v /\ \A b \in Cells \ {a} : mem'[b] = mem[b]
        /\ (PaintingHolds /\ GivenFits /\ PicturesKept)'
    <2>1. \A s \in Regions : s \in Nat /\ s >= 2 * FRAME_BUFFER_SIZE
                             /\ s \in Cells /\ s + 4 \in Cells
      BY RegionsApart DEF Cells
    <2>2. a >= 2 * FRAME_BUFFER_SIZE BY <1>2, <2>1, Sizes
    <2> QED BY <2>2, RegionStore
  <1>4. \A s \in Regions \ {r} : mem'[s] = mem[s] /\ mem'[s + 4] = mem[s + 4]
    <2> SUFFICES ASSUME NEW s \in Regions \ {r}
                 PROVE  mem'[s] = mem[s] /\ mem'[s + 4] = mem[s + 4]
      OBVIOUS
    <2>1. s \in Cells /\ s + 4 \in Cells /\ s \in Nat /\ r \in Nat
      BY <1>2, RegionsApart DEF Cells
    <2>2. s # r /\ s + 4 # r + 4 BY <2>1
    <2>3. s # r + 4 /\ s + 4 # r BY <1>2, <2>2, RegionsApart
    <2> QED BY <1>2, <1>3, <2>1, <2>2, <2>3
  <1>5. Words \subseteq Regions /\ r \notin Words
    BY <1>1, RegionsApart DEF Regions, r
  <1>6. OffsetWordsHold'
    BY <1>4, <1>5 DEF PoolInv, OffsetWordsHold
  <1>7. \A d \in Contexts \ {c} : EntryOffset(d) \in Regions \ {r}
    BY <1>1, RegionsApart DEF EntryOffset, Contexts, r
  <1> QED BY <1>3, <1>4, <1>6, <1>7 DEF r

(* An entry's buffer is stored; then, knowing it, the register.             *)
LEMMA EntryBufferInv ==
  ASSUME PoolInv, NEW c \in Contexts, NEW at, NEW w,
         NEW next \in {"reg1", "reg2"}, next = (IF c = 0 THEN "reg1" ELSE "reg2"),
         Put(at, EntryOffset(c), w, next), w % Word = phys_base + BufferOf(c), context' = context
  PROVE  PoolInv'
  <1> DEFINE v == phys_base + BufferOf(c)
  <1>1. BufferOf(c) \in Buffers BY DEF BufferOf, Buffers
  <1>2. v \in 0 .. Word - 1 BY <1>1, WordsStored
  <1>3. mem' = [mem EXCEPT ![EntryOffset(c)] = v] /\ UNCHANGED <<clientVars, history>>
    BY DEF Put
  <1>4. EntryOffset(c) \in Cells /\ EntryOffset(c) + 4 \in Cells
    BY RegionsApart DEF EntryOffset, Regions
  <1> HIDE DEF v
  <1>5. /\ mem' \in [Cells -> 0 .. Word - 1]
        /\ mem'[EntryOffset(c)] = v
        /\ \A b \in Cells \ {EntryOffset(c)} : mem'[b] = mem[b]
        /\ (PaintingHolds /\ GivenFits /\ PicturesKept /\ OffsetWordsHold)'
        /\ \A d \in Contexts \ {c} : /\ mem'[EntryOffset(d)] = mem[EntryOffset(d)]
                                    /\ mem'[EntryOffset(d) + 4] = mem[EntryOffset(d) + 4]
    BY <1>2, <1>3, <1>4, EntryStore
  <1> USE DEF PoolInv, Put, hwVars, clientVars, history
  <1>6. EntryOffset(c) \in Nat BY <1>4 DEF Cells
  <1>7. mem'[EntryOffset(c) + 4] = mem[EntryOffset(c) + 4] BY <1>4, <1>5, <1>6
  <1>8. TypeOK' BY <1>5 DEF TypeOK, Steps
  <1>9. \A d \in Contexts : EntryHolds(d)' BY <1>5, <1>7 DEF EntriesHold, EntryHolds, v
  <1>10. EntriesHold' BY <1>5, <1>9 DEF EntriesHold, Contexts, v
  <1>11. LoaderHolds' BY DEF LoaderHolds
  <1> QED BY <1>5, <1>8, <1>10, <1>11

LEMMA EntryRegisterInv ==
  ASSUME PoolInv, NEW c \in Contexts, NEW at, NEW next \in {"fb2", "select"},
         Put(at, EntryOffset(c) + 4, DprRegister, next),
         mem[EntryOffset(c)] = phys_base + BufferOf(c), context' = context
  PROVE  PoolInv'
  <1> DEFINE a == EntryOffset(c) + 4
  <1>1. DprRegister \in 0 .. Word - 1 /\ DprRegister % Word = DprRegister BY WordsStored
  <1>2. mem' = [mem EXCEPT ![a] = DprRegister] /\ UNCHANGED <<clientVars, history>>
    BY <1>1 DEF Put
  <1>3. EntryOffset(c) \in Cells /\ a \in Cells
    BY RegionsApart DEF EntryOffset, Regions
  <1>4. EntryOffset(c) \in Nat /\ EntryOffset(c) # a BY <1>3 DEF Cells
  <1>5. /\ mem' \in [Cells -> 0 .. Word - 1]
        /\ mem'[a] = DprRegister
        /\ \A b \in Cells \ {a} : mem'[b] = mem[b]
        /\ (PaintingHolds /\ GivenFits /\ PicturesKept /\ OffsetWordsHold)'
        /\ \A d \in Contexts \ {c} : /\ mem'[EntryOffset(d)] = mem[EntryOffset(d)]
                                    /\ mem'[EntryOffset(d) + 4] = mem[EntryOffset(d) + 4]
    <2> HIDE DEF a
    <2>1. a = EntryOffset(c) \/ a = EntryOffset(c) + 4 BY DEF a
    <2> QED BY <1>1, <1>2, <1>3, <2>1, EntryStore
  <1> USE DEF PoolInv, Put, hwVars, clientVars, history
  <1>6. mem'[EntryOffset(c)] = mem[EntryOffset(c)] BY <1>3, <1>4, <1>5
  <1>7. TypeOK' BY <1>5 DEF TypeOK, Steps
  <1>8. \A d \in Contexts : EntryHolds(d)' BY <1>5, <1>6 DEF EntriesHold, EntryHolds
  <1>9. EntriesHold' BY <1>8 DEF EntriesHold
  <1>10. LoaderHolds' BY DEF LoaderHolds
  <1> QED BY <1>5, <1>7, <1>9, <1>10

(* The steps that store nothing in the pool.                               *)
LEMMA DcssStepInv ==
  ASSUME PoolInv, UNCHANGED <<mem, clientVars, history, context>>,
         dpc' \in Steps \ {"reg1", "reg2"}, moving' \in BOOLEAN, db_base' \in Nat,
         LoaderHolds'
  PROVE  PoolInv'
  <1> USE DEF PoolInv, clientVars, history
  <1>1. dpr_base' \in Nat BY BuffersApart, Sizes DEF LoaderHolds
  <1>2. TypeOK' BY <1>1 DEF TypeOK
  <1>3. OffsetWordsHold' BY DEF OffsetWordsHold
  <1>4. EntriesHold' BY DEF EntriesHold, EntryHolds
  <1>5. (PaintingHolds /\ GivenFits /\ PicturesKept)'
    BY DEF PaintingHolds, GivenFits, PicturesKept, PictureBytes
  <1> QED BY <1>2, <1>3, <1>4, <1>5

LEMMA DcssInv ==
  ASSUME PoolInv, Dcss
  PROVE  PoolInv'
  <1> DEFINE ACTIVE == ACTIVE_FRAME_BUFFER_ADDR_OFFSET
             CACHE == CACHE_FRAME_BUFFER_ADDR_OFFSET
  <1>1. /\ FRAME_BUFFER_ONE_OFFSET \in Buffers /\ FRAME_BUFFER_TWO_OFFSET \in Buffers
        /\ ACTIVE \in {ACTIVE, CACHE} /\ CACHE \in {ACTIVE, CACHE}
    BY DEF Buffers
  <1>2. /\ context \in Contexts /\ db_base \in Nat /\ moving \in BOOLEAN /\ dpc \in Steps
        /\ EntryOffset(context) = ContextOffset
    BY DEF PoolInv, TypeOK, EntryOffset, ContextOffset, Contexts
  <1>3. CASE InitActive
    <2>1. Put("init_active", ACTIVE, FRAME_BUFFER_ONE_OFFSET, "init_cache") /\ context' = context
      BY <1>3 DEF InitActive
    <2>2. "init_cache" \in Steps \ {"load", "reg1", "reg2"} BY DEF Steps
    <2> QED BY <1>1, <1>2, <2>1, <2>2, OffsetStoreInv
  <1>4. CASE InitCache
    <2>1. Put("init_cache", CACHE, FRAME_BUFFER_TWO_OFFSET, "recv") /\ context' = context
      BY <1>4 DEF InitCache
    <2>2. "recv" \in Steps \ {"load", "reg1", "reg2"} BY DEF Steps
    <2> QED BY <1>1, <1>2, <2>1, <2>2, OffsetStoreInv
  <1>5. CASE Protected
    <2>1. LoaderHolds' BY <1>5 DEF PoolInv, LoaderHolds, Protected, hwVars
    <2> QED BY <1>2, <1>5, <2>1, DcssStepInv DEF Protected, hwVars, Steps
  <1>6. CASE Notified
    <2>1. LoaderHolds' BY <1>6 DEF PoolInv, LoaderHolds, Notified, hwVars
    <2> QED BY <1>2, <1>6, <2>1, DcssStepInv DEF Notified, hwVars, Steps
  <1>7. CASE write_dpr_memory_registers
    <2>1. dpr_base' = phys_base + BufferOf(0) /\ BufferOf(0) \in Buffers
      BY <1>7, WordsStored DEF write_dpr_memory_registers, BufferOf, Buffers
    <2>2. dpc' \in {"fb1", "recv"} BY <1>7 DEF write_dpr_memory_registers
    <2>3. LoaderHolds' BY <2>1, <2>2 DEF LoaderHolds
    <2> QED BY <1>2, <1>7, <2>2, <2>3, DcssStepInv DEF write_dpr_memory_registers, Steps
  <1>8. CASE EntryOneBuffer
    <2>1. Put("fb1", EntryOffset(0), getPhys(virt_base), "reg1") /\ context' = context
      BY <1>8 DEF EntryOneBuffer, EntryOffset
    <2> QED BY <2>1, WordsStored, EntryBufferInv DEF Contexts
  <1>9. CASE EntryOneRegister
    <2>1. Put("reg1", EntryOffset(0) + 4, DprRegister, "fb2") /\ context' = context /\ dpc = "reg1"
      BY <1>9 DEF EntryOneRegister, EntryOffset, Put
    <2>2. mem[EntryOffset(0)] = phys_base + BufferOf(0) BY <2>1 DEF PoolInv, EntriesHold
    <2> QED BY <2>1, <2>2, EntryRegisterInv DEF Contexts
  <1>10. CASE EntryTwoBuffer
    <2>1. Put("fb2", EntryOffset(1), getPhys(virt_base + FRAME_BUFFER_TWO_OFFSET), "reg2")
          /\ context' = context
      BY <1>10 DEF EntryTwoBuffer, EntryOffset
    <2> QED BY <2>1, WordsStored, EntryBufferInv DEF Contexts
  <1>11. CASE EntryTwoRegister
    <2>1. Put("reg2", EntryOffset(1) + 4, DprRegister, "select") /\ context' = context /\ dpc = "reg2"
      BY <1>11 DEF EntryTwoRegister, EntryOffset, Put
    <2>2. mem[EntryOffset(1)] = phys_base + BufferOf(1) BY <2>1 DEF PoolInv, EntriesHold
    <2> QED BY <2>1, <2>2, EntryRegisterInv DEF Contexts
  <1>12. CASE SelectEntry
    <2>1. db_base' = phys_base + EntryOffset(context)
      BY <1>2, <1>12, WordsStored DEF SelectEntry
    <2>2. EntryOffset(context) \in Nat
      BY Sizes DEF EntryOffset, CTX_LD_DB_ONE_ADDR, CTX_LD_DB_TWO_ADDR
    <2>3. db_base' \in Nat BY <2>1, <2>2, Sizes
    <2>4. LoaderHolds' BY <1>12, <2>1 DEF PoolInv, LoaderHolds, SelectEntry, EntryOffset
    <2> QED BY <1>2, <1>12, <2>3, <2>4, DcssStepInv DEF SelectEntry, Steps
  <1>13. CASE ContextLoad
    <2>1. db_base - phys_base = EntryOffset(context)
      <3>1. db_base = phys_base + EntryOffset(context) BY <1>13 DEF ContextLoad, PoolInv, LoaderHolds
      <3>2. EntryOffset(context) \in Nat
        BY Sizes DEF EntryOffset, CTX_LD_DB_ONE_ADDR, CTX_LD_DB_TWO_ADDR
      <3> QED BY <3>1, <3>2, Sizes
    <2>2. EntryHolds(context) /\ BufferOf(context) \in Buffers
      BY <1>2 DEF PoolInv, EntriesHold, BufferOf, Buffers
    <2>3. dpr_base' \in {0} \union {phys_base + b : b \in Buffers}
      BY <1>13, <2>1, <2>2, WordsStored DEF ContextLoad, EntryHolds, PoolInv, LoaderHolds
    <2>4. LoaderHolds' BY <1>13, <2>3 DEF ContextLoad, LoaderHolds
    <2> QED BY <1>2, <1>13, <2>4, DcssStepInv DEF ContextLoad, Steps
  <1>14. CASE SetActive
    <2>1. PICK b \in Buffers : Put("set_active", ACTIVE, b, "set_cache") /\ context' = context
      BY <1>1, <1>14 DEF SetActive
    <2>2. "set_cache" \in Steps \ {"load", "reg1", "reg2"} BY DEF Steps
    <2> QED BY <1>1, <1>2, <2>1, <2>2, OffsetStoreInv
  <1>15. CASE SetCache
    <2>1. PICK b \in Buffers : Put("set_cache", CACHE, b, "recv") /\ context' \in Contexts
      BY <1>1, <1>15 DEF SetCache, Contexts
    <2>2. "recv" \in Steps \ {"load", "reg1", "reg2"} BY DEF Steps
    <2> QED BY <1>1, <1>2, <2>1, <2>2, OffsetStoreInv
  <1> QED
    BY <1>3, <1>4, <1>5, <1>6, <1>7, <1>8, <1>9, <1>10, <1>11, <1>12, <1>13, <1>14, <1>15
    DEF Dcss

-----------------------------------------------------------------------------
(* The invariant and what follows from it.                                 *)

(* The pool begins zeroed: each word names the buffer at offset zero.       *)
LEMMA InitInv == Init => PoolInv
  <1> SUFFICES ASSUME Init PROVE PoolInv OBVIOUS
  <1> USE DEF Init
  <1>1. 0 \in Buffers /\ 0 \in 0 .. Word - 1 /\ FRAME_BUFFER_ONE_OFFSET = 0
    BY BuffersApart, Sizes DEF FRAME_BUFFER_ONE_OFFSET
  <1>2. Nothing \in [pen : Pens, bytes : Nat] /\ Nothing.bytes = 0 /\ 0 \in Pens
    BY MaxFramesAssumption DEF Nothing, Pens
  <1>3. TypeOK BY <1>1, <1>2, Sizes DEF TypeOK, Steps, Contexts
  <1>4. \A r \in Regions : mem[r] = 0 /\ mem[r + 4] = 0 BY RegionsApart
  <1>5. OffsetWordsHold BY <1>1, <1>4 DEF OffsetWordsHold, Regions
  <1>6. DprRegister # 0 BY WordsStored
  <1>7. EntriesHold BY <1>4, <1>6 DEF EntriesHold, EntryHolds, EntryOffset, Regions
  <1>8. LoaderHolds /\ PaintingHolds BY DEF LoaderHolds, PaintingHolds
  <1>9. GivenFits BY <1>2, Sizes DEF GivenFits
  <1>10. PicturesKept
    <2> SUFFICES ASSUME NEW b \in Buffers, NEW a \in Cells, a >= b, a < b + given[b].bytes
                 PROVE  FALSE
      BY DEF PicturesKept
    <2>1. given[b].bytes = 0 /\ b \in Nat /\ a \in Nat BY <1>2, BuffersApart DEF Cells
    <2> QED BY <2>1
  <1> QED BY <1>3, <1>5, <1>7, <1>8, <1>9, <1>10 DEF PoolInv

LEMMA NextInv == PoolInv /\ [Next]_vars => PoolInv'
  <1>1. ASSUME PoolInv, UNCHANGED vars PROVE PoolInv'
    BY <1>1 DEF vars, clientVars, dcssVars, hwVars, history, PoolInv, TypeOK, OffsetWordsHold,
                EntriesHold, EntryHolds, LoaderHolds, PaintingHolds, GivenFits, PicturesKept,
                PictureBytes
  <1> QED BY <1>1, ClientInv, DcssInv DEF Next

(* PoolInv is an invariant.                                                *)
THEOREM PoolInvariance == Spec => []PoolInv
  BY InitInv, NextInv, PTL DEF Spec

(* What the client reads of an offset word, 64 bits of which 32 were        *)
(* written (frame_buffer.c:13), is always a frame buffer.                  *)
THEOREM OffsetsCorrect == Spec => []OffsetsReadBack
  <1>1. PoolInv => OffsetsReadBack BY OffsetRead DEF PoolInv, OffsetsReadBack
  <1> QED BY <1>1, PoolInvariance, PTL

(* No pixel is ever stored outside the buffer its picture began in.        *)
THEOREM StoresCorrect == Spec => []StoresStayHome
  <1>1. PoolInv => StoresStayHome BY StoreRange DEF PoolInv, StoresStayHome
  <1> QED BY <1>1, PoolInvariance, PTL

(* A finished picture lasts until the client turns to its buffer again.     *)
THEOREM PicturesCorrect == Spec => []PicturesKept
  <1>1. PoolInv => PicturesKept BY DEF PoolInv
  <1> QED BY <1>1, PoolInvariance, PTL

(* The DPR fetches from the head of a frame buffer, whatever the pool's     *)
(* virtual and physical addresses are.                                     *)
THEOREM BaseCorrect == Spec => []BaseIsBuffer
  <1>1. PoolInv => BaseIsBuffer
    BY BuffersApart, Sizes DEF PoolInv, LoaderHolds, BaseIsBuffer
  <1> QED BY <1>1, PoolInvariance, PTL

(* Each word of the pool is a 32-bit word.                                 *)
THEOREM TypeCorrect == Spec => []TypeOK
  <1>1. PoolInv => TypeOK BY DEF PoolInv
  <1> QED BY <1>1, PoolInvariance, PTL

-----------------------------------------------------------------------------
(* The pool implements BufferStore.                                        *)

LEMMA AbstractInit == PoolInv /\ Init => Pool!Init
  <1> SUFFICES ASSUME PoolInv, Init PROVE Pool!Init OBVIOUS
  <1>1. BufferOf(0) = 0 /\ 0 \in Cells /\ 0 \in Buffers
    BY BuffersApart DEF BufferOf, FRAME_BUFFER_ONE_OFFSET
  <1>2. \A r \in Regions : mem[r] = 0 /\ mem[r + 4] = 0 BY RegionsApart DEF Init
  <1>3. OffsetAt(ACTIVE_FRAME_BUFFER_ADDR_OFFSET) = 0 /\ OffsetAt(CACHE_FRAME_BUFFER_ADDR_OFFSET) = 0
    BY <1>2, OffsetRead DEF Regions, PoolInv
  <1>4. DprRegister # 0 BY WordsStored
  <1>5. \A c \in Contexts : EntryBuffer(c) = NoBuffer
    BY <1>2, <1>4 DEF EntryBuffer, EntryOffset, Regions
  <1>6. \A b \in Buffers : Pixels(b) = {0}
    <2> SUFFICES ASSUME NEW b \in Buffers PROVE Pixels(b) = {0} OBVIOUS
    <2>1. b \in Cells /\ b >= b /\ b < b + FRAME_BUFFER_SIZE BY BuffersApart, Sizes DEF Cells
    <2>2. \A a \in Cells : mem[a] = 0 BY DEF Init
    <2> QED BY <2>1, <2>2 DEF Pixels
  <1>7. dpr_base = 0 BY DEF Init
  <1> QED BY <1>1, <1>3, <1>5, <1>6, <1>7 DEF Pool!Init

(* The abstract variables, by the name BufferStore gives them.             *)
active_fb == OffsetAt(ACTIVE_FRAME_BUFFER_ADDR_OFFSET)
cache == OffsetAt(CACHE_FRAME_BUFFER_ADDR_OFFSET)
entry == [c \in Contexts |-> EntryBuffer(c)]
base == IF dpr_base = 0 THEN NoBuffer ELSE dpr_base - phys_base
picture == [b \in Buffers |-> Pixels(b)]

(* Cells behind the buffers that change leave the pictures alone...         *)
LEMMA PicturesAside ==
  ASSUME \A a \in Cells : a < 2 * FRAME_BUFFER_SIZE => mem'[a] = mem[a]
  PROVE  UNCHANGED picture
  <1>1. \A a \in Cells, b \in Buffers : a < b + FRAME_BUFFER_SIZE => a < 2 * FRAME_BUFFER_SIZE
    BY BuffersApart, Sizes DEF Cells
  <1>2. \A b \in Buffers : Pixels(b)' = Pixels(b)
    <2> SUFFICES ASSUME NEW b \in Buffers PROVE Pixels(b)' = Pixels(b) OBVIOUS
    <2>1. \A c \in {a \in Cells : a >= b /\ a < b + FRAME_BUFFER_SIZE} : mem'[c] = mem[c]
      BY <1>1
    <2> QED BY <2>1 DEF Pixels
  <1> QED BY <1>2 DEF picture

(* ... and cells in front of them the words and the entries.               *)
LEMMA RegionsAside ==
  ASSUME \A r \in Regions : mem'[r] = mem[r] /\ mem'[r + 4] = mem[r + 4]
  PROVE  UNCHANGED <<active_fb, cache, entry>>
  <1>1. \A c \in Contexts : EntryBuffer(c)' = EntryBuffer(c)
    BY DEF EntryBuffer, EntryOffset, Regions
  <1> QED BY <1>1 DEF active_fb, cache, entry, OffsetAt, Regions

(* A store of the client's paints the picture it belongs to.               *)
LEMMA StorePaints ==
  ASSUME PoolInv, Store
  PROVE  Pool!Next
  <1>1. UNCHANGED <<active_fb, cache, entry>> BY StoreKeeps, RegionsAside
  <1>2. UNCHANGED base BY DEF Store, hwVars, base
  <1>3. target \in Buffers /\ pen \in Pens BY DEF PoolInv, TypeOK
  <1>4. \A a \in Cells : mem'[a] = mem[a] \/ mem'[a] = pen
    BY DEF Store, PoolInv, TypeOK
  <1>5. Pixels(target)' \subseteq Pixels(target) \union {pen}
    BY <1>4 DEF Pixels, Store
  <1>6. \A b \in Buffers \ {target} : Pixels(b)' = Pixels(b)
    <2> SUFFICES ASSUME NEW b \in Buffers \ {target} PROVE Pixels(b)' = Pixels(b) OBVIOUS
    <2>1. \A a \in {c \in Cells : c >= b /\ c < b + FRAME_BUFFER_SIZE} : mem'[a] = mem[a]
      <3> SUFFICES ASSUME NEW a \in Cells, a >= b, a < b + FRAME_BUFFER_SIZE
                   PROVE  mem'[a] = mem[a]
        OBVIOUS
      <3>1. a < target \/ a >= target + FRAME_BUFFER_SIZE
        BY <1>3, BuffersApart, Sizes DEF Cells
      <3> QED BY <3>1, StoreKeeps
    <2> QED BY <2>1 DEF Pixels
  <1>7. target' = target BY DEF Store
  <1>8. picture' = [picture EXCEPT ![target] = picture'[target]]
    BY <1>3, <1>6 DEF picture
  <1>9. picture'[target] \subseteq picture[target] \union {pen} BY <1>3, <1>5, <1>7 DEF picture
  <1>10. Pool!Paint(target, pen)
    BY <1>1, <1>2, <1>8, <1>9 DEF Pool!Paint, active_fb, cache, entry, base, picture
  <1> QED BY <1>3, <1>10 DEF Pool!Next

(* Any other step of the client changes no cell.                           *)
LEMMA ClientSimulates ==
  ASSUME PoolInv, Client
  PROVE  Pool!Next \/ UNCHANGED <<active_fb, cache, entry, base, picture>>
  <1>1. CASE Store BY <1>1, StorePaints
  <1>2. CASE SetHd \/ WriteFb \/ clear_current_frame_buffer \/ clear_current_cache_buffer
    <2>1. mem' = mem /\ dpr_base' = dpr_base
      BY <1>2 DEF SetHd, WriteFb, clear_current_frame_buffer, clear_current_cache_buffer,
                  Begin, hwVars
    <2> QED BY <2>1, PicturesAside, RegionsAside DEF base
  <1> QED BY <1>1, <1>2 DEF Client

(* An offset word stored is SetActive or SetCache.                         *)
LEMMA OffsetSimulates ==
  ASSUME PoolInv,
         NEW word \in {ACTIVE_FRAME_BUFFER_ADDR_OFFSET, CACHE_FRAME_BUFFER_ADDR_OFFSET},
         NEW b \in Buffers, NEW at, NEW next, Put(at, word, b, next)
  PROVE  Pool!Next
  <1> DEFINE A == ACTIVE_FRAME_BUFFER_ADDR_OFFSET
             C == CACHE_FRAME_BUFFER_ADDR_OFFSET
  <1>1. /\ A \in Regions /\ C \in Regions /\ word \in Regions /\ A # C
        /\ \A c \in Contexts : EntryOffset(c) \in Regions \ {A, C}
    BY RegionsApart DEF Regions, EntryOffset
  <1>2. \A r \in Regions : r \in Cells /\ r + 4 \in Cells /\ r \in Nat /\ r >= 2 * FRAME_BUFFER_SIZE
    BY RegionsApart DEF Cells
  <1>3. mem' = [mem EXCEPT ![word] = b] /\ dpr_base' = dpr_base
    BY WordsStored DEF Put, hwVars
  <1> HIDE DEF A, C
  <1>4. mem'[word] = b /\ \A a \in Cells \ {word} : mem'[a] = mem[a]
    BY <1>1, <1>2, <1>3 DEF PoolInv, TypeOK
  <1>5. \A r \in Regions : r + 4 # word BY <1>1, <1>2, RegionsApart
  <1>6. \A r \in Regions : mem'[r + 4] = mem[r + 4] /\ (r # word => mem'[r] = mem[r])
    BY <1>2, <1>4, <1>5
  <1>7. UNCHANGED picture BY <1>1, <1>2, <1>4, Sizes, PicturesAside DEF Cells
  <1>8. UNCHANGED base BY <1>3 DEF base
  <1>9. word \in {A, C} BY DEF A, C
  <1>10. UNCHANGED entry
    <2>1. \A c \in Contexts : EntryBuffer(c)' = EntryBuffer(c)
      BY <1>1, <1>6, <1>9 DEF EntryBuffer
    <2> QED BY <2>1 DEF entry
  <1>11. mem[word + 4] = 0 /\ b \in Nat /\ Word * 0 = 0
    BY BuffersApart, Sizes DEF PoolInv, OffsetWordsHold
  <1>12. OffsetAt(word)' = b
    <2>1. mem'[word] + Word * mem'[word + 4] = b BY <1>1, <1>4, <1>6, <1>11
    <2> QED BY <2>1 DEF OffsetAt
  <1>13. CASE word = A
    <2>1. cache' = cache BY <1>1, <1>6, <1>13 DEF cache, OffsetAt, C
    <2>2. active_fb' \in Buffers BY <1>12, <1>13 DEF active_fb, A
    <2>3. Pool!SetActive
      BY <1>7, <1>8, <1>10, <2>1, <2>2 DEF Pool!SetActive, active_fb, cache, entry, base, picture
    <2> QED BY <2>3 DEF Pool!Next
  <1>14. CASE word = C
    <2>1. active_fb' = active_fb BY <1>1, <1>6, <1>14 DEF active_fb, OffsetAt, A
    <2>2. cache' \in Buffers BY <1>12, <1>14 DEF cache, C
    <2>3. Pool!SetCache
      BY <1>7, <1>8, <1>10, <2>1, <2>2 DEF Pool!SetCache, active_fb, cache, entry, base, picture
    <2> QED BY <2>3 DEF Pool!Next
  <1> QED BY <1>9, <1>13, <1>14

(* What a store to an entry leaves alone.                                  *)
LEMMA EntryAside ==
  ASSUME PoolInv, NEW c \in Contexts, NEW a, a = EntryOffset(c) \/ a = EntryOffset(c) + 4,
         NEW v \in 0 .. Word - 1, mem' = [mem EXCEPT ![a] = v], dpr_base' = dpr_base
  PROVE  /\ mem'[a] = v
         /\ a # EntryOffset(c) => mem'[EntryOffset(c)] = mem[EntryOffset(c)]
         /\ a # EntryOffset(c) + 4 => mem'[EntryOffset(c) + 4] = mem[EntryOffset(c) + 4]
         /\ UNCHANGED <<active_fb, cache, base, picture>>
         /\ \A d \in Contexts \ {c} : EntryBuffer(d)' = EntryBuffer(d)
  <1> DEFINE A == ACTIVE_FRAME_BUFFER_ADDR_OFFSET
             C == CACHE_FRAME_BUFFER_ADDR_OFFSET
             r == EntryOffset(c)
  <1>1. /\ r \in Regions /\ A \in Regions \ {r} /\ C \in Regions \ {r}
        /\ \A d \in Contexts \ {c} : EntryOffset(d) \in Regions \ {r}
    BY RegionsApart DEF Regions, EntryOffset, Contexts
  <1>2. \A s \in Regions : s \in Cells /\ s + 4 \in Cells /\ s \in Nat /\ s >= 2 * FRAME_BUFFER_SIZE
    BY RegionsApart DEF Cells
  <1> HIDE DEF A, C, r
  <1>3. a = r \/ a = r + 4 BY DEF r
  <1>4. a \in Cells /\ a \in Nat /\ a >= 2 * FRAME_BUFFER_SIZE BY <1>1, <1>2, <1>3, Sizes
  <1>5. mem'[a] = v /\ \A b \in Cells \ {a} : mem'[b] = mem[b]
    BY <1>4 DEF PoolInv, TypeOK
  <1>6. \A s \in Regions \ {r} : mem'[s] = mem[s] /\ mem'[s + 4] = mem[s + 4]
    <2> SUFFICES ASSUME NEW s \in Regions \ {r}
                 PROVE  mem'[s] = mem[s] /\ mem'[s + 4] = mem[s + 4]
      OBVIOUS
    <2>1. s # r /\ s + 4 # r + 4 BY <1>1, <1>2
    <2>2. s # r + 4 /\ s + 4 # r BY <1>1, <2>1, RegionsApart
    <2> QED BY <1>2, <1>3, <1>5, <2>1, <2>2
  <1>7. UNCHANGED picture BY <1>4, <1>5, Sizes, PicturesAside DEF Cells
  <1>8. UNCHANGED <<active_fb, cache>> BY <1>1, <1>6 DEF active_fb, cache, OffsetAt, A, C
  <1>9. \A d \in Contexts \ {c} : EntryBuffer(d)' = EntryBuffer(d)
    BY <1>1, <1>6 DEF EntryBuffer
  <1>10. /\ a # r => mem'[r] = mem[r]
         /\ a # r + 4 => mem'[r + 4] = mem[r + 4]
    BY <1>1, <1>2, <1>5
  <1>11. UNCHANGED base BY DEF base
  <1> QED BY <1>5, <1>7, <1>8, <1>9, <1>10, <1>11 DEF r

(* The register completes an entry: SetEntry.                              *)
LEMMA RegisterSimulates ==
  ASSUME PoolInv, NEW c \in Contexts, NEW at, NEW next,
         Put(at, EntryOffset(c) + 4, DprRegister, next),
         mem[EntryOffset(c)] = phys_base + BufferOf(c)
  PROVE  Pool!Next
  <1> DEFINE r == EntryOffset(c)
             a == r + 4
  <1>1. DprRegister \in 0 .. Word - 1 /\ DprRegister % Word = DprRegister BY WordsStored
  <1>2. mem' = [mem EXCEPT ![a] = DprRegister] /\ dpr_base' = dpr_base
    BY <1>1 DEF Put, hwVars
  <1>3. r \in Nat /\ a # r /\ (a = r \/ a = r + 4)
    BY RegionsApart DEF EntryOffset, Regions, Cells
  <1> HIDE DEF a
  <1>4. /\ mem'[a] = DprRegister /\ mem'[r] = mem[r]
        /\ UNCHANGED <<active_fb, cache, base, picture>>
        /\ \A d \in Contexts \ {c} : EntryBuffer(d)' = EntryBuffer(d)
    BY <1>1, <1>2, <1>3, EntryAside, ZenonT(60)
  <1>5. EntryBuffer(c)' = BufferOf(c)
    <2>1. BufferOf(c) \in Nat BY BuffersApart DEF BufferOf, Buffers
    <2> QED BY <1>4, <2>1, Sizes DEF EntryBuffer, a
  <1>6. entry' = [entry EXCEPT ![c] = BufferOf(c)] BY <1>4, <1>5 DEF entry
  <1>7. Pool!SetEntry(c)
    BY <1>4, <1>6 DEF Pool!SetEntry, active_fb, cache, entry, base, picture
  <1> QED BY <1>7 DEF Pool!Next

(* A buffer stored before its register is not an entry yet, and one stored  *)
(* again is the same.                                                      *)
LEMMA BufferSimulates ==
  ASSUME PoolInv, NEW c \in Contexts, NEW at, NEW w, NEW next,
         Put(at, EntryOffset(c), w, next), w % Word = phys_base + BufferOf(c)
  PROVE  UNCHANGED <<active_fb, cache, entry, base, picture>>
  <1> DEFINE r == EntryOffset(c)
             v == phys_base + BufferOf(c)
  <1>1. v \in 0 .. Word - 1 BY WordsStored DEF BufferOf, Buffers
  <1>2. mem' = [mem EXCEPT ![r] = v] /\ dpr_base' = dpr_base BY DEF Put, hwVars
  <1>3. r \in Nat /\ r # r + 4 BY RegionsApart DEF EntryOffset, Regions, Cells
  <1>4. mem[r + 4] = DprRegister => mem[r] = v BY DEF PoolInv, EntriesHold, EntryHolds
  <1> HIDE DEF v
  <1>5. /\ mem'[r] = v /\ mem'[r + 4] = mem[r + 4]
        /\ UNCHANGED <<active_fb, cache, base, picture>>
        /\ \A d \in Contexts \ {c} : EntryBuffer(d)' = EntryBuffer(d)
    BY <1>1, <1>2, <1>3, EntryAside
  <1>6. EntryBuffer(c)' = EntryBuffer(c) BY <1>4, <1>5 DEF EntryBuffer
  <1> QED BY <1>5, <1>6 DEF entry

LEMMA DcssSimulates ==
  ASSUME PoolInv, Dcss
  PROVE  Pool!Next \/ UNCHANGED <<active_fb, cache, entry, base, picture>>
  <1> DEFINE ACTIVE == ACTIVE_FRAME_BUFFER_ADDR_OFFSET
             CACHE == CACHE_FRAME_BUFFER_ADDR_OFFSET
  <1>1. FRAME_BUFFER_ONE_OFFSET \in Buffers /\ FRAME_BUFFER_TWO_OFFSET \in Buffers
    BY DEF Buffers
  <1>2. ASSUME mem' = mem PROVE UNCHANGED <<active_fb, cache, entry, picture>>
    BY <1>2, PicturesAside, RegionsAside
  <1>3. CASE InitActive \/ SetActive
    <2>1. PICK b \in Buffers, at \in Steps, next \in Steps : Put(at, ACTIVE, b, next)
      BY <1>1, <1>3 DEF InitActive, SetActive, Steps
    <2> QED BY <2>1, OffsetSimulates
  <1>4. CASE InitCache \/ SetCache
    <2>1. PICK b \in Buffers, at \in Steps, next \in Steps : Put(at, CACHE, b, next)
      BY <1>1, <1>4 DEF InitCache, SetCache, Steps
    <2> QED BY <2>1, OffsetSimulates
  <1>5. CASE EntryOneBuffer
    <2>1. Put("fb1", EntryOffset(0), getPhys(virt_base), "reg1")
      BY <1>5 DEF EntryOneBuffer, EntryOffset
    <2> QED BY <2>1, WordsStored, BufferSimulates DEF Contexts
  <1>6. CASE EntryTwoBuffer
    <2>1. Put("fb2", EntryOffset(1), getPhys(virt_base + FRAME_BUFFER_TWO_OFFSET), "reg2")
      BY <1>6 DEF EntryTwoBuffer, EntryOffset
    <2> QED BY <2>1, WordsStored, BufferSimulates DEF Contexts
  <1>7. CASE EntryOneRegister
    <2>1. Put("reg1", EntryOffset(0) + 4, DprRegister, "fb2") /\ dpc = "reg1"
      BY <1>7 DEF EntryOneRegister, EntryOffset, Put
    <2>2. mem[EntryOffset(0)] = phys_base + BufferOf(0) BY <2>1 DEF PoolInv, EntriesHold
    <2> QED BY <2>1, <2>2, RegisterSimulates DEF Contexts
  <1>8. CASE EntryTwoRegister
    <2>1. Put("reg2", EntryOffset(1) + 4, DprRegister, "select") /\ dpc = "reg2"
      BY <1>8 DEF EntryTwoRegister, EntryOffset, Put
    <2>2. mem[EntryOffset(1)] = phys_base + BufferOf(1) BY <2>1 DEF PoolInv, EntriesHold
    <2> QED BY <2>1, <2>2, RegisterSimulates DEF Contexts
  <1>9. CASE Protected \/ Notified \/ SelectEntry
    <2>1. mem' = mem /\ dpr_base' = dpr_base BY <1>9 DEF Protected, Notified, SelectEntry, hwVars
    <2> QED BY <1>2, <2>1 DEF base
  <1>10. CASE write_dpr_memory_registers
    <2>1. mem' = mem /\ dpr_base' = phys_base + BufferOf(0)
      BY <1>10, WordsStored DEF write_dpr_memory_registers
    <2>2. BufferOf(0) \in Nat BY BuffersApart DEF BufferOf, Buffers
    <2>3. base' = BufferOf(0) BY <2>1, <2>2, Sizes DEF base
    <2>4. Pool!SetBase BY <1>2, <2>1, <2>3 DEF Pool!SetBase, active_fb, cache, entry, base, picture
    <2> QED BY <2>4 DEF Pool!Next
  <1>11. CASE ContextLoad
    <2> DEFINE r == EntryOffset(context)
    <2>1. /\ mem' = mem /\ context \in Contexts /\ db_base = phys_base + r
          /\ dpr_base' = IF mem[(db_base - phys_base) + 4] = DprRegister
                         THEN mem[db_base - phys_base] ELSE dpr_base
      BY <1>11, WordsStored DEF ContextLoad, PoolInv, TypeOK, LoaderHolds
    <2>2. r \in Nat BY <2>1, RegionsApart DEF EntryOffset, Regions, Cells
    <2>3. db_base - phys_base = r
      <3> HIDE DEF r
      <3> QED BY <2>1, <2>2, Sizes
    <2>4. CASE mem[r + 4] = DprRegister
      <3>1. mem[r] = phys_base + BufferOf(context) /\ BufferOf(context) \in Nat
        BY <2>1, <2>4, BuffersApart DEF PoolInv, EntriesHold, EntryHolds, BufferOf, Buffers
      <3>2. dpr_base' = mem[r] BY <2>1, <2>3, <2>4
      <3>3. EntryBuffer(context) = mem[r] - phys_base BY <2>4 DEF EntryBuffer
      <3>4. base' = EntryBuffer(context) /\ EntryBuffer(context) # NoBuffer
        BY <3>1, <3>2, <3>3, Sizes DEF base, NoBuffer
      <3>5. Pool!Load(context)
        BY <1>2, <2>1, <3>4 DEF Pool!Load, active_fb, cache, entry, base, picture
      <3> QED BY <2>1, <3>5 DEF Pool!Next
    <2>5. CASE mem[r + 4] # DprRegister
      <3>1. dpr_base' = dpr_base BY <2>1, <2>3, <2>5
      <3> QED BY <1>2, <2>1, <3>1 DEF base
    <2> QED BY <2>4, <2>5
  <1> QED
    BY <1>3, <1>4, <1>5, <1>6, <1>7, <1>8, <1>9, <1>10, <1>11 DEF Dcss

(* The bytes of the one pool behave as the separate cells the model of the  *)
(* two PDs is built on, for every layout and address that is assumed.       *)
THEOREM Refinement == Spec => ImplementsStore
  <1>1. Init => Pool!Init BY InitInv, AbstractInit
  <1>2. PoolInv /\ [Next]_vars => [Pool!Next]_(Pool!vars)
    <2>1. ASSUME UNCHANGED vars PROVE UNCHANGED <<active_fb, cache, entry, base, picture>>
      <3>1. mem' = mem /\ dpr_base' = dpr_base BY <2>1 DEF vars, hwVars
      <3> QED BY <3>1, PicturesAside, RegionsAside DEF base
    <2>2. ASSUME PoolInv, [Next]_vars
          PROVE  Pool!Next \/ UNCHANGED <<active_fb, cache, entry, base, picture>>
      BY <2>1, <2>2, ClientSimulates, DcssSimulates DEF Next
    <2> QED BY <2>2 DEF Pool!vars, active_fb, cache, entry, base, picture
  <1> QED BY <1>1, <1>2, PoolInvariance, PTL DEF Spec, ImplementsStore, Pool!Spec

-----------------------------------------------------------------------------
(* The moving square: what the example remembers of each buffer.            *)

CountsAgree ==
    /\ pc \in {"write", "show"}
    /\ current_fb \in 0..1 /\ active \in 0..1
    /\ pc = "write" => current_fb = active
    /\ pc = "show" => current_fb = 1 - active

SquaresRemembered ==
    /\ fb = [b \in 0..1 |-> fb[b]]
    /\ previous_buffer_position = [b \in 0..1 |-> previous_buffer_position[b]]
    /\ \A b \in 0..1 : fb[b] \subseteq {previous_buffer_position[b]}
    /\ pc = "show" => fb[active] = {previous_buffer_position[active]}

SquareInv == CountsAgree /\ SquaresRemembered

LEMMA WriteInv == SquareInv /\ write_frame_buffer => SquareInv'
  <1> SUFFICES ASSUME SquareInv, write_frame_buffer PROVE SquareInv' OBVIOUS
  <1> USE DEF SquareInv, CountsAgree, SquaresRemembered
  <1>1. /\ pc = "write" /\ pc' = "show" /\ active' = active
        /\ current_fb = active /\ current_fb' = 1 - active
    BY DEF write_frame_buffer
  <1>2. CountsAgree' BY <1>1
  <1>3. previous_buffer_position' = [previous_buffer_position EXCEPT ![active] = <<x_pos, y_pos>>]
    BY <1>1 DEF write_frame_buffer, Remembered
  <1>4. fb' = [fb EXCEPT ![active] =
                 (fb[active] \ {previous_buffer_position[active]}) \union {<<x_pos, y_pos>>}]
    BY <1>1 DEF write_frame_buffer
  <1>5. fb[active] \ {previous_buffer_position[active]} = {} BY <1>1
  <1>6. fb' = [fb EXCEPT ![active] = {<<x_pos, y_pos>>}] BY <1>4, <1>5
  <1> QED BY <1>1, <1>2, <1>3, <1>6

LEMMA LoadInv == SquareInv /\ run_context_loader => SquareInv'
  BY DEF SquareInv, CountsAgree, SquaresRemembered, run_context_loader

LEMMA SquareInvariance == SquareSpec => []SquareInv
  <1>1. SquareInit => SquareInv
    BY DEF SquareInit, SquareInv, CountsAgree, SquaresRemembered
  <1>2. SquareInv /\ UNCHANGED squareVars => SquareInv'
    BY DEF squareVars, SquareInv, CountsAgree, SquaresRemembered
  <1> QED BY <1>1, <1>2, WriteInv, LoadInv, PTL DEF SquareSpec, SquareNext

(* No frame that is shown holds more or less than one square.               *)
THEOREM OneSquareCorrect == SquareSpec => []OneSquareShown
  <1>1. SquareInv => OneSquareShown
    BY DEF SquareInv, CountsAgree, SquaresRemembered, OneSquareShown
  <1> QED BY <1>1, SquareInvariance, PTL

-----------------------------------------------------------------------------
(* The square is turned by one side at a time: in a corner it would leave    *)
(* the picture.  Unfolded at its turns its path is a straight line, along   *)
(* which the two coordinates grow alike.  Their difference is therefore     *)
(* that of the start, 295, but for twice the way from side to side at each  *)
(* turn, and at a corner it would have to be one of four numbers.           *)

Right == x_limit - 1
Bottom == y_limit - 1

MissesCorners(g) ==
    /\ g \in Nat \ {0}
    /\ \E p \in Int : 2 * Right = g * p
    /\ \E q \in Int : 2 * Bottom = g * q
    /\ \A k \in Int : 295 + g * k \notin {0, Right, -Bottom, Right - Bottom}

Unfolded(x, y, d) ==
    CASE d = "DOWN_RIGHT" -> x - y
      [] d = "DOWN_LEFT" -> -x - y
      [] d = "UP_RIGHT" -> x + y
      [] d = "UP_LEFT" -> -x + y

Inside == (0 .. Right) \X (0 .. Bottom)

PathInv(g) ==
    /\ direction \in {"DOWN_RIGHT", "DOWN_LEFT", "UP_RIGHT", "UP_LEFT"}
    /\ x_pos \in 0 .. Right /\ y_pos \in 0 .. Bottom
    /\ \E k \in Int : Unfolded(x_pos, y_pos, direction) = 295 + g * k
    /\ \A b \in 0..1 : fb[b] \subseteq Inside

LEMMA SquareRows ==
  /\ square_pos["DOWN_RIGHT"].x = 1 /\ square_pos["DOWN_RIGHT"].y = 1
  /\ square_pos["DOWN_RIGHT"].x_limit = x_limit /\ square_pos["DOWN_RIGHT"].y_limit = y_limit
  /\ square_pos["DOWN_RIGHT"].x_dir_change = "DOWN_LEFT" /\ square_pos["DOWN_RIGHT"].y_dir_change = "UP_RIGHT"
  /\ square_pos["DOWN_LEFT"].x = -1 /\ square_pos["DOWN_LEFT"].y = 1
  /\ square_pos["DOWN_LEFT"].x_limit = -1 /\ square_pos["DOWN_LEFT"].y_limit = y_limit
  /\ square_pos["DOWN_LEFT"].x_dir_change = "DOWN_RIGHT" /\ square_pos["DOWN_LEFT"].y_dir_change = "UP_LEFT"
  /\ square_pos["UP_RIGHT"].x = 1 /\ square_pos["UP_RIGHT"].y = -1
  /\ square_pos["UP_RIGHT"].x_limit = x_limit /\ square_pos["UP_RIGHT"].y_limit = -1
  /\ square_pos["UP_RIGHT"].x_dir_change = "UP_LEFT" /\ square_pos["UP_RIGHT"].y_dir_change = "DOWN_RIGHT"
  /\ square_pos["UP_LEFT"].x = -1 /\ square_pos["UP_LEFT"].y = -1
  /\ square_pos["UP_LEFT"].x_limit = -1 /\ square_pos["UP_LEFT"].y_limit = -1
  /\ square_pos["UP_LEFT"].x_dir_change = "UP_RIGHT" /\ square_pos["UP_LEFT"].y_dir_change = "DOWN_LEFT"
  BY DEF square_pos, Row

(* One step along the path, a turn included.                               *)
LEMMA PathStep ==
  ASSUME NEW g, MissesCorners(g), Right \in Nat \ {0}, Bottom \in Nat \ {0},
         PathInv(g), write_frame_buffer
  PROVE  /\ direction' \in {"DOWN_RIGHT", "DOWN_LEFT", "UP_RIGHT", "UP_LEFT"}
         /\ x_pos' \in 0 .. Right /\ y_pos' \in 0 .. Bottom
         /\ \E k \in Int : Unfolded(x_pos', y_pos', direction') = 295 + g * k
  <1> DEFINE u == Unfolded(x_pos, y_pos, direction)
             u1 == Unfolded(x_pos', y_pos', direction')
  <1>1. PICK k \in Int : u = 295 + g * k BY DEF PathInv
  <1>2. PICK p \in Int : 2 * Right = g * p BY DEF MissesCorners
  <1>3. PICK q \in Int : 2 * Bottom = g * q BY DEF MissesCorners
  <1>4. u \notin {0, Right, -Bottom, Right - Bottom}
    <2>1. 295 + g * k \notin {0, Right, -Bottom, Right - Bottom} BY DEF MissesCorners
    <2> QED BY <1>1, <2>1, Zenon
  <1>5. x_pos \in 0 .. Right /\ y_pos \in 0 .. Bottom BY DEF PathInv
  <1>6. x_limit = Right + 1 /\ y_limit = Bottom + 1
    BY SizesAssumption DEF Right, Bottom, x_limit, y_limit
  <1>7. /\ direction' = NextDirection
        /\ y_pos' = y_pos + square_pos[NextDirection].y
        /\ x_pos' = x_pos + square_pos[NextDirection].x
    BY DEF write_frame_buffer
  <1>8. /\ direction' \in {"DOWN_RIGHT", "DOWN_LEFT", "UP_RIGHT", "UP_LEFT"}
        /\ x_pos' \in 0 .. Right /\ y_pos' \in 0 .. Bottom
        /\ u1 \in {u, u - 2 * Right, u - 2 * Bottom, u + 2 * Right, u + 2 * Bottom}
    <2>1. CASE direction = "DOWN_RIGHT"
      <3>1. /\ y_pos + (1) = y_limit => direction' = "UP_RIGHT"
            /\ y_pos + (1) # y_limit /\ x_pos + (1) = x_limit => direction' = "DOWN_LEFT"
            /\ y_pos + (1) # y_limit /\ x_pos + (1) # x_limit => direction' = "DOWN_RIGHT"
        BY <1>7, <2>1, SquareRows DEF NextDirection
      <3>2. u = Unfolded(x_pos, y_pos, "DOWN_RIGHT") BY <2>1
      <3>3. CASE direction' = "DOWN_RIGHT"
        <4>1. x_pos' = x_pos + (1) /\ y_pos' = y_pos + (1) BY <1>7, <3>3, SquareRows
        <4>2. u1 = Unfolded(x_pos', y_pos', "DOWN_RIGHT") BY <3>3
        <4> HIDE DEF u, u1
        <4> QED BY <1>4, <1>5, <1>6, <3>1, <3>2, <3>3, <4>1, <4>2 DEF Unfolded
      <3>4. CASE direction' = "UP_RIGHT"
        <4>1. x_pos' = x_pos + (1) /\ y_pos' = y_pos + (-1) BY <1>7, <3>4, SquareRows
        <4>2. u1 = Unfolded(x_pos', y_pos', "UP_RIGHT") BY <3>4
        <4> HIDE DEF u, u1
        <4> QED BY <1>4, <1>5, <1>6, <3>1, <3>2, <3>4, <4>1, <4>2 DEF Unfolded
      <3>5. CASE direction' = "DOWN_LEFT"
        <4>1. x_pos' = x_pos + (-1) /\ y_pos' = y_pos + (1) BY <1>7, <3>5, SquareRows
        <4>2. u1 = Unfolded(x_pos', y_pos', "DOWN_LEFT") BY <3>5
        <4> HIDE DEF u, u1
        <4> QED BY <1>4, <1>5, <1>6, <3>1, <3>2, <3>5, <4>1, <4>2 DEF Unfolded
      <3> QED BY <3>1, <3>3, <3>4, <3>5
    <2>2. CASE direction = "DOWN_LEFT"
      <3>1. /\ y_pos + (1) = y_limit => direction' = "UP_LEFT"
            /\ y_pos + (1) # y_limit /\ x_pos + (-1) = -1 => direction' = "DOWN_RIGHT"
            /\ y_pos + (1) # y_limit /\ x_pos + (-1) # -1 => direction' = "DOWN_LEFT"
        BY <1>7, <2>2, SquareRows DEF NextDirection
      <3>2. u = Unfolded(x_pos, y_pos, "DOWN_LEFT") BY <2>2
      <3>3. CASE direction' = "DOWN_LEFT"
        <4>1. x_pos' = x_pos + (-1) /\ y_pos' = y_pos + (1) BY <1>7, <3>3, SquareRows
        <4>2. u1 = Unfolded(x_pos', y_pos', "DOWN_LEFT") BY <3>3
        <4> HIDE DEF u, u1
        <4> QED BY <1>4, <1>5, <1>6, <3>1, <3>2, <3>3, <4>1, <4>2 DEF Unfolded
      <3>4. CASE direction' = "UP_LEFT"
        <4>1. x_pos' = x_pos + (-1) /\ y_pos' = y_pos + (-1) BY <1>7, <3>4, SquareRows
        <4>2. u1 = Unfolded(x_pos', y_pos', "UP_LEFT") BY <3>4
        <4> HIDE DEF u, u1
        <4> QED BY <1>4, <1>5, <1>6, <3>1, <3>2, <3>4, <4>1, <4>2 DEF Unfolded
      <3>5. CASE direction' = "DOWN_RIGHT"
        <4>1. x_pos' = x_pos + (1) /\ y_pos' = y_pos + (1) BY <1>7, <3>5, SquareRows
        <4>2. u1 = Unfolded(x_pos', y_pos', "DOWN_RIGHT") BY <3>5
        <4> HIDE DEF u, u1
        <4> QED BY <1>4, <1>5, <1>6, <3>1, <3>2, <3>5, <4>1, <4>2 DEF Unfolded
      <3> QED BY <3>1, <3>3, <3>4, <3>5
    <2>3. CASE direction = "UP_RIGHT"
      <3>1. /\ y_pos + (-1) = -1 => direction' = "DOWN_RIGHT"
            /\ y_pos + (-1) # -1 /\ x_pos + (1) = x_limit => direction' = "UP_LEFT"
            /\ y_pos + (-1) # -1 /\ x_pos + (1) # x_limit => direction' = "UP_RIGHT"
        BY <1>7, <2>3, SquareRows DEF NextDirection
      <3>2. u = Unfolded(x_pos, y_pos, "UP_RIGHT") BY <2>3
      <3>3. CASE direction' = "UP_RIGHT"
        <4>1. x_pos' = x_pos + (1) /\ y_pos' = y_pos + (-1) BY <1>7, <3>3, SquareRows
        <4>2. u1 = Unfolded(x_pos', y_pos', "UP_RIGHT") BY <3>3
        <4> HIDE DEF u, u1
        <4> QED BY <1>4, <1>5, <1>6, <3>1, <3>2, <3>3, <4>1, <4>2 DEF Unfolded
      <3>4. CASE direction' = "DOWN_RIGHT"
        <4>1. x_pos' = x_pos + (1) /\ y_pos' = y_pos + (1) BY <1>7, <3>4, SquareRows
        <4>2. u1 = Unfolded(x_pos', y_pos', "DOWN_RIGHT") BY <3>4
        <4> HIDE DEF u, u1
        <4> QED BY <1>4, <1>5, <1>6, <3>1, <3>2, <3>4, <4>1, <4>2 DEF Unfolded
      <3>5. CASE direction' = "UP_LEFT"
        <4>1. x_pos' = x_pos + (-1) /\ y_pos' = y_pos + (-1) BY <1>7, <3>5, SquareRows
        <4>2. u1 = Unfolded(x_pos', y_pos', "UP_LEFT") BY <3>5
        <4> HIDE DEF u, u1
        <4> QED BY <1>4, <1>5, <1>6, <3>1, <3>2, <3>5, <4>1, <4>2 DEF Unfolded
      <3> QED BY <3>1, <3>3, <3>4, <3>5
    <2>4. CASE direction = "UP_LEFT"
      <3>1. /\ y_pos + (-1) = -1 => direction' = "DOWN_LEFT"
            /\ y_pos + (-1) # -1 /\ x_pos + (-1) = -1 => direction' = "UP_RIGHT"
            /\ y_pos + (-1) # -1 /\ x_pos + (-1) # -1 => direction' = "UP_LEFT"
        BY <1>7, <2>4, SquareRows DEF NextDirection
      <3>2. u = Unfolded(x_pos, y_pos, "UP_LEFT") BY <2>4
      <3>3. CASE direction' = "UP_LEFT"
        <4>1. x_pos' = x_pos + (-1) /\ y_pos' = y_pos + (-1) BY <1>7, <3>3, SquareRows
        <4>2. u1 = Unfolded(x_pos', y_pos', "UP_LEFT") BY <3>3
        <4> HIDE DEF u, u1
        <4> QED BY <1>4, <1>5, <1>6, <3>1, <3>2, <3>3, <4>1, <4>2 DEF Unfolded
      <3>4. CASE direction' = "DOWN_LEFT"
        <4>1. x_pos' = x_pos + (-1) /\ y_pos' = y_pos + (1) BY <1>7, <3>4, SquareRows
        <4>2. u1 = Unfolded(x_pos', y_pos', "DOWN_LEFT") BY <3>4
        <4> HIDE DEF u, u1
        <4> QED BY <1>4, <1>5, <1>6, <3>1, <3>2, <3>4, <4>1, <4>2 DEF Unfolded
      <3>5. CASE direction' = "UP_RIGHT"
        <4>1. x_pos' = x_pos + (1) /\ y_pos' = y_pos + (-1) BY <1>7, <3>5, SquareRows
        <4>2. u1 = Unfolded(x_pos', y_pos', "UP_RIGHT") BY <3>5
        <4> HIDE DEF u, u1
        <4> QED BY <1>4, <1>5, <1>6, <3>1, <3>2, <3>5, <4>1, <4>2 DEF Unfolded
      <3> QED BY <3>1, <3>3, <3>4, <3>5
    <2> QED BY <2>1, <2>2, <2>3, <2>4 DEF PathInv
  <1> HIDE DEF u, u1
  <1>9. g \in Int BY DEF MissesCorners
  <1>10. \E j \in Int : u1 = 295 + g * j
    <2>1. /\ g * (k - p) = g * k - g * p /\ g * (k + p) = g * k + g * p
          /\ g * (k - q) = g * k - g * q /\ g * (k + q) = g * k + g * q
      BY <1>1, <1>2, <1>3, <1>9
    <2>2. /\ u - 2 * Right = 295 + g * (k - p) /\ u + 2 * Right = 295 + g * (k + p)
          /\ u - 2 * Bottom = 295 + g * (k - q) /\ u + 2 * Bottom = 295 + g * (k + q)
      BY <1>1, <1>2, <1>3, <1>9, <2>1
    <2>3. k - p \in Int /\ k + p \in Int /\ k - q \in Int /\ k + q \in Int OBVIOUS
    <2> QED BY <1>1, <1>8, <2>2, <2>3
  <1> QED BY <1>8, <1>10 DEF u1

(* The path never leaves the picture, and no square is drawn but on it.     *)
THEOREM SquareStays ==
  ASSUME NEW g, MissesCorners(g), 5 <= Right, 300 <= Bottom
  PROVE  SquareSpec => []InPicture
  <1>0. /\ Right \in Nat \ {0} /\ Bottom \in Nat \ {0}
        /\ x_limit = Right + 1 /\ y_limit = Bottom + 1
    BY SizesAssumption DEF Right, Bottom, x_limit, y_limit
  <1>1. SquareInit => PathInv(g)
    <2> SUFFICES ASSUME SquareInit PROVE PathInv(g) OBVIOUS
    <2>1. x_pos \in 0 .. Right /\ y_pos \in 0 .. Bottom BY <1>0 DEF SquareInit
    <2>2. Unfolded(x_pos, y_pos, direction) = 295 BY DEF SquareInit, Unfolded
    <2>3. 295 = 295 + g * 0 BY DEF MissesCorners
    <2> QED BY <2>1, <2>2, <2>3 DEF SquareInit, PathInv
  <1>2. SquareInv /\ PathInv(g) /\ [SquareNext]_squareVars => PathInv(g)'
    <2> SUFFICES ASSUME SquareInv, PathInv(g), [SquareNext]_squareVars PROVE PathInv(g)' OBVIOUS
    <2>1. CASE write_frame_buffer
      <3>1. <<x_pos, y_pos>> \in Inside BY DEF PathInv, Inside
      <3>2. \A b \in 0..1 : fb'[b] \subseteq fb[b] \union {<<x_pos, y_pos>>}
        BY <2>1 DEF write_frame_buffer, SquareInv, CountsAgree, SquaresRemembered
      <3>3. \A b \in 0..1 : fb'[b] \subseteq Inside BY <3>1, <3>2 DEF PathInv
      <3> QED BY <1>0, <2>1, <3>3, PathStep DEF PathInv
    <2>2. CASE run_context_loader BY <2>2 DEF run_context_loader, PathInv
    <2>3. CASE UNCHANGED squareVars BY <2>3 DEF squareVars, PathInv
    <2> QED BY <2>1, <2>2, <2>3 DEF SquareNext
  <1>3. PathInv(g) => InPicture
    <2> SUFFICES ASSUME PathInv(g), NEW b \in 0..1, NEW s \in fb[b]
                 PROVE  s[1] \in 0..x_limit /\ s[2] \in 0..y_limit
      BY DEF InPicture
    <2>1. s \in Inside BY DEF PathInv
    <2>2. s[1] \in 0 .. Right /\ s[2] \in 0 .. Bottom BY <2>1 DEF Inside
    <2> QED BY <1>0, <2>2
  <1> QED BY SquareInvariance, <1>1, <1>2, <1>3, PTL DEF SquareSpec

(* At the sizes of the example: 720 by 480, and a square of 95.             *)
THEOREM ExampleStays ==
  ASSUME h_active = 720, v_active = 480, MOVING_SQUARE_SIDE_LENGTH = 95
  PROVE  SquareSpec => []InPicture
  <1>1. Right = 624 /\ Bottom = 384 BY DEF Right, Bottom, x_limit, y_limit
  <1>2. MissesCorners(96)
    <2>1. 2 * Right = 96 * 13 /\ 2 * Bottom = 96 * 8 BY <1>1
    <2>2. \A k \in Int : 295 + 96 * k \notin {0, Right, -Bottom, Right - Bottom} BY <1>1
    <2> QED BY <2>1, <2>2 DEF MissesCorners
  <1> QED BY <1>1, <1>2, SquareStays

-----------------------------------------------------------------------------
(* The pictures of the examples: sizes.                                    *)

LEMMA ModeSizes ==
  ASSUME NEW m \in 0..2
  PROVE  /\ Modes[m].h_active \in Nat \ {0} /\ Modes[m].v_active \in Nat \ {0}
         /\ \E q \in Nat \ {0} : Modes[m].h_active = 4 * q /\ Modes[m].h_active \div 4 = q
         /\ API_EXAMPLE_2_SIDE_LENGTH \in 0 .. Modes[m].h_active
         /\ API_EXAMPLE_2_SIDE_LENGTH \in 0 .. Modes[m].v_active
         /\ Modes[m].h_active * Modes[m].v_active \in Nat
         /\ 0 .. Modes[m].h_active * Modes[m].v_active - 1 \subseteq Places
  <1> DEFINE w == Modes[m].h_active
             v == Modes[m].v_active
             n == Modes[2].h_active * Modes[2].v_active
             side == API_EXAMPLE_2_SIDE_LENGTH
  <1>1. /\ w \in Nat \ {0} /\ v \in Nat \ {0} /\ w % 4 = 0
        /\ side \in Nat /\ side <= w /\ side <= v /\ w * v <= n
        /\ Modes[2].h_active \in Nat \ {0} /\ Modes[2].v_active \in Nat \ {0}
    BY ModesAssumption DEF ModesAssumption
  <1>2. n \in Nat BY <1>1
  <1>3. Places = 0 .. n - 1 BY DEF Places
  <1> HIDE DEF w, v, n, side
  <1>4. w * v \in Nat BY <1>1
  <1>5. 0 .. w * v - 1 \subseteq Places BY <1>1, <1>2, <1>3, <1>4
  <1>6. side \in 0..w /\ side \in 0..v BY <1>1
  <1>7. w \div 4 \in Nat \ {0} /\ w = 4 * (w \div 4) BY <1>1
  <1> QED BY <1>1, <1>4, <1>5, <1>6, <1>7 DEF w, v, side

(* A place of a picture is one column of one line.                         *)
LEMMA Coordinates ==
  ASSUME NEW w \in Nat \ {0}, NEW v \in Nat \ {0}, NEW x \in 0 .. w - 1, NEW y \in 0 .. v - 1
  PROVE  /\ y * w + x \in 0 .. w * v - 1
         /\ (y * w + x) % w = x /\ (y * w + x) \div w = y
  <1>1. (w * y + x) % w = x BY RemainderOf
  <1>2. (w * y + x) \div w = y BY QuotientOf
  <1>3. y * w = w * y OBVIOUS
  <1>4. y * w <= (v - 1) * w /\ y * w \in Nat /\ w * v \in Nat /\ (v - 1) * w = w * v - w OBVIOUS
  <1>5. y * w + x \in 0 .. w * v - 1 BY <1>4
  <1> QED BY <1>1, <1>2, <1>3, <1>5

-----------------------------------------------------------------------------
(* static_image's alpha.                                                   *)

(* What is added where: the multiples of three in the bar, before x.       *)
Fade(x, q) == ((x + 2) \div 3) - ((x - (x % q) + 2) \div 3)

LEMMA FadeStarts ==
  ASSUME NEW q \in Nat \ {0}, NEW x \in Nat, x % q = 0
  PROVE  Fade(x, q) = 0
  BY DEF Fade

LEMMA FadeSteps ==
  ASSUME NEW q \in Nat \ {0}, NEW x \in Nat, x % q # 0
  PROVE  /\ x - 1 \in Nat
         /\ Fade(x, q) = Fade(x - 1, q) + (IF (x - 1) % 3 = 0 THEN 1 ELSE 0)
  <1>1. x % q \in 1 .. q - 1 /\ x = q * (x \div q) + (x % q) /\ x \div q \in Int BY DivMod
  <1>2. x # 0
    <2>1. CASE x = 0
      <3>1. q * 0 + 0 = q * (x \div q) + (x % q) BY <1>1, <2>1
      <3> QED BY <3>1, <1>1, QuotientUnique
    <2> QED BY <2>1
  <1>3. x - 1 = q * (x \div q) + ((x % q) - 1) /\ (x % q) - 1 \in 0 .. q - 1 BY <1>1
  <1>4. (x - 1) % q = (x % q) - 1 BY <1>1, <1>3, RemainderOf
  <1> DEFINE b == x - (x % q)
  <1>5. x - 1 - ((x - 1) % q) = b /\ b \in Int BY <1>1, <1>4
  <1> HIDE DEF b
  <1>6. ((x + 2) \div 3) = ((x + 1) \div 3) + (IF (x - 1) % 3 = 0 THEN 1 ELSE 0) BY <1>2
  <1>7. Fade(x, q) = ((x + 2) \div 3) - ((b + 2) \div 3) BY DEF Fade, b
  <1>8. Fade(x - 1, q) = ((x + 1) \div 3) - ((b + 2) \div 3) 
    <2>1. x - 1 + 2 = x + 1 BY <1>1
    <2> QED BY <1>5, <2>1 DEF Fade
  <1> QED BY <1>2, <1>5, <1>6, <1>7, <1>8

LEMMA FadeBounds ==
  ASSUME NEW q \in Nat \ {0}, q <= 765, NEW x \in Nat
  PROVE  Fade(x, q) \in 0 .. 255
  <1>1. x % q \in 0 .. q - 1 BY DivMod
  <1> QED BY <1>1 DEF Fade

(* Three pixels on in the same bar.                                        *)
LEMMA FadeInThrees ==
  ASSUME NEW q \in Nat \ {0}, NEW x \in Nat, (x + 3) \div q = x \div q
  PROVE  Fade(x + 3, q) = Fade(x, q) + 1
  <1> DEFINE d == x \div q
             n == x + 3
  <1>0. x % q \in 0 .. q - 1 /\ x = q * d + (x % q) /\ d \in Int BY DivMod
  <1>1. (x + 3) % q \in 0 .. q - 1 /\ x + 3 = q * d + ((x + 3) % q)
    <2>1. n \in Int /\ n \div q = d OBVIOUS
    <2> HIDE DEF n
    <2>2. n % q \in 0 .. q - 1 /\ n = q * (n \div q) + (n % q) BY <2>1, DivMod
    <2> QED BY <2>1, <2>2 DEF n
  <1> HIDE DEF d
  <1>2. (x + 3) % q = (x % q) + 3 BY <1>0, <1>1
  <1>3. x + 3 - ((x + 3) % q) = x - (x % q) BY <1>0, <1>1, <1>2
  <1>4. (x + 3 + 2) \div 3 = ((x + 2) \div 3) + 1 OBVIOUS
  <1> QED BY <1>0, <1>1, <1>3, <1>4 DEF Fade

(* The recursion has one solution, and this is it.                         *)
AlphaStep(alpha, w, k) ==
    IF (k % w) % (w \div 4) = 0 THEN 0
    ELSE alpha[k-1] + (IF ((k-1) % w) % 3 = 0 THEN 1 ELSE 0)

LEMMA FadeSolves ==
  ASSUME NEW w \in Nat \ {0}, NEW q \in Nat \ {0}, w = 4 * q, w \div 4 = q, NEW k \in Nat, NEW alpha,
         (k % w) % q # 0 => alpha[k-1] = Fade((k-1) % w, q)
  PROVE  AlphaStep(alpha, w, k) = Fade(k % w, q)
  <1> DEFINE x == k % w
  <1>1. x \in 0 .. w - 1 /\ k \div w \in Int /\ k = w * (k \div w) + x
    <2> DEFINE n == k
    <2>1. n \in Int OBVIOUS
    <2> HIDE DEF n
    <2>2. n \div w \in Int /\ n % w \in 0 .. w - 1 /\ n = w * (n \div w) + (n % w) BY <2>1, DivMod, ZenonT(30)
    <2> QED BY <2>2 DEF n
  <1>2. AlphaStep(alpha, w, k) = IF x % q = 0 THEN 0
            ELSE alpha[k-1] + (IF ((k-1) % w) % 3 = 0 THEN 1 ELSE 0)
    BY DEF AlphaStep
  <1> HIDE DEF x
  <1>3. CASE x % q = 0 BY <1>1, <1>2, <1>3, FadeStarts DEF x
  <1>4. CASE x % q # 0
    <2>1. x - 1 \in Nat /\ Fade(x, q) = Fade(x - 1, q) + (IF (x - 1) % 3 = 0 THEN 1 ELSE 0)
      BY <1>1, <1>4, FadeSteps
    <2>2. k - 1 = w * (k \div w) + (x - 1) /\ x - 1 \in 0 .. w - 1 BY <1>1, <2>1
    <2>3. (k - 1) % w = x - 1 BY <1>1, <2>2, RemainderOf
    <2>4. alpha[k-1] = Fade(x - 1, q) BY <1>4, <2>3 DEF x
    <2> QED BY <1>2, <1>4, <2>1, <2>3, <2>4 DEF x
  <1> QED BY <1>3, <1>4

LEMMA AlphaIs ==
  ASSUME NEW w \in Nat \ {0}, NEW v \in Nat \ {0}, NEW q \in Nat \ {0}, w = 4 * q, w \div 4 = q
  PROVE  StaticAlpha(w, v) = [k \in 0 .. w * v - 1 |-> Fade(k % w, q)]
  <1> DEFINE K == 0 .. w * v - 1
             closed == [k \in K |-> Fade(k % w, q)]
             Solves(alpha) == alpha = [k \in K |-> AlphaStep(alpha, w, k)]
  <1>1. StaticAlpha(w, v) = CHOOSE alpha : Solves(alpha) BY Zenon DEF StaticAlpha, AlphaStep
  <1>2. ASSUME NEW k \in K, (k % w) % q # 0 PROVE k - 1 \in K
    <2>1. k # 0
      <3>1. CASE k = 0 
        <4>1. (w * 0 + 0) % w = 0 /\ (q * 0 + 0) % q = 0 BY RemainderOf
        <4>2. w * 0 + 0 = 0 /\ q * 0 + 0 = 0 OBVIOUS
        <4> QED BY <1>2, <3>1, <4>1, <4>2
      <3> QED BY <3>1
    <2> QED BY <2>1
  <1>3. Solves(closed)
    <2>1. ASSUME NEW k \in K PROVE AlphaStep(closed, w, k) = Fade(k % w, q)
      <3>1. (k % w) % q # 0 => closed[k-1] = Fade((k-1) % w, q) BY <1>2
      <3> HIDE DEF closed
      <3> QED BY <3>1, FadeSolves
    <2> QED BY <2>1
  <1>4. ASSUME NEW alpha, Solves(alpha) PROVE alpha = closed
    <2> DEFINE T == {k \in K : alpha[k] # closed[k]}
    <2>1. ASSUME T # {} PROVE FALSE
      <3>1. PICK k \in T : \A n \in T : k <= n
        <4>1. T \in SUBSET Nat OBVIOUS
        <4> HIDE DEF T
        <4> QED BY <2>1, <4>1, Least
      <3>2. k \in K OBVIOUS
      <3>3. (k % w) % q # 0 => alpha[k-1] = Fade((k-1) % w, q)
        <4> SUFFICES ASSUME (k % w) % q # 0 PROVE alpha[k-1] = closed[k-1]
          BY <1>2, <3>2
        <4>1. k - 1 \in K BY <1>2, <3>2
        <4> QED BY <3>1, <3>2, <4>1
      <3>4. AlphaStep(alpha, w, k) = Fade(k % w, q) BY <3>2, <3>3, FadeSolves
      <3>5. alpha[k] = AlphaStep(alpha, w, k)
        <4> HIDE DEF K
        <4> QED BY <1>4, <3>2, Zenon
      <3> QED BY <3>1, <3>2, <3>4, <3>5
    <2>2. alpha = [k \in K |-> alpha[k]]
      <3> HIDE DEF K
      <3> QED BY <1>4, Zenon
    <2>3. \A k \in K : alpha[k] = Fade(k % w, q) BY <2>1
    <2> QED BY <2>2, <2>3
  <1> HIDE DEF Solves
  <1> QED BY <1>1, <1>3, <1>4

-----------------------------------------------------------------------------
(* What each picture holds at column x of line y.                          *)

Blank == [p \in Places |-> Black]

(* Half the width times the height are the pairs of all the pixels.        *)
LEMMA Pairs ==
  ASSUME NEW m \in 0..2, NEW p \in Nat
  PROVE  /\ p \div 2 < Modes[m].v_active * (Modes[m].h_active \div 2)
               <=> p < Modes[m].h_active * Modes[m].v_active
         /\ p \div 2 < (Modes[m].h_active \div 2) * Modes[m].v_active
               <=> p < Modes[m].h_active * Modes[m].v_active
  <1>1. PICK q \in Nat \ {0} : Modes[m].h_active = 4 * q BY ModeSizes
  <1>2. PICK v \in Nat \ {0} : Modes[m].v_active = v BY ModeSizes
  <1>3. (4 * q) \div 2 = 2 * q OBVIOUS
  <1> DEFINE n == v * (2 * q)
  <1>4. n \in Nat /\ (2 * q) * v = n /\ (4 * q) * v = 2 * n OBVIOUS
  <1> HIDE DEF n
  <1>5. p \div 2 < n <=> p < 2 * n BY <1>4
  <1> QED BY <1>1, <1>2, <1>3, <1>4, <1>5 DEF n

LEMMA ClearedBlank ==
  ASSUME NEW m \in 0..2, NEW f, NEW a, NEW buffer,
         \A p \in Places : p >= Modes[m].h_active * Modes[m].v_active => buffer[p] = Black
  PROVE  Cleared(Hd(m, f, a), buffer) = Blank
  <1> DEFINE n == Modes[m].v_active * (Modes[m].h_active \div 2)
             w == Modes[m].h_active * Modes[m].v_active
  <1>1. Cleared(Hd(m, f, a), buffer) = [p \in Places |-> IF p \div 2 < n THEN Black ELSE buffer[p]]
    BY DEF Cleared, Hd
  <1>2. ASSUME NEW p \in Places PROVE (IF p \div 2 < n THEN Black ELSE buffer[p]) = Black
    <2>1. p \in Nat
      <3>1. \A k : k \in 0 .. Modes[2].h_active * Modes[2].v_active - 1 => k \in Nat OBVIOUS
      <3> QED BY <3>1 DEF Places
    <2>2. p \div 2 < n <=> p < w BY <2>1, Pairs
    <2>3. w \in Nat BY ModeSizes
    <2> HIDE DEF n, w
    <2> QED BY <2>1, <2>2, <2>3 DEF w
  <1> HIDE DEF n
  <1> QED BY <1>1, <1>2 DEF Blank

LEMMA StaticPictureHolds ==
  ASSUME NEW m \in 0..2, NEW f, NEW a, NEW buffer
  PROVE  /\ \A x \in 0 .. Modes[m].h_active - 1, y \in 0 .. Modes[m].v_active - 1 :
              StaticPicture(Hd(m, f, a), buffer)[y * Modes[m].h_active + x] =
              StaticPixel(x, Modes[m].h_active, Fade(x, Modes[m].h_active \div 4))
         /\ \A p \in Places : p >= Modes[m].h_active * Modes[m].v_active =>
              StaticPicture(Hd(m, f, a), buffer)[p] = buffer[p]
  <1>1. PICK w \in Nat \ {0} : w = Modes[m].h_active BY ModeSizes
  <1>2. PICK v \in Nat \ {0} : v = Modes[m].v_active BY ModeSizes
  <1>3. PICK q \in Nat \ {0} : w = 4 * q /\ w \div 4 = q BY <1>1, ModeSizes
  <1> DEFINE alpha == [k \in 0 .. w * v - 1 |-> Fade(k % w, q)]
  <1>4. StaticAlpha(w, v) = alpha BY <1>3, AlphaIs
  <1>5. StaticPicture(Hd(m, f, a), buffer) =
          [p \in Places |-> IF p \in DOMAIN alpha THEN StaticPixel(p % w, w, alpha[p]) ELSE buffer[p]]
    <2> HIDE DEF alpha
    <2> QED BY <1>1, <1>2, <1>4 DEF StaticPicture, Hd
  <1>6. 0 .. w * v - 1 \subseteq Places BY <1>1, <1>2, ModeSizes
  <1>7. ASSUME NEW x \in 0 .. w - 1, NEW y \in 0 .. v - 1
        PROVE  StaticPicture(Hd(m, f, a), buffer)[y * w + x] = StaticPixel(x, w, Fade(x, q))
    <2> DEFINE p == y * w + x
    <2>1. p \in 0 .. w * v - 1 /\ p % w = x BY Coordinates
    <2> HIDE DEF p
    <2>2. p \in Places /\ p \in DOMAIN alpha /\ alpha[p] = Fade(x, q) BY <2>1, <1>6
    <2> HIDE DEF alpha
    <2> QED BY <1>5, <2>1, <2>2 DEF p
  <1>8. ASSUME NEW p \in Places, p >= w * v
        PROVE  StaticPicture(Hd(m, f, a), buffer)[p] = buffer[p]
    <2>1. p \notin DOMAIN alpha BY <1>8
    <2> HIDE DEF alpha
    <2> QED BY <1>5, <2>1
  <1> QED BY <1>1, <1>2, <1>3, <1>7, <1>8

LEMMA SquarePictureHolds ==
  ASSUME NEW m \in 0..2, NEW f, NEW a, NEW buffer
  PROVE  /\ \A x \in 0 .. Modes[m].h_active - 1, y \in 0 .. Modes[m].v_active - 1 :
              SquarePicture(Hd(m, f, a), buffer)[y * Modes[m].h_active + x] =
              IF x < API_EXAMPLE_2_SIDE_LENGTH /\ y < API_EXAMPLE_2_SIDE_LENGTH
              THEN RBGA_GREEN ELSE buffer[y * Modes[m].h_active + x]
         /\ \A p \in Places : p >= Modes[m].h_active * Modes[m].v_active =>
              SquarePicture(Hd(m, f, a), buffer)[p] = buffer[p]
  <1>1. PICK w \in Nat \ {0} : w = Modes[m].h_active BY ModeSizes
  <1>2. PICK v \in Nat \ {0} : v = Modes[m].v_active BY ModeSizes
  <1>3. PICK n \in Nat : n = API_EXAMPLE_2_SIDE_LENGTH /\ n <= w /\ n <= v
    BY <1>1, <1>2, ModeSizes
  <1> DEFINE side == 0 .. n - 1
             square == {i * w + j : i \in side, j \in side}
  <1>4. SquarePicture(Hd(m, f, a), buffer) =
          [p \in Places |-> IF p \in square THEN RBGA_GREEN ELSE buffer[p]]
    BY <1>1, <1>3 DEF SquarePicture, Hd
  <1>5. 0 .. w * v - 1 \subseteq Places BY <1>1, <1>2, ModeSizes
  <1>6. \A i \in side, j \in side : /\ i \in 0 .. v - 1 /\ j \in 0 .. w - 1
                                    /\ i * w + j \in 0 .. w * v - 1
                                    /\ (i * w + j) % w = j /\ (i * w + j) \div w = i
    BY <1>3, Coordinates
  <1>7. ASSUME NEW x \in 0 .. w - 1, NEW y \in 0 .. v - 1
        PROVE  SquarePicture(Hd(m, f, a), buffer)[y * w + x] =
               IF x < n /\ y < n THEN RBGA_GREEN ELSE buffer[y * w + x]
    <2> DEFINE p == y * w + x
    <2>1. p \in 0 .. w * v - 1 /\ p % w = x /\ p \div w = y BY Coordinates
    <2>2. p \in square <=> x < n /\ y < n
      <3>1. CASE x < n /\ y < n
        <4>1. x \in side /\ y \in side BY <3>1
        <4> HIDE DEF side
        <4> QED BY <3>1, <4>1
      <3>2. CASE p \in square
        <4>1. PICK i \in side, j \in side : p = i * w + j BY <3>2
        <4>2. x = j /\ y = i
          <5> HIDE DEF p, side
          <5> QED BY <2>1, <4>1, <1>6
        <4> QED BY <3>2, <4>2
      <3> QED BY <3>1, <3>2
    <2> HIDE DEF square
    <2>3. p \in Places BY <2>1, <1>5
    <2> HIDE DEF p
    <2> QED BY <1>4, <2>2, <2>3 DEF p
  <1>8. ASSUME NEW p \in Places, p >= w * v
        PROVE  SquarePicture(Hd(m, f, a), buffer)[p] = buffer[p]
    <2>1. p \notin square BY <1>6, <1>8
    <2> HIDE DEF square
    <2> QED BY <1>4, <2>1
  <1> QED BY <1>1, <1>2, <1>3, <1>7, <1>8

-----------------------------------------------------------------------------
(* The still pictures.                                                     *)

StillMode ==
    IF example = "static_image" THEN Hd(1, "RBGA", "ALPHA_ON") ELSE Hd(image, "RBGA", "ALPHA_OFF")

StillPicture ==
    IF example = "static_image" THEN StaticPicture(StillMode, Blank) ELSE SquarePicture(StillMode, Blank)

(* Both buffers are blank before each image, and while it is shown, all that *)
(* its buffer holds beside it is blank.                                    *)
StillInv ==
    /\ example \in {"static_image", "resolution_change", "rotating_bars"}
    /\ drawn_in \in 0..1
    /\ example # "rotating_bars" =>
        /\ step \in {"start", "reset", "end", "done"}
        /\ step = "start" => shown = Dark /\ image \in 0..2 /\ buffers = [b \in 0..1 |-> Blank]
        /\ step = "reset" =>
             /\ shown = drawn_in /\ image \in 0..2
             /\ hdmi_config = StillMode
             /\ buffers = [b \in 0..1 |-> IF b = drawn_in THEN StillPicture ELSE Blank]
        /\ step \in {"end", "done"} => shown = Dark

LEMMA StillModeIs ==
  ASSUME image \in 0..2
  PROVE  \E m \in 0..2, a \in {"ALPHA_ON", "ALPHA_OFF"} : StillMode = Hd(m, "RBGA", a)
  <1>1. CASE example = "static_image"
    <2>1. 1 \in 0..2 OBVIOUS
    <2>2. StillMode = Hd(1, "RBGA", "ALPHA_ON") BY <1>1 DEF StillMode
    <2> QED BY <2>1, <2>2
  <1>2. CASE example # "static_image"
    <2>1. StillMode = Hd(image, "RBGA", "ALPHA_OFF") BY <1>2 DEF StillMode
    <2> QED BY <2>1
  <1> QED BY <1>1, <1>2

LEMMA StillReset ==
  ASSUME StillInv, reset_static_image
  PROVE  StillInv'
  <1> SUFFICES ASSUME example # "rotating_bars" PROVE StillInv'
    BY DEF StillInv, reset_static_image
  <1>1. /\ image \in 0..2 /\ hdmi_config = StillMode
        /\ buffers = [b \in 0..1 |-> IF b = drawn_in THEN StillPicture ELSE Blank]
    BY DEF StillInv, reset_static_image
  <1>2. Cleared(StillMode, StillPicture) = Blank /\ Cleared(StillMode, Blank) = Blank
    <2>1. PICK m \in 0..2, a \in {"ALPHA_ON", "ALPHA_OFF"} :
             StillMode = Hd(m, "RBGA", a)
      BY <1>1, StillModeIs
    <2>2. \A p \in Places : Blank[p] = Black BY DEF Blank
    <2>3. \A p \in Places : p >= Modes[m].h_active * Modes[m].v_active => StillPicture[p] = Black
      <3>1. CASE example = "static_image"
        <4>1. \A p \in Places : p >= Modes[m].h_active * Modes[m].v_active =>
                 StaticPicture(Hd(m, "RBGA", a), Blank)[p] = Blank[p]
          BY StaticPictureHolds
        <4>2. StillPicture = StaticPicture(Hd(m, "RBGA", a), Blank) BY <2>1, <3>1 DEF StillPicture
        <4> QED BY <2>2, <4>1, <4>2
      <3>2. CASE example # "static_image"
        BY <2>1, <2>2, <3>2, SquarePictureHolds DEF StillPicture
      <3> QED BY <3>1, <3>2
    <2> QED BY <2>1, <2>2, <2>3, ClearedBlank
  <1>3. buffers' = [b \in 0..1 |-> Blank]
    <2>1. buffers' = [b \in 0..1 |-> Cleared(StillMode, buffers[b])]
      BY <1>1 DEF reset_static_image, ClearBoth
    <2> QED BY <1>1, <1>2, <2>1
  <1>4. image < 2 => image' \in 0..2 BY <1>1 DEF reset_static_image
  <1> QED BY <1>3, <1>4 DEF StillInv, reset_static_image

LEMMA StillDrawn ==
  ASSUME StillInv, ShowBars \/ ShowSquare
  PROVE  StillInv'
  <1>1. /\ example # "rotating_bars" /\ step = "start" /\ image \in 0..2
        /\ buffers = [b \in 0..1 |-> Blank] /\ drawn_in \in 0..1
    BY DEF StillInv, ShowBars, ShowSquare
  <1>2. /\ UNCHANGED <<example, image, drawn_in>> /\ shown' = drawn_in /\ step' = "reset"
        /\ hdmi_config' = StillMode
    BY DEF ShowBars, ShowSquare, StillMode
  <1>3. StillMode' = StillMode /\ StillPicture' = StillPicture
    BY <1>2 DEF StillMode, StillPicture
  <1>4. buffers' = [buffers EXCEPT ![drawn_in] = StillPicture]
    <2>1. buffers[drawn_in] = Blank BY <1>1
    <2> QED BY <1>1, <1>2, <2>1 DEF ShowBars, ShowSquare, StillPicture
  <1>5. buffers' = [b \in 0..1 |-> IF b = drawn_in THEN StillPicture ELSE Blank]
    BY <1>1, <1>4
  <1> QED BY <1>1, <1>2, <1>3, <1>5 DEF StillInv

LEMMA StillInvariance == PicturesSpec => []StillInv
  <1>1. PicturesInit => StillInv BY DEF PicturesInit, StillInv, Blank
  <1>2. StillInv /\ [PicturesNext]_picturesVars => StillInv'
    <2> SUFFICES ASSUME StillInv, [PicturesNext]_picturesVars PROVE StillInv'
      OBVIOUS
    <2>1. CASE ShowBars \/ ShowSquare BY <2>1, StillDrawn
    <2>2. CASE reset_static_image BY <2>2, StillReset
    <2>3. CASE DrawFrame BY <2>3 DEF DrawFrame, StillInv
    <2>4. CASE ShowFrame BY <2>4 DEF ShowFrame, StillInv
    <2>5. CASE reset_api BY <2>5 DEF reset_api, StillInv
    <2>6. CASE UNCHANGED picturesVars
      BY <2>6 DEF picturesVars, StillInv, StillMode, StillPicture
    <2> QED BY <2>1, <2>2, <2>3, <2>4, <2>5, <2>6 DEF PicturesNext
  <1> QED BY <1>1, <1>2, PTL DEF PicturesSpec

(* How rgb_format RBGA is read: what ByteOf() says of its value.           *)
LEMMA Formats ==
  /\ ByteOf("R", "RBGA") = 1 /\ ByteOf("G", "RBGA") = 3
  /\ ByteOf("B", "RBGA") = 2 /\ ByteOf("A", "RBGA") = 4
  <1>1. RGB_FORMAT["RBGA"] = 823811 BY DEF RGB_FORMAT
  <1>2. 2^18 = 262144 /\ 2^16 = 65536 /\ 2^14 = 16384 /\ 2^12 = 4096 OBVIOUS
  <1>3. /\ 823811 \div 262144 = 3 /\ 823811 \div 65536 = 12
        /\ 823811 \div 16384 = 50 /\ 823811 \div 4096 = 201
    OBVIOUS
  <1> QED BY <1>1, <1>2, <1>3 DEF ByteOf

(* The bar that column x is in.                                            *)
LEMMA BarOf ==
  ASSUME NEW q \in Nat \ {0}, NEW w \in Nat \ {0}, w = 4 * q, NEW x \in 0 .. w - 1
  PROVE  /\ (4 * x) \div w = x \div q /\ x \div q \in 0..3
         /\ x < q <=> x \div q = 0
         /\ x >= q /\ x < 2 * q <=> x \div q = 1
         /\ x >= 2 * q /\ x < 3 * q <=> x \div q = 2
  <1> DEFINE d == x \div q
  <1>2. d \in Int /\ x % q \in 0 .. q - 1 /\ x = q * d + (x % q) BY DivMod
  <1> HIDE DEF d
  <1>3. (4 * x) \div w = d
    <2> DEFINE rest == x % q
               n == q * d
    <2>1. w * d = 4 * n /\ n \in Int BY <1>2
    <2>2. rest \in 0 .. q - 1 /\ x = n + rest BY <1>2
    <2> HIDE DEF rest, n
    <2>3. 4 * x = w * d + 4 * rest /\ 4 * rest \in 0 .. w - 1 BY <2>1, <2>2
    <2>4. w \in Nat \ {0} OBVIOUS
    <2> QED BY <1>2, <2>3, <2>4, QuotientOf
  <1>4. d \in 0..3
    <2>1. CASE d < 0
      <3>1. q * d <= -q BY <1>2, <2>1
      <3> QED BY <1>2, <3>1
    <2>2. CASE d > 3
      <3>1. q * d >= 4 * q BY <1>2, <2>2
      <3> QED BY <1>2, <3>1
    <2> QED BY <1>2, <2>1, <2>2
  <1>5. /\ x < q <=> d = 0
        /\ x >= q /\ x < 2 * q <=> d = 1
        /\ x >= 2 * q /\ x < 3 * q <=> d = 2
    BY <1>2, <1>4
  <1> QED BY <1>3, <1>4, <1>5 DEF d

(* What is stored there.                                                   *)
BarPixel(bar, alpha) ==
    <<<<255, 0, 0, alpha>>, <<0, 255, 0, alpha>>, <<0, 0, 255, alpha>>, <<255, 255, 255, alpha>>>>[bar + 1]

LEMMA StaticPixelIs ==
  ASSUME NEW w \in Nat \ {0}, w % 4 = 0, NEW x \in 0 .. w - 1, NEW alpha \in 0..255
  PROVE  StaticPixel(x, w, alpha) = BarPixel(x \div (w \div 4), alpha)
  <1> PICK q \in Nat \ {0} : w = 4 * q OBVIOUS
  <1>1. w \div 4 = q /\ w \div 2 = 2 * q /\ (3 * w) \div 4 = 3 * q OBVIOUS
  <1> DEFINE d == x \div q
  <1>4. d \in 0..3 BY BarOf
  <1>5. /\ x < q <=> d = 0
        /\ x >= q /\ x < 2 * q <=> d = 1
        /\ x >= 2 * q /\ x < 3 * q <=> d = 2
    BY BarOf
  <1> HIDE DEF d
  <1>6. alpha % 256 = alpha OBVIOUS
  <1>7. CASE d = 0
    <2>1. x < w \div 4 /\ ~(x >= w \div 4) /\ ~(x >= w \div 2) BY <1>1, <1>5, <1>7
    <2>2. StaticPixel(x, w, alpha) = <<255, 0, 0, alpha>> BY <1>6, <2>1, ZenonT(60) DEF StaticPixel
    <2> QED BY <1>1, <1>7, <2>2 DEF d, BarPixel
  <1>8. CASE d = 1
    <2>1. ~(x < w \div 4) /\ x >= w \div 4 /\ x < w \div 2 /\ ~(x >= w \div 2)
      BY <1>1, <1>5, <1>8
    <2>2. StaticPixel(x, w, alpha) = <<0, 255, 0, alpha>> BY <1>6, <2>1, ZenonT(60) DEF StaticPixel
    <2> QED BY <1>1, <1>8, <2>2 DEF d, BarPixel
  <1>9. CASE d = 2
    <2>1. ~(x < w \div 4) /\ ~(x < w \div 2) /\ x >= w \div 2 /\ x < (3 * w) \div 4
      BY <1>1, <1>5, <1>9
    <2>2. StaticPixel(x, w, alpha) = <<0, 0, 255, alpha>> BY <1>6, <2>1, ZenonT(60) DEF StaticPixel
    <2> QED BY <1>1, <1>9, <2>2 DEF d, BarPixel
  <1>10. CASE d = 3
    <2>1. ~(x < w \div 4) /\ ~(x < w \div 2) /\ ~(x < (3 * w) \div 4)
      BY <1>1, <1>5, <1>10
    <2>2. StaticPixel(x, w, alpha) = <<255, 255, 255, alpha>> BY <1>6, <2>1, ZenonT(60) DEF StaticPixel
    <2> QED BY <1>1, <1>10, <2>2 DEF d, BarPixel
  <1> QED BY <1>1, <1>4, <1>7, <1>8, <1>9, <1>10 DEF d

LEMMA StillBars == StillInv => BarsFadeIn
  <1> SUFFICES ASSUME StillInv, example = "static_image", shown # Dark,
                      NEW x \in Columns, NEW y \in Lines
               PROVE  /\ Colour(Shown(x, y)) = <<Red, Blue, Green, White>>[Bar(x) + 1]
                      /\ x % (hdmi_config.h_active \div 4) = 0 => Alpha(Shown(x, y)) = 0
                      /\ x + 3 \in Columns /\ Bar(x + 3) = Bar(x) =>
                             Alpha(Shown(x + 3, y)) = Alpha(Shown(x, y)) + 1
    BY DEF BarsFadeIn
  <1>1. /\ step = "reset" /\ shown = drawn_in /\ drawn_in \in 0..1
        /\ hdmi_config = Hd(1, "RBGA", "ALPHA_ON")
        /\ buffers[shown] = StaticPicture(Hd(1, "RBGA", "ALPHA_ON"), Blank)
    BY DEF StillInv, StillMode, StillPicture
  <1>2. PICK w \in Nat \ {0} : w = Modes[1].h_active BY ModeSizes
  <1>3. PICK v \in Nat \ {0} : v = Modes[1].v_active BY ModeSizes
  <1>4. PICK q \in Nat \ {0} : w = 4 * q /\ w \div 4 = q BY <1>2, ModeSizes
  <1>5. w <= 3060 BY <1>2, ModesAssumption DEF ModesAssumption
  <1>6. /\ hdmi_config.h_active = w /\ hdmi_config.v_active = v /\ hdmi_config.rgb_format = "RBGA"
    BY <1>1, <1>2, <1>3 DEF Hd
  <1>7. Columns = 0 .. w - 1 /\ Lines = 0 .. v - 1 BY <1>6 DEF Columns, Lines
  <1>8. \A i \in 0 .. w - 1 : Shown(i, y) = StaticPixel(i, w, Fade(i, q))
    <2>1. \A i \in 0 .. w - 1, j \in 0 .. v - 1 :
             buffers[shown][j * w + i] = StaticPixel(i, w, Fade(i, q))
      <3>1. 1 \in 0..2 OBVIOUS
      <3>2. \A i \in 0 .. Modes[1].h_active - 1, j \in 0 .. Modes[1].v_active - 1 :
               StaticPicture(Hd(1, "RBGA", "ALPHA_ON"), Blank)[j * Modes[1].h_active + i] =
               StaticPixel(i, Modes[1].h_active, Fade(i, Modes[1].h_active \div 4))
        BY <3>1, StaticPictureHolds
      <3> QED BY <1>1, <1>2, <1>3, <1>4, <3>2
    <2> QED BY <1>6, <1>7, <2>1 DEF Shown
  <1>9. ASSUME NEW i \in 0 .. w - 1
        PROVE  /\ Bar(i) = i \div q /\ i \div q \in 0..3
               /\ Fade(i, q) \in 0..255
               /\ Shown(i, y) = BarPixel(i \div q, Fade(i, q))
    <2>1. q <= 765 /\ i \in Nat BY <1>4, <1>5
    <2>2. Fade(i, q) \in 0..255 BY <2>1, FadeBounds
    <2>3. Bar(i) = (4 * i) \div w BY <1>6 DEF Bar
    <2>4. (4 * i) \div w = i \div q /\ i \div q \in 0..3 BY <1>4, BarOf
    <2>5. Shown(i, y) = StaticPixel(i, w, Fade(i, q)) BY <1>8
    <2> PICK alpha \in 0..255 : alpha = Fade(i, q) BY <2>2
    <2>6. w % 4 = 0 BY <1>4
    <2>7. StaticPixel(i, w, alpha) = BarPixel(i \div (w \div 4), alpha) BY <2>6, StaticPixelIs
    <2> QED BY <1>4, <2>2, <2>3, <2>4, <2>5, <2>7
  <1>10. ASSUME NEW i \in 0 .. w - 1
         PROVE  /\ Colour(Shown(i, y)) = <<Red, Blue, Green, White>>[Bar(i) + 1]
                /\ Alpha(Shown(i, y)) = Fade(i, q)
    <2> DEFINE pixel == Shown(i, y)
               alpha == Fade(i, q)
    <2>1. PICK d \in 0..3 : d = i \div q BY <1>9
    <2>2. Bar(i) = d /\ pixel = BarPixel(d, alpha) BY <1>9, <2>1
    <2> HIDE DEF pixel, alpha
    <2>3. /\ d = 0 => pixel = <<255, 0, 0, alpha>>
          /\ d = 1 => pixel = <<0, 255, 0, alpha>>
          /\ d = 2 => pixel = <<0, 0, 255, alpha>>
          /\ d = 3 => pixel = <<255, 255, 255, alpha>>
      BY <2>2 DEF BarPixel
    <2>4. /\ Colour(pixel) = [c \in {"R", "G", "B"} |-> pixel[ByteOf(c, "RBGA")]]
          /\ Alpha(pixel) = pixel[4]
      BY <1>6, Formats DEF Colour, Alpha
    <2>5. Red = [R |-> 255, G |-> 0, B |-> 0] /\ Green = [R |-> 0, G |-> 255, B |-> 0]
          /\ Blue = [R |-> 0, G |-> 0, B |-> 255] /\ White = [R |-> 255, G |-> 255, B |-> 255]
      BY DEF Red, Green, Blue, White, Of
    <2>6. Colour(pixel) = [R |-> pixel[1], G |-> pixel[3], B |-> pixel[2]] BY <2>4, Formats
    <2>7. Alpha(pixel) = alpha BY <2>3, <2>4
    <2>8. CASE d = 0 BY <2>3, <2>2, <2>5, <2>6, <2>7, <2>8 DEF pixel, alpha
    <2>9. CASE d = 1 BY <2>3, <2>2, <2>5, <2>6, <2>7, <2>9 DEF pixel, alpha
    <2>10. CASE d = 2 BY <2>3, <2>2, <2>5, <2>6, <2>7, <2>10 DEF pixel, alpha
    <2>11. CASE d = 3 BY <2>3, <2>2, <2>5, <2>6, <2>7, <2>11 DEF pixel, alpha
    <2> QED BY <2>8, <2>9, <2>10, <2>11
  <1>11. x % q = 0 => Alpha(Shown(x, y)) = 0 BY <1>7, <1>10, FadeStarts
  <1>12. ASSUME x + 3 \in Columns, Bar(x + 3) = Bar(x)
         PROVE  Alpha(Shown(x + 3, y)) = Alpha(Shown(x, y)) + 1
    <2>1. (x + 3) \div q = x \div q BY <1>7, <1>9, <1>12
    <2>2. Fade(x + 3, q) = Fade(x, q) + 1 BY <1>7, <2>1, FadeInThrees
    <2> QED BY <1>7, <1>10, <1>12, <2>2
  <1> QED BY <1>4, <1>6, <1>7, <1>10, <1>11, <1>12

LEMMA StillSquare == StillInv => SquareAlone
  <1> SUFFICES ASSUME StillInv, example = "resolution_change", shown # Dark,
                      NEW x \in Columns, NEW y \in Lines
               PROVE  Colour(Shown(x, y)) =
                          IF x < API_EXAMPLE_2_SIDE_LENGTH /\ y < API_EXAMPLE_2_SIDE_LENGTH
                          THEN Green ELSE Of(0, 0, 0)
    BY DEF SquareAlone
  <1>1. /\ step = "reset" /\ shown = drawn_in /\ drawn_in \in 0..1 /\ image \in 0..2
        /\ hdmi_config = Hd(image, "RBGA", "ALPHA_OFF")
        /\ buffers[shown] = SquarePicture(Hd(image, "RBGA", "ALPHA_OFF"), Blank)
    BY DEF StillInv, StillMode, StillPicture
  <1>2. PICK w \in Nat \ {0} : w = Modes[image].h_active BY <1>1, ModeSizes
  <1>3. PICK v \in Nat \ {0} : v = Modes[image].v_active BY <1>1, ModeSizes
  <1>4. hdmi_config.h_active = w /\ hdmi_config.v_active = v BY <1>1, <1>2, <1>3 DEF Hd
  <1>5. x \in 0 .. w - 1 /\ y \in 0 .. v - 1 BY <1>4 DEF Columns, Lines
  <1>6. y * w + x \in Places BY <1>1, <1>2, <1>3, <1>5, Coordinates, ModeSizes
  <1>7. Blank[y * w + x] = Black BY <1>6 DEF Blank
  <1>8. Shown(x, y) = IF x < API_EXAMPLE_2_SIDE_LENGTH /\ y < API_EXAMPLE_2_SIDE_LENGTH
                      THEN RBGA_GREEN ELSE Black
    BY <1>1, <1>2, <1>3, <1>4, <1>5, <1>7, SquarePictureHolds DEF Shown
  <1>9. hdmi_config.rgb_format = "RBGA" BY <1>1 DEF Hd
  <1>10. \A pixel : Colour(pixel) = [c \in {"R", "G", "B"} |-> pixel[ByteOf(c, "RBGA")]]
    BY <1>9 DEF Colour
  <1>11. \A pixel : Colour(pixel) = [R |-> pixel[1], G |-> pixel[3], B |-> pixel[2]]
    BY <1>10, Formats
  <1>12. /\ Colour(RBGA_GREEN) = [R |-> 0, G |-> 255, B |-> 0]
         /\ Colour(Black) = [R |-> 0, G |-> 0, B |-> 0]
    BY <1>11 DEF RBGA_GREEN, Black
  <1>13. Green = [R |-> 0, G |-> 255, B |-> 0] /\ Of(0, 0, 0) = [R |-> 0, G |-> 0, B |-> 0]
    BY DEF Green, Of
  <1> QED BY <1>8, <1>12, <1>13

(* static_image shows its four bars, each fading in from 0 by one for every  *)
(* three pixels, and resolution_change at each size its square, green on    *)
(* black, for all modes of any size.                                       *)
THEOREM StillPicturesShown == PicturesSpec => []StillPictures
  <1>1. StillInv => StillPictures BY StillBars, StillSquare DEF StillPictures
  <1> QED BY <1>1, StillInvariance, PTL

-----------------------------------------------------------------------------
(* The rotating bars.                                                      *)

BarsMode == Hd(1, "RGBA", "ALPHA_OFF")
BarsWidth == Modes[1].h_active \div 2
BarsHeight == Modes[1].v_active

(* A picture drawn at an offset.                                           *)
HoldsBars(buffer, offset) ==
    \A p \in Places :
        p \div 2 < BarsWidth * BarsHeight =>
            buffer[p] = RotatingPixel((offset + (p \div 2)) % BarsWidth, BarsWidth)

Following(offset) == IF offset + 1 = BarsWidth THEN 0 ELSE offset + 1

(* A frame that waits to be shown is one offset behind the word's, and the  *)
(* one on display one behind that.                                         *)
BarsInv ==
    /\ drawn_in \in 0..1
    /\ example = "rotating_bars" =>
        /\ DOMAIN buffers = 0..1
        /\ step \in {"start", "load", "draw", "done"}
        /\ width_offset \in 0 .. BarsWidth - 1
        /\ step # "start" => hdmi_config = BarsMode
        /\ step = "start" => shown = Dark
        /\ step = "load" =>
             \E o \in 0 .. BarsWidth - 1 :
                 /\ width_offset = Following(o) /\ HoldsBars(buffers[drawn_in], o)
                 /\ shown # Dark =>
                      /\ shown = 1 - drawn_in
                      /\ \E last \in 0 .. BarsWidth - 1 :
                             o = Following(last) /\ HoldsBars(buffers[shown], last)
        /\ step = "draw" =>
             /\ shown = 1 - drawn_in
             /\ \E last \in 0 .. BarsWidth - 1 :
                    width_offset = Following(last) /\ HoldsBars(buffers[shown], last)

LEMMA BarsSizes ==
  /\ BarsWidth \in Nat \ {0} /\ BarsHeight \in Nat \ {0}
  /\ BarsMode.h_active = 2 * BarsWidth /\ BarsMode.v_active = BarsHeight
  /\ BarsMode.h_active \div 2 = BarsWidth
  /\ 0 .. (2 * BarsWidth) * BarsHeight - 1 \subseteq Places
  <1>0. 1 \in 0..2 OBVIOUS
  <1>1. PICK q \in Nat \ {0} : Modes[1].h_active = 4 * q BY <1>0, ModeSizes
  <1>2. /\ Modes[1].v_active \in Nat \ {0}
        /\ 0 .. Modes[1].h_active * Modes[1].v_active - 1 \subseteq Places
    BY <1>0, ModeSizes
  <1>3. BarsWidth = 2 * q /\ Modes[1].h_active = 2 * BarsWidth
    BY <1>1 DEF BarsWidth
  <1> QED BY <1>2, <1>3 DEF BarsHeight, BarsMode, Hd

LEMMA BarsDrawn ==
  ASSUME BarsInv, DrawFrame
  PROVE  BarsInv'
  <1>1. /\ example = "rotating_bars" /\ step \in {"start", "draw"} /\ drawn_in \in 0..1
        /\ width_offset \in 0 .. BarsWidth - 1 /\ DOMAIN buffers = 0..1
    BY DEF DrawFrame, BarsInv
  <1>2. /\ hdmi_config' = BarsMode /\ step' = "load" /\ UNCHANGED <<example, drawn_in, shown>>
        /\ buffers' = [buffers EXCEPT ![drawn_in] = BarsPicture(BarsMode, @)]
        /\ width_offset' = NextOffset(BarsMode.h_active \div 2)
    BY DEF DrawFrame, BarsMode
  <1>3. width_offset' = Following(width_offset) /\ width_offset' \in 0 .. BarsWidth - 1
    BY <1>1, <1>2, BarsSizes DEF NextOffset, Following
  <1>4. HoldsBars(buffers'[drawn_in], width_offset)
    <2> SUFFICES ASSUME NEW p \in Places, p \div 2 < BarsWidth * BarsHeight
                 PROVE  buffers'[drawn_in][p] =
                        RotatingPixel((width_offset + (p \div 2)) % BarsWidth, BarsWidth)
      BY DEF HoldsBars
    <2>1. buffers'[drawn_in] = BarsPicture(BarsMode, buffers[drawn_in]) BY <1>1, <1>2
    <2>2. BarsPicture(BarsMode, buffers[drawn_in])[p] =
            RotatingPixel(BarPosition(p \div 2, BarsWidth), BarsWidth)
      BY BarsSizes DEF BarsPicture
    <2> QED BY <2>1, <2>2 DEF BarPosition
  <1>5. 1 - drawn_in # drawn_in /\ 1 - drawn_in \in 0..1 BY <1>1
  <1>6. buffers'[1 - drawn_in] = buffers[1 - drawn_in] BY <1>1, <1>2, <1>5
  <1>7. shown # Dark =>
          /\ shown = 1 - drawn_in
          /\ \E last \in 0 .. BarsWidth - 1 :
                 width_offset = Following(last) /\ HoldsBars(buffers'[shown], last)
    BY <1>1, <1>6 DEF BarsInv
  <1>8. DOMAIN buffers' = 0..1 BY <1>1, <1>2
  <1> QED BY <1>1, <1>2, <1>3, <1>4, <1>7, <1>8 DEF BarsInv

LEMMA BarsShown ==
  ASSUME BarsInv, ShowFrame
  PROVE  BarsInv'
  <1> SUFFICES ASSUME example = "rotating_bars" PROVE BarsInv'
    BY DEF BarsInv, ShowFrame
  <1>1. drawn_in \in 0..1 /\ 1 - drawn_in \in 0..1 /\ 1 - (1 - drawn_in) = drawn_in BY DEF BarsInv
  <1>2. /\ UNCHANGED <<example, hdmi_config, width_offset, buffers>> /\ step = "load"
        /\ step' = "draw" /\ shown' = drawn_in /\ drawn_in' = 1 - drawn_in
    BY DEF ShowFrame
  <1> QED BY <1>1, <1>2 DEF BarsInv

LEMMA BarsInvariance == PicturesSpec => []BarsInv
  <1>1. PicturesInit => BarsInv
    BY BarsSizes DEF PicturesInit, BarsInv
  <1>2. BarsInv /\ [PicturesNext]_picturesVars => BarsInv'
    <2> SUFFICES ASSUME BarsInv, [PicturesNext]_picturesVars PROVE BarsInv'
      OBVIOUS
    <2>1. CASE ShowBars BY <2>1 DEF ShowBars, BarsInv
    <2>2. CASE ShowSquare BY <2>2 DEF ShowSquare, BarsInv
    <2>3. CASE reset_static_image BY <2>3 DEF reset_static_image, BarsInv
    <2>4. CASE DrawFrame BY <2>4, BarsDrawn
    <2>5. CASE ShowFrame BY <2>5, BarsShown
    <2>6. CASE reset_api BY <2>6 DEF reset_api, ClearBoth, BarsInv
    <2>7. CASE UNCHANGED picturesVars BY <2>7 DEF picturesVars, BarsInv
    <2> QED BY <2>1, <2>2, <2>3, <2>4, <2>5, <2>6, <2>7 DEF PicturesNext
  <1> QED BY <1>1, <1>2, PTL DEF PicturesSpec

(* What is shown of it: all lines alike, and starting at the offset.        *)
LEMMA BarsAt ==
  ASSUME NEW buffer, NEW o \in 0 .. BarsWidth - 1, HoldsBars(buffer, o),
         NEW x \in 0 .. 2 * BarsWidth - 1, NEW y \in 0 .. BarsHeight - 1
  PROVE  buffer[y * (2 * BarsWidth) + x] =
         RotatingPixel((o + (x \div 2)) % BarsWidth, BarsWidth)
  <1> DEFINE p == y * (2 * BarsWidth) + x
             W == BarsWidth
  <1>1. W \in Nat \ {0} /\ BarsHeight \in Nat \ {0} BY BarsSizes
  <1> HIDE DEF W
  <1>2. PICK n \in Nat : n = y * W BY <1>1
  <1>3. y * (2 * W) + x = 2 * n + x /\ x \in Nat BY <1>1, <1>2 DEF W
  <1>4. (2 * n + x) \div 2 = n + (x \div 2) BY <1>3
  <1>5. p \in 0 .. (2 * W) * BarsHeight - 1
    <2>1. 2 * W \in Nat \ {0} BY <1>1
    <2> QED BY <1>1, <2>1, Coordinates DEF W
  <1>6. p \in Places BY <1>5, BarsSizes DEF W
  <1>7. p \div 2 = n + (x \div 2) BY <1>3, <1>4 DEF W
  <1>8. p \div 2 < W * BarsHeight
    <2>1. PICK t \in Nat : t = W * BarsHeight BY <1>1
    <2>2. (2 * W) * BarsHeight = 2 * t BY <1>1, <2>1
    <2> HIDE DEF p
    <2>3. p \in 0 .. 2 * t - 1 BY <1>5, <2>2
    <2> QED BY <2>1, <2>3
  <1>9. buffer[p] = RotatingPixel((o + (n + (x \div 2))) % W, W)
    BY <1>6, <1>7, <1>8 DEF HoldsBars, W
  <1>10. (o + (n + (x \div 2))) % W = (o + (x \div 2)) % W
    <2> DEFINE k == o + (x \div 2)
    <2>1. k \in Int /\ o + (n + (x \div 2)) = n + k BY <1>3, <1>1 DEF W
    <2> HIDE DEF k
    <2>2. k \div W \in Int /\ k % W \in 0 .. W - 1 /\ k = W * (k \div W) + (k % W) BY <1>1, <2>1, DivMod
    <2>3. n + k = W * (y + (k \div W)) + (k % W) BY <1>1, <1>2, <2>2
    <2> DEFINE q == y + (k \div W)
               r == k % W
    <2>4. q \in Int /\ r \in 0 .. W - 1 /\ n + k = W * q + r BY <2>2, <2>3
    <2> HIDE DEF q, r
    <2>5. (W * q + r) % W = r BY <1>1, <2>4, RemainderOf
    <2> QED BY <2>1, <2>4, <2>5 DEF k, r
  <1> QED BY <1>9, <1>10 DEF W

(* Two pixels on in one picture is the same place in the next.             *)
LEMMA BarsNext ==
  ASSUME NEW o \in 0 .. BarsWidth - 1, NEW x \in 0 .. 2 * BarsWidth - 1
  PROVE  /\ (x + 2) % (2 * BarsWidth) \in 0 .. 2 * BarsWidth - 1
         /\ (o + (((x + 2) % (2 * BarsWidth)) \div 2)) % BarsWidth =
            (Following(o) + (x \div 2)) % BarsWidth
  <1> DEFINE W == BarsWidth
  <1>1. W \in Nat \ {0} BY BarsSizes
  <1> HIDE DEF W
  <1>2. \A k \in Int : (W + k) % W = k % W
    <2> TAKE k \in Int
    <2>1. k \div W \in Int /\ k % W \in 0 .. W - 1 /\ k = W * (k \div W) + (k % W) BY <1>1, DivMod
    <2> DEFINE q == 1 + (k \div W)
               r == k % W
    <2>2. q \in Int /\ r \in 0 .. W - 1 /\ W + k = W * q + r BY <1>1, <2>1
    <2> HIDE DEF q, r
    <2>3. (W * q + r) % W = r BY <1>1, <2>2, RemainderOf
    <2> QED BY <2>2, <2>3 DEF r
  <1>3. Following(o) + (x \div 2) = o + 1 + (x \div 2) \/ W + (Following(o) + (x \div 2)) = o + 1 + (x \div 2)
    BY <1>1 DEF W, Following
  <1>4. Following(o) \in Int /\ x \div 2 \in Int /\ o \in Int BY <1>1 DEF W, Following
  <1>5. (Following(o) + (x \div 2)) % W = (o + 1 + (x \div 2)) % W
    BY <1>2, <1>3, <1>4
  <1>6. CASE x + 2 < 2 * W
    <2>1. (2 * W) * 0 + (x + 2) = x + 2 /\ x + 2 \in 0 .. 2 * W - 1 /\ 2 * W \in Nat \ {0}
      BY <1>1, <1>6 DEF W
    <2>2. (x + 2) % (2 * W) = x + 2 BY <2>1, RemainderOf
    <2>3. (x + 2) \div 2 = 1 + (x \div 2) BY <1>1 DEF W
    <2>4. o + (1 + (x \div 2)) = o + 1 + (x \div 2) BY <1>4
    <2> QED BY <1>5, <2>1, <2>2, <2>3, <2>4 DEF W
  <1>7. CASE x + 2 >= 2 * W
    <2>1. /\ (2 * W) * 1 + (x + 2 - 2 * W) = x + 2 /\ x + 2 - 2 * W \in 0 .. 2 * W - 1
          /\ 2 * W \in Nat \ {0}
      BY <1>1, <1>7 DEF W
    <2>2. (x + 2) % (2 * W) = x + 2 - 2 * W
      <3> DEFINE V == 2 * W
                 r == x + 2 - 2 * W
      <3>1. V \in Nat \ {0} /\ r \in 0 .. V - 1 /\ V * 1 + r = x + 2 BY <2>1
      <3> HIDE DEF V, r
      <3>2. (V * 1 + r) % V = r BY <3>1, RemainderOf
      <3> QED BY <3>1, <3>2 DEF V, r
    <2>3. (x + 2 - 2 * W) \div 2 = 1 + (x \div 2) - W BY <1>1 DEF W
    <2>4. W + (o + (1 + (x \div 2) - W)) = o + 1 + (x \div 2) /\ o + (1 + (x \div 2) - W) \in Int
      BY <1>1, <1>4
    <2>5. (o + (1 + (x \div 2) - W)) % W = (o + 1 + (x \div 2)) % W BY <1>2, <2>4
    <2> QED BY <1>5, <2>1, <2>2, <2>3, <2>5 DEF W
  <1>8. x + 2 \in Int /\ 2 * W \in Int BY <1>1 DEF W
  <1> QED BY <1>6, <1>7, <1>8

(* rotating_bars: each frame shows the one before it, moved left by a pair   *)
(* of pixels and round the edge, whatever the size of the mode.             *)
THEOREM BarsRotateOn == PicturesSpec => BarsRotate
  <1>1. BarsInv /\ [PicturesNext]_picturesVars =>
          [example = "rotating_bars" /\ shown # Dark /\ shown' # shown =>
             \A x \in Columns, y \in Lines :
                Shown(x, y)' = Shown((x + 2) % hdmi_config.h_active,
                                     (y + 1) % hdmi_config.v_active)]_picturesVars
    <2> SUFFICES ASSUME BarsInv, PicturesNext, example = "rotating_bars", shown # Dark, shown' # shown,
                        NEW x \in Columns, NEW y \in Lines
                 PROVE  Shown(x, y)' = Shown((x + 2) % hdmi_config.h_active,
                                             (y + 1) % hdmi_config.v_active)
      OBVIOUS
    <2> DEFINE W == BarsWidth
    <2>1. ShowFrame
      BY DEF PicturesNext, ShowBars, ShowSquare, reset_static_image, DrawFrame, reset_api, BarsInv
    <2>2. PICK o \in 0 .. W - 1, last \in 0 .. W - 1 :
             /\ HoldsBars(buffers[drawn_in], o) /\ HoldsBars(buffers[shown], last)
             /\ o = Following(last)
      BY <2>1 DEF ShowFrame, BarsInv
    <2>3. hdmi_config = BarsMode BY <2>1 DEF ShowFrame, BarsInv
    <2>4. /\ hdmi_config.h_active = 2 * W /\ hdmi_config.v_active = BarsHeight
          /\ W \in Nat \ {0} /\ BarsHeight \in Nat \ {0}
      BY <2>3, BarsSizes
    <2>5. x \in 0 .. 2 * W - 1 /\ y \in 0 .. BarsHeight - 1 BY <2>4 DEF Columns, Lines
    <2>6. (y + 1) % BarsHeight \in 0 .. BarsHeight - 1 BY <2>4, <2>5
    <2>7. /\ (x + 2) % (2 * W) \in 0 .. 2 * W - 1
          /\ (last + (((x + 2) % (2 * W)) \div 2)) % W = (o + (x \div 2)) % W
      BY <2>2, <2>5, BarsNext
    <2>8. Shown(x, y)' = buffers[drawn_in][y * (2 * W) + x]
      BY <2>1, <2>4 DEF ShowFrame, Shown
    <2>9. Shown(x, y)' = RotatingPixel((o + (x \div 2)) % W, W)
      BY <2>2, <2>5, <2>8, BarsAt
    <2> DEFINE i == (x + 2) % (2 * W)
               j == (y + 1) % BarsHeight
    <2>10. Shown(i, j) = buffers[shown][j * (2 * W) + i] BY <2>4 DEF Shown
    <2>11. i \in 0 .. 2 * W - 1 /\ j \in 0 .. BarsHeight - 1 BY <2>6, <2>7
    <2>12. (last + (i \div 2)) % W = (o + (x \div 2)) % W BY <2>7
    <2> HIDE DEF i, j
    <2>13. Shown(i, j) = RotatingPixel((o + (x \div 2)) % W, W)
      BY <2>2, <2>10, <2>11, <2>12, BarsAt
    <2> QED BY <2>4, <2>9, <2>13 DEF i, j
  <1> QED BY <1>1, BarsInvariance, PTL DEF PicturesSpec, BarsRotate

=============================================================================
