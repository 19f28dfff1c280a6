# Verification of the seL4 HDMI driver (MaaXBoard, Microkit)

TLA+ models of the driver, TLC configurations that check them on small
instances, and TLAPS proofs of the safety results that matter most. Paths below
are those of the repository (`src/dcss/dcss.c`, `README.md`, ...); a bare number
after a colon is a line.

    tlc -config MCHdmiDriver.cfg MCHdmiDriver      # check one run
    tlapm HdmiDriverProofs.tla                     # check one proof module

## 1. The system

Two protection domains (PDs) and two pieces of hardware with agents of their
own. All of them act concurrently.

| Part | State it keeps | Operations | Talks to |
|---|---|---|---|
| client PD: `api.c`, `frame_buffer.c`, an example | `hd` (a heap block), `frame_count`, `write_fb` | `init_api`, `static_image`, `reset_static_image`, `moving_image`, `reset_api`, `notified(52)`; buffer pointers, clears | dcss PD: protected call 0, notifications 52 and 55; the DMA pool |
| dcss PD: `dcss.c` | `hdmi_config` (the client's pointer), the two offset words | `init`, `protected(0)` = `init_dcss`, `notified(52)` = load, `notified(55)` = `reset_dcss` | client: notification 52; all registers |
| context loader: `context_loader.c` | `context` | `init_context_loader`, `run_context_loader` | the loader hardware (`ENABLE`, polled), the pool's two entries |
| system timer: `timer.c` | `start_time_ticks`, `start_timer_in_use` | `get_ticks`, `ms_delay`, `start_timer`, `stop_timer` | the counter, which never stops |
| mailbox: `util.c`, `API_general.c` | `state` (two buffers, two indices, three flags) | `cdn_api_init`; read, write, echo, each polled until done | firmware of the HDMI transmitter, through two FIFOs |
| HDMI TX: `hdmi_tx.c`, `API_HDMITX.c` | the controller's registers | `init_hdmi`, `call_api` = Init, Set_Mode, SetVic | mailbox |
| PHY: `API_AFE_t28hpc_hdmitx.c`, `API_AFE.c` | PLL and lane registers, status bits | `phy_cfg_t28hpc`, `hdmi_tx_t28hpc_power_config_seq` | mailbox; the PHY acknowledges |
| display controller: `dpr.c`, `scaler.c`, `sub_sampler.c`, `dtg.c` | their registers, the shadowed frame base address | `write_*_memory_registers` | the raster refreshes the panel from a frame buffer |
| modes: `vic_table.c`, `hdmi_data.h` | constants | | everybody |
| DMA pool: `dma.c`, `dma_offsets.h` | the pool's memory; `allocated_dma` | `getPhys`, `getVirt`, `sel4_dma_init`, `sel4_dma_alloc` | both PDs, the loader and the raster |
| infoframes: `API_AVI.c`, `API_Infoframe.c` | `PKT_ALLOC_REG`, FIFO1, the packet memory | `cdn_api_set_avi`, `cdn_api_infoframeset`, `..._remove` | the transmitter, which sends at any moment |
| examples | each its globals | `write_frame_buffer` | client PD |
| empty client, `write_register.c`, `test_base_sw.c`, build | | | |

An image starts with `static_image()` or `moving_image()`: the client copies the
configuration, draws the first frame with `write_fb()`, and makes the protected
call. The dcss PD resets the display controller, brings up the PHY, programs the
transmitter, then the display controller, whose raster then runs. For a moving
image the dcss PD loads the first buffer with the context loader, hands the
other one out in the offset word and sends 52; from then on each 52 to the
client is a frame to draw, each 52 to the dcss PD a frame to load.

### What is hard about it

- **Two PDs on shared memory with no lock.** The buffers, the offset words and
  the client's heap block are read and written by both; what orders them is one
  circulating notification and the two priorities in `sel4-hdmi.system`.
- **Hardware that changes registers by itself**: the loader clears `ENABLE` and
  rewrites the DPR base, which the raster takes over a frame later; the counter
  runs between two reads of its halves.
- **Polling without timeouts**: two loops in the loader, four in the PHY, each
  mailbox call; and one poll with a limit, after which the driver aborts for good.
- **Register sequences beside hardware that reads them**: an infoframe takes a
  dozen writes while the transmitter may send the packet.
- **Re-configuration**: a second image finds the raster, the PHY's lock, the
  status bits and the half-used registers of the first.
- **Numbers that must agree across files**: porch sums, off-by-ones, dividers,
  pool offsets, message layouts, byte orders, C integer conversions.
- **Memory that is shared by address**: an offset word written as 32 bits and read
  as 64, pointers into a receive buffer that the next reply overwrites.

### What makes each part correct

| Part | Property | Where |
|---|---|---|
| double buffering | nothing is drawn in the buffer being fetched; frames are shown whole, in order, each before its successor is drawn | `NoDrawOnProgrammed`, `ImplementsPipeline` |
| notifications | one token, never duplicated nor lost | `SingleToken`, `NoLostNotification` |
| shared heap | the dcss PD never follows a freed pointer | `NoUseAfterFree` |
| loader | it is only waited for when it can finish | `CallReturns`; `LoadCanFinish` (proved) |
| moving image | exactly `MAX_FRAME_COUNT` frames, all shown | `FrameBudget`, `EveryFrameShown`, `MovingImageEnds` |
| timer | no delay is short, loads are measured exactly, delays end | `NeverEarly`, `FrameLasts`, `MeasuredExactly`, `OnTime`, `DelayEnds` |
| mailbox | a register service, though writes are posted and FIFOs short | `ImplementsService`, `QuietBetweenCalls`, `CallEnds`, `WritesLand` |
| PHY tables | every register has a table value; rows divide to the clocks asked for | `FieldsDefined`, `RowsConsistent` |
| PHY bring-up | re-tuned in reset, delivering the clocks returned; polls end | `RetunedInReset`, `ClocksAsReturned`, `ImplementsClockSource`, `PollsEnd` |
| picture | five files describe one picture at one clock; nothing changes under a raster | `PathAgrees`, `FetchFits`, `RewiredInTheDark`, `EndsShown` |
| moving square | the square stays in the picture and leaves no trail | `InPicture`, `OneSquareShown` |
| DMA pool | pictures and small regions stay off each other, words are read as written, addresses reach the registers whole | `StoresStayHome`, `PicturesKept`, `ImplementsStore`; `OffsetsReadBack`, `BaseIsBuffer` (proved) |
| infoframes | what is sent is one packet, the one set, and adds up | `SendsWhatWasSet`, `AviTellsMode` |
| firmware check | the driver gives up only on a counter that stood still, or came round, while all the delays ran | `GivenUpOnlyIfStill`, `CheckEnds` |
| mailbox calls | each answer is that of its call; handed-out data lasts | `Answered`, `BuffKept` |
| other examples | the documented pictures appear | `StillPictures`, `BarsRotate` |

The hazards behind these properties, each at its line, are listed in
`PROJECT.json` under `hazards`; the ones that no property covers say why.

## 2. The modules

    FramePipeline   <-- HdmiDriver <-- ClientPD, DcssPD <-- Platform
    BufferStore     <-- DmaPool <-- Dma
                        SystemTimer, KeepAlive
    RegisterService <-- Mailbox
                        MailboxCalls
                        PhySetup <-- PhyConfig <-- PhyTables
    ClockSource     <-- HdmiPhy  <-- PhyConfig
                        VideoPath <-- HdmiTx, DcssRegisters <-- VicTable; ClockSource
                        InfoPackets <-- VicTable
                        MovingSquare, ExamplePictures

On the left are the abstract specifications. `X <-- Y` reads "X is implemented by, or
built from, Y". `...Inv` holds an inductive invariant (the other proof modules begin
with theirs), `...Proofs` the theorems, `MC...` the instance for TLC. Three of the `MC`
modules check two modules in one run: `MCTiming` (`SystemTimer` or `KeepAlive`, which
`FirmwareCheck` puts on the one counter), `MCPhy` (`HdmiPhy` or `PhySetup`) and
`MCExamples` (`MovingSquare` or `ExamplePictures`) choose one of the two in the initial
state and leave the other's variables alone. They do not compose the two: no program
runs both at a time. An operator named like another one with a suffix
(`MoreFrames_Inclusive` beside `MoreFrames`) is a deliberately wrong variant: put in the
place of the original it breaks the property listed for it under `mutants`, which shows
that the property is sensitive to that line of the code.

### HdmiDriver: both PDs and the display

`Platform` holds the variables and what the PDs stand on. Scheduling is strict
priority: a PD takes a step only when no higher-priority PD is ready
(`ClientMayRun`, `DcssMayRun`); a polling loop keeps a PD ready, because
`seL4_Yield` yields to equal priorities only. So the client never runs while
the dcss PD polls or delays, and runs in between whenever that PD is blocked. A
notification is a bit per channel that coalesces (`NotifyClient`,
`NotifyDcss`). The hardware is `ContextLoad` (the selected entry is copied to
the DPR, `ENABLE` cleared) and `RasterFrame` (the panel takes up the programmed
base).

`ClientPD` follows `api.c` with one action per stretch between two points at
which another party can act. `write_fb()` takes two steps, erasing and drawing,
and a picture is `Torn` in between. `cpc` is the program counter. The
application in `init()` may make any number of static images, each with its
reset, then a moving image, `reset_api()` or neither, which covers the orders
the examples use. `DcssPD` follows `dcss.c` and `context_loader.c` likewise
(`dpc`); `init_hdmi()` either succeeds or aborts, as `handle_api_status()` does.
A picture is the ordinal of its frame. `hd->mode` and "is a delay asked for"
are the only fields of `hd` that decide control.

`FramePipeline` is what the viewer is promised: a frame is finished only while
its predecessor is shown (or the display is black), and the display only
advances to the last finished frame or goes black. `HdmiDriver` implements it
with `shown` mapped to the picture in the programmed buffer.

### SystemTimer

`get_ticks()` is three reads, with `Tick` possible between any two, and the two
callers are `run_context_loader()` (measure, then wait for the rest) and
`static_image()`. `Word` stands for 2^32; conversions to `int` and `uint64_t`
are modelled (`ToInt`, `ToLong`). `since_start`, `since_init` and `unpolled`
are history variables: the true time the properties compare with. The read of
offset 0x00 is the control register's constant, as in the code.

### Mailbox

The driver moves one cell per step; a call starts, sends, receives and finishes
(`Start`, `internal_mbox_tx_process`, `internal_mbox_rx_process`, `Finish`). The
firmware is external: it takes cells, executes a whole message, and sends the
reply. `cdn_api_init()` may be called between any two calls, because
`init_hdmi()` does so for every image, and posted writes may still be in the
FIFO then. `RegisterService` is the abstraction: a read returns what was last
written, an echo its message, and no call fails. `shadow` records the writes
that have returned.

### PHY

`PhyTables` is the nested switches of `phy_cfg_t28hpc()` as data: a switch is the set of
its cases, each a pair of a value and what the case does, and `CaseOf` picks the case of
a value; rows by clock and ratio, then rows by VCO frequency. `PhyConfig` is its
computation, with the uninitialised locals explicit: `Uninitialised(v)` gives each field
the stack value `v`, and `set_field_value` leaves a field alone when the value is too
wide, as the code does. `PhySetup` runs the computation over its inputs. `HdmiPhy` is
the bring-up: reset, the writes in order, release, and four polls; beside it the PHY
decodes its registers, locks, and acknowledges. `ClockSource` is the abstraction the
rest of the driver relies on.

### VideoPath

`init_dcss()` with the geometry: `HdmiTx` has the transmitter's registers,
`DcssRegisters` those of the display controller, `VicTable` the modes.
`VideoPath` uses `ClockSource` in the place of the PHY, which is sound because
`HdmiPhy` implements it, and starts with any of the modes in `hdmi_config`. A
register packed as `(hi << 16) | lo` is a pair. Constant registers are left
out. A refused transmitter call aborts the PD (`handle_api_status()`); why the
firmware refuses is `Mailbox`'s matter.

### DMA pool

`Dma` is the arithmetic: `getPhys()` with C's conversions, and the offsets of
`dma_offsets.h`. In `DmaPool` the pool is an array of 32-bit cells, and
one step is one store or one read of it: the offset words are stored by the dcss
PD as 32 bits and read by the client as 64, the clears and `write_fb()` store
pixel pairs or pixels from a pointer that only moves on, the entries are four
words stored one by one, and the loader takes what the entry holds to the base
register. The pens (a picture is painted in one number) stand for the frames;
when each PD may step is left freer than `HdmiDriver` allows, so that what holds
here holds under any scheduling. `BufferStore` is what every other module takes
the pool for: offset words, entries and buffers that are separate variables;
`DmaPool` implements it.

### InfoPackets

`infoframeSet()` is one action per register write; between any two of them the
transmitter may send each entry its allocation table marks valid. `cdn_api_set_avi()`
computes its packet byte by byte, with the two bytes behind it that it never writes
(`Stack`). The vic is whatever the caller has in `hd`: no example copies it from the
table, and the packet carries its low byte. Other callers' packets are given as a
constant. The packet memory and the table are external, as is the assumption that a
register write has taken effect before the next, because the code polls none of the
status bits.

### MailboxCalls and KeepAlive

`Mailbox` has the bytes of four calls; `MailboxCalls` has all the calls, a message
a step: the sizes and numbers of each request, what each reply is read into,
the check of its header, and the pointers into `rxbuffer` that three calls hand
out. Messages are laid out and read back number by number, at the places the sizes
give (`Layout`, `Numbers`). The firmware is external and its field order is taken from
these calls.
`KeepAlive` is `cdn_api_checkalive()` with `u_delay()` inside it; beside it the system
counter and the firmware move on their own, and the histories `elapsed` and `moves` hold
what the code cannot see.

### MovingSquare and ExamplePictures

`MovingSquare` is the example's own arithmetic, with its private count of buffers
beside the driver's; one step draws a frame and one shows it.
`ExamplePictures` draws the pictures of the other three examples byte by byte,
clears as `frame_buffer.c` does, and reads the result through the component
order that the example's format gives `MODE_CTRL0`: a square is shown only if what comes
out is green on black. The alternation of frames and loads is what `HdmiDriver`
establishes. static_image's alpha, which the code carries from pixel to pixel, is
a recursive function (`StaticAlpha`). The modes are constants: `ModesAssumption` asks
that a line divides into four bars, that the square fits, that the third mode is the
largest, and that a bar of the second is at most 765 pixels, the most that can fade
in within a byte.

## 3. What is checked

| Run | Distinct states | Bounds |
|---|---|---|
| `core` (`MCHdmiDriver.cfg`) | 443 | priorities 249 and 248, 6 frames |
| `scanout` (violation) | | 4 frames |
| `timer` (`MCTiming.cfg`) | 3,316,230 | a word of 24 values, 2 ticks/ms, loads up to 5 ticks, delays -1, 0, 1, 3 ms; a check of two looks of two ticks at a firmware counter of three values; up to two ticks between reads |
| `timer_wrap` (violation) | | the calls alone, a word of 16, one tick between reads |
| `mailbox` | 68,714 | radix 2, two cells a number, FIFOs of 3 cells, 2 registers, 2 values, 2 echoes |
| `phy` (`MCPhy.cfg`) | 2,160 | bring-up: the five clocks of `vic_table` and an unsupported one, two stack values, two reset values; the function: these and the other clocks of the tables, all formats, five depths (one unsupported), both clock sources |
| `video_path` | 636 | rows 0 to 2 of `vic_table`, alpha on and off |
| `video_path_all_modes` (violation) | | all five rows |
| `examples` (`MCExamples.cfg`) | 60,120 | moving square: 720 x 480, the built-in square and start, the whole orbit; the others: modes of 72 x 5, 128 x 6, 192 x 8, a square of 5, a whole rotation of the bars |
| `dma_pool` (`MCDmaPool.cfg`) | 43,628 | words of 512 values, buffers of 8 pixels, regions 8 bytes apart, two modes of which one fills a buffer, 2 frames, a pool address that is negative as an `int` |
| `info_packets` | 750,142 | rows 1, 4 and 5, two of them also with another vic, all formats and colorimetries, two stack values, two packets of others: same entry, other entry |
| `mailbox_calls` | 1,456,468 | bytes of 32 values, buffers of 13, 13 calls with one or two argument sets, 2 posted messages |

The other invariants the text names are proved below. `TypeOK`, `IInv`,
`LoadCanFinish`, `PoolInv`, `OffsetsReadBack` and `BaseIsBuffer` can also be added to
the cfg of their module's run.

**Why the bounds are enough.** `core`: strict priorities leave little interleaving, and
the state repeats with period two in the frame count; six frames bring both contexts
round twice after the pre-written frame and reach the end. The proofs cover every frame
count. `timer`: every distance of start and end from the wrap and from the sign change
occurs with 24 values; the proofs cover every word. `mailbox`: FIFOs shorter than every
message force a send and a receive to suspend in each position; two cells per number
make their order matter; the buffer is just longer than the longest message. `phy` is
exhaustive over what the tables name; two stack values tell whether anything depends on
the stack. `phy` and `video_path` check every pair of successive images. The moving
square has no bound: the program is deterministic. `dma_pool`: the smaller mode leaves
room behind a picture and the larger none, and the regions are as close as the layout
allows, so a store one too far hits something; the proofs cover every size.
`info_packets`: the second caller's packet shares the AVI entry, the third is as long as
an entry. A check of the firmware starts at every distance of the counter from its wrap,
and the firmware's own counter, of three values, may come round within it.
`mailbox_calls`: the arguments need more than one byte where the call sends more, and
`rxbuffer` is just larger than the longest reply. The other examples: quarters and
halves divide the widths as they divide the real ones, and alpha stays below its own
wrap, which in the real modes a bar of 1280 / 4 pixels does not reach either.

**Fairness.** `HdmiDriver`: weak fairness of each PD (the scheduler runs a ready
PD that nothing outranks) and of the loader and raster (clocked hardware).
`SystemTimer`: the counter runs on, and the PD that polls it is not starved;
`MaxPollTicks` is how long it may stay between two reads. `Mailbox`: a polled call
gets its turns, and the firmware keeps serving. `HdmiPhy`: the driver's steps end
and the PHY acknowledges what it is asked. `VideoPath`: `init_dcss()` takes its
steps; strong fairness of `PhyDone` says that the clock, which may drop out
again before it settles, in the end stays up, as `PollsEnd` shows of `HdmiPhy`.
`KeepAlive`: the counter runs on and the PD keeps polling; of the firmware nothing
is assumed. `SystemTimer`'s fairness is used by `timer_wrap` alone; the other modules
state safety only.

**Deadlock** is checked except in the two `HdmiDriver` runs, where the system
rests after `reset_api()`, after a static image is left standing and after an
abort, in the two `VideoPath` runs, which rest after an abort too, in `phy`, where
an unsupported clock is polled for without end, and in `examples`, whose programs
end. `NoLostNotification` says which rests of the driver are legitimate.

### Findings

1. **Drawing in the displayed buffer** (`scanout`). README.md:3 says that while
   the current frame is displayed the next one is written. The code waits until
   the loader is idle, not until the raster has moved to the new base
   (`context_loader.c:88-95`): until the next frame of the raster,
   `write_fb()` may erase the buffer the panel is being refreshed from. README.md:7
   and :133 report the visible redraw; the code that would prevent it is not
   there. What holds is `NoDrawOnProgrammed`.
2. **A delay that never ends** (`timer_wrap`). `get_ticks()` reads offset 0x00
   where its comment says `cntcv1` (`timer.c:97`); `cntcv1` is at 0x0c
   (`timer.c:29`). The upper half is a constant, so a delay that spans the wrap
   of the lower half is polled for ever. `NeverEarly`, `FrameLasts` and
   `MeasuredExactly` hold all the same, and `OnTime` says when a delay does end.
3. **Modes larger than the buffer** (`video_path_all_modes`). Nothing stops a
   client from using rows 3 and 4 of `vic_table`, whose frames are almost four
   times `FRAME_BUFFER_SIZE`. With rows 0 to 2 `FetchFits` holds.

Six more disagreements were met while modelling and are not run:

- `dma.c:57` adds `virt_base` to a pointer of eight-byte elements, so `getVirt()` does
  not invert `getPhys()` as `include/util/dma.h:18-19` promises. Nothing calls it.
- `API_HDMITX.c:71` reads the one-byte I2C status into a four-byte enum and leaves
  the rest as the caller had it (`Prior` in `MailboxCalls`);
  `include/hdmi/API_HDMITX.h:86` lists all fields as outputs.
- `moving_square.c` draws with `RBGA_GREEN` (:17, :134) and sets the format `RGBA`
  (:87), in which the same bytes are blue. `resolution_change.c` has the constant
  beside the format it is named for (:52), and its square is green.
- `examples/README.md:10` says that `static_image` sets RGBA; the code sets `RBGA`
  (`static_image.c:47`), in which the order of bars promised (:8) is what appears.
- `examples/README.md:44` promises rotating bars of red, blue, green and white;
  `rotating_bars.c:60-71` stores red, green, blue and white, and shows them in that
  order in the format it sets (:32).
- No example copies the vic of `vic_table` into `hd`: three leave it unset, and
  `rotating_bars.c:32` puts 23 beside a mode whose row has 4. Only
  `cdn_api_set_avi()` reads it, which nothing in the repository calls.

## 4. What is proved

TLAPS checks these for every value of the constants that satisfies the named
assumptions, and every length of run.

**`HdmiDriverProofs`**, from `PriorityAssumption` (dcss outranks the client) and
`FrameCountAssumption` (a positive frame count): the invariant `IInv`, all the
safety properties of `core`, and that `HdmiDriver` implements `FramePipeline`.
None of the properties is inductive: that `write_fb()` does not run beside the
loader depends on where the notification is, and that the buffers differ on
`context`, `active`, `cache` and the DPR advancing together. `IInv`
(`HdmiDriverInv`) is a disjunction of phases of the driver's life (`Booting`,
`BetweenCalls`, `Prewriting`, `Calling`, `ShowingStatic`, `DrawingFrame`,
`LoadingFrame`, `Resetting`, `Finished`), each saying where the token is and how
buffers and frames correspond, and `BufferInv`, which relates `context` and the
offset words in all of them. The proof shows that each action leads from a phase
to a phase; the priorities are what rules out the rest.

**`SystemTimerProofs`**, from `WordAssumption`, `CntcrAssumption`, `TicksAssumption`,
`DelaysAssumption` (each delay is shorter than the lower half of the counter),
`LoadAssumption` (a load is shorter than half of it, so that it fits an `int`) and
`PollAssumption`: `TimerInv`, `NeverEarly`, `FrameLasts`, `MeasuredExactly`, `TypeOK`
and, with `FrequencyAssumption` (a millisecond's ticks fit a word), `OnTime`. `TimerInv`
relates, at each point of the calls, the words read to the history: the difference of
two reads is the time between them up to one wrap (`LoadInv`), and the time waited is at
least what the reads differ by (`DelayInv`). It is kept linear, a wrap being one of
three cases. `OnTimeInv` adds that before the wrap the true time never runs ahead of
what was read by more than one poll (`CounterFollows`, `PollsFollow`). The module also
proves of `KeepAlive` that a check gives up only on a counter that stood still, or came
round, for as long as all the delays ask for (`AbortedOnlyIfStill`), from `ConstantsFit`
(each constant is a number, and none that counts something is zero). `StillInv` says
that the firmware's counter is ahead of `alive` by its moves, and that at every look the
delays so far have lasted (`Lasted`); a delay whose deadline lies behind the wrap of the
system counter never ends (`Stuck`, finding 2), so no look follows it, and one that
steps over the wrap unseen lasts a turn of the counter longer. How far apart the reads
lie and how fast the firmware counts do not matter.

**`VideoPathProofs`**, from `ModesAssumption` (a mode's parts add up to its
wholes; `vic_table` satisfies it, which TLC evaluates) and
`FrameBufferAssumption`: `TypeOK`, `PathAgrees`, `RewiredInTheDark`, and
`FetchFits` under the hypothesis that each mode's own picture fits. `IInv`
(`VideoPathInv`) says what each unit holds from its step of `init_dcss()` on and
for as long as the raster runs, and that the raster is off from `reset_dcss` to
`TC_GO`.

**`PictureProofs`**, which holds the proofs of `DmaPool`, `MovingSquare` and
`ExamplePictures`. Of the pool, from `LayoutAssumption` (the buffer size and the spacing are
multiples of four, and three spacings and an entry fit behind the buffers),
`PoolAssumption` (the pool is smaller than 2 GB and its physical addresses fit 32
bits; its virtual address is any 64-bit one), `GeometriesAssumption` (each mode's
picture fits a buffer and has an even width), `MaxFramesAssumption` and
`DcssAssumption` (the controller is mapped at its physical address): first
`GetPhysCorrect`, that the two wrong conversions of `getPhys()` cancel; then `PoolInv`
(in the same module), which says what each region holds at each step of either PD, and
in particular how far a drawing has come (`PaintingHolds`: pointer plus stores
left is the end of the picture), from which every safety property of `dma_pool`
follows; then that `DmaPool` implements `BufferStore`. None is inductive alone: that
a store stays in its buffer needs the offset word to name one, which needs the
stores to stay off the offset words.

Of the moving square, from `SizesAssumption`: `OneSquareShown` for every picture
and every square, because the example's count and the driver's stay equal or
differ as the step demands, and each buffer holds what is remembered of it; and
`InPicture` (`SquareStays`) for every picture that holds the start and whose path
misses the corners. The code tests one border at a time, so a square that runs into
a corner would turn at one border and leave over the other. Unfolded at its
reflections the path is a straight walk, on which one combination of position and
direction (`Unfolded`) keeps its rest modulo a common divisor of the two doubled
ranges; `MissesCorners` says that no corner has that rest. It is a hypothesis because
it fails for some sizes; `ExampleStays` discharges it for the example's own 720 by
480 and its square of 95 (divisor 96, the rest that of the start's 295).

Of the other pictures, from `ModesAssumption`: `StillPictures` (`StillPicturesShown`) and
`BarsRotate` (`BarsRotateOn`), for modes and squares of all sizes it allows. The alpha at
a pixel is a closed form, `Fade`, of its column and the width of a bar (`AlphaIs`):
the function it is proved equal to is defined by recursion, and induction being out of
the provers' reach as a rule with an operator, it is done by the least pixel at which
the two would differ (`Least`, from the library's `WFMin`). `StillInv` says that both
buffers are blank whenever an image is drawn, which needs the clears to cover the
mode that was shown and not the one that comes (`ClearedBlank`), and `BarsInv` that the
frame that waits is one offset behind `width_offset` and the one on display two.

**`MailboxProofs`**, from `LayoutAssumption` and `BufferAssumption`: an invariant of the
cells under way. The messages posted and not yet executed are one stream that runs
through the firmware's input, the FIFO and the rest of `txbuffer`; the invariant
cuts it into whole messages, the last of them possibly still being sent, and says
that executing them in order turns the firmware's registers into `shadow`
(`Stream`). The reply, if there is one, is likewise spread over `fw_out`, the FIFO and
`rxbuffer` (`ReplyHolds`). From it follow `QuietBetweenCalls` (`Quiet`) and that the
transport implements `RegisterService` (`Serves`), for FIFOs, buffers and numbers
of messages of any size, under one hypothesis, `NumbersReadBack`: a number laid out
by `internal_itobe()` is read back by `internal_betoi()`. `CodeReadsBack` proves that
for the code's four bytes of 256 values, so `CodeServes` has no hypothesis left; for
every radix and width it would take an induction over the cells.

**`HdmiPhyProofs`**, from `PhyAssumption` (clocks are positive, the stack holds
numbers, registers have 16 bits): `ClocksAsReturned`, `RetunedInReset` and that
`HdmiPhy` implements `ClockSource`, for every set of clocks, known to the tables or
not, and every content of stack and registers; and of `PhySetup`, from no assumption
at all, `FieldsDefined` (`FieldsFromTables`) and `RowsConsistent` (`RowsAgree`), for
every clock and ratio with a case, both clock sources and every value of the stack.
The tables come first. One lemma works out each inner switch, row by row
(`OutputRows`, `InputRows`): whatever clock and ratio find, they find one row, its
values fit their fields and its numbers agree (`SoundOutput`, `SoundInput`), and the
VCO frequency it makes is one the second table knows, with a gain for that divider
(`OutputVcoKnown`, `InputVcoKnown`; the clock as the source goes through chains of
`inside()`, which must find one range and not the one before it, `RangeFound`). The
rows of the VCO set the analogue fields and no divider (`OutputVcoSettled`,
`InputVcoSettled`), so both reach the fields as they stand in the tables (`Computed`),
and what no row sets is the one initialised local. `RowDivides` is what the driver's
bring-up needs of this: each of the eight clocks has one row for 8-bit RGB, and it
divides to that clock. That row is followed through the shifts and the
read-modify-writes to what the PHY decodes (`ProgramTunes`). The invariant
`PhyInv` then has four parts: types; `Settings`, that the fields make the clock asked
for between being chosen and being written, and the registers do from then on;
`Held`, that the PHY is in reset and acknowledges nothing while it is reprogrammed;
`Waited`, that what a poll has seen is still so at the next. `Held` is why a stale
ready bit cannot let the old clock out, `Waited` why the power state the last image
asked for cannot.

**`InfoPacketsProofs`**, from `OtherAssumption` (a caller's packet has one to eight
words): `PacketInv`, which follows the words from the arguments
through FIFO1 to the entry and the table's bits from the register on, and from it
`SendsWhatWasSet`, for every set of packets and entries. `AviInv` adds that a packet
of the AVI type was made by `cdn_api_set_avi()` of the mode noted beside it, which
needs that no other caller sends packets of that type; with it `AviPacketsTell` proves
`AviTellsMode` for every mode whose parts make its wholes and whose numbers fit the
packet (`FitsAvi`), the vic excepted: no other byte is cut, so the numbers read back
(`FieldsRead`), and the checksum makes up for the rest (`ChecksumFits`), for a vic cut to
its low byte too (`ChecksumFitsCut`). `CodePacketsTell` discharges the hypothesis for the
rows of `vic_table.c` with any vic beside them.

**`MailboxCallsProofs`**: `Answered` (`CallsAnswered`) and `BuffKept` (`DataKept`), for
all thirteen calls, any number of messages in the mailbox, any registers and slaves
and any number of values of a byte, from `RadixAssumption` (a byte holds the modules' and
opcodes' numbers), `BufferAssumption` (`rxbuffer` holds a header; nothing is assumed of
a reply's length against it), `PriorAssumption` and `EdidAssumption` (types), and
`ArgsAssumption`: a call's numbers fit the bytes they are sent in, `DDC_WRITE`'s
data is as long as its `len`, what is read is there, and a field write leaves a word
a word. That last is what the caller owes: the code checks none of it. The first half
is the layouts: numbers of one, two and four bytes, four at most, are read back from
wherever their bytes lie (`NumberReadBack`, `LayoutReadBack`), which needs that each
byte belongs to one number (`PlacesApart`) and each to some (`PlacesCover`). So the
firmware takes each message for the call it was (`RequestRead`) and the driver each
reply for its answer (`ReplyRead`). The invariant, `CallsInv`, then names the calls on
their way and the registers as they are before, between and behind them
(`OnTheWay`), because `shadow` runs ahead of the firmware by every write posted. The
one call that is waited for is the last on its way, or its reply is, or that reply
is all that has been stored in `rxbuffer` since (`InPhase`).

**Only model-checked.** Liveness everywhere (`EveryFrameShown`, `CallReturns`,
`MovingImageEnds`, `CallEnds`, `WritesLand`, `PollsEnd`, `EndsShown`, `CheckEnds`),
which TLAPS cannot prove under fairness. Every invariant and every action property
of the passing runs is stated by a theorem; its run checks the same formula on an
instance.

## 5. What is not modelled

- Calls that nothing makes and that do no more than read or write a register
  directly: `getcurversion`, `get_event`, `get_debug_reg_val`, `setclock`, `getclock`
  and `loadfirmware` of `API_general.c`; `ForceColorDepth`, `disable_gcp` and the SCDC writes of a 2.0 link in
  `API_HDMITX.c` (the driver never asks for 2.0).
- The register writes of the PHY for the clock source the driver never asks for
  (its tables are checked), the analogue registers beyond the computed values,
  and the display controller's constant registers (coefficients, thresholds).
- `sel4_dma_alloc()` and `getVirt()`, which nothing calls: every user of the pool takes
  its place from `dma_offsets.h`. Of `sel4_dma_init()` the two bases are `Dma`'s
  constants.
- The count of a moving image's frames in `MovingImageEnds`, which a count off by one
  satisfies too: `FrameBudget` is the property of the count.
- A reply longer than `rxbuffer`: the code does not check for it, and the firmware of
  `Mailbox` and `MailboxCalls` sends the lengths the calls expect.
- A firmware whose messages are laid out otherwise than the driver's: that of
  `MailboxCalls` shares `RequestSizes` and `ReplySizes` with the driver, so it agrees with
  it by construction.
- The end of the polls for a clock the tables do not have: `PollsEnd` is about the
  clocks they have.
- Non-blocking calls that overlap: the driver uses the blocking forms from one
  thread, so the shared flags of `state_struct` are never contended.
- Bus errors: the access functions in `test_base_sw.c` always return 0, so the
  paths that handle a failing access cannot be taken; the functions themselves
  are one volatile access each.
- A failing `malloc()`, the heap region and its gap (`sel4-hdmi.system:45`), the
  cache attributes of the mappings.
- The empty client, a template; the build and the C library's stubs.

## 6. Plan

Done, in this order, the most important behaviour first: `HdmiDriver` with its
abstraction, runs and proofs; `SystemTimer` with proofs, `OnTime` included; `Mailbox`;
PHY tables and bring-up; `VideoPath` with proofs; `MovingSquare`, then its proof;
`DmaPool` and `BufferStore` with proofs; `InfoPackets` with proofs;
`KeepAlive`; `MailboxCalls`; `ExamplePictures`; the proofs of `Mailbox`, `HdmiPhy`,
`KeepAlive`, `InPicture`, `AviTellsMode`, `MailboxCalls`, `ExamplePictures` and the tables
of the PHY.

Left:

1. The composition of `VideoPath` with `HdmiDriver`: `init_hdmi` and the register
   writes in the place of their one-step abstractions, shown to implement them.
2. `DmaPool` under `HdmiDriver`'s schedule, so that `PicturesKept` and
   `NoDrawOnProgrammed` become one statement about bytes on the panel.
