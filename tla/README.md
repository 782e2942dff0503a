# Verification of the RP2040 Ethernet panel

TLA+ models of the panel's firmware, its bootloader and its over-Ethernet
flasher, checked with TLC and proved with TLAPS. `PROJECT.json` lists the
components, runs, mutants, findings, hazards and theorems, and maps every
definition to the source lines it models.

## The system

| Component | Source | State | Operations |
|---|---|---|---|
| Boot record store | `firmware/src/ota/boot_state.c` | two flash sectors, each a record or unreadable | read, write (erase, program) |
| Bootloader | `firmware/bootloader/main.c` | watchdog SCRATCH0, the boot record, the app slot | boot decision, jump |
| Recovery server | `firmware/bootloader/recovery.c` | `app_len`, `app_crc`, the slot | SYNC, BEGN, DATA, END!, GO!! |
| App OTA hooks | `firmware/src/ota/ota_app.c`, `main.c` | boot record, SCRATCH0 | confirm, request update |
| Host flasher | `tools/ota_flash.py` | phase, offset, retries | probe, trigger, push, retry |
| CH9120 | external | bytes buffered each way, one peer | bridges TCP and UART |
| UART receive path | `firmware/src/net/net.c` | hardware FIFO, ring, head, tail | interrupt, `net_read`, `net_rx_flush` |
| CH9120 configuration | `net.c` (`net_init`, `net_attach_data_mode`) | the chip's settings (received, in EEPROM, in force), CFG, `s_status` | configure, read back, attach |
| Button debouncer | `firmware/src/buttons/` | stable and raw level and its time, per button | update |
| Rings | `firmware/src/rings/` | colour, brightness, dirty; the words on their way to each chain | set, render, push |
| Panel main loop | `firmware/src/main.c` | line buffer, discard flag, peer edge | hello, events, dispatch |
| Line protocol | `firmware/src/protocol/protocol.c` | none | parse, format |
| ROS 2 driver | `ros2/panel_driver/` | socket, cached desired state, hello seen, times of the last data and ping | reader thread, callbacks, resync, keepalive |
| Status LED | `firmware/src/status_led/` | blink position on a clock | task |

How they interact. The bootloader reads the boot record and either jumps to the
app or runs the recovery server. The app confirms its image in the record and,
on the `ota` command, reboots through SCRATCH0 into recovery. The flasher talks
to app and recovery over the same TCP socket through the CH9120, which buffers
bytes across connections and survives a reset of the RP2040 alone. In the app,
the receive interrupt and the main loop share a ring; the main loop polls
buttons, dispatches lines, writes replies and refreshes the LEDs in one thread.
The ROS 2 driver has a reader thread and executor callbacks sharing a socket
and the cached state.

What makes it hard: power failures in the middle of flash writes, stale and lost
frames in a frameless bridge, retries of work already done, an interrupt that
cuts into index updates, connection edges noticed late by polling, clocks that
wrap, and two threads of the driver racing a resynchronisation.

What makes each component correct:

- **Boot record store**: a write is all or nothing across a power failure and the
  store never goes back to an older record.
- **Boot chain**: only whole images are started; an image that never confirms is
  given up after a bounded number of starts; confirmation belongs to the image
  that earned it; recovery stays reachable.
- **Flasher**: "verified" means the panel holds exactly this image; faults cost
  retries, never a wrong success.
- **Receive path**: order, no duplicates, no uncounted loss, a flush that flushes.
- **Main loop**: lines are dispatched whole or not at all, a peer gets the answers
  to its own lines in order, its idea of the buttons is the panel's, the LEDs show
  what was commanded.
- **Buttons**: the events tell every change of the debounced level, none for a
  button held at power-up, none for a bounce, and promptly.
- **Driver**: after the network calms down the panel shows the last desired state,
  and subscribers hold the panel's button states; a link that lives is kept, one
  that died is noticed in time, and a panel that missed the connection is asked.
- **CH9120 configuration**: a chip that was configured stays so, whatever gets lost
  and wherever a reset cuts in; `responding`, which confirms an image, is never the
  work of a late answer or of garbage; `net_init` ends with or without a chip.
- **Rings**: a pushed frame is latched, and what is latched is the commanded colour.
- **Status LED**: whoever reads the light reads the address.

## Modules

| Module | Models |
|---|---|
| `AtomicRecord` | abstract: a register whose writes a power failure either loses or keeps whole |
| `BootState` | `boot_state.c`; implements `AtomicRecord` |
| `Bootloader` | `bootloader/main.c`, `recovery.c`, `ota_app.c`: the boot chain of one panel, commands arriving in any order |
| `OtaTransfer` | extends `Bootloader` with `ota_flash.py` and the bridge; implements `Bootloader!Spec` |
| `ByteFifo` | abstract: a bounded FIFO with one producer and one consumer |
| `RxRing` | the receive ring of `net.c`; implements `ByteFifo` |
| `ButtonStream` | abstract: a first snapshot of levels, then one event per flip |
| `Buttons` | `buttons.c`; implements `ButtonStream` |
| `PanelLoop` | the loop of `main.c` with `protocol.c`, `rings.c` and a host; takes from `ButtonStream` what `buttons_update` does |
| `PanelDriver` | `panel_node.py`: reader thread and callbacks against a panel that answers as `PanelLoop`'s does |
| `LinkWatch` | abstract: a link that is dropped if and only if it died |
| `Keepalive` | the clock of `panel_node.py`'s reader loop; implements `LinkWatch` |
| `NetConfig` | `net_init` and `net_attach_data_mode` against the CH9120 and a lossy UART |
| `StatusLed` | `status_led.c`, and somebody who reads the light |
| `Ws2812` | operators: a chain of LEDs behind a PIO queue, in microseconds |
| `Rings` | `rings.c`, `rings_hw.c` and `rings_flush`: scaling, packing, pushing |
| `Startup` | composes the last four: `main.c` from reset to the loop, and resets at any moment |
| `MCBootloader`, `MCOtaTransfer`, `MCPanelLoop`, `MCStartup` | values of the constants for TLC |
| `*_proof` | theorems |

The definitions named as bugs (a comment starting "Bug:") are mutants: each
replaces a definition by a plausible mistake, and a property of some run fails
under it. They are not part of any specification.

### BootState

`flash` is what `rec_valid` makes of each sector, `write` the `boot_state_write`
in progress. Erase and program are separate steps; `PowerFail` leaves the sector
being written as it was or unreadable. The sequence number is unbounded: at one
write per 50 ms it would take years of continuous writing to wrap, and a flash
sector lasts about 10^5 erasures. Initially the store is blank or holds one record.
`power` is a history variable: it flips at a power failure, so that the abstract
register, in which only a power failure may lose a write, can tell a failure that
changed nothing from a step that gave the write up.

### Bootloader

One variable per piece of persistent state (`rec`, `slot`), `scratch`, the
processor's position `pc`, recovery's locals, and the history `trials`.
`boot_state_write` is a single step, which the refinement proved for `BootState`
justifies. The slot is counted in chunks; a CRC is the sequence of chunks it was
computed over, that is, CRC32 is taken to be injective; the CRC of nothing is the
initial value of `app_crc`, as it is in the code (both are 0). Flash programming
only clears bits, so a chunk programmed over a different one is `Torn`. A DATA
command's chunk CRC covers its payload and not its offset; the model lets the
payload land anywhere. Offsets are whole chunks, within the slot or beyond it: the
`uint32` wrap of `off + len` at `recovery.c:152` and unaligned offsets, which no host
program sends, are not modelled. The vector table check looks at two words of chunk 1 and
is a choice for a torn chunk. An app image is healthy or hangs before it can
confirm. `AppUp` may leave the image unconfirmed: `main.c` skips `ota_confirm`
when the CH9120 did not answer.

`Provisioning` says what `provision.sh` found in the record sectors, which it
never writes: nothing, the record of the image it loads, or that of another.

### OtaTransfer

The bridge is a FIFO of frames each way: both ends resynchronise on 4-byte
magics, so a damaged frame is skipped, refused, or (DATA) lands at a wrong
offset, or (BEGN) carries wrong fields. The host is a state machine over
`probe, sync, trigger, ack, begin, oker, data, dack, verdict, go`. Faults are
bounded by `MaxFaults`: a frame or a token lost, a frame damaged, the attempt
broken off (socket error, `ensure_recovery`'s deadline), an answer slower than
its timeout, a frame of another flasher left in the bridge, a power failure, and RESET
of the RP2040 alone.
A timeout without a fault happens only when nothing is left that could answer:
the timeouts (3 to 30 s) are long against the panel's reactions.
A foreign frame is a SYNC or a trigger, or what a whole push of that flasher could
have left there: DATA, END and GO only once some BEGN has set `app_len`. `Reset` comes at
any moment, in the middle of a chunk too, and leaves the CH9120, what it holds and the
connection alone; `pressed` remembers it. `END!` then reaches a recovery server that has
seen no `BEGN`, which verifies zero bytes and answers `DONE` (`recovery.c:126`, `168`), and
the flasher says "verified" (`ota_flash.py:202`): `NothingLanded` names that outcome, and
`DoneMeansInstalled` says that it is the only wrong one. A record of length 0 may keep the
panel out of recovery (`unrecoverable`), so `FlashSucceeds` ends there.

No answer says which attempt it belongs to, and a failed attempt may leave one more of
them under way. `FewAttempts` says how far the protocol bears that: a push reads an answer
for BEGN and one for each chunk before its verdict, which uses up what `Size[New] + 1`
earlier attempts can leave. The default of 3 attempts is within that for every image; a
longer `--retries` on a very short image is not (under Proofs).

A lost `GO!!` leaves the panel in recovery with the verified image; `push_image` sends it
best effort.

### RxRing

The interrupt preempts the main loop between any two accesses to the indices and
is not itself preempted, so each turn of its loop is one step, and `net_read` and
`net_rx_flush` are split at each access. Bytes are numbered, so order and loss are
visible. `s_rx_overruns` and bytes the hardware drops are counted in `lost`.

### Buttons

One step per call of `buttons_update`, at any spacing up to `MaxGap`, with any raw
levels; `debounce_ms` changes between calls as `config` makes it. The counter wraps
at `ClockMod` (2^32 in the code). `age` is the history that does not wrap: how long
ago the raw level changed. `told` is the level the events tell after the snapshot.

### PanelLoop

A pass is `Poll, Buttons, Read, Take*, Refresh`, with the host's steps in between. A
line is a short sequence of pieces (verb, field, newline), since `find_key` finds each
key by itself wherever it stands: two half-lines that run together parse as one line,
first occurrence first, in the model as in the code. Lengths are counted in pieces. The
host is the one `protocol.h` prescribes: it waits for a hello, and asks for one when
none comes. `owed` and `mixed` are history: the answers due to the present host, and
whether it got another. `clean` says that the edge of the present host was seen before
anything was said to it, with nothing of another host still on the wire. Neither need be
so. A host whose edge was missed, as it came right after another, asks for a hello and
leaves; the hello is answered to the next host, which takes it for its own and begins a
line, and the poll that then sees the edge of this connection flushes that line half
way. And `net_rx_flush` (`Flush`) only moves the tail of the ring: what is on the wire,
in the CH9120 or in the UART's FIFO at that moment (`air`, at most `AirMax` pieces)
survives it, arrives (`Arrive`) at any later moment of the pass, and starts the new
host's first line. `AnswersMatch` and `AllAnswered` speak of hosts with `clean`.
`LinesAssumption`: a line is not empty and its newline is its end.

What a host sent before it left may still arrive after it. `net_read` returns up to
`RxMax` pieces. A ring outside `Renderable` is one whose LED count exceeds the buffer:
it stays dirty, as in the code. `Restart` is a power failure or the return from
recovery; it resets the CH9120 with the panel.

### PanelDriver

The reader is at `connect, recv, replay` or `send`; `held` is the command `_resync`
has read from the cache and not yet sent. A callback writes the cache and then sends:
two steps, as `_sock_lock` covers only the send. `link` is `up`, or `dead` while the
socket is half-open and sends vanish, or `none`. The panel has `edge` to see first on
boards that drive TCPS, and then flushes and greets; on the others the driver asks.
A link that breaks may leave the beginning of a line in `linebuf` (`HalfLine`; `cut`
remembers it). The edge takes it away on boards that drive TCPS; elsewhere the next line
is appended to it and the panel obeys the two as one line or the other, with mixed fields,
or refuses them (`DispatchMerged`; `PanelLoop` has the parse). If that next line was the
request for a hello, which is sent once per connection, no hello comes and nothing is
replayed until the link breaks again: `Ungreeted` names this state, and `Converges` excuses
no other. Without the excuse TLC shows it in nine states. What a broken link left has
arrived when the driver connects again, two seconds later. The timing of keepalive and
liveness timeout is abstracted to a dead link being noticed in the end and a living
one being kept, which is what `LinkWatch` says and `Keepalive` implements. The request
for a hello comes a second after the connection, hence after the edge
(`RequestNotFlushed` of `Keepalive`).

### Keepalive

Time passes in `Tick`s of a quarter of a second; `quiet`, `sincePing` and `age` are the
three differences the loop computes from `time.monotonic()`, saturated where nothing
depends on them any more, and `pass` is how long `recv` has waited. `LookAtClock` is
the whole branch after `socket.timeout`: liveness first, then the ping, then the
request for a hello. A ping is answered within `MaxDelay`, or lost (a pass of the panel
that flushes, a byte overrun), at most `MaxLost` times in a row. A connection is `up`,
`dead` (displaced, cut: sends still succeed) or `none`; on some boards the panel never
sees the edge (`sees`). The request for a hello can be lost as a ping can, or be swallowed
by a half-line, and is not repeated (`missed`). A panel that did not see the edge then
stays ungreeted for the whole connection; `GreetedInTime` excuses that case alone.

`Patience` is what the periods must leave room for; TLC evaluates it for the defaults
(keepalive 2 s, liveness 6 s), where one lost ping is survived. The driver itself
warns only below twice the keepalive period (`panel_node.py`, `__init__`). At exactly
twice, one lost ping already costs the link, because the liveness check comes before
the second ping; `Patience` excludes that.

### NetConfig

`Script` is the fixed sequence of `net_init`, in the DHCP or the static build; `at` is
the place in it and `waiting` whether the answer is awaited. Of a setting it only
counts whether the chip holds `config.h`'s value: `staged` are those received since the
chip started, `stored` those in EEPROM, `active` those in force. The firmware ignores
what `tx_cmd` and `commit` return except for the first command, so every loss is
modelled: the command lost, or taken and its answer lost (`SendLossy`), an answer after
its timeout (`TimeOutEarly`) that is then read as the next command's, garbage while CFG
is high (`Garbage`: a client of a chip that already has a peer, received at the wrong
rate). `EXEC` resets the chip; whether it then runs on what it was sent or on its EEPROM
is left open, and so is whether its acknowledgement still comes. `acked`, `slow`,
`faulty` and `good` are history. Nothing here depends on the other values of the MAC
and the address, which are shortened to two bytes.

The acknowledgement of a command whose answer came late is whatever comes next, and so it
goes on until a flush finds nothing: with the answer to `READ_MAC` late, the bytes of the
MAC are read as the address and the LED blinks one of them. `LedTellsAddress` says what
the light can then show, an octet of the MAC or of the network (`Astray`), 0, or the
address, and that without a late answer it is the address or, after another fault, 0.

### StatusLed, Rings, Ws2812

`StatusLed` has one step per phase change of `status_led_task`, late by any of
`Lateness`; the calls in between change nothing. The reader knows only how long the
light was on and off. Colours are left out, and with them `status_led_solid`.

`Rings` has `rings_set`, `rings_scale`, `rings_pixel_word` and `rings_flush` ring by
ring. `RingsShown` says in its own terms what the latched word has to look like
(`Looks`): each component in its place and within half a step of the colour times the
brightness, so a scale that truncates or a swapped byte is seen. `Ws2812` says what a
chain makes of a frame: it takes it for its own only if the line was silent for the
latch gap, 280 us, before; otherwise the words run on behind the previous frame and off
the end, while `rings_clear_dirty` forgets the frame all the same. The line is silent
only once the PIO's queue has drained, up to 270 us after the push returns. The 300 us
of `rings_hw_push` alone are therefore not enough between two frames for the same chain:
what makes them enough is the `sleep_ms(2)` at the end of a pass, with one frame per
ring and pass (`rings_hw.c:25-28` credits the 300 us). The status LED's own chain has
one such place, `status_led_init`'s off frame and the blue of the boot: 300 us of sleep
after one pixel of 30 us leave 270 us (`status_led.c:43` says at least 280).

### Startup

The stages `rings` (dark before the network), `net`, `loop` and `recovery`. `Reset` comes
at any moment, and leads to the app again or to recovery, which attaches to the CH9120 as
it finds it; the chip and the LEDs keep their power. Lines and buttons are `PanelLoop`'s
subject; colour commands arrive here as `Set`. What is confirmed by `ota_confirm` is
`Bootloader`'s subject; here, whether it is called. A remark on `docs/OTA.md:97`:
it says an image that cannot network is never confirmed. The code confirms
on the acknowledgement of the first command alone; a chip that answers, whose remaining
settings got lost, confirms the image all the same. That is why `CleanStartWorks` speaks
of starts without a fault.

## Runs

| Run | Shows |
|---|---|
| `boot_state` | record survives, never rolls back, store is a durable register |
| `bootloader` | whole images only, starts counted, confirmation earned, a hanging image falls back to recovery |
| `transfer` | "verified" means installed, or, after a RESET within the push, nothing installed; no bounce back; with fewer faults than attempts the flash succeeds; implements `Bootloader` |
| `rx_ring` | order, accounting, bounded FIFO, a flush empties the ring, nothing stays in the buffers for ever |
| `buttons` | events tell every flip, no bounce, no delay across the wrap of the counter, implements `ButtonStream` |
| `panel_loop` | a host whose edge was seen with nothing else on the wire gets all its answers and no other; host's view of the buttons; LEDs |
| `driver` | desired state and button states converge over links broken within a line, restarts and both kinds of board, unless the one hello request was swallowed |
| `keepalive` | slow panels keep their connection, dead links are given up in time, every panel greets soon or was asked in vain; implements `LinkWatch` |
| `startup` | a configured CH9120 stays so, confirmations are earned, the LED tells the address (or, after late answers, an octet of another), rings show what was commanded, `net_init` ends |
| `unrecoverable`, `resync_race`, `half_line` | the code does not do what a comment or document says (below) |

Type invariants that are proved (`TypeCorrect` and `TransferTypeCorrect` of the proof
modules) are for the most part not repeated in the runs, nor is `StreamMatches`, which is
proved and which `ImplementsStream` implies; `driver` and `startup` check theirs, the
latter because it bounds the bytes under way by the faults.

### Bounds

- `boot_state`: `SeqLimit` 6, two payloads. Each sector is rewritten three times,
  with a power failure possible at every point of every write.
- `bootloader`: slot of 3 chunks, 2 chunks per sector, so a sector boundary falls
  inside an image and the last sector is cut by the slot's end; a healthy image
  of 3 chunks and a hanging one of 2, so images overlap and one is shorter.
  `MaxAttempts` is the code's 3. Commands and power failures are not bounded.
- `transfer`: 4 faults, 5 attempts, 2 chunks: enough for a stale frame, its answer's
  loss, a RESET and a retry to meet in one behaviour, with one attempt past
  `FewAttempts`. The theorems have no bound on faults.
- `rx_ring`: ring of 4, FIFO of 2, 6 bytes: the indices wrap, both buffers fill.
- `buttons`: 2 buttons and room for one event, so a due button waits; windows of 1
  and 3 on a counter modulo 8, sampled 0 to 2 apart. The number of samples is not
  bounded. `ClockAssumption` (a window and a gap fit the counter) is what 1000 ms
  against 2^32 ms gives many times over; a button that waits for room needs one
  more gap, which the run's constants leave too.
- `panel_loop`: two connections of two lines each, a line buffer of 3 pieces, reads of 2
  and one piece on the wire; lines that are partial updates, out of range, overlong, and
  the trigger; one button, two rings of which one cannot be rendered. A connection can
  leave at every piece, and another come before the next poll. Restarts are not
  bounded. `half_line` has the same constants but for TCPS.
- `keepalive`: the driver's defaults in quarters of a second (`recv` 0.5 s, keepalive 2 s,
  liveness 6 s, reconnect 2 s, a second before the hello is asked for), answers and edges
  within 0.75 s, one lost ping. Connections and breaks are not bounded; the differences
  saturate past the longest period.
- `startup`: 2 faults and 1 reset, so a chip can be left half configured, reset, and meet
  another fault; both builds, with and without a chip, blank or configured. Bytes late by
  less than the 100 ms between `exit_config` and `enter_config`. Octets 3 and 102: one
  digit and three, with a zero inside; calls of `status_led_task` late by 0 or 200 ms, the
  reader's thresholds leaving no more. Two rings of 16 and 4 LEDs, one longer and one
  shorter than the queue; commands that are partial, out of range, and change the
  brightness. To keep faults and colours from multiplying, commands come only in starts
  without a fault, which are nothing to the rings; a pass with nothing to push is left out.
- `driver`: two targets (a ring and the lamp; the code replays them one after the
  other, in order), two commands, two faults, one flip of the button: enough for a
  command in each phase of a connection that breaks, or a panel that restarts, before
  its replay is through. `Overlap` is FALSE: a callback never replaces the very
  command the reader holds. `resync_race` sets it TRUE and shows what happens then.

### Fairness

`FairSpec` of the boot chain assumes that the processor runs and that somebody
presses RESET on a stuck panel; nothing in the firmware does. `TransferFairSpec`
assumes the panel processes what arrives, the host program runs, and the same
RESET. No fault is ever required to happen. `RxRing`'s `FairSpec` assumes the
interrupt is served (level and receive-timeout interrupts are both enabled) and
the main loop calls `net_read` again and again, as it does on every pass.
`Buttons`' assumes that samples go on and time passes between them. `PanelLoop`'s
assumes that the super-loop runs (no step of it waits), that what the host has begun
to send arrives, and that the watchdog fires once it is armed. Hosts need never
connect, and `AllAnswered` excuses a host that leaves. `PanelDriver`'s assumes that
both threads and the panel's loop run (a lock is never held across a wait for the
other thread), and that a connection attempt succeeds in the end. `Keepalive`'s assumes
the same of the reader thread, and that time passes. `Startup`'s assumes that the
processor runs, that bytes on their way arrive, and that the loop calls
`status_led_task` in every pass (strongly fair: the step is enabled only at the
beginning of a pass); nothing is assumed of the CH9120.

## What the violated properties show

- `AlwaysRecoverable` (code): `END!` without
  `BEGN` verifies the empty image, since `ota_crc32` of nothing is 0 and so is
  `app_crc`. The resulting record has length 0, which makes the CRC re-check of
  `decide_boot_app` vacuous. Once the running app has confirmed it, an update cut
  short by a power failure leaves a half-written slot that is started at every reset
  and hangs, and nothing leads back to recovery. It takes an END after a restart of
  the RP2040, which is what RESET during a transfer gives.
- `Converges` with `Overlap` (code): `_resync` reads a command, a callback replaces and
  sends it, and `_resync` sends the older one (`panel_node.py:274`). Cache and panel
  then differ until the next hello (`panel_node.py:21`).
- `HalfLinesDropped` (code): on a board whose CH9120 never asserts TCPS
  (`protocol.h:21-30`) no edge is seen, so the half-line of one host is prefixed to the
  hello request of the next (`main.c:239`, `docs/DESIGN.md:147-148`). In TLC's trace the
  first host leaves in the middle of a trigger, and the second one's request for a hello
  completes it: `find_key` finds `ota` first.

More divergences are known and have no run of their own; the properties named say what
holds instead.

- Without a boot record the vector table alone decides, so an interrupted first update,
  whose first chunk brings the vector table, is started (`bootloader/main.c:83`, against
  `docs/OTA.md:94-95`); a board that was provisioned with a record is safe
  (`BootsOnlyWholeImages`).
- RESET within a push makes the flasher report a verified image over a record of length 0
  (`recovery.c:168`, `ota_flash.py:202`; `DoneMeansInstalled`).
- More attempts than `FewAttempts` can take an old `DONE` for the new one
  (`ota_flash.py:47-66`; `DoneMeansInstalled`). The default of 3 is not affected.
- Once the interrupt is enabled `net_rx_flush` empties the ring and leaves the UART's FIFO,
  whose bytes are delivered afterwards (`net.c:291`, against "RX ring + UART FIFO",
  `net.h:47-48`), and with them what is still on the wire (`FlushEmptiesRing`,
  `AnswersMatch`).
- A half-line can swallow the driver's one request for a hello on a board without TCPS, and
  nothing is replayed on that connection (`panel_node.py:184-187`, against
  `panel_node.py:20-21`; `Converges`, `GreetedInTime`).
- A late answer of the CH9120 is taken for the next command's (`net.c:115`; the results of
  `net.c:224-225` are not looked at), so that the LED may blink an octet of the MAC or the
  network (against `status_led.h:4-9`; `LedTellsAddress`).

## Proofs

All theorems hold for every value of the constants that satisfies the named
assumptions; those assumptions are evaluated by TLC in the runs.

- **BootState_proof**. Inductive invariant `TypeOK /\ NewestSurvives`: while a write
  is in progress the sector that is not being written is the newest, and older than
  the record on its way. `NewestSurvives` is inductive with the types; roll-back and
  the refinement of `AtomicRecord` follow from it action by action.
- **OtaTransfer_proof**, boot chain. Inductive invariant `TypeOK /\ VerifiedSlot`: from
  the decision to jump until the next reset, the slot matches the record. The record's
  CRC field is always that of some image, of nothing, or matches no contents, so a
  matching slot of nonzero length is a whole image (`MatchingSlotIsWhole`).
  `StartsAreCounted` is inductive beside it; `ConfirmedIsHealthy` needs that an
  image that comes up is the one the record describes.
- **OtaTransfer_proof**, transfer. That the bridge holds frames is inductive together
  with the range of the host's counters (`UpOK`, `HostOK`); with it every step of the
  protocol is a step of `Bootloader` or leaves it alone, so the theorems above carry
  over to every transfer.
- **OtaTransfer_proof**, verdict. No answer says which attempt it belongs to, so the
  proof keeps a ledger (`Ledger`). Lay out what is still to come to the host in the
  order it will come: the tokens on their way, the OKER an erasing will send, then the
  frames whose answers are still to be given. Label each place with the number of
  answers to pushes up to it; until the push has begun, those with no greeting before
  them are left out, as the host skips them while it waits for BLOK. Labels rise along
  the way at every answer that counts; none exceeds what the host may still be owed,
  that is, what earlier attempts left and this one asked for; and an old verdict's label
  is at most `Stale`, which falls by one with each answer the push reads. A fault thins
  the way or adds one place that no label counts, a failed attempt adds one to what is
  owed, and RESET takes at most the frame being served. With `FewAttempts` `Stale` is at
  most 0 when END is sent (`NoVerdictLeft`), so the verdict the host reads is on this
  END. That the panel then serves this image, or has served none since a RESET, is
  `ServingOK`; `VerdictOK` and `FinishedOK` carry it through the verdict and past
  `GO!!`. `Sound` is the conjunction, inductive through every fault, and gives
  `VerifiedMeansInstalled` and `NoTriggerLeft` without any hypothesis. `FewAttempts` is
  not an artefact: on an image of one chunk, where it allows 3 attempts, a fourth can
  read an old `DONE` after five faults.
- **RxRing_proof**. Index arithmetic first (what `Succ` does to the number of bytes
  and to the place of each); then the invariant that along hardware FIFO, ring and
  main loop the numbers fall, with the byte between the two statements of `net_read`
  in both; what was in the ring at a flush lies below `ringMark`. `RefinesFifo` reads the
  ring's slots as a sequence (`Queued`): a turn of the interrupt appends to it or leaves it
  alone, freeing a slot takes its head, and the end of a flush drops what lay before the
  head that was read, whatever the interrupt has added since.
- **Buttons_proof**, for every number of buttons, counter width, set of windows and
  room for events. Cardinalities first: reported buttons stand at different places
  among the due ones, which bounds the buffer, and room for all means that all are
  reported. Then the clock: with `ClockAssumption`, the wrapped difference never
  exceeds the true age, so nothing unsteady is reported (`FlipsAreSteady`, any room);
  where there is room for every button, a level still waiting has a difference
  equal to its age, so nothing is late (`ReportsPromptly`). `told = stable` is
  inductive with the types, and gives the refinement of `ButtonStream`.
- **PanelLoop_proof**, for every set of lines (`LinesAssumption`), every buffer size,
  and TCPS working or not. That the five streams are sequences of pieces is inductive
  and makes the length of the line buffer so. `ViewMatches` holds because a hello copies
  the panel's states and an event line makes to the view what the flip makes to the
  panel; `LedsMatch` because a command that changes a colour marks the ring and only a
  rendered frame takes the mark away. `AnswersMatch` needs to know what is on its way:
  `Pending` cuts everything between the host and the line buffer at newlines into whole
  lines (`Cuts`), whose answers are those the host is due, in order, with the line
  buffer the beginning of the first one, or nothing of it while it is being skipped,
  when its answer has been given. `clean` starts this off with nothing on the wire
  (`CleanOK`): the flush empties the ring and the poll the line buffer. Reading a
  buffer's worth, taking a piece, an overlong line and a line sent each move the cuts
  and nothing else.
- **PanelDriver_proof**, for any targets, commands, faults and restarts. Types first, in
  parts that the steps disturb separately. `SettledPublishes`: on a live link the last
  of hello and events on their way, or else the topic, holds the button's state
  (`TellsButton`). `SettledShows`: for every target the last line under way, or else
  what the panel shows, is the cached command, unless a replay has still to come to it
  or a callback is about to send it (`CommandsLand`). A half-line can swallow a command
  only before a hello has come (`HalfOK`), and the replay that follows the hello sends
  it again. It also needs that both threads send what the cache holds (`SendsCache`),
  which is exactly what `Overlap` breaks: the theorem assumes it away, and `resync_race`
  shows what happens otherwise.
- **Keepalive_proof**, for every choice of periods with `Patience` and `EdgeIsQuick`. A
  ladder: a link is quiet no longer than the last ping allows, that is, after `lost`
  lost pings since anything was received the silence is at most `lost + 1` keepalive
  periods and passes, plus what a pending answer still has left. `Patience` puts the top
  of the ladder below the liveness timeout, so `GiveUp` finds only dead links. A request
  is made at `Grace` at the earliest, when a quick edge has come, and its hello takes
  `MaxDelay`; a panel that saw the edge owes a hello in any case (`GreetOK`).
  `RefinesLinkWatch` is the safety part of the refinement.
- **Startup_proof**, for any number and size of rings, any colours, any bound on faults
  and resets. `RingsShown` needs that every ring whose turn is still to come in this
  pass is at most 20 us from silence, which the 300 us of its own push turn into the
  latch gap (`QuietAhead`): this is where the 2 ms of the loop enter. Pixel words are
  shown to be 24 bits from `Scale` being a byte, to come apart into their three bytes
  again (`WordComesApart`), and each byte to be the nearest (`ScaleIsNear`): a latched
  word looks like its colour (`PixelLooks`). `StaysConfigured`: once right, staged,
  stored and active settings agree, and from there no command can tell them apart
  (`ChipKept`); that a faultless `net_init` gets there is read off the script, command
  by command (`Obeyed`). `ConfirmedIsAnswered` and `CleanStartWorks` follow from what
  the FIFO can hold while MODE is asked (`ModeAnswer`): its acknowledgement or nothing,
  as `enter_config` flushes and no garbage comes with CFG low. `LedTellsAddress` has two
  halves. As long as no answer is late, FIFO and wire together hold the answer to the
  command awaited, or nothing if it got lost (`InStep`), so what is read as the address
  is the address (`AddressRead`); and the reader's count and digits follow the machine's
  phase by phase (`Pulsing`, `Paused`, `Resting`), since no lateness blurs a pulse or a
  pause (`Timings`, from `LatenessAssumption`). Where answers are late, the flush of
  `enter_config` before the two questions leaves nothing but their answers under way,
  and of these the address is made (`LateInv`). `TypeOK` bounds the bytes under way by
  two for each answer given up on and those of the one awaited (`BytesOK`).

Only model-checked: the liveness properties `HungImageFallsBack`, `FlashSucceeds`,
`NothingStuck`, `HeldIsReported`, `AllAnswered`, `Converges`, `AddressShown`, and the
liveness part of `ImplementsLinkWatch`; fairness and ENABLED are out of the prover's
reach. Every other invariant and action property of the passing runs is a theorem, some
under a named condition: `SettledShows` without `Overlap`, `Prompt` with room for every
button.

## Not modelled, and the plan

All parts of the firmware with state of their own, the flasher and the driver are
modelled, and what the runs check short of liveness is proved. What is left:

1. An abstract panel for `PanelDriver` (greets, answers, restarts), which `PanelLoop`
   is shown to implement, so that the two need not be compared by eye.
2. For liveness, the safety halves of the arguments (measures that fall), which the
   prover can check although it cannot conclude from them.

Left out for good: byte-level parsing of JSON and formatting (no property is about
them), peripheral register setup, linker scripts, provisioning (its results are the
initial states of `BootState` and `Bootloader`), the self-test build that cycles colours
without a network, and the interactive host tools and examples. `mock_panel_server.py` is a
test double of the panel; it is not the program.
