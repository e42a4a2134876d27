# drdro-mainboard: formal models

TLA+ models of the drdro mainboard: an STM32F4 board for a digital readout and
servo drive (`firmware/`, C, FreeRTOS, plus a separately flashed bootloader) and
the host program that drives it (`software/dro`, Python).  Paths below are
relative to `src/`; "app" is `firmware/app/src`, "bl" is
`firmware/bootloader/src`, "shared" is `firmware/shared`, "host" is
`software/dro`.

    tlc -workers 2 -config SettingsStore.cfg SettingsStore      # one run
    tlapm SettingsStoreProofs.tla                               # the proofs

`PROJECT.json` lists the runs, the property each mutant breaks, the source lines
behind every definition, the hazards and the findings.


## 1. The system

### 1.1 Inventory

| component | state it keeps | operations | talks to |
|---|---|---|---|
| **Settings store** (shared/Settings.h, app SettingsStore.c, bl flash.c) | two flash sectors, each one image with CRC, used size and sequence number | load (pick the newest valid), save (prepare, erase the inactive sector, program, lock) | written by both binaries; read by everything |
| **Bootloader** (bl main.c, bl_cli.c, flash.c) | Exec region, two banks, BOOT_FLAG, `active_bank`, `loaded_bank`, `boot_mode`, `bank_crc` | boot path, copy of a bank into Exec, CLI: `bank boot.mode flash erase copy boot rollback reset` | settings store; YMODEM; starts the application |
| **Dual-bank commands of the application** (app Protocol.c, SettingsStore.c) | the same settings | `save`, `bank`, `rollback`, `update`, `reset` | settings store; the bootloader through a reset and BOOT_FLAG |
| **Network firmware update** (app FwUpdate.c) | session state, running CRC, counters, flash cursor, data socket, thread flag | `fw.begin`, `fw.abort`, `fw.commit`; the receiver `fwTask` | data socket of the W5500, flash controller, settings store; tools/dro_update.py |
| **YMODEM** (bl ymodem.c; host ymodem.py, dro_update.py) | block number, bytes left, retry counters | header, blocks, EOT, cancel | UART; a bank |
| **Line protocol** (app Protocol.c, NetCli.c) | registry of 60-odd parameters, line buffer and repeat line per transport, one mutex | `get set list save load reset ...` | everything above; RS-485 and TCP |
| **RS-485 UART** (app usart.c) | DE pin, TX-done semaphore, 512-byte DMA ring and tail | blocking print, send, receive, error restart | line protocol, NetTask |
| **Motion core** (app Ramps.c, Scales.c, tim.c) | servo mode, desired and current steps, remainders, encoder deltas, speed, `servoCycles` | two ISRs (scale sampling and step generation), three tasks | line protocol through shared variables |
| **Network bring-up** (app Net.c) | link, lease, PHY mode, watchdog and back-off counters | the NetTask loop | W5500, NetCli, DebugPrint on the UART |
| **Inputs and outputs** (app Din.c, Aout.c) | debounce integrators | poll | line protocol |
| **Link client** (host protocol_client.py, tcp_transport.py) | request lock, error count, transport | command with retries | the board |
| **Board object** (host board.py) | connected, paused, settings cache, write queue, debounced save | poll, write, pause/resume, reconfigure | link client, dispatchers |
| **Servo, input, axis dispatchers** (host servo.py, input.py, axis.py, els.py) | commanded and reported mode, positions | UI callbacks, poll results | board object |
| **Recovery updater** (host updater.py, firmware_apply.py) | progress | backup, flash, select, boot, restore | bootloader CLI, YMODEM |
| **Stack update** (host stack_update.py, pending_update.py, release.py) | staged files, marker file, installed wheel | stage, mark, install, reboot, flash, retry | recovery or network updater |
| **Host configuration** (host saving_dispatcher.py) | one YAML file per object | read, rewrite | dispatchers |
| discovery, UI, release tooling, start-up code, FreeRTOS / ioLibrary / HAL | - | - | - |

### 1.2 How the parts meet, and where it is hard

*Flash is shared three ways.*  Settings, banks and Exec live in the same flash,
behind one controller with one lock bit.  In the bootloader one thread uses it.
In the application `save`, `bank`, `rollback` and `fw.commit` use it from the
command task (under the protocol mutex), and `fwTask` uses it without that
mutex.  Both tasks have priority `osPriorityNormal` and are time-sliced.

*Power may go at any time.*  The settings sectors are written in turn; a bank is
written before it is recorded; the copy into Exec erases the running image
first.  Recovery is one path: the reset vector of the bootloader.

*Two binaries, two ages.*  The bootloader is flashed once and stays; the
application is updated.  Both read and write the same settings struct, which
has grown and will grow.

*One request at a time, two wires.*  RS-485 and TCP feed one parser under one
mutex; a transmit holds that mutex until it completes.

*Interrupts and tasks share words.*  The motion ISRs run against tasks that set
the mode and the step rate with plain stores.

*The host times out.*  Requests are repeated, answers can be late, the poll and
the UI write the same state.

`PROJECT.json` lists 40 hazards, each at its line, with the properties that
would catch it going wrong.  Six have none, and say why; the notes of others say
which of their cases the properties leave out (section 4).

### 1.3 What makes each component correct

* settings store: a save is atomic under any crash or flash error; what one
  binary writes the other can read and does not lose; the order of two sectors
  is right across the wrap of the sequence number.
* boot path: no half-copied or half-received image runs; a power cycle always
  ends in a whole image; the image committed last is the one that gets to run.
* network update: `done` means the bank holds the announced image; only whole
  images are committed; the CRC recorded is that of the bank; each session ends;
  a save beside it does no harm.
* YMODEM: a transfer that reports success delivered every byte once, in order,
  whatever was lost on the line; both sides always end.
* line protocol and UART: no answer is interleaved with another; one stuck peer
  does not stop the other transport for ever; input is neither lost nor repeated
  by the ring.
* motion core: encoder counts are neither lost nor taken twice across a wrap or
  a ratio change; an index move ends at its target; a disabled servo stays
  disabled.
* network bring-up: whenever the cable works for long enough, the board gets an
  address (not modelled).
* host client, board, servo: an answer is matched to its own request; a command
  with side effects is not applied twice; cache and board agree after a
  reconnection; the last setting written is saved; commanded and reported mode
  converge.
* stack update: after a crash at any step, the next start finishes the update or
  leaves the old stack.


## 2. The modules

| module | models | refines / used by |
|---|---|---|
| `DurableSettings` | what the store promises: one durable value, saves that take effect entirely or not at all | abstract specification |
| `SettingsStore` | the two-sector store as both binaries write it, one word at a time | implements `DurableSettings` (`AtomicDurable`) |
| `DualBank` | bootloader, Exec, banks, and the commands of the application that touch them | takes settings saves as atomic, which `StoreIsAtomic` justifies |
| `FwUpdate` | `fwTask` against the command task, step by step | details the update session that `DualBank` has chunk by chunk |
| `Ramps` | the motion interrupt, its two tasks, and the host's writes | - |
| `Console` | the command line on RS-485 and TCP, the UART and the socket under it | - |
| `HostBoard` | the host's Board over ProtocolClient, and the wire | - |
| `Ymodem` | sender and receiver of a transfer over a line with faults | extended by `StackUpdate` |
| `StackUpdate` | the update of software and firmware together, with a restart in between | uses `Ymodem` for the flash; has of `DualBank` what the bootloader decides by |
| `SettingsStoreProofs`, `DualBankProofs`, `FwUpdateProofs`, `RampsProofs`, `ConsoleProofs`, `StackUpdateProofs`, `HostBoardProofs` | the theorems about the module of that name (`StackUpdateProofs`: about `Ymodem` too), section 5 | extend it |
| `HostBoardLemmas` | the inductive invariant of `HostBoard`, and what a change of one client or one coroutine does to it | extended by `HostBoardProofs` |

`MC*` modules hold the values a `.cfg` cannot write, and nothing else.  Several
modules have a constant `Uses` (in `Ramps`, `Sessions`): a set of records, each
the bounds of one way to use the system - how many writes, losses, crashes, and
which commands.  Init picks one, so that one run covers ways of use whose product
would be out of reach, and a property can say under which use it holds.

### 2.1 SettingsStore

State: `slot` (the two sectors), `running` (which binary), and the write in
progress: `pc`, `buf` (the sealed struct), `target`, `next` (word to program),
`rc` (result of the last finished save).

An image is a function from six word positions to words: CRC, header
(`used_size`, with the magic), sequence number, the board-control core
(`active_bank`, `loaded_bank`, `boot_mode`, `bank_crc`), the application's
payload, and the fields a later firmware appended.  The code tells no more words
apart.  A CRC word is the tuple of words it covers, so CRC collisions are left
out.  The words past a shorter struct are never programmed.

| action | code |
|---|---|
| `SettingsSave`, `SettingsSetCore` | app SettingsStore.c: `SettingsSave`; `SettingsCommitBank`, `SettingsBankSet`: load, change own fields, `settings_prepare` |
| `flash_write_settings` | bl flash.c, all writers of the bootloader |
| `EraseOk`, `EraseFail`, `ProgramWord`, `ProgramFail`, `ReturnOk` | `write_slot`: erase, program and read back word by word, lock |
| `BootApp`, `Crash` | control moves to the application; power loss or reset at any step |

`CutErase` and `CutWord` list what an erase or a program that is cut short leaves
behind: nothing done, something unreadable, or all of it done.

### 2.2 DualBank

State: `exec`, `bank`, the settings `set`, `bootflag`, `pc` (who runs: `reset`,
`copy`, `cli`, `ymodem`, `app`, `hung`), the bootloader's flash job `job`, the
application's session `fw`, and the history that the properties speak of:
`origin` (how Exec was last filled), `due` (the image the next start must run),
`races` (how many updates were begun while a chunk of an aborted one was being fed)
and `short` (a YMODEM transfer completed before the end of its image).

A region of 128 KB is its first chunk, with the vector table, and the rest:
the least that tells apart what the code looks at (the vectors) from what it does
not.  Programming goes from offset 0 up, so the head comes first.  A region's CRC
is its content.

`BlMain`, `bl_boot_app`, `CopyStep`, `CopyFail` and `CopyDone` are the boot path;
`cmd_*` and `Ymodem*` the command line; `FwUpdateBegin`, `FwFeed`, `FwFinish`,
`FwFail`, `FwUpdateAbort`, `FeedStale`, `FeedRaced`, `FwUpdateCommit`,
`SettingsBankSet`, `cmdRollback` and the rest are the application; `Crash` is a
power loss or an unexpected reset in any state.  `Save` has three outcomes: success,
an error without effect, an error with effect - those of `DurableSettings`.

A use is the set of commands people send, the images that look plausible, and
whether both banks were committed before: `"fw"` is an update as
`tools/dro_update.py` does it (to the bank that is not active, then a restart),
`"fw.any"` its `--bank` option, `"fw.again"` a second update before the restart.
The properties named `Field...` speak of boards used by the application's
commands alone, provisioned, or updated only by the tool.  `MCDualBank` has five uses,
which split the commands so that each group is within TLC's reach (aborts, which
multiply the states, come with the commands they matter to); the theorems are about
all commands together.

The update session goes chunk by chunk.  A `fw.abort` falls between two chunks or
inside one; then the session is `stale` until the receiver is through with the chunk
(`FeedStale`: the chunk is written in whole or in part, or completes the aborted
session after all).  A `fw.begin` in that window counts as a race, and `FeedRaced`
lets the rest of the chunk do to the new session what `FwUpdate` has in detail:
close it with the old one's result, or take the place of its head and shift all that
follows, so that the stream's CRC is right and the bank's content is not.  `Restart`
and `Crash` may cut a chunk short too.

A YMODEM transfer may end at the last byte or short of it (`YmodemDone`): nobody
compares the announced size, and the CRC of whatever is in the bank is recorded if
its vectors are sane.

### 2.3 FwUpdate

State: `s` (the statics of FwUpdate.c), `bank`, `locked` (the flash controller),
`sock`, `armed` (the thread flag), `task` and `cli` (program counter and locals
of the two tasks) and `recorded` (`bank_crc` in the settings).

Each access to something both tasks share is a step of its own: the
state is tested (`Loop`), the socket is polled and read (`Poll`, `Receive`), the
running CRC is read in one step and stored in another (`Feed`, `StoreCrc`), the
flash address is computed before the erase and the program (`Write`,
`fwEraseSector`, `MarkErased`, `Program`, `Advance`).  The command task's
handlers are cut up likewise (`Begin` ... `BeginFlag`, `Abort` ...
`SessionIdle`, `Commit`, `Save`, `WriteSlot*`).  What FwUpdate.c gets from the
network is the environment: the host's stream is right, wrong, too short or cut,
and closes or stays open.  `raced` remembers that a `fw.begin` found the receiver
inside a chunk.

Left out: the carry of up to three bytes between chunks (`sPend`) and the final
padding - each receive delivers whole chunks; the vectors check in `fw.commit`
and the CRC of the bank are one step, since nothing else programs the bank of a
session that is done.  `write_slot` is one flash operation, which
`SettingsStore` has in detail.

### 2.4 Ramps

State: the encoder counters and the follower of each scale (`counter`, `scale`),
the servo's positions and speeds (`servo`), `mode`, step generation (`step`,
`pins`) and where `servoEnableTask` is (`enable`).  `Tick` is the whole
`SynchroRefreshTimerIsr`: nothing preempts it.  `SpeedTask` is one pass of
`updateSpeedTask`; `servoEnableTask` is cut where it tests the mode, writes it,
and drives ENA.  `Set...` are the host's writes, at any point between.

Positions and step counts wrap at their width, and a remainder is a bounded
integer.  `drift` is what the followers should have moved less what they did;
`touched` excuses a denominator or position rewritten since the last tick, where
the code makes a burst by design.  Integers stand for the floats of the ramps.
On this core a division by zero gives 0 and `x % 0` is `x`, and that is what the
model does with `servoCycles = 0`.  Left out: the displayed speeds, the LED task,
the measured `executionInterval` (nominal here).  Known and allowed by the
properties: a negative `servo.max` during a ramp runs away; a jog faster than
`servo.max` builds up a backlog; steps come up to 100 ms before ENA; on a forward
move out of standstill, and after `dout`, DIR moves in the slot of STEP (`dirFree`).

### 2.5 Console

State: the DMA ring with both its ends (`rx`), USART1 (`uart`: the HAL's state,
DE, the TX-done semaphore), the socket (`sock`), and of each port its line
assembly (`asm`) and its task (`task`), with the one mutex and `sAction` between
them.  `peer` is the host at each port, `net` is NetTask inside `DebugPrint`.

| action | code |
|---|---|
| `Drain`, `Copy`, `LineError` | app usart.c `Rs485RxDrain` reads the head, then copies; `HAL_UART_ErrorCallback` may come in between |
| `CloseUnleased`, `Listen`, `Recv`, `CloseWait`, `Closed` | one pass of `netCliTask`, by lease and socket status |
| `FeedByte`, `ChunkDone` | `ProtocolFeedByte`, `feedByte`: CR, LF, CR LF, blank lines |
| `Lock`, `Dispatch` (`Command`, `Repeat`, `Refuse`), `Finish`, `Handoff` | `ProtocolProcessLine` and what its caller does with the action |
| `AssertDe`, `TransmitIt`, `Transmitted`, `TxCplt` | `Rs485Send` and the TC interrupt |
| `Send`, `Drop`, `Deadline` | `tcpFlush` |
| `Report`, `PrintStarts`, `PrintEnds` | NetTask: a change of the lease and its `DebugPrint` |

A byte is a whole command body or a terminator; what a command does is in the
modules of the parts it changes, here it is counted in `ran`.  Two bodies in one
line have a wrong checksum: the host sends one with every request.  `disconnect`
is taken to end, as the chip's time-out makes it.

### 2.6 HostBoard

State: the clients made so far (transport, lock queue, jobs of the worker, error
count), what is on the wire of each, where each coroutine is (`task`), `host`
(Board) and `device` (the settings in RAM and in flash).  One action of a
coroutine is what it does between two awaits; the worker's steps, and the
wire's, fall anywhere between.  `Command` is `ProtocolClient.command` up to its
first await, `After` what the awaiting coroutine does with the answer:
`poll_once`, the diagnostics and the settings, a write, the debounced save and
its cancellation, the updater's pause and resume, a new connection.  `Attempt`,
`Retry`, `Answered`, `TimedOut` and `Broken` are `_transact`.

A write is known by its place in `Writers`, and `device` holds the places of the
last write in RAM and of the last one saved.  Five history variables say what
happened on the way: `failed`, `pulled`, `overtaken`, `crossed` and `revived`
(section 4 explains the last four).

### 2.7 Ymodem and StackUpdate

`Ymodem`: `snd` and `rcv` are the two state machines, `up` and `down` the packets
and answers under way.  A data block that erases outlasts the sender's time-out
if a fault makes it: the UART is polled, so what is sent meanwhile is overrun.
Packets are lost or garbled, answers are lost, programming fails; `MaxFaults`
bounds all of it together.

A garbled packet keeps its first byte (`Bad`: it is read to its end and answered
with one NAK) or does not (`Stray`: `recv_packet` returns after one byte, and each
byte that follows is taken for the first of a packet).  `Misread` is such a byte: a
NAK for each that means nothing, a packet that begins in the middle of this one and
swallows what follows (`Within`), CAN, which cancels, or EOT, and a second one
completes the transfer.  `SecondLost` is a packet behind the first EOT: its first byte
is eaten by the wait for the second, the rest is `Stray`.  In the handshake each byte
draws a `C` (`HelloMisread`).  Such misreadings are counted in `adrift`, up to
`MaxDrifts`, and are not paid for by faults: one garbled byte may have many.

Left out: the wrap of the block number; an answer garbled into another answer, and
bytes on the line that nobody sent; a packet begun in the wrong place whose 16-bit
CRC is right by chance; a transfer whose first packet is not the header; what the
bootloader's command line makes of bytes left over from a transfer.

`StackUpdate`: `disk` is what survives the host's crashes (software, staged image,
marker); `apply` is the update of the user interface, `pend` the
PendingUpdateController after the restart, `board` what the bootloader decides
by.  `Apply` steps through prepare, copy, marker, install; `Pending` through the
probe, `update`, `info`, the transfer, `bank`, `boot` and `clear_pending`.
While the board receives it knows by itself the bank it writes (`board.into`), so
a transfer goes on, to its end or its failure, when the host has crashed under
it.  A crash of the host falls between any two steps.  A command of the bootloader may go
unanswered: `_cli` then returns an empty answer.  Left out: the backup and
restore of settings around the flash, the version read-back, downloads.


## 3. The runs

| run | asks | bounds | states |
|---|---|---|---|
| `settings_store` | is the store atomic, with a bootloader whose struct is shorter? | 2 values of each field, counter modulo 4, sizes 5 and 6 | 208 thousand |
| `dualbank_ota` | factory board, updates as the tool does them | 2 images, 2 power losses | 2 thousand |
| `dualbank` | the application's commands in any order; aborts inside a chunk; the bootloader's commands, with images with bad vectors and short transfers, or with two committed banks; the tool's | 2 images, 1 power loss, 1 flash error, 1 race | 2.0 million |
| `dualbank_recommit` | is a committed image activated, if the board was not restarted since the commit before? | no fault | violated |
| `fwupdate` | sessions beside `save`, and beside `fw.abort` at any step | 2 images of 2 chunks and `save`, or 1 image and aborts; bank of 3 | 568 thousand |
| `fwupdate_abort_torn` | does `fw.commit` refuse what was torn by an abort? | 2 images, bank of 3 | violated |
| `ramps` | followers, index moves, jogs, reversals and forced pins over wrapping counters | 1 scale, counters modulo 4, 2 or 3 writes per session | 129 thousand |
| `console` | both ports at once, with prints, noise and lost peers | per use: 1 line each, 2 lines on one port; ring of 4; 2 connections | 441 thousand |
| `host` | poll, writes, save, update and reconnection over a faulty link | 2 writes, 2 attempts, 2 losses or cuts, 1 new connection | 365 thousand |
| `host_poll_dies` | does the poll loop survive whatever happens to its transport? | same | violated |
| `update` | software and firmware updated together | 2 releases, 1 crash, 2 faults of the line, 2 misread bytes; 2 updates, or 1 with a failing installation and an unanswered command | 866 thousand |
| `update_restaged` | does a marker always name a whole image? | same | violated |

### Why the bounds are enough

*SettingsStore* bounds nothing in the number of saves, crashes or flash errors:
the sequence number is taken modulo 4 and wraps, and the state space is finite
because of that.  Four is the least modulus with which two consecutive numbers
can be told from two opposite ones; the wrap of the 32-bit counter happens every
four writes.  Two values for each field tell a field that was carried over from
one that was not.  The theorems of section 5 hold for every modulus from 4 up and
every set of values.

*DualBank* needs two images to tell old from new.  `MaxCrashes` and `MaxErrors`
bound faults, not commands: users go on for ever.  One fault of each kind
followed by any sequence of commands is what the properties distinguish, and so is
one race (`MaxRaces`): the first ends what they claim.  The run with two power losses shows that a copy cut short is taken up again when it
is cut short again.  `MaxErrors` in `dualbank_ota` is 0 because one flash error
does break `RunsWhatIsDue`: `bl_boot_app` (bl main.c:243) ignores the result of
recording `loaded_bank`, so the settings keep naming the bank loaded before, and
the next update goes to exactly that bank and is not copied.

*FwUpdate* has images of two chunks: one that erases the sector and holds the
vectors, one that finishes.  A bank longer than the image (`Region` 3) lets a
stray chunk land past the end without being refused; with one version of the
image such a chunk is told from the right one by its place.  `MaxIdle` 1 lets the
receiver wait once before the timeout.  The host may begin any number of
sessions.

*Ramps* lets the motion go on for ever; only the host's writes are bounded, by
what one session exercises.  Counters and words of four values wrap within a few
ticks, the ratios have remainders and both signs, and 0 is among the maximum
speeds and denominators.

*Console*: two lines of two or three bytes fill and lap a ring of four; an answer
of two sends waits once for the first; two connections are what an old one can
leave to a new one, and three prints are a lease that comes, goes and comes back.

*HostBoard*: two writes are what one can overtake another by; two losses exhaust
the attempts of a command once, which is also what makes the client count as
disconnected.  A cut beside a new connection lets the old client be replaced while
it reopens.  *StackUpdate*: two updates are what one can leave to the next, and
three attempts with two faults are what retries are for.  Two misread bytes are
what completes a transfer before its end; more only repeat what one does, and the
claims end with the first.

### Deadlock

Deadlock is checked in `settings_store`, `dualbank_ota`, `fwupdate` and `ramps`.
The other systems may really stop: in `dualbank` an image that hangs after the
last power loss has nobody left to restart it; in `host` the user may be done and
the poll loop dead; in `update` a board left in its bootloader with the host
content; in `console` a hand-off to the bootloader is the end.

### Fairness

* `DualBank!FairSpec`: weak fairness of `BootStep`, the steps of the boot path
  (`BlMain`, `CopyStep`, `CopyDone`).  The bootloader has one thread and waits for
  nothing on that path.  Nothing is assumed of users, nor of the application.
* `FwUpdate!Spec`: weak fairness of `fwTask` and of `InCommand`, the rest of a
  command that was begun.  Both tasks have equal priority and are time-sliced
  by FreeRTOS, and neither blocks for ever on the other.  No command is ever
  obliged to begin and the host need not send, close or answer: that is why
  the timeout is what `SessionEnds` depends on.
* `Ramps!Spec`: the timer ticks, and the two tasks are scheduled.
* `Console!Spec`: both tasks, the TC interrupt and a print that has begun go on.
  A flush whose segment is never acknowledged comes to its deadline.  No peer
  sends, acknowledges or closes out of duty.  Weak fairness is enough for the
  mutex because the hosts send finitely many lines.
* `HostBoard!Spec`: the event loop serves each coroutine that is ready, the
  worker works, and the board answers a request that reached it.  The cable need
  not come back, and `Reconnects` asks only about when it does for good.
* `StackUpdate!Spec`: an update that began goes on, a restart that was asked for
  comes, both ends of the line and their time-outs run, and a unit whose flash
  failed is switched off and on by its user (`PowerCycle`): nothing else ends the
  receiver's main loop.


## 4. What the runs show

### Holds

* A torn settings sector never validates (`ValidIsSealed`), the newest is never
  written over (`WriteSparesNewest`), two valid sectors are consecutive
  (`SlotsConsecutive`), stored settings never fall back to defaults
  (`NeverBackToDefaults`), and the store is an atomic durable value
  (`AtomicDurable`), although the bootloader's struct is shorter.  No bootloader
  write changes the payload both know (`SharedFieldsSurvive`).
* Updating as the tool does it, with any number of updates and two power
  losses: each start runs the committed image, and the committed image gets to
  run (`RunsWhatIsDue`, `DueImageStarts`).
* With any application command in any order, from a board with two committed
  banks, or with the tool's from a factory board, and one power loss and one
  flash error (any number of either, by the theorems): nothing torn runs, and a power cycle always brings up a whole image
  (`FieldNeverRunsTorn`, `FieldPowerCycleBoots`) - as long as no `fw.begin` finds the
  receiver inside a chunk of an aborted update (`races` = 0).  After such a race a
  torn bank may be committed, its CRC matches, and the bootloader runs it.  An abort
  alone, at any step, does no harm, nor does a rollback to the bank that was being
  written: its recorded CRC no longer matches.
* With every command of both programs: an image that runs torn came out of a copy
  that was cut short, of a bank whose CRC was never recorded, or of one whose CRC was
  recorded of a torn image, after such a race or a transfer that ended short
  (`RecordedImagesRunWhole`).  What was damaged after its CRC was recorded does not
  run.
* Until a `fw.begin` finds the receiver inside a chunk, `fw.commit` records whole
  images only, `done` means written, whatever `save` does to the flash lock
  beside it, and the controller ends up locked (`CommittedWholeUnraced`,
  `DoneMeansWritten`, `FlashLockedAtRest`).
* With aborts at any step, the CRC recorded is always that of the bank at that
  moment, so the bootloader's comparison means something (`RecordsWhatIsThere`),
  and sessions end (`SessionEnds`).
* No motion of an encoder is lost or taken twice, across wraps and reversals
  (`FollowerExact`); the step count moves with the pins (`CountFollowsPins`), DIR
  leads STEP (`DirLeadsStep`); a servo the host switched off stays off
  (`OffStaysOff`, outside the window of `servoEnableTask`, below); a move is
  delivered to its last step (`CatchesUp`).
* On both ports a command runs no more often than it was sent (`OncePerSend`);
  the board never sits on the half-duplex line (`LineDiscipline`); no peer, and no
  print over an answer, stops either port for ever (`Serves`) - so the semaphore
  wait of `Rs485Send`, which has no time-out, needs none.
* Writes of the host arrive in their order and the last is saved (`InOrder`,
  `SavedInTheEnd`), with the exceptions `failed`, `crossed` and `revived`; with the
  cable back the link comes back (`Reconnects`), and only a transport taken away
  under a command ends the poll loop (`PollLivesUnpulled`).  A connected board has its
  settings read (`CacheBeforeConnected`) in histories with fewer lost messages than a
  command has attempts, no cut, and no `resume` or `reconfigure` during a poll:
  outside of them the read of the settings may fail and `connected` turns true all the
  same (board.py:204).
* A transfer that either side takes for complete is whole (`CompleteIsWhole`), and
  fewer faults than attempts do not end it among its data blocks
  (`LossesAreRecovered`): packets and answers lost, packets garbled behind their first
  byte, blocks repeated.  Both end where `adrift` begins, below.
* The marker names a whole image (`StagedWhole`), unless updates overlap; software and
  firmware end up at one version (`Coherent`), unless updates overlap, a bootloader
  command went unanswered, or a transfer went adrift.

### Does not hold, against what the repository says

| run | what happens | what is said |
|---|---|---|
| `dualbank_recommit` | two commits before a restart: the second goes to the bank that Exec was loaded from, and is never copied | FwUpdate.h:11-12: the bootloader then copies the bank and runs it |
| `fwupdate_abort_torn` | `fw.abort` and `fw.begin` while the receiver is inside `fwFeed`: a stale chunk is counted in the new session and a torn bank is committed | FwUpdate.h:12-14: `fw.commit` refuses anything but a fully received image |
| `host_poll_dies` | a transport taken away under a waiting or retrying command ends the poll loop with an exception nothing catches | board.py:155: never kill the poll loop |
| `update_restaged` | a second update copies its image over the one the first's marker still names | stack_update.py:155-156: the marker must not exist until the image beside it is complete |

The counterexample of each is what TLC prints for the run.

### What the properties leave out, and why

The history variables in the properties name what the code does not protect
against.

* `overtaken` (HostBoard): a poll suspended across `resume` or `reconfigure` turns
  `connected` over a cache that was just dropped.
* `revived` (HostBoard): `reconfigure` closes the old client and its comment says
  that replacing it is enough (board.py:181-182).  When the poll loop has an `open`
  of that client under way, `open` assigns the transport after `close` has cleared
  it, so the old client is up again; a write already handed to its worker then
  reaches the board after newer ones that went over the new client.  Looking for the
  inductive invariant of `InOrder` is what showed it.
* `pulled` (HostBoard) is the third row of the table above.
* `crossed` (HostBoard): the line protocol has no request numbers, so a late
  answer to a command that was given up is taken for that of the next one;
  `reset_input_buffer` drops only what has already come.
* `races` (DualBank) and `raced` (FwUpdate) are the second row of the table above; with
  them the image that was torn also runs.  `short` (DualBank): a transfer completed
  before its end, with its CRC recorded.
* `adrift` (Ymodem) is how a transfer comes to that.  An erase that outlasts the
  sender's two seconds puts the answers one block out of step.  A garbled first byte
  lets the receiver read a payload byte by byte: two bytes 0x04 complete the transfer,
  0x18 cancels it, and the NAK that every other byte draws is one attempt of the sender.
  One fault is then enough to end a transfer, or to complete a short one; the
  transfer is not whole and the loss not recovered, and the two properties say nothing
  of it.
* `LossesAreRecovered` speaks of the data blocks.  The `C` after the header and
  the ACK of the last EOT are sent once: when one is lost the sender gives up,
  and the update is left to its next attempt.
* `slipped` (StackUpdate): an unanswered `info` selects bank 0, an unanswered
  `bank` or `boot` is not noticed, and the marker is cleared all the same.
  `crowded`: an update begun while one is pending can replace or clear its image
  and marker.
* `lost` (Console): a line on RS-485 whose body was lost but not its terminator is
  blank, so the last command runs again and its answer passes for that of the lost
  one.  `overlapped`: a print of NetTask takes DE from under an answer, which is
  then cut; the master sees a bad CRC and asks again.

So some hazards of PROJECT.json are covered in part only: the note of each says which
of its cases such a variable excuses and, where a violated run shows it going wrong,
which.  These cases are not claimed to be safe; they are the ones that are not.

Reading for the models showed more that no run states.  A bootloader built from
a shorter struct truncates and reseals, so one write of it erases every appended
field.  A bank whose CRC was never recorded is trusted on its vectors, so an
aborted transfer followed by `rollback` starts it.  What a TCP client sends just
before it closes is dropped (NetCli.c:181).  A line half received when the lease
is lost is put before the first line of the next client (NetCli.c:136), and the
last command of one client is repeated for the next; a client that vanishes keeps
the only socket.  `servoEnableTask` tests and then writes the mode, so a
`servo.mode` set in between is lost.


## 5. What is proved

TLC checks the instances of section 3.  The theorems hold for every value of the
constants that the named ASSUMEs of the modules allow: any number of scales,
images, chunks, blocks, attempts, connections, losses, crashes.  Each module has
one inductive invariant, `IInv`, which was first checked by TLC, and a theorem
`InvariantHolds == Spec => []IInv`; every other theorem follows from it.

| module | theorem | property |
|---|---|---|
| `SettingsStoreProofs` | `TypeCorrect`, `OnlySealedValid`, `AlwaysConsecutive`, `NewestSpared` | `TypeOK`, `ValidIsSealed`, `SlotsConsecutive`, `WriteSparesNewest` |
| | `SettingsNeverLost` | `NeverBackToDefaults` |
| | `StoreIsAtomic` | `AtomicDurable`: the store implements `DurableSettings` |
| | `PayloadSurvives` | `SharedFieldsSurvive`, with `SharedInv`: the bootloader's buffer holds the stored payload |
| `DualBankProofs` | `TypeCorrect`, `RecordedRunWhole` | `TypeOK`, `RecordedImagesRunWhole` |
| | `NeverTornInTheField`, `PowerCycleInTheField`, with `FieldHolds` | `FieldNeverRunsTorn`, `FieldPowerCycleBoots` |
| | `RunsCommitted` | `RunsWhatIsDue`, if no flash operation fails and only the tool updates |
| `FwUpdateProofs` | `TypeCorrect`, `DoneIsWritten`, `CommitsAreWhole` | `TypeOK`, `DoneMeansWritten`, `CommittedWholeUnraced` |
| | `LockedAtRest`, `RecordsTheBank` | `FlashLockedAtRest`, `RecordsWhatIsThere` |
| `RampsProofs` | `TypeCorrect`, `FollowersExact`, `StaysOff` | `TypeOK`, `FollowerExact`, `OffStaysOff` |
| | `CountIsMotor`, `DirSetupHeld` | `CountFollowsPins`, `DirLeadsStep` |
| `ConsoleProofs` | `TypeCorrect`, `LineHeld`, `RunsOnce` | `TypeOK`, `LineDiscipline`, `OncePerSend` |
| `StackUpdateProofs` | `TypeCorrect`, `TransfersAreWhole`, `LossesRecover`, `MarkersNameWhole` | `TypeOK`, `CompleteIsWhole`, `LossesAreRecovered`, `StagedWhole` |
| `HostBoardProofs` | `TypeCorrect`, `PollDiesOnlyPulled` | `TypeOK`, `PollLivesUnpulled` |
| | `ConnectedHasCache`, `WritesInOrder` | `CacheBeforeConnected`, `InOrder` |

### Assumptions

* `SettingsStore`: the modulus of the sequence number is at least 4; both
  structs reach through the payload; defaults are values.  An erased word and a
  garbled one are neither a valid sequence number, header nor field value: for
  header and CRC that is what the magic, the size check and the CRC are for.
  `NoSave` is no content.
* `DualBank`, `FwUpdate`: what marks an erased or a half-programmed chunk is no
  chunk of an image, no bank or image is called `None`, and a bank is at least
  as long as an image.  The targets of `fw.begin` are banks.
  `RunsCommitted` has its own premise, `ToolOnly`, under which
  `dualbank_ota` runs; section 3 says what one flash error does to it.
* `Ramps`: an encoder turns by less than half its counter in a tick, and a ratio
  is small enough that following it does not overflow an int: the code relies on
  both and tests neither.
* `Console`: a ring and a line of at least two bytes.  `Ymodem`: at least one
  block and one attempt.  What bounds the use of a system is a natural number.
* `HostBoard`: at least one attempt and one error before a client counts as
  disconnected.  The writers are distinct, none has the name of another coroutine, and
  a use has no more writes than there are writers.

### The arguments

*SettingsStore.*  None of the four invariants is inductive.  What is missing is
the write in progress, `WriteInv`: the target is the inactive sector, the buffer
is sealed with the next sequence number, and the sector being programmed holds
exactly a prefix of the buffer.  A prefix of a sealed image is not valid, because
the CRC - programmed first - covers words that are still blank
(`PartialInvalid`).  Damaging the inactive sector leaves the newest one the newest
(`DamageKeeps`, `DamageSparesNewest`).  Completing it makes it the newest,
whatever the counter has wrapped to (`CompleteKeeps`, `CommitTakesOver`, from
`SerialOrder`).  Every action is one of: begin, damage, one more word, complete.
The refinement uses `StepLoads`: a step either keeps what a load returns or makes
it the value of the buffer.

*DualBank.*  `FlashInv`: whoever programs a region - the copy, the transfer, the
session, or the chunk of an aborted session - has it exactly as far as it has got, and
no more than one of them is at it.  That is what a race ends, so for the session it is
claimed while `races` = 0.  On top of it are three more, each on the one before.
`RecordInv`: a recorded CRC is that of a whole image while `races` = 0 and nothing
ended short, so a bank that still matches it is whole, and so is what a copy from it
leaves in Exec; without that premise `origin` still tells the two kinds of recorded
images apart.  `FieldSafe`: in the field the active
bank is recorded or empty, and Exec is broken only between the start of a copy
and its end, while `loaded_bank` still says that the copy is due - which is why
`bl_boot_app` must record it last.  `DueInv`: what the next start will run, from
the settings alone, is what was committed last.

*FwUpdate.*  `SessionInv` says for each program counter of the receiver how the
running CRC, the two counts and the bank relate: the CRC is one chunk ahead, then
the count of what was received, then the bank, then the count of what was
written.  Between two chunks all four agree, and that is the only place where a
`fw.begin` may reset them; `raced` is the other case, and from there on only
`RecordsWhatIsThere` is claimed.  `LockInv` follows the lock bit through both
tasks: a `save` inside a session locks the controller under the receiver, whose
next chunk then fails, but it never leaves the lock open.

*Ramps.*  The remainder a follower keeps is exactly what it has not yet commanded
(`DriftIsRemainder`): the remainder of the truncating division that C makes,
plus the wrapped difference of the counter, is the exact motion (`DivMod` and the
wrap lemmas).  The servo sums over the scales in sync, an arbitrary finite set.
That the sum is an integer is an induction over subsets: the library's theorem
for it takes an operator and cannot be used, so the proof takes the least size of
subsets whose sums are not defined and removes one element (`LeastNatural`,
`SumExists`).

*Console.*  `OncePerSend` is about counts, but it holds because of order.
`OnceInv` strings together what is on its way to a port: the bytes its task took,
what its ring or its socket holds, and what the host has still to send.  In that
sequence every terminator ends a line or is the LF behind a CR, the commands
ascend and have not run, and the line under assembly and the one in hand are
ahead of them.  Each step shortens the sequence at its head or splits a piece off
it (`HeldSplit`, `HeldMore` on the ring, from `Lap`).  A blank line repeats the
last command, so what must never arise is a lone terminator: that is what `lost`
excuses, and only on RS-485.  `LineInv` holds the half-duplex line together: who
waits for the TC interrupt is who drives DE, unless a print took it.

*Ymodem.*  The transfer is a stop-and-wait protocol, and the invariant says so:
one packet or its answer is under way (`OneWay`); the receiver expects the block
sent last or the one after it, and an ACK says that it has it (`InStep`); while
data is sent the receiver is in its main loop or has failed (`InLoop`).
`CompleteIsWhole` then needs only that nobody passes the last block.
`LossesAreRecovered` needs an account, `Paid`: every attempt at a block but the
first was paid for by one fault, and a fault counts once, whether it took the
packet or the answer.  A packet without its first byte keeps to all of it when the
receiver reads it to its end with one NAK, and ends it when a second byte is misread:
these parts (`Orderly`) are claimed while `adrift` = 0.  What holds adrift too - the
types, which block the sender is at (`NoBlock`), and that only an adrift receiver reads
a packet that is none (`Afloat`) - is proved of every misreading.

*StackUpdate.*  The marker is written last and removed first: until `mark` there is
none, at `mark` the image is already whole, and a flash begins only when no update
is under way (`StageInv`), so a crash at any step leaves a marker only beside its
image.  The proof of the first version of the model failed where the host crashes
in mid-transfer: the model kept the bank in the host's flow, which the crash
ended, so that the board finished without it.  The code's receiver has the bank as an
argument, and now so does the model.

*HostBoard.*  The invariant has a part for each thing the coroutines rely on
without testing it.  `Shape`: a coroutine that awaits the lock or the worker is
exactly once in the queue of its client, and only the first in the queue has a job -
that is what makes an answer the answer of the one who waits for it, also when a
save on the wire was cancelled and its job goes on for nobody.  `Lively`: as long
as no transport was taken away under an accepted command, every queued job finds a
transport, so nothing `run` does not catch is raised.  `Fresh`: coroutines only know
clients that exist, and one not yet made is untouched.  `Ordered`: the writes
waiting at a client ascend, and those it has sent are no newer than those waiting; it
holds because asyncio's lock is first come, first served.  `Past`: nothing older than
what the board holds is still to be sent by the current client, and no other has a
transport.  A retry sends the same write twice, so these orders are not strict.
`Steady` keeps the account for `CacheBeforeConnected`: without a cut, attempts that
failed are at most the losses spent, so with fewer losses than attempts every
command succeeds; `Caching` then follows the poll through its commands
(`Known`, `Current`).

The parts are stated of any clients and coroutines, not of the variables, because one
action makes several changes: a command that returns gives up the lock, hands the next
one to the worker, marks the error count, cancels the save and asks for its own next
command.  Each of these is a lemma (`Releases`, `Enters`, `CrashKeeps`, ...), and an
action is a chain of them.

### Only model-checked

* Liveness: `DueImageStarts`, `SessionEnds`, `CatchesUp`, `Serves`,
  `SavedInTheEnd`, `Reconnects`, `Coherent`.  TLAPS has no ENABLED and no rule for
  fairness here.

Induction over data and RECURSIVE operators are out of the prover's reach too;
no module uses them.


## 6. Plan

Every safety property of a run that passes is now a theorem.  What could come
next: the second writer of the flash lock inside `SettingsStore` (now only in
`FwUpdate`), the network bring-up as a timed model, and the cooperation of the
servo dispatcher with `servoEnableTask` (`servo.mode` commanded and reported).


## 7. Not modelled

* The PHY watchdog and the DHCP back-off of NetTask: timing over register
  accesses.  `Console` has what they do to the others.
* Digital inputs (an integrator each) and the DAC (one bus write).
* The servo, input and axis dispatchers of the host: views of settings that
  `HostBoard` has; their arithmetic is exact fractions of what the UI shows.
* The host's configuration files: each is truncated and rewritten in place, and
  that hazard is listed.
* Board discovery (keeps no state), Kivy screens and plots, release scripts,
  start-up code, pins, clocks and the LED.
* FreeRTOS, ioLibrary and the HAL are most of the repository's lines.  They are
  third-party code, taken at their documented behaviour: equal-priority time
  slicing, a HAL that refuses a second transmit, a socket whose send waits for its
  ACK, a lockable flash controller.

`components` in PROJECT.json gives the reason for each part.
