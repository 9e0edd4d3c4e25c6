# Verification of the NMSDK2 firmware

The repository is the firmware of a Northern Mechatronics NM180100 board: a
FreeRTOS application with a LoRaWAN task, a BLE task, an application task and a
console, on an Ambiq Apollo3 with a Semtech radio.  These modules model the
parts of it that were written for this board and that keep state: how they
survive power loss, how its tasks, timers and interrupts interleave, and how
its queues and counters behave at their limits.

## Inventory

| Component | Source | State | Operations | What is hard, what makes it correct |
|---|---|---|---|---|
| EEPROM emulation | `nmsdk2/targets/nm180100/utils/eeprom_emulation.c`, `boards/nm180100/board.c`, `eeprom-board.c` | pages in flash (mark, erase count, words), handle in RAM | init, format, read, write, array variants, delete, transfer to another page | power loss between any two flash operations, driver errors, a full page. The stored map is never lost, reverted or resurrected |
| NVM data management | `apps/LoRaMac/common/NvmDataMgmt.c` | notification flags, seven groups each with a CRC | event, store, restore, factory reset | store interrupted half-way, flags overwritten, restore of groups of different ages |
| LoRaMAC handler | `LmHandler/LmHandler.c` | join and class state, package list, callbacks | init, join, send, class requests, MAC callbacks, process | asynchronous confirms, class B chain (time, beacon, ping slot), packages interleaving with the application |
| LmHandler packages | `LmhpClockSync.c`, `LmhpCompliance.c`, `LmhpFragmentation.c`, `LmhpRemoteMcastSetup.c`, `FragDecoder.c` | sessions, timers, decoder matrix | commands of the server, periodic process | delays and retries, lost fragments |
| LoRaWAN task | `comms/lorawan/lorawan_task.c`, `lorawan_task_cli.c`, `lmh_callbacks.c`, `lmhp_fragmentation.c` | command and transmit queues, join state, periodic transmissions, receive callbacks | commands, uplink, power management | queue limits, pointers kept across tasks, timer daemon racing the task |
| RTC and radio board layer | `boards/nm180100/rtc-board.c`, `sx1262-board.c`, `lorawan_power.c` | 32-bit counter, alarm, SPI power | set, start and stop alarm, interrupts | counter wrap, alarm in the past, interrupt racing a restart of the alarm |
| Secure element | `comms/lorawan/lorawan_se.c`, `soft-se/` | keys | load, provision | pure computation |
| WSF scheduler | `nmsdk2/targets/.../wsf/sources/port/nm180100/wsf_os.c` | event and task masks, handlers | set event, dispatch, sleep | interrupt between the check and the sleep |
| WSF timers | `wsf_timer.c` | sorted list of timers, last counter value | start, stop, update, expire, sleep | counter wrap, ticks lost between updates |
| WSF queues, messages, buffers, critical sections | `wsf_queue.c`, `wsf_msg.c`, `wsf_buf.c`, `wsf_cs.c`, `wsf_heap.c` | linked lists, pools, nesting count | enqueue, dequeue, push, insert, remove; alloc, free; enter, exit | list surgery, pool exhaustion |
| WSF files and NVM | `wsf_efs.c`, `wsf_nvm.c`, `wsf_bufio.c`, `wsf_trace.c`, `wsf_detoken.c`, `wsf_assert.c` | file table, flash records | open, read, write | records interrupted by power loss |
| HCI core and commands | `hci_core.c`, `hci_core_ps.c`, `hci_cmd.c`, `hci_evt.c`, `hci_tr.c`, `hci_vs_ae.c` | connections, ACL buffers, command queue and credits | send, complete, reset | flow control, lost commands |
| HCI driver | `hci_drv_apollo3.c`, `hci_vs_apollo3.c` | write queue, read buffer, radio state | write, interrupt handler, power on and off | interrupts, errors of the serial link |
| BLE task | `comms/ble/ble_task.c`, `ble_stack.c`, `ble_task_cli.c`, `tag/` | command queue, stack state | start, tag | notification lost between the check and the wait |
| Application and console tasks | `application_task.c`, `console_task.c`, `main.c` | console line and history | key presses, CLI | boundaries of the line and of the history ring |
| Board support | `bsp/` | pins, power and clocks | init, sleep | hardware access |
| RTOS port and heap | `rtos/FreeRTOS/portable/port.c`, `heap_4.c` | tick, free list | tickless idle, malloc, free | kernel code of FreeRTOS |
| Vendored code | LoRaMac-node, Packetcraft host, FreeRTOS kernel, Ambiq HAL, tools | | | not modelled; used as environment |

How they interact: the console task sends commands and packets to the LoRaWAN
and BLE tasks through queues and notifications, and calls some of their
functions directly.  The LoRaWAN task runs the MAC and the packages from its
loop; the MAC's timers and the radio call back from interrupts.  The RTC and the
WSF timers share the free-running counter STIMER, with two compare interrupts
each.  What the MAC must remember goes through NvmDataMgmt to the EEPROM
emulation and so to flash.  The BLE task runs every handler of the stack; only
interrupts and the console come in between.

## Plan

The order is that of what would hurt most in the field: storage first (a device
that forgets its frame counters is cut off), then the timers below the MAC, the
two tasks, the HCI driver, and what is sequential last.

| Step | Modules | Question | State |
|---|---|---|---|
| 1 | `EepromStore`, `EepromEmulation`, `EepromRefinement` | does flash survive power loss at any point | done, proved |
| 2 | `NvmData` | is the MAC's context whole and in order after a restart | done, proved |
| 3 | `LoraTimer` | are timers called, in order and in time | done, proved |
| 4 | `ClassAMac`, `LorawanTask` | does the task lose commands, packets, wake-ups or the SPI port | done, safety proved |
| 5 | `WsfScheduler` | does the BLE task sleep on work, are its timers right | done, safety proved |
| 6 | `HciTransport` | are packets left lying, does every recovery end with an initialised controller | done, safety proved |
| 7 | `LmHandler` with its packages | classes, joins and time requests whose confirms come late | done, safety proved |
| 8 | `FragDecoder`, `Fragmentation` | is a decoded file the one that was sent | done, proved |
| 9 | in `HciTransport` | ACL packets and buffer credits of `hci_core.c`, also across a reset | done for one link; fragments, watermarks and reassembly left, see "Other observations" |
| 10 | the callback list, the console's history | pure list and ring code of one task | left |

## Modules and code

Throughout, a variable has the name of the C object where TLA+ allows, an action
is a call or an interrupt up to the next point where something else can happen,
and the comment at each variable says which object it is.  Operators marked
"Mutation" are broken variants of the definition that follows them: each
property has one that makes its run fail.

**EEPROM emulation.**  `EepromStore` is what callers may rely on: a map from
virtual addresses to values that each step of an operation changes at one
address or not at all, power loss included.  It states the two ways in which the
code is weaker than a caller might hope: a deletion is not atomic and can leave
an older value behind, and a write beyond the capacity of a page costs another
variable.  `EepromEmulation` has the pages of the flash, with the status byte and
the 24-bit erase count in one word, and the handle in RAM.  One action is one
call of the flash driver with the code up to the next, so power is lost between
any two of them.  `EepromRefinement` computes, from the pages alone, the map a
restart would recover and shows that it behaves as `EepromStore`.

**NvmData.**  The context in RAM and in the EEPROM as groups of bytes with a CRC.
`Process` is one pass of LoRaMacHandleNvm and NvmDataMgmtEvent, `StoreByte` one byte of
NvmmWrite, `StoreCrc` the four bytes of a CRC at once.  A byte is the number of the
change that wrote it and a CRC stands for the bytes it covers (two contents
never share a CRC).

**LoraTimer.**  The sorted list of `timer.c` with its reference time, and the RTC
alarm with compare interrupts C and D.  Calls of the timer interface are made in
critical sections and are one step; a `scenario` says which timers a behaviour uses
and how many ticks an interrupt can be late or a callback take, in which the
counter goes on.

**ClassAMac and LorawanTask.**  `ClassAMac` gives, as functions on a record, what a
class A MAC does with a request, an interrupt of the radio and its two receive
windows, with the frames that are sent again: unconfirmed ones NbTrans
times, confirmed ones after RetransmitTimeoutTimer until an acknowledgement or the last
repetition, during which it stays busy.  Answers of the region and the server are free
choices, and the server may set up a multicast session, whose two timers leave a
request that LmhpRemoteMcastSetup.c takes up in the task.  `LorawanTask`
is the loop of `lorawan_task.c` with one label per place where it can be
preempted, the two queues, the counting notification, and the timer of 8 seconds
that takes the SPI port down.  Time is counted in half-seconds of that timer.

**WsfScheduler.**  The loop of `ble_task.c`, with one label per part of
wsfOsDispatcher, the timers of `wsf_timer.c` and the interrupts of the radio and of
compare registers E and F (F fires one count after E, as a spare, and is the same
alarm here).  A handler is any sequence of calls of the interface: set an event,
send a message, start or stop a timer.  Messages are counted, not told apart.

**HciTransport.**  A command on its way: `cmdQueue` with its one credit and its timer
(`hci_cmd.c`), `writeQueue` of the driver, the controller's input and output, and
`rxQueue` of the core, through which its answer comes back.  What a call does to the
queues on the host's side is written as functions on a record (`CmdSend`, `RecvCmpl`,
`DrvWrite`), because one handler makes several of these calls.  HciDrvHandler blocks
on the serial link, so each round of its loop is an action and the controller acts in
between; the handlers do not interleave with each other.  The loop counts as the code
does: only a `break` in the last round meets the test after the loop; a loop that
runs out does not.  The reset sequence is three commands (start, middle, end)
and the vendor's command for the address; `ctl.had` remembers which of them a
controller has had since it was booted.
ACL packets share the write queue.  `link` is what `hci_core.c` keeps of its
connections, taken as one: whether one is open, the controller's free buffers, and the
packets that wait for one.  HciSendAclData asks only for a connection, so packets are
also accepted between a reboot and HciResetSequence, which closes the connections one
after the other and so may write packets of those it has not come to yet (`CloseAll`).
`lost` is a history variable: a command of a reset met a full write queue.

**LmHandler.**  `LmHandler.c` with the clock synchronisation and multicast packages,
the callbacks the application registers, and of the MAC what they see: requests,
the queue of their confirmations, device class and beacon.  All of it runs in the
LoRaWAN task, so a handler is an operator from a device to the devices it may become
(the region may refuse a frame), and an action is one part of the task's loop with
everything LoRaMacProcess finds; only the two session timers come in between.  The
clock is its error against true time, in seconds from -1 to 1, so that an answer
applied twice is visible.  Three history variables say what the code does not keep:
`refused`, that the last request of a switch to class B was turned down (by a full queue,
a busy MAC or a search that is under way for nobody); `halted`, that a join ended a
search; `late`, that a DeviceTimeAns set the clock while an answer of the application server
that was computed before it could still come.  A `scenario` says which commands and downlinks a
behaviour has; all share the queue, the flags and the loop.

**FragDecoder and Fragmentation.**  `FragDecoder` is the decoder as a function on
its structure and the store: the index of the missing rows, the packed triangular
matrix bit by bit, the elimination and the substitution at its end.  The content of a
row is the set of fragments it is the XOR of, so XOR is symmetric difference and a
row is recovered when it is the singleton of its own fragment.  The store is either
one that does what it is told, or the flash of `lmhp_fragmentation.c`, which only
clears bits.  `Fragmentation` adds the sessions of `LmhpFragmentation.c`, which share the one
decoder, and a server whose fragments are lost, repeated and reordered.

## Runs

| Run | What it checks | Bounds, and why they are enough |
|---|---|---|
| `eeprom_store` | the types (`TypeOK`); `HandleMatchesFlash`: the handle in RAM and the marks in flash agree at every step, so eeprom_init never meets a state it gives up on; `ReadsDurable`: between operations a read returns what a restart would; `StoreSpec`: the refinement | 2 pages of 2 words for 3 variables: pages fill up, transfers run in both directions, and a page cannot hold every variable. Arrays of up to one element beside their length |
| `eeprom_wear` | with errors of the driver: indices stay in the pages but after a format whose erase failed, which takes an error (`IndexOK`); one error never makes two active pages (`OneActive`); the erase count survives and grows by one (`EraseCountSteady`); under fairness a boot without an error of its own ends with a page active in RAM and in flash, whatever errors of earlier boots left behind (`ComesUp`) | 3 pages so that the next page is a choice, a count of 3 bits so that it wraps, 2 errors so that a recovery can itself fail |
| `nvm_data` | `SavedUnlessFlagged`: a current CRC in RAM means the group is in the EEPROM; `RestoresValid`: a successful restore takes whole groups only; `CryptoNotBehind`: what is stored never has frame counters older than the rest | 3 groups of 2 bytes: a first, a last and one between; 3 changes let a group change while another is being written; one wipe |
| `timer_list` | `NeverEarly`, when interrupts are taken at once; `InOrder`, however late they are; `AlarmForHead`, the head of the list always has the alarm; `NotLate`, within the time the other timers' alarms and callbacks take (`Slack`) | two scenarios: 3 timers, so that one is inserted between two others, durations of 1 to 3 ticks, no delays; any 2 of them with durations of 1 and 2, and interrupts and callbacks that take up to 1 or 2 ticks, so that a callback can outlast the timer it started. 1.9 million states |
| `lorawan_task` | `CommandsCovered`: every queued command has a notification on its way; `PortOnForTask`, `PortOnForWindow`: the radio is never used with its port off; `UplinkTriedAgain`: a packet is slept on only while the MAC is busy, after a refusal, or in a multicast session whose timer has still to end it; under fairness packets leave their queue (`UplinksEnd`) | a queue of 2 with 3 sends so that it overflows; the port's timeout of 5 units against windows after 2 and 4 units; each frame may be sent twice, be confirmed, and wait 2 units for its acknowledgement; one multicast session |
| `lorawan_second_window` | finding: an unanswered first window cancels the second when whole-second arithmetic makes it look expired | 2 sends |
| `wsf_scheduler` | `SleepsCovered`: the task never waits on work; `NotLate`: no timer is in the queue for more than twice its duration and `Slack`; under fairness what is posted is handled (`WorkEnds`) | 2 handlers and 2 timers, 2 calls and 1 count per wake-up (`MaxWork`, `MaxHeld`), a tick of 2 counts so that fractions are dropped, a counter that wraps at 8. `Slack` is 3 counts; the run fails with 1 |
| `hci_transport` | `Attended`: whenever the driver is not running, a packet to be read or written has an event that will come to it or, when the loop ran out, a timer or a reset; `UpMeansInitialised`: a reset that completes has given the controller all commands of the sequence since its boot; under fairness `Settles` and `Reinitialised`: after the faults the host comes up again with empty queues. The last three except a reset of which a full write queue has dropped a command (`lost`), from which the code does not recover, and which the run reaches | 2 faults, so that one can hit what the other left behind; both in operation. 4 sends, commands or ACL packets at any time, which with a write queue of 2 and 1 buffer of the controller overflow it, also during a reset; 3 rounds of the loop and 2 reads in a row, so that each of its exits happens at each count; a heartbeat at any time and 1 report, which may open a connection. 650 000 states |
| `hci_reset_lost` | finding: a fault during the reset sequence | 1 fault, at any time |
| `lm_handler` | `SettingsRestored`: no request, answer or resync leaves ADR off; `Requested`: a queued confirmation will be looked at; `SwitchGoesOn`: a switch to class B whose last request was accepted has it queued, joins in between included; `ClockStaysRight`: a step leaves the clock or sets it right, with both servers answering, unless DeviceTimeAns has outrun the other answer (`late`); under fairness `AdrReturns` and `SessionEnds` | four scenarios: the switch to class B with a join, a time request or another class in its way (2 commands, so that each pair collides); clock synchronisation with resyncs, LinkADRReqs and the answers of both servers; multicast sessions; uplinks that fetch what the server still has. A queue of 3 fills up (5 in the code), 3 tokens wrap around, 1 transmission per resync. 297 000 states |
| `frag_decoder` | `TypeOK`, with the indices of the packed triangle within the code's arrays for up to `MaxRedundancy` losses; `Reassembled`: a finished file is the one sent; `FailureReported`: or its failure is, unless a line overran the vectors; `Timely`: it is finished as soon as the fragments seen determine it | files of 4 rows (a power of two, which has a draw of its own) and of 6, 2 of each sent over 2 sessions, 4 coded fragments (and `DrawsEnd`, the parity rows of more); up to 3 losses are recovered (`MaxRedundancy`, 5 in the code), so that more than it can recover, and lines that need several reductions, both occur |
| `frag_flash` | finding: the decoder over the application's flash | 1 session, files of 4 rows |

Deadlock is checked where the system never stops: the EEPROM, the BLE task, the
LoRaMAC handler's loop and the decoder.  The host of the two HCI runs may come to rest
after a reset that never completes: before the first transfer no heartbeat is started.
In `NvmData`, `LoraTimer` and `LorawanTask` the bounds on changes, on time and on
sends bring the model to rest, so deadlock is not checked there.

### Fairness

`EepromEmulation!FairSpec` assumes only that the processor goes on while it has
power.  `LorawanTask!FairSpec` assumes that the highest-priority task that is ready
runs, that interrupts are taken and that time passes; the region may refuse for
ever and the server may ask for uplinks only finitely often in a row
(`ServerContent`), which `UplinksEnd` needs.  Timers that run expire, the one that ends a multicast session included.  `WsfScheduler!FairSpec` assumes that
the BLE task runs when it is ready (it is preempted by tasks of higher priority that
block, but shares its priority with the LoRaWAN task without time slicing, which
yields when it blocks), that the alarm's interrupt is taken and that the counter
runs.  That handlers return is part of the first.  `HciTransport!FairSpec` assumes that
the BLE task runs the handlers that have something to do, that timers of ten seconds
run out when nothing else happens (`Quiet`), and that a controller that has not hung
answers what it was sent.  `LmHandler!FairSpec` assumes that the task goes round and the
session timers expire (weak fairness); that a join which is tried again and again is
accepted once, that a frame that waits for nothing is ended by its time-out, and that a
packet of the application is let through by the region now and then (strong
fairness, because other events come in between).

## Findings

1. `lmhp_fragmentation.c:97` and `:122` (`frag_flash`): the decoder writes a row twice when
   it recovers it, and the flash behind it programs without erasing; the erase
   steps to the next page before the first. The finished file is not the one sent.
2. `LoRaMac.c:1453` over `rtc-board.c:151` (`lorawan_second_window`): elapsed time counted in
   whole seconds cancels the second receive window of some transmissions whose
   first one was empty.
3. `hci_cmd.c:186` with `dm_dev.c:68` (`hci_reset_lost`): the reset after a timeout or a driver
   error is ignored while another reset is under way.  A fault during the sequence
   leaves a freshly booted radio without HCI_Reset; no command is outstanding, no
   timer runs and there is no credit for another command.

### Other observations

Read in the code while modelling it.  No run has one as its finding; where a property or
a history variable excepts what is described, this is said.

- `eeprom_emulation.c:357`: the result of marking the adopted page active is ignored.
  After an error there a later transfer leaves two receiving pages, which the next
  boot formats: `ComesUp` shows that this boot ends with a usable store, and no property
  that it keeps what was stored.
- `board.c:61`: the result of eeprom_format is dropped.  When its erase has failed no page
  is active, and the next call takes `pages[-1]` for one.  The model ends the boot there
  (`pc = "wild"`); `IndexOK` says that only an error of the driver leads to it, `ComesUp` that
  the next boot without an error leaves it.
- `rtc-board.c:80`: an alarm beyond the wrap of the counter (every 36.4 hours) is taken
  for an early one and dropped; the timers wait until another alarm is set.
- `NvmDataMgmt.c:53` overwrites the flags of an event that has not been stored yet; the
  dirty CRCs in RAM make up for it.  `nvmm.c:56`: a CRC that cannot be read counts as
  correct, and the restore then stops midway.
- `wsf_os.c:309`: timers are updated after the handlers, so a timer a handler starts
  after a long sleep expires early.  `wsf_timer.c:387`: a task of higher priority can
  hold the BLE task between setting an alarm and clearing its interrupt.
- `hci_drv_apollo3.c:824`: a packet that meets a full write queue is dropped and counts as
  sent.  For a command of the application its timeout makes up.  A command of a reset is
  gone: when it is HCI_Reset itself, its timeout asks for a reset, which `dm_dev.c:68` ignores
  while the first is under way; when it is another, a late completion may carry the
  sequence past it, and the reset completes without it.  Two ways lead there.
  ACL packets are accepted between a reboot and HciResetSequence, and closing
  the connections hands buffers from one to the next, so that they fill the queue.
  HciResetCmd sets the credit to one (`hci_cmd.c:1204`) whatever is still under way, so each
  reset that finds commands waiting leaves one more outstanding at a time.  In the code
  it takes 8 packets.  `hci_transport` reaches both with its queue of 2; `lost`
  marks it, and `UpMeansInitialised`, `Settles` and `Reinitialised` except it.
- `hci_drv_apollo3.c:1235` reads `pMsg->event` before it knows whether there is a message.
- `hci_core.c`: fragments of a closed connection stay in `aclQueue` while others hold all
  credits, and go to a new connection that reuses the handle; a packet dropped by a
  full write queue, or a number-of-completed-packets event without a buffer, keeps its
  credit until the connection closes; reassembly can join a partial packet with
  the continuation of the next when one continuation and one start are lost.
- `ble_task_cli.c:89` changes advertising from the console's task.  `lorawan_task.c:350` queues
  a pointer to a buffer that the next command line overwrites.
- `lmh_callbacks.c:209` hands out a pointer into the MAC's receive buffer.
  `LmhpFragmentation.c:518`: a delayed answer keeps a pointer to the shared buffer.
- `LmhpFragmentation.c:470`: after a restart a fragment calls OnDone with size 0;
  `MatrixError` is never cleared, so that it tells of the first failure only; with more
  than eight losses at the end of a file the first coded fragment passes the test that
  should stop it (`FragDecoder.c:338`) and its line overruns the one-byte vectors.  The
  model's lines grow instead, and no property promises anything of such a session
  (`WithinVectors`, and `MaxRedundancy` in `TypeOK`).  One decoder serves four sessions.
- `LoRaMac.c:5006`: five time requests before the first join fill the queue of
  confirmations and turn joins down.  `LoRaMacClassB.c:925`: a beacon lost while a request is pending
  leaves the device in class B without one.  `LmhpRemoteMcastSetup.c:294`: a session that
  starts while the stop of another is processed is forgotten.
- `LmhpClockSync.c:236`: "Check if a more precise time correction has been received. If
  yes then don't process and ignore this answer" looks at one downlink.  The
  request asks both servers (line 341); a DeviceTimeAns in an earlier frame corrects the
  clock and leaves the token, so the AppTimeAns that follows corrects it again.
  `lm_handler` has the behaviour; `late` marks it, until the token changes, and
  `ClockStaysRight` says nothing of the steps in between.
- `LmHandler.c:796`, `806` and `812`: the results of the requests of a switch to class B are
  not looked at.  One that is turned down ends the chain (`refused`), with
  IsClassBSwitchPending set, and a later answer to somebody else's time request
  takes it up again.  A join ends a search for a beacon whose element
  stays queued (`halted`).
- `LmhpClockSync.c:197` restores the NbTrans of before the request.  A join
  that is accepted meanwhile has set it to 1 (`LoRaMac.c:1023`), the older value comes
  back.  `JoinsAskNothing` keeps that out of `SettingsRestored`.

## Proofs

tlapm checks every step; nothing is assumed but the `ASSUME`s on constants, each
of which some run evaluates.

- `EepromRefinement_proofs`: first `TypeCorrect`, `IndicesInBounds`, `HandleAgrees`, for
  every number of pages (at least two), words, variables and errors.  `IndexOK` and `TypeOK`
  together are inductive; the one state without an index to rely on is `pc = "wild"`, and
  `IndexOK` says that it takes an error of the driver and a handle without an active page.  `HandleMatchesFlash` is by itself inductive on top
  of them: it says at every program counter which pages may carry which mark.
  Then `Implements` (`StoreSpec`, under the hypothesis
  `MaxErrors = 0`, a driver that reports no error) and `ReadsAreDurable` (`ReadsDurable`).
  What a restart recovers is a function of two arrays of words, those of the active and of
  the receiving page, where a page that does not exist counts as blank (`MappedHolds`);
  so marking a blank page changes nothing, and every step is one of a few changes of
  arrays: a value put into the first free word (`PutEffect`, `NewEffect`), a
  word copied (`CopyEffect`) or struck out (`StruckOut`), a page erased (`EraseEffect`).
  The invariant `StoreInv` adds to `HandleMatchesFlash` that words are written in order
  (`Contiguous`), that what a transfer has passed is in the receiving page unless that is
  full (`Above`), and that a deletion leaves nothing behind it (`Deletion`).
  `NewEffect` counts: when the variables in use fill a page, exactly one of them,
  the oldest, has no place left, which is the price that `EepromStore` names.
  `NeverTwoActive` (`OneActive`) needs no hypothesis: it speaks of runs with up to one error.
  `MarksKept` says at every program counter which page may be marked active, and that
  a mark of unknown value, from another firmware, outlasts an initialisation only if
  the one error kept it, so that a transfer programs its mark onto an erased page.
  `CountIsSteady` (`EraseCountSteady`) rests on `CountsKept`: the page that takes over has
  either no count yet or the one that is carried over to it, so that a transfer that a
  restart resumes programs the same bits again.  That a count stands for one number only
  (`BitsTell`) goes down the powers of two, which are a function of the model (`Pow2`)
  because the provers know nothing of `^`.
- `NvmData_proofs`: `TypeCorrect`, `CrcsTell` (`SavedUnlessFlagged`),
  `WholeGroupsOnly` (`RestoresValid`) and `CountersNotBehind` (`CryptoNotBehind`).  The
  strengthening says of the group being written that its bytes before the current
  position are already the new ones.  For the frame counters it says that their group,
  the first one, is written first when it is flagged (`Counted`), and that each of their
  changes is kept in the EEPROM or is newer than all that is there (`CryptoFirst`).
- `WsfScheduler_proofs`: `TypeCorrect` and `NeverSleepsOnWork` (`SleepsCovered`), for
  every number of handlers and timers, all durations and every width of the
  counter.  `SleepsCovered` speaks of the moment of sleeping; the invariant
  `IInv` carries it through the loop.  The queue is sorted without duplicates
  (`Sorted`), because the code looks at its head alone.  Every posted kind of work has its
  bit in the task's mask or in the copy of it that the dispatcher has still to serve
  (`MessagesMasked`, `TimersMasked`, `EventsMasked`); whoever sets a bit while the
  task waits notifies it (`WaitNotified`); from the setting of the compare registers
  on, the alarm is due no later than the head of the queue (`AlarmCovers`).
  `ServicedInTime` (`NotLate`) follows each timer in the queue (`Punctual`): it was started
  in this wake-up and not yet counted; or it has aged at most twice the ticks taken off
  it, since an update takes off `passed` of fewer than `passed + 1` ticks, and the
  counter is at most a tick and the work of two wake-ups past what it has left; or it
  is expired and the task does not sleep before it is serviced.  The hypotheses are that
  `Slack` covers three times the work of a wake-up and that the counter does
  not go round in the longest timer and two wake-ups (`Outlasts`), for the code about 36
  hours at 32768 Hz.

- `LorawanTask_proofs`: `TypeCorrect`, `CommandsAreCovered`, `PortIsOnForTask`,
  `PortIsOnForWindow` and `UplinkIsTriedAgain`, for any set of senders, queue length and
  delays.  `PortOnForWindow` needs the delays to be shorter than the port's timeout,
  which `DelayAssumption` says.  The strengthening `IInv` bounds how far a window can
  still be away (`WindowsSoon`), shows that the port's timer outlasts it (`PortOutlasts`)
  and runs only while the task sleeps or is about to (`TimerAsleep`, `PortStays`), and that
  a packet the task sleeps on was tried since the MAC was last busy or a session held it
  back (`PacketsTried`).  A session that is started has its timer to end it or that
  timer's request (`SessionTimed`), and a request has a notification (`RequestNoticed`).
- `HciTransport_proofs`: `TypeCorrect` and `PacketsAttended` (`Attended`), for any number of
  write buffers, transactions, reads, packets and faults, under the hypothesis
  `Undisturbed` that no fault falls into the reset sequence, which is finding 3, and with
  fewer reads in a row than rounds of the loop.  The strengthening follows the
  packet: received ones are announced (`RxAnnounced`), the transfer under way has its
  event (`TransferAnnounced`), the loop counts within its bound (`LoopBounded`), and a
  reset begins with empty queues (`ResetClean`).
  `UpIsInitialised` (`UpMeansInitialised`) has the same hypothesis.  A command of a reset that
  a full write queue drops is remembered in `lost`, which never goes back, so the invariant
  is a disjunction: something was lost, or the following holds.
  The five queues a command goes through are one line, in which
  the commands of a reset stay in their order whatever else is in it (`Lined`), and
  whatever is sent with credits the driver should not have.  Which of them are in the line
  says how far the reset is (`Staged`), and with those already answered what the
  controller has had (`HadDone`).  That the reset is not itself timed out is part of the
  induction: while a command waits for its credit another is under way (`Credit`), and its
  packet has its event (`TransferInReset`).
- `LoraTimer_proofs`: `TypeCorrect`, `AlarmIsForHead` (`AlarmForHead`), `NeverCalledEarly`
  (`NeverEarly`), `CalledInOrder` (`InOrder`) and `CalledInTime` (`NotLate`), for any timers,
  durations and delays, under the hypothesis `Unwrapped` that the counter does not wrap:
  the interrupt compares it with times that count from the reference.  The
  invariant is over the record that the operators of the list and of the alarm work on
  (`Good`), so each of them has a lemma and an action only has to pick the record it
  moves to.  A head that is next to expire is `Armed`: its alarm
  lies ahead or its interrupt is pending.
  The order needs one more hypothesis, `Reachable`: no timer is due beyond the wrap, since
  TimerStart adds to the elapsed time without looking at the carry (timer.c:127).
  `Ordered` relates the times in the list to the ticks that are really left.  An alarm may
  lie behind the time a timer is due, because TimerSetTimeout puts a head off and
  TimerIrqHandler cuts what has passed to zero; but never before it, and only if that time
  has passed or, for a head, was less than MinTicks away.  A new timer lasts
  at least MinTicks, so comparing alarms finds its place.  With prompt interrupts
  only C is ever pending, at its very tick (`Promptly`), because its handler disables D
  before the next one (`Wired`); so the head's time is up when it is called.
  That none is called late needs a measure of what is still before a timer (`Paced`):
  `Behind(i)` for the timers before it, each with an alarm MinTicks away and a delay,
  and `Wait` for the alarm of the head and the interrupt or callback it waits for.  A timer
  whose time has passed is `SoonEnough` if these end within `Slack`.  Two
  cases need more.  When all timers are listed, the head's alarm may be put off beyond
  the time of the last (`PutOff`): the bound then rests on the interrupt D of the same
  alarm, pending when C calls the head and taken as soon as its callback returns.  It
  is a stale one then, which calls the next head although its alarm is ahead
  (`Stale`), because the guard compares the counter with Alarm_Ticks alone
  (rtc-board.c:80): the same comparison that breaks `NeverEarly` when interrupts
  wait keeps the last timer within its bound.
- `LmHandler_proofs`: `TypeCorrect`, `RequestedAlways` (`Requested`), `SwitchAlwaysGoesOn`
  (`SwitchGoesOn`), `SettingsAreRestored` and `ClockIsKeptRight` (`ClockStaysRight`), for
  any length of the queue, number of tokens and resyncs, and any scenarios.
  `SettingsAreRestored` has a hypothesis, `JoinsAskNothing`, that the run's scenarios meet and
  that is needed, for a behaviour named under "Other observations".
  The core is what the device keeps (`Sound`).  A join is in the queue only while its own
  frame is under way, and then once (`JoinsWait`): otherwise the answer to one would
  be given to another, whose callback asks for the next join in a queue that is
  being handled.  A switch to class B is not in class B yet, and has a request in the
  queue that is answered, whose search goes on or was ended by a join, or its last
  request was turned down (`Going`).  `HandleCb` goes round the
  queue as often as it is long, while the callbacks append to it; the invariant of a turn
  (`Turning`) says it for the elements that are left.  The turns are a function on the
  natural numbers, so that induction takes the least turn that is an exception (`Least`).
  For the settings, `Restored` says what is saved while a request is pending.  For the
  clock, `Answerable` says that an answer the device would take leaves the clock in
  its range, and that a token does not come back while an answer to its former use
  may; unless DeviceTimeAns came first (`late`), the answer to the current token fits the
  clock that asked (`Right`).

- `Fragmentation_proofs`: `TypeCorrect` (whose bounds on the indices are for up to
  `MaxRedundancy` missing rows; beyond them it says nothing of the code's arrays), `FileReassembled` (`Reassembled`),
  `FailuresReported` (`FailureReported`) and `NoneTooMany` (`Timely`), for any sizes of
  files, sessions, coded fragments and `MaxRedundancy`.  The two about the file have the
  hypothesis `~Flash`, a store that erases and writes what it is told to; over the
  application's flash they are false, which is finding 1.  The other two hold over
  either.
  `SessionInvariant` is the core (`DecInv`, `SessionInv`): the rows up to the last one
  received are received or have order numbers from 1 on, each once (`Counted`);
  lines begin at their own rows, and the bits of a row without a line are all still
  set (`Lined`), because no two bits of the packed triangle have the same place
  (`BitOnce`) and PushLine only clears.  While a session goes on there are fewer lines
  than missing rows, so a fragment that finishes it is the last one needed.
  What the loop that reduces a new line computes is `Reduces`: a bit is in the result
  if it is in an odd number of the new line and the lines used, and no line begins where the
  result does.  The loop is a recursive function over sets of columns that each begin
  further on than the last (`Grows`), and that such a function exists is the proof of
  `LoopsExist`, by the least number of columns for which it would not.
  For the file, `Filled` says that a received row holds its fragment, and the row of a
  line the XOR of the rows of that line; the parity of the bits carries over to
  the rows (`RestIs`, with `OddImage` since a row is counted by its order number), and
  substitution goes up from the last row (`SubstitutedIs`).
  For `Timely`, `Spanned` says that whatever the XOR of some coded fragments tells of the
  missing rows is the XOR of some lines.  A fragment that is reduced to nothing adds
  the lines it used, any other also the new one (`OutcomeSpan`).  The XOR of some lines has
  the bit at which the first of them begins, so it is never the single bit of a row
  without a line (`RowOpen`).
  Both rest on `ParityAssumption`, that the rows FragGetParityMatrixRow draws are rows of
  the file.  By its loop a draw beyond the file is drawn again, which happens only when
  the number of rows is a power of two; that the loop ends is then a fact about the
  numbers the shift register goes through, which no proof here gives: TLC evaluates it
  for up to 40 rows and for 64, 128 and 256, and 8 coded fragments (`DrawsEnd`).

Every invariant, action property and refinement of a passing run is stated by a
theorem, with the hypotheses named above.  Only model-checked is liveness, which
tlapm does not reason about (`ComesUp`, `UplinksEnd`, `WorkEnds`, `Settles`,
`Reinitialised`, `AdrReturns`, `SessionEnds`), and that the draws of the shift register end.

## What is left out

- Flash words are programmed atomically, and an operation that fails has changed
  nothing.  eeprom_read_array has no operator: it reads as eeprom_read does.
- The four bytes of a CRC are stored at once.  NvmDataMgmtFactoryReset has no caller
  in the application; it is modelled all the same.
- `lorawan clear` formats the EEPROM from the console's task.  `NvmData` lets it
  happen between any two bytes, but not inside a transfer, where it would pull
  the pages from under the LoRaWAN task.
- The counter does not wrap in `LoraTimer`: after the wrap an alarm may be dropped (see
  above), and `NotLate` does not hold.  That no BLE timer expires early does not hold either
  (`wsf_os.c:309`), and no property says it.
- Interrupts taken late can call a LoRaWAN timer early (a pending interrupt of
  the previous alarm): `NeverEarly` is checked with prompt ones only.
- A server that delays its windows to up to 15 seconds outlasts the 8 seconds of the SPI
  port; `DelayAssumption` excludes it.
- Of the MAC below the LoRaWAN task these are left out: the class C reception of a
  multicast session, transmissions delayed by a duty cycle (TX_DELAYED) and their
  requests, packages that hold an uplink back (LmHandlerPackageIsTxPending), and a request
  to start a session that comes while a stop is processed (see above).  Several
  sessions are one after the other, and a server does not ask for an uplink
  and set up a session in the same frame.
- LORAWAN_STOP while the MAC is busy leaves its timers running; the model keeps
  them (`stale`) and promises nothing about packets afterwards.
- In `WsfScheduler` the task is not held for the whole delay of an alarm between
  setting the compare registers and clearing their interrupts, and handlers post a
  bounded number of times before the task sleeps.  Timers last at least one tick of
  10 ms: a shorter one has 0 ticks and no alarm, and the application starts none.
- In `HciTransport` packets are read whole, and LE_Rand is sent once and not four times.
  All connections are one link and a fragment is a packet; the watermarks that tell the
  application to wait, reassembly, and the order of fragments between connections
  are left out.  A message or a
  command always finds a buffer, but for the heartbeat's; an answer may not, which is a
  fault.  The handlers run in any order, which includes the one of the dispatcher.
  While a radio is reset with a command under way, as at start-up, two commands
  are outstanding, and no property says otherwise.
- An event of the radio between HciDrvRadioBoot and WsfOsInit is erased; the driver
  looks at the interrupt line itself when it next runs.
- In `LmHandler` the region's duty cycle is a free choice to refuse a frame, a
  confirmation that is not ready may become so (its flag is never written by the
  code that appends it again), and one multicast group stands for four.  Answers with
  parameters, the compliance test and personalised activation are left out.
- In `FragDecoder` a row is a set and not bytes, and the bits of `MatrixM2B` are one set.  Lines
  and matrix grow with the missing rows, where the code writes to other memory.
- The rest of `hci_core.c`, the console's line and history, and the list of
  receive callbacks (filled once, by a task of lower priority than its reader) are not
  modelled.
- Cryptography, marshalling of HCI and LoRaWAN packets, console output, pin and clock
  setup, and the vendored stacks, but for the parts the models need.
