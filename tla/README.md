# TLA+ models of the OnlyKey emulator

This directory models the parts of `node-onlykey-emulator` in which several
actors meet: the native HAL that runs OnlyKey firmware on a thread of its own,
the hosts that feed it reports and button presses, the bridges that present it
to an operating system or to another machine's port, the socket to its GUI, the
life of its process and storage, and the staging that turns a firmware release
into what is compiled. Each module is translated from the source it names; TLC
checks every module on small instances, and TLAPS proves safety properties of
the core for every instance.

## 1. The system

The firmware is unmodified C++ compiled into a native addon (`emulator/src`). It
runs on one **firmware thread**, in an endless main loop. Around it:

| part | source | state | operations |
|---|---|---|---|
| inbound report queue | `emulator/src/ok_hal.cpp`, `addon.cpp`, `android/jni/okemu_jni.cpp`, `core-override/okemu_usb.cpp` | one deque for two HID interfaces, two counters, a byte queue, two condition variables, under one mutex | deliver (with a ticket), wait for a ticket, receive, flush |
| press queue | `okemu_press.cpp`, `index.js`, `bin/press.js`, the hand-over `scripts/stage.js` injects | a ring of 32 under a mutex of its own; the loop's `key_press` | queue a line, ask the room, take one |
| sensed buttons | `ok_hal.cpp` | held flags, tick counts, rounds | set, set for a count, sample |
| HAL lifecycle and storage | `ok_hal.cpp`, `okemu_flash.cpp`, `okemu_restart.cpp`, `okemu_eeprom.cpp` | mapped flash, EEPROM file, restart flag | init, shutdown, factory reset, flash commands, the reset trap |
| gadget bridge | `lib/gadget-bridge.js` | per interface a queue, a stall clock, a timer; the bound UDC | send, retry, unplug, plug |
| UHID bridge | `lib/uhid-bridge.js` | kernel device nodes | create, destroy, input, get and set report |
| Windows link | `lib/okvhid-bridge.js` | per interface a pipe connection and a retry timer | connect, feed, plug, unplug, pull the cable |
| Windows driver | `windows-driver/src` | per device a ring, parked reads, a pipe thread | read, write, drain, start, stop |
| relay | `bin/relay.js`, `lib/remote-gadget-bridge.js`, `lib/relay-protocol.js` | the one firmware connected, its gadget; the bridge's socket and its idea of the cable | hello, take over, plug, forward, redial |
| GUI socket | `lib/ipc-peer.js`, `lib/ipc-host.js` | a connection at each end, a backlog | dial, send, accept, supersede |
| daemon and power | `bin/daemon.js`, `lib/power.js`, `ecosystem.config.js` | the process, and whether pm2 is to keep it | start, restart, rebuild, plug, exit |
| Edge plugin | `plugins/edge` | a hash chain of links, budgets, a debt, a flash record | grant, use, receipt, settle, hold, revoke, back up |
| other plugins | `plugins/config`, `key_chain`, `vendor_bridge`, `ctap_bridge`, `derive_secret` | little | one request, one reply |
| staging | `scripts/stage.js`, `scripts/versions`, `scripts/matrix.js` | unpacked releases and their stamps, the staged tree and its record, compiled objects and their marker | unpack, copy, gate, edit, record, build, sweep the releases |
| UI, shims | `ui`, `shim` | none while running | - |

How they meet: host threads (the JavaScript thread, libuv workers, a JNI
executor) call into the HAL; the firmware thread calls out of it through sinks
that become events on the JavaScript thread; the bridges and the GUI peer listen
to those events and call back in. Nothing orders the report queue and the press
queue except the answer of an awaited write. A firmware restart ends the whole
process, and a supervisor starts it again.

What is hard, and where each is covered, is the list `hazards` of
`PROJECT.json`. In short: lost wake-ups and stale tickets in the report queue;
the order of a challenge's digits and the frame that arms it; checking room in
one call and using it in the next; an endpoint nobody reads; reports that
survive a detach; a report ringed beside a parked read; reconnecting exactly
once, and pulling the right cable; a handle two threads want to close; crashes
between two writes of storage; chains of spends and receipts; a build cut
anywhere, or linked with the objects of another.

What makes each part correct:

- *report queue*: a ticket tells the truth about its report, nobody sleeps
  through his wake-up, each interface is first in first out, a wipe is complete.
- *press queue*: no digit is lost, doubled or swapped; a line is queued whole or
  not at all; every accepted press is dispatched.
- *both*: a press queued after an awaited write is dispatched after that frame.
- *gadget*: order, no report from before a lost host once the loss was noticed, no false "host absent", no
  queue that waits for ever.
- *Windows ring*: no stranded report, every report read once.
- *Windows pipe and link*: one party closes a handle, the next device finds its
  name free, the client comes back.
- *GUI socket*: messages in order, one reattachment per loss.
- *relay*: one firmware at a time, no cable without a firmware but for one the
  kernel would not unbind, nobody but that firmware pulls it, both ends agree on it,
  the daemon comes back.
- *lifecycle and storage*: what was stored survives any end of the process, a
  reset is not undone, a reboot does reboot.
- *Edge*: at most one debt, no use beyond a budget, no result before its link is
  saved, one history per device id, and a record that any crash leaves readable.
- *staging*: an edit is applied whole or the build stops, a measured release
  stages for every target, the record tells the tree, the compiler is given the
  release asked for, objects of two builds are never linked.

## 2. Modules

| module | models | properties |
|---|---|---|
| `UsbOut` | what a USB key's two OUT endpoints promise (abstract) | implemented by `HidQueue` |
| `HidQueue` | the report queue, its host threads, the firmware's receive | below |
| `HidQueueProofs` | | its theorems, `DeviceInput`'s, and the refinement of `UsbOut` |
| `PressQueue` | the press ring, the sense round, Node, press.js and Android hosts | below |
| `PressQueueProofs` | | its theorems |
| `DeviceInput` | `HidQueue` and `PressQueue` on one firmware thread | below |
| `Gadget` | one interface of the gadget bridge, the cable, the respawning daemon | below |
| `GadgetProofs` | | its theorems |
| `WinRing` | the driver's ring, parked reads and drain | below |
| `WinPipe` | the driver's pipe thread, its writers, its stop, the named pipe | below |
| `OkvhidLink` | `WinPipe` with the emulator's link at the other end | below |
| `WindowsProofs` | | the theorems of `OkvhidLink` and of `WinRing` |
| `IpcLink` | both ends of the GUI socket and the wire between them | below |
| `Relay` | a daemon's remote bridge, the network, the relay and its gadget | below |
| `RelayProofs` | | its theorems |
| `Lifecycle` | the process, the firmware thread and the storage, under pm2 | below |
| `DaemonProofs` | | the theorems of `Lifecycle` and of `IpcLink` |
| `Edge` | the Edge plugin on its key: chain, debt, budgets, press, flash record | below |
| `EdgeProofs` | | its theorems |
| `StageTables` | the literal edits of every release, as data | read by `StageEdit` |
| `StageEdit` | one stage run on the text of a tree | below |
| `Stage` | stage runs, builds and the matrix on the disk | below |
| `StageProofs` | | the theorems of `Stage` and of `StageEdit` |
| `MC*` | model values for TLC | |

### HidQueue

An action is one critical section of the HAL mutex (or, for the two event-loop
ends of a call, one callback). A wait on a condition variable gives the mutex
up, so a sleeping thread is a state: `fw = "asleep"`, `pc[c] = "asleep"`.
`Deliver` is the push of `okemu_hid_deliver_ticket`; `Notify` is the
`notify_one` that follows its unlock, and the decision of the caller to wait;
`WaitTaken` evaluates the predicate of `okemu_hid_wait_taken` with the mutex
held, on entry and after every notify; `Deadline` is `wait_for` running out, and
answers with the predicate, as `wait_for` does. `Recv`, `RecvSleep` and
`RecvTimeout` are the three ways through `okemu_hid_recv`. `WipeHid` and
`WipeSeremu` are the two halves of `wipe_usb_buffer`. A report is its interface
and its number on that interface; for a vendor report the number is the ticket.
`pushed`, `log` and `wipeMark` are history.

`UsbOut` is the contract the comment in `ok_hal.cpp:830-846` refers to: an OUT
transfer completes when the device accepts it. Its transfers complete when their
report has left the endpoint and expire only while it is in it, and its FIDO
endpoint is served first. The refinement mapping splits the deque by interface.

### PressQueue

A press is the serial number of its acceptance. `host` chooses the process the
emulator runs in. A Node host checks the room (`CheckLine`) and queues
(`QueueLine`) in two native calls, between which the firmware may take presses;
press.js's run becomes one checked line per press (`CheckRunPress`,
`QueueRunPress`); Android queues at once. `SenseRound` is one round of the
firmware's loop from the injected `okemu_press_take` on: a held press blocks the
hand-over and leaves once the pads have been idle for three rounds.

### DeviceInput

`HidQueue` and `PressQueue` side by side. A report the firmware has taken is
processed before the loop polls again, wipes or runs a sense round - the sketch
has one loop - which is what the module's `inhand` says. The property
`PressAfterFrame` is the reason `writeHidTaken` exists.

### Gadget

JavaScript runs one handler at a time: `Send` (the stream listener and all of
`_drain`), `RetryTimer`, `Unplug`, `Plug`, `Shutdown`, `Respawn` are handlers.
The kernel endpoint `ep` and the host's link are external and move between
handlers. `stalledSince` is kept as *no*, *young* or *old*, `STALL_DROP_MS`
being the only distance the code tests; `StallAges` is the passing of that time.
Opening the nodes and binding the UDC may fail; the daemon then runs without a
bridge (`bridge`), or with a bridge that has no open node. An unbinding may fail
as well, with the nodes closed already. `cut` is the last report sent when a host
was last lost, by a detach of its own or by the cable, and `tried` whether the
daemon has since tried a write (only a failing write tells it); both are history.

### WinRing

The critical sections of the driver's spin lock, and the steps outside it:
`Park` moves a request to the manual queue, `Complete` completes a request. The
pipe thread pushes; readers pop, park or drain. Requests are alike and counted.

### IpcLink

An event handler is one action. A connection has an end on each side; each
learns of the other's closing later. Messages are numbers, so order and loss are
visible. The daemon may die at any moment and be respawned, the GUI may be
closed and opened. `timers` counts the reconnect timers outstanding.

### Edge

The firmware runs one handler at a time, so an action is a handler up to its
first flash write, and `job` lists what it has still to do: save, weld (save the
link, hold it, tell the host), serve the result, the next turn of a loop. A power
cut may fall between any two of them (`Restart`) or inside a write
(`TornWrite`), and loads the newer of the two sectors that can be read.

A head is a hash over everything before it, so it is modelled as the chain
itself, and comparing heads is comparing histories. A link keeps what tells
links apart: the operation, its budget, its step, what it refers to. A device id
is the number of its salt. The core keeps one operation waiting (`wait`), for
which either `pend` (a sign or decrypt) or `press` (an OKEDGE request) holds
Edge's part; a second request replaces the first. `token` is the TX start. A
budget that expires leaves RAM at once (`Expire`), and may do so between any two
steps, also between the two looks of one call; `alive` does the same by comparing
modulo 2^32 ms, so that a lapsed budget that is still in its slot 49.7 days after its
press would look alive again: a bound of the model. `lapsed` is history: a budget ended in the
middle of the call it was to pay for. `verified` is whether the host's idea of the
head is the key's.

`sections` is what a backup made after each link would hold, `shown` what the
host has been told under each device id, `erased` the ids a wipe has begun to
erase; they are history, and no action of the key reads the last two.

### WinPipe and OkvhidLink

`WinPipe` is one interface of the driver. `pc[d]` is where the pipe thread of
device `d` is in `OkvhidPipeThread`, `stopPc[d]` where `OkvhidPipeStop` is; an
action ends at a system call, an interlocked exchange or a section under
`PipeLock`. `Take` is the interlocked claim of the listening handle, which the
thread (`Claim`) and a stop that gave up on it (`StopCloses`) compete for;
`StopGivesUp` is the end of its 3 s, after which the thread is abandoned. The named pipe is
external and has one instance: `inst` is whose handle it is, `peer` its client.

`OkvhidLink` adds one `Link` of `okvhid-bridge.js` with the daemon's `start`,
`plug`, `unplug` and kill. A link may own more sockets than the one it knows
(`sock`), and every one of them calls its handlers.

### Relay

Both ends are event loops; a message, a timer or a close is an action. `up` and
`down` are what each connection carries; `fin` closes a direction; `Break` loses
what is on its way. `far[c]` is the relay's idea of a connection: *closing* is a
destroyed socket whose close event is still to come. A plug or unplug has four
outcomes (`Fates`): done; no controller to bind to, by when the first plug may have
unbound the gadget from another; bound but its nodes not opened; nodes closed but
the kernel refuses to unbind. `jammed` is history: the last unplug was of the fourth
kind. Commands that change nothing are left out.

### Lifecycle

`file` is what each of the two files holds, as far as the properties tell it
apart: sized but not filled, blank, stored before a reset, stored after it. The
firmware's shutdown is three steps on its own thread (`SaveEeprom`, `Unmap`,
`RestartSink`), a factory reset three on the JavaScript thread (`ResetBegins`,
`ResetFlash`, `ResetEeprom`): `Hal::mu` is held by the reset and by an EEPROM
byte, not by the shutdown nor by the flash, so they interleave as the code lets
them. `host` is who the process is: the daemon under pm2, or a program run by hand,
as `test/smoke.js` and `test/taken.js` are, which calls `stop()` (`StopSave`,
`StopUnmap`) beside the running firmware and exits. After that the firmware's
EEPROM bytes go to memory only, and its next access to the flash may fault
(`FlashFaults`). `asked`, `kept`, `whole` and `wiped` are history.

### StageTables, StageEdit, Stage

`StageTables` is the edit lists of `scripts/stage.js` and of every file of
`scripts/versions/`, line by line as names: what is looked for, for which
targets, and whether the line looked for is still there afterwards. `StageEdit`
runs `main()` over a tree, which is the set of those lines it carries, and the
switches of three headers: the gates, then patch after patch, with every throw,
every declared absence and every exit code. The sources of the releases are not
in this repository, so a tree is what its script says was measured, or differs by
one line or one file lost or back, or one line there in a second spelling
(`Drifts`). What the tables and those trees are like is stated
beside them as four assumptions, which TLC evaluates in full at every start:
`TablesAssumption` (their shape), `EditsApartAssumption` (no line is looked for by
two edits of one run), `TreesAssumption` (no tree, drifted or not, has a line of
a file it has not got) and `ScriptsAgreeAssumption` (in a
measured tree, absent is what is declared absent, and every declaration is looked
for by some patch of every run). They are about fixed definitions, with no bound
and no constant to choose.

`Stage` is what runs leave on the disk. A step is one removal, one write or one
repository; a run may be killed between any two, a re-pin may come at any time,
the compiler may relink what it did not recompile, and `matrix.js` drives runs
of its own and puts the tree back.

## 3. Runs

| run | question | bounds |
|---|---|---|
| `hid_queue` | do tickets, wake-ups and the wipe hold, and is the queue two USB endpoints? | 2 host threads, 2 reports on each HID interface, 1 SEREMU byte |
| `press_queue` | is a digit ever lost, a line ever split? | ring of 3, lines up to 4, 7 presses |
| `device_input` | can a press overtake the frame before it? | 2 threads, 2 vendor and 1 FIDO report, ring of 2, 2 presses |
| `gadget` | order, stale reports, stalls | queue of 2, 3 tries, endpoint of 1, 5 reports |
| `win_ring` | can a report be stranded, skipped or read twice? | 2 readers, ring of 2, 2 requests, 5 reports |
| `okvhid_link` | who closes the handle, does the name come free, does the client come back? | two devices with two starts and one socket, or one device and two sockets; 1 frame in the pipe |
| `ipc_link` | does the daemon always come back, in order? | 2 connections, backlog of 2, 5 messages |
| `relay` | whose is the cable, and does the daemon come back? | 2 connections, 3 commands, 4 faults, 1 report on a channel |
| `lifecycle` | is what was stored kept, what was erased gone, and does a reboot reboot? | 2 faults |
| `edge` | does the debt follow the chain, a budget keep to its caps, a device id to one history, whatever is cut, wiped or restored? | 2 budgets, ring of 2, handlers start with at most 3 links, 2 salts, 1 cut |
| `stage_edit` | is an edit ever half applied, is a line lost or back passed over, and does every release stage? | every release, target and gate; one line or file of drift, or one line in two spellings; every header for one release |
| `stage` | are two builds ever mixed, and does the matrix put back what it took? | 3 runs, 1 kill, each pin moved once; one release, the working tree, two kinds of build, plugins or none |

What each shows, property by property:

- `hid_queue`: `TicketTruth` - a ticket is reached exactly when its report has
  left the deque; `NoLostWakeup`; `WipeIsComplete`; `WaitSettles` - a waiting
  thread gets its answer; `ActsAsUsbOut` - the refinement of `UsbOut`.
- `press_queue`: `NoDigitLost`, `LineIsWhole`, `PressesArrive`.
- `device_input`: `PressAfterFrame`.
- `gadget`: `HostOrder`, `CableIsClean` - once a write was tried after
  a host was lost, nothing from before the loss is on its way to the next; `AbsentOnlyIfStalled`; `QueueEmpties`.
- `win_ring`: `EveryReportOnce`, `ReportsArrive`.
- `okvhid_link`: `OneCloser` - exactly one party is going to close an open
  handle; `NameComesFree` - a wedged thread does not keep the name;
  `Reconnects`.
- `ipc_link`: `HeardInOrder`, `Reattached`.
- `relay`: `OneFirmware`; `CableNeedsFirmware` - with no firmware the nodes are
  closed, and the cable is out unless the kernel refused to unbind it when its
  firmware went; `CableHeld` - a late close of a
  superseded connection does not pull the cable; `CableAgrees` - when nothing is
  on its way both ends have the same idea of it, also after a plug that failed
  half way; `ComesBack`.
- `lifecycle`: `StoredIsKept`, also over a program's `stop()`, for what was
  stored before it; `WipedStaysWiped`; `Reboots`.
- `edge`: `DebtFollowsChain`, `NoSecondHistory`, `BudgetKept`, `ServedIsLinked`;
  `FreeOnlyIfLapsed` - a primed request runs with neither press nor link in one
  case only, a lifetime that ends between the two looks of that call.
- `stage_edit`: `NothingHalfApplied` - in a tree that goes to the compiler every
  edit whose line was in the copied tree is made, in the first spelling there, and
  every other one's line or file is declared absent; `ReleasesStage` - the scripts agree with each
  other: no claim of one is stale for any target or gate; `RecordTellsTheTree`.
- `stage`: `ObjectsOfOneBuild`, `CompilesWhatWasAsked`, `MatrixPutsBack`.

Why the bounds are enough. Two waiters are the least with different tickets, and
two reports of each interface let a FIDO report overtake a vendor report and a
ticket be compared with the wrong one. A ring of three is lapped twice by seven
presses, and lines of up to four are refused by an empty ring too. Five reports
through a queue of two overflow it and still leave reports to send after a
detach. Two readers and the pipe thread are the three drainers that can meet.
Two connections are a device and the one that supersedes it. A device and its
successor are what an abandoned thread and the next one need to meet at the
name; two sockets of one Link need no second device, so the two are explored one
at a time (`Bounds`). Four faults are a plug that fails, a break, an exit and one
more. Edge's links are enough for a budget, a use, its receipt and the next use
or the completion, with a second budget to be ended by a settle; the second salt
is the restored key's. Each life has one power cut, and a wipe and restores
beside it. A backup made before a wipe is not restored after it, and a restore
waits until the last one was taken into use: both are bounds. Three runs are a
killed one, one of another kind and the one that may link what they left, or a
matrix's two builds after one by hand. Counters that would grow for ever (reports, presses,
messages, runs) are bounded in the guards by the `Max...` constants; nothing
else is. Deadlock is checked wherever the system cannot stop; where it is not
(`CHECK_DEADLOCK FALSE`) the bounded inputs run out and everybody is idle, the
relay has refused the daemon, or a stage run has ended.

### Fairness

`hid_queue`: the firmware's main loop never stops polling (weak fairness of
`Recv`, `RecvTimeout` and the second half of the wipe) and a thread that is not
blocked runs. Nothing is assumed of a deadline or of the host: `WaitSettles`
holds by the firmware's progress alone. `press_queue`: the firmware's scheduler
keeps running the sense round, and no finger stays on a pad for good - counted
holds run out. `gadget`: timers fire and time passes; the host may never read.
`win_ring`: driver threads run and HIDCLASS keeps a read outstanding, as it does
on an open collection. `okvhid_link`: the threads of the driver run, and whoever
waits for `PipeLock` gets it although the host may write all the time - the lock
is a KMDF wait lock, which serves its waiters in turn, hence strong fairness of
the pipe thread; a delivery may never end, no client has to read, and nobody has
to release or start a device. `ipc_link` and `relay`: both event loops run and
their timers expire; nobody has to speak, die or come back. `lifecycle`: threads
run, and pm2 respawns what it is to keep online (`autorestart`, no cap);
no store and no command has to happen. `edge`, `stage_edit` and `stage` check
safety only and assume none.

### Divergences

Where the code does not do what its own words or its other half say. Each is a
behaviour of the model; the named property states the expectation and is kept in
its module, in no run.

- `press.js` sends a run of presses as single commands, so a ring with less room
  than the run takes its first presses only (`press.js:127`, against 79-80);
  `PressQueue!RunIsWhole`.
- `writeHidTaken` resolves `true` for a report the unlock wipe threw away: a flush
  releases its waiters by counting the flushed reports as taken (`ok_hal.cpp:937`,
  against `index.js:255`); `HidQueue!TrueMeansTaken`.
- With the host counted absent, `send()` lets every error but `EAGAIN` out of the
  stream listener, so a host that leaves the bus makes the next report an
  exception, where the queued path discards it (`gadget-bridge.js:166`);
  `Gadget!DetachIsQuiet`.
- A certification paid by a budget is linked as owing a receipt, but `weld_in`
  records a debt only for signs, decrypts and derives (`okplugin_edge.cpp:820`);
  `Edge!EveryUseOwes`.
- `okplugin_edge_refused` (1417) and `okplugin_edge_decision` (1364) of
  `okplugin_edge.cpp` read the clock one after the other. A budget whose lifetime
  ends between the two passes the first look and fails the second, and the request
  runs with neither a press nor a link, which the comment at 1400-1403 says it must
  never; `FreeOnlyIfLapsed` holds it to that one case.
- A host that leaves the bus and is back before the daemon next writes - one retry,
  1 ms, if reports are queued - still gets what was queued before it left: only a
  write that fails with `ESHUTDOWN` empties the queue (`gadget-bridge.js:232-237`,
  against its "stale reports must not surface on re-plug").
- `unplug` closes the nodes and then writes the UDC file; if the kernel refuses, the
  relay logs it and the gadget stays bound, with nobody serving it and, if its
  firmware had gone, with no firmware, until another comes and unplugs
  (`gadget-bridge.js:432-435`, `relay.js:61`, against `relay.js:13`); the `jammed` in
  `CableNeedsFirmware`.
- A line that a tree has in two spellings an edit knows is replaced in the first
  only, and the other is compiled as it was, without a word
  (`stage.js:1663-1668`); `Made` says which one.
- `versions.list()` also names `gen-fixes` and `fixes-3.1.0`, which are no releases:
  a matrix run that is asked for nothing ends before its first build
  (`versions/index.js:150`, against `matrix.js:5`); `Stage!MatrixIsEveryRelease`.
- A relay whose first plug binds the controller and then fails leaves `started`
  false, and `unplug` of an unstarted bridge does nothing: the cable stays in with
  no firmware until a later plug succeeds (`relay.js:49`, against 13). Hence the
  `started` in `CableNeedsFirmware` and `CableAgrees`.
- `plug()` while a retry timer is pending dials at once and leaves the timer: two
  sockets of one Link, the first of which nothing closes but the other end; a
  `close` event of the old socket then clears the new one (`okvhid-bridge.js:339-341`,
  108). `Reconnects` holds all the same, and no property forbids it.
- A write that times out marks the pipe disconnected, while the reader keeps its
  client: output reports are dropped until that client leaves, which the comment
  at `bridge.c:225-226` expects the reader's own failure to end. After an
  abandonment a HID write may still use the handle the stop has closed.
- A factory reset that a `CPU_RESTART` overtakes finds the flash unmapped: it wipes
  nothing of it, or faults on the way (`ok_hal.cpp:454`). The firmware may also
  store again between the reset and the `SIGKILL`, which is why `WipedStaysWiped`
  is about what was stored before.
- A backing file that was sized and not filled is taken at the next start as it is,
  all zeros (`ok_hal.cpp:135-153`); *zeros* in `Lifecycle!Contents`.

## 4. Proofs

`HidQueueProofs` proves, for every set of host threads and every number of
reports, that `Spec` implies each safety invariant of the `hid_queue` run. The
invariants are not inductive as stated; `IInv` adds that the history agrees with
the counters (`CountsAgree`), that one interface's reports sit in the deque in
the order they were pushed (`DequeOrder`) and behind everything the firmware
already has (`LogOrder`), and that nothing in the deque is older than the last
wipe (`WipeInv`, stronger than `WipeIsComplete` in the middle of a wipe). The
heart is `TicketTruth`: the vendor reports in the deque are exactly those
numbered above `vendor_taken`. A push adds the next number and a take removes
the least, because the deque is ordered per interface and the report picked is
the first of its interface; a flush empties the deque and moves the counter to
the end. The wake-up properties then follow action by action: whoever moves the
counter also wakes every sleeper, and a thread only goes to sleep with the
predicate false. Assumed: the bounds are natural numbers.

The same module proves `PressAfterFrame` of `DeviceInput`, over any press queue. Its
invariant `OrderInv` follows a challenge from the report to the digits: a frame
that has been taken is processed, wiped or in the firmware's hand (`FramesTaken`),
a write answered *taken* is of a frame that has been (`AnsweredIsTaken`, which
rests on `TicketTruth`), and a press was queued on answers of frames taken by then
(`BasisAcked`). A press is handed over only by a sense round, and the firmware's
one loop runs no round with a report in hand, so every frame it counts on has
been processed or wiped. `PressNumbers` is all that is needed of the ring: it holds
presses that were accepted. Assumed besides: a positive depth and natural bounds.

And it proves that `HidQueue` implements `UsbOut` in every step (`ActsAsUsbOut`).
`ReportsOf` lists an interface's reports by their places in the deque in rising
order; the list exists and is unique (`ListExists`, `ListedEqual`: two lists of the
same places agree up to their first difference, which cannot be). From that, a
push appends to one list and leaves the other, a take of an interface's first
report takes the head, any other removal does not concern it, and a flush empties
both. Then every action of the queue is a send, a take, an answer, a deadline, a
reset or a stutter. A deadline may only pass a report that is still queued, which
is `TicketTruth` again, with `TicketIssued`: a waiting thread's ticket has been
issued.

`PressQueueProofs` proves type correctness, `NoDigitLost` and `LineIsWhole` for
every depth, line length and number of presses. `NoDigitLost` needs that the
ring's indices agree (`RingAgrees`: the tail is `count` slots after the head);
`LineIsWhole` needs `RoomLasts`: the room a line was checked for is still there
when it is queued, because only the firmware runs in between, and it only makes
room. Assumed: a positive depth and natural bounds.

`DaemonProofs` proves type correctness and the two invariants of the
`lifecycle` run for any number of faults. `OpenAt` ties what is open to where the
start, the firmware's shutdown and a program's `stop()` are; `KeptInv` adds to `StoredIsKept` that the
copy in memory is as new as the file until the shutdown has saved it, and that a
reset has dropped its claim on the EEPROM before it erases; `WipedInv` adds that
the copy in memory is not old either, which is what makes the shutdown's save
harmless, and that the flash is erased between the two halves of a whole reset.
Assumed: the bound on faults is natural.

The same module proves the action property `HeardInOrder` of `IpcLink`, for any
number of connections and messages and any `MaxPending`. `IpcInv` puts everything
unheard in one order: what is on the device's connection, then on each queued
connection in the backlog's order, then what the peer holds back (`OnWires`,
`Across`, `HeldBack`; `Below` says that one sequence ends before another begins).
It stays in order because the peer only writes to the connection the host reads
last (`SockIsLast`), and holds nothing back while that one takes what it says
(`OneSocket`): a greeting goes behind everything, `ready` behind the greeting, and
dropping, superseding, dying and refusing only remove something. The ends of a
connection are forgotten together (`BothEnds`), so a new one starts empty. Assumed:
`None` is no connection.

`RelayProofs` proves `OneFirmware`, `CableNeedsFirmware`, `CableAgrees` and the action
property `CableHeld` for any number of connections, commands and faults. `RelayInv` adds
that a relay which does not run has no client, no connection and no started
bridge, and that open nodes are those of a bound gadget. `CableHeld` follows step by step: a hello only plugs, a plug or unplug is
read from the client's connection because of `OneFirmware`, a close pulls the
cable only if it is the client's, and then no accepted connection is left.
`CableAgrees` is about a quiet line; `CableTold` says what holds of a busy one: the
last word on the cable on its way to the bridge is the truth, and if there is none,
the bridge knows the truth or has asked since, its question on the way - unless the
connection's end is. So a command overtaken by an older answer is put right by its
own answer, and `relay.js` answering a plug that failed too is what it depends on.
Assumed: `None` is no connection.

`GadgetProofs` proves type correctness, `HostOrder`, `CableIsClean` and
`AbsentOnlyIfStalled` for queues and endpoints of any size and any number of
reports. What the daemon still holds, read from the endpoint to the end of its
queue, is one `Line`: strictly increasing, newer than what the host has read
and no newer than the last send. A write moves the line's boundary, a full queue drops
the oldest from the middle of it, an unplug empties it, and a restarted daemon
begins with an empty one. The line is newer than the `Floor`: nothing, until a write
was tried after the host was lost, and then what was last sent before that. Such a
try empties the queue, and the endpoint is empty while there is no host
(`GoneHoldsNothing`), so nothing older can be left. That needs
`AbsentHasNoQueue`, because a host counted absent is offered reports directly
(they join the line's end only if nothing is queued). `AbsentOnlyIfStalled` needs
`TriesWereRefused`: a detach forgets the refusals and keeps the tries, but it
leaves the endpoint empty, and the next accepted write forgets the tries too.
Assumed: positive sizes, natural bounds.

`WindowsProofs` proves `OneCloser` for any devices, sockets, starts and stops
that give up. The sum of the claims is at most one only because a thread is alone
in its loop (`ThreadAlone`), so that the handle it creates is no one else's, and
because a device is stopped only after its release (`StopAfterRelease`), so that a
prepare cannot race a stop's claim; `OneOf` is the claim without the arithmetic.
Of the driver's ring it proves `EveryReportOnce`, for any depth, threads and number of
reports. `RingIsNewest` says that the slots from the oldest on hold the newest
reports in their order, so that the one popped or overwritten is the next number
and was never out before; `HandIsReport` that a thread has a report exactly while
it is about to complete a request. Assumed: `None` is no device; a positive depth.

`EdgeProofs` proves type correctness and every safety invariant of the `edge` run,
for any requests, offers, sizes and number of restarts. Its parts build on
each other. `InStep` says what a restart loads: outside a write, the record the
key works on; during one, the record before it, whatever is torn. It rests on each
sector holding records of its own parity. `Fresh` says that a restored key pays,
asks and links nothing before its continue link. `History` says that what was
shown under a device id is a beginning of what the RAM *and* the flash go on with,
which a cut between the two would otherwise break. `Accounts` is the debt: each
chain has one account of its debts (`Ledger`) that follows the rule `After`, no
use starts on a debt, and the `owed` of the record, in RAM and in each readable
sector, is where its account ends. That the account is unique is what lets
`DebtFollowsChain`, which speaks of the recursive function, be concluded. `Paid`
ties the work left in a handler to the last link. `Spent` is the budgets: each
chain, in RAM and on the flash, has every use paid by the budget then open
(`Kept`), and each live budget is the one its chain opened, still standing, its
counts those of the chain (`Open`). `FreeOnlyIfLapsed` follows call by call: what
the first look found pays at the second unless it left RAM in between, and only
`Expire` takes a budget out in the middle of a call.
Assumed: `EdgeAssumption`, the types of the constants.

`StageProofs` proves `ObjectsOfOneBuild`, `CompilesWhatWasAsked` and the action
property `MatrixPutsBack` for any release scripts, re-pins and kills.
`MarkerLast` says that a directory of objects is emptied before the marker names
their build, so a kill between the two leaves a marker that sends the next run
back to empty them; `StampLast` that a cache's stamp equals the script's pin only
over whole sources of that pin; `UnpackedSoFar` and `TreeSoFar` what the steps of
one run have established when it is killed; `EndedWell` and `LastBuild` connect
the run's exit code with what the matrix does next. Assumed: the names of releases
are strings.

The same module proves `RecordTellsTheTree` of `StageEdit`, for any set of requests
and any header. `EditInv` says, gate by gate, what a run that still exits 0 has
established: after `gateDebug` the header's switch is what was returned
(`DebugIsKnown`), and after each later gate what that one is for (`LayoutsFollow`,
`EnforcesAsSaid`, `DuoIsMade`). The edits and the registers touch none of it, and no
step puts the exit code back to 0, so an unreadable gate, which does not stop the
run, is never recorded as a passed one. Assumed: `RequestsAssumption`, what the
environment variables and a header can hold.

It also proves the two invariants of the literal edits, for any set of requests.
`EditsDid` is what the first n edits of a patch do to the lines of its file, by
least counterexample over the recursive function `Edits`: no other line changes, a
line looked for is replaced in its first spelling there (`Made`), `gone` and `stale` are the edits
whose line was not there, or was there and should not have been. That an edit
finds what it would have found in the tree as it was copied is where two edits
must not look for the same line. `NothingHalfApplied` follows along `LinesInv`:
the patches of this target before the next one are done, the others still have
their lines as the tree had them (`InOrder`), and with an exit code of 0 none of
them looked in vain for a line its release does not declare absent. Nothing of it
depends on how a tree drifted, nor on which spellings it has. `ReleasesStage` follows along `StagesInv`: in a
measured tree what a patch looks for is there or not as it was before the run
(`MeasuredLines`), so no claim is stale and no line is missed; every patch before
the next has added what it looks at to `seen`, applied or not, so that at the end
nothing declared was overlooked; and what the gates refuse stays the reason it was
(`Refused`). Assumed: `RequestsAssumption`, `DriftsAssumption` (a request's drift is
one of its release's) and the four assumptions on the tables (section 2). `ScriptsAgreeAssumption` is a comparison of lists, one release at a
time; what the theorem adds is that a run keeps to it, patch by patch, whatever
gates, header and order it meets, and that nothing else can refuse a release.

What is only model-checked: the liveness properties (`WaitSettles`,
`PressesArrive`, `QueueEmpties`, `ReportsArrive`, `Reattached`, `ComesBack`,
`NameComesFree`, `Reconnects`, `Reboots`) and every use of fairness. Every
invariant and every action property of the runs is proved. What the tables of the
literal edits are like is evaluated by TLC, not proved.

## 5. Not modelled

Reports' contents, chunking and padding; logging; the wording of messages. Of
the gadget bridge, its receive polling. Of the Windows driver, a reader whose
buffer is too small (HIDCLASS sizes its buffers from the descriptor) and the
feature cache; of the link, a frame that lost its boundary and `start()` over four
interfaces at once. Of the GUI socket, the commands it carries and the probe of a
stale socket file. Of the relay, the capture file. Of the lifecycle, the systick
thread, the register block's protection, the choice of a bridge at start and the
bus half of `powerOff` and `powerOn`; two processes on one storage; a `start()` after
a `stop()` in one process, because no host of the repository does both (Android
refuses it, the daemon exits); what a `stop()` does to the callbacks the firmware
still calls, and to an EEPROM byte that is half way through the file when it is
closed. Of Edge, the staging of labels, the intents, the answers
collected over WebAuthn, the signatures and the count of refused TX starts; an
interrupted wipe is modelled, but an id it has begun to erase is outside
`NoSecondHistory`. Of the staging, the renamed headers, the digest and its
expectation, the plugins' own hooks, retries on a locked file and
`firmware.json`; two stages of one checkout at the same time.

Whole components: the sensed buttons (a countdown on one thread, whose meaning is
the sketch's), registers and clock (one thread writes one word), the keyboard's
control channel and the UHID bridge (one answer for one kernel request), the
other firmware plugins (one reply for one request), the desktop UI and the
compile-time shims.

## 6. Plan

In this order:

1. `Touch`: counted holds, rounds and the press the loop makes of them.
2. The commands of the GUI socket over `Lifecycle`: the four that may overlap an
   exit.
