# TLA+ models of quick-start

quick-start is a collection of small C programs for embedded Linux devices:
kernel modules that filter or measure traffic, a driver that passes events to a
process, two interrupt drivers, and some user-space tools. This directory holds
TLA+ models of the parts that keep state, the TLC configurations that check
them on small instances, and theorems about them that TLAPS proves for every
instance. `PROJECT.json` lists runs, mutants, theorems, hazards, findings, and
the source lines behind every definition.

    tlc -workers 2 -config maclimit_smp.cfg MCMacLimitTable.tla
    tlapm MacLimitProofs.tla

## 1. The system

| component | state | operations | what is hard |
|---|---|---|---|
| **maclimit** (`dirver/maclimit/maclimit.c`) lets at most *num* LAN devices through | list of admitted MACs under a rwlock; configuration; one-slot mailbox `new_terminal` with an atomic flag; a kernel thread | `net_hook_func` (packets), `arpin_hook_func` (ARP answers), `limit_check_func` (thread: add, or probe by ARP and replace), proc read/write, `nf_init`, `nf_cleanup` | hooks on several CPUs against the thread, hand-made sleep and wake-up, probe timeouts, decisions on outdated lengths, load and unload with traffic |
| **keyevent** (`dirver/keyevent`) passes key events to a process | two buffers with lengths, `trigger_status`, a wait queue; the process's receive buffer | `set_trigger_...`, `get_trigger_...`, `poll`, `read`, `write`, init/exit; the `board_event` loop | wake before the condition is set, events overwritten, buffer tails |
| **speedtest** (`lab/net/speedtest`) sends packets round a loop and counts them | two configurations with status and task pointer, a compute task, a kfifo, a timer, two hook pointers, `st_ready` | command, two sender threads, compute thread, probe timer, receive and transmit hooks, show, init/exit | threads that clear their own pointers while others stop them, hook pointers set by two parties, a timer re-armed by its callback, 32-bit arithmetic |
| **char_drv_demo** two key drivers | `key_val`, `ev_press`, async queue | interrupt, read, poll, fasync, open/release | interrupt between the statements of read |
| **httpredirect**, **pktconntrack** netfilter hooks | enable flag and URL | hook, proc write | configuration read while written |
| **des3** encryption tools | none beyond a run | pad, encrypt, decrypt | block and buffer boundaries |
| scripts, `tcpcs`, `hack`, `asm`, `py` | none | copying files, exercises | nothing that a model would show |

The kernel modules do not interact with each other. Inside maclimit the parts
interact through shared memory: hooks fill the mailbox and wake the thread; the
thread changes the list the hooks walk; the ARP hook answers the thread through
the mailbox's flag; the proc file changes the configuration the hooks read.
keyevent's driver and process interact through poll and read. speedtest's parts
interact through task pointers, hook pointers, the kfifo and the timer.

What makes each part correct:

- maclimit: the number of admitted devices stays bounded by the limit; a
  request that is accepted is served; a device that answers is not evicted; the
  list is never changed under a reader; the mailbox hands over whole nodes; a
  loaded module works, and can be unloaded.
- keyevent: an event set is an event seen, unless a newer one replaces it; the
  process sees the event's bytes and no others; no lost wake-up.
- speedtest: at most one test runs; after a command that starts one, its packets
  are counted; every stop returns; pointers never refer to a thread that ended.
- char_drv_demo: a process told by a signal ends up with the level of the key; a
  value nobody has read is announced; no handler outlives the last file.
- httpredirect: a packet is redirected by a URL somebody configured.
- des3: unpadding undoes padding for every length.

## 2. The modules

| module | models |
|---|---|
| `MacLimit` | hooks, thread, mailbox, list and configuration of the loaded maclimit module |
| `AdmissionTable` | abstract specification: claims on slots of a table of bounded size |
| `MacLimitTable`, `MCMacLimitTable` | refinement mapping from `MacLimit` to `AdmissionTable` |
| `MacLimitModule` | `nf_init` with its error paths and `nf_cleanup`, composed with `MacLimit` |
| `MacLimitProofs` | theorems about `MacLimit`: its own properties, the refinement, the bound on the list |
| `MacLimitModuleProofs` | theorems about `MacLimitModule` |
| `KeyEvent` | keyevent: a kernel caller, the driver's poll and read, the `board_event` process |
| `KeyEventProofs` | theorems about `KeyEvent` |
| `SpeedTest`, `MCSpeedTest` | speedtest: commands, sender threads, compute thread, task pointers |
| `SpeedTestProofs` | theorems about `SpeedTest` |
| `SpeedTestDetect` | `SpeedTest` composed with timer callback, probe and transmit hooks, load and unload |
| `SpeedTestDetectProofs` | theorems about `SpeedTestDetect` |
| `SpeedTestTraffic` | `SpeedTest` composed with the packets of a test, the queue and the counters |
| `SpeedTestTrafficProofs` | theorems about `SpeedTestTraffic` |
| `KeyEventDevice` | keyevent from insmod to rmmod, and its other direction: write and get_trigger |
| `MacLimitProc` | the parser of maclimit's proc file |
| `IrqSig` | the key of `irq_sig.c`: handler, files, readers |
| `DeviceProofs` | theorems about `KeyEventDevice` and `IrqSig` |
| `HttpRedirect` | httpredirect: the hook against writers of the proc file |
| `DesPadding` | paddings and message lengths of the des3 tools |
| `LabProofs` | theorems about `HttpRedirect` and `DesPadding` |
| `MCParts` | harness that checks the modules above that share nothing, side by side |

### MacLimit

Every CPU that runs softirqs has a program counter `pc[c]` through its hook and
the locals the hook uses (`pkt`, `seen` = `connect_num`, `mode`, `todo`); the
thread has `tpc`, its task state `tstate`, and its locals. A step is one access
to something shared, so every interleaving of loads and stores is explored:

| code | actions |
|---|---|
| `net_hook_func` 228-266 | `NetIn` (read_trylock), `ScanHit` or `ScanMiss` (walk and unlock) |
| 268-280 | `Decide` (the comparison, *after* the unlock) |
| `send_add_opt_to_thread` 204-211 | `PostFree`/`PostBusy` (flag test), `StoreField`, `SetFlag`, `Wake` |
| `arpin_hook_func` 317-322 | `ArpIn` (flag test), `ArpMatch`/`ArpOther` (memcmp), `ArpCredit`, `Wake` |
| `limit_check_func` 138-153 | `ReadFlag` (`ThreadExit`, the end of the loop, is in `MacLimitModule`) |
| 155-169 | `ArmFlag`, `ArmMac`, `SendProbe`, `ProbePark`, `ProbeTimeout`, `ProbeNext`, `ProbesOver` |
| 172-186 | `VerdictSilent`/`VerdictNext`, `CreateNode` (kmalloc may fail), `WriteLock`, `Insert` |
| 194-196 | `Release`, `Park`, `Resume` |
| `write_maclimit_proc` | `SetLimit`, `SetEnable` |

`NetIn` and `ArpIn` may happen at any time; a packet that passes without any
effect (limit off, lock held by the writer, UDP) is a stutter and has no action.
`srcip`, `dstip` and `dev` are stored as one field, and the fields of a node may
become visible in any order before the flag. A walk is one step because the list
cannot change during it (`NoChangeUnderReader`, checked and proved). Two history
variables, `answered` and `early`, occur in no guard.

### AdmissionTable and MacLimitTable

`AdmissionTable` says what the limit really means in this code: somebody who
finds room holds a *claim* for as long as it likes and may use it after the
table has become full. `MacLimitTable` maps `MacLimit` to it: a claim is held by
a hook from `Decide` to `SetFlag`, then by the mailbox while the thread will
still read it, then by the thread until `Insert`. A flag that is stored while
the thread is in a pass is erased at its end and is no claim.

### MacLimitModule

`life` is the position in `nf_init` or `nf_cleanup`; `proc`, `hooked` and `task`
say what exists. All of `MacLimit` runs inside: packets once the hooks are
registered, commands once the proc file exists, the thread once somebody wakes
it. The kernel's part is external: unregistering waits for handlers in flight,
`kthread_create` leaves a thread that waits for its first wake-up, `kthread_stop`
sets a flag, wakes the thread once and waits. `fault` records what ends a
behaviour: a wake-up of no task, a read_unlock after rwlock_init reset the lock,
a second unregistration (which only warns in some kernels: both outcomes occur).

### KeyEvent

`set_pc` walks a kernel caller through `set_trigger_...`: `SetLen` (54-59),
`SetCopy` (60), `SetWake` (62), `SetTrigger` (63). `ppc` walks the process
through its loop and the driver's handlers: `PollWait` (poll_wait), `PollTest`
and `PollClear` (89-95), `PollAgain` (the kernel sleeps until the wait entry is
woken, and asks poll again), `ReadLen` and `ReadCopy` (104), `Handle`. A buffer
has two cells and events fill one or both, so that copies are torn and a long
event leaves a tail behind a short one. Events are texts that bring their
terminating zero, as the keys of the header files do; there is one caller at a
time. Stores take effect in program order. `lapped` and `newest` are history.

### SpeedTest

`cpc`, `ci`, `kpc` walk a command through `run_speedtest_by_cmd`: parse, stop
the senders, create them, install the hook, stop the old compute thread, create
and wake the new one, wake the senders; and through the two error exits. A
stopping loop is `StopTest` (`while (task)`), `StopCall` (`kthread_stop`, which
loads the pointer again) and `StopReturns`. Threads are pairs of a slot and a
name, so that the thread a pointer names, one that is still on its way out, and
one that is gone can be told apart:

| code | actions |
|---|---|
| `speedtest_thread_func` 432-449 | `SenderFails`, `SenderStarts` |
| 450-494 | `SenderLeaves`, `SenderClear` (task = NULL), `SenderOff` (enable = 0) |
| `speedtest_compute_func` 343-390 | `CountOn`, `CountStopped`, `CountOver` |
| 395-409 | `CounterClear`, `CounterHook`, `CounterReady`, `CounterTimer`, `CounterFinish` |

A thread that is stopped before it was woken ends without running its function.
A bad pointer given to `kthread_stop` or `wake_up_process` is a `fault`, and
nothing happens after it. The load of a pointer and its use inside
`kthread_stop` are one step; split, they would only give the same fault in one
more way. Packets, counters and times are not in this module: a test may end by
itself at any moment after its start. One process writes commands, as the shell
script beside the module does. The receive hook of the loaded module is never
`"null"` and its frames never fail to be cloned; these two values of `Hooks` and
`Faults` belong to `SpeedTestDetect`.

### SpeedTestDetect

Extends `SpeedTest` and takes its steps over: each action of a command or thread
is conjoined with what it means for the detection (`DCmd`, `DSender`, ...).

| code | actions |
|---|---|
| `speedtest_init_module` 674-707 | `LoadFails`, `LoadHooks`, `LoadTimer` |
| `speedtest_loop_detect_cb` 279-323 | `CbFire`, `CbTest`, `CbSend`/`CbSendNothing`, `CbLook`, `CbClear`, `CbMod` |
| `rcv_speedtest_probe_pkt` 143-175 | `RxTake`, `RxLoad`, `RxStore` (the two halves of `st_ready \|= ...`), `RxCheck`, `RxDel` |
| `xmit_speedtest_pkt` 114-134 | `Passes`, a function of the state: the hook stores nothing |
| `speedtest_exit_module` 710-719 | `Rmmod`, `UnloadTimer`, the stopping loop of `SpeedTest`, `UnloadCounter`, `UnloadHooks` |

`due` and `left` count ticks to the timer and to the end of the compute thread.
`Tick` happens when everything that can run has run, so that two seconds never
pass in the middle of a callback; interleavings within one moment are all
explored. Initialising a timer that is pending or whose callback runs makes it
`"corrupt"`, and nothing happens after it.

### SpeedTestTraffic

Extends `SpeedTest` the same way with frames on a wire, the kfifo `queue`, and
the frame the compute thread holds together with the counter it has loaded
(`taken`): an increment is a load and a store. `Clear` is the memset of a
status, `SendPacket` and `CountSent` the two halves of a send, `RcvFast` the
counting hook, whose `kfifo_in` stores nothing when the queue is full, `Count`
and `Drain` the compute thread. `RcvProbe` is the probe hook, which does not
count. A frame is its direction; whether it is damaged is decided when it is
looked at. `mixed`, `overlap` and `stray` remember what was under way when a
status was cleared or a queue left, and only the properties ask for them.

### KeyEventDevice

`module` and `stage` walk through `board_button_dev_init`; a failing stage jumps
to the label the code names (`Label`), and the labels fall through (`Undone`).
`held` is what was acquired and not given back. Once the device exists,
processes open it and write; once the module is up, another module may link its
symbols and fetch. `copy_from_user` and `memcpy` copy cell by cell and
`recv_data.len` is loaded three times in a fetch. What the wake-up at the end of
a write does to the poller is in `KeyEvent` (`OtherWrite`).

### IrqSig

The handler is four steps in `Order`; an edge during it is latched and runs it
again (edge-triggered handling in the kernel is external). `key_open` ignores
the result of `request_irq`, so `actions` may stay behind `opened`; the handler
runs once for each request that succeeded. Readers copy `key_val` and clear
`ev_press` in two steps. A process reads when a signal comes or when it polls
and finds `ev_press`.

### HttpRedirect, MacLimitProc, DesPadding

`HttpRedirect` stores a url one character at a time, as `sscanf` does, while the
hook reads it in the same way. `URL_SIZE` is the length of the buffer, and the
urls are those that fit into it. In `MacLimitProc` a line is the characters that
were written, followed by what the stack happens to hold; `Hits` are the
positions at which `write_maclimit_proc` finds an argument. In `DesPadding`
nothing moves: `username` is any of a set of names, and the paddings are
operators.

## 3. The runs

| run | bounds | shows |
|---|---|---|
| `maclimit_smp` | 2 CPUs, 2 terminals, limit 1, 1 probe | `TypeOK`, `BoundedOvershoot`, `OversleepsOnlyByEarlyWake`, `NoChangeUnderReader`, `EvictOnlySilent`, `ImplementsTable` |
| `maclimit_module` | 1 CPU, 2 terminals, limits 0 to 2, 2 probes, fair | `WakeSafeWhileLoaded`, `NothingOutlivesModule`, `NodesIntact`, `UnloadOfParkedThread`, `RoundEndsInModule` |
| `keyevent` | 1 short and 2 long events, fair | `KTypeOK`, `NewestWins`, `OversleepsOnlyWhenLapped`, `KeepsReading` |
| `speedtest` | 2 directions, 2 threads a slot, all commands, all failures | `TypeOK`, `OneThreadPerSlot`, `SafeWhenCalm`, `QuietAtRest` |
| `speedtest_detect` | 2 directions, 1 thread a slot, timer after 1 tick, lingering 2 ticks, failing allocations | `ReadinessIsHeard`, `ProbingGoesOn`, `TimerInitSafe`, `TestHasTheWire`, `UnloadStops` |
| `speedtest_live` | `SpeedTestDetect` with 1 direction, no failures, fair | `UnloadReturns`, `CommandReturns`, `TestEnds` |
| `parts` | see below | `NotMoreThanSent`, `LossIsReal`, `NoneStaysQueued`, `EndIsOwn` (traffic); `HoldsWhatItShould`, `ThereWhileUsed`, `FetchesWhole` (device); `SigioBringsTheLevel`, `UnreadIsAnnounced`, `NoHandlerWithoutFile` (key); `LocationIsAsked` (redirect); `EchoIsUnderstood` (proc file); `PaddingsUndone` (des3) |
| `maclimit_stall` | 1 CPU, fair | **violation** of `RequestServed` |
| `keyevent_wakeup` | as `keyevent` | **violation** of `EventSeen` |
| `speedtest_restart` | 2 directions, commands that enable | **violation** of `CommandStartsTest` |
| `speedtest_uncounted` | 2 directions | **violation** of `TestIsCounted` |
| `speedtest_deaf` | as `speedtest_detect` | **violation** of `ContinuesToWait` |

`parts` runs one of its modules in each behaviour and leaves the variables of the
others alone: they share no state in the code either, and their state spaces
add up instead of multiplying. Its bounds: for the traffic one direction, two
threads a slot, one frame per sender, on the wire and in the queue, counters
modulo 4; for the device two writers, a short and a long message, every stage
failing; for the key two files; for the redirection two writers and two urls;
for the proc file numbers of one and two digits, up to three blanks, six lines
no user means and three contents of the stack; for des3 every length up to four
blocks, with last bytes that look like padding.

Why the bounds are enough. Two CPUs are the least that race in the mailbox and
overshoot together; a third adds no new pair of accesses. Two terminals at limit
1 make the list full and a second device compete; two at limit 2 make the
thread walk a list of several nodes; limit 0 makes every request a full round. One probe shows the timeout against the
answer, two show the count. The list needs no bound: the limit bounds it, which
is what `BoundedOvershoot` says. The theorems below remove the bounds from every
safety property of the running module. The runs of
`MacLimitModule`, `SpeedTest`, its two extensions and `parts` switch the deadlock
check off: after rmmod or a kernel error nothing is left to run.

Two long events are the least that tear inside a buffer and a short one the
least that leaves a tail. A slot of speedtest needs two names for a thread and
the one that is created while it is on its way out; the second direction makes
the runs in which one direction ends first. For the liveness of `speedtest_live`
one direction is enough: what a command and the compute thread wait for is one
pointer after the other. Two directions are what the detection needs: one probe
heard and the other lost is the case its timer is for. The timer comes before
the lingering thread ends, as two seconds are less than five. In the traffic one
frame is enough to meet the clearing of the status, the end of the sender and
the end of the compute thread at every step; with one place in the queue a
second sender's frame finds it full; a loss that wraps around needs one error.

`NodesIntact` is stated for one CPU because the mailbox is not safe for more:
two hooks that both find it free write the same node. Nothing in the repository
promises otherwise, so this is a hazard and not a finding.

The violations are findings:

- `maclimit_stall`: the thread empties the mailbox, then sets its task state. A
  hook that fills the mailbox in between wakes a thread that is still running;
  the thread sleeps, the flag stays set, and as only a hook that finds it clear
  wakes the thread, no terminal is ever added again. `OversleepsOnlyByEarlyWake`
  shows that this window is the only one.
  The same window makes rmmod hang when `kthread_stop` hits it;
  `UnloadOfParkedThread` shows that a thread inside schedule() is stopped.
- `keyevent_wakeup`: `wake_up` comes before `trigger_status = 1`; the process
  looks in between and sleeps over the event. `OversleepsOnlyWhenLapped` shows
  that this is the only window, `KeepsReading` that the next event ends it.
- `speedtest_restart`: a command given during a test stores enable, stops the
  senders, and finds that they have cleared enable as they ended: it starts no
  test.
- `speedtest_uncounted`: for five seconds after a test its compute thread
  lingers. A command in this time installs the counting hook and then stops the
  thread, which installs the probe hook on its way out.
- `speedtest_deaf`: the callback finds that a probe is missing, and while it
  clears `st_ready` and sets the timer again both probes come in: the hook, which
  has seen both bits, deletes the timer. `ProbingGoesOn` shows that the probing
  stops in no other way.

Some facts of the code contradict no statement of the repository and are no
findings; the models contain them and the properties allow for them: the list
outgrows its limit by up to one node per CPU (`BoundedOvershoot`); `nf_init`
returns 0 after a failed `kthread_create`, and the module without a thread stays
loaded (`WakeSafeWhileLoaded` asks that its hooks are gone); a leading blank in
the proc file stores limit 0; the loss shown for a speed test is too small by the
packets with errors and may wrap around (`LossIsReal` states what it is);
`st_ready |= ...` of the hook may bring back a bit that was cleared between its
load and its store (`torn`); a write to the key device between `device_create`
and `init_waitqueue_head` wakes no queue (`ThereWhileUsed`); a read of
the key that an interrupt comes in the middle of takes the announcement away
from those who poll (`erased`).

## 4. Fairness

`FairSpec` and `MFairSpec` assume only what the kernel gives: a softirq runs to
its end, a runnable thread gets the CPU, a timer expires, insmod and rmmod
proceed once called. The write lock gets strong fairness: hooks hold the lock
for one walk, so it is free again and again, and the spinning writer takes it at
last. `KFairSpec` lets a begun call of `set_trigger_...` and a runnable process
go on. `DFairSpec` lets commands that were given, the unloading, threads, timer
callback and receive hook proceed, a probe arrive or get lost, and time pass;
senders come to the end of `dur_time`. `Tick` has strong fairness, for it is
disabled while something else runs and nothing in the code keeps running for
ever. Nothing forces packets, ARP answers, events, commands or rmmod. The other
modules have safety properties only.

## 5. What is proved

For any finite set of CPUs, any terminals, any number of probes and any limit;
any set of events, messages and writers; any number of directions, of threads,
of frames and of places in the queue; any times with the callback before the end
of the lingering thread; any set of files; names of any length; any urls that
fit. Every property below is also one that a run checks on a small instance, except `SlotsCovered`:

| module | theorem | statement |
|---|---|---|
| `MacLimitProofs` | `Typing` | `Spec => []TypeOK` |
| | `ReadersUndisturbed` | `Spec => NoChangeUnderReader` |
| | `EvictionIsJustified` | `Spec => EvictOnlySilent` |
| | `OnlyOneWindow` | `Spec => []OversleepsOnlyByEarlyWake` |
| | `Handoff` | `Spec => []NodesIntact` |
| | `Refinement` | `Spec => ImplementsTable` |
| | `SlotsBounded` | `Table!TSpec => []Table!SlotsCovered` |
| | `Overshoot` | `Spec => []BoundedOvershoot` |
| `MacLimitModuleProofs` | `WakesATask` | `MSpec => []WakeSafeWhileLoaded` |
| | `LeavesNothing` | `MSpec => []NothingOutlivesModule` |
| | `HandoffInModule` | `MSpec => []NodesIntact` |
| `KeyEventProofs` | `EventTyping` | `KSpec => []KTypeOK` |
| | `LastEventArrives` | `KSpec => []NewestWins` |
| | `LostWakeUpWindow` | `KSpec => []OversleepsOnlyWhenLapped` |
| `SpeedTestProofs` | `SpeedTyping` | `Spec => []TypeOK` |
| | `OneAtWork` | `Spec => []OneThreadPerSlot` |
| | `CalmIsSafe` | `Spec => []SafeWhenCalm` |
| | `TestsArePutBack` | `Spec => []QuietAtRest` |
| `SpeedTestTrafficProofs` | `ReceivedWasSent` | `TSpec => []NotMoreThanSent` |
| | `LossIsExact` | `TSpec => []LossIsReal` |
| | `QueuesAreEmptied` | `TSpec => []NoneStaysQueued` |
| | `NoEndOfAnother` | `TSpec => []EndIsOwn` |
| `SpeedTestDetectProofs` | `ShownWasHeard` | `DSpec => []ReadinessIsHeard` |
| | `ProbingNeverStops` | `DSpec => []ProbingGoesOn` |
| | `PatientIsSafe` | `DSpec => []TimerInitSafe` |
| | `WireIsItsOwn` | `DSpec => []TestHasTheWire` |
| | `LeavesOnlyEnds` | `DSpec => []UnloadStops` |
| `DeviceProofs` | `NothingLeaks` | `DevSpec => []HoldsWhatItShould` |
| | `BuffersStay` | `DevSpec => []ThereWhileUsed` |
| | `UndisturbedFetch` | `DevSpec => []FetchesWhole` |
| | `SigioReadersEndRight` | `IrqSpec => []SigioBringsTheLevel` |
| | `NewsAreAnnounced` | `IrqSpec => []UnreadIsAnnounced` |
| | `LastCloseFrees` | `IrqSpec => []NoHandlerWithoutFile` |
| `LabProofs` | `RedirectsWhereAsked` | `HttpSpec => []LocationIsAsked` |
| | `EveryPaddingUndone` | `DesSpec => []PaddingsUndone` |

Assumptions: the named ASSUMEs of the modules (finitely many CPUs, limits up to
a positive natural number, a natural number of probes, zeroed memory is nobody's
address; "no event" is no event; at least one direction, NULL and an error
pointer are no threads; two seconds are less than five; a test sends fewer
packets than a counter counts; the stages of `board_button_dev_init` that may
fail are its calls that are looked at; names have no zero byte; a url is shorter
than its buffer).

The inductive invariants, and why the properties alone are not inductive.

**maclimit**

- `TypeInv` adds to the types that the cursor is inside the list from the arming
  of the ARP hook to the replacement, that a probe is outstanding only below the
  maximum, and that a running hook has a packet: without these `list[pos]` and
  `tries` could leave their ranges.
- `LockInv`: readers are exactly the CPUs in a walk, the writer is exactly the
  thread at its insertion, and never both.
- `SilentInv`: during a check, a flag that is still `ARP_REPLAY_CHECK` means no
  MAC was credited, because nobody but the thread stores this value.
- `SleepInv`: from `Release` to the end of `schedule()` a filled mailbox comes
  with a wake-up that is due, has made the thread runnable, or came early.
- `MailInv`: with one CPU the flag decides who owns the node.
- `Refinement` counts claims: every step changes the set of claiming CPUs by at
  most one element, and `ClaimersGrow`/`ClaimersShrink` turn this into the
  arithmetic of the table. `Overshoot` follows from `Refinement` and
  `SlotsBounded`.
- `LifeInv` of the module says at each stage of `nf_init` and `nf_cleanup` what
  is registered (`ChainInv`, `ProcInv`), what `limit_check_task` is (`TaskInv`)
  and that a thread without it has exited or was never born (`ThreadInv`). A
  hook in flight can wake somebody only where `ChainInv` allows a hook.
- `MTypeInv` adds `CursorHome` to `TypeInv`: outside a check the thread's cursor
  is home, so that `nf_cleanup` may empty the list.

**keyevent**

- `SendInv` and `ReadInv`: what send_data holds while a call is at work, and that
  between calls, with nothing announced, the process has copied, or is copying,
  what send_data holds. `NewestWins` alone says nothing of a copy under way.
- `SleepInv` looks one step ahead of `OversleepsOnlyWhenLapped`: a process that
  sleeps while the caller is past its wake-up must have looked too early.
- `HeldInv`: what is held before each stage of the load, before each label of
  its error path (at most), and before each step of the unload. `UseInv`: whoever
  uses the device keeps the module in place, so that the unload meets nobody.
- `BufferInv` and `FetchInv` follow a write and a fetch cell by cell: the write
  that no other came across has stored what it has copied so far, the fetch that
  met none has copied the cells behind it. `FetchesWhole` speaks of the end only.

**speedtest**

- `Owner`: a thread at work is the one its slot's pointer names, until it clears
  the pointer itself; `CmdInv`: the stopping loops have seen the pointers clear
  that are set next. `OneThreadPerSlot` follows from `Owner`, since a pointer
  names one thread.
- `StopInv`: who has been told to stop is the thread `kthread_stop` waits for,
  and who leaves without being told does so by itself. `WakeInv`: between the
  creation and the wake-up, a pointer names a thread that never ran.
- `CalmInv`: as long as nothing came in between, the pointers are all clear or
  all of them name threads that can still be stopped (`PointersGood`), and a
  command that creates one sender creates them all (`CreatesAll`), so that the
  loop which wakes them meets no NULL.
- `CountInv`: while a sender sends or is about to be woken a compute thread is at
  work, and a state is RUNNING, or the counting hook installed, only while a
  compute thread has yet to put it back, a command is about to create one, or
  its creation failed. `HookInv`: the hook is never taken away while the module
  is loaded.
- `FlowInv` is the conservation of frames: received + in hand + queued + on the
  wire + missed = sent, unless frames of an earlier test were still about when
  the status was cleared. `HandInv`: a frame in hand is in the hands of a compute
  thread at work. `LossInv`: with no compute thread left the loss shown is the
  one computed from the counters as they are. `LossIsReal` follows by arithmetic
  modulo the width of the counters.
- `QueueInv`: what is queued will be taken by a compute thread that has not
  ended its loop, unless it came behind its back. `EndInv`: a direction whose
  status was not cleared under an ending sender has one sender at most.
- `LifeInv` of the detection: what `life` says of hooks, threads and pointers.
  `DeletedInv`: once `del_timer_sync` has returned, only a compute thread that
  was there then can set the timer.
- `ReadyInv` and `HkInv` follow the value the receive hook is about to store;
  `st_ready` grows under its hands only by its own store.
- `PointersInv` and `ProbingInv`: with the timer idle somebody is still there
  who decides on it (`Deciding`): a compute thread before its last instruction, a
  command that will create one, or a pointer that nobody clears, for which the
  callback says that a test runs. `ProbingGoesOn` is the case in which nobody is.
- `TestsApart` and `TimerFree` are what a patient user gets: one compute thread
  at a time, none while a command may start a test; while it waits for the last
  packets the timer fires first and the callback finds the test (`CallbackFirst`),
  and at its last instructions timer and callback are at rest.

**the other modules**

- `IrqInv` of `IrqSig` follows a value through the handler: what was sampled is
  the level unless an edge is latched (`SampleIsFresh`), what a process that was
  told has copied is what was stored, up to the next store (`CopyIsFresh`), a
  value nobody has copied is announced or will be in the next step
  (`Announced`), and a read that `ev_press` was not set in the middle of clears
  no news (`ClearsRightly`). The two properties speak of moments at which the
  handler does not run, and say nothing of the step before.
- `HttpInv`: the last character of the buffer is never overwritten, so the hook
  finds an end (`Ended`); a write no other came across has stored what it has
  read (`WritesInv`), and a hook that met no write has copied the url so far
  (`HookInv`).
- The paddings need no invariant but the facts about sequences: what is appended
  is cut off again (`CutOff`), and the count fills the block (`FillsTheBlock`).

Only model-checked:

- liveness, which needs fairness: `RoundEndsInModule`, `UnloadOfParkedThread`,
  `KeepsReading`, `CommandReturns`, `TestEnds`, `UnloadReturns`;
- `EchoIsUnderstood` of `MacLimitProc`, whose parser recurses over the line: what
  it computes for every line would need an induction over data.

## 6. Not modelled, and the plan

Not modelled, and why:

- maclimit: memory. Nodes are values, so that the node leaked at line 180, the
  GFP_KERNEL allocation under a lock, and a walk node by node are out of sight.
- speedtest: wall-clock times. Reading the proc file in the first second of a
  test divides by `used_time` 0, and speeds that are multiples of 4096 divide by
  0 at 445; both need one step of one actor. The bytes of packets are layout.
- `irq_poll.c`: nothing sets `ev_press`, so that the driver has one behaviour, a
  reader that sleeps until a signal. Its handlers are those of `irq_sig.c`.
- httpredirect: load and unload, and network namespaces (the hook operations
  are registered once for each).
- pktconntrack logs packets; the scripts, `tcpcs`, `lab/c/hack`, `lab/asm` and
  `lab/py` keep no state; the DES cipher is a library's.

What is left to do, in this order:

1. An abstract register with a notification, and `KeyEvent` as its
   implementation.
2. An abstract test (one that runs or none, with its packets), and `SpeedTest`
   as its implementation while `calm` holds.
3. `MacLimit` with addresses, a walk node by node and kfree, shown to implement
   the list of `MacLimit`.
