# TLA+ models of the TXW8301 FMAC Linux driver

This directory holds TLA+ specifications of the driver in this repository and of
the user tools that configure and upgrade the module, the TLC configurations
that check them, and TLAPS proofs of their safety properties. `PROJECT.json` lists
components, runs, mutants, the map from definitions to source lines, findings,
hazards and theorems.

## The system

The driver (`hgic_fmac/`, `utils/`) connects a Wi-Fi HaLow module on USB or
SDIO. The module runs its own MAC firmware; the driver downloads that firmware,
sends it commands, hands it Ethernet frames and passes on its events. The tools
(`tools/test_app/`) configure the module through `/proc` and ioctl and upgrade
it through the driver or over the air.

| Part | State | Operations | Interacts with |
| --- | --- | --- | --- |
| Command channel, `utils/fwctrl.c` | cookie counter, `pd_list`, `txq`, `rxq`, work | send a command and wait, receive an answer, release; about 150 command wrappers | `tx_work` drains `txq`, the bus fills `rxq`, OTA and boot download use it |
| Device core, `hgic_fmac/core.c` | RUNNING, SUSPEND, INITED, `fw_state`, `last_rx`, detect timer, four work items | probe, delay_init, detect_work, tx_work, test_work, remove | every other part |
| Data path, `hgic_fmac/core.c` | `tx_dataq`, `txwnd`, the aggregate being built, `vif` | xmit, soft flow control, aggregate; receive, take aggregates apart | net device, bus |
| Sleep, `core.c`, `utils/iwpriv.c` | HGIC_BUS_FLAGS_SLEEP | iwpriv `sleep`, suspend, resume | command channel, tx_work |
| Events, `event.c`, `procfs.c` | `evt_list`, `evt_sema` | firmware event, read of `/proc/.../fwevnt` | command channel's work, readers |
| Boot download, `utils/fwdl.c` | fragment position, last cookie | enter, write memory, run | command channel, INBOOT |
| Upload, `utils/ota.c`, `utils/fwinfo.c` | `fw_dataq` | write of `/proc/.../ota` | command channel with cookie 0 |
| USB bus, `utils/if_usb.c` | buffer lists, `tx_sema`, status | tx_packet, URB completions, probe, disconnect | core through `struct hgic_bus` |
| SDIO bus, `utils/if_sdio.c` | host claim, interrupt, status flags, card and host settings | tx_packet, interrupt, reinit, probe, remove | core through `struct hgic_bus` |
| Configuration, `procfs.c`, `utils/iwpriv.c`, `core.c` | `radio_onoff`, the address, the conf file | parse a command, call a wrapper, return the answer; load the conf file | command channel |
| Configuration library, `tools/test_app/iwpriv.c` | none of its own | build a request, convert the answer | `/proc/.../iwpriv`, ioctl |
| `hgota`, `tools/test_app/hgota.c`, `libota.c` | table of stations, position, retries | scan, upgrade, reboot, reset, get parameters | raw sockets, stations |

What is hard here: callers in process context, three workqueues, a timer, bus
completions in interrupt context and removal run concurrently; the module may
lose, delay or repeat answers and may reset by itself; response records live on
stacks; flags are tested and changed in separate steps; a configuration value
crosses four layouts (text, parser, payload, answer) that are written down in
four files; uploads share a queue that nobody guards, and upgrades over the air
hear each other's answers.

## Modules

| Module | Models | Shape |
| --- | --- | --- |
| `CmdRpc` | what the command channel promises its callers | abstract specification |
| `FwCtrl` | the channel of `fwctrl.c`, the control half of `hgicf_tx_work`, the part of `hgicf_core_remove` that releases the channel | one action per step between two lock regions |
| `HgicfCore` | probe, initialisation with the download loop, detect timer and work, senders, removal | work items as small programs |
| `SleepFlow` | all that sets, tests and clears SLEEP | callers, tx_work, module |
| `EvtQueue` | `hgicf_rx_fw_event`, `hgicf_fwevent_read`, removal | producer and readers |
| `UsbPool` | the pools, semaphore and URBs of `if_usb.c` | sender, completions, USB core |
| `SdioBus` | `if_sdio.c` | transmit, interrupt thread, core, probe and remove around one host |
| `HgicBus` | a device on one of the two buses | composition |
| `BootDl` | `fwdl.c`, the retry loop of `hgicf_download_fw`, detect_work's ENTER | one caller's program, the channel, the boot loader |
| `TxPath` | `hgicf_netif_xmit`, flow control, aggregation, the data half of `hgicf_tx_work` | producer, tx_work, module, reload and sleep |
| `RxPath` | `hgicf_rx_data`, `hgicf_rx_agg_frm`, the creation of the interface | buffers against initialisation |
| `DataPath` | both directions | composition |
| `FwCmds` | the wrappers of `fwctrl.c`: command, payload, reading of the answer | a table and its interpreter |
| `IwprivCmds` | `hgpriv_sets`, `hgpriv_gets`, their handlers and parsers | a table and its interpreter |
| `HgPriv` | the library of the tools: request, conversion of the answer | a table and its interpreter |
| `ConfigPath` | calls through `/proc`, ioctl and `ndo_` handlers, the conf file, the firmware's parameters | composition of the three tables as a state machine |
| `DriverOta` | `ota.c`, `fwinfo.c`, the write of `/proc/.../ota` | writers, queue, module |
| `HgOta` | `hgota.c`, `libota.c` and their copy of `fwinfo.c` | invocations, stations, air |
| `Upgrade` | the two ways to a new firmware | composition |
| `FwCtrlProofs`, `HgicfCoreProofs`, `SleepFlowProofs`, `HgicBusProofs`, `BootDlProofs`, `DataPathProofs`, `UpgradeProofs` | theorems about the module each is named after and the ones it composes | TLAPS |
| `ProcfsProofs` | theorems about the two services of `/proc`, `EvtQueue` and `ConfigPath` | TLAPS |
| `MCFwCtrl`, `MCConfigPath`, `MCDataPath`, `MCUpgrade` | the instances | TLC |

### FwCtrl

A caller's position in `hgic_fwctrl_send_data` is `pc`: it draws a cookie
(`GetCookie`), links its record (`LinkResponse`), tests the length of the queue
without its lock (`CheckTxqFull`), queues (`EnqueueFrame`), schedules tx_work
(`Schedule`), waits (`WaitDone`, `WaitTimeout`) and unlinks the record. The
worker actions are `TxStart`, `TxLoopTest`, `TxCtrlFrm`, `TxDataHalf` (the data half, which may turn
back to the control queue) and `RxStart`, `RxStep`, `RxReturn`;
a work item is pending independently of whether it runs. Every command has a
number (`stamp`) that the code does not know; the properties use it to tell
commands apart. The kinds of caller are ordinary commands, boot download
commands (the only ones that leave while INBOOT is set), OTA (whose cookie is
always 0, because `ota.c` clears the record after it stored the cookie) and HCI
data, which is queued without a record. Boot download data frames, which reuse
the cookie of the command before them, are in `BootDl`.

Assumption on the surroundings: `CookieWindow`. Between a command's start and
the arrival of the last answer to it fewer than `CookieMod` (32768) commands are
started. The cookie is all the code has to tell answers apart, so without the
assumption no property about answers holds.

### HgicfCore

Each work item has a place in its function (`at`), a pending bit (`pend`), and
the local variables of its loop (`tries`, `status`). Tests of RUNNING and the
actions they guard are separate steps wherever another thread can run between
them. `cancel_work_sync` and `del_timer_sync` are a start (the pending bit is
taken) and a wait; while the wait lasts a work item that queues itself has no
effect, as in the kernel. tx_work and test_work share an ordered workqueue.
The firmware download is reduced to its outcome, and every test of SLEEP may
find either value (`SleepFlag`).

### SleepFlow

The command channel is reduced to calls with numbers: an answer reaches the call
its command was sent for while that call waits. The module obeys, and its answer
arrives later or never; a caller that has no answer may time out at any moment.
tx_work may be preempted between `tx_packet` and `set_bit` (`core.c:511-514`) for
as long as it takes the module to answer and the callers to go on. User space is
frozen while the power management callbacks run.

Three history variables say what the properties are about. `rest` holds the callers
whose last call is to sleep and has not failed, until somebody begins to wake
the module or a command is reported failed; `leak` collects those of them whose
command the module had obeyed when a data frame was sent; `sole` tells whether the
call was the only one past the test of the flag and its caller has not given up. `SleepHolds` says that such a
sole call with a low byte in its type has no leak. What it leaves out is what the code
gets wrong; without each of these exceptions TLC finds a counterexample:

- a type that is a multiple of 256: `sleep_cmd` is a byte (`core.c:509`), so the command is
  sent and obeyed and the flag is not set;
- a second writer past the test at `iwpriv.c:814`: the one whose command fails, for
  instance because it was dropped under the other's flag, clears that flag;
- the module obeys and its answer does not arrive in time: the handler clears
  the flag (`iwpriv.c:819`) as if the command had been refused.

`FailureClears`, which a suspend breaks (see Findings), is also broken by a preempted tx_work: it sets
the flag (`core.c:514`) after the handler of a refused command has cleared it.

### EvtQueue

Producer and readers take one step per locked operation; the semaphore and the
list are changed in separate steps.

### UsbPool, SdioBus and HgicBus

In `UsbPool` a completion returns the buffer and raises the semaphore in two
steps. The USB core completes all URBs of an interface and refuses new ones
before it calls `disconnect` (`Unplug`).

In `SdioBus` four threads compete for the host (`sdio_claim_host`): tx_packet
(`TxCall`, `TxClaim`, `TxBusy`, `TxWake`, `TxCopy`), the interrupt thread (`IrqStatus`,
`IrqRead`, `IrqLoop`), the core's reinit (`CoreClaim`) and probe and remove.
`hgic_sdio_reinit_card` is a subroutine of the first three, one step per write
to the card (`ReinitStep`), each of which may fail, with the settings of card and
host kept apart (`card`, `hostcfg`). The card may restart at any point. What host and card are
able to do (`Caps`) is chosen at the start: without high speed or 4 bits the
step returns at once (`Skipped`). `BusAgrees` says that a
successful reinit leaves both with the same width and the card working, unless the card restarts again
meanwhile (`synced`). In speed they may differ: the code ignores a failed `set_highspeed`
and sets the host to high speed timing even where host or card does not have it
(`if_sdio.c:330-336`, `523`). Left as the code has it: probe returns 0 when the receive
buffer cannot be allocated or the core's probe fails. Suspend, resume and module
init only call the core or the kernel and are left out.

The core sees both through `struct hgic_bus`; `HgicBus` picks one of the buses for a
behaviour and states what the core relies on for both.

### BootDl

`at` is the place in `hgicf_download_fw` and `hgic_bootdl_download`: `AskEnter` and
`EnterDone`, `ParseFw`, then for each fragment `SendFragment`, `WriteDone`,
`SendFw`, `DataDone`, and `SendRun`, `RunDone`. Every end of an attempt is
`EndAttempt`, the test of the retry loop. The command channel keeps only what
matters here, cookies and `pd_list`; waiting ends with an answer or a timeout at
any time, which the `...Done` actions express by looking at what `ans` holds. The
boot loader is external: it stores the data that follows a WRITE_MEM at the
announced address and answers under the cookie of the last command it got, which
is what `last_cookie` in `fwdl.c` relies on. `mem` records for each address which
byte of the image it holds, so that `RunsWholeImage` compares the module's memory
with the image when RUN takes effect.

The property has two exceptions, and TLC shows that both are needed. A repeated
answer to WRITE_MEM is taken for the answer to the data frame, since both have the
same cookie. And `detect_work` shares `last_cookie`: an ENTER it sends between a
WRITE_MEM and the answer to its data overwrites the cookie, and the answer to the
ENTER is taken for the data's (`hgic_bootdl_send_fw` looks at the code alone, not at the
command). In both cases a lost fragment goes unnoticed; whether the module detects
it depends on the image's CRC flag.

### TxPath, RxPath and DataPath

A frame has a number and a length. `hgicf_netif_xmit` tests the queue, queues and
schedules in three steps (the network layer calls it for one frame at a time);
tx_work's data half has one step per test, per access to the queue, and per access
to `txwnd`. The module announces windows at any time (`SetTxwnd`). A reload is
the sequence of detect_work and delay_init as far as it touches the flags the data path
tests; a download that failed or an unanswered question for the version
repeats delay_init (`InitAgain`), which does not suspend the path again.
RUNNING stays set; removal is in `HgicfCore` and `FwCtrl`.
`AggAssumption` says that a frame fits into an empty aggregate. With a smaller
`if_agg` tx_work would put the frame back and start over without end.

`RxPath` gives `hgicf_rx_data` buffers whose header may claim less or more than there is,
with padding in front, damaged headers and damaged frames inside aggregates.
`want` is what a buffer holds by its layout, computed from the ends of its frames and not by the
loop; `RxDelivers` compares what netif_rx was given with it. `RxAssumption` excludes a
frame in an aggregate whose length is below its own header's: its data length
would come out negative. The interface is registered before `hg->vif` and its
index are set (`core.c:812-818`), so frames received in between are dropped
by the test of `vif`, and `RxPath` has that window. The two directions share nothing but
the window, so that a behaviour of `DataPath` exercises one of them.

### FwCmds, IwprivCmds, HgPriv and ConfigPath

The three tables have one row per function of the source, which names the layout
of what the function builds and how it reads what comes back; payloads are
sequences of bytes with the widths of the code, so that truncation to a byte, sign and byte
order are what they are. `ConfigPath` runs a call through them: `/proc` calls
are a write and a later read, ioctl one call, the ndo handlers hold the rtnl
lock; the command travels to the firmware, which keeps the parameters it is set
(external, from how the wrappers use it) and answers; frames and answers may be
lost, a call may give up before its answer, the firmware may restart and then
has what was last saved, and the conf file is loaded again. Which
caller an answer belongs to is `FwCtrl`'s subject: here it carries the call's id.

The properties name their exceptions, and TLC shows each to be needed:

- `Misdirected`: `hgic_iwpriv_set_rmesh_notfw` sends `start_assoc`
  (`tools/test_app/iwpriv.c:1431`); `hgic_proc_set_wkdata_mask` writes two bytes of offset
  where the driver reads one (`859-866`).
- `Crossed`: the wrapper `set_rmesh_meshid` issues GET_RMESH_MESHID and
  `get_rmesh_device` issues the SET command (`utils/fwctrl.c:1320-1324`).
- `SilentGets`: a failed `get_module_type` returns 65535, `get_rtc` 0, `get_signal` -4097;
  `get_aggcnt` and `get_link_quality` return zeros; `get_scan_list` copies two zero bytes
  and returns 2 (`utils/iwpriv.c:1251-1254`).
- `Widened`: the u16 offset of `set_wkdata_mask` and `set_hbdata_mask` is read from a `char`
  (`utils/iwpriv.c:756`, `761`), so that 128 and more arrive sign-extended where `char` is signed
  (`CharSigned`, TRUE in the run).
- `mixed`: `ctrl->radio_onoff` is written by one call and read again when its command is built
  (`utils/iwpriv.c:241-242`), so that two overlapping calls may swap their values.

Two more things are in the tables but break none of the properties: the library's
functions for a structure copy one byte less than they were given
(`tools/test_app/iwpriv.c:241`), and its `open_dev` and `close_dev` always fail, since
the driver's verbs are compiled out.

### DriverOta, HgOta and Upgrade

`DriverOta` has any number of writers of `/proc/.../ota`. A file is its header's
fields, its size and the length for which its CRC is right. Each fragment is
queued on `fw_dataq` and then sent with cookie 0, so that an answer goes to the
writer that waited last. Nothing keeps two writers apart: they clear and drain
each other's queue, and `skb_dequeue` may return NULL (`oops`). `ImageWhole` and
`QueueClean` say that this is the only way to go wrong: they hold for a writer that
was alone and whose answers were its own. (On two error paths the firmware is
not released; memory is not modelled.)

`HgOta` has invocations of the tool that share the saved table and hear each other's answers,
and stations that accept or refuse blocks. Queues of frames are bounded, the rest is
dropped, as by a socket. `UpgradeComplete` is about an invocation that exits at 100 %,
and `OtaEnds` about one for a station in the table. Losses, refusals and early timeouts are
not limited in number. Without the exceptions in
their statements TLC finds: a station that the table (empty, say) lacks is sent block 0 without end, since
each of its answers resets the retries and sets the offset to 0; so is a station that keeps
refusing (status 0xff, `hgota.c:257-262`, `libota.c:220-223`: an image for another chip, say, which
`hgota` does not check); so is one of which every second frame is lost, since the timeout sets the
offset to 0 and the next answer resets the retries; two
concurrent upgrades send each other back to block 0; the answer to another invocation's block
is taken for one's own (`clean`). Also as in the code: any status but 0xff
is a success, a scan asks only once, GETCFG is broadcast, and "same
version" is decided by the table, which may be stale.

## Runs

| Run | Bounds | Properties | Shows |
| --- | --- | --- | --- |
| `fwctrl_calls` | a /proc and an ioctl caller, 2 commands, cookie space 2, txq limit 0, 1 repeated answer, removal, SLEEP, fairness | AnswerIsOwn, LeakOnlyOnRepeat, RemoveCompletes, QuietAfterCancel, ImplementsRpc | late, reordered and repeated answers while the counter wraps, and removal at every moment; refinement of `CmdRpc` |
| `fwctrl_mixed` | boot command, OTA and HCI data, cookie space 3, INBOOT, detect_work | PdListExact, NoLostWakeup | three kinds of callers, the queue cleared under them; OTA's cookie 0 disturbs only cookie 0 |
| `core_safe` | one attempt per retry loop, interface test on, SLEEP at any time | QuietAfterRemove, SuspendHasOwner, DetectorAlive | removal at every moment: the second pass of cancellations is enough; detector and SUSPEND over all interleavings |
| `core_live` | one reset, lossy commands, fairness | ReloadAfterReset, EventuallyInited | recovery from a reset |
| `evt_queue` | 2 readers, limit 2, more events than the limit | PermitsCoverEvents, PermitBalance, ListBounded, InOrder | overflow and empty reads |
| `bus_frames` | USB: 2 transmit, 2 receive buffers, 3 frames; SDIO: 1 frame, 2 bus errors, 1 card restart, 1 interrupt, 1 reinit, with and without high speed and 4 bits; fairness | FrameCompletedOnce, PoolsSound, HostOwned, BusAgrees, BusProgress | every exit of both tx_packets, unplug and removal at any time, a reinit that fails on the way |
| `sleep_calls` | two users and power management, types 256 and 257, 3 calls, txq limit 1, fairness | SleepHolds, CallsReturn | dropped commands still return; lost and late answers, preempted tx_work, leftover commands: no data to a module that obeyed the sole call |
| `bootdl` | SDIO and USB, image of 5 bytes, fragments of 4, blocks of 2, 2 attempts, 1 ENTER of detect_work, 1 repeated and 1 refusing answer, fairness | RunsWholeImage, ReadBounded, DownloadEnds | a whole and a short fragment, every answer lost, late or out of order |
| `data_path` | out: 4 frames, queue limit 1, aggregates of at most two frames, window 2, 1 reload or nap, fairness; in: 2 buffers out of about a hundred, 1 failed allocation | SentInOrder, TxLimits, RxDelivers, QueueDrains | put-back while the queue fills, the window closing between test and use, frames queued in a reload; damaged, short and overlong buffers before and after the interface exists |
| `config_calls` | 5 plans (below), 2 losses or early timeouts, 1 restart | FailureVisible, RoundTrip, EffectAsNamed, LastSuccessWins, MirrorsAgree, ConfApplied | every function of the library does what it is named after and reports its failures; concurrent callers; the conf file across a restart |
| `upgrade` | driver: 2 writers, 6 files, 2 uploads, 1 fault; air: 2 invocations at a time, 2 stations, 4 files, 2 retries, one frame in each queue, any number of faults, fairness | ImageWhole, QueueClean, UpgradeComplete, OtaEnds | good, damaged, cut-off and foreign files; concurrent uploads and upgrades |
| `sleep_pm` | suspend alone | FailureClears | violated, see below |

The plans of `config_calls`: every library function with zero, small and larger values (some with the top bit of a byte) and with
short and long buffers, through `/proc` and ioctl (through the Bluetooth
channel too where blenc_mode 3 has one); every pair of a set and a get of the parameters
that have both; two callers that set and get one parameter; overlapping radio
calls; saving, changing the address and the conf file with a restart anywhere.

The bounds are small but each is above the point where the interesting case
starts: two callers suffice for a confusion of two answers, two commands for a
caller to be in its second call while its first is still answered, a cookie
space of 2 for the counter to wrap within them, a limit of 0 for a full
queue, one reset for a reload, one more frame than buffers for reuse, two bus
errors for a failure within the handling of one, a file of two fragments for
one to be missing. `TxqIsBounded` is only proved: with two callers the queue of the
runs cannot grow past its limit far enough to break it.

Every property of a passing run has a mutant in `PROJECT.json`: a plausible
mistake in one definition (marked `Mutant` in the module) under which the
property fails. Each module has a type invariant `TypeOK` or states its types beside its
variables; those of `FwCtrl`, `EvtQueue` and `HgicfCore` are proved as theorems, the
others as part of the inductive invariants.

### Fairness

Weak fairness of workers stands for the kernel's workqueues and timers, of
callers for the scheduler, of `WaitTimeout` for the timeout every wait has.
`core_live` assumes strong fairness of an answered command, a successful
download and a successful information command while the device runs: a module
that is asked again and again answers at last. Nothing is assumed about a module
that is gone. Callers are never required to call. `data_path` assumes strong fairness
of two things: a module that was asked for a window and meets tx_work between its
tests again and again opens it at last, and an open window is found at last by
tx_work, which asks every 10 ms without end. `bootdl` needs only that every wait
ends, which its timeout sees to. `bus_frames` assumes that threads that can run do, that the
USB core completes URBs, and that whoever waits for the host gets it (the
kernel's claim is a wait queue). `upgrade` assumes only that, while some tool or
station can move, one of them does: receives of the tools time out.

### Findings

The changelog (2023/08/04) says that the flag is set as soon as the
sleep command is sent and stops all later data, and that a failed response clears it.

- `sleep_pm`: `hgicf_core_suspend` leaves SLEEP set when the module refuses to
  sleep (`core.c:926`). All later frames are dropped until a resume or a wake-up clears the flag.

The exceptions of `SleepHolds` and the preempted tx_work go against the same line. Other
observations are exceptions in the properties above, where no document
promises otherwise: the event list that holds `HGIC_EVENT_MAX + 1` events (`event.c:68` tests `>` before it appends;
`ListBounded`), the two exceptions of `RunsWholeImage`, those of the
configuration calls, and concurrent uploads and upgrades.

## Proofs

Every invariant that the runs check, and the refinement, is proved for all values of the
constants; three theorems have hypotheses, named below. Each proof module has the
inductive invariants its properties need, and lemmas with one step per action.

`FwCtrlProofs`, for every set of callers, kinds, cookie space, queue limit and bounds:

- `TypeCorrect`, from the invariant `TInv`;
- `PdListIsExact`: `PdInv` says that a record is linked exactly while its caller
  is between `LinkResponse` and `UnlinkAndReturn`, and once; the lemmas
  `ListAddFacts` and `ListDelFacts` say what the list operations do to it;
- `TxqIsBounded`: the bound alone is not inductive, since a caller that passed
  the test has yet to queue. `QInv` counts those callers;
- `AnswersAreOwn`: `OwnInv` says that every frame in a queue, in the module or
  in a record carries the cookie that belongs to its number, that the number is
  in the window, and that numbers of different callers differ. Within a window
  of fewer than `CookieMod` numbers the cookie determines the number
  (`DivMod`, `ModWindow`, `RecentUnique`), which gives the property;
- `WakeupsKept` and `QuietOnceCancelled`: `StopInv` adds that once tx_work was
  cancelled a run of it can only empty the queue, because RUNNING is clear;
- `LeaksOnlyOnRepeat`: a second answer needs a second copy of the command. `Once`
  says that, while nothing was repeated, a number is in at most one of the
  caller's hands, `txq`, the module, `rxq` and the record. The lemma `Steps` sorts the steps
  into the few ways a number can move, so that `Once` is shown once for each;
- `ImplementsCmdRpc`: `NextRpc` shows, step by step, that a step of the channel is a step
  of `CmdRpc` or a stutter. It assumes that no caller is an OTA upload: those
  share cookie 0, and an answer may go to the wrong one.

`ProcfsProofs`, for `EvtQueue`: the type invariant and the four properties of `evt_queue` from one
invariant `IInv`: types, the balance of permits and events, the bound with the
position of the producer, and the order of list and last event read.

`ProcfsProofs`, for `ConfigPath`, with any clients, plans of calls, losses, early timeouts and restarts:

- `AcknowledgedStays` from `CfgInv`: the queue is in the order of the ids (`InTurn`), and once
  the last set of a parameter was answered no older one is on its way and the parameter has its
  value (`LatestInv`). For the queue the steps are four moves (a command is issued, done, lost; a restart),
  so that these parts are shown once for each;
- `CopiesAgree` from `MirrorInv`: while no two radio calls overlapped, at most one
  is between its store to `ctrl->radio_onoff` and its answer (`RadioInv`); of a change of the
  address the rtnl lock says the same (`MacWaits`), its answer is that to the last SET_MAC, and it is
  status 0 (`SetsAnswered`);
- `FileTakesEffect` from `LoadInv`: the commands of the last run of load_config are as many as the
  lines made, and while nothing was lost since the start of the firmware each is the one that is
  waited for or has been done, and is then the parameter's value or followed by another caller's set (`InForce`);
- `FailureShows` from `RanInv`, which follows a command from its call to the
  firmware: a queued command has not been done and belongs to the call with its id, an answer is there only for
  what was done, and a call that gave up returns what its function makes of `NoAnswer`. `Unanswered` shows
  that this is an error, for every set from the definitions, for every get from the shape of its rows
  in the three tables (`GetAssumption`);
- `EffectKept` from the same invariant. Hypothesis: `Named`, that each call on its own leads to the
  command it is named after. The theorem adds that no interleaving, loss or
  restart has a command done twice, for another call or with other values, and, without the hypothesis,
  that a set which returned 0 was done;
- `ReadsBackKept` from `SeenInv`: the parameters, in memory and in the flash, are what some call has set,
  and an answer is made of the parameter its query has seen. Hypothesis: `ReadsBack`, that each
  get on its own returns what a set of its parameter has passed.

`Named` and `ReadsBack` are statements about the rows of the tables, one call or one pair of calls at
a time; proving them would be to evaluate the tables. The first plan of `config_calls`
makes every call alone and the second every pair of a set and a get, so that `EffectAsNamed` and `RoundTrip` check just
the two hypotheses there, and the theorems extend them to every interleaving. The assumptions
`ConfAssumption`, `PlanAssumption`, `WrapAssumption`, `RadioAssumption`, `MacAssumption`,
`FileAssumption` and `GetAssumption` say how calls and tables fit together; TLC evaluates them on the
tables and calls of the run.

`HgicfCoreProofs`, for all retry counts, resets and buses: `TypeCorrect` with what the
control flow keeps (a loop is entered only with a try left, RUNNING is set until
removal begins); `SuspendStaysOwned` and `DetectorStaysAlive`, proved together,
since detect_work hands SUSPEND to delay_init and rearms the timer at its end; and
`RemoveLeavesQuiet` from `Swept`, which says for each position of
`hgicf_core_remove` what may still be armed, pending or running. It shows why
the second pass is needed: a work item that ran during the first may have scheduled another.

`DataPathProofs`, for all frame lengths, queue, window and aggregate sizes: `FramesStayInOrder` from `InLine`, in
which what was sent, the aggregate, the frame in hand and the queue are one rising sequence, so that a
frame that is put back returns to its place; `LimitsKept`, where the positions of
xmit and tx_work bound what each may still add. `ReceivedInOrder`, for any set of buffers whose sub-frames are where
their headers say: `RxInv` says that the loop stands at the end of a frame (`Cursor`), that
what it has passed was delivered or is counted as lost to a failed allocation (`Handed`), and that what the open buffer
holds is wanted (`Opened`).

`SleepFlowProofs`: `SleepStaysQuiet`, for any users, types, calls, timeouts and failures, without
hypotheses. `Numbered` says that a command, also one left over from a call that gave up, belongs to one
call and asks for what that call asked for. `SoleSafe` says of the sole call that nobody else is on the way to clear
the flag, and that once its command is sent the flag is set or tx_work is about to set it (`FlagSure`),
which is why a preemption there does no harm to a call that is obeyed.

`BootDlProofs`, for every image, fragment and block size, any number of attempts, losses
and refusals: `ReadStaysBounded` from the arithmetic of the position (`Base`), and `ImageRunsWhole`
from `Sound`: while no answer was repeated and no ENTER of detect_work came in between, the last cookie tells which
window the module has open, and all bytes below the position are in place.

`HgicBusProofs`, for any buffers, frames, errors and restarts: the four invariants of
`bus_frames`. `UsbInv` counts permits against free buffers with the
position of tx_packet and of completions, and says which buffer holds which frame; `SdioInv` says for each
position of the four SDIO threads who has the host and which of the settings of card and host
the reinit has already made equal; a bus that cannot be wide never is (`Narrow`).

`UpgradeProofs`, for any writers, tools, stations, files and block size:

- `UploadsAreWhole` and `QueueStaysClean` from `DInv`: for a writer that was alone, the queue holds
  just its fragment, and every fragment below its position is in the flash;
- `UpgradesAreComplete` from `HInv`: all blocks below the offset of an invocation were
  accepted, the offset is a multiple of the block or past the end (`NextMultiple`), and each
  block or answer in the air belongs to an invocation that sent it.

The proofs rest on the named assumptions about constants (`CallersAssumption`,
`KindAssumption`, `CookieAssumption` and the like), all of which TLC evaluates,
on `CookieWindow`, a guard of `GetCookie`, and on the hypotheses named above.

Only model-checked:

- all liveness properties, since fairness and ENABLED are out of the prover's reach;
- that each row of `FwCmds`, `IwprivCmds` and `HgPriv` does what it is named after (`Named`, `ReadsBack`):
  they are finite tables, of which TLC checks every row;
- `FailureClears`, which is violated.

## Not modelled

- `mmc_spi.c`, a patched kernel driver, and `ah_freqinfo.c`, tables and one command that sends them.
- `bluetooth.c`, which is compiled out; `hgic_fwctrl_send_hci_data` is in `FwCtrl`.
- The Network AT tools: they build a text, broadcast it and print what answers;
  their only state is the cookie of the last request.
- The command lines `hgpriv.c` and `hgicf.c`: they parse arguments, call the library and print.
- `libota_update_config`, which no tool calls.
- The cleanup of a failed USB probe, suspend and resume of the two bus drivers
  beyond their calls of the core, module init and exit, `__RTOS__` branches, and memory
  exhaustion beyond `UsbPool` and `RxPath`.
- Three hazards no property covers, with the reasons in `PROJECT.json`: the use of
  `tx_wq` between its destruction and `unregister_netdev` (`core.c:994`), a frame that fits into
  no aggregate (`core.c:457`, excluded by `AggAssumption`), and `usb_kill_urb` with
  the lock of the lists held (`if_usb.c:103`).

## Plan

All modules of the plan are written, every invariant and the refinement are proved, and
the liveness properties are checked. What could be added:

1. a property for each of the three hazards above, which takes finer steps of removal in
   `HgicfCore` and of `hgic_usb_free` in `UsbPool`;
2. suspend and resume of the two bus drivers, and the Bluetooth interface once it is compiled in.
