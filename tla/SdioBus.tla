------------------------------ MODULE SdioBus ------------------------------
(***************************************************************************)
(* The SDIO bus driver, src/utils/if_sdio.c.  Four threads share the host  *)
(* (sdio_claim_host) and the card: tx, the core's transmit work in         *)
(* hgic_sdio_tx_packet; irq, the host's interrupt thread in                *)
(* hgic_sdio_interrupt; core, which calls bus->reinit; and rm, which       *)
(* probes and removes the device.  hgic_sdio_reinit_card is a subroutine   *)
(* of the first three, run with the host claimed.                          *)
(***************************************************************************)
EXTENDS Integers, Sequences, FiniteSets

CONSTANTS
    Frames,         \* the frames the core transmits, 1..Frames
    MaxErrs,        \* bound on bus errors
    MaxCardResets,  \* bound on restarts of the card
    MaxInts,        \* bound on interrupts of the card
    MaxCore,        \* bound on bus->reinit calls and on changes of SLEEP
    BusyLoops,      \* reads of the busy register before tx_packet waits (5)
    MaxRetry,       \* the retries of a reinit (2)
    RxRetry,        \* sdiodev->rx_retry: 0 with a host interrupt, else 5
    IsSpi,          \* hgic_host_is_spi
    Caps,           \* what host and card may both be able to do, subsets of {"fast", "wide"}:
                    \* high speed and a bus of 4 bits
    SoftFc          \* HGIC_BUS_FLAGS_SOFTFC: tx_packet does not test for busy

ASSUME SdioAssumption ==
    /\ Frames \in Nat /\ MaxErrs \in Nat /\ MaxCardResets \in Nat /\ MaxInts \in Nat
    /\ MaxCore \in Nat /\ BusyLoops \in Nat /\ MaxRetry \in Nat /\ RxRetry \in Nat
    /\ IsSpi \in BOOLEAN /\ SoftFc \in BOOLEAN
    /\ Caps \subseteq SUBSET {"fast", "wide"}

VARIABLES
    host,           \* the thread that has claimed the host, or "none"
    txp,            \* [pc, frame, loop]
    irq,            \* [pc, st, more]: the interrupt thread, its int_status and read_more
    core,           \* "idle", "claim" or "run": the core inside bus->reinit
    rm,             \* probe, then remove
    rein,           \* the running hgic_sdio_reinit_card, by = "" for none; whole: the card
                    \* has not restarted since the attempt began
    dev,            \* sdiodev: "none", "live", "freed"
    drvdata,        \* sdio_get_drvdata(func) # NULL
    irqon,          \* sdio_claim_irq
    halt, sleep, noreinit,   \* STATUS_STOP, FLAGS_SLEEP, FLAGS_DISABLE_REINIT
    busypd, busydone,        \* busypd and the count of the completion busy
    hostcfg,        \* [hs, width, can]: the host's timing and bus width, and what host
                    \* and card are both able to do
    card,           \* [hs, width, ien, en, busy]: the card
    pending,        \* what the card's interrupt status shows: "data", "busy"
    done,           \* done[f]: the results tx_complete was called with
    copied,         \* history: the frames the card has taken
    hsmissed,       \* history: the last reinit ignored a failed set_highspeed
    synced,         \* history: a reinit succeeded and the card has not restarted since
    errs, cardresets, ints, coreops

sdiovars == <<host, txp, irq, core, rm, rein, dev, drvdata, irqon, halt, sleep, noreinit, busypd,
              busydone, hostcfg, card, pending, done, copied, hsmissed, synced, errs, cardresets,
              ints, coreops>>
flags == <<halt, sleep, noreinit>>
bounds == <<cardresets, ints, coreops>>
device == <<dev, drvdata, irqon>>

Legacy == [hostcfg EXCEPT !.hs = FALSE, !.width = 1]
CardReset == [hs |-> FALSE, width |-> 1, ien |-> FALSE, en |-> FALSE, busy |-> FALSE]
NoReinit == [by |-> "", step |-> 0, retry |-> 0, whole |-> FALSE]

\* The steps of hgic_sdio_reinit_card whose failure is looked at.
Steps == <<"probe_ocr", "wait_ocr">>
            \o (IF IsSpi THEN <<"spi_crc">> ELSE <<"card_addr", "select", "disable_cd">>)
            \o <<"highspeed", "wire_width", "block_size", "int_enable", "enable_func">>

SdioTypeOK ==
    /\ host \in {"none", "tx", "irq", "core", "rm"}
    /\ txp \in [pc : {"idle", "claim", "busy", "wait", "reclaim", "copy", "again", "reinit"},
               frame : 0..Frames, loop : 0..(BusyLoops + 1)]
    /\ irq \in [pc : {"idle", "status", "read", "loop", "reinit"}, st : SUBSET {"data", "busy"},
                more : 0..RxRetry]
    /\ core \in {"idle", "claim", "run"}
    /\ rm \in {"new", "bound", "unbound", "stopping", "noirq", "coredown", "gone"}
    /\ rein \in [by : {"", "busy", "copy", "irq", "core"}, step : 0..Len(Steps), retry : 0..(MaxRetry + 1), whole : BOOLEAN]
    /\ dev \in {"none", "live", "freed"}
    /\ pending \subseteq {"data", "busy"}

SdioInit ==
    /\ host = "none" /\ rein = NoReinit
    /\ txp = [pc |-> "idle", frame |-> 0, loop |-> 0]
    /\ irq = [pc |-> "idle", st |-> {}, more |-> 0]
    /\ core = "idle" /\ rm = "new"
    /\ dev = "none" /\ drvdata = FALSE /\ irqon = FALSE
    /\ halt = FALSE /\ sleep = FALSE /\ noreinit = FALSE
    /\ busypd = FALSE /\ busydone = 0
    /\ \E c \in Caps :                                     \* set up by the mmc core
          LET w == IF "wide" \in c THEN 4 ELSE 1
          IN  /\ hostcfg = [hs |-> "fast" \in c, width |-> w, can |-> c]
              /\ card = [hs |-> "fast" \in c, width |-> w, ien |-> FALSE, en |-> FALSE, busy |-> FALSE]
    /\ pending = {}
    /\ done = [f \in 1..Frames |-> <<>>]
    /\ copied = {} /\ hsmissed = FALSE /\ synced = FALSE
    /\ errs = 0 /\ cardresets = 0 /\ ints = 0 /\ coreops = 0

-----------------------------------------------------------------------------
(* The card.                                                               *)

\* An access to function 1 succeeds only if the card is up and host and card
\* agree on the bus width; it may fail anyway.
Works == card.en /\ card.width = hostcfg.width
Fails == \/ ~Works /\ UNCHANGED errs
         \/ Works /\ errs < MaxErrs /\ errs' = errs + 1
Succeeds == Works /\ UNCHANGED errs

\* The card raises an interrupt, turns busy or ready, or restarts.
CardInterrupt ==
    /\ ints < MaxInts /\ ints' = ints + 1
    /\ card.en /\ card.ien
    /\ \E s \in {"data", "busy"} : s \notin pending /\ pending' = pending \union {s}
    /\ UNCHANGED <<host, txp, irq, core, rm, rein, device, flags, busypd, busydone, hostcfg, card, done,
                   copied, hsmissed, synced, errs, cardresets, coreops>>
CardBusy ==
    /\ card' = [card EXCEPT !.busy = ~@]
    /\ UNCHANGED <<host, txp, irq, core, rm, rein, device, flags, busypd, busydone, hostcfg, pending, done,
                   copied, hsmissed, synced, errs, bounds>>
CardRestart ==
    /\ cardresets < MaxCardResets /\ cardresets' = cardresets + 1
    /\ dev = "live" /\ card' = CardReset /\ pending' = {} /\ synced' = FALSE
    /\ rein' = [rein EXCEPT !.whole = FALSE]
    /\ UNCHANGED <<host, txp, irq, core, rm, device, flags, busypd, busydone, hostcfg, done, copied,
                   hsmissed, errs, ints, coreops>>

-----------------------------------------------------------------------------
(* hgic_sdio_reinit_card, with the host claimed.                           *)

Call(by) == rein' = [NoReinit EXCEPT !.by = by]

tx_complete(f, ok) == done' = [done EXCEPT ![f] = Append(@, ok)]

\* Mutant: tx_packet waits with the host claimed.
BusyAgainKeep ==
    IF txp.loop > BusyLoops
    THEN txp' = [txp EXCEPT !.pc = "wait", !.loop = 0] /\ busypd' = TRUE /\ UNCHANGED host
    ELSE txp' = [txp EXCEPT !.pc = "busy", !.loop = @ + 1] /\ UNCHANGED <<busypd, host>>

\* One more turn of the busy loop of tx_packet: after BusyLoops reads it sets
\* busypd, releases the host and waits.
BusyAgain ==
    IF txp.loop > BusyLoops
    THEN txp' = [txp EXCEPT !.pc = "wait", !.loop = 0] /\ busypd' = TRUE /\ host' = "none"
    ELSE txp' = [txp EXCEPT !.pc = "busy", !.loop = @ + 1] /\ UNCHANGED <<busypd, host>>

\* The function returns ok and its caller goes on: is_busy reports busy,
\* copy_toio tries once more or gives up, the interrupt handler returns, and
\* hgic_sdio_reinit releases the host.
Return(ok) ==
    /\ rein' = NoReinit
    /\ \/ /\ rein.by = "busy" /\ BusyAgain
          /\ UNCHANGED <<irq, core, done>>
       \/ /\ rein.by = "copy" /\ ok
          /\ txp' = [txp EXCEPT !.pc = "again"]
          /\ UNCHANGED <<host, irq, core, done, busypd>>
       \/ /\ rein.by = "copy" /\ ~ok
          /\ txp' = [txp EXCEPT !.pc = "idle"] /\ host' = "none" /\ tx_complete(txp.frame, FALSE)
          /\ UNCHANGED <<irq, core, busypd>>
       \/ /\ rein.by = "irq"
          /\ irq' = [irq EXCEPT !.pc = "idle"] /\ host' = "none"
          /\ UNCHANGED <<txp, core, done, busypd>>
       \/ /\ rein.by = "core"
          /\ core' = "idle" /\ host' = "none"
          /\ UNCHANGED <<txp, irq, done, busypd>>

\* __RETRY: the tests, and the start of an attempt.  The results of the first
\* select, the reset and go_idle are not looked at: the card may have missed
\* them.
CanReinit == drvdata /\ ~noreinit /\ ~sleep /\ rein.retry <= MaxRetry
ReinitRetry ==
    /\ rein.by # "" /\ rein.step = 0
    /\ IF CanReinit
       THEN /\ rein' = [rein EXCEPT !.retry = @ + 1, !.step = 1, !.whole = TRUE]
            /\ hostcfg' = Legacy /\ hsmissed' = FALSE /\ synced' = FALSE
            /\ \/ card' = [CardReset EXCEPT !.busy = card.busy] /\ UNCHANGED errs
               \/ errs < MaxErrs /\ errs' = errs + 1 /\ UNCHANGED card
            /\ UNCHANGED <<host, txp, irq, core, busypd, done>>
       ELSE Return(FALSE) /\ UNCHANGED <<hostcfg, card, hsmissed, synced, errs>>
    /\ UNCHANGED <<rm, device, flags, busydone, pending, copied, bounds>>

\* hgic_sdio_set_highspeed and hgic_sdio_set_wire_width return at once when
\* host or card is not able.
Skipped(step) == \/ step = "highspeed" /\ "fast" \notin hostcfg.can
                 \/ step = "wire_width" /\ "wide" \notin hostcfg.can

\* What a step does to the card, and, once the card has answered, to the
\* host.  A step that fails may have reached the card.
CardAfter(step) ==
    IF Skipped(step) THEN card
    ELSE CASE step = "highspeed"   -> [card EXCEPT !.hs = TRUE]
           [] step = "wire_width"  -> [card EXCEPT !.width = 4]
           [] step = "int_enable"  -> [card EXCEPT !.ien = TRUE]
           [] step = "enable_func" -> [card EXCEPT !.en = TRUE]
           [] OTHER                -> card

\* The host's timing is set to that of high speed also when set_highspeed
\* did nothing.
HostAfter(step) ==
    CASE step = "highspeed"                       -> [hostcfg EXCEPT !.hs = TRUE]
      [] step = "wire_width" /\ ~Skipped(step)    -> [hostcfg EXCEPT !.width = 4]
      [] OTHER                                    -> hostcfg

\* Mutant: the error of hgic_sdio_set_wire_width is ignored as well.
IgnoredWidth(step) == step \in {"highspeed", "wire_width"}

\* hgic_sdio_set_highspeed returns its error as a u32, which is never below
\* 0: the step cannot fail, and the host changes to high speed all the same.
Ignored(step) == step = "highspeed"

ReinitStep ==
    /\ rein.by # "" /\ rein.step > 0
    /\ LET step == Steps[rein.step]
           last == rein.step = Len(Steps)
       IN  \/ /\ card' = CardAfter(step) /\ hostcfg' = HostAfter(step)
              /\ IF last THEN Return(TRUE) /\ synced' = rein.whole
                         ELSE /\ rein' = [rein EXCEPT !.step = @ + 1]
                              /\ UNCHANGED <<host, txp, irq, core, busypd, done, synced>>
              /\ UNCHANGED <<errs, hsmissed>>
           \/ /\ ~Skipped(step) /\ errs < MaxErrs /\ errs' = errs + 1
              /\ card' \in {card, CardAfter(step)}
              /\ hostcfg' = IF Ignored(step) THEN HostAfter(step) ELSE hostcfg
              /\ hsmissed' = (hsmissed \/ Ignored(step))
              /\ rein' = [rein EXCEPT !.step = IF Ignored(step) THEN @ + 1 ELSE 0]
              /\ UNCHANGED <<host, txp, irq, core, busypd, done, synced>>
    /\ UNCHANGED <<rm, device, flags, busydone, pending, copied, bounds>>

-----------------------------------------------------------------------------
(* hgic_sdio_tx_packet.                                                    *)

txrest == <<irq, core, rm, device, flags, hostcfg, pending, hsmissed, synced, bounds>>

\* The core's transmit work takes the next frame.
TxCall ==
    /\ txp.pc = "idle" /\ txp.frame < Frames
    /\ dev = "live" /\ rm \in {"bound", "stopping", "noirq"}
    /\ txp' = [pc |-> "claim", frame |-> txp.frame + 1, loop |-> 0]
    /\ UNCHANGED <<host, rein, busypd, busydone, card, done, copied, errs, txrest>>

\* Mutant: only a bus that sleeps gives the frame back.
StoppedAsleep == sleep

Stopped == halt \/ sleep

\* Mutant: a stopped bus returns without tx_complete.
TxClaimDropped ==
    /\ txp.pc \in {"claim", "reclaim"} /\ host = "none"
    /\ busypd' = IF txp.pc = "reclaim" THEN FALSE ELSE busypd
    /\ IF Stopped
       THEN txp' = [txp EXCEPT !.pc = "idle"] /\ UNCHANGED <<done, host>>
       ELSE /\ host' = "tx" /\ UNCHANGED done
            /\ txp' = [txp EXCEPT !.pc = IF SoftFc THEN "copy" ELSE "busy"]
    /\ UNCHANGED <<rein, busydone, card, copied, errs, txrest>>

\* With the host claimed the frame is given back if the bus is stopped or
\* asleep; the second time after the wait for a card that is busy.
TxClaim ==
    /\ txp.pc \in {"claim", "reclaim"} /\ host = "none"
    /\ busypd' = IF txp.pc = "reclaim" THEN FALSE ELSE busypd
    /\ IF Stopped
       THEN txp' = [txp EXCEPT !.pc = "idle"] /\ tx_complete(txp.frame, FALSE) /\ UNCHANGED host
       ELSE /\ host' = "tx" /\ UNCHANGED done
            /\ txp' = [txp EXCEPT !.pc = IF SoftFc THEN "copy" ELSE "busy"]
    /\ UNCHANGED <<rein, busydone, card, copied, errs, txrest>>

\* hgic_sdio_is_busy.
TxBusy ==
    /\ txp.pc = "busy"
    /\ \/ /\ Succeeds /\ ~card.busy
          /\ txp' = [txp EXCEPT !.pc = "copy"] /\ UNCHANGED <<rein, host, busypd>>
       \/ Succeeds /\ card.busy /\ BusyAgain /\ UNCHANGED rein
       \/ Fails /\ Call("busy") /\ txp' = [txp EXCEPT !.pc = "reinit"] /\ UNCHANGED <<host, busypd>>
    /\ UNCHANGED <<busydone, card, done, copied, txrest>>

\* wait_for_completion_timeout: a completion, or 10 ms.
TxWake ==
    /\ txp.pc = "wait"
    /\ txp' = [txp EXCEPT !.pc = "reclaim"]
    /\ busydone' = IF busydone > 0 THEN busydone - 1 ELSE 0
    /\ UNCHANGED <<host, rein, busypd, card, done, copied, errs, txrest>>

\* kmalloc of the aligned copy fails, or hgic_sdio_copy_toio: an error is
\* retried once, after a successful reinit.
TxCopy ==
    /\ txp.pc \in {"copy", "again"}
    /\ \/ /\ txp.pc = "copy" /\ errs < MaxErrs /\ errs' = errs + 1
          /\ host' = "none" /\ tx_complete(txp.frame, FALSE)
          /\ txp' = [txp EXCEPT !.pc = "idle"] /\ UNCHANGED <<rein, copied>>
       \/ /\ Succeeds /\ copied' = copied \union {txp.frame}
          /\ host' = "none" /\ tx_complete(txp.frame, TRUE)
          /\ txp' = [txp EXCEPT !.pc = "idle"] /\ UNCHANGED rein
       \/ /\ txp.pc = "copy" /\ Fails /\ Call("copy")
          /\ txp' = [txp EXCEPT !.pc = "reinit"] /\ UNCHANGED <<host, done, copied>>
       \/ /\ txp.pc = "again" /\ Fails
          /\ host' = "none" /\ tx_complete(txp.frame, FALSE)
          /\ txp' = [txp EXCEPT !.pc = "idle"] /\ UNCHANGED <<rein, copied>>
    /\ UNCHANGED <<busypd, busydone, card, txrest>>

-----------------------------------------------------------------------------
(* hgic_sdio_interrupt, which the host calls with the host claimed.        *)

irqrest == <<txp, core, rm, device, flags, busypd, hostcfg, card, done, copied, hsmissed, synced, bounds>>

IrqEnter ==
    /\ irq.pc = "idle" /\ host = "none"
    /\ irqon /\ drvdata /\ ~halt /\ pending # {}
    /\ host' = "irq"
    /\ irq' = [pc |-> "status", st |-> {}, more |-> RxRetry]
    /\ UNCHANGED <<rein, busydone, pending, errs, irqrest>>

\* hgic_sdio_int_status: 0 when the registers cannot be read.
IrqStatus ==
    /\ irq.pc = "status"
    /\ \E st \in {pending, {}} :
          /\ (st = pending /\ Succeeds) \/ (st = {} /\ Fails)
          /\ irq' = [pc   |-> IF "data" \in st THEN "read" ELSE "loop", st |-> st,
                     more |-> IF "data" \in st THEN RxRetry ELSE irq.more]
    /\ UNCHANGED <<host, rein, busydone, pending, irqrest>>

\* The frame: its length cannot be read or the copy fails (reinit, return),
\* it is too long (abort, return), or it goes to rx_packet.
IrqRead ==
    /\ irq.pc = "read"
    /\ \/ /\ Fails /\ Call("irq")
          /\ irq' = [irq EXCEPT !.pc = "reinit"] /\ UNCHANGED <<host, pending>>
       \/ /\ Succeeds /\ pending' = pending \ {"data"}
          /\ irq' = [irq EXCEPT !.pc = "idle"] /\ host' = "none" /\ UNCHANGED rein
       \/ /\ Succeeds /\ pending' = pending \ {"data"}
          /\ irq' = [irq EXCEPT !.pc = "loop"] /\ UNCHANGED <<host, rein>>
    /\ UNCHANGED <<busydone, irqrest>>

\* The end of a turn; rx_packet's error ends the loop.
IrqLoop ==
    /\ irq.pc = "loop"
    /\ busydone' = IF "busy" \in irq.st /\ busypd THEN 1 ELSE busydone
    /\ pending' = pending \ (irq.st \ {"data"})
    /\ \/ /\ irq.more > 0
          /\ irq' = [irq EXCEPT !.pc = "status", !.st = {}, !.more = @ - 1] /\ UNCHANGED host
       \/ /\ irq.more = 0 \/ "data" \in irq.st
          /\ irq' = [irq EXCEPT !.pc = "idle", !.st = {}, !.more = 0] /\ host' = "none"
    /\ UNCHANGED <<rein, errs, irqrest>>

-----------------------------------------------------------------------------
(* The core and the device model.                                          *)

corerest == <<txp, irq, device, halt, noreinit, busypd, busydone, hostcfg, card, pending, done, copied,
              hsmissed, synced, errs, cardresets, ints>>

\* hgic_sdio_reinit.
CoreReinit ==
    /\ core = "idle" /\ coreops < MaxCore /\ coreops' = coreops + 1
    /\ dev = "live" /\ rm \in {"bound", "stopping", "noirq"}
    /\ core' = "claim"
    /\ UNCHANGED <<host, rein, rm, sleep, corerest>>
CoreClaim ==
    /\ core = "claim" /\ host = "none"
    /\ core' = "run" /\ host' = "core" /\ Call("core")
    /\ UNCHANGED <<rm, sleep, coreops, corerest>>

\* The core puts the bus to sleep or wakes it.
CoreSleep ==
    /\ dev = "live" /\ rm = "bound" /\ coreops < MaxCore /\ coreops' = coreops + 1
    /\ sleep' = ~sleep
    /\ UNCHANGED <<host, rein, core, rm, corerest>>

rmrest == <<txp, irq, core, rein, busypd, busydone, hostcfg, pending, done, copied, hsmissed, synced,
            errs, bounds>>

\* hgic_sdio_probe and hgic_sdio_enable.  The failures before enable leave
\* ret at 0: the device stays bound, without sdiodev.
Probe ==
    /\ rm = "new"
    /\ \/ /\ rm' = "bound" /\ dev' = "live" /\ drvdata' = TRUE /\ irqon' = TRUE
          /\ card' = [card EXCEPT !.ien = TRUE, !.en = TRUE]
       \/ rm' \in {"bound", "unbound"} /\ UNCHANGED <<device, card>>
    /\ UNCHANGED <<host, flags, rmrest>>

\* hgic_sdio_remove: no more reinit, stop; the interrupt is released; the
\* core is removed, which waits for its work; sdiodev is freed.
Remove ==
    /\ rm = "bound"
    /\ rm' = IF drvdata THEN "stopping" ELSE "gone"
    /\ noreinit' = (noreinit \/ drvdata) /\ halt' = (halt \/ drvdata)
    /\ UNCHANGED <<host, device, sleep, card, rmrest>>
RemoveIrq ==
    /\ rm = "stopping" /\ host = "none"
    /\ rm' = "noirq" /\ irqon' = FALSE
    /\ UNCHANGED <<host, dev, drvdata, flags, card, rmrest>>
RemoveCore ==
    /\ rm = "noirq" /\ txp.pc = "idle" /\ core = "idle"
    /\ rm' = "coredown"
    /\ UNCHANGED <<host, device, flags, card, rmrest>>
RemoveFree ==
    /\ rm = "coredown" /\ host = "none"
    /\ rm' = "gone" /\ dev' = "freed" /\ drvdata' = FALSE
    /\ UNCHANGED <<host, irqon, flags, card, rmrest>>

-----------------------------------------------------------------------------
Thread == TxCall \/ TxClaim \/ TxBusy \/ TxWake \/ TxCopy \/ IrqEnter \/ IrqStatus \/ IrqRead
            \/ IrqLoop \/ CoreClaim \/ ReinitRetry \/ ReinitStep
SdioNext == Thread \/ CardInterrupt \/ CardBusy \/ CardRestart \/ CoreReinit \/ CoreSleep
            \/ Probe \/ Remove \/ RemoveIrq \/ RemoveCore \/ RemoveFree

\* The threads run; claiming the host and the waits end; nothing is assumed of
\* the card.
SdioFairness == /\ WF_sdiovars(TxCall \/ TxBusy \/ TxWake \/ TxCopy) /\ WF_sdiovars(TxClaim)
            /\ WF_sdiovars(IrqStatus \/ IrqRead \/ IrqLoop)
            /\ WF_sdiovars(CoreClaim) /\ WF_sdiovars(ReinitRetry \/ ReinitStep)
            /\ WF_sdiovars(RemoveIrq \/ RemoveCore \/ RemoveFree)
SdioSpec == SdioInit /\ [][SdioNext]_sdiovars /\ SdioFairness

-----------------------------------------------------------------------------
(* Properties.                                                             *)

\* Every frame handed to hgic_sdio_tx_packet is completed exactly once, by
\* the time the function returns, whichever of its exits it takes; it is
\* reported as sent only if the card has taken it.
CompletedOnce ==
    \A f \in 1..Frames :
        /\ Len(done[f]) = IF f < txp.frame \/ (f = txp.frame /\ txp.pc = "idle") THEN 1 ELSE 0
        /\ done[f] = <<TRUE>> => f \in copied

\* The host is claimed by the thread that is in a section that needs it, and
\* by none when it has left: no exit keeps the host, and none works without.
HostOwned ==
    host = CASE txp.pc \in {"busy", "copy", "again", "reinit"} -> "tx"
             [] irq.pc # "idle" -> "irq"
             [] core = "run"    -> "core"
             [] OTHER           -> "none"

\* After a reinit that succeeded the host and the card use the same bus width
\* and the card's interrupt and function are on, whatever failed on the way
\* and whatever the two are able to do.  The host's timing is that of high
\* speed, also with a card that was not switched to it, because
\* set_highspeed failed unnoticed or because host or card does not have it.
BusAgrees ==
    synced /\ rein.by = "" =>
        /\ card.width = hostcfg.width /\ card.en /\ card.ien
        /\ hostcfg.hs /\ (card.hs \/ hsmissed \/ "fast" \notin hostcfg.can)

\* Remove ends, also while a frame waits for a card that stays busy or no
\* longer answers.
RemoveEnds == rm = "stopping" ~> rm = "gone"
=============================================================================
