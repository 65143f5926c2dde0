------------------------------ MODULE HgicBus -------------------------------
(***************************************************************************)
(* The buses a module may be on.  hgic_usb_probe and hgic_sdio_probe fill  *)
(* in the same struct hgic_bus, and the core hands its frames to           *)
(* bus->tx_packet without knowing which of the two it talks to.  A         *)
(* behaviour has one device, on one of the buses.                          *)
(***************************************************************************)
EXTENDS UsbPool, SdioBus

VARIABLE bus

BusInit == bus \in {"usb", "sdio"} /\ Init /\ SdioInit
OnUsb == UNCHANGED <<bus, sdiovars>>
OnSdio == UNCHANGED <<bus, vars>>
BusNext == \/ bus = "usb" /\ Next /\ OnUsb
           \/ bus = "sdio" /\ SdioNext /\ OnSdio

busvars == <<bus, vars, sdiovars>>

(* UsbFairness and SdioFairness, for the bus the device is on: one conjunct *)
(* serves both buses, of which only one moves.                             *)
ByUsb(A) == bus = "usb" /\ A /\ OnUsb
BySdio(A) == bus = "sdio" /\ A /\ OnSdio
BusFairness ==
  /\ WF_busvars(ByUsb(TxStep) \/ BySdio(TxCall \/ TxBusy \/ TxWake \/ TxCopy))
  /\ WF_busvars(ByUsb(UrbTxPost) \/ BySdio(TxClaim))
  /\ \A b \in TxBufs : WF_busvars(ByUsb(UrbTxDone(b)))
  /\ WF_busvars(BySdio(IrqStatus \/ IrqRead \/ IrqLoop))
  /\ WF_busvars(BySdio(CoreClaim))
  /\ WF_busvars(BySdio(ReinitRetry \/ ReinitStep))
  /\ WF_busvars(BySdio(RemoveIrq \/ RemoveCore \/ RemoveFree))
BusSpec == BusInit /\ [][BusNext]_busvars /\ BusFairness

-----------------------------------------------------------------------------
(* Whichever bus it is, the core frees and counts a frame when the bus     *)
(* completes it: once, by whichever of tx_packet's exits or completions.   *)
FrameCompletedOnce == SkbCompletedOnce /\ CompletedOnce

(* Neither bus leaves anybody waiting: on USB every frame is completed in  *)
(* the end, on SDIO the removal ends while interrupts, transmission and a  *)
(* reinitialisation compete for the host.                                  *)
BusProgress == FramesComplete /\ RemoveEnds
=============================================================================
