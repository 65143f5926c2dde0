------------------------------ MODULE MCFwCtrl ------------------------------
(***************************************************************************)
(* Instances of FwCtrl for TLC.                                            *)
(***************************************************************************)
EXTENDS FwCtrl, TLC

CONSTANTS c1, c2, ota, boot, hci

(* Two commands; the download of the firmware, the OTA writer and HCI data. *)
KindsTwo   == c1 :> "CMD" @@ c2 :> "CMD"
KindsMixed == boot :> "BOOTDL" @@ ota :> "OTA" @@ hci :> "HCI"
=============================================================================
