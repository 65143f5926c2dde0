------------------------------ MODULE DataPath ------------------------------
(***************************************************************************)
(* Both directions of the data path.  They share the window, which TxPath  *)
(* has the module announce (SetTxwnd, the SOFTFC case of hgicf_rx_data),   *)
(* and nothing else: a behaviour exercises one of them.                    *)
(***************************************************************************)
EXTENDS TxPath, RxPath

VARIABLE dir

dpvars == <<dir, vars, rxvars>>
Outward == UNCHANGED <<dir, rxvars>>
Inward == UNCHANGED <<dir, vars>>

DpInit == dir \in {"out", "in"} /\ Init /\ RxInit /\ (dir = "out" => ~iftest)
DpNext == \/ dir = "out" /\ Next /\ Outward
          \/ dir = "in" /\ RxNext /\ Inward

(* TxPath's fairness, for the outward direction.                           *)
Out(A) == dir = "out" /\ A /\ Outward
DpFairness ==
  /\ WF_dpvars(Out(XmitQueue \/ XmitKick))
  /\ WF_dpvars(Out(TxWork))
  /\ SF_dpvars(Out(at = "again" /\ asked /\ \E n \in Grants : n >= Window /\ SetTxwnd(n)))
  /\ SF_dpvars(Out(CheckAgain /\ at' = "dec"))
  /\ WF_dpvars(Out(Reload))
DpSpec == DpInit /\ [][DpNext]_dpvars /\ DpFairness
=============================================================================
