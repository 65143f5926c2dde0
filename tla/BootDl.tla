------------------------------- MODULE BootDl -------------------------------
(***************************************************************************)
(* The boot download: utils/fwdl.c and the retry loop of hgicf_download_fw *)
(* (hgic_fmac/core.c), with detect_work's ENTER commands, which share the  *)
(* bootdl record and the command channel with the download.                *)
(*                                                                         *)
(* The image is cut into fragments.  Each fragment is a WRITE_MEM command, *)
(* which announces address and length, and a data frame, which carries no  *)
(* header: its answer comes back under the cookie of the command before    *)
(* it, and last_cookie is where the driver keeps that cookie.  The command *)
(* channel is FwCtrl's: frames leave in order, an answer goes to the       *)
(* newest record with its cookie, and a call without an answer times out.  *)
(***************************************************************************)
EXTENDS Integers, Sequences

CONSTANTS
  ImageLen,   \* fw_info.fw_len
  FragSize,   \* frag_size, bus->bootdl_pktlen
  BlkSize,    \* bus->blk_size
  Retries,    \* the 10 of hgicf_download_fw
  MaxDetects, \* bound on the ENTER commands of detect_work
  MaxDups,    \* bound on the answers the module repeats
  MaxErrs     \* bound on the error answers of the module

ASSUME ImageAssumption == ImageLen \in Nat \ {0}
ASSUME FragAssumption  == /\ BlkSize \in Nat \ {0} /\ FragSize \in Nat \ {0}
                          /\ FragSize % BlkSize = 0
ASSUME BoundAssumption == {Retries, MaxDetects, MaxDups, MaxErrs} \subseteq Nat

Callers == {"init", "detect"}
Cmds    == {"ENTER", "WRITE", "RUN", "DATA"}

(* Return values: the answer's code, or one of the driver's own.           *)
OK        == 0     \* HG_BOOTDL_RSP_OK
ErrCmd    == 1     \* HG_BOOTDL_RSP_ERR_CMD
ErrPacket == 2     \* HG_BOOTDL_ERR_RSP_PACKET
InFw      == 255   \* HG_BOOTDL_RSP_ERR_IN_FW
Failed    == -1    \* no answer, no memory, no firmware file

STATE_FW   == 0
STATE_BOOT == 1

VARIABLES
  sdio,     \* bus->type = HGIC_BUS_SDIO, fixed by the probe
  at,       \* where the download is
  retry,    \* retry of hgicf_download_fw
  status,   \* status of hgicf_download_fw
  err,      \* err of hgicf_download_fw
  copy,     \* copy_len, signed
  off,      \* addr_offset; write_addr is the load address plus off
  xfer,     \* xfer_len
  cookie,   \* the channel's cookie counter
  lastck,   \* hg->bootdl.last_cookie
  detects,  \* ENTER commands of detect_work so far
  pd,       \* pd_list: records [by, ck], newest first
  ans,      \* the answer each caller was given
  txq,      \* frames on their way to the module
  air,      \* answers on their way to the driver
  expect,   \* the write the module was told to expect: [off, n], n = 0 if none
  devck,    \* the cookie of the last command the module got
  mem,      \* for each address the image byte it holds, -1 before
  up,       \* the module has started the image
  dups,     \* answers the module has repeated
  errs,     \* errors the module has answered
  raced     \* detect_work sent an ENTER between a WRITE and its data's answer

loopVars == <<sdio, retry, status, err>>
fragVars == <<copy, off, xfer>>
chanVars == <<cookie, lastck, pd, ans, txq>>
devVars  == <<expect, devck, mem, up, errs>>
vars == <<at, loopVars, fragVars, chanVars, detects, air, devVars, dups, raced>>

NoAns == [cmd |-> "none", ck |-> -1, rsp |-> 0]
NoWrite == [off |-> 0, n |-> 0]

Addresses == 0 .. ImageLen + BlkSize - 1

-----------------------------------------------------------------------------
(* hgic_bootdl_fragment_proc.                                              *)

ALIGN(n, a) == ((n + a - 1) \div a) * a

\* Mutant: the boundary between a full and a last fragment is one off.
FragmentProcOff(n) ==
  IF sdio THEN IF n <= FragSize + 1 THEN ALIGN(n, BlkSize) ELSE FragSize
          ELSE IF n > FragSize + 1 THEN FragSize ELSE n

FragmentProc(n) ==
  IF sdio THEN IF n < FragSize THEN ALIGN(n, BlkSize) ELSE FragSize
          ELSE IF n > FragSize THEN FragSize ELSE n

-----------------------------------------------------------------------------
(* The command channel.                                                    *)

SendCmd(c, cmd, a, n) ==
  /\ cookie' = cookie + 1
  /\ lastck' = cookie
  /\ pd' = <<[by |-> c, ck |-> cookie]>> \o pd
  /\ ans' = [ans EXCEPT ![c] = NoAns]
  /\ txq' = Append(txq, [cmd |-> cmd, ck |-> cookie, off |-> a, n |-> n])

(* A data frame loses its header on the way out (hgicf_tx_ctrl_frm).       *)
SendData(a, n) ==
  /\ pd' = <<[by |-> "init", ck |-> lastck]>> \o pd
  /\ ans' = [ans EXCEPT !["init"] = NoAns]
  /\ txq' = Append(txq, [cmd |-> "DATA", ck |-> -1, off |-> a, n |-> n])
  /\ UNCHANGED <<cookie, lastck>>

\* A call ends: completed or timed out.  list_del unlinks its record.
Unlink(c) ==
  /\ \E i \in 1 .. Len(pd) :
       /\ pd[i].by = c
       /\ pd' = [j \in 1 .. Len(pd) - 1 |-> IF j < i THEN pd[j] ELSE pd[j + 1]]
  /\ ans' = [ans EXCEPT ![c] = NoAns]
  /\ UNCHANGED <<cookie, lastck, txq>>

(* hgic_bootdl_cmd_rsp_handle: an answer to another command is an error.   *)
CmdResult(cmd) ==
  LET a == ans["init"]
  IN  IF a = NoAns THEN Failed ELSE IF a.cmd # cmd THEN ErrPacket ELSE a.rsp

\* Mutant: a data frame that nobody answered counts as written.
DataResultUnchecked == IF ans["init"] = NoAns THEN OK ELSE ans["init"].rsp

(* hgic_bootdl_send_fw looks at the code alone.                            *)
DataResult == IF ans["init"] = NoAns THEN Failed ELSE ans["init"].rsp

-----------------------------------------------------------------------------
(* hgicf_download_fw and hgic_bootdl_download.                             *)

Again(s, e) == s # STATE_FW /\ retry > 0 /\ e # OK

\* The end of an attempt: the while of hgicf_download_fw.
EndAttempt(s, e) ==
  /\ status' = s /\ err' = e /\ UNCHANGED sdio
  /\ IF Again(s, e) THEN at' = "ask" /\ retry' = retry - 1
                    ELSE at' = "end" /\ UNCHANGED retry

AskEnter ==
  /\ at = "ask"
  /\ SendCmd("init", "ENTER", 0, 0)
  /\ at' = "enter"
  /\ UNCHANGED <<loopVars, fragVars, detects, air, devVars, dups, raced>>

(* hgic_bootdl_cmd_enter returns a state, or the error code as it is: the  *)
(* module's ERR_CMD is STATE_BOOT.                                         *)
EnterStatus(r) == IF r = InFw THEN STATE_FW ELSE IF r = OK THEN STATE_BOOT ELSE r

EnterDone ==
  /\ at = "enter"
  /\ LET s == EnterStatus(CmdResult("ENTER"))
     IN  IF s = STATE_BOOT
         THEN at' = "parse" /\ status' = s /\ UNCHANGED <<sdio, retry, err>>
         ELSE EndAttempt(s, err)
  /\ Unlink("init")
  /\ UNCHANGED <<fragVars, detects, air, devVars, dups, raced>>

(* hgic_bootdl_parse_fw finds the file and its header good, or not.        *)
ParseFw ==
  /\ at = "parse"
  /\ \/ at' = "frag" /\ copy' = ImageLen /\ off' = 0 /\ UNCHANGED <<loopVars, xfer>>
     \/ EndAttempt(status, Failed) /\ UNCHANGED fragVars
  /\ UNCHANGED <<chanVars, detects, air, devVars, dups, raced>>

SendFragment ==
  /\ at = "frag" /\ copy > 0
  /\ \/ /\ xfer' = FragmentProc(copy)
        /\ SendCmd("init", "WRITE", off,
                   IF sdio THEN FragmentProc(copy) ELSE FragmentProc(copy) + 1024)
        /\ at' = "write"
        /\ UNCHANGED <<loopVars, copy, off>>
     \/ EndAttempt(status, Failed) /\ UNCHANGED <<fragVars, chanVars>>
  /\ UNCHANGED <<detects, air, devVars, dups, raced>>

WriteDone ==
  /\ at = "write"
  /\ LET r == CmdResult("WRITE")
     IN  IF r = OK THEN at' = "data" /\ UNCHANGED loopVars
                   ELSE EndAttempt(status, r)
  /\ Unlink("init")
  /\ UNCHANGED <<fragVars, detects, air, devVars, dups, raced>>

SendFw ==
  /\ at = "data"
  /\ SendData(off, xfer)
  /\ at' = "sent"
  /\ UNCHANGED <<loopVars, fragVars, detects, air, devVars, dups, raced>>

DataDone ==
  /\ at = "sent"
  /\ LET r == DataResult
     IN  IF r = OK
         THEN /\ at' = "frag" /\ off' = off + xfer /\ copy' = copy - xfer
              /\ UNCHANGED <<loopVars, xfer>>
         ELSE EndAttempt(status, r) /\ UNCHANGED fragVars
  /\ Unlink("init")
  /\ UNCHANGED <<detects, air, devVars, dups, raced>>

SendRun ==
  /\ at = "frag" /\ copy <= 0
  /\ SendCmd("init", "RUN", 0, ImageLen)
  /\ at' = "run"
  /\ UNCHANGED <<loopVars, fragVars, detects, air, devVars, dups, raced>>

\* Mutant: the wait for the last answer has no timeout.
RunDoneNoTimeout ==
  /\ at = "run" /\ ans["init"] # NoAns
  /\ EndAttempt(status, CmdResult("RUN"))
  /\ Unlink("init")
  /\ UNCHANGED <<fragVars, detects, air, devVars, dups, raced>>

RunDone ==
  /\ at = "run"
  /\ EndAttempt(status, CmdResult("RUN"))
  /\ Unlink("init")
  /\ UNCHANGED <<fragVars, detects, air, devVars, dups, raced>>

(* detect_work asks with the same record, at any time; what it does with   *)
(* the answer is HgicfCore's.                                              *)
DetectEnter ==
  /\ detects < MaxDetects
  /\ \A i \in 1 .. Len(pd) : pd[i].by # "detect"
  /\ detects' = detects + 1
  /\ SendCmd("detect", "ENTER", 0, 0)
  /\ raced' = (raced \/ at \in {"write", "data", "sent"})
  /\ UNCHANGED <<at, loopVars, fragVars, air, devVars, dups>>

DetectDone ==
  /\ Unlink("detect")
  /\ UNCHANGED <<at, loopVars, fragVars, detects, air, devVars, dups, raced>>

-----------------------------------------------------------------------------
(* The bus loses the oldest frame, or the module gets it.  The module's    *)
(* boot loader is known from fwdl.c only: it writes the data that follows  *)
(* a WRITE where it was told to, any other command ends its expectation,   *)
(* and it answers under the cookie of the last command it got.             *)

Answer(cmd, ck, rsp) == air' = air \cup {[cmd |-> cmd, ck |-> ck, rsp |-> rsp]}

TxLose ==
  /\ txq # <<>>
  /\ txq' = Tail(txq)
  /\ UNCHANGED <<at, loopVars, fragVars, cookie, lastck, pd, ans, detects, air,
                 devVars, dups, raced>>

ModuleCmd ==
  /\ txq # <<>> /\ Head(txq).cmd # "DATA"
  /\ LET f == Head(txq)
     IN  /\ devck' = f.ck
         /\ \/ /\ up /\ Answer(f.cmd, f.ck, InFw)
               /\ UNCHANGED <<expect, up, errs>>
            \/ /\ ~up /\ errs < MaxErrs /\ errs' = errs + 1
               /\ Answer(f.cmd, f.ck, ErrCmd)
               /\ expect' = NoWrite /\ UNCHANGED up
            \/ /\ ~up /\ Answer(f.cmd, f.ck, OK)
               /\ expect' = IF f.cmd = "WRITE" THEN [off |-> f.off, n |-> f.n] ELSE NoWrite
               /\ up' = (f.cmd = "RUN")
               /\ UNCHANGED errs
  /\ txq' = Tail(txq)
  /\ UNCHANGED <<at, loopVars, fragVars, cookie, lastck, pd, ans, detects, mem,
                 dups, raced>>

ModuleData ==
  /\ txq # <<>> /\ Head(txq).cmd = "DATA"
  /\ LET f == Head(txq)
     IN  IF expect.n > 0 /\ ~up
         THEN /\ mem' = [a \in Addresses |->
                           IF a - expect.off \in 0 .. f.n - 1 /\ a - expect.off < expect.n
                           THEN f.off + (a - expect.off) ELSE mem[a]]
              /\ expect' = NoWrite
              /\ Answer("DATA", devck, OK)
         ELSE UNCHANGED <<mem, expect, air>>
  /\ txq' = Tail(txq)
  /\ UNCHANGED <<at, loopVars, fragVars, cookie, lastck, pd, ans, detects, devck,
                 up, errs, dups, raced>>

(* An answer arrives, in any order, or comes twice; a lost answer is one   *)
(* that never arrives.                                                     *)
Receive(a) ==
  /\ a \in air
  /\ \/ \E i \in 1 .. Len(pd) :
          /\ pd[i].ck = a.ck /\ \A j \in 1 .. i - 1 : pd[j].ck # a.ck
          /\ ans' = [ans EXCEPT ![pd[i].by] = a]
     \/ /\ \A i \in 1 .. Len(pd) : pd[i].ck # a.ck
        /\ UNCHANGED ans
  /\ \/ air' = air \ {a} /\ UNCHANGED dups
     \/ dups < MaxDups /\ dups' = dups + 1 /\ UNCHANGED air
  /\ UNCHANGED <<at, loopVars, fragVars, cookie, lastck, pd, txq, detects,
                 devVars, raced>>

-----------------------------------------------------------------------------
Init ==
  /\ sdio \in BOOLEAN
  /\ at = "ask" /\ retry = Retries - 1 /\ status = Failed /\ err = Failed
  /\ copy = 0 /\ off = 0 /\ xfer = 0
  /\ cookie = 0 /\ lastck = 0 /\ detects = 0
  /\ pd = <<>> /\ ans = [c \in Callers |-> NoAns] /\ txq = <<>> /\ air = {}
  /\ expect = NoWrite /\ devck = 0 /\ mem = [a \in Addresses |-> -1] /\ up = FALSE
  /\ dups = 0 /\ errs = 0 /\ raced = FALSE

DownloadStep ==
  \/ AskEnter \/ EnterDone \/ ParseFw \/ SendFragment \/ WriteDone \/ SendFw
  \/ DataDone \/ SendRun \/ RunDone

Next ==
  \/ DownloadStep \/ DetectEnter \/ DetectDone
  \/ TxLose \/ ModuleCmd \/ ModuleData
  \/ \E a \in air : Receive(a)

Spec == Init /\ [][Next]_vars

(* Every wait of the download ends, at the latest with its timeout.        *)
FairSpec == Spec /\ WF_vars(DownloadStep)

-----------------------------------------------------------------------------
(* Every variable has its type; copy_len may end below zero, by less than  *)
(* a block.                                                                *)
TypeOK ==
  /\ sdio \in BOOLEAN
  /\ at \in {"ask", "enter", "parse", "frag", "write", "data", "sent", "run", "end"}
  /\ retry \in 0 .. Retries /\ status \in {-1, 0, 1, 2} /\ err \in {-1, 0, 1, 2, 255}
  /\ copy \in 1 - BlkSize .. ImageLen /\ off \in 0 .. ImageLen + BlkSize - 1
  /\ xfer \in 0 .. FragSize
  /\ cookie \in Nat /\ lastck \in Nat /\ detects \in 0 .. MaxDetects
  /\ pd \in Seq([by : Callers, ck : Nat])
  /\ ans \in [Callers -> [cmd : Cmds \cup {"none"}, ck : Int, rsp : {0, 1, 255}]]
  /\ txq \in Seq([cmd : Cmds, ck : Int, off : Nat, n : Nat])
  /\ air \subseteq [cmd : Cmds, ck : Nat, rsp : {0, 1, 255}]
  /\ expect \in [off : Nat, n : Nat] /\ devck \in Nat
  /\ mem \in [Addresses -> Int] /\ up \in BOOLEAN
  /\ dups \in 0 .. MaxDups /\ errs \in 0 .. MaxErrs /\ raced \in BOOLEAN

(* The module is only told to run a whole image: whatever was lost, late   *)
(* or refused, and however often hgicf_download_fw began anew, every byte  *)
(* is at its address when hgic_bootdl_cmd_run takes effect.  Two things    *)
(* can break this, because a data frame is answered under a cookie that is *)
(* not its own: a repeated answer, and an ENTER of detect_work between a   *)
(* WRITE and the answer to its data.                                       *)
RunsWholeImage ==
  (up /\ dups = 0 /\ ~raced) => \A a \in 0 .. ImageLen - 1 : mem[a] = a

(* hgic_bootdl_fragment_proc rounds the last fragment up: the copy reads   *)
(* past the end of the image, by less than a block, and only on SDIO.  No  *)
(* fragment is longer than the bus takes.                                  *)
ReadBounded ==
  at \in {"write", "data", "sent"} =>
    /\ 0 < xfer /\ xfer <= FragSize
    /\ off + xfer <= ImageLen + (IF sdio THEN BlkSize - 1 ELSE 0)

(* hgicf_download_fw returns, with the image loaded or without: it holds   *)
(* up delay_init and everything that waits for INBOOT to be cleared.       *)
DownloadEnds == <>(at = "end")
=============================================================================
