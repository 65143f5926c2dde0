----------------------------- MODULE DriverOta ------------------------------
(***************************************************************************)
(* An upgrade through the driver: a writer of /proc/hgicf/ota names a      *)
(* firmware file, hgic_ota_send_fw (utils/ota.c) checks it with            *)
(* utils/fwinfo.c, cuts it into fragments on the shared queue fw_dataq and *)
(* sends them one by one.  Nothing keeps two writers apart, and every      *)
(* fragment is sent with cookie 0 (the memset after hgic_ctrl_cookie), so  *)
(* an answer goes to whoever waits, the latest first.                      *)
(***************************************************************************)
EXTENDS Integers, Sequences, FiniteSets

CONSTANTS
    Writers,       \* the processes that write to /proc/hgicf/ota
    Files,         \* the firmware files, a function from their names
    OwnFw,         \* ori_fw_info: [version, chip, cpu] of the running firmware
    FragSize,      \* ota->frag_size
    MaxUploads,    \* bound on the number of uploads
    MaxOtaFaults   \* bound on lost frames and answers, errors and early timeouts

ASSUME OtaAssumption ==
    /\ FragSize \in Nat \ {0} /\ MaxUploads \in Nat /\ MaxOtaFaults \in Nat
    /\ \A name \in DOMAIN Files : Files[name].size \in Nat

VARIABLES
    up,            \* up[w]: [pc, file, off, ret, round, sent, ans, alone, own]
    dataq,         \* ota->fw_dataq: fragments [file, off, round]
    pdl,           \* the writers that wait for an answer, the latest first
    otx,           \* the fragments on their way to the module
    oans,          \* the answers on their way back
    written,       \* the fragments the module has written to its flash
    oops,          \* hgic_ota_send_packet_tmo was called with NULL
    rounds, ofaults

otavars == <<up, dataq, pdl, otx, oans, written, oops, rounds, ofaults>>

-----------------------------------------------------------------------------
(* utils/fwinfo.c.  A file is its header's fields, its size and, for the   *)
(* CRC of the code, the length for which it is right.                      *)

hgic_check_fwinfo_hdr(f) == IF f.boot /\ f.code /\ f.spi THEN 0 ELSE -22

\* The getters: the field, or the header's error in *err_code.
hgic_get_fw(f, field) ==
    [err |-> hgic_check_fwinfo_hdr(f),
     val |-> IF hgic_check_fwinfo_hdr(f) = 0 THEN f[field] ELSE -1]

\* The CRC or its complement must be the header's.
hgic_crc32_matches(f, len) == len = f.crclen /\ f.crc \in {"plain", "inverted"}
hgic_get_fw_code_checksum(f, len) ==
    LET code_len == len - hgic_get_fw(f, "off").val
    IN  IF hgic_get_fw(f, "crc").err # 0 THEN hgic_get_fw(f, "crc").err
        ELSE IF code_len < 0 THEN -22
        ELSE IF hgic_crc32_matches(f, code_len) THEN 0 ELSE -14

-----------------------------------------------------------------------------
(* utils/ota.c.                                                            *)

\* hgic_ota_check_hdr_info: the last byte of the version, the chip and the
\* CPU are those of the running firmware.
hgic_ota_check_hdr_info(f) ==
    LET sdk == hgic_get_fw(f, "sdk")
    IN  IF sdk.err # 0 THEN sdk.err
        ELSE IF /\ sdk.val % 256 = OwnFw.version % 256
                /\ hgic_get_fw(f, "chip").val = OwnFw.chip
                /\ hgic_get_fw(f, "cpu").val = OwnFw.cpu
             THEN 0 ELSE -14

FileError(f) == LET e == hgic_ota_check_hdr_info(f)
                IN  IF e # 0 THEN e ELSE hgic_get_fw_code_checksum(f, f.size)

Fragments(f) == {k \in 0..(f.size - 1) : k % FragSize = 0}

OtaInit ==
    /\ up = [w \in Writers |-> [pc |-> "idle", file |-> "", off |-> 0, ret |-> 0, round |-> 0,
                                sent |-> [off |-> -1, round |-> 0], ans |-> <<>>, alone |-> TRUE, own |-> TRUE]]
    /\ dataq = <<>> /\ pdl = <<>> /\ otx = <<>> /\ oans = {}
    /\ written = {} /\ oops = FALSE /\ rounds = 0 /\ ofaults = 0

Active == {w \in Writers : up[w].pc \notin {"idle", "done"}}

\* Mutant: a writer that fails leaves its fragments on the queue.
LeaveKeep(w, ret) ==
    /\ up' = [up EXCEPT ![w].pc = "done", ![w].ret = ret]
    /\ dataq' = IF ret = 0 THEN <<>> ELSE dataq

\* hgic_ota_send_fw returns: hgic_ota_release_data, on every path.
Leave(w, ret) == up' = [up EXCEPT ![w].pc = "done", ![w].ret = ret] /\ dataq' = <<>>

OtaFault == ofaults < MaxOtaFaults /\ ofaults' = ofaults + 1

\* hgicf_ota_send_data and the checks of hgic_ota_parse_fw; request_firmware
\* may fail.  Writers that meet are no longer alone.
OtaWrite(w) ==
    /\ up[w].pc \in {"idle", "done"} /\ rounds < MaxUploads /\ rounds' = rounds + 1
    /\ \E name \in DOMAIN Files :
          LET fresh(pc, ret) ==
                  [pc |-> pc, file |-> name, off |-> 0, ret |-> ret, round |-> rounds + 1,
                   sent |-> [off |-> -1, round |-> 0], ans |-> <<>>, alone |-> Active = {}, own |-> TRUE]
              parted == [x \in Writers |-> [up[x] EXCEPT !.alone = @ /\ x \notin Active]]
              e == FileError(Files[name])
          IN  \/ e = 0 /\ up' = [parted EXCEPT ![w] = fresh("parse", 0)] /\ UNCHANGED <<dataq, ofaults>>
              \/ e # 0 /\ up' = [parted EXCEPT ![w] = fresh("done", e)] /\ dataq' = <<>> /\ UNCHANGED ofaults
              \/ OtaFault /\ up' = [parted EXCEPT ![w] = fresh("done", -19)] /\ dataq' = <<>>    \* -ENODEV
    /\ UNCHANGED <<pdl, otx, oans, written, oops>>

\* One fragment of the file is queued, or there is no memory for it.
OtaFragment(w) ==
    /\ up[w].pc = "parse"
    /\ LET size == Files[up[w].file].size
           off  == up[w].off
       IN  \/ /\ off < size
              /\ dataq' = Append(dataq, [file |-> up[w].file, off |-> off, round |-> up[w].round])
              /\ up' = [up EXCEPT ![w].off = off + FragSize] /\ UNCHANGED ofaults
           \/ off < size /\ OtaFault /\ Leave(w, -12)
           \/ off >= size /\ up' = [up EXCEPT ![w].pc = "test"] /\ UNCHANGED <<dataq, ofaults>>
    /\ UNCHANGED <<pdl, otx, oans, written, oops, rounds>>

\* while (!skb_queue_empty): the test, ...
OtaTest(w) ==
    /\ up[w].pc = "test"
    /\ IF dataq = <<>> THEN Leave(w, 0) ELSE up' = [up EXCEPT ![w].pc = "take"] /\ UNCHANGED dataq
    /\ UNCHANGED <<pdl, otx, oans, written, oops, rounds, ofaults>>

\* ... skb_dequeue, which another writer may have left with nothing, and
\* hgic_ota_send_packet_tmo.
OtaSend(w) ==
    /\ up[w].pc = "take" /\ ~oops
    /\ IF dataq = <<>> THEN oops' = TRUE /\ UNCHANGED <<up, dataq, pdl, otx>>
       ELSE /\ up' = [up EXCEPT ![w].pc = "wait", ![w].ans = <<>>,
                                ![w].sent = [off |-> Head(dataq).off, round |-> Head(dataq).round]]
            /\ dataq' = Tail(dataq) /\ pdl' = <<w>> \o pdl
            /\ otx' = Append(otx, Head(dataq)) /\ UNCHANGED oops
    /\ UNCHANGED <<oans, written, rounds, ofaults>>

\* list_del of the writer's record.
Unlink(w) == \E i \in 1..Len(pdl) :
    /\ pdl[i] = w
    /\ pdl' = [j \in 1..(Len(pdl) - 1) |-> IF j < i THEN pdl[j] ELSE pdl[j + 1]]

\* Mutant: neither the answer nor its error is looked at.
ResultUnchecked(w) == up' = [up EXCEPT ![w].pc = "test"] /\ UNCHANGED dataq

\* An answer without error: the next fragment.  No answer or an error ends
\* the upload.
OtaResult(w) == IF up[w].ans = <<0>> THEN up' = [up EXCEPT ![w].pc = "test"] /\ UNCHANGED dataq
                                     ELSE Leave(w, IF up[w].ans = <<>> THEN -19 ELSE up[w].ans[1])
OtaDone(w) ==
    /\ up[w].pc = "wait"
    /\ \/ up[w].ans # <<>> /\ UNCHANGED ofaults
       \/ up[w].ans = <<>> /\ (IF otx # <<>> \/ oans # {} THEN OtaFault ELSE UNCHANGED ofaults)
    /\ OtaResult(w) /\ Unlink(w)
    /\ UNCHANGED <<otx, oans, written, oops, rounds>>

-----------------------------------------------------------------------------
(* The module, and the command channel with its cookie 0.                  *)

ModuleWrite ==
    /\ otx # <<>> /\ otx' = Tail(otx)
    /\ LET frag == Head(otx)
       IN  \/ /\ written' = written \union {frag} /\ UNCHANGED ofaults
              /\ oans' = oans \union {[frag |-> frag, err |-> 0]}
           \/ OtaFault /\ oans' = oans \union {[frag |-> frag, err |-> 2]} /\ UNCHANGED written
           \/ OtaFault /\ UNCHANGED <<oans, written>>
    /\ UNCHANGED <<up, dataq, pdl, oops, rounds>>

OtaAnswer ==
    /\ \E a \in oans :
          /\ oans' = oans \ {a}
          /\ IF pdl = <<>> THEN UNCHANGED up
             ELSE LET w == Head(pdl)
                  IN  up' = [up EXCEPT ![w].ans = <<a.err>>,
                                       ![w].own = @ /\ [off |-> a.frag.off, round |-> a.frag.round] = up[w].sent]
    /\ UNCHANGED <<dataq, pdl, otx, written, oops, rounds, ofaults>>

UploadStep == \E w \in Writers : OtaFragment(w) \/ OtaTest(w) \/ OtaSend(w) \/ OtaDone(w)
OtaNext == (\E w \in Writers : OtaWrite(w)) \/ UploadStep \/ ModuleWrite \/ OtaAnswer

-----------------------------------------------------------------------------
(* Properties.                                                             *)

\* An upload that returned 0 has put every fragment of a file that is meant
\* for this module into its flash, unless another writer was active
\* meanwhile or an answer to an earlier upload was taken for its own.
ImageWhole ==
    \A w \in Writers : up[w].pc = "done" /\ up[w].ret = 0 /\ up[w].round > 0 /\ up[w].alone /\ up[w].own =>
        /\ \A k \in Fragments(Files[up[w].file]) :
              [file |-> up[w].file, off |-> k, round |-> up[w].round] \in written
        /\ hgic_crc32_matches(Files[up[w].file], Files[up[w].file].size - Files[up[w].file].off)

\* Between uploads the queue is empty, so that no upload starts with the
\* fragments of another, and skb_dequeue returns NULL only when two writers
\* were active at a time.
QueueClean ==
    /\ Active = {} => dataq = <<>>
    /\ oops => \E w \in Active : ~up[w].alone
=============================================================================
