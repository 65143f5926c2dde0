------------------------------- MODULE HgOta --------------------------------
(***************************************************************************)
(* An upgrade over the air: invocations of the tool hgota (hgota.c,        *)
(* libota.c and the tools' copy of fwinfo.c, in tools/test_app) and the    *)
(* stations in reach.  Each invocation reads the table of stations that    *)
(* the last SCAN saved in /tmp/hgota.tmp, and opens a raw socket of its    *)
(* own, which hears the answers of every station to every invocation.      *)
(***************************************************************************)
EXTENDS Integers, Sequences, FiniteSets

CONSTANTS
    Tools,         \* the invocations that may be active at a time
    Stations,      \* the stations in reach
    Svn,           \* Svn[s]: the svn version station s reports
    Images,        \* the firmware files, a function from their names
    Saved,         \* the sets of stations an earlier SCAN may have saved
    Invocations,   \* Invocations[i]: the command lines [cmd, to, img] of the i-th invocation
    BlockSize,     \* the 1460 bytes of a data frame
    TableSize,     \* OTA_STA_COUNT
    ScanRecvs,     \* the 10 receives of a scan
    OtaRetries,    \* the 10 retries of an upgrade
    MaxInbox,      \* bound on a socket's receive queue
    MaxAir         \* bound on the frames queued for a station, the next is dropped

ASSUME HgOtaAssumption ==
    /\ BlockSize \in Nat \ {0} /\ TableSize \in Nat \ {0} /\ ScanRecvs \in Nat /\ OtaRetries \in Nat \ {0}
    /\ MaxInbox \in Nat \ {0} /\ MaxAir \in Nat \ {0}
    /\ \A known \in Saved : known \subseteq Stations /\ Cardinality(known) <= TableSize
    /\ \A img \in DOMAIN Images : Images[img].off \in Nat /\ Images[img].flashlen \in Nat
    /\ Invocations \in Seq(SUBSET [cmd : {"SCAN", "GETCFG", "REBOOT", "LDDEF", "OTA"}, to : Stations,
                                   img : DOMAIN Images])

VARIABLES
    tl,            \* tl[p]: [pc, cmd, to, img, tab, off, retry, n, shown, sid, clean]
    tmp,           \* /tmp/hgota.tmp: the table, a function from the stations it knows
    air,           \* air[s]: the frames on their way to station s
    inbox,         \* inbox[p]: the receive queue of p's socket
    stored,        \* stored[s]: the blocks <<sid, off>> the station has accepted
    param,         \* param[s]: its parameters, "own" or, after LDDEF, "default"
    calls          \* how many invocations there were

airvars == <<tl, tmp, air, inbox, stored, param, calls>>

NoTable == [s \in {} |-> 0]
Closed(p) == tl[p].pc \in {"idle", "done"}
InOta(p) == tl[p].pc \in {"ota", "otarx"}

HgInit ==
    /\ tl = [p \in Tools |-> [pc |-> "idle", cmd |-> "", to |-> "", img |-> "", tab |-> NoTable, off |-> 0,
                              retry |-> 0, n |-> 0, shown |-> "", sid |-> 0, clean |-> TRUE]]
    /\ \E known \in Saved : tmp = [s \in known |-> [svn |-> Svn[s], next |-> 0, par |-> "zeros"]]
    /\ air = [s \in Stations |-> <<>>] /\ inbox = [p \in Tools |-> <<>>]
    /\ stored = [s \in Stations |-> {}] /\ param = [s \in Stations |-> "own"]
    /\ calls = 0

\* The process ends: its memory and its socket are gone.
Exit(p, shown) ==
    /\ tl' = [tl EXCEPT ![p].pc = "done", ![p].tab = NoTable, ![p].n = 0, ![p].retry = 0, ![p].shown = shown]
    /\ inbox' = [inbox EXCEPT ![p] = <<>>]

-----------------------------------------------------------------------------
(* fwinfo.c of the tools, and hgic_read_firmware.                          *)

fwinfo_check_fwinfo_hdr(f) == f.boot /\ f.code /\ f.spi
fwinfo_get(f, v) == IF fwinfo_check_fwinfo_hdr(f) THEN v ELSE -1
fwinfo_get_fw_length(f) == fwinfo_get(f, f.flashlen + f.off)

\* The CRC, or its complement, over as much code as the header claims; past
\* the end of the file there is only what the heap happens to hold.
fwinfo_get_fw_code_checksum(f, len) ==
    fwinfo_check_fwinfo_hdr(f) /\ len <= f.size /\ len - f.off = f.crclen /\ f.crc \in {"plain", "inverted"}

hgic_read_firmware(f) == fwinfo_get_fw_code_checksum(f, fwinfo_get_fw_length(f))

-----------------------------------------------------------------------------
(* libota.c: the table and what a frame received does to it.               *)

libota_add_sta(tab, s, svn) ==
    CASE s \in DOMAIN tab -> [tab EXCEPT ![s].svn = svn]
      [] s \notin DOMAIN tab /\ Cardinality(DOMAIN tab) < TableSize ->
            [x \in DOMAIN tab \union {s} |-> IF x = s THEN [svn |-> svn, next |-> 0, par |-> "zeros"] ELSE tab[x]]
      [] OTHER -> tab

libota_sta_nexoff(tab, s) == IF s \in DOMAIN tab THEN tab[s].next ELSE 0
ClearNext(tab, s) == IF s \in DOMAIN tab THEN [tab EXCEPT ![s].next = 0] ELSE tab

\* Mutants: a refused block counts as stored; the answered block is next.
AcceptedAny(f) == TRUE
Accepted(f) == f.status # 255
AfterSame(f) == f.off
After(f) == f.off + f.len

\* [tab, ret] after the frame f.
libota_rx_proc(tab, f) ==
    LET known == f.src \in DOMAIN tab
        added == libota_add_sta(tab, f.src, f.svn)
    IN  CASE f.kind = "report" -> [tab |-> added, ret |-> IF f.src \in DOMAIN added THEN "NEW_STA" ELSE "NONE"]
          [] f.kind = "data" ->
                [tab |-> IF known /\ Accepted(f) THEN [tab EXCEPT ![f.src].next = After(f)] ELSE tab,
                 ret |-> "FW_STATUS"]
          [] f.kind = "param" /\ f.sumok /\ known ->
                [tab |-> [tab EXCEPT ![f.src].par = f.par], ret |-> "CONFIG_GOT"]
          [] OTHER -> [tab |-> tab, ret |-> "NONE"]

Queue(q, f) == IF Len(q) < MaxAir THEN Append(q, f) ELSE q
Unicast(s, f) == air' = [air EXCEPT ![s] = Queue(@, f)]
Broadcast(f) == air' = [s \in Stations |-> Queue(air[s], f)]

-----------------------------------------------------------------------------
(* hgota.c.                                                                *)

\* main: the table is read, the socket opened, the command begun.  REBOOT
\* and LDDEF are done when their frame is sent; an upgrade reads its file
\* and stops when the table already has its version.
HgMain(p) ==
    /\ Closed(p) /\ p = CHOOSE q \in Tools : Closed(q)      \* whichever slot is free
    /\ calls < Len(Invocations) /\ calls' = calls + 1
    /\ \E c \in Invocations[calls + 1] :
          LET f == Images[c.img]
              begin(pc) == tl' = [tl EXCEPT ![p] = [pc |-> pc, cmd |-> c.cmd, to |-> c.to, img |-> c.img, off |-> 0,
                                    tab |-> IF c.cmd = "SCAN" \/ pc = "done" THEN NoTable ELSE tmp, retry |-> 0,
                                    n |-> 0, shown |-> "", sid |-> calls + 1, clean |-> TRUE]]
          IN  CASE c.cmd = "SCAN"   -> begin("scan") /\ Broadcast([kind |-> "scan"])
                [] c.cmd = "GETCFG" -> begin("cfgrx") /\ Broadcast([kind |-> "getparam"])
                [] c.cmd = "REBOOT" -> begin("done") /\ Unicast(c.to, [kind |-> "reboot", loaddef |-> FALSE])
                [] c.cmd = "LDDEF"  -> begin("done") /\ Unicast(c.to, [kind |-> "reboot", loaddef |-> TRUE])
                [] c.cmd = "OTA"    ->
                     /\ begin(IF hgic_read_firmware(f) /\ ~(c.to \in DOMAIN tmp /\ tmp[c.to].svn = f.svn)
                              THEN "ota" ELSE "done")
                     /\ UNCHANGED air
    /\ UNCHANGED <<tmp, inbox, stored, param>>

\* hgic_scan_device: every receive gets a frame or times out; there is no
\* second scan, i & 0xf is not 0 for i up to 10.
HgScan(p) ==
    /\ tl[p].pc = "scan"
    /\ IF tl[p].n = ScanRecvs THEN tl' = [tl EXCEPT ![p].pc = "save"] /\ UNCHANGED inbox
       ELSE \/ /\ inbox[p] # <<>> /\ inbox' = [inbox EXCEPT ![p] = Tail(@)]
               /\ tl' = [tl EXCEPT ![p].n = @ + 1, ![p].tab = libota_rx_proc(@, Head(inbox[p])).tab]
            \/ inbox[p] = <<>> /\ tl' = [tl EXCEPT ![p].n = @ + 1] /\ UNCHANGED inbox
    /\ UNCHANGED <<tmp, air, stored, param, calls>>

\* hgic_save_device: fopen truncates the file, fclose has written it.
HgSave(p) ==
    /\ \/ /\ tl[p].pc = "save" /\ tmp' = NoTable /\ tl' = [tl EXCEPT ![p].pc = "write"]
          /\ UNCHANGED inbox
       \/ tl[p].pc = "write" /\ tmp' = tl[p].tab /\ Exit(p, "")
    /\ UNCHANGED <<air, stored, param, calls>>

\* The loop of hgic_ota_device: its test and libota_send_fw_data, ...
HgOtaSend(p) ==
    /\ tl[p].pc = "ota"
    /\ LET tot == fwinfo_get_fw_length(Images[tl[p].img])
           off == tl[p].off
       IN  IF off < tot /\ tl[p].retry < OtaRetries
           THEN /\ Unicast(tl[p].to, [kind |-> "data", sid |-> tl[p].sid, off |-> off,
                                      len |-> IF tot - off > BlockSize THEN BlockSize ELSE tot - off])
                /\ tl' = [tl EXCEPT ![p].pc = "otarx", ![p].tab = ClearNext(@, tl[p].to)]
                /\ UNCHANGED inbox
           ELSE Exit(p, "") /\ UNCHANGED air
    /\ UNCHANGED <<tmp, stored, param, calls>>

\* ... and the receive: one frame or the timeout, then the next offset,
\* which is 0 unless that frame was the station's answer to a block.
HgOtaRecv(p) ==
    /\ tl[p].pc = "otarx"
    /\ \/ /\ inbox[p] # <<>> /\ inbox' = [inbox EXCEPT ![p] = Tail(@)]
          /\ LET f == Head(inbox[p])
                 r == libota_rx_proc(tl[p].tab, f)
             IN  tl' = [tl EXCEPT ![p].pc = "ota", ![p].tab = r.tab,
                                  ![p].retry = IF r.ret = "FW_STATUS" THEN 0 ELSE @ + 1,
                                  ![p].off = libota_sta_nexoff(r.tab, tl[p].to),
                                  ![p].clean = @ /\ (f.kind = "data" /\ f.src = tl[p].to => f.sid = tl[p].sid)]
       \/ /\ inbox[p] = <<>> /\ UNCHANGED inbox
          /\ tl' = [tl EXCEPT ![p].pc = "ota", ![p].retry = @ + 1,
                              ![p].off = libota_sta_nexoff(tl[p].tab, tl[p].to)]
    /\ UNCHANGED <<tmp, air, stored, param, calls>>

\* hgic_get_config: one frame or the timeout; the parameters printed are
\* the table's, whichever station answered, or an uninitialised struct.
HgGetConfig(p) ==
    /\ tl[p].pc = "cfgrx"
    /\ \/ /\ inbox[p] # <<>>
          /\ LET r == libota_rx_proc(tl[p].tab, Head(inbox[p]))
             IN  Exit(p, CASE r.ret # "CONFIG_GOT" -> ""
                           [] r.ret = "CONFIG_GOT" /\ tl[p].to \in DOMAIN r.tab -> r.tab[tl[p].to].par
                           [] OTHER -> "garbage")
       \/ inbox[p] = <<>> /\ Exit(p, "")
    /\ UNCHANGED <<tmp, air, stored, param, calls>>

-----------------------------------------------------------------------------
(* The stations, as far as the tool relies on them, and the air.           *)

\* Every socket that is open hears the answer, if its queue has room.
Hear(f) == inbox' = [p \in Tools |-> IF ~Closed(p) /\ Len(inbox[p]) < MaxInbox
                                     THEN Append(inbox[p], f) ELSE inbox[p]]

StaAnswer(s) ==
    /\ air[s] # <<>> /\ air' = [air EXCEPT ![s] = Tail(@)]
    /\ LET f == Head(air[s])
           Data(status) == Hear([kind |-> "data", src |-> s, sid |-> f.sid, off |-> f.off, len |-> f.len,
                                 status |-> status])
           Param(ok) == Hear([kind |-> "param", src |-> s, par |-> param[s], sumok |-> ok])
       IN  CASE f.kind = "scan" -> Hear([kind |-> "report", src |-> s, svn |-> Svn[s]])
                                   /\ UNCHANGED <<stored, param>>
             [] f.kind = "data" ->
                  /\ \/ stored' = [stored EXCEPT ![s] = @ \union {<<f.sid, f.off>>}] /\ Data(0)
                     \/ Data(255) /\ UNCHANGED stored
                  /\ UNCHANGED param
             [] f.kind = "getparam" -> /\ \E ok \in BOOLEAN : Param(ok)
                                       /\ UNCHANGED <<stored, param>>
             [] f.kind = "reboot" -> param' = [param EXCEPT ![s] = IF f.loaddef THEN "default" ELSE @]
                                     /\ UNCHANGED <<inbox, stored>>
    /\ UNCHANGED <<tl, tmp, calls>>

AirLose(s) == /\ air[s] # <<>> /\ air' = [air EXCEPT ![s] = Tail(@)]
              /\ UNCHANGED <<tl, tmp, inbox, stored, param, calls>>

ToolStep(p) == HgScan(p) \/ HgSave(p) \/ HgOtaSend(p) \/ HgOtaRecv(p) \/ HgGetConfig(p)
HgNext == (\E p \in Tools : HgMain(p) \/ ToolStep(p)) \/ (\E s \in Stations : StaAnswer(s) \/ AirLose(s))

-----------------------------------------------------------------------------
(* Properties.                                                             *)

\* An upgrade that exits at 100 % has had every block of a file with a
\* right CRC accepted by the station, in this invocation, unless it took
\* the answer to another invocation's block for the one to its own.
UpgradeComplete ==
    \A p \in Tools :
        LET f == Images[tl[p].img]
            tot == fwinfo_get_fw_length(f)
        IN  tl[p].pc = "done" /\ tl[p].cmd = "OTA" /\ tl[p].off > 0 /\ tl[p].off >= tot /\ tl[p].clean =>
              /\ \A k \in 0..(tot - 1) : k % BlockSize = 0 => <<tl[p].sid, k>> \in stored[tl[p].to]
              /\ hgic_read_firmware(f)

\* What p is about to take off its socket is a refusal by its station.
Refused(p) == /\ tl[p].pc = "otarx" /\ inbox[p] # <<>>
              /\ LET f == Head(inbox[p]) IN f.kind = "data" /\ f.src = tl[p].to /\ ~Accepted(f)

\* Though any frame but the station's answer, and every timeout, sends it
\* back to block 0, an upgrade of a station that the table knows ends, unless
\* another upgrade is active meanwhile.  It goes on for ever only when the
\* station does not cease to refuse blocks, or frames to be lost or late
\* between answers: each answer, a refusal too, resets the retries.
OtaEnds ==
    \A p \in Tools :
        \/ InOta(p) /\ tl[p].to \in DOMAIN tl[p].tab ~> ~InOta(p) \/ (\E q \in Tools \ {p} : InOta(q))
        \/ []<>Refused(p)
        \/ []<>(tl[p].retry > 0) /\ []<>(tl[p].retry = 0)
=============================================================================
