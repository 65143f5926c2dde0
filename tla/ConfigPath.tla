----------------------------- MODULE ConfigPath -----------------------------
(***************************************************************************)
(* A configuration call from end to end: an application calls a function   *)
(* of the library (HgPriv) or an ioctl, the driver looks the text up       *)
(* (IwprivCmds), a wrapper (FwCmds) builds the command, the command queue  *)
(* carries it to the firmware, and the answer travels back the same way.   *)
(* The configuration file is one more caller, which starts again after     *)
(* every start of the firmware.  Matching an answer to its caller is the   *)
(* subject of FwCtrl; here an answer carries the id of its call.           *)
(***************************************************************************)
EXTENDS HgPriv

CONSTANTS
    Clients,      \* the callers; Conf is hgicf_load_config
    Conf,
    Plans,        \* a sequence of plans: for every client, the sets of calls it chooses from
    MaxFaults,    \* bound on frames, answers lost and on calls that time out early
    MaxResets     \* bound on firmware restarts

ASSUME ConfAssumption == Conf \in Clients /\ "" \notin Clients
ASSUME PlanAssumption ==
    \A p \in DOMAIN Plans : \A c \in Clients :
        DOMAIN Plans[p][c] = 1 .. Len(Plans[p][c]) /\ Len(Plans[p][c]) \in Nat

\* The calls of all plans.
Calls == UNION {UNION {UNION {Plans[p][c][i] : i \in DOMAIN Plans[p][c]} : c \in Clients} : p \in DOMAIN Plans}

VARIABLES
    plan,         \* the index of this behaviour's plan
    left,         \* left[c]: the calls c has still to make
    call,         \* call[c]: the call c is in, or has last made
    txq,          \* ctrl->txq and the bus: the commands on their way
    answers,      \* the answers on their way back
    regs,         \* the firmware's parameters: [payload, args] by command
    saved,        \* ... in its flash
    radio,        \* ctrl->radio_onoff
    hostmac,      \* ndev->dev_addr
    rtnl,         \* the client inside an ndo_ call, or ""
    reload,       \* the firmware restarted, load_config has to run again
    nid, faults, resets,
    loaded,       \* history: the commands of the last run of load_config
    latest,       \* history: the last set issued, by command, since the restart
    mixed         \* history: two radio_onoff calls overlapped

cfgvars == <<plan, left, call, txq, answers, regs, saved, radio, hostmac, rtnl, reload,
             nid, faults, resets, loaded, latest, mixed>>

\* The function f with the value v at x.
Put(f, x, v) == [y \in DOMAIN f \union {x} |-> IF y = x THEN v ELSE f[y]]

-----------------------------------------------------------------------------
(* The firmware, from how the driver uses it.                              *)

\* The parameter a query returns.
ReadOf == [GET_BSS_BW |-> "SET_BSS_BW", GET_SSID |-> "SET_SSID", GET_WPA_PSK |-> "SET_WPA_PSK",
           GET_KEY_MGMT |-> "SET_KEY_MGMT", GET_MODE |-> "SET_WORK_MODE", GET_RTC |-> "SET_RTC",
           GET_TX_POWER |-> "SET_TX_POWER", GET_AGG_CNT |-> "SET_AGG_CNT",
           GET_CHAN_LIST |-> "SET_CHAN_LIST", GET_FREQ_RANGE |-> "SET_FREQ_RANGE",
           GET_XOSC_VALUE |-> "SET_XOSC_VALUE", GET_ANT_SEL |-> "SET_ANT_SEL"]

\* How the answer to a command is read, and the commands that write.
Reads == {Cmds[w].cmd : w \in {v \in DOMAIN Cmds : Cmds[v].kind = "get"}} \union {"GET_RMESH_MESHID"}
Numbers == {Cmds[w].cmd : w \in {v \in DOMAIN Cmds : Cmds[v].kind = "get" /\ Cmds[v].ret = "status"}}
Writes(cmd) == cmd \notin Reads \ {"SET_RMESH_DEVICE"}

\* The length of the answers that are a structure.
FactoryLen == [GET_BGRSSI |-> 3, GET_DHCPC_RESULT |-> 24, GET_TXQ_PARAM |-> 32,
               GET_LINK_QUALITY |-> 44, GET_STA_INFO |-> StaInfoSize, GET_BSSID |-> 7,
               GET_STA_LIST |-> StaInfoSize, GET_FREQ_RANGE |-> 12, GET_CHAN_LIST |-> 4,
               GET_AGG_CNT |-> 2, GET_FREQ_OFFSET |-> 4, GET_XOSC_VALUE |-> 4, GET_RTC |-> 4]
Factory(cmd) == [i \in 1..(IF cmd \in DOMAIN FactoryLen THEN FactoryLen[cmd] ELSE 2) |-> i]

\* The bytes of a parameter, set with the payload p, as a query returns them.
Content(cmd, p) == IF cmd = "GET_CHAN_LIST" THEN SubSeq(p, 3, Len(p)) ELSE p

\* The status is the value of a number and the length of anything else; 255
\* marks the pair of aggregation limits.
AnswerWith(cmd, data) ==
    IF Writes(cmd) THEN [status |-> 0, data |-> <<>>]
    ELSE IF cmd = "GET_AGG_CNT" THEN [status |-> 255, data |-> data]
    ELSE IF cmd \in Numbers THEN [status |-> data[1], data |-> <<>>]
    ELSE [status |-> Len(data), data |-> data]
IsSet(cmd) == cmd \in DOMAIN ReadOf /\ ReadOf[cmd] \in DOMAIN regs
DeviceAnswer(cmd) ==
    AnswerWith(cmd, IF IsSet(cmd) THEN Content(cmd, regs[ReadOf[cmd]].payload) ELSE Factory(cmd))

\* The arguments with which the parameter a query returns was last set.
Truth(cmd) == IF IsSet(cmd) THEN <<regs[ReadOf[cmd]].args>> ELSE <<>>

-----------------------------------------------------------------------------
(* What the driver makes of a call.                                        *)

\* The row hgic_iwpriv_set_proc finds in hgpriv_sets, and blenc its keyword.
SetRow(req) == IF req.name = "blenc" THEN BlencSets[req.text.tag] ELSE Sets[req.name]
KnownSet(req) == req.name = "blenc" \/ req.name \in DOMAIN Sets
Refused(req) == IF req.name = "blenc" /\ req.text.tag \notin DOMAIN BlencSets THEN TRUE
                ELSE Einval(SetRow(req), req.text)

\* hgicf_iwpriv_write, hgicf_ioctl and the ndo_ handlers: the wrapper that is
\* called and its arguments, or no command and the error returned.
Direct(wrap, args) == [wrap |-> wrap, args |-> args, err |-> 0]
Error(err) == [wrap |-> "", args |-> [nums |-> <<>>, bytes |-> <<>>], err |-> err]
DispatchSet(req) ==
    IF ~KnownSet(req) THEN Error(-524)
    ELSE IF Refused(req) THEN Error(-22)
    ELSE Direct(SetRow(req).wrap, Parse(SetRow(req), req.text))
DispatchGet(req) ==
    IF req.name \notin DOMAIN Gets THEN Error(-524)
    ELSE IF NeedsArg(Gets[req.name]) /\ req.text.form = "none" THEN Error(-22)
    ELSE Direct(Gets[req.name].wrap, [nums |-> req.text.nums, bytes |-> req.text.bytes])
Dispatch(cl) ==
    LET req == Request(cl.api, cl.args, cl.mode)
        scan == IF cl.via = "ioctl" THEN 1 ELSE cl.args.nums[1] % 256
    IN  IF cl.via = "ndo" THEN Direct(cl.api, cl.args)
        ELSE IF cl.mode = 3 /\ cl.api \in HciDropped THEN Error(0)
        ELSE CASE req.verb = "set"  -> DispatchSet(req)
               [] req.verb = "get"  -> DispatchGet(req)
               [] req.verb = "scan" -> Direct("scan", [nums |-> <<scan>>, bytes |-> <<>>])
               [] req.verb = "save" -> Direct("save_cfg", [nums |-> <<>>, bytes |-> <<>>])
               [] OTHER             -> Error(-1)

\* The outcome of a call: of the answer its wrapper got, and of an error.
ByReply(cl, reply) ==
    IF cl.via = "proc" /\ Api[cl.api].verb = "get" THEN ToolResult(Api[cl.api], reply)
                                                   ELSE Outcome(reply.ret, reply.nums, reply.bytes)
Finish(cl, answer) ==
    LET req == Request(cl.api, cl.args, cl.mode)
        row == Gets[req.name]
        r   == Result(Cmds[row.wrap], answer, row.cap)
        st  == answer.status
    IN  IF cl.via # "ndo" /\ req.verb = "get"
        THEN ByReply(cl, HandlerReply(row, r, OutSize, req.text.nums = <<1>>))
        ELSE Outcome(IF cl.via # "ndo" /\ req.name = "blenc" /\ st # 0 THEN -22 ELSE st, <<>>, <<>>)

-----------------------------------------------------------------------------
(* What the rest takes for granted of the tables and of the calls made.    *)
IsRadio(d) == d.wrap = "radio_onoff"
CmdOf(cl) == Cmds[Dispatch(cl).wrap].cmd

\* A call leads to a wrapper or to an error.
ASSUME WrapAssumption == \A cl \in Calls : Dispatch(cl).wrap \in DOMAIN Cmds \union {""}

\* One wrapper issues RADIO_ONOFF, with the byte it is given.
ASSUME RadioAssumption ==
    /\ \A cl \in Calls : IsRadio(Dispatch(cl)) => Dispatch(cl).args.nums[1] \in 0 .. 255
    /\ \A w \in DOMAIN Cmds : Cmds[w].cmd = "RADIO_ONOFF" <=> w = "radio_onoff"
    /\ \A v \in 0 .. 255 : Payload(Cmds["radio_onoff"], [nums |-> <<v>>, bytes |-> <<>>]) = <<v>>
    /\ "radio_onoff" \in DOMAIN Cmds /\ Writes("RADIO_ONOFF")

\* SET_MAC is issued for ndo_set_mac_address only, and begins with the address.
ASSUME MacAssumption ==
    /\ \A cl \in Calls : cl.via = "ndo" <=> Dispatch(cl).wrap = "set_mac"
    /\ \A cl \in Calls : cl.via = "ndo" => /\ cl.api = "set_mac"
                                           /\ Take(Payload(Cmds["set_mac"], Dispatch(cl).args), 6) = cl.args.bytes
    /\ \A w \in DOMAIN Cmds : Cmds[w].cmd = "SET_MAC" <=> w = "set_mac"
    /\ Cmds["set_mac"].sync

\* The lines of the configuration file are sets that are accepted, one for
\* each parameter.
ASSUME FileAssumption ==
    \A p \in DOMAIN Plans : \A i \in DOMAIN Plans[p][Conf] : \A cl \in Plans[p][Conf][i] :
        /\ Dispatch(cl).wrap \in DOMAIN Cmds \ {"", "radio_onoff"}
        /\ Cmds[Dispatch(cl).wrap].sync /\ Writes(CmdOf(cl))
        /\ \A j \in DOMAIN Plans[p][Conf] : \A k \in Plans[p][Conf][j] : CmdOf(k) = CmdOf(cl) => i = j

\* The gets of which a failed command looks like a value.
SilentGets == {"get_module_type", "get_rtc", "get_signal", "get_aggcnt", "get_link_quality",
               "get_scan_list"}

\* The other gets: a library function that returns a number asks for one, one
\* that returns a buffer for a text or a structure.
ASSUME GetAssumption ==
    /\ \A cl \in Calls : cl.via = "ndo" \/ (cl.via \in {"proc", "ioctl"} /\ cl.api \in DOMAIN Api)
    /\ \A api \in DOMAIN HciOcf : Api[api].verb = "set"
    /\ \A api \in DOMAIN Api \ SilentGets : Api[api].verb = "get" =>
          LET row == Gets[Api[api].name]
              ret == Cmds[row.wrap].ret
              conv == Api[api].conv
          IN  \/ conv = "int" /\ row.reply \in {"dec", "decof"} /\ ret \in {"status", "int"}
              \/ conv = "triple" /\ row.reply = "three"
              \/ conv = "mac" /\ row.reply = "mac"
              \/ conv \in {"buf", "struct"} /\ row.reply \in {"raw", "records", "info", "devices", "u16s", "range"}
              \/ conv \in {"buf", "struct"} /\ row.reply = "exact" /\ ret = "data" /\ row.cap \in Nat

-----------------------------------------------------------------------------
Idle == [pc |-> "idle"]

CfgInit ==
    /\ plan \in DOMAIN Plans
    /\ left = [c \in Clients |-> Len(Plans[plan][c])]
    /\ call = [c \in Clients |-> Idle]
    /\ txq = <<>> /\ answers = {}
    /\ regs = <<>> /\ saved = <<>>
    /\ radio = 1                          \* hgic_fwctrl_init
    /\ hostmac = <<>> /\ rtnl = ""
    /\ reload = FALSE
    /\ nid = 0 /\ faults = 0 /\ resets = 0
    /\ loaded = {} /\ latest = <<>> /\ mixed = FALSE

Free(c) == call[c].pc \in {"idle", "done"}
RadioBusy == \E c \in Clients : ~Free(c) /\ IsRadio(call[c].disp)

\* c's call ends with the given outcome.
Done(c, cl, out) == call' = [call EXCEPT ![c] = [cl EXCEPT !.pc = "done", !.out = out]]

\* Mutant: the frame overtakes those already queued.
QueuedFirst(frame) == <<frame>> \o txq

\* hgic_fwctrl_send_data: skb_queue_tail.
Queued(frame) == Append(txq, frame)

\* hgic_fwctrl_do_cmd queues the command of the wrapper w with arguments a;
\* send_hci_data queues and returns.
CmdFrame(c, cl, w, a) ==
    [id |-> nid, client |-> c, cmd |-> Cmds[w].cmd, payload |-> Payload(Cmds[w], a), args |-> cl.call.args]
Enqueue(c, cl, w, a) ==
    LET row == Cmds[w]
        frame == CmdFrame(c, cl, w, a)
    IN  /\ txq' = Queued(frame)
        /\ nid' = nid + 1
        /\ loaded' = IF c = Conf THEN loaded \union {frame} ELSE loaded
        /\ latest' = IF Writes(row.cmd)
                     THEN Put(latest, row.cmd, [frame |-> frame, acked |-> FALSE]) ELSE latest
        /\ IF row.sync THEN call' = [call EXCEPT ![c] = [cl EXCEPT !.pc = "wait", !.id = nid]]
                       ELSE Done(c, [cl EXCEPT !.id = nid], Outcome(0, <<>>, <<>>))

\* c makes the next call of its plan.
Begin(c) ==
    /\ Free(c) /\ left[c] > 0
    /\ \E cl \in Plans[plan][c][Len(Plans[plan][c]) - left[c] + 1] :
          LET d == Dispatch(cl)
              r == [call |-> cl, disp |-> d, pc |-> "send", id |-> -1, out |-> Outcome(0, <<>>, <<>>),
                    ran |-> <<>>, seen |-> <<>>, answered |-> FALSE]
          IN  /\ cl.via = "ndo" => rtnl = ""
              /\ rtnl' = IF cl.via = "ndo" THEN c ELSE rtnl
              /\ mixed' = (mixed \/ (IsRadio(d) /\ RadioBusy))
              /\ radio' = IF IsRadio(d) THEN d.args.nums[1] ELSE radio
              /\ CASE d.wrap = "" -> /\ Done(c, r, ByReply(cl, Reply(d.err, "none", <<>>, <<>>)))
                                     /\ UNCHANGED <<txq, nid, loaded, latest>>
                   [] IsRadio(d)  -> /\ call' = [call EXCEPT ![c] = r]
                                     /\ UNCHANGED <<txq, nid, loaded, latest>>
                   [] OTHER       -> Enqueue(c, r, d.wrap, d.args)
    /\ left' = [left EXCEPT ![c] = @ - 1]
    /\ UNCHANGED <<plan, answers, regs, saved, hostmac, reload, faults, resets>>

\* hgic_iwpriv_set_radio_onoff passes on ctrl->radio_onoff, which is shared:
\* the value it stored, or the one another caller has stored since.
SendRadio(c) ==
    /\ call[c].pc = "send"
    /\ \E v \in {radio, call[c].disp.args.nums[1]} :
          Enqueue(c, call[c], "radio_onoff", [nums |-> <<v>>, bytes |-> <<>>])
    /\ UNCHANGED <<plan, left, answers, regs, saved, radio, hostmac, rtnl, reload, faults, resets, mixed>>

\* The firmware takes the first command, does it and answers.
Execute ==
    /\ txq # <<>>
    /\ LET f == Head(txq)
           c == f.client
           mine == call[c].pc # "idle" /\ call[c].id = f.id
       IN  /\ regs' = IF Writes(f.cmd) THEN Put(regs, f.cmd, [payload |-> f.payload, args |-> f.args])
                                       ELSE regs
           /\ saved' = IF f.cmd = "SAVE_CFG" THEN regs ELSE saved
           /\ answers' = IF f.cmd # "BLUETOOTH"
                         THEN answers \union {[id |-> f.id, answer |-> DeviceAnswer(f.cmd)]} ELSE answers
           /\ call' = IF mine THEN [call EXCEPT ![c].ran = Append(@, [cmd |-> f.cmd, payload |-> f.payload]),
                                                ![c].seen = Truth(f.cmd)]
                              ELSE call
    /\ txq' = Tail(txq)
    /\ UNCHANGED <<plan, left, radio, hostmac, rtnl, reload, nid, faults, resets, loaded, latest, mixed>>

\* A command or an answer is lost on the bus.
Lose ==
    /\ faults < MaxFaults /\ faults' = faults + 1
    /\ \/ txq # <<>> /\ txq' = Tail(txq) /\ UNCHANGED answers
       \/ \E a \in answers : answers' = answers \ {a} /\ UNCHANGED txq
    /\ UNCHANGED <<plan, left, call, regs, saved, radio, hostmac, rtnl, reload, nid, resets, loaded, latest, mixed>>

\* Mutant: the interface keeps its old address.
LeaveOldMac(c, st) == rtnl' = (IF rtnl = c THEN "" ELSE rtnl) /\ UNCHANGED hostmac

\* The ndo_ handlers release the lock; change_mac keeps an accepted address.
Leave(c, st) ==
    /\ rtnl' = IF rtnl = c THEN "" ELSE rtnl
    /\ hostmac' = IF call[c].call.via = "ndo" /\ call[c].call.api = "set_mac" /\ st = 0
                  THEN call[c].call.args.bytes ELSE hostmac

\* The answer reaches the waiting call.
Answer(c) ==
    /\ call[c].pc = "wait"
    /\ \E a \in answers :
          /\ a.id = call[c].id
          /\ Done(c, [call[c] EXCEPT !.answered = TRUE], Finish(call[c].call, a.answer))
          /\ Leave(c, a.answer.status)
          /\ answers' = answers \ {a}
          /\ latest' = [x \in DOMAIN latest |->
                          [latest[x] EXCEPT !.acked = @ \/ latest[x].frame.id = a.id]]
    /\ UNCHANGED <<plan, left, txq, regs, saved, radio, reload, nid, faults, resets, loaded, mixed>>

\* HGIC_CMD_TIMEOUT: the call gives up; its command may still be on its way,
\* and an answer that comes later is dropped (Stray).
Pending(id) == (\E i \in DOMAIN txq : txq[i].id = id) \/ (\E a \in answers : a.id = id)
Timeout(c) ==
    /\ call[c].pc = "wait"
    /\ Pending(call[c].id) => faults < MaxFaults
    /\ faults' = IF Pending(call[c].id) THEN faults + 1 ELSE faults
    /\ Done(c, call[c], Finish(call[c].call, NoAnswer))
    /\ Leave(c, -1)
    /\ UNCHANGED <<plan, left, txq, answers, regs, saved, radio, reload, nid, resets, loaded, latest, mixed>>

Stray ==
    /\ \E a \in answers : /\ \A c \in Clients : call[c].pc = "wait" => call[c].id # a.id
                          /\ answers' = answers \ {a}
    /\ UNCHANGED <<plan, left, call, txq, regs, saved, radio, hostmac, rtnl, reload, nid, faults,
                   resets, loaded, latest, mixed>>

\* Mutant: nobody notices a reset of the module.
ResetUnseen ==
    /\ resets < MaxResets /\ resets' = resets + 1
    /\ Plans[plan][Conf] # <<>>
    /\ regs' = saved /\ answers' = {} /\ latest' = <<>>
    /\ UNCHANGED <<plan, left, call, txq, saved, radio, hostmac, rtnl, reload, nid, faults, loaded, mixed>>

\* The firmware restarts with the parameters in its flash.
Reset ==
    /\ resets < MaxResets /\ resets' = resets + 1
    /\ Plans[plan][Conf] # <<>>
    /\ regs' = saved /\ answers' = {} /\ latest' = <<>>
    /\ reload' = TRUE
    /\ UNCHANGED <<plan, left, call, txq, saved, radio, hostmac, rtnl, nid, faults, loaded, mixed>>

\* hgicf_delay_init runs load_config again, after the run it may be in.
Reload ==
    /\ reload /\ Free(Conf) /\ left[Conf] = 0
    /\ reload' = FALSE
    /\ left' = [left EXCEPT ![Conf] = Len(Plans[plan][Conf])]
    /\ loaded' = {}
    /\ UNCHANGED <<plan, call, txq, answers, regs, saved, radio, hostmac, rtnl, nid, faults, resets,
                   latest, mixed>>

\* Every caller has finished its plan.
Finished == /\ \A c \in Clients : Free(c) /\ left[c] = 0
            /\ txq = <<>> /\ answers = {} /\ ~reload
            /\ UNCHANGED cfgvars

CfgNext == \/ \E c \in Clients : Begin(c) \/ SendRadio(c) \/ Answer(c) \/ Timeout(c)
           \/ Execute \/ Lose \/ Stray \/ Reset \/ Reload \/ Finished

CfgSpec == CfgInit /\ [][CfgNext]_cfgvars

-----------------------------------------------------------------------------
(* Properties.                                                             *)

\* The wrapper a library function is named after.
Alias == [set_keymgmt |-> "set_key_mgmt", set_wpapsk |-> "set_wpa_psk", set_freqrange |-> "set_freq_range",
    set_max_txcnt |-> "set_frm_tx_maxcnt", set_radio_onoff |-> "radio_onoff", set_join_group |-> "join_group",
    set_dbginfo |-> "set_dbginfo_output", set_dcdc13 |-> "set_dcdc13v", get_wpa_psk |-> "get_wpapsk",
    get_aggcnt |-> "get_agg_cnt", set_aggcnt |-> "set_agg_cnt", set_pa_pwrctrl_dis |-> "set_pa_pwrctl_dis",
    set_ant_sel |-> "select_ant", set_macfilter |-> "set_mac_filter", send_atcmd |-> "set_atcmd",
    set_heartbeat |-> "set_ps_heartbeat", set_heartbeat_resp_data |-> "set_ps_heartbeat_resp",
    set_wakeup_data |-> "set_ps_wakeup_data", send_custmgmt |-> "send_cust_mgmt",
    proc_set_wkdata_mask |-> "set_wkdata_mask", set_cust_driverdata |-> "set_cust_driver_data",
    set_stafreqinfo |-> "set_freqinfo", blenc_start |-> "set_blenc_en", send_blenc_data |-> "blenc_send_data",
    blenc_send_hcidata |-> "send_hci_data", blenc_set_adv_interval |-> "blenc_set_advinterval",
    blenc_set_adv_filter |-> "set_blenc_adv_filter", set_customer_dvrdata |-> "set_bytes",
    set_disassoc_sta |-> "disassoc_sta", set_ap_psmode |-> "set_ap_psmode_en", save |-> "save_cfg",
    set_dis_1v1m2u |-> "set_1v1_m2u_dis", set_dis_psconnect |-> "set_psconnect_dis"]
NamedAfter(api) == IF api \in DOMAIN Alias THEN Alias[api] ELSE api

\* The library passes an address in network order and a list without its
\* final 0; the ioctl scan always starts one scan.
WrapperArgs(cl) ==
    [nums  |-> CASE cl.api = "set_wkhost_reasons" -> Append(cl.args.nums, 0)
                 [] cl.api = "scan" /\ cl.via = "ioctl" -> <<1>>
                 [] OTHER -> cl.args.nums,
     bytes |-> IF cl.api = "set_heartbeat" THEN Reverse(cl.args.bytes) ELSE cl.args.bytes]

\* The HCI commands of the Bluetooth core specification, by opcode.
HciCommand == [blenc_set_advdata |-> 8200, blenc_set_scanresp |-> 8201,
               blenc_set_devaddr |-> 8197, blenc_start_adv |-> 8202]

\* The command the firmware should see for a call.
Expected(cl) ==
    LET row == Cmds[NamedAfter(cl.api)]
        data == IF cl.api = "blenc_start_adv" THEN <<cl.args.nums[1]>> ELSE cl.args.bytes
    IN  IF cl.mode = 3
        THEN [cmd |-> "BLUETOOTH", payload |-> <<1>> \o Le(HciCommand[cl.api], 2) \o <<Len(data)>> \o data]
        ELSE [cmd |-> row.cmd, payload |-> Payload(row, WrapperArgs(cl))]

IsGet(cl) == cl.via # "ndo" /\ Api[cl.api].verb = "get"
Refuses(cl) == Dispatch(cl).wrap = ""

\* The library functions that do not do what they are named for:
\* hgic_iwpriv_set_rmesh_notfw starts an association, hgic_proc_set_wkdata_mask
\* puts two bytes where the driver reads one.
Misdirected == {"set_rmesh_notfw", "proc_set_wkdata_mask"}

\* The u16 offset of a mask is read from a char: with a signed char one of
\* 128 or more arrives with its high byte 255.
Widened(cl) == /\ CharSigned /\ cl.api \in {"set_wkdata_mask", "set_hbdata_mask"}
               /\ cl.args.nums[1] > 127
Astray(cl) == cl.api \in Misdirected \/ Widened(cl)

\* The wrappers that issue the query for the set and the set for the query.
Crossed == {"set_rmesh_meshid", "get_rmesh_device"}

\* Whatever the firmware has done for a call that has returned is the command
\* the function is named after, once, with the values the caller passed; a
\* set that returned 0 has been done, and a get has changed no parameter (two
\* overlapping radio calls may swap their values, and the calls that go astray
\* are named above).
EffectAsNamed ==
    \A c \in Clients : call[c].pc = "done" /\ ~Astray(call[c].call) =>
        LET cl == call[c].call
            swapped == mixed /\ cl.api = "set_radio_onoff"
        IN  /\ swapped \/ call[c].ran = <<>> \/ call[c].ran = <<Expected(cl)>>
            /\ call[c].out.ret = 0 /\ ~IsGet(cl) /\ ~Refuses(cl) /\ Cmds[call[c].disp.wrap].sync
                   => Len(call[c].ran) = 1
            /\ cl.api \notin Crossed =>
                   \A i \in DOMAIN call[c].ran : Writes(call[c].ran[i].cmd) = ~IsGet(cl)

\* What a query returned is what was set with the arguments truth, in the
\* caller's own terms.
Returns(cl, out, truth) ==
    IF cl.via = "proc" /\ Api[cl.api].conv = "int" THEN out.ret = truth.nums[1]
    ELSE out.nums = truth.nums /\ out.bytes = truth.bytes

\* A query that was answered returns what the parameter was last set to: every
\* text and every buffer on the way is read as it was written.
RoundTrip ==
    \A c \in Clients : call[c].pc = "done" /\ call[c].answered /\ call[c].seen # <<>> =>
        Returns(call[c].call, call[c].out, call[c].seen[1])

\* A set and a get of a number return a negative value, a get of a buffer at
\* most 0 bytes; the ioctl of a get leaves -1 or nothing in the caller's text.
SaysFailed(cl, out) ==
    IF ~IsGet(cl) THEN out.ret < 0
    ELSE IF cl.via = "ioctl" THEN out.ret < 0 \/ out.nums = <<-1>> \/ (out.nums = <<>> /\ out.bytes = <<>>)
    ELSE IF Api[cl.api].conv \in {"buf", "struct"} THEN out.ret <= 0 ELSE out.ret = -1

\* A call whose command was not answered says so to its caller.
FailureVisible ==
    \A c \in Clients : call[c].pc = "done" /\ call[c].id >= 0 /\ ~call[c].answered
                         /\ Cmds[call[c].disp.wrap].sync /\ call[c].call.api \notin SilentGets
                             => SaysFailed(call[c].call, call[c].out)

\* A set that was acknowledged stays in force until a later one is issued: a
\* command of a call that gave up earlier is not done after it.
LastSuccessWins ==
    \A cmd \in DOMAIN latest : latest[cmd].acked =>
        cmd \in DOMAIN regs /\ regs[cmd].payload = latest[cmd].frame.payload

\* The driver's copies of the radio state and of the address are the
\* firmware's once the last call that changes them was acknowledged, unless
\* two radio calls overlapped.
MirrorsAgree ==
    /\ "RADIO_ONOFF" \in DOMAIN latest /\ latest["RADIO_ONOFF"].acked /\ ~RadioBusy /\ ~mixed
          => regs["RADIO_ONOFF"].payload = <<radio>>
    /\ "SET_MAC" \in DOMAIN latest /\ latest["SET_MAC"].acked
          => Take(regs["SET_MAC"].payload, 6) = hostmac

\* When load_config has run to its last line after a (re)start of the
\* firmware, each parameter of the file has the file's value, or one that
\* another caller has set since.
ConfApplied ==
    ~reload /\ Free(Conf) /\ left[Conf] = 0 /\ faults = 0 =>
        /\ Cardinality(loaded) = Len(Plans[plan][Conf])
        /\ \A f \in loaded : f.cmd \in DOMAIN regs /\ \/ regs[f.cmd].payload = f.payload
                                                      \/ latest[f.cmd].frame.client # Conf
=============================================================================
