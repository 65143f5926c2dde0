------------------------------- MODULE HgPriv -------------------------------
(***************************************************************************)
(* The configuration library of the user tools, the functions hgic_iwpriv  *)
(* _set_ssid, _get_ssid, ... of src/tools/test_app/iwpriv.c: one row per   *)
(* function, giving the request it writes to /proc/hgicf/iwpriv and how it *)
(* turns what comes back into its own result.                              *)
(***************************************************************************)
EXTENDS IwprivCmds

CONSTANT OutSize    \* the size of the output buffer the application passes

\* hgic_iwpriv_set_int, _set_ints, _set_intarray ("dec"), _set_mac ("mac").
Text(name, form) == [verb |-> "set", name |-> name, tag |-> "", form |-> form, pack |-> <<>>]
\* hgic_iwpriv_set_bytes of a buffer with the given layout.
Bytes(name, pack) == [verb |-> "set", name |-> name, tag |-> "", form |-> "bin", pack |-> pack]
\* ... of the blenc command, with its keyword.
Blenc(tag, form, pack) ==
    [verb |-> "set", name |-> "blenc", tag |-> tag, form |-> form, pack |-> pack]
\* hgic_iwpriv_get_bytes, _get_mac and the gets that scan a text.
Ask(name, arg, conv, out) ==
    [verb |-> "get", name |-> name, arg |-> arg, conv |-> conv, out |-> out]
\* hgic_iwpriv_get_int.
IntOf(name) == Ask(name, "", "int", 128)
\* The commands that are a verb of their own.
Verb(verb) == [verb |-> verb]

\* iwpriv.c 464-479 and 587-600; the driver has no "open" and no "close" verb.
ApiVerbs == [open_dev |-> Verb("open"), close_dev |-> Verb("close"),
             scan |-> Verb("scan"), save |-> Verb("save")]

\* iwpriv.c 480-624
ApiNetwork == [
    set_ssid |-> Bytes("ssid", <<"bytes">>),
    set_bssid |-> Text("bssid", "mac"),
    set_channel |-> Text("channel", "dec"),
    set_keymgmt |-> Bytes("key_mgmt", <<"bytes">>),
    set_wpapsk |-> Bytes("wpa_psk", <<"bytes">>),
    set_freqrange |-> Text("freq_range", "dec"),
    set_bss_bw |-> Text("bss_bw", "dec"),
    set_tx_bw |-> Text("tx_bw", "dec"),
    set_tx_mcs |-> Text("tx_mcs", "dec"),
    set_max_txcnt |-> Text("max_txcnt", "dec"),
    set_acs |-> Text("acs", "dec"),
    set_chan_list |-> Text("chan_list", "dec"),
    set_mode |-> Bytes("mode", <<"bytes">>),
    set_paired_stas |-> Text("paired_stas", "mac"),
    set_pairing |-> Text("pairing", "dec"),
    set_beacon_int |-> Text("beacon_int", "dec"),
    set_radio_onoff |-> Text("radio_onoff", "dec"),
    set_join_group |-> Text("join_group", "mac"),
    set_txpower |-> Text("txpower", "dec"),
    set_ps_connect |-> Text("ps_connect", "dec"),
    set_bss_max_idle |-> Text("bss_max_idle", "dec"),
    set_wkio_mode |-> Text("wkio_mode", "dec"),
    set_dtim_period |-> Text("dtim_period", "dec"),
    set_ps_mode |-> Text("ps_mode", "dec"),
    set_aplost_time |-> Text("aplost_time", "dec"),
    unpair |-> Text("unpair", "mac"),
    set_auto_chswitch |-> Text("auto_chswitch", "dec"),
    set_mcast_key |-> Bytes("mcast_key", <<"bytes">>),
    set_reassoc_wkhost |-> Text("reassoc_wkhost", "dec"),
    set_wakeup_io |-> Text("wakeup_io", "dec"),
    set_dbginfo |-> Text("dbginfo", "dec"),
    set_sysdbg |-> Bytes("sysdbg", <<"bytes">>)]

\* iwpriv.c 625-770
ApiHost == [
    set_primary_chan |-> Text("primary_chan", "dec"),
    set_autosleep_time |-> Text("autosleep_time", "dec"),
    set_super_pwr |-> Text("super_pwr", "dec"),
    set_repeater_ssid |-> Bytes("r_ssid", <<"bytes">>),
    set_repeater_psk |-> Bytes("r_psk", <<"bytes">>),
    set_auto_save |-> Text("auto_save", "dec"),
    set_pair_autostop |-> Text("pair_autostop", "dec"),
    set_dcdc13 |-> Text("dcdc13", "dec"),
    set_acktmo |-> Text("acktmo", "dec"),
    get_sta_list |-> Ask("sta_list", "one", "buf", OutSize),
    get_scan_list |-> Ask("scan_list", "", "buf", OutSize),
    get_ssid |-> Ask("ssid", "", "buf", OutSize),
    get_bssid |-> Ask("bssid", "", "mac", 32),
    get_wpa_psk |-> Ask("wpa_psk", "", "buf", OutSize),
    get_txpower |-> IntOf("txpower"),
    get_aggcnt |-> Ask("agg_cnt", "", "pair", 32),
    set_aggcnt |-> Text("agg_cnt", "dec"),
    set_load_def |-> Text("loaddef", "dec"),
    set_dbginfo_output |-> Text("dbginfo", "dec"),
    get_bss_bw |-> IntOf("bss_bw"),
    get_chan_list |-> Ask("chan_list", "", "buf", OutSize),
    get_freq_range |-> Ask("freq_range", "", "buf", OutSize),
    get_txq_param |-> Ask("txq_param", "", "buf", OutSize),
    get_key_mgmt |-> Ask("key_mgmt", "", "buf", OutSize),
    get_battery_level |-> IntOf("battery_level"),
    get_module_type |-> IntOf("module_type"),
    set_pa_pwrctrl_dis |-> Text("pa_pwrctl_dis", "dec"),
    set_dhcpc |-> Text("dhcpc", "dec"),
    get_disassoc_reason |-> IntOf("disassoc_reason"),
    set_wkdata_save |-> Text("wkdata_save", "dec"),
    set_mcast_txparam |-> Text("mcast_txparam", "dec"),
    reset_sta |-> Text("reset_sta", "mac")]

\* iwpriv.c 771-918
ApiStatus == [
    set_ant_sel |-> Text("ant_sel", "dec"),
    get_ant_sel |-> IntOf("ant_sel"),
    set_macfilter |-> Text("macfilter", "dec"),
    send_atcmd |-> Bytes("atcmd", <<"bytes">>),
    set_roaming |-> Text("roaming", "dec"),
    get_conn_state |-> IntOf("conn_state"),
    get_wkreason |-> IntOf("wkreason"),
    set_rts_threshold |-> Text("rts_threshold", "dec"),
    set_frag_threshold |-> Text("frag_threshold", "dec"),
    set_heartbeat |-> Text("heartbeat", "ip"),
    set_heartbeat_resp_data |-> Bytes("heartbeat_resp", <<"bytes">>),
    set_wakeup_data |-> Bytes("wakeup_data", <<"bytes">>),
    wakeup_sta |-> Text("wakeup", "mac"),
    send_custmgmt |-> Bytes("custmgmt", <<"bytes">>),
    send_mgmtframe |-> Bytes("mgmtframe", <<"bytes">>),
    proc_set_wkdata_mask |-> Bytes("wkdata_mask", <<"u16", "mask16">>),
    set_cust_driverdata |-> Bytes("driverdata", <<"bytes">>),
    set_stafreqinfo |-> Bytes("freqinfo", <<"bytes">>),
    blenc_start |-> Blenc("EN", "dec", <<>>),
    send_blenc_data |-> Blenc("DATA", "bin", <<"bytes">>),
    blenc_send_hcidata |-> Blenc("HCI_DATA", "bin", <<"u8", "bytes">>)]

\* iwpriv.c 920-1064
ApiBle == [
    blenc_set_advdata |-> Blenc("ADV_DATA", "bin", <<"bytes">>),
    blenc_set_scanresp |-> Blenc("SCAN_RESP", "bin", <<"bytes">>),
    blenc_set_devaddr |-> Blenc("DEV_ADDR", "bin", <<"mac">>),
    blenc_set_adv_interval |-> Blenc("ADV_INT", "dec", <<>>),
    blenc_set_adv_filter |-> Blenc("ADV_FILTER", "dec", <<>>),
    blenc_start_adv |-> Blenc("ADV_EN", "dec", <<>>),
    set_hwscan |-> Text("hwscan", "dec")]

\* iwpriv.c 1069-1214
ApiTune == [
    set_user_edca |-> Bytes("user_edca", <<"u8", "bytes">>),
    set_fix_txrate |-> Text("fix_txrate", "dec"),
    set_nav_max |-> Text("nav_max", "dec"),
    clear_nav |-> Text("clr_nav", "dec"),
    set_cca_param |-> Bytes("cca_param", <<"bytes">>),
    set_tx_modulation_gain |-> Bytes("tx_modgain", <<"bytes">>),
    get_nav |-> IntOf("nav"),
    get_bgrssi |-> Ask("bgrssi", "num", "triple", 32),
    reset |-> Text("reset", "dec"),
    set_rts_duration |-> Text("rts_duration", "dec"),
    set_disable_print |-> Text("disable_print", "dec"),
    set_conn_paironly |-> Text("conn_paironly", "dec"),
    get_center_freq |-> IntOf("center_freq"),
    set_wait_psmode |-> Text("wait_psmode", "dec"),
    set_diffcust_conn |-> Text("diffcust_conn", "dec"),
    set_standby |-> Text("standby", "dec"),
    set_ap_chan_switch |-> Text("ap_chansw", "dec"),
    set_cca_for_ce |-> Text("cca_ce", "dec"),
    set_rtc |-> Text("rtc", "dec"),
    get_rtc |-> IntOf("rtc"),
    set_apep_padding |-> Text("apep_padding", "dec"),
    get_acs_result |-> Ask("acs_result", "", "buf", OutSize),
    get_reason_code |-> IntOf("reason_code"),
    get_status_code |-> IntOf("status_code"),
    set_watchdog |-> Text("watchdog", "dec"),
    set_retry_fallback_cnt |-> Text("retry_fallback_cnt", "dec"),
    set_fallback_mcs |-> Text("fallback_mcs", "dec"),
    get_xosc |-> IntOf("xosc")]

\* iwpriv.c 1216-1351
ApiDevice == [
    get_freq_offset |-> Ask("freq_offset", "mac", "int", 128),
    set_xosc |-> Text("xosc", "dec"),
    set_freq_cali_period |-> Text("freq_cali_period", "dec"),
    set_customer_dvrdata |-> Bytes("cust_drvdata", <<"u16", "bytes">>),
    set_disassoc_sta |-> Text("disassoc_sta", "mac"),
    set_pa_pwrctl_dis |-> Text("pa_pwrctl_dis", "dec"),
    set_ant_auto |-> Text("ant_auto", "dec"),
    set_wkhost_reasons |-> Text("wkhost_reason", "dec"),
    set_ap_hide |-> Text("ap_hide", "dec"),
    set_assert_holdup |-> Text("assert_holdup", "dec"),
    set_ap_psmode |-> Text("ap_psmode", "dec"),
    set_dupfilter_en |-> Text("dupfilter", "dec"),
    set_dis_1v1m2u |-> Text("dis_1v1m2u", "dec"),
    set_dis_psconnect |-> Text("dis_psconnect", "dec"),
    set_wkdata_mask |-> Bytes("wkdata_mask", <<"u8", "mask32">>),
    set_hbdata_mask |-> Bytes("hbdata_mask", <<"u8", "len8", "mask64">>),
    get_mode |-> Ask("mode", "", "buf", 8),
    get_wkdata_buff |-> Ask("wkdata_buff", "", "buf", OutSize),
    get_temperature |-> IntOf("temperature"),
    get_sta_count |-> IntOf("sta_count"),
    get_dhcpc_result |-> Ask("dhcpc_result", "", "struct", 24),
    set_max_tx_delay |-> Text("max_txdelay", "dec"),
    set_heartbeat_int |-> Text("heartbeat_int", "dec")]

\* iwpriv.c 1353-1444
ApiMesh == [
    get_sta_info |-> Ask("stainfo", "mac", "struct", StaInfoSize),
    get_signal |-> IntOf("signal"),
    set_countryregion |-> Bytes("country_region", <<"bytes">>),
    set_sleep_roaming |-> Text("sleep_roaming", "dec"),
    set_roaming_bssid |-> Text("roaming_bssid", "mac"),
    get_link_quality |-> Ask("link_quality", "one", "struct", 44),
    set_bss_disabled |-> Text("bss_disable", "mac"),
    set_kick_assoc |-> Text("kick_assoc", "dec"),
    set_start_assoc |-> Text("start_assoc", "dec"),
    set_rmesh_devmax |-> Text("rmesh_devmax", "dec"),
    set_rmesh_aid |-> Text("rmesh_aid", "dec"),
    set_rmesh_device |-> Bytes("rmesh_device", <<"u8", "mac">>),
    set_rmesh_notfw |-> Text("start_assoc", "dec"),
    set_rmesh_rssimin |-> Text("rmesh_rssimin", "dec"),
    get_rmesh_device |-> Ask("rmesh_device", "one", "buf", OutSize),
    set_rmesh_meshid |-> Text("rmesh_meshid", "mac")]

Api == ApiVerbs @@ ApiNetwork @@ ApiHost @@ ApiStatus @@ ApiBle @@ ApiTune
           @@ ApiDevice @@ ApiMesh

-----------------------------------------------------------------------------
\* With blenc_mode = 3 the advertising functions send an HCI command instead;
\* the interval and the filter are accepted and dropped.
HCI_OPCODE(ogf, ocf) == ogf * 1024 + ocf
HciOcf == [blenc_set_advdata |-> 8, blenc_set_scanresp |-> 9,
           blenc_set_devaddr |-> 5, blenc_start_adv |-> 10]
HciDropped == {"blenc_set_adv_interval", "blenc_set_adv_filter"}
HciText(api, a) ==
    LET data == IF api = "blenc_start_adv" THEN Le(a.nums[1], 1) ELSE a.bytes
    IN  [form |-> "bin", tag |-> "HCI_DATA", nums |-> <<>>,
         bytes |-> <<1>> \o Le(HCI_OPCODE(8, HciOcf[api]), 2) \o Le(Len(data), 1) \o data]

\* The text after "name=" of a set, and of a get that takes an argument.
SetText(row, a) ==
    [form  |-> row.form, tag |-> row.tag,
     nums  |-> IF row.form = "bin" THEN <<>> ELSE a.nums,
     bytes |-> IF row.form = "bin" THEN Payload([wire |-> row.pack], a) ELSE a.bytes]
GetText(row, a) ==
    [form  |-> IF row.arg = "" THEN "none" ELSE IF row.arg = "mac" THEN "mac" ELSE "dec",
     tag   |-> "",
     nums  |-> CASE row.arg = "one" -> <<1>>
                 [] row.arg = "mac" /\ row.conv = "struct" -> <<1>>
                 [] OTHER -> a.nums,
     bytes |-> a.bytes]

\* The request of one call: verb, name and text.
Request(api, a, blenc_mode) ==
    LET row == Api[api]
    IN  IF blenc_mode = 3 /\ api \in DOMAIN HciOcf
        THEN [verb |-> "set", name |-> "blenc", text |-> HciText(api, a)]
        ELSE CASE row.verb = "set" -> [verb |-> "set", name |-> row.name, text |-> SetText(row, a)]
               [] row.verb = "get" -> [verb |-> "get", name |-> row.name, text |-> GetText(row, a)]
               [] OTHER -> [verb |-> row.verb, name |-> "",
                            text |-> [form |-> "dec", tag |-> "", nums |-> a.nums, bytes |-> <<>>]]

-----------------------------------------------------------------------------
\* The result of a call: its return value, the numbers it stored through its
\* pointer arguments and the bytes in the caller's buffer.
Outcome(ret, nums, bytes) == [ret |-> ret, nums |-> nums, bytes |-> bytes]

\* hgic_iwpriv_do returns the int the driver wrote over the request, copies
\* at most out_len - 1 bytes and ends them with a 0.  A get that returns a
\* length is abstracted to 1.  atoi of the request or of no text is 0.
ToolResult(row, reply) ==
    LET texted == reply.ret = 0 /\ reply.form # "none"
        dec    == texted /\ reply.form = "dec"
        ret    == IF texted THEN 1 ELSE reply.ret
    IN  CASE row.conv = "int"    -> Outcome(IF dec THEN reply.nums[1] ELSE 0, <<>>, <<>>)
          [] row.conv = "pair"   -> Outcome(IF texted THEN 0 ELSE -1, reply.nums, <<>>)
          [] row.conv = "triple" -> IF dec /\ Len(reply.nums) = 3 THEN Outcome(0, reply.nums, <<>>)
                                                                ELSE Outcome(-1, <<>>, <<>>)
          [] row.conv = "mac"    -> IF texted THEN Outcome(reply.nums[1], <<>>, reply.bytes)
                                              ELSE Outcome(-1, <<>>, <<>>)
          [] OTHER -> Outcome(ret, reply.nums, Take(reply.bytes, row.out - 1))
=============================================================================
