----------------------------- MODULE IwprivCmds -----------------------------
(***************************************************************************)
(* The textual configuration commands of the driver, src/utils/iwpriv.c:   *)
(* "name=argument" is looked up in hgpriv_sets / hgpriv_gets and the row's *)
(* handler parses the argument and calls a wrapper of FwCmds.              *)
(*                                                                         *)
(* A text is [form, tag, nums, bytes]: "dec" numbers separated by commas,  *)
(* "mac" an aa:bb:cc:dd:ee:ff address (a list of them in paired_stas) that *)
(* numbers may follow, "bin" bytes as they are; tag is the keyword that    *)
(* the blenc command puts in front.                                        *)
(***************************************************************************)
EXTENDS FwCmds

CONSTANT CharSigned    \* is char a signed type (it is up to the compiler)?
ASSUME CharAssumption == CharSigned \in BOOLEAN

Row(wrap, parse, max, cast) ==
    [wrap |-> wrap, parse |-> parse, max |-> max, cast |-> cast,
     tail |-> <<>>, some |-> FALSE]
Num(wrap, cast)       == Row(wrap, "vals", 1, cast)     \* simple_strtol(data)
Hex(wrap)             == Row(wrap, "vals", 1, "u16")    \* ..., base 16
Vals(wrap, max, cast) == Row(wrap, "vals", max, cast)   \* hgic_pick_values
List(wrap, max, cast, tail) ==
    [Row(wrap, "list", max, cast) EXCEPT !.tail = tail] \* ... and the count
Str(wrap)       == Row(wrap, "bytes", 0, "int")         \* the text as it is
Bin(wrap)       == Row(wrap, "bytes", 0, "int")         \* data, count
Mac(wrap)       == Row(wrap, "mac", 0, "int")           \* hgic_pick_macaddr
Macs(wrap)      == Row(wrap, "mac", 0, "int")
MacNum(wrap)    == Row(wrap, "mac", 1, "int")           \* ..., number at data + 18
Bare(wrap)      == Row(wrap, "bare", 0, "int")
Heartbeat(wrap) == Row(wrap, "heartbeat", 3, "int")     \* ip,port,period,timeout
\* data[0] as a char or a u8, or two bytes as a le16, is a number; the
\* wrapper's buffer starts at data + skip.
Split(wrap, cast, skip) == Row(wrap, "split", skip, cast)
\* -EINVAL unless the text is not empty / has two letters / for a station.
Some(row)     == [row EXCEPT !.some = TRUE]
Country(wrap) == Row(wrap, "country", 0, "int")
StaMac(wrap)  == Row(wrap, "stamac", 0, "int")

\* iwpriv.c 56-184
SetsNetwork == [
    country_region |-> Country("set_countryregion"),
    ssid |-> Str("set_ssid"),
    bssid |-> StaMac("set_bssid"),
    channel |-> Num("set_channel", "int"),
    bssid_filter |-> Str("set_bssid_filter"),
    rts_threshold |-> Num("set_rts_threshold", "int"),
    frag_threshold |-> Num("set_frag_threshold", "int"),
    key_mgmt |-> Str("set_key_mgmt"),
    wpa_psk |-> Str("set_wpa_psk"),
    freq_range |-> Some(Vals("set_freq_range", 3, "int")),
    bss_bw |-> Num("set_bss_bw", "u8"),
    tx_bw |-> Num("set_tx_bw", "u8"),
    tx_mcs |-> Num("set_tx_mcs", "u8"),
    acs |-> Some(Vals("set_acs", 2, "u16")),
    bgrssi |-> Num("set_bgrssi", "u8"),
    chan_list |-> Some(List("set_chan_list", 32, "u16", <<>>)),
    mode |-> Str("set_mode")]

\* iwpriv.c 186-324
SetsLink == [
    paired_stas |-> Some(Macs("set_paired_stas")),
    pairing |-> Vals("set_pairing", 4, "int"),
    beacon_int |-> Num("set_beacon_int", "int"),
    radio_onoff |-> Num("radio_onoff", "u8"),
    join_group |-> MacNum("join_group"),
    ether_type |-> Hex("set_ethertype"),
    txpower |-> Num("set_txpower", "u16"),
    agg_cnt |-> Vals("set_agg_cnt", 2, "u8"),
    ps_connect |-> Vals("set_ps_connect", 2, "u8"),
    bss_max_idle |-> Num("set_bss_max_idle", "int"),
    dtim_period |-> Num("set_dtim_period", "int")]

\* iwpriv.c 326-465
SetsHost == [
    wkio_mode |-> Num("set_wkio_mode", "int"),
    loaddef |-> Num("set_load_def", "int"),
    disassoc_sta |-> Mac("disassoc_sta"),
    ps_mode |-> Num("set_ps_mode", "int"),
    aplost_time |-> Num("set_aplost_time", "int"),
    unpair |-> Mac("unpair"),
    auto_chswitch |-> Num("set_auto_chswitch", "flag"),
    mcast_key |-> Str("set_mcast_key"),
    reassoc_wkhost |-> Num("set_reassoc_wkhost", "flag"),
    wakeup_io |-> Vals("set_wakeup_io", 2, "u8"),
    dbginfo |-> Num("set_dbginfo_output", "flag"),
    sysdbg |-> Str("set_sysdbg"),
    primary_chan |-> Num("set_primary_chan", "int"),
    autosleep_time |-> Num("set_autosleep_time", "int")]

\* iwpriv.c 467-613
SetsPower == [
    super_pwr |-> Num("set_super_pwr", "int"),
    r_ssid |-> Str("set_repeater_ssid"),
    r_psk |-> Str("set_repeater_psk"),
    auto_save |-> Num("set_auto_save", "int"),
    pair_autostop |-> Num("set_pair_autostop", "int"),
    dcdc13 |-> Num("set_dcdc13v", "int"),
    acktmo |-> Num("set_acktmo", "int"),
    pa_pwrctl_dis |-> Num("set_pa_pwrctl_dis", "int"),
    dhcpc |-> Num("set_dhcpc", "int"),
    wkdata_save |-> Num("set_wkdata_save", "int"),
    mcast_txparam |-> Vals("set_mcast_txparam", 4, "u8"),
    reset_sta |-> StaMac("reset_sta"),
    ant_auto |-> Num("set_ant_auto", "int"),
    ant_sel |-> Num("select_ant", "int"),
    wkhost_reason |-> List("set_wkhost_reasons", 32, "u8", <<0>>)]

\* iwpriv.c 615-762
SetsAntenna == [
    macfilter |-> Num("set_mac_filter", "int"),
    atcmd |-> Str("set_atcmd"),
    roaming |-> List("set_roaming", 8, "s8", <<>>),
    ap_hide |-> Num("set_ap_hide", "int"),
    max_txcnt |-> Num("set_frm_tx_maxcnt", "int"),
    assert_holdup |-> Num("set_assert_holdup", "int"),
    ap_psmode |-> Num("set_ap_psmode_en", "int"),
    dupfilter |-> Num("set_dupfilter_en", "int"),
    dis_1v1m2u |-> Num("set_1v1_m2u_dis", "int"),
    dis_psconnect |-> Num("set_psconnect_dis", "int"),
    reset |-> Bare("reset"),
    heartbeat |-> Heartbeat("set_ps_heartbeat"),
    heartbeat_resp |-> Bin("set_ps_heartbeat_resp"),
    wakeup_data |-> Bin("set_ps_wakeup_data"),
    wakeup |-> Mac("wakeup_sta"),
    custmgmt |-> Bin("send_cust_mgmt"),
    mgmtframe |-> Bin("send_mgmtframe"),
    wkdata_mask |-> Split("set_wkdata_mask", "char", 1),
    hbdata_mask |-> Split("set_hbdata_mask", "char", 2)]

\* iwpriv.c 763-770
SetsFrames == [
    driverdata |-> Bin("set_cust_driver_data"),
    freqinfo |-> Bin("set_freqinfo")]

\* iwpriv.c 838-981
SetsTune == [
    hwscan |-> Vals("set_hwscan", 4, "u16"),
    user_edca |-> Split("set_user_edca", "u8", 1),
    fix_txrate |-> Num("set_fix_txrate", "int"),
    nav_max |-> Num("set_nav_max", "int"),
    clr_nav |-> Bare("clear_nav"),
    cca_param |-> Bin("set_cca_param"),
    tx_modgain |-> Bin("set_tx_modulation_gain"),
    rts_duration |-> Num("set_rts_duration", "int"),
    disable_print |-> Num("set_disable_print", "int"),
    conn_paironly |-> Num("set_conn_paironly", "int"),
    wait_psmode |-> Num("set_wait_psmode", "int"),
    diffcust_conn |-> Num("set_diffcust_conn", "int"),
    standby |-> Vals("set_standby", 2, "int"),
    ap_chansw |-> Vals("set_ap_chan_switch", 2, "u8"),
    cca_ce |-> Num("set_cca_for_ce", "int"),
    rtc |-> Num("set_rtc", "int"),
    apep_padding |-> Num("set_apep_padding", "int"),
    watchdog |-> Num("set_watchdog", "int"),
    retry_fallback_cnt |-> Num("set_retry_fallback_cnt", "int"),
    fallback_mcs |-> Vals("set_fallback_mcs", 4, "u8"),
    xosc |-> Num("set_xosc", "int"),
    freq_cali_period |-> Num("set_freq_cali_period", "int"),
    cust_drvdata |-> Split("set_bytes", "le16", 2),
    max_txdelay |-> Num("set_max_tx_delay", "int"),
    heartbeat_int |-> Num("set_heartbeat_int", "int")]

\* iwpriv.c 982-1051
SetsMesh == [
    sleep_roaming |-> Vals("set_sleep_roaming", 2, "s8"),
    roaming_bssid |-> Mac("set_roaming_bssid"),
    bss_disable |-> MacNum("set_bss_disabled"),
    kick_assoc |-> Num("set_kick_assoc", "int"),
    start_assoc |-> Num("set_start_assoc", "int"),
    rmesh_devmax |-> Num("set_rmesh_devmax", "int"),
    rmesh_aid |-> Num("set_rmesh_aid", "int"),
    rmesh_device |-> Split("set_rmesh_device", "u8", 1),
    rmesh_notfw |-> Num("set_rmesh_notfw", "int"),
    rmesh_rssimin |-> Num("set_rmesh_rssimin", "int"),
    rmesh_meshid |-> Mac("set_rmesh_meshid")]
\* The keywords of the blenc command (hgic_iwpriv_set_blenc).
BlencSets == [
    EN         |-> Vals("set_blenc_en", 2, "u8"),
    DATA       |-> Bin("blenc_send_data"),
    DEV_ADDR   |-> Bin("blenc_set_devaddr"),
    ADV_DATA   |-> Bin("blenc_set_advdata"),
    SCAN_RESP  |-> Bin("blenc_set_scanresp"),
    ADV_INT    |-> Num("blenc_set_advinterval", "int"),
    ADV_EN     |-> Num("blenc_start_adv", "int"),
    HCI_DATA   |-> Split("send_hci_data", "char", 1),
    ADV_FILTER |-> Num("set_blenc_adv_filter", "int")]

\* hgpriv_sets.  "sleep" (hgic_iwpriv_enter_sleep) is the subject of SleepFlow.
Sets == SetsNetwork @@ SetsLink @@ SetsHost @@ SetsPower @@ SetsAntenna
            @@ SetsFrames @@ SetsTune @@ SetsMesh

-----------------------------------------------------------------------------
HGIC_WDEV_ID_STA == 1

\* The C type a handler stores a parsed number in before it calls the wrapper.
Cast(cast, v) ==
    CASE cast = "u8"   -> v % 256
      [] cast = "s8"   -> S8(v)
      [] cast = "u16"  -> v % 65536
      [] cast = "char" -> IF CharSigned THEN S8(v) ELSE v % 256
      [] cast = "flag" -> IF v = 1 THEN 1 ELSE 0
      [] OTHER         -> v

\* Mutant: the list of numbers is read from the second one on.
NumAtNext(text, i) == IF i + 1 \in DOMAIN text.nums THEN text.nums[i + 1] ELSE 0

\* A number past the end of the text is 0: strtol of "", memset in pick_values.
NumAt(text, i) == IF i \in DOMAIN text.nums THEN text.nums[i] ELSE 0

\* hgic_pick_macaddr zeroes the address when the text is not one.
MacOf(text) == IF text.form = "mac" THEN text.bytes ELSE Le(0, 6)

\* Conditions under which a handler answers -EINVAL without a command.
Einval(row, text) ==
    \/ row.some /\ text.nums = <<>> /\ text.bytes = <<>>
    \/ row.parse = "country" /\ Len(text.bytes) # 2
    \/ row.parse = "stamac" /\ IfIdx # HGIC_WDEV_ID_STA

\* The wrapper's arguments a handler parses out of the text.
Parse(row, text) ==
    LET Casted(n) == [i \in 1..n |-> Cast(row.cast, NumAt(text, i))]
        high == IF row.cast = "le16" THEN 256 * text.bytes[2] ELSE 0
    IN  CASE row.parse = "vals" ->
                [nums |-> Casted(row.max), bytes |-> <<>>]
          [] row.parse = "list" ->
                [nums |-> Casted(Len(Take(text.nums, row.max))) \o row.tail, bytes |-> <<>>]
          [] row.parse \in {"mac", "stamac"} ->
                [nums |-> Casted(row.max), bytes |-> MacOf(text)]
          [] row.parse = "heartbeat" ->
                [nums |-> Casted(row.max), bytes |-> Reverse(text.bytes)]
          [] row.parse = "split" ->
                [nums  |-> <<Cast(row.cast, text.bytes[1]) + high>>,
                 bytes |-> SubSeq(text.bytes, row.max + 1, Len(text.bytes))]
          [] row.parse = "bare" -> [nums |-> <<>>, bytes |-> <<>>]
          [] OTHER -> [nums |-> <<>>, bytes |-> text.bytes]

-----------------------------------------------------------------------------
\* The get handlers: the wrapper, how its result becomes the reply, and the
\* size of the handler's buffer.
Get(wrap, reply, cap) == [wrap |-> wrap, reply |-> reply, cap |-> cap]
Dec(wrap) == Get(wrap, "dec", 0)

GetsList == [
    scan_list |-> Get("get_scan_list", "scan", 1024),
    sta_list  |-> Get("get_sta_list", "records", 4096),
    mode      |-> Get("get_mode", "raw", 12),
    ssid      |-> Get("get_ssid", "raw", 32),
    bssid     |-> Get("get_bssid", "mac", 7),
    wpa_psk   |-> Get("get_wpapsk", "raw", 64)]
GetsNumber == [
    txpower         |-> Dec("get_txpower"),
    bss_bw          |-> Dec("get_bss_bw"),
    agg_cnt         |-> Get("get_agg_cnt", "agg", 2),
    chan_list       |-> Get("get_chan_list", "u16s", 32),
    freq_range      |-> Get("get_freq_range", "range", 12),
    key_mgmt        |-> Get("get_key_mgmt", "raw", 32),
    battery_level   |-> Dec("get_battery_level"),
    module_type     |-> Get("get_module_type", "nonzero", 0),
    disassoc_reason |-> Dec("get_disassoc_reason"),
    ant_sel         |-> Dec("get_ant_sel"),
    wkreason        |-> Dec("get_wkreason"),
    wkdata_buff     |-> Get("get_wkdata_buff", "raw", 4096)]
GetsState == [
    temperature  |-> Dec("get_temperature"),
    conn_state   |-> Dec("get_conn_state"),
    sta_count    |-> Dec("get_sta_count"),
    txq_param    |-> Get("get_txq_param", "exact", 32),
    nav          |-> Dec("get_nav"),
    rtc          |-> Get("get_rtc", "u32", 4),
    bgrssi       |-> Get("get_bgrssi", "three", 3),
    center_freq  |-> Dec("get_center_freq"),
    acs_result   |-> Get("get_acs_result", "raw", 256),
    reason_code  |-> Dec("get_reason_code"),
    status_code  |-> Dec("get_status_code"),
    dhcpc_result |-> Get("get_dhcpc_result", "exact", 24),
    xosc         |-> Dec("get_xosc")]
GetsStation == [
    freq_offset  |-> Get("get_freq_offset", "decof", 4),
    stainfo      |-> Get("get_sta_info", "info", StaInfoSize),
    signal       |-> Get("get_signal", "minus", 0),
    tx_bitrate   |-> Dec("get_tx_bitrate"),
    link_quality |-> Get("get_link_quality", "struct", 44)]
GetsMesh == [rmesh_device |-> Get("get_rmesh_device", "devices", 4096)]

\* hgpriv_gets.  "fwinfo" copies ctrl->fwinfo and sends no command.
Gets == GetsList @@ GetsNumber @@ GetsState @@ GetsStation @@ GetsMesh

\* -EINVAL of the handlers that need an argument after "=".
NeedsArg(row) == row.reply \in {"three", "decof", "info"}

-----------------------------------------------------------------------------
\* What the caller's buffer holds when a get handler returns: its return
\* value, and the form of the text.  "none" is a zero length, "echo" the
\* request itself, which a handler that copies nothing leaves in place.
Reply(ret, form, nums, bytes) ==
    [ret |-> ret, form |-> form, nums |-> nums, bytes |-> bytes]
NoReply == Reply(0, "none", <<>>, <<>>)
Echo(ret) == Reply(ret, "echo", <<>>, <<>>)
DecReply(nums) == Reply(0, "dec", nums, <<>>)
\* hgic_copyto_iwreq: nothing for a length that is not positive.  room is the
\* length of the caller's buffer.
BinReply(bytes, room) ==
    IF Len(bytes) > 0 /\ room > 0 THEN Reply(0, "bin", <<>>, Take(bytes, room)) ELSE NoReply

\* Mutant: the bytes are taken the other way round.
U16AtBig(b, i) == IF 2 * i <= Len(b) THEN 256 * b[2 * i - 1] + b[2 * i] ELSE -1

\* The i-th u16 of a buffer; an entry the buffer is too short for is whatever
\* the stack held, here -1.
U16At(b, i) == IF 2 * i <= Len(b) THEN b[2 * i - 1] + 256 * b[2 * i] ELSE -1

\* A zeroed structure or buffer of n bytes that starts with data.
Zeroed(data, n) == [i \in 1..n |-> IF i \in DOMAIN data THEN data[i] ELSE 0]

\* The reply a handler makes of its wrapper's result r.
HandlerReply(row, r, room, binary) ==
    LET reply == row.reply
    IN  CASE reply = "dec"     -> DecReply(<<r.ret>>)
          [] reply = "decof"   -> DecReply(<<r.ret>>)
          [] reply = "minus"   -> DecReply(<<r.ret - 4096>>)
          [] reply = "nonzero" -> IF r.ret % 65536 # 0 THEN DecReply(<<r.ret % 65536>>) ELSE Echo(0)
          [] reply = "u32"     -> DecReply(<<IF Len(r.data) = 4 THEN Int32(r.data) ELSE 0>>)
          [] reply = "agg"     -> IF r.ret = 255 THEN DecReply(r.data) ELSE DecReply(<<r.ret, 0>>)
          [] reply = "u16s"    -> IF r.ret > 0 THEN DecReply([i \in 1..r.ret |-> U16At(r.data, i)])
                                  ELSE NoReply
          [] reply = "range"   -> IF r.ret = 1
                                  THEN DecReply([i \in 1..3 |-> Int32(SubSeq(r.data, 4 * i - 3, 4 * i))])
                                  ELSE NoReply
          [] reply = "three"   -> IF r.ret = 3 THEN DecReply([i \in 1..3 |-> S8(r.data[i])]) ELSE Echo(0)
          [] reply = "mac"     -> IF r.ret > 0 THEN Reply(0, "mac", <<r.data[7]>>, Take(r.data, 6))
                                               ELSE NoReply
          [] reply = "exact"   -> IF r.ret = row.cap THEN BinReply(r.data, room) ELSE Echo(r.ret)
          [] reply = "struct" /\ binary -> BinReply(Zeroed(r.data, row.cap), room)
          [] reply = "devices" /\ binary -> BinReply(Zeroed(r.data, 7 * r.ret), room)
          [] reply = "info" /\ binary   -> BinReply(r.data, room)
          [] reply = "scan"    -> IF r.ret > 0 THEN Reply(0, "lines", <<>>, <<>>)
                                               ELSE BinReply(<<0, 0>>, room)      \* len = 2
          [] reply \in {"records", "devices", "info", "struct"} /\ ~binary ->
                 IF r.ret > 0 THEN Reply(0, "lines", <<>>, <<>>) ELSE NoReply
          [] OTHER -> BinReply(r.data, room)           \* "raw", "records" with =1
=============================================================================
