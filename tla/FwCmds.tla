------------------------------- MODULE FwCmds -------------------------------
(***************************************************************************)
(* The command wrappers of src/utils/fwctrl.c (hgic_fwctrl_set_*, _get_*,  *)
(* ...): one row per wrapper, giving the firmware command it issues, the   *)
(* layout of the payload it builds and how it turns the answer into its    *)
(* return value.  A wrapper's arguments are [nums, bytes]: its integers in *)
(* order and its byte buffer (a string, a MAC address, a structure).       *)
(***************************************************************************)
EXTENDS Integers, Sequences, FiniteSets, SequencesExt, TLC

CONSTANT IfIdx      \* the ifidx the wrappers are called with (hg->vif->fwifidx)

StaInfoSize == 12   \* sizeof(struct hgic_sta_info)

\* put_unaligned_le16/le32, and the low byte of a u8: w bytes, low byte first.
Le(v, w) == [i \in 1..w |-> (v \div (256 ^ (i - 1))) % 256]

\* (s8) v, and get_unaligned_le32 of four bytes as a signed int.
S8(v) == LET u == v % 256 IN IF u > 127 THEN u - 256 ELSE u
Int32(b) == b[1] + 256 * b[2] + 65536 * b[3] + 16777216 * S8(b[4])

Take(s, n) == SubSeq(s, 1, IF n < Len(s) THEN n ELSE Len(s))

Cmd(cmd, wire) ==
    [cmd |-> cmd, wire |-> wire, ret |-> "status", sync |-> TRUE, kind |-> "set"]
Query(cmd, wire, ret) ==
    [cmd |-> cmd, wire |-> wire, ret |-> ret, sync |-> TRUE, kind |-> "get"]
SetByte(cmd)  == Cmd(cmd, <<"u8">>)
SetInt(cmd)   == Cmd(cmd, <<"u32">>)
SetMac(cmd)   == Cmd(cmd, <<"mac">>)
SetBytes(cmd) == Cmd(cmd, <<"bytes">>)
GetShort(cmd) == Query(cmd, <<>>, "status")
GetInt(cmd)   == Query(cmd, <<>>, "int")
GetBytes(cmd) == Query(cmd, <<>>, "data")

\* fwctrl.c 282-426
CmdsBasic == [
    testmode_cmd |-> Query("TESTMODE_CMD", <<"bytes">>, "data"),
    get_status |-> GetBytes("GET_STATUS"),
    get_conn_state |-> Query("GET_CONN_STATE", <<>>, "status"),
    get_fwinfo |-> GetBytes("GET_FW_INFO"),
    set_countryregion |-> SetBytes("SET_COUNTRY"),
    set_ssid |-> SetBytes("SET_SSID"),
    set_bssid |-> SetMac("SET_BSSID"),
    set_channel |-> SetInt("SET_CHANNEL"),
    set_bssid_filter |-> SetBytes("SET_BSSID_FILTER"),
    set_rts_threshold |-> SetInt("SET_RTS_THRESHOLD"),
    set_frag_threshold |-> SetInt("SET_FRG_THRESHOLD"),
    set_key_mgmt |-> SetBytes("SET_KEY_MGMT"),
    set_wpa_psk |-> SetBytes("SET_WPA_PSK"),
    set_wbnat |-> SetInt("SET_WBNAT"),
    set_freq_range |-> Cmd("SET_FREQ_RANGE", <<"u32", "u32", "u32">>),
    set_bss_bw |-> SetByte("SET_BSS_BW"),
    set_tx_bw |-> SetByte("SET_TX_BW"),
    set_tx_mcs |-> SetByte("SET_TX_MCS"),
    set_acs |-> Cmd("ACS_ENABLE", <<"u8", "u8">>),
    set_bgrssi |-> SetByte("SET_BG_RSSI"),
    set_chan_list |-> Cmd("SET_CHAN_LIST", <<"count", "u16s">>),
    set_mode |-> SetBytes("SET_WORK_MODE")]

\* fwctrl.c 428-573
CmdsRadio == [
    set_paired_stas |-> SetBytes("SET_PAIRED_STATIONS"),
    set_pairing |-> Cmd("PAIRING", <<"u32", "u8", "u8", "u8">>),
    open_dev |-> Cmd("DEV_OPEN", <<>>),
    close_dev |-> Cmd("DEV_CLOSE", <<>>),
    set_txpower |-> SetInt("SET_TX_POWER"),
    get_txpower |-> GetShort("GET_TX_POWER"),
    set_listen_interval |-> SetInt("SET_LISTEN_INTERVAL"),
    set_center_freq |-> SetInt("SET_CENTER_FREQ"),
    set_tx_count |-> Cmd("SET_TX_LCOUNT", <<"u32", "u32">>),
    set_key |-> Cmd("SET_KEY", <<"u8", "u8", "bytes">>),
    add_sta |-> Cmd("ADD_STA", <<"u16", "mac">>),
    del_sta |-> SetMac("REMOVE_STA"),
    set_primary_chan |-> SetByte("SET_PRIMARY_CHAN"),
    set_aid |-> SetInt("SET_AID"),
    set_mac |-> Cmd("SET_MAC", <<"mac", "ifidx">>),
    get_scan_list |-> GetBytes("GET_SCAN_LIST"),
    scan |-> SetByte("SCAN"),
    set_txq_param |-> Cmd("SET_TXQ_PARAM", <<"u8", "bytes">>),
    set_user_edca |-> Cmd("SET_USER_EDCA", <<"u8", "bytes">>),
    get_temperature |-> GetShort("GET_TEMPERATURE"),
    enter_sleep |-> Cmd("ENTER_SLEEP", <<"u16", "u32">>)]

\* fwctrl.c 575-721
CmdsLink == [
    get_sta_list |-> Query("GET_STA_LIST", <<>>, "records"),
    set_beacon_int |-> SetInt("SET_BEACON_INT"),
    get_mode |-> GetBytes("GET_MODE"),
    get_ssid |-> GetBytes("GET_SSID"),
    get_bssid |-> GetBytes("GET_BSSID"),
    get_wpapsk |-> GetBytes("GET_WPA_PSK"),
    save_cfg |-> Cmd("SAVE_CFG", <<>>),
    join_group |-> Cmd("JOIN_GROUP", <<"mac", "u8">>),
    set_ethertype |-> Cmd("SET_ETHER_TYPE", <<"u16">>),
    get_sta_count |-> Query("GET_STA_COUNT", <<>>, "status"),
    get_agg_cnt |-> GetBytes("GET_AGG_CNT"),
    set_agg_cnt |-> Cmd("SET_AGG_CNT", <<"u8", "u8">>),
    get_bss_bw |-> GetShort("GET_BSS_BW"),
    get_freq_range |-> Query("GET_FREQ_RANGE", <<>>, "range"),
    get_chan_list |-> Query("GET_CHAN_LIST", <<>>, "u16s"),
    wakeup_sta |-> SetMac("SET_WAKEUP_STA"),
    set_ps_heartbeat |-> Cmd("SET_PS_HEARTBEAT", <<"ip", "u32", "u32", "u32">>),
    set_ps_heartbeat_resp |-> SetBytes("SET_PS_HEARTBEAT_RESP"),
    set_ps_wakeup_data |-> SetBytes("SET_PS_WAKEUP_DATA"),
    set_ps_connect |-> Cmd("SET_PS_CONNECT", <<"u8", "u8">>),
    radio_onoff |-> SetByte("RADIO_ONOFF"),
    set_bss_max_idle |-> SetInt("SET_BSS_MAX_IDLE"),
    set_wkio_mode |-> SetByte("SET_WKIO_MODE"),
    set_dtim_period |-> SetInt("SET_DTIM_PERIOD"),
    set_ps_mode |-> SetByte("SET_PS_MODE")]

\* fwctrl.c 723-866
CmdsPower == [
    set_load_def |-> SetByte("LOAD_DEF"),
    disassoc_sta |-> SetMac("DISASSOC_STA"),
    set_aplost_time |-> SetInt("SET_APLOST_TIME"),
    get_wkreason |-> Query("GET_WAKEUP_REASON", <<>>, "status"),
    unpair |-> SetMac("UNPAIR"),
    set_auto_chswitch |-> SetByte("SET_AUTO_CHAN_SWITCH"),
    set_mcast_key |-> SetBytes("SET_MCAST_KEY"),
    set_reassoc_wkhost |-> SetByte("SET_REASSOC_WKHOST"),
    set_wakeup_io |-> Cmd("SET_WAKEUP_IO", <<"u8", "u8">>),
    set_dbginfo_output |-> SetByte("DBGINFO_OUTPUT"),
    set_sysdbg |-> SetBytes("SET_SYSDBG"),
    set_autosleep_time |-> SetByte("SET_AUTO_SLEEP_TIME"),
    get_key_mgmt |-> GetBytes("GET_KEY_MGMT"),
    set_super_pwr |-> SetByte("SET_SUPER_PWR"),
    set_repeater_ssid |-> SetBytes("SET_REPEATER_SSID"),
    set_repeater_psk |-> SetBytes("SET_REPEATER_PSK"),
    set_auto_save |-> SetByte("CFG_AUTO_SAVE"),
    set_pair_autostop |-> SetByte("SET_PAIR_AUTOSTOP"),
    send_cust_mgmt |-> SetBytes("SEND_CUST_MGMT"),
    send_mgmtframe |-> SetBytes("SEND_MGMTFRAME"),
    get_battery_level |-> GetShort("GET_BATTERY_LEVEL"),
    set_dcdc13v |-> SetByte("SET_DCDC13"),
    set_acktmo |-> SetInt("SET_ACKTMO"),
    get_module_type |-> GetShort("GET_MODULETYPE"),
    set_pa_pwrctl_dis |-> SetByte("PA_PWRCTRL_DIS"),
    set_dhcpc |-> SetByte("SET_DHCPC"),
    get_dhcpc_result |-> GetBytes("GET_DHCPC_RESULT"),
    set_wkdata_mask |-> Cmd("SET_WKUPDATA_MASK", <<"u16", "mask16">>)]

\* fwctrl.c 868-1013
CmdsHost == [
    set_hbdata_mask |-> Cmd("SET_PS_HBDATA_MASK", <<"u16", "masklen", "mask64">>),
    get_wkdata_buff |-> GetBytes("GET_WKDATA_BUFF"),
    get_disassoc_reason |-> GetShort("GET_DISASSOC_REASON"),
    set_wkdata_save |-> SetByte("SET_WKUPDATA_SAVEEN"),
    set_cust_driver_data |-> SetBytes("SET_CUST_DRIVER_DATA"),
    set_mcast_txparam |-> Cmd("SET_MCAST_TXPARAM", <<"u8", "u8", "u8", "u8">>),
    set_freqinfo |-> SetBytes("SET_STA_FREQINFO"),
    reset_sta |-> SetMac("SET_RESET_STA"),
    set_ant_auto |-> SetByte("SET_ANT_AUTO"),
    select_ant |-> SetByte("SET_ANT_SEL"),
    get_ant_sel |-> GetShort("GET_ANT_SEL"),
    set_wkhost_reasons |-> Cmd("SET_WKUP_HOST_REASON", <<"u8s">>),
    set_mac_filter |-> SetByte("SET_MAC_FILTER_EN"),
    set_atcmd |-> Cmd("SET_ATCMD", <<"at", "bytes">>),
    set_roaming |-> Cmd("SET_ROAMING", <<"u8s">>),
    set_ap_hide |-> SetByte("SET_AP_HIDE"),
    set_frm_tx_maxcnt |-> SetByte("SET_MAX_TCNT"),
    set_assert_holdup |-> SetByte("SET_ASSERT_HOLDUP"),
    set_ap_psmode_en |-> SetByte("SET_AP_PSMODE_EN"),
    set_dupfilter_en |-> SetByte("SET_DUPFILTER_EN"),
    set_1v1_m2u_dis |-> SetByte("SET_DIS_1V1_M2U"),
    set_psconnect_dis |-> SetByte("SET_DIS_PSCONNECT"),
    set_blenc_en |-> Cmd("SET_BLENC_EN", <<"u8", "u8">>),
    blenc_send_data |-> SetBytes("SEND_BLENC_DATA"),
    blenc_set_advdata |-> SetBytes("SEND_BLENC_ADVDATA"),
    blenc_set_scanresp |-> SetBytes("SEND_BLENC_SCANRESP")]

\* fwctrl.c 1014-1158
CmdsBle == [
    blenc_set_devaddr |-> SetMac("SEND_BLENC_DEVADDR"),
    blenc_set_advinterval |-> SetInt("SEND_BLENC_ADVINTERVAL"),
    blenc_start_adv |-> SetByte("SEND_BLENC_STARTADV"),
    reset |-> Cmd("RESET", <<>>),
    set_hwscan |-> Cmd("SET_HWSCAN", <<"u8", "u8", "u16", "u8">>),
    get_txq_param |-> GetBytes("GET_TXQ_PARAM"),
    set_promisc |-> SetByte("SET_PROMISC"),
    set_fix_txrate |-> SetInt("SET_FIX_TXRATE"),
    set_nav_max |-> SetInt("SET_NAV_MAX"),
    clear_nav |-> Cmd("SET_NAV_MAX", <<"zero32">>),
    set_cca_param |-> SetBytes("SET_CCA_PARAM"),
    set_tx_modulation_gain |-> SetBytes("SET_TX_MODGAIN"),
    get_nav |-> GetShort("GET_NAV"),
    get_bgrssi |-> Query("GET_BGRSSI", <<"u8">>, "data"),
    send_hci_data |-> [Cmd("BLUETOOTH", <<"u8", "bytes">>) EXCEPT !.sync = FALSE],
    set_beacon_start |-> SetByte("SET_BEACON_START"),
    ble_open |-> SetByte("SET_BLE_OPEN"),
    set_rts_duration |-> SetInt("SET_RTS_DURATION"),
    set_disable_print |-> SetByte("SET_DISABLE_PRINT"),
    set_conn_paironly |-> SetByte("SET_CONNECT_PAIRONLY"),
    get_center_freq |-> GetShort("GET_CENTER_FREQ"),
    set_wait_psmode |-> SetByte("SET_WAIT_PSMODE"),
    set_diffcust_conn |-> SetByte("SET_DIFFCUST_CONN"),
    set_ap_chan_switch |-> Cmd("SET_AP_CHAN_SWITCH", <<"u8", "u8">>),
    set_cca_for_ce |-> SetByte("SET_CCA_FOR_CE")]

\* fwctrl.c 1160-1302
CmdsTune == [
    set_standby |-> Cmd("STANDBY_CFG", <<"u8", "u32">>),
    set_rtc |-> SetInt("SET_RTC"),
    get_rtc |-> GetBytes("GET_RTC"),
    set_apep_padding |-> SetByte("SET_APEP_PADDING"),
    get_acs_result |-> GetBytes("GET_ACS_RESULT"),
    get_reason_code |-> GetShort("GET_WIFI_REASON_CODE"),
    get_status_code |-> GetShort("GET_WIFI_STATUS_CODE"),
    set_watchdog |-> SetByte("SET_WATCHDOG"),
    set_retry_fallback_cnt |-> SetByte("SET_RETRY_FALLBACK_CNT"),
    set_fallback_mcs |-> Cmd("SET_FALLBACK_MCS", <<"u8", "u8", "u8", "u8">>),
    get_xosc |-> GetInt("GET_XOSC_VALUE"),
    set_xosc |-> SetInt("SET_XOSC_VALUE"),
    get_freq_offset |-> Query("GET_FREQ_OFFSET", <<"mac">>, "int"),
    set_freq_cali_period |-> Cmd("SET_CALI_PERIOD", <<"u16as32">>),
    set_blenc_adv_filter |-> SetInt("SET_BLENC_ADVFILTER"),
    set_max_tx_delay |-> SetInt("SET_MAX_TX_DELAY"),
    get_sta_info |-> Query("GET_STA_INFO", <<"mac">>, "data"),
    get_signal |-> GetShort("GET_SIGNAL"),
    set_heartbeat_int |-> SetInt("SET_HEARTBEAT_INT"),
    get_tx_bitrate |-> GetInt("GET_TX_BITRATE"),
    set_sleep_roaming |-> Cmd("SET_SLEEP_ROAMING", <<"u8", "u8">>),
    set_roaming_bssid |-> SetMac("SET_ROAMING_BSSID"),
    get_link_quality |-> GetBytes("GET_LINK_QUALITY"),
    set_bss_disabled |-> Cmd("SET_DISABLE_BSS", <<"u8", "mac">>),
    set_kick_assoc |-> SetInt("SET_KICK_ASSOC"),
    set_start_assoc |-> SetInt("START_ASSOC"),
    set_rmesh_devmax |-> Cmd("SET_RMESH_DEVMAX", <<"u8as32">>),
    set_rmesh_aid |-> Cmd("SET_RMESH_AID", <<"u8as32">>)]

\* fwctrl.c 1303-1325
CmdsMesh == [
    set_rmesh_device |-> Cmd("SET_RMESH_DEVICE", <<"u8", "mac">>),
    set_rmesh_notfw |-> Cmd("SET_RMESH_NOTFW", <<"u8as32">>),
    set_rmesh_rssimin |-> Cmd("SET_RMESH_RSSIMIN", <<"s8as32">>),
    get_rmesh_device |-> GetBytes("SET_RMESH_DEVICE"),
    set_rmesh_meshid |-> SetMac("GET_RMESH_MESHID")]
\* hgic_fwctrl_set_bytes itself, for the command ids of the application.
CmdsGeneric == [set_bytes |-> Cmd("CUSTOMER", <<"u16", "bytes">>)]

Cmds == CmdsBasic @@ CmdsRadio @@ CmdsLink @@ CmdsPower @@ CmdsHost @@ CmdsBle
            @@ CmdsTune @@ CmdsMesh @@ CmdsGeneric

-----------------------------------------------------------------------------
\* The layouts that take the wrapper's next integer argument.
Numeric == {"u8", "u16", "u32", "u8as32", "u16as32", "s8as32"}

\* hgic_fwctrl_set_atcmd: the "at+" the firmware expects, unless it is there.
AtPrefix(b) == IF Len(b) >= 3 /\ b[1] \in {65, 97} /\ b[2] \in {84, 116} /\ b[3] = 43
               THEN <<>> ELSE <<97, 116, 43>>

\* One field of a payload: n is the integer argument it takes, if it takes one.
Field(layout, n, a) ==
    CASE layout = "u8"      -> Le(n, 1)
      [] layout = "u16"     -> Le(n, 2)
      [] layout = "u32"     -> Le(n, 4)
      [] layout = "u8as32"  -> Le(n % 256, 4)
      [] layout = "u16as32" -> Le(n % 65536, 4)
      [] layout = "s8as32"  -> Le(S8(n), 4)
      [] layout = "zero32"  -> Le(0, 4)
      [] layout = "ifidx"   -> Le(IfIdx, 1)
      [] layout = "count"   -> Le(Len(a.nums), 2)
      [] layout = "u8s"     -> FlattenSeq([i \in DOMAIN a.nums |-> Le(a.nums[i], 1)])
      [] layout = "u16s"    -> FlattenSeq([i \in DOMAIN a.nums |-> Le(a.nums[i], 2)])
      [] layout = "mac"     -> Take(a.bytes, 6)
      [] layout = "mask16"  -> Take(a.bytes, 16)
      [] layout = "mask32"  -> Take(a.bytes, 32)
      [] layout = "mask64"  -> Take(a.bytes, 64)
      [] layout = "len8"    -> Le(Len(Take(a.bytes, 64)), 1)
      [] layout = "masklen" -> Le(Len(Take(a.bytes, 64)), 2)
      [] layout = "at"      -> AtPrefix(a.bytes)
      [] OTHER              -> a.bytes          \* "bytes", "ip"

\* The payload a wrapper hands to hgic_fwctrl_do_cmd.
Payload(row, a) ==
    LET K(i) == Cardinality({j \in 1..i : row.wire[j] \in Numeric})
        Arg(i) == IF K(i) \in DOMAIN a.nums THEN a.nums[K(i)] ELSE 0
    IN  FlattenSeq([i \in DOMAIN row.wire |-> Field(row.wire[i], Arg(i), a)])

-----------------------------------------------------------------------------
\* Mutant: a missing answer counts as success.
NoAnswerZero == [status |-> 0, data |-> <<>>]

\* hgic_fwctrl_do_cmd: what it returns when no response came.
NoAnswer == [status |-> -1, data |-> <<>>]

\* A wrapper's return value and the bytes it leaves in the caller's buffer:
\* do_cmd returns the answer's status (a byte count for the queries that
\* return data) and copies what fits into the caller's cap bytes.  No input
\* here comes near the request size do_cmd refuses.
Result(row, answer, cap) ==
    LET st == answer.status
    IN  [ret  |-> CASE row.ret = "int"     -> IF st = 4 THEN Int32(answer.data) ELSE -1
                    [] row.ret = "range"   -> IF st = 12 THEN 1 ELSE 0
                    [] row.ret = "u16s"    -> IF st > 0 THEN st \div 2 ELSE 0
                    [] row.ret = "records" -> IF st > 0 THEN st \div StaInfoSize ELSE st
                    [] OTHER               -> st,
         data |-> IF st > 0 THEN Take(answer.data, cap) ELSE <<>>]
=============================================================================
