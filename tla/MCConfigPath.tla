---------------------------- MODULE MCConfigPath ----------------------------
(* ConfigPath with every library function called once, with the argument    *)
(* values below, and with small fixed plans for several callers.            *)
EXTENDS ConfigPath

CONSTANTS c1, c2, conf

NoArgs == [nums |-> <<>>, bytes |-> <<>>]
Nums(s) == [nums |-> s, bytes |-> <<>>]
Bin2(s) == [nums |-> <<>>, bytes |-> s]
MacArg == <<2, 4, 6, 8, 10, 12>>
IpArg == <<10, 20, 30, 40>>

\* Numbers that fit the narrowest field, with and without its top bit, lists, flags, strings and addresses.
Lists == {"count", "u8s", "u16s"}
Kind(api, layout) ==
    \E i \in DOMAIN Cmds[NamedAfter(api)].wire : Cmds[NamedAfter(api)].wire[i] \in layout
FlagApis == {"set_auto_chswitch", "set_reassoc_wkhost", "set_dbginfo", "set_dbginfo_output"}
NumArgs(api) ==
    LET k == Cardinality({i \in DOMAIN Cmds[NamedAfter(api)].wire :
                            Cmds[NamedAfter(api)].wire[i] \in Numeric})
    IN  CASE Kind(api, Lists) -> {<<>>, <<7>>, <<3, 100>>}
          [] api \in FlagApis -> {<<0>>, <<1>>}
          [] OTHER -> {[i \in 1..k |-> 0], [i \in 1..k |-> i], [i \in 1..k |-> 100 + i],
                       [i \in 1..k |-> 200 + i]}
ByteArgs(api) ==
    CASE Kind(api, {"mac"}) -> {MacArg}
      [] Kind(api, {"ip"})  -> {IpArg}
      [] Kind(api, {"bytes", "mask16", "mask32", "mask64"}) -> {<<65, 66>>, <<65, 84, 43, 67>>}
      [] OTHER -> {<<>>}
ArgsFor(api) == IF Api[api].verb \in {"open", "close"} THEN {NoArgs}
                ELSE [nums : NumArgs(api), bytes : ByteArgs(api)]

Call(api, args, mode, via) == [api |-> api, args |-> args, mode |-> mode, via |-> via]
Sweep == UNION {{Call(api, a, 0, via) : a \in ArgsFor(api), via \in {"proc", "ioctl"}} : api \in DOMAIN Api}
           \union UNION {{Call(api, a, 3, "proc") : a \in ArgsFor(api)} : api \in DOMAIN HciOcf \union HciDropped}

BwSet(v) == Call("set_bss_bw", Nums(<<v>>), 0, "proc")
BwGet == Call("get_bss_bw", NoArgs, 0, "proc")
Radio(v) == Call("set_radio_onoff", Nums(<<v>>), 0, "proc")
NewMac == Call("set_mac", Bin2(MacArg), 0, "ndo")

Save == Call("save", NoArgs, 0, "ioctl")
Line(i) == <<Call("set_ssid", Bin2(<<65, 66>>), 0, "ioctl"), Call("set_bss_bw", Nums(<<4>>), 0, "ioctl")>>[i]

\* The functions that set and get the same parameter.
Settable == {"set_bss_bw", "set_ssid", "set_wpapsk", "set_keymgmt", "set_mode", "set_rtc", "set_txpower",
             "set_aggcnt", "set_chan_list", "set_freqrange", "set_xosc", "set_ant_sel"}
Gettable == {"get_bss_bw", "get_ssid", "get_wpa_psk", "get_key_mgmt", "get_mode", "get_rtc", "get_txpower",
             "get_aggcnt", "get_chan_list", "get_freq_range", "get_xosc", "get_ant_sel"}

MCPlans ==
    << (c1 :> <<Sweep>> @@ c2 :> <<>> @@ conf :> <<>>),
       (c1 :> <<{cl \in Sweep : cl.api \in Settable}, {cl \in Sweep : cl.api \in Gettable}>>
            @@ c2 :> <<>> @@ conf :> <<>>),
       (c1 :> <<{BwSet(1)}, {BwSet(2), BwGet}>> @@ c2 :> <<{BwSet(3)}, {BwGet}>> @@ conf :> <<>>),
       (c1 :> <<{Radio(0)}, {Radio(1)}>> @@ c2 :> <<{Radio(0), Radio(1)}>> @@ conf :> <<>>),
       (c1 :> <<{BwSet(1)}, {Save, NewMac}>> @@ c2 :> <<>> @@ conf :> <<{Line(1)}, {Line(2)}>>) >>
=============================================================================
