----------------------------- MODULE MCUpgrade ------------------------------
(* Upgrade with files that are right, damaged, cut off, or another chip's.  *)
EXTENDS Upgrade, TLC

CONSTANTS s1, s2

File(chip, crc, flashlen, size) ==
    [boot |-> TRUE, code |-> TRUE, spi |-> TRUE, sdk |-> 258, svn |-> 7, chip |-> chip, cpu |-> 0,
     off |-> 1, crc |-> crc, crclen |-> 3, flashlen |-> flashlen, size |-> size]
MCFiles == "good" :> File(1, "plain", 3, 4) @@ "damaged" :> File(1, "bad", 3, 4)
             @@ "cut" :> File(1, "plain", 3, 3) @@ "other" :> File(2, "inverted", 3, 4)
             @@ "text" :> [File(1, "plain", 3, 4) EXCEPT !.boot = FALSE]
             @@ "old" :> [File(1, "plain", 3, 4) EXCEPT !.svn = 6]
MCImages == [name \in {"good", "cut", "old"} |-> MCFiles[name]]
              @@ "short" :> [File(1, "plain", 1, 2) EXCEPT !.crclen = 1]
Line(cmd, to, img) == [cmd |-> cmd, to |-> to, img |-> img]
MCInvocations ==
    << {Line("OTA", s1, "good"), Line("LDDEF", s1, "good"), Line("REBOOT", s1, "good"),
        Line("OTA", s1, "old"), Line("OTA", s1, "cut")},
       {Line(cmd, s1, "good") : cmd \in {"SCAN", "GETCFG"}}
          \union {Line("OTA", s1, "good"), Line("OTA", s2, "short")} >>
MCSaved == {{s1, s2}}
MCOwnFw == [version |-> 514, chip |-> 1, cpu |-> 0]
MCSvn == s1 :> 6 @@ s2 :> 6
=============================================================================
