------------------------------- MODULE Upgrade ------------------------------
(***************************************************************************)
(* The two ways a module gets a new firmware: through the driver of its    *)
(* host (/proc/hgicf/ota) and over the air, by the tool hgota.  Both read  *)
(* the same files, each with its own copy of the firmware parser.  A       *)
(* behaviour takes one way; the module writes one upgrade at a time.       *)
(***************************************************************************)
EXTENDS DriverOta, HgOta

VARIABLE way

UpInit == way \in {"driver", "air"} /\ OtaInit /\ HgInit
ByDriver == UNCHANGED <<way, airvars>>
ByAir == UNCHANGED <<way, otavars>>
UpNext == \/ way = "driver" /\ OtaNext /\ ByDriver
          \/ way = "air" /\ HgNext /\ ByAir

upvars == <<way, otavars, airvars>>

\* The tools and the stations run on; who invokes a tool owes nothing.  That
\* some of them moves is enough, it need not be the one that waits.
UpFairness == WF_upvars(/\ way = "air"
                        /\ (\E p \in Tools : ToolStep(p)) \/ (\E s \in Stations : StaAnswer(s))
                        /\ ByAir)
UpSpec == UpInit /\ [][UpNext]_upvars /\ UpFairness
=============================================================================
