CONSTANTS
    c1 = "c1"
    c2 = "c2"
    conf = "conf"
    Clients = {"c1", "c2", "conf"}
    Conf = "conf"
    Plans <- MCPlans
    MaxFaults = 2
    MaxResets = 1
    IfIdx = 1
    CharSigned = TRUE
    OutSize = 16
SPECIFICATION CfgSpec
INVARIANTS FailureVisible RoundTrip EffectAsNamed LastSuccessWins MirrorsAgree ConfApplied
