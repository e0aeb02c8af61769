SPECIFICATION FairSpec
CONSTANTS
    SeqMod = 4
    Window = 3
    PerBlock = 2
    ReceiveWindow = 7
    Queries = {1, 3}
    Retries = 1
    TxCap = 3
    LineCap = 4
    MaxCmds = 4
    MaxReports = 1
    MaxFaults = 1
INVARIANTS TypeOK NeverDiscards NoThirdNak SentTimesExact TimerArmed NoOverflow NotifyLag
PROPERTIES StreamSafe StreamSpec 
CHECK_DEADLOCK FALSE
