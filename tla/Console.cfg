SPECIFICATION ConsoleSpec
CONSTANTS
    Item = {"flag"}
    Scoped = FALSE
    Fallbacks = {"none"}
    MaxCommits = 2
    MaxFaults = 1
    Browser = {b1}
    BufferSize = 1
    BindAddr = "bound"
    AllowedHosts = {}
    AllowedOrigins = {"listed"}
CHECK_DEADLOCK FALSE
INVARIANTS
    NoSendOnClosedChannel
PROPERTIES
    BrowsersDoNotStallTheWatch
    SignalEndsTheProcess
