SPECIFICATION FairSpec
CONSTANTS
    Ifaces = {wlan0, p2p0}
    Main = wlan0
    Clients = {{"MIRACAST", "p2p_use_mcc", "transparent", "link", "iface"},
               {"mcc", "COUNTRY", "start", "stop", "link", "iface"},
               {"MTK-ACS", "transparent"},
               {"rxfilter"}, {"hotspot"}, {"p2p_ps"},
               {"GET_STA_STATISTICS"}}
    Peers = {dev1, dev2}
    InterfaceIds = {1, 2}
    Fields = {rssi}
    LineLengths <- Lines
    Buffers = {0, 5, 6}
    MaxQueries = 2
    WordSize = 16777216
    Filters = {0, 255, 256, 16776704}
    Stations = {sta1, sta2}
    CtWindows = {0, 10, 127, 200}
    NoaValues = {3, 100}
    Freqs = {2484, 5180, 5720}
    ConfClasses = {0, 115}
    ConfChannels = {0, 40}
    Countries = {DE, JP}
    AcsChannels = {1, 14}
    DrvErrors = 1
    MaxStreak = 4
INVARIANTS
    SinkInStep
    ErrorsSequential
    ConcurrencyUniform
    DriverAsTold
    AcsSound
    AnsweredInForce
    AsksForTransmitter
    AnswerSound
PROPERTIES
    AcsReturns
