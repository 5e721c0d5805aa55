SPECIFICATION FairSpec
CONSTANTS
    eth = eth
    wifi = wifi
    empty = empty
    text = text
    none = none
    Sizes = {1, 2}
    Rules = {empty, text}
    NoRules = empty
    Interfaces <- MCInterfaces
    NoInterface = none
    Defaults <- MCDefaults
    Installed <- MCInstalled
    MaxClicks = 1
    MaxRestarts = 2
    MaxUnderWay = 3
INVARIANTS TypeOK PurgeIsSafe
PROPERTIES  Settles HistoryIsShown SessionsArePurged
