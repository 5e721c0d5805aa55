SPECIFICATION FairSpec
CONSTANTS
    eth = eth
    wifi = wifi
    empty = empty
    text = text
    none = none
    Sizes = {1, 2}
    Rules = {empty, text}
    NoRules = empty
    Interfaces <- MCInterfaces
    NoInterface = none
    Defaults <- MCDefaults
    Installed <- MCDisabled
    MaxClicks = 0
    MaxRestarts = 0
    MaxUnderWay = 2
INVARIANTS OnlyByUser
