\* One thread loads configurations while two others fetch loggers, log and dump the manager.
SPECIFICATION FairSpec
CONSTANTS
    Loaders = {loader}
    Keys = {"logs", "Logs"}
    LowerKeys = {"logs"}
    Texts <- MCTexts
    FromStr <- MCFromStr
    DefaultVal <- MCDefault
    YamlDocs <- MCYamlDocs
    DefaultPattern <- MCDefaultPattern
    Listeners = {1, 2}
    Static = {1}
    Initer = 1
    MaxLoads = 2
    Users = {user}
    Dumpers = {dumper}
    Names = {1}
    MsgLevels = {2}
    MaxCalls = 2
    None = None
    PatternChars = {"%", "m", "d", "q", "{", "}", "-"}
    MaxPattern = 5
INVARIANTS ConfigApplied PatternsParse RoundTrip
PROPERTIES NothingDropped CallsReturn
CHECK_DEADLOCK FALSE
