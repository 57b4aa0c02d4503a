CONSTANTS
    Configs <- AllConfigs
    Texts <- RequestTexts
SPECIFICATION ParserSpec
CHECK_DEADLOCK FALSE
INVARIANTS ConfigHonoured RequestUnderstood 
