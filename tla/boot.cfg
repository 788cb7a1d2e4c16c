SPECIFICATION FairSpec
CONSTANTS
    Modules <- MCModules
    Monitored <- MCMonitored
    Crashers <- MCCrashers
INVARIANTS
    BootTypeOK
    NobodyStuck
PROPERTIES
    BootCompletes
    StackFalls
CHECK_DEADLOCK FALSE
