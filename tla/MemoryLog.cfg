CONSTANTS
    Settings <- MCSettings
    StatusFiles <- MCStatusFiles
    Statistics <- MCStatistics
    Failed <- MCFailed
SPECIFICATION LogSpec
CHECK_DEADLOCK FALSE

    
PROPERTIES
    LoggingGoesOn
