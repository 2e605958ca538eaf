SPECIFICATION Spec
CONSTANTS
    OptionSets <- AllOptions
    PathPrefixes <- SomePrefixes
    Requests <- AllRequests
INVARIANTS AllowIsExact OnlyEnabled SessionIDParses PreflightHonoured
