SPECIFICATION FairSpec
CONSTANTS
    MaxSends = 3
INVARIANT ChannelsClosedOnce
CHECK_DEADLOCK FALSE
PROPERTIES ImplementsOutbox GonePeerEndsSession CloseEndsConnection GoroutinesEnd
