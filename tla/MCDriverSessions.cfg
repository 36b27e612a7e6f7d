SPECIFICATION Spec
CONSTANTS
    OnlineAt <- MCOnlineAt
    Lookback = 1
    MaxClock = 3
PROPERTIES
    SessionsAreComplete
