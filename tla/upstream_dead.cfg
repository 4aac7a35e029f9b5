SPECIFICATION Spec
CONSTANTS
    N = 2
    Sessions = {"finder"}
    Threshold = 2
    MaxTip = 1
    MaxOutages = 1
PROPERTIES
    ReturnsWhenAlive
