CONSTANTS
    Pages <- MCPages
    Value = {v}
    Empty = Empty
    MaxClicks <- MCMaxClicks
    MaxOpen = 2
    MaxPackets = 1
SPECIFICATION Spec
INVARIANTS TypeOK EndpointKnown SuccessIsTrue OutcomeReported NoDuplicateDisplay DisplayCurrent PanelHonest
PROPERTY CallsReturn
CHECK_DEADLOCK FALSE
