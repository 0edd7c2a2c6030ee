SPECIFICATION Spec
CONSTANTS
    Width = 16
    ElementIds = {11, 32}
    AttributeIds = {31, 155}
    SignedInputs <- MCSigned
    UnsignedInputs <- MCUnsigned
    SpaceInputs = {0}
    SpecialInputs = {3}
    StringInputs <- MCStrings
    None = None
    MaxItems = 7
    MaxAttributes = 2
PROPERTY
    CloseSkipsUnread
CHECK_DEADLOCK FALSE
