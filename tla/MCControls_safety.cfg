CONSTANTS
    Messages <- MCMessages
    Unparsable = Unparsable
    MAX_TOKENS = 9

SPECIFICATION Spec

INVARIANTS
    TypeOK

PROPERTIES
    SwitchesAsDocumented
