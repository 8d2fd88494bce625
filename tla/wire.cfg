SPECIFICATION Spec
CONSTANTS
    Digit = 2
    Str8 = 2
    Str16 = 3
    Scalar = 2
    AddressLen = 1
    Long = 2
    Nil = Nil
    Failed = Failed
    Received <- MCReceived
INVARIANTS ConversionExact RecoversSigner SignedIsExecuted
CHECK_DEADLOCK FALSE
