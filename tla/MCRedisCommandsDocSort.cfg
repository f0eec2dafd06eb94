CONSTANTS
    Key <- MCKey
    SlotOf <- MCSlotOfNotZero
    RawSlotOf <- MCRawSlotOfNotZero
    Prefix = TRUE
    MaxArgs = 2
SPECIFICATION Spec
INVARIANTS SlotsVerified
