CONSTANTS
    Key <- MCKey
    SlotOf <- MCSlotOf
    RawSlotOf <- MCSlotOf
    Prefix = FALSE
    MaxArgs = 2
SPECIFICATION Spec
INVARIANTS SlotsVerified
