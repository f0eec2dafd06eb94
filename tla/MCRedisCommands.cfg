CONSTANTS
    Key <- MCKey
    SlotOf <- MCSlotOf
    RawSlotOf <- MCRawSlotOf
    Prefix = TRUE
    MaxArgs = 2
SPECIFICATION Spec
INVARIANTS WellFramed KeysCounted RoutedTogether
