CONSTANTS
    Names <- MCNames
    SlotFilters <- MCSlotFilters

SPECIFICATION Spec

INVARIANTS
    TypeOK
    DeliveredByLevels
