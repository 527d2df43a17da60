SPECIFICATION FairSpec

INVARIANTS
    TypeOK
    SendsWhatWasMeasured
    NothingIsLeftOut
    StopsWhenSwitchedOff

PROPERTIES
    EverySensorHasItsTurn
