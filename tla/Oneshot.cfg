SPECIFICATION FairSpec
INVARIANTS TypeOK OneOwner CellNotShared
PROPERTY BothEnd
