SPECIFICATION Spec
CONSTANTS
    Mounts = {m1, m2}
    Trees = {r1, r2, r3}
    Tables = {b1, b2, b3}
    NULL = NULL
    MaxId = 5
SYMMETRY Symmetry
CHECK_DEADLOCK FALSE
INVARIANT UniqueIds
INVARIANT CountExact
INVARIANT TableServesMountsInTurn
INVARIANT StructureServesSoleMount
INVARIANT SharedDataOwned
INVARIANT IInv
