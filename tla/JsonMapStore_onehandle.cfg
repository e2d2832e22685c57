\* Three requests of one Server on one document; no symmetry, liveness is checked.
CONSTANTS
    Keys = {k1, k2}
    Vals = {alice}
    Absent = Absent
    Ok = Ok
    Failed = Failed
    Procs = {r1, r2, r3}
    Handles = {h1}
    HandleOf <- MCOneHandle
    Nobody = Nobody
    h1 = h1
    h2 = h2
    operator = operator
SPECIFICATION FairSpec
INVARIANT TypeOK
PROPERTY ReadModifyWriteIsAtomic
PROPERTY ImplementsAtomicMap
PROPERTY CallsAreAnswered
