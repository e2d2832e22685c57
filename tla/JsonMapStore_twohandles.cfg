\* A request of the Server and an operator's command, each with its own handle.
CONSTANTS
    Keys = {k1, k2}
    Vals = {alice}
    Absent = Absent
    Ok = Ok
    Failed = Failed
    Procs = {r1, operator}
    Handles = {h1, h2}
    HandleOf <- MCTwoHandles
    Nobody = Nobody
    h1 = h1
    h2 = h2
    operator = operator
SPECIFICATION Spec
PROPERTY ReadModifyWriteIsAtomic
