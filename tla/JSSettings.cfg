\* Every request of up to three items.
CONSTANTS
    p = p
    q = q
    Null = Null
    Names = {p, q}
    Props = {p, q}
    WindowNames <- MCWindowNames
    Prototype <- MCPrototype
    Collection <- MCCollection
    Requests <- MCRequests
SPECIFICATION Spec
INVARIANT CleanedAsAsked
CHECK_DEADLOCK FALSE
