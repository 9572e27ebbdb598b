\* Every handler on well-formed, out-of-range and rejected bodies, a switch catalog with a gap in its ids; the CS2 confirms each datagram.
CONSTANTS
    Articles <- GapArticles
    NumSwitches = 3
    Lower <- MCLower
    IsNumeral <- MCIsNumeral
    NumeralOf <- MCNumeralOf
    Bodies <- AllBodies
    MaxReq = 3
SPECIFICATION Spec
INVARIANTS TypeOK 
CHECK_DEADLOCK FALSE
