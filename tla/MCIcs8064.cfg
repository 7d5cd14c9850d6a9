SPECIFICATION Spec
CONSTANTS
    alice = alice  bob = bob
    Proc <- MCProc
    List <- MCList
SYMMETRY Symmetry
INVARIANTS
    RadioBound
    ExitIsTrue
