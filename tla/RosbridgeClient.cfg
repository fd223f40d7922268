CONSTANTS
    MaxConns = 2
    MaxDialFailures = 1
    Twists = {0, 1}
    Zero = 0
SPECIFICATION Spec
INVARIANTS
    TypeOK
    CurrentSocketHasReader
PROPERTIES
    LinkRecovers
    LinkRefined
