CONSTANTS
    MaxConns = 2
    MaxDialFailures = 1
    Twists = {0, 1}
    Zero = 0
SPECIFICATION Spec
INVARIANT
    SinglePublisher
