CONSTANTS
    N = 3
    Zero = z
    Elements = {z, a}
    Nothing = nothing
SPECIFICATION Spec
INVARIANTS TypeOK
PROPERTIES ImplementsFifo
