CONSTANTS
    v1 = v1
    zero = zero
    p1 = p1
    p2 = p2
    p3 = p3
    Values <- LiveValues
    Zero = zero
    ValidatorReports <- LiveReports
    ValidatorCauses <- LiveCauses
    ChainLen = 1
    Par <- PairPar
SPECIFICATION FairSpec
PROPERTY Termination
