CONSTANTS
    v1 = v1
    zero = zero
    p1 = p1
    p2 = p2
    p3 = p3
    Values <- MCValues
    Zero = zero
    ValidatorReports <- MCReports
    ValidatorCauses <- MCCauses
    ChainLen = 1
    Par <- PairPar
SPECIFICATION Spec
INVARIANT LiveFailureFaults
