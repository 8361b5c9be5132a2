CONSTANTS
    v1 = v1
    zero = zero
    Values <- MCValues
    Zero = zero
    ValidatorReports <- MCReports
    ValidatorCauses <- MCCauses
    ChainLen = 1
    Par <- MCPar
SPECIFICATION DeliverySpec
INVARIANTS
    OnlyEligibleDelivered
    FallbackOnlyAfterStop
PROPERTIES
    FallsBackOnce
    PromiseKept
