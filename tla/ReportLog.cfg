CONSTANTS
    Samples <- MCSamples
    MaxReports = 2
SPECIFICATION Spec
CHECK_DEADLOCK FALSE
INVARIANTS
    OrderIndependent
    NestingTransparent
    ProjectionFaithful
    FaultsOutrankShadow
PROPERTY EscalationOnly
