CONSTANTS
    Keys = {"k"}
    Types = {"a", "b"}
    Texts = {"t1", "t2"}
    Values = {"v1", "v2", "v3"}
    Encode <- MCEncode
    GuardReports <- MCGuardReports
    CheckReports <- MCCheckReports
    SchemaReports <- MCSchemaReports
    Configs <- MCConfigs
SPECIFICATION Spec
INVARIANTS ApprovedBytes ErrorMatchesDecision MergedScopeSuffices
PROPERTY CancellationOutranksCorrection
