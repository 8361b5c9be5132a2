CONSTANTS
    Namespaces = {"pii", "PII", "word-list"}
    Normalized <- MCNormalized
    Workers = {"w1", "w2"}
    Jobs <- MCJobs
    Findings <- MCFindings
SPECIFICATION MCSpec
INVARIANTS RedactedOrUntouched EvidenceComposed
PROPERTY KeepsVaultPromise
