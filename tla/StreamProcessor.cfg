CONSTANTS
    Formats = {"whole", "whole_json", "newline", "json", "partial"}
    Alphabet <- MCAlphabet
    MaxChunk = 2
    MaxInput = 7
    MaxPending <- MCMaxPending
    MaxUnit = 6
    MaxOutput = 4
    OutputSizes = {2, 7}
    Candidates <- MCCandidates
    MaxParts = 2
    MaxText = 3
SPECIFICATION MCSpec
INVARIANTS FramingCanonical FramingComplete NothingLost BudgetsHold
    LifecycleGoverns RouteTellsOutcome
PROPERTIES OutcomeSticky CallsReturn
