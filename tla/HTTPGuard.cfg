CONSTANTS
    Guards = 3
    ReportLists <- MCReportLists
SPECIFICATION Spec
INVARIANT BodiesClosedOnce
PROPERTIES HandedOnSafely StatusBlamesCaller
