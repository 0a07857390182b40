CONSTANTS
    Advisories = {ghsa1, ghsa2}
    DaysIn <- Year
    Ledgers <- MCLedgers
    Reports <- MCReports
    Absent = Absent
    Unreadable = Unreadable
    Unlisted = Unlisted
    Statuses = {0, 1, 2}
    Malformed = Malformed
    Invalid = Invalid
    ghsa1 = ghsa1
    ghsa2 = ghsa2
SPECIFICATION Spec
INVARIANTS TypeOK VerdictJustified
PROPERTIES LapsedStaysFailed
