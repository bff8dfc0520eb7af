CONSTANTS
    c1 = c1 c2 = c2 t1 = t1 t2 = t2 d1 = d1 scrubbed = scrubbed
    Candidates = {c1, c2}
    Transactions = {t1, t2}
    Idle = Idle
    NoHash = NoHash
    Hash <- HashOf
    Details = {d1, scrubbed}
    Scrubbed = scrubbed
    MaxRows = 5
SPECIFICATION Spec
INVARIANT TypeOK
INVARIANT SerialHistoryVerifies
INVARIANT RowsHashToTheirOwn
INVARIANT NoNumberMissing
SYMMETRY Symmetry
