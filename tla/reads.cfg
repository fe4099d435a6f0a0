SPECIFICATION Spec
CONSTANTS
    RowIds = {1, 2, 3, 4}
    Times = {1, 2}
    Limits = {1, 2}
    Statuses = {pending, failed}
    Malformed = Malformed
    Integrals = {0, 10}
    Digits = {0, 1, 9}
    MaxPlaces = 3
    Precision = 2
    EncryptionKeys = {key1, key2}
    Tolerance = 1
    MaxTime = 4
    MaxSecrets = 3
    Calls = {c1, c2}
    ApiKeys = {k1, k2}
    Businesses = {b1}
    Addresses = {a1}
    Limit = 1
    Window = 2
SYMMETRY Symmetry
INVARIANTS PagesAreComplete AmountsAgree VerdictIsEarned ReceivedVerifies ErrorContract
PROPERTY BudgetsAreSeparate
CHECK_DEADLOCK FALSE
