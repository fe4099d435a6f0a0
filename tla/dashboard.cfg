SPECIFICATION Spec
CONSTANTS
    Requests = {r1, r2, r3}
    FirstKey = k0
    FirstSecret = s0
    Businesses = {b1, b2}
    Wallets = {w1, w2}
    Owner = b1
    None = None
SYMMETRY Symmetry
INVARIANTS RevokedIsRefused ReplacementRetires ActsForOwnBusiness SecretIsFresh
PROPERTY RetiredSecretsStayRetired
CHECK_DEADLOCK FALSE
