SPECIFICATION Spec
CONSTANTS
    a = a
    b = b
    v1 = v1
    Token <- Tokens
    Verifiers <- OneVerifier
    Lifetimes = {1, 2}
    Limits = {0, 1, 2}
    StartTimes = {2}
    MaxTime = 3
INVARIANTS ListedUntilExpired
PROPERTY RevokedRefused
SYMMETRY TokenSymmetry
