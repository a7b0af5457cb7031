SPECIFICATION Spec
CONSTANTS
    Ids = {1}
    Credentials = {a}
    NoCredential = NoCredential
    SessionTokens = {s}
    Passwords = {p, q}
    DefaultPassword = p
    MaxTokens = 2
INVARIANTS
    TypeOK
    PromiseKept
