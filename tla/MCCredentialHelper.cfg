SPECIFICATION Spec
CONSTANTS
    alice = alice
    bob = bob
    secret = secret
    token = token
    store = store
    Null = Null
    Empty = Empty
    Absent = Absent
    Users <- Accounts
    Passwords <- Keys
    Helpers <- Programs
    Configurations <- Mixes
    Outputs <- Writes
    MaxCommands = 3
INVARIANTS
    CredentialInvariant
    KnownUserIsTold
    PasswordOfKnownUser
PROPERTIES
    AnswerIsFirstComplete
