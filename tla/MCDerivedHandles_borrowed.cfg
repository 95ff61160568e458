SPECIFICATION Spec
CONSTANTS
    references = references
    loop = loop
    config = config
    setting = setting
    reference = reference
    resolved = resolved
    target = target
    rebase = rebase
    merge = merge
    repository = repository
    commit = commit
    author = author
    Parents <- Answering
    Structures <- Options
    Children <- Answers
    ParentOf <- AnswerOf
    Own <- Commits
    Backed <- Commits
    Embedded <- Inside
    Freeing <- Commits
    Disowned <- None
    Lazy <- Answers
    Keeping <- None
    Mutable <- None
    Deletable <- None
INVARIANTS
    HeldHandleIsAlive
CHECK_DEADLOCK FALSE
