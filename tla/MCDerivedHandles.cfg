SPECIFICATION FairSpec
CONSTANTS
    references = references
    loop = loop
    config = config
    setting = setting
    reference = reference
    resolved = resolved
    target = target
    rebase = rebase
    merge = merge
    repository = repository
    commit = commit
    author = author
    Parents <- SeveralParents
    Structures <- None
    Children <- SeveralChildren
    ParentOf <- SeveralParentOf
    Own <- Duplicated
    Backed <- None
    Embedded <- Vals
    Freeing <- Freed
    Disowned <- Moved
    Lazy <- Used
    Keeping <- Inner
    Mutable <- Replacing
    Deletable <- Deleting
INVARIANTS
    DerivedInvariant
    DisciplinedHandleIsAlive
PROPERTIES
    ImplementsResource
    GarbageIsReleased
CHECK_DEADLOCK FALSE
