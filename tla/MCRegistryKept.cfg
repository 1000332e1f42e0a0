CONSTANTS
    r1 = r1
    r2 = r2
    t1 = t1
    t2 = t2
    d1 = d1
    d2 = d2
    NoDigest = NoDigest
    Repos <- TwoRepos
    Tags <- TwoTags
    Digests <- TwoDigests
    NameMatches <- FirstRepo
    TagMatches <- FirstTag
    MaxPushes = 1
SPECIFICATION Spec
CHECK_DEADLOCK FALSE
INVARIANTS
    KeptTagsStay
