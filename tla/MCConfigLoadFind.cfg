CONSTANTS
    a1 = a1
    a2 = a2
    m0 = m0
    mBad = mBad
    u1 = u1
    uBad = uBad
    Addrs <- MCAddrs
    Metadata <- MCMetadata
    BadMetadata <- MCBadMetadata
    Urls <- MCUrls
    BadUrls <- MCBadUrls
    MaxList <- MCMaxList
    Unix = TRUE
SPECIFICATION Spec


INVARIANT IoErrorOnlyWhenNoneFound
