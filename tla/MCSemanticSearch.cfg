\* Two builds, one change that may be put back, a search, batches of one image.
SPECIFICATION FairSpec
CONSTANTS
    None = None
    imgA = imgA
    imgB = imgB
    listA = listA
    listB = listB
    im = im
    fu = fu
    Images = {imgA, imgB}
    Listings = {listA, listB}
    ListingOf <- Aid
    Plain <- Cheap
    Order <- Csv
    Clients = {c}
    Queries <- SomeQueries
    Worlds <- SomeWorlds
    Shortlist = 2
    BatchSize = 1
    MaxBuilds = 2
    MaxChanges = 1
INVARIANTS
    TypeOK
    ReuseIsRight
    RankedByOwnVector
    ScoreOfFile
    RowsAreWanted
PROPERTIES
    RetryIsAnswered
