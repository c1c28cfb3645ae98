\* A file is put back after a search and a build that ended early.
SPECIFICATION Spec
CONSTANTS
    None = None
    imgA = imgA
    imgB = imgB
    listA = listA
    listB = listB
    im = im
    fu = fu
    Images = {imgA, imgB}
    Listings = {listA, listB}
    ListingOf <- Aid
    Plain <- Cheap
    Order <- Csv
    Clients = {c}
    Queries <- OneQuery
    Worlds <- BrokenBuilds
    Shortlist = 2
    BatchSize = 1
    MaxBuilds = 2
    MaxChanges = 1
INVARIANTS
    SomePromiseKept
