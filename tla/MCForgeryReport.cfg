CONSTANTS
    alice = alice
    bob = bob
    h1 = h1
    h2 = h2
    h3 = h3
    Link <- MCLink
    Hash <- MCHash
    src_links <- MCSrcLinks
    dest_links <- MCDestLinks
    max_forgery_set = 2
    first_no <- MCFirstNo
    MaxTroubles = 2
    NoContext = NoContext
    NoFile = NoFile
    NoNumber = NoNumber
SPECIFICATION Spec
INVARIANTS
    PaperworkFits
PROPERTIES
    Explained
CHECK_DEADLOCK FALSE
