SPECIFICATION Spec
CONSTANTS
    Name = {1, 2, 3}
    Base = {"shared", "other"}
    BaseOf <- MCBaseOf
    Manifest <- MCManifest
    Pdf <- MCPdf
    HandMade = {1}
    Rulings <- MCRulings
    Links <- MCLinks
    MaxEditions = 2
    MaxInFlight = 2
INVARIANTS
    TypeOK
    ExternalIsUndescribed
    NobodyCitesItself
    SupersessionIsAChain
PROPERTIES
    FreshSlugsAreGood
    ReferenceStatusAccumulates
    CitersFollowTheMerge
