SPECIFICATION Spec
CONSTANTS
    Users = {u1, u2, u3}
    NoOffer = NoOffer
    MaxTokens = 2
    MaxListings = 4
SYMMETRY Symmetry
INVARIANTS
    TypeOK
    OneActiveListing
    SellerOwnsToken
PROPERTY
    MarketKeepsPromise
CHECK_DEADLOCK FALSE
