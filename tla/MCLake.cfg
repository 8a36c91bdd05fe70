CONSTANTS
    Days = {1, 2}
    Card = Card
    Promo = Promo
    Box = Box
    Tin = Tin
    Normal = Normal
    Foil = Foil
    Products = {Card, Promo, Box, Tin}
    Subs = {Normal, Foil}
    Bodies <- MCBodies
    Builders = {b1, b2}
    NoPrice = NoPrice
    MaxLandings = 2
    MaxDerives = 2
    MaxHead = 4
SYMMETRY Symmetry
SPECIFICATION LakeSpec
CHECK_DEADLOCK FALSE
INVARIANTS
    SplitsAreReported
    VerifyAgrees
    AsOfAgrees
PROPERTIES
    ImplementsTables
