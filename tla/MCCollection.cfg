\* Two copies, two decks and a binder; one handler ends half way.
CONSTANTS
    Copies = {c1, c2}
    Binders = {b1}
    Decks = {d1, d2}
    Groups = {g1}
    Orders = {o1}
    Tickets = {t1}
    Statuses = {"ordered", "owned"}
    None = None
    MaxLog = 4
    MaxInterrupts = 1
SPECIFICATION Spec
SYMMETRY Symmetry
CHECK_DEADLOCK FALSE
INVARIANTS
    StatusTrail
    PlaceTrail
    OneCopyPerTicket
PROPERTIES
    DecksCanGo
