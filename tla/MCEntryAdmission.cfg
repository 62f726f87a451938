SPECIFICATION Spec
CONSTANTS
    Books = {b1, b2}
    NewBooks = {b2}
    Entrants = {e1}
    Adopters = {a1}
    Nobody = Nobody
    External = 1
    MaxLate = 1
INVARIANTS TypeOK NothingTwiceOwned NoDeadlock
PROPERTIES DisarmHolds
