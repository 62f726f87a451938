SPECIFICATION Spec
CONSTANTS
    Keys = {k1}
    APIs = {a1, a2}
    PaperBooks = {b1}
    LiveBooks = {b2}
    NewBooks = {b2}
    Actions = {"disarm", "managed_stop"}
    Scopes = {{"live", "paper"}}
    Choices = {{b1}, {b1, b2}}
    Nobody = Nobody
    MaxSaves = 1
    MaxDrops = 1
INVARIANTS TypeOK EffectsReceipted ReceiptsHonest AcceptedWhileGuarded
PROPERTIES FinalIsFinal
