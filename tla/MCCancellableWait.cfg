CONSTANTS
    Tasks = {t1}
    Notifiers = {n1}
    Cancellers = {c1, c2}
    Null = Null
    Fresh = {f1}
    Severities = {1, 3}
    Calls <- AllCalls
    Sticky = {t1}
SPECIFICATION FairSpec
INVARIANTS
    OneTicket
    DeliveryFits
    NoMissedCancel
    QueueMatchesWaits
PROPERTIES
    CancelEndsWait
