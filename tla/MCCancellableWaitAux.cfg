CONSTANTS
    Tasks = {t1}
    Notifiers = {n1}
    Cancellers = {c1}
    Null = Null
    Fresh = {f1}
    Severities = {1, 3}
    Calls <- AllCalls
    Sticky = {}
SPECIFICATION Spec
PROPERTIES
    AuxReadForArm
