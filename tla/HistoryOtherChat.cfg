CONSTANTS
    a = a
    b = b
    r1 = r1
    None = None
    Chat <- Chats
    Reader <- Readers
    Rechecks = 2
    MaxVisit = 2
    MaxMutation = 1
    MaxRequest = 2

SPECIFICATION Spec

PROPERTY OtherChatsUntouched

CHECK_DEADLOCK FALSE
