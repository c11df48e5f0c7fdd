SPECIFICATION Spec
CONSTANTS
    Handlers = {h1, h2}
    Users = {alice, bob}
    MaxRows = 2
SYMMETRY Symmetry
INVARIANTS TypeOK OneRequestWaits AcceptMakesFriends ConversationNeedsFriendship OneConversation
PROPERTIES AnswersAreFinal
CHECK_DEADLOCK FALSE
