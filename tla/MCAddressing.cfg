SPECIFICATION Spec
CONSTANTS
    a = a
    client = client
    m1 = m1
    m2 = m2
    m3 = m3
    Messages <- MCMessages
    Dests <- MCDests
    Client = client
    Definitions <- MCDefinitions
    NoDefinition = NoDefinition
    MaxUpdates = 2
INVARIANTS DraftFollowsFilters
PROPERTIES MessagesFollowFilters
