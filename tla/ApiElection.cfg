CONSTANTS
    n1 = n1
    n2 = n2
    n3 = n3
    h1 = h1
    h2 = h2
    h3 = h3
    p1 = p1
    p2 = p2
    p3 = p3
    Node = {n1, n2}
    Host = {h1, h2, h3}
    Port = {p1, p2, p3}
    AddressOf <- MCAddressOf
    PortOf <- RandomPortOf
    MaxFaults = 1
    Client = {"c1"}
    Asks <- OnlyGetTask
SPECIFICATION RequestsFairSpec
INVARIANTS TypeOK OneRegisteredMaster HandledAsAsked
PROPERTIES NoUsurper ImplementsSuccession DemotedWhenSuperseded Converges AnsweredInTheEnd
CHECK_DEADLOCK FALSE
