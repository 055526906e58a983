\* Two clients, one of three commands and one that only connects; two items.
CONSTANTS
    c1 = c1
    c2 = c2
    Clients <- MCClients
    Cost <- MCCost
    MaxCommands <- MCMaxCommands
    MaxSold = 4
SPECIFICATION Spec
INVARIANTS
    BillIsRight
    NoPhantomSale
PROPERTIES
    RepliesInStep
    RequestsReturn
    ChildrenEnd
\* Every process ends, or waits for a user or a client.
CHECK_DEADLOCK FALSE
