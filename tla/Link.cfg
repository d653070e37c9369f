SPECIFICATION FairLinkSpec
CONSTANTS
    Connections = {"c1", "c2"}
    Transactions = 2
    Kinds = {"known", "unknown"}
INVARIANTS
    LinkTypeOK
PROPERTIES
    LinkIsLine
    ServedAgain
