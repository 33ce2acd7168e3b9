CONSTANTS
    Handler = {h1, h2}
    ChargeKey = {c1}
    RefundKey = {r1}
    Binding = {b1}
    Amount <- OneAmount
    None = None
    MaxFault = 1
SPECIFICATION FairSpec
PROPERTIES
    VisibleMoneyIsConfirmed
