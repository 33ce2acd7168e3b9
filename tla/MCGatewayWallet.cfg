CONSTANTS
    Handler = {h1, h2}
    ChargeKey = {c1}
    RefundKey = {r1, r2}
    Binding = {b1, b2}
    Amount <- OneAmount
    None = None
    MaxFault = 1
SPECIFICATION Spec
SYMMETRY Symmetry
INVARIANTS TypeOK OneAdjustmentPerKey RefundsWithinCharge AnswersStayTrue RefundsToPayer
