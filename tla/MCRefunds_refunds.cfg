CONSTANTS
    deposit = deposit
    balance = balance
    Payments = {deposit, balance}
    Sales <- TwoSales
    Requests = {r1, r2}
    Amounts = {1, 2, 6}
    MaxRecorded = 8
    MaxAborts = 1
SPECIFICATION RefundsSpec
SYMMETRY Symmetry
CHECK_DEADLOCK FALSE
INVARIANTS
    RefundedIsRefunded
    NotBeyondCollected
    StatusTellsRefunds
