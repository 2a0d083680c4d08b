SPECIFICATION Spec
CONSTANTS
    Accounts = {a1, a2, a3}
    Handlers = {h1, h2}
    Target = 2
    InitialBalance = 2
    Initial <- Equal
    Amounts = {1, 2}
    MaxFailures = 0
    MaxSecond = 1
INVARIANTS Conserved
