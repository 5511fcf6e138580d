CONSTANTS
    c1 = c1
    c2 = c2
    a1 = a1
    a2 = a2
    a3 = a3
    Contracts <- MCContracts
    Accounts <- MCAccounts
    Unpayable = {a3}
    NoAccount = NoAccount
    Prices = {0, 2, 5}
    PriceModulus = 4
    Funds = 2
SPECIFICATION Spec
INVARIANTS TypeOK Backed
PROPERTIES VerdictFinal PaysOnlyOnCompletion GainsOnlyTheDebt ImplementsEscrow
