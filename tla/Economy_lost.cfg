SPECIFICATION WalletsSpec
CONSTANTS
    u1 = u1
    u2 = u2
    u3 = u3
    n1 = n1
    n2 = n2
    s1 = s1
    s2 = s2
    Player = {u1, u2, u3}
    Country = {n1, n2}
    NoCountry = NoCountry
    Session = {s1, s2}
    Kinds = {"buy", "sell", "withdraw"}
    Founder <- MCFounder
    StartHome <- MCStartHome
    CountryId <- MCCountryId
    Rates = {1, 2}
    Fine = 2
    Coarse = 4
    Stake = 21
    StartCash = 24
    StartVault <- MCStartVault
    MaxOperations = 3
    MaxWars = 2
SYMMETRY MCSessions
INVARIANTS
    CashMatchesBooks
CHECK_DEADLOCK FALSE
