CONSTANTS
    a1 = a1
    a2 = a2
    u1 = u1
    u2 = u2
    d1 = d1
    d2 = d2
    t1 = t1
    t2 = t2
    c1 = c1
    c2 = c2
    k1 = k1
    k2 = k2
    None = None
    NoAuth = NoAuth
    NoToken = NoToken
    Claims <- MCClaims
    CTypes <- MCCTypes
    KnownCTypes <- MCKnownCTypes
    Attesters <- MCAttesters
    Accounts <- MCAccounts
    AuthIds <- MCAuthIds
    Tokens <- MCTokens
    Rates <- MCRates
    GenesisBalance <- MCGenesisBalance
    AuthIdOf <- MCAuthIdOf
    CanAttest <- MCCanAttest
    CanRevoke <- MCCanRevoke
    CanRemove <- MCCanRemove
    Genesis <- MCGenesis
    MaxDelegatedVerifications = 1
SPECIFICATION Spec
INVARIANT
    DelegatedBound
