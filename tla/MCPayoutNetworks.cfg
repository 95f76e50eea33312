\* The testnet addresses of SegWit, Taproot and Kaspa rows.
SPECIFICATION Spec
CONSTANTS
    k1 = k1
    k2 = k2
    Key <- MCKey
    Scalar <- MCKey
    EvenY <- MCId
    Reduce <- MCId
    ViewKey <- MCId
    Token <- MCToken
    Phrase <- MCPhrase
    Child <- MCChild
    Hash160 <- MCHash160
    MaxEdits = 0
INVARIANTS EveryNetworkDetected
CHECK_DEADLOCK FALSE
