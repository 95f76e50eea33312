\* new and then restore of what it printed, for an Ethereum coin.
SPECIFICATION Spec
CONSTANTS
    Phrase1 = Phrase1
    Phrase2 = Phrase2
    Passphrases <- HdPassphrases
    CoinTypes <- HdCoinTypes
    Key <- MCKey
    Scalar <- MCScalar
    EvenY <- MCEvenY
    Reduce <- MCReduce
    ViewKey <- MCViewKey
    Token <- MCToken
    Phrase <- MCPhrase
    Child <- MCChild
    Template <- EthTemplates
    Typed <- KeyTyped
    MaxRuns = 2
    MaxNews = 1
    MaxKills = 0
INVARIANTS EverySecretReadBack
CHECK_DEADLOCK FALSE
