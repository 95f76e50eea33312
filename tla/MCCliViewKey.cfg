\* restore of a CryptoNote spend key.
SPECIFICATION Spec
CONSTANTS
    Phrase1 = Phrase1
    Phrase2 = Phrase2
    Passphrases <- HdPassphrases
    CoinTypes <- HdCoinTypes
    Key <- MCKey
    Scalar <- MCScalar
    EvenY <- MCEvenY
    Reduce <- MCReduce
    ViewKey <- MCViewKey
    Token <- MCToken
    Phrase <- MCPhrase
    Child <- MCChild
    Template <- ViewingRestores
    Typed <- KeyTyped
    MaxRuns = 2
    MaxNews = 1
    MaxKills = 0
INVARIANTS RestorePrintsNoSecret
CHECK_DEADLOCK FALSE
