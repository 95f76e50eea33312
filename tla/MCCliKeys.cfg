\* Single-key commands: two runs, the second given anything the first one printed.
SPECIFICATION FairSpec
CONSTANTS
    Phrase1 = Phrase1
    Phrase2 = Phrase2
    Passphrases = {}
    CoinTypes = {}
    Key <- MCKey
    Scalar <- MCScalar
    EvenY <- MCEvenY
    Reduce <- MCReduce
    ViewKey <- MCViewKey
    Token <- MCToken
    Phrase <- MCPhrase
    Child <- MCChild
    Template <- KeyTemplates
    Typed <- KeyTyped
    MaxRuns = 2
    MaxNews = 1
    MaxKills = 0
INVARIANTS TypeOK RestoreAgrees WifAndHexReadBack AddressComesWithItsKey TestnetIsNotMainnet
PROPERTIES RunEnds
CHECK_DEADLOCK FALSE
