\* restore --mnemonic with the phrase left out.
SPECIFICATION Spec
CONSTANTS
    Phrase1 = Phrase1
    Phrase2 = Phrase2
    Passphrases <- HdPassphrases
    CoinTypes <- HdCoinTypes
    Key <- MCKey
    Scalar <- MCScalar
    EvenY <- MCEvenY
    Reduce <- MCReduce
    ViewKey <- MCViewKey
    Token <- MCToken
    Phrase <- MCPhrase
    Child <- MCChild
    Template <- MintingRestores
    Typed <- KeyTyped
    MaxRuns = 2
    MaxNews = 1
    MaxKills = 0
INVARIANTS RestoreInventsNothing
CHECK_DEADLOCK FALSE
