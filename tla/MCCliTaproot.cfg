\* The README's new --hd --all --purpose taproot.
SPECIFICATION Spec
CONSTANTS
    Phrase1 = Phrase1
    Phrase2 = Phrase2
    Passphrases <- HdPassphrases
    CoinTypes <- HdCoinTypes
    Key <- MCKey
    Scalar <- MCScalar
    EvenY <- MCEvenY
    Reduce <- MCReduce
    ViewKey <- MCViewKey
    Token <- MCToken
    Phrase <- MCPhrase
    Child <- MCChild
    Template <- TaprootTemplates
    Typed <- KeyTyped
    MaxRuns = 2
    MaxNews = 1
    MaxKills = 0
INVARIANTS TableCompletes
CHECK_DEADLOCK FALSE
