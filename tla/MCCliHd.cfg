\* HD commands: a table from a minted or supplied phrase, killed anywhere, then one of the
\* secrets or phrases it printed typed back.
SPECIFICATION Spec
CONSTANTS
    Phrase1 = Phrase1
    Phrase2 = Phrase2
    Passphrases <- HdPassphrases
    CoinTypes <- HdCoinTypes
    Key <- MCKey
    Scalar <- MCScalar
    EvenY <- MCEvenY
    Reduce <- MCReduce
    ViewKey <- MCViewKey
    Token <- MCToken
    Phrase <- MCPhrase
    Child <- MCChild
    Template <- HdTemplates
    Typed <- HdTyped
    MaxRuns = 2
    MaxNews = 1
    MaxKills = 1
INVARIANTS RestoreAgrees PhraseShownFirst RowsAreChildren PhraseRestoresTable NativeTableCompletes
CHECK_DEADLOCK FALSE
