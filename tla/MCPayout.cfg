\* Every coin and eight custom tokens, three edits.
SPECIFICATION Spec
CONSTANTS
    k1 = k1
    k2 = k2
    Key <- MCKey
    Scalar <- MCKey
    EvenY <- MCId
    Reduce <- MCId
    ViewKey <- MCId
    Token <- MCToken
    Phrase <- MCPhrase
    Child <- MCChild
    Hash160 <- MCHash160
    MaxEdits = 3
INVARIANTS TypeOK RightFamily MintedIsRecognised CorruptionNoticed SecretUnrecognised
CHECK_DEADLOCK FALSE
