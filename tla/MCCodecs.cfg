\* Every payload and every text of a few bytes and characters, in each scheme; messages at the edges of the hashes; every scalar.
SPECIFICATION Spec
CONSTANTS
    Byte = 8
    Digit = 3
    CHECK = 1
    Sha256d <- MCSha256d
    MAX_INPUT_LEN = 6
    BLOCK = 2
    ENC_LEN <- MCEncLen
    Group = 4
    U64 = 32
    TAIL = 2
    ByteBits = 3
    GroupBits = 2
    AccBits = 4
    Charset <- MCCharset
    Lower <- MCLower
    IsUpper <- MCIsUpper
    IsLower <- MCIsLower
    Printable <- MCPrintable
    PrefixChar <- MCPrefixChar
    Mask <- MCMask
    Polymod <- MCPolymod
    CHECKSUM_CHARS = 1
    MAX_LEN = 9
    ADDR_LEN = 1
    BIP39ByteBits = 3
    BITS_PER_WORD = 2
    UnitBytes = 1
    Units = {1, 2, 3}
    Digest <- MCDigest
    ListLen = 3
    GroupValues = 16
    Crc <- MCCrc
    BITS = 16
    CLASSES = 2
    Taps = {1, 3, 5}
    TOWER_TO_FLAT <- MCToFlat
    FLAT_TO_TOWER <- MCToTower
    TowerTimes <- MCTower
    EdPrime = 101
    EdOrder = 13
    EdA = 63
    MSB = 128
    ScalarBits = 7
    FieldPrime = 79
    CurveB = 7
    SecpOrder = 67
    Generator <- MCGenerator
    TapTweak <- MCTapTweak
    Payload <- MCPayload
    Typed <- MCTyped
INVARIANTS TypeOK ReadsBack OneSpelling TagOpensAll WordsTellKeysApart FuzzTargetsHold
INVARIANTS TyposNoticed KeccakIsSponge RipemdIsDefined FieldProducts NoidFlatIsTower
INVARIANTS EdwardsKeys TaprootSpendable SecretsHaveTheirKeys
CHECK_DEADLOCK FALSE
