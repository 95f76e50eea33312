------------------------------- MODULE Payout -------------------------------
(***************************************************************************)
(* A payout address on its way from the generator to a pool: a wallet is   *)
(* minted, its address (or by mistake its secret) is pasted into a miner's *)
(* configuration, perhaps edited on the way, and `validate::check` answers *)
(* whether it is of the family the pool pays out in.  The edits are those  *)
(* of people and clipboards, external to the code.                         *)
(***************************************************************************)
EXTENDS Hd, Detect

CONSTANT MaxEdits    \* bound: edits of one text

ASSUME MaxEditsAssumption == MaxEdits \in Nat

VARIABLES
    source,     \* {} or what was pasted: [kind, fam, net, custom, text]
    field,      \* {} or the text in the configuration
    intact,     \* no character of it has another value than it was minted with
    edits,      \* edits so far
    verdict     \* {} or [expected, answer]: the answer to the text as it is now

vars == <<source, field, intact, edits, verdict>>

Init == source = {} /\ field = {} /\ intact = TRUE /\ edits = 0 /\ verdict = {}

-----------------------------------------------------------------------------
(* The generator *)

CustomRows == UNION {ParseToken(tok) : tok \in Token}

Paste(kind, row, net, text) ==
    /\ source' = {[kind |-> kind, fam |-> row.params.fam, net |-> net,
                   custom |-> row \in CustomRows, text |-> text]}
    /\ field' = {text}
    /\ UNCHANGED <<intact, edits, verdict>>

\* A single-key wallet, in either form, of a table row or a custom token.
Mint(row, net, legacy, k) ==
    LET w == BuildWallet(row, k, net, legacy)
    IN  /\ field = {}
        /\ IsOk(w)
        /\ \/ \E t \in AddressTexts(w[2].address) : Paste("address", row, net, t)
           \/ Paste("secret", row, net, SecretText(w[2].secret_std))
           \/ Paste("secret", row, net, SecretText(w[2].secret_hex))

\* A row of an HD run, mainnet always.
MintHd(row, purpose, k) ==
    /\ field = {}
    /\ Supports(row, purpose)
    /\ \/ \E t \in AddressTexts(HdAddress(row.params, purpose, k)) : Paste("address", row, "Mainnet", t)
       \/ Paste("secret", row, "Mainnet", SecretText(HdSecret(row.params, k)))

-----------------------------------------------------------------------------
(* The edits *)

Broken(sum) == IF sum = "none" THEN "none" ELSE "broken"

\* base58 after a change of some digit: the number may gain or lose a byte and open anew.
Scrambled(t, lens) ==
    {Base58(<<first, 0>>, len, Broken(t.sum)) : first \in {0, 17, 255}, len \in lens}

\* One character becomes another one of the same alphabet.
Mistyped(t) ==
    CASE t.scheme = "base58"  -> Scrambled(t, (t.len - 1)..(t.len + 1))
      [] t.scheme = "block58" -> {[t EXCEPT !.lead = open, !.sum = "broken"] : open \in {t.lead, "another"}}
      [] t.scheme = "0x"      -> {[t EXCEPT !.letters = c, !.sum = "broken"] : c \in {"lower", "upper", "mixed"}}
      [] OTHER -> {[t EXCEPT !.sum = Broken(t.sum)]}

\* Part of the text is lost or pasted twice; what is left of any but a prefixed text may
\* be base58, 33 bytes of it say.
Resized(t) ==
    CASE t.scheme = "0x" -> {[t EXCEPT !.len = len, !.sum = "broken"] : len \in {ETH_HEX_LEN - 1, ETH_HEX_LEN}}
      [] t.scheme \in {"cash", "cip37", "words"} -> {[t EXCEPT !.sum = "broken"]}
      [] OTHER -> {[t EXCEPT !.sum = "broken"]} \cup
                  {Base58(<<first, 0>>, len - 4, "broken") : first \in {0, 17, 255}, len \in {ALEPHIUM_LEN, ERGO_LEN}}

IsBase58(t) == t.scheme \in {"base58", "block58"}

\* The whole text in one case: a new number in base58, the same text in any other alphabet.
Recased(t, case) ==
    IF IsBase58(t) THEN Mistyped(t)
    ELSE IF t.scheme = "0x" THEN {[t EXCEPT !.letters = case, !.sum = "none"]}
    ELSE {[t EXCEPT !.letters = case]}

\* One letter in the other case.  EIP-55 may come out right again.
Flipped(t) ==
    IF IsBase58(t) THEN Mistyped(t)
    ELSE IF t.scheme # "0x" THEN {[t EXCEPT !.letters = "mixed"]}
    ELSE {[t EXCEPT !.letters = "mixed", !.sum = s] :
            s \in {"broken"} \cup (IF intact /\ t.sum # "eip55" THEN {"eip55"} ELSE {})}

\* The text becomes one of `texts`.
Edit(texts, keepsValue) ==
    /\ edits < MaxEdits /\ verdict = {}
    /\ \E t \in texts : field' = {t}
    /\ intact' = (intact /\ keepsValue)
    /\ edits' = edits + 1
    /\ UNCHANGED <<source, verdict>>

Mistype == \E t \in field : Edit(Mistyped(t), FALSE)
Resize  == \E t \in field : Edit(Resized(t), FALSE)
Recase  == \E t \in field, case \in {"lower", "upper"} : Edit(Recased(t, case), ~IsBase58(t))
Flip    == \E t \in field : Edit(Flipped(t), ~IsBase58(t))

-----------------------------------------------------------------------------

\* validate::check, for a pool that pays out in `expected`.  An answer depends on nothing
\* but the text and the pool, so one answer to a text is all a behaviour needs.
Check(expected) ==
    /\ verdict = {}
    /\ \E t \in field : verdict' = {[expected |-> expected, answer |-> CheckAddress(t, expected)]}
    /\ UNCHANGED <<source, field, intact, edits>>

Next ==
    \/ \E row \in Rows \cup CustomRows, net \in Network, legacy \in BOOLEAN, k \in Scalar :
            Mint(row, net, legacy, k)
    \/ \E row \in Rows, purpose \in Purpose, k \in Scalar : MintHd(row, purpose, k)
    \/ Mistype
    \/ Resize
    \/ Recase
    \/ Flip
    \/ \E expected \in Family : Check(expected)

Spec == Init /\ [][Next]_vars

-----------------------------------------------------------------------------
(* Properties *)

Scheme == {"base58", "block58", "bech32", "hex", "0x", "cash", "cip37", "words"}
Sum    == {"sha256d", "sha256", "blake2b", "keccak", "cash", "cip37", "bech32", "bech32m",
           "eip55", "none", "broken"}

\* Types; and a Mismatch never names two families that may stand for each other.
TypeOK ==
    /\ Cardinality(source) <= 1 /\ Cardinality(field) <= 1 /\ Cardinality(verdict) <= 1
    /\ \A s \in source : s.kind \in {"address", "secret"} /\ s.fam \in Family /\ s.net \in Network
    /\ \A t \in field : t.scheme \in Scheme /\ t.sum \in Sum /\ t.letters \in {"lower", "upper", "mixed"}
    /\ intact \in BOOLEAN /\ edits \in 0..MaxEdits
    /\ \A v \in verdict :
            /\ v.expected \in Family
            /\ v.answer \in {Accepted, Unrecognized} \cup
                    {<<"Mismatch", f, v.expected>> : f \in {g \in Family : ~FamiliesCompatible(g, v.expected)}}

Answers(kind) == {v \in verdict : \E s \in source : s.kind = kind}

\* Whatever the key and however a custom token reads, an address nobody has damaged is
\* never reported as another family's: where it is recognised, a pool accepts it exactly
\* when it pays out in the family it was minted for, or in a form of the same coin
\* (`version_is_modelled` pins the length so that an XDAG hash is no P2PKH version).
RightFamily ==
    intact => \A v \in Answers("address"), s \in source :
        v.answer # Unrecognized => (v.answer = Accepted <=> FamiliesCompatible(s.fam, v.expected))

\* What `new` prints for a table coin is recognised, and still is when the text is written
\* in capitals or small letters throughout, wherever the scheme lets it be.  (The testnet
\* prefixes of SegWit, Taproot and Kaspa rows are not modelled.)
MintedIsRecognised ==
    intact => \A v \in Answers("address"), s \in source, t \in field :
        /\ ~s.custom
        /\ s.net = "Testnet" => s.text.scheme \notin {"bech32", "cash"} \/ s.fam = "Noid"
        /\ t = s.text \/ (t.scheme \in {"bech32", "hex", "0x"} /\ t.letters # "mixed")
        => v.answer # Unrecognized

\* A text some of whose characters are wrong is not answered confidently, however many
\* edits it took; but for the two schemes that carry nothing to check: Alephium, and a
\* 0x address in a single case.
CorruptionNoticed ==
    ~intact => \A v \in verdict, t \in field :
        v.answer = Unrecognized \/ DetectFamily(t) = {"Alephium"}
                                \/ (DetectFamily(t) = {"Ethereum"} /\ t.letters # "mixed")

\* No secret `new` prints, of a table coin or a custom token, is taken for an address.
SecretUnrecognised ==
    intact => \A v \in Answers("secret") : v.answer = Unrecognized

-----------------------------------------------------------------------------
(* What the source says *)

\* "every other family here models both networks" (validate.rs, ergo_family).
EveryNetworkDetected ==
    \A v \in Answers("address"), s \in source :
        ~s.custom /\ field = {s.text} => v.answer # Unrecognized
=============================================================================
