-------------------------------- MODULE Cli ---------------------------------
(***************************************************************************)
(* The command line (crates/wallet/src/cli.rs) over a succession of runs:  *)
(* a user starts the program, reads what it prints, and may type any of it *)
(* back into a later run.  A run reads only its argv, so what a user holds *)
(* after a run is what that run printed: the log.                          *)
(*                                                                         *)
(* Every line is a write of its own (stderr is unbuffered, stdout flushes  *)
(* at each newline), and a run may stop between two of them: killed, or    *)
(* panicking because the reader of its output is gone.                     *)
(***************************************************************************)
EXTENDS Hd

LOCAL INSTANCE FiniteSetsExt

CONSTANTS
    Template,        \* the command lines users type, as sequences of words and holes
    Typed,           \* the secrets and phrases users hold from elsewhere
    MaxRuns,         \* bound: runs of the program
    MaxNews,         \* bound: of these, runs that may mint a key or a phrase
    MaxKills         \* bound: runs that are killed

ASSUME RunsAssumption == {MaxRuns, MaxNews, MaxKills} \subseteq Nat
\* What the tag of a text says it holds: a phrase that passes BIP39's check, or a key.
HoldsWhatItSays(text) ==
    /\ text[1] = "phrase" => text[2] \in Phrase
    /\ text[1] \in {"hex", "padded", "spaced", "wif"} => text[2] \in Key
ASSUME TypedAssumption == \A text \in Typed : HoldsWhatItSays(text)
ASSUME TemplateAssumption ==
    \A template \in Template :
        /\ template \in Seq(Range1(template))
        /\ \A tok \in Range1(template) : tok[1] \in {"word", "a secret", "a phrase"}

VARIABLES
    argv,            \* the run's arguments, from the subcommand on
    pc,              \* what the run does next, "idle" between two runs
    key,             \* the entropy drawn: {} or one 32-byte string
    phrase,          \* the BIP39 phrase: {} or one
    todo,            \* lines of a single-key command not yet written
    left,            \* coins an HD command has not yet derived
    out,             \* lines written so far, stdout and stderr in order
    log              \* the finished runs: [argv, out, status]

vars == <<argv, pc, key, phrase, todo, left, out, log>>

-----------------------------------------------------------------------------
(* Reading argv *)

W(word)    == <<"word", word>>
\* What a token reads as where a word is expected: a secret or a phrase is no known word.
Word(tok)  == IF tok[1] = "word" THEN tok[2] ELSE "?"
HasFlag(args, flag) == W(flag) \in Range1(args)

FlagsThatExist == {"--coin", "--hd", "--all", "--testnet", "--legacy", "--mnemonic",
                   "--purpose", "--account", "--index", "--passphrase"}
\* Any word that opens with two dashes; "--verbose" is one that means nothing.
IsFlag(tok) == Word(tok) \in FlagsThatExist \cup {"--verbose"}

\* parse_value and parse_coin: what follows the first occurrence that anything follows,
\* be it another flag.
ParseValue(args, flag) ==
    LET at == {i \in 1..(Len(args) - 1) : args[i] = W(flag)}
    IN  IF at = {} THEN {} ELSE {args[Min(at) + 1]}

\* positional_after: the first argument that is no flag and not the value of --coin.
Positional(args) ==
    LET Skipped[i \in 2..(Len(args) + 1)] ==     \* is i the value of a --coin?
            i > 2 /\ args[i - 1] = W("--coin") /\ ~Skipped[i - 1]
        found == {i \in 2..Len(args) : ~Skipped[i] /\ ~IsFlag(args[i])}
    IN  IF found = {} THEN {} ELSE {args[Min(found)]}

Net(args)    == IF HasFlag(args, "--testnet") THEN "Testnet" ELSE "Mainnet"
Legacy(args) == HasFlag(args, "--legacy")
Coin(args)   == Word(The(ParseValue(args, "--coin")))
NoCoin(args) == ParseValue(args, "--coin") = {}

SingleKeyVerbs == {"restore", "inspect", "address"}

\* run: which command the arguments select, or the error they are.
Route(args) ==
    LET verb == IF args = << >> THEN "none" ELSE Word(args[1])
    IN  CASE verb = "new" /\ HasFlag(args, "--hd") -> "hd"
          [] verb = "restore" /\ HasFlag(args, "--mnemonic") -> "hd"
          [] verb = "new" /\ ~HasFlag(args, "--hd") -> IF NoCoin(args) THEN "Usage" ELSE "new"
          [] verb \in SingleKeyVerbs /\ ~(verb = "restore" /\ HasFlag(args, "--mnemonic")) ->
                IF NoCoin(args) \/ Positional(args) = {} THEN "Usage" ELSE "inspect"
          [] verb = "list" -> "list"
          [] OTHER -> "Usage"

\* The options of an HD command.
Purposes(args)   == {Word(v) : v \in ParseValue(args, "--purpose")}
Number(args, flag) == LET v == ParseValue(args, flag) IN IF v = {} THEN "0" ELSE Word(The(v))
\* Mutation: a passphrase is for phrases minted.
PassphraseMintedOnly(args) ==
    LET v == ParseValue(args, "--passphrase")
    IN  IF v = {} \/ ParseValue(args, "--mnemonic") # {} THEN "" ELSE Word(The(v))

Passphrase(args) == LET v == ParseValue(args, "--passphrase") IN IF v = {} THEN "" ELSE Word(The(v))
Supplied(args)   == ParseValue(args, "--mnemonic")
HdCoins(args)    == IF HasFlag(args, "--all") THEN Supported
                    ELSE <<The(HdLookup(Coin(args)))>>

\* The first complaint an HD command has about its arguments, if any.
HdArgsError(args) ==
    IF HasFlag(args, "--testnet") THEN {"MainnetOnly"}
    ELSE IF \E word \in Purposes(args) : ParsePurpose(word) = {} THEN {"BadPurpose"}
    ELSE IF {Number(args, "--account"), Number(args, "--index")} \ U32 # {} THEN {"BadNumber"}
    ELSE IF HasFlag(args, "--all") THEN {}
    ELSE IF NoCoin(args) THEN {"Usage"}
    ELSE IF HdLookup(Coin(args)) = {} THEN {"NotHd"}
    ELSE {}

-----------------------------------------------------------------------------
(* Lines of output *)

AddressLine(a) == <<"address", a>>
SecretLine(s)  == <<"secret", s>>
ViewLine(k)    == <<"view", Hex(k)>>
PhraseLine(p)  == <<"phrase", <<"phrase", p>>>>
RowLine(acct)  == <<"row", acct.address, acct.secret, acct.coin, acct.path>>

\* Mutation: the raw hex is left out where the importable secret is that hex already.
NewLinesOnce(w) ==
    <<AddressLine(w.address)>> \o
    IF w.secret_std = w.secret_hex THEN << >> ELSE <<SecretLine(w.secret_std), SecretLine(w.secret_hex)>>

\* What cmd_new prints of a wallet, in order.
NewLines(w) ==
    <<AddressLine(w.address)>> \o
    CASE w.fam = "CryptoNote" ->
            <<SecretLine(w.secret_std), ViewLine(ViewKey[w.secret_hex[2]]), SecretLine(w.secret_hex)>>
      [] w.secret_std = w.secret_hex -> <<SecretLine(w.secret_hex)>>
      [] OTHER -> <<SecretLine(w.secret_std), SecretLine(w.secret_hex)>>

\* What cmd_inspect prints.
InspectLines(w) ==
    <<AddressLine(w.address)>> \o
    IF w.fam = "CryptoNote" THEN <<ViewLine(ViewKey[w.secret_hex[2]])>> ELSE << >>

-----------------------------------------------------------------------------
(* Actions *)

\* The run ends, having written `lines`.
FinishWith(lines, status) ==
    /\ log' = Append(log, [argv |-> argv, out |-> lines, status |-> status])
    /\ pc' = "idle"
    /\ argv' = << >> /\ key' = {} /\ phrase' = {}
    /\ todo' = << >> /\ left' = << >> /\ out' = << >>

Finish(status) == FinishWith(out, status)

Goto(next) == pc' = next

\* Texts a user can type: from elsewhere, or printed by an earlier run.
Printed(r)     == {r.out[i][2] : i \in {j \in DOMAIN r.out : r.out[j][1] \in {"secret", "view", "phrase"}}}
                  \cup {r.out[i][3] : i \in {j \in DOMAIN r.out : r.out[j][1] = "row"}}
Texts          == Typed \cup UNION {Printed(log[i]) : i \in DOMAIN log}
SecretHole     == <<"a secret">>
PhraseHole     == <<"a phrase">>
Fits(text, hole) == CASE hole = PhraseHole -> text[1] \in {"phrase", "junk"}
                      [] hole = SecretHole -> text[1] # "phrase"
Fill(template, text, hole) == [i \in DOMAIN template |-> IF template[i] = hole THEN text ELSE template[i]]
\* The argument lists a template stands for, now.
Filled(template) ==
    LET holes == {SecretHole, PhraseHole} \cap Range1(template)
    IN  IF holes = {} THEN {template}
        ELSE {Fill(template, text, hole) : text \in {t \in Texts : \A h \in holes : Fits(t, h)}, hole \in holes}

Mints(args) == Route(args) = "new" \/ (Route(args) = "hd" /\ Supplied(args) = {})
News        == Cardinality({i \in DOMAIN log : Mints(log[i].argv)})

\* A user starts the program.
Start ==
    /\ pc = "idle"
    /\ Len(log) < MaxRuns
    /\ \E template \in Template : \E args \in Filled(template) :
        /\ Mints(args) => News < MaxNews
        /\ argv' = args
        /\ Goto(Route(args))
    /\ UNCHANGED <<key, phrase, todo, left, out, log>>

Usage ==
    /\ pc = "Usage"
    /\ Finish("Usage")

\* cmd_list prints no key material.
List ==
    /\ pc = "list"
    /\ Finish("Ok")

\* generate: the coin is resolved before any entropy is read.
New ==
    /\ pc = "new"
    /\ LET spec == ResolveSpec(Coin(argv))
       IN  IF IsOk(spec)
           THEN Goto("draw") /\ UNCHANGED <<argv, key, phrase, todo, left, out, log>>
           ELSE Finish(spec[2])

\* getrandom.
Draw(k) ==
    /\ pc = "draw"
    /\ key' = {k}
    /\ Goto("check")
    /\ UNCHANGED <<argv, phrase, todo, left, out, log>>

EntropyFails ==
    /\ pc \in {"draw", "mint"}
    /\ Finish("Entropy")

\* Mutation: --legacy is not passed on.
NewWalletNeverLegacy(k) == BuildWallet(ResolveSpec(Coin(argv))[2], k, Net(argv), FALSE)

\* The wallet cmd_new shows for the key drawn: generate's, re-derived from its own raw
\* hex for --legacy.
NewWallet(k) ==
    LET spec  == ResolveSpec(Coin(argv))[2]
        fresh == BuildWallet(spec, k, Net(argv), FALSE)
    IN  IF IsOk(fresh) /\ Legacy(argv)
        THEN WalletFromSecret(Coin(argv), fresh[2].secret_hex, Net(argv), TRUE)
        ELSE fresh

Write(result, Lines(_)) == \E r \in {result} :
    IF IsOk(r)
    THEN /\ todo' = Lines(r[2])
         /\ Goto("write")
         /\ UNCHANGED <<argv, key, phrase, left, out, log>>
    ELSE Finish(r[2])

\* Mutation: the buffer is filled once, before the loop.
CheckSameDraw ==
    /\ pc = "check"
    /\ IF The(key) \in Scalar \/ ResolveSpec(Coin(argv))[2].params.fam = "Noid"
       THEN Write(NewWallet(The(key)), NewLines)
       ELSE UNCHANGED vars

\* Mutation: no rejection sampling, the first draw is used.
CheckNothing ==
    /\ pc = "check"
    /\ Write(NewWallet(The(key)), NewLines)

\* A key out of range is drawn again; noid has no range.
Check ==
    /\ pc = "check"
    /\ IF The(key) \in Scalar \/ ResolveSpec(Coin(argv))[2].params.fam = "Noid"
       THEN Write(NewWallet(The(key)), NewLines)
       ELSE Goto("draw") /\ key' = {} /\ UNCHANGED <<argv, phrase, todo, left, out, log>>

\* cmd_inspect.
Inspect ==
    /\ pc = "inspect"
    /\ Write(WalletFromSecret(Coin(argv), The(Positional(argv)), Net(argv), Legacy(argv)), InspectLines)

\* One line of a single-key command; after the last one the run is done.
WriteLine ==
    /\ pc = "write"
    /\ IF todo = << >> THEN Finish("Ok")
       ELSE /\ out' = Append(out, Head(todo))
            /\ todo' = Tail(todo)
            /\ UNCHANGED <<argv, pc, key, phrase, left, log>>

\* cmd_new_hd: its options, then its coins, then its phrase.
HdArgs ==
    /\ pc = "hd"
    /\ IF HdArgsError(argv) # {} THEN Finish(The(HdArgsError(argv)))
       ELSE /\ left' = HdCoins(argv)
            /\ Goto(IF Supplied(argv) = {} THEN "mint" ELSE "validate")
            /\ UNCHANGED <<argv, key, phrase, todo, out, log>>

Validate ==
    /\ pc = "validate"
    /\ LET text == The(Supplied(argv))
       IN  IF text[1] = "phrase"
           THEN phrase' = {text[2]} /\ Goto("rows") /\ UNCHANGED <<argv, key, todo, left, out, log>>
           ELSE Finish("InvalidMnemonic")

Mint(p) ==
    /\ pc = "mint"
    /\ phrase' = {p}
    /\ Goto("show")
    /\ UNCHANGED <<argv, key, todo, left, out, log>>

\* Mutation: the minted phrase is kept for the end of the table.
ShowPhraseLater ==
    /\ pc = "show"
    /\ Goto("rows")
    /\ UNCHANGED <<argv, key, phrase, todo, left, out, log>>

\* A minted phrase is shown, on stderr, before anything is derived from it.
ShowPhrase ==
    /\ pc = "show"
    /\ out' = Append(out, PhraseLine(The(phrase)))
    /\ Goto("rows")
    /\ UNCHANGED <<argv, key, phrase, todo, left, log>>

RowPurpose(spec) ==
    IF Purposes(argv) # {} THEN ParsePurpose(The(Purposes(argv))) ELSE NativePurpose(spec)

\* The next coin's row, or the end of the table.
DeriveRow ==
    /\ pc = "rows"
    /\ IF left = << >> THEN Finish("Ok")
       ELSE LET spec == Head(left)
                acct == Derive(The(phrase), Passphrase(argv), spec, The(RowPurpose(spec)),
                               Number(argv, "--account"), Number(argv, "--index"))
            IN  IF ~IsOk(acct) THEN Finish(acct[2])
                ELSE /\ out' = Append(out, RowLine(acct[2]))
                     /\ left' = Tail(left)
                     /\ UNCHANGED <<argv, pc, key, phrase, todo, log>>

Kills == Cardinality({i \in DOMAIN log : log[i].status = "Killed"})

\* The process is killed, or panics on a write.
Kill ==
    /\ pc # "idle"
    /\ Kills < MaxKills
    /\ Finish("Killed")

-----------------------------------------------------------------------------

Init ==
    /\ argv = << >> /\ pc = "idle" /\ key = {} /\ phrase = {}
    /\ todo = << >> /\ left = << >> /\ out = << >> /\ log = << >>

Step ==
    \/ Usage \/ List \/ New \/ Check \/ Inspect \/ WriteLine
    \/ HdArgs \/ Validate \/ ShowPhrase \/ DeriveRow
    \/ \E k \in Key : Draw(k)
    \/ \E p \in Phrase : Mint(p)

Next == Start \/ Step \/ EntropyFails \/ Kill

Spec == Init /\ [][Next]_vars

\* The process runs, and the entropy source does not return out-of-range keys for ever.
FairSpec == Spec /\ WF_vars(Step) /\ SF_vars(\E k \in Scalar : Draw(k))

-----------------------------------------------------------------------------
(* Properties *)

Pcs == {"idle", "Usage", "list", "new", "draw", "check", "inspect", "write",
        "hd", "validate", "mint", "show", "rows"}

TypeOK ==
    /\ pc \in Pcs
    /\ pc = "idle" => argv = << >> /\ out = << >>
    /\ key \subseteq Key /\ phrase \subseteq Phrase
    /\ \A l \in Range1(out) \cup Range1(todo) : l[1] \in {"address", "secret", "view", "phrase", "row"}
    /\ Range1(left) \subseteq Range1(Supported)
    /\ pc = "write" => key \subseteq Scalar \/ ResolveSpec(Coin(argv))[2].params.fam = "Noid"
    /\ Len(log) <= MaxRuns /\ Kills <= MaxKills

Runs == Range1(log)
Lines(r, kind) == {l \in Range1(r.out) : l[1] = kind}
FamOf(word)    == ResolveSpec(word)[2].params.fam

\* What a run says of a secret: typed back for this coin, network and form, it is the
\* key of this address.
Claim(coin, net, legacy, text, address) ==
    [coin |-> coin, net |-> net, legacy |-> legacy /\ FamOf(coin) = "SegwitV0",
     text |-> text, address |-> address]
SingleClaims(r) ==
    {Claim(Coin(r.argv), Net(r.argv), Legacy(r.argv), s[2], a[2]) :
        s \in Lines(r, "secret"), a \in Lines(r, "address")}
\* A Taproot address of a SegWit coin is one the single-key commands cannot show.
HdClaims(r) ==
    {Claim(l[4], "Mainnet", l[5][1] = 44, l[3], l[2]) :
        l \in {m \in Lines(r, "row") : m[5][1] = 86 => FamOf(m[4]) = "Taproot"}}
Claims == UNION {SingleClaims(r) \cup HdClaims(r) : r \in Runs}
\* And what a later run answered about it.
Answers ==
    UNION {{Claim(Coin(r.argv), Net(r.argv), Legacy(r.argv), The(Positional(r.argv)), a[2]) :
                a \in Lines(r, "address")} : r \in {s \in Runs : Route(s.argv) = "inspect"}}

\* A secret the tool printed, by `new` or in an HD row, re-derives the address it was
\* printed with or none at all: `restore` never shows the user a different address for
\* the same coin, network and form (cli.rs: "Re-derive the address for a key you already
\* hold"; "`new --coin X` and `new --hd --coin X` agree").
RestoreAgrees ==
    \A c \in Claims, a \in Answers :
        [c EXCEPT !.address = a.address] = a => c.address = a.address

\* The runs that were given a printed secret, for its coin, network and form.
ReadBacks ==
    {r \in Runs :
        /\ Route(r.argv) = "inspect"
        /\ \E c \in Claims :
            /\ The(Positional(r.argv)) = c.text /\ Coin(r.argv) = c.coin /\ Net(r.argv) = c.net
            /\ c.legacy = (Legacy(r.argv) /\ FamOf(c.coin) = "SegwitV0")}
Accepted(r) == r.status \in {"Ok", "Killed"}

\* A WIF or raw hex key the tool printed is one it reads back, but for CryptoNote: there
\* the reduced scalar printed need not be a secp256k1 scalar, which is what is asked of
\* it on the way back in.
WifAndHexReadBack ==
    \A r \in ReadBacks :
        The(Positional(r.argv))[1] \in {"hex", "wif"} /\ FamOf(Coin(r.argv)) # "CryptoNote" => Accepted(r)

\* An address shown by a run of `new` that was not stopped can be spent from with a raw
\* key the same run showed: that key, given the coin, the network and the form of the
\* command line, has this very address (cmd_new prints the address first, and the key it
\* prints is CryptoNote's reduced scalar, not the one drawn).
AddressComesWithItsKey ==
    \A r \in Runs : Route(r.argv) = "new" /\ r.status = "Ok" =>
        \A a \in Lines(r, "address") : \E s \in Lines(r, "secret") :
            /\ s[2][1] = "hex"
            /\ a[2] \in Addresses(ResolveSpec(Coin(r.argv))[2].params, s[2][2], Net(r.argv), Legacy(r.argv))

\* What is printed for testnet is no mainnet address, of this coin or of any other in the
\* table, unless the family has one address form for every network.
TestnetIsNotMainnet ==
    \A r \in Runs : HasFlag(r.argv, "--testnet") =>
        \A a \in Lines(r, "address") :
            Lookup(Coin(r.argv)) # {} /\ FamOf(Coin(r.argv)) \notin NetworkAgnostic =>
                \A spec \in Rows, k \in Scalar, legacy \in BOOLEAN :
                    a[2] \notin Addresses(spec.params, k, "Mainnet", legacy)

\* No address derived from a minted phrase is ever shown before the phrase is, even if
\* the run is killed (cmd_new_hd shows it on stderr ahead of the table).
PhraseShownFirst ==
    \A r \in Runs : \A i \in DOMAIN r.out :
        r.out[i][1] = "row" /\ Supplied(r.argv) = {} => \E j \in 1..(i - 1) : r.out[j][1] = "phrase"

PhraseOf(r) == IF Supplied(r.argv) = {} THEN {l[2][2] : l \in Lines(r, "phrase")}
               ELSE {t[2] : t \in Supplied(r.argv)}

\* Every row is what any wallet finds at the path printed with it, from the phrase shown
\* or supplied and the passphrase typed: the path is the account, index and purpose asked
\* for, and the address and the secret are those of the child at that path.
RowsAreChildren ==
    \A r \in Runs : \A l \in Lines(r, "row") : \A p \in PhraseOf(r) :
        LET spec == The(Lookup(l[4]))
            k    == Child(p, Passphrase(r.argv), l[5])
        IN  /\ l[5][1] \in (IF Purposes(r.argv) = {} THEN NativePurpose(spec)
                            ELSE ParsePurpose(The(Purposes(r.argv))))
            /\ l[5][2] = spec.hd_slip44
            /\ l[5][3] = Number(r.argv, "--account") /\ l[5][4] = Number(r.argv, "--index")
            /\ l[2] = HdAddress(spec.params, l[5][1], k)
            /\ FromWif(l[3]) \cup {l[3][2]} = {k}

\* The words of an HD command line but for those that say where its phrase comes from, and
\* whether each option has a word of its own for a value, and none of those.
PhraseWords(args) == {W("--hd"), W("--mnemonic")} \cup Supplied(args)
Selection(args)   == SelectSeq(Tail(args), LAMBDA tok : tok \notin PhraseWords(args))
OwnValues(args)   ==
    \A flag \in {"--coin", "--purpose", "--account", "--index", "--passphrase"} :
        ParseValue(args, flag) \cap PhraseWords(args) = {}
TableOf(r)        == SelectSeq(r.out, LAMBDA line : line[1] = "row")

\* A phrase a run minted, typed into a later run with the same words beside it, gives the
\* same table, row by row and to the same end, but for what a kill cut off
\* (cmd_new_hd serves `new --hd` and `restore --mnemonic`, and each option is read from
\* where it stands: a value left out at the end of the one line is --mnemonic in the other).
PhraseRestoresTable ==
    \A r, s \in Runs : \A shown \in Lines(r, "phrase") :
        /\ Supplied(s.argv) = {shown[2]} /\ Selection(s.argv) = Selection(r.argv)
        /\ OwnValues(r.argv) /\ OwnValues(s.argv)
        => /\ \A i \in DOMAIN TableOf(r) \cap DOMAIN TableOf(s) : TableOf(r)[i] = TableOf(s)[i]
           /\ "Killed" \notin {r.status, s.status} =>
                 r.status = s.status /\ Len(TableOf(r)) = Len(TableOf(s))

\* A run that ended well and whose last lines, and no others, are one row for each coin it
\* was asked for, in their order.
Completes(r) ==
    LET coins  == HdCoins(r.argv)
        before == Len(r.out) - Len(coins)
    IN  /\ r.status = "Ok" /\ before >= 0
        /\ \A i \in DOMAIN r.out : r.out[i][1] = "row" <=> i > before
        /\ \A i \in DOMAIN coins : r.out[before + i][4] = coins[i].ticker

\* Without --purpose, a table that has begun is finished, one row for each coin in the
\* order of COINS, unless the run is killed.
NativeTableCompletes ==
    \A r \in Runs :
        Lines(r, "row") # {} /\ Purposes(r.argv) = {} => Completes(r) \/ r.status = "Killed"

\* A run ends, whatever it was asked to do.
RunEnds == pc # "idle" ~> pc = "idle"

-----------------------------------------------------------------------------
(* What the documents say and the code does not do: each is refuted by a run. *)

\* README.md: "forager-wallet new --hd --all --purpose taproot  # every HD coin at m/86'".
TableCompletes ==
    \A r \in Runs : Lines(r, "row") # {} => Completes(r) \/ r.status = "Killed"

\* COINS.md: "`restore` ... never invents key material".
RestoreInventsNothing ==
    \A r \in Runs : r.argv # << >> /\ r.argv[1] = W("restore") => Lines(r, "phrase") = {}

\* COINS.md: "`restore` ... prints no secret you did not supply"; the private view key.
RestorePrintsNoSecret ==
    \A r \in Runs : r.argv # << >> /\ r.argv[1] = W("restore") => Lines(r, "view") = {}

\* cli.rs: "the secret it hands out is one it also reads back".
EverySecretReadBack == \A r \in ReadBacks : Accepted(r)
=============================================================================
