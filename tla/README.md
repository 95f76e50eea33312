# A TLA+ model of forager-wallet

forager-wallet generates payout addresses and their secrets for 33 coins, offline, and tells which
family an address belongs to. It is one short-lived process that prints and exits, so little of
what can go wrong is concurrent. What can go wrong is that a secret, a phrase or an address leaves
the program and comes back: to a later run (`restore`), to another wallet (an HD path), or to a
miner that links `forager-addr` and asks whether the address is of the right kind. Each way back
goes through code other than the way out, and that correspondence is what the models are about. The
concurrent part of the program is the pair of process-wide intern pools of `forager-addr`; the
concurrent part around it is the workflow that builds and publishes a release.

## Inventory

| Part | Source | State | Operations | Talks to |
|---|---|---|---|---|
| coin table, custom tokens | `addr/src/coins.rs` | none (a constant table) | `lookup`, `parse_token`, the parts of a row | intern pools; read by everything |
| intern pools | `addr/src/coins.rs` 1021–1068 | two static hash sets behind mutexes, leaked memory | `intern`, `intern_bytes` | any thread that parses a token |
| address codecs | `addr/src/codec/`, `hexbytes.rs` | none | encode, decode, checksums, bit packing | families (encode), detection (decode) |
| detection | `addr/src/validate.rs` | lazily built prefix tables | `detect_family`, `check` | the miner; the table, the codecs |
| single-key wallets | `wallet/src/lib.rs`, `secret.rs`, `families/` | none; a key on the stack | `generate`, `address_from_secret_kind`, `dispatch` | table, curves, codecs, OS entropy |
| curves | `wallet/src/curves/` | none | scalar range, public keys, Taproot tweak, Edwards keys, reduction modulo l | families |
| BIP39, 25 words | `bip39.rs`, `mnemonic.rs`, word lists | none | entropy ↔ phrase, phrase → seed, scalar → 25 words | HD; CryptoNote |
| HD wallets | `wallet/src/hd.rs` | none | `derive`, `supports`, `native_purpose`, `generate_mnemonic` | BIP39, `bip32`, families |
| command line | `wallet/src/cli.rs` | argv, the lines already printed | `new`, `new --hd`, `restore`, `list` | everything above; the user |
| hashes | `hash.rs`, `ripemd160.rs` | none | Keccak-256, RIPEMD-160; SHA-2 and BLAKE2b of other crates | families, codecs |
| Poseidon2b | `wallet/src/poseidon2b/` | round constants, built once | field product, permutation, sponge | NOID |
| fuzz targets | `fuzz/fuzz_targets/` | none | assertions about the decoders | codecs, detection |
| release workflow | `.github/workflows/release.yml` | the release, its assets, the conclusions of jobs | push of a tag, draft, build matrix, publish; re-runs | GitHub |
| tests, CI | `tests/`, `.github/workflows/ci.yml` | outside the program | | |

(Paths are below `src/crates/` unless they start with a dot or `fuzz`.)

What is hard in each part, and what makes it correct:

* **Intern pools.** Look-up and insert by several threads; a panic between leaking a copy and
  inserting it; a poisoned mutex. Correct: one allocation per value for ever, memory bounded by the
  distinct values (plus what panics lost), no parse refused because another one panicked.
* **Command line.** Runs interrupted between two lines, a flag whose value is another flag or
  missing, a table that fails half way, `--legacy` derived through a second path. Correct: the
  phrase is shown before anything that depends on it; what is typed back shows the same address or
  none; rows are the children they are labelled with; a run ends.
* **Single-key wallets.** Draws out of range, keys that are scalars of one group and not of the
  other, secrets whose printed form forgets something. Correct: `restore` agrees with `new`; a
  testnet address is not a mainnet address of anything.
* **HD.** Four tables over the families kept by hand (`supports`, `native_purpose`, `derive`, the
  rows' SLIP-44 types). Correct: every native table completes, every row is at its path.
* **Detection.** Arms in an order, over encodings that overlap in length and leading bytes;
  prefixes taken from the table in different ways; families with a checksum, with half of one, and
  with none. Correct: an intact address is never taken for another family, a minted one is
  recognised, a damaged one is not answered confidently, a secret is never taken for an address.
* **Codecs, BIP39, 25 words.** Boundaries: padding, canonical forms, blocks, 2^64, white space.
  Correct: decode after encode is the identity, and what encode cannot produce is refused; mistyped
  characters are noticed.
* **Hashes, curves, Poseidon2b.** Messages whose padding just fits or just does not, both square
  roots, both signs of a point, carries between bits that were to be kept apart, a change of basis at
  every edge of a sponge. A wrong result is an address nobody can spend from, and known-answer tests
  take one path through each. Correct: what is computed is what the definition says; two secrets
  share a key only where the curve makes them.
* **Release.** Jobs of several runs, a step failing anywhere, jobs repeated by hand, a tag pushed
  twice. Correct: what is shipped was tested, listed and attested; a checksum belongs to its archive;
  the release turns visible whole; the queue drains.

`PROJECT.json` lists each hazard at its line with the properties that would catch it.

## Modules

| Module | Models | Checked by |
|---|---|---|
| `Coins` | `coins.rs`: every row of `COINS` with the parameters anything reads, `lookup`, `parse_token` | through the others |
| `InternSpec` | what interning promises: a write-once table | refinement, proved |
| `Intern` | `intern` and `intern_bytes` under threads and panics | `intern`, proofs |
| `InternProofs` | theorems about `Intern` | TLAPS |
| `Keys` | `lib.rs`, `secret.rs`, the families: what address and secret a key has, what a text reads as | through `Cli`, `Payout` |
| `Hd` | `hd.rs` | through `Cli`, `Payout` |
| `KeysProofs` | lemmas about `Coins`, `Keys` and `Hd`: the table and tokens, the least natural of a set, the wallets of a key, what a text reads as, prefixes of networks, rows of HD coins | TLAPS |
| `Cli` | `cli.rs`, composed with `Keys` and `Hd`: one action per step of a command | `cli_*`, proofs |
| `CliProofs` | theorems about `Cli` | TLAPS |
| `Detect` | `validate.rs`: the arms, `check` | through `Payout` |
| `Payout` | composition of the generator (`Keys`, `Hd`) with detection, and edits of the text between | `payout*`, proofs |
| `PayoutProofs` | theorems about `Payout` | TLAPS |
| `Radix` | numbers and digits: the loops `base58.rs`, `cryptonote.rs` and `mnemonic.rs` share | proofs |
| `Base58Codec` | `base58.rs`, `cryptonote.rs`, `cryptonote_tag` | through `Codecs`, proofs |
| `Bech32Codec` | `bech32.rs`, `cashaddr.rs`, `conflux.rs` | through `Codecs`, proofs |
| `HexCodec` | `hexbytes.rs` | through `Codecs`, proofs |
| `PhraseCodec` | `bip39.rs` up to the sentence the seed is hashed from, `mnemonic.rs` | through `Codecs`, proofs |
| `NumberProofs` | induction over numbers and sequences; lemmas about `Radix`, `Bits` and `NoidField`: digits, words, carry-less products, reduction | TLAPS |
| `CodecProofs` | theorems about base58, CryptoNote's blocks, varints, addresses and tags, hexadecimal, the 25 words, bit conversion, bech32, CashAddr, Conflux, BIP39 | TLAPS |
| `Bits` | words as sets of bits: shifts, rotations, sums modulo 2^w | through the next five |
| `Checksums` | the polynomials of `bech32.rs` and `cashaddr.rs`, at their real width | through `Codecs` |
| `Keccak`, `Ripemd160` | `hash.rs` (Keccak-256), `ripemd160.rs`, at their real width | through `Codecs` |
| `NoidField` | the field of `poseidon2b/mod.rs`: `clmul32`, `clmul64`, `mul`, `reduce`, of any width | through `Codecs`, proofs |
| `Poseidon2b` | the rest of `poseidon2b/mod.rs`: permutation and sponge over that field | through `Codecs` |
| `Curves` | `secp256k1.rs`, `ed25519.rs`, over curves of any size | through `Codecs` |
| `OneWay` | the hashes, checksums, products and keys: what is computed and never read back | through `Codecs` |
| `Codecs` | a text written by an encoder, or typed, and read by the decoder; what is computed; the assertions of the fuzz targets | `codecs`, proofs |
| `CodecsProofs` | theorems about `Codecs` | TLAPS |
| `Release` | `release.yml` | `release`, `release_visible`, proofs |
| `ReleaseProofs` | theorems about `Release` | TLAPS |
| `MCIntern`, `MCCli`, `MCPayout`, `MCCodecs` | the instances TLC checks | |

Dependencies: `Coins` ← `Keys` ← `Hd` ← `Cli`; `Keys` ← `Detect`; `Hd`, `Detect` ← `Payout`;
`Intern` refines `InternSpec`; `MCIntern` takes its plans from `Coins!InternPlan`, so what a parse
interns, and in which order, is what `parse_token` does with real tokens. `Codecs` stands on its own
(`Radix` ← `Base58Codec`, `PhraseCodec`; these, `Bech32Codec` and `HexCodec` ← `Codecs`):
what `Keys` and `Detect` take for granted of a text (a term is read as it was written, nothing else
is read as it) is what it checks, and with `OneWay` what they take for granted of keys (which scalars
share one). `Radix` ← `Bits` ← `Checksums`, `Keccak`, `Ripemd160`, `NoidField` ← `Poseidon2b`; these
and `Curves` ← `OneWay` ← `Codecs`. `Release` stands on its own.

### Coins, Keys, Hd: the functions

A hash or a point multiplication is an injective function, so an address is a *term*: a tuple with
its encoding and what the encoding determines. Two addresses are equal exactly when the terms are.
What the code forgets, the terms forget: an x-only key holds `EvenY[k]`, the one of k and n−k whose
point has an even Y; CryptoNote holds `Reduce[k]`; a P2PKH address does not know its coin, only its
version bytes. Secrets are terms too, tagged with how they are written, because what `parse_secret`
accepts depends on that (`hex`, hex with white space around or inside, `0x`, WIF with its version
byte and payload shape, 25 words). The sets of 32-byte strings, of secp256k1 scalars and the
functions between them are constants with assumptions (`ReduceAssumption`: a reduced string reduces
to itself, and so on).

`Option` is a set with at most one element, `Result` a pair `<<"Ok", v>>` or `<<"Err", e>>`.

### Intern

`pc[t]` is where thread t is in `intern`; `todo[t]` the values its `parse_token` has yet to intern;
`pool`, `leaked`, `refs` the set, the leaked copies, the references handed out. `Lock`, `Hit`,
`Leak`, `Insert`, `Return` are the statements of `intern`; leaking and inserting are two steps
because `Panic` may fall between them, which poisons and releases the mutex and abandons the parse.
Allocations are numbered, so a second copy of a value is a different reference. `lost` counts what
panics kept out of the pool; the code has no such counter, the bound is stated with it.

### Cli

A behaviour is a succession of runs. A run keeps `argv`, where it is (`pc`), the key or phrase
drawn, the lines and coins still to do and the lines written (`out`); `log` holds the finished runs.
The only state between two runs is what the user saw, so `Start` fills the holes of a command-line
template with any text known to the user: one of `Typed`, or any secret, view key or phrase an
earlier run printed, for any coin and any network. Each line of output is one step; `Kill` may end a
run between any two (a signal, or the panic of `println!` when the reader of the pipe is gone).
Lines the properties do not concern (headings, warnings, hints) are not modelled, nor is the text
around a secret. `cmd_list` prints no key material and is one step.

The argv helpers are translated as they are, including what they make of odd lines: a value may be
another flag, a flag without a value reads as absent, and the positional argument is the first
argument that is neither a flag nor the value of `--coin`.

### Detect, Payout

A text is what the decoders can see of it: scheme, prefix, leading bytes of the payload, payload
length, which checksum verifies, letter case. `DetectFamily` has the arms of `detect_family` in
their order. `Payout` mints a wallet (single-key, legacy, HD, custom token), pastes its address or
one of its secrets, edits the text up to `MaxEdits` times (a character mistyped, a piece lost or
doubled, the text or one letter recased) and asks `check` for every pool family. `intact` remembers
whether any edit changed the value of a character. That no changed text has a valid checksum is an
assumption of the model (the probability is 2^-30 or less); that base58 text changes its length,
leading bytes and case-folded value with every edit is modelled.

### Codecs

Encoders and decoders are pure, so their modules hold operators and no state: `Base58Encode` and
`Base58Decode` are `encode` and `decode` of `base58.rs`, and so on, a refusal being the empty set. A
byte is a number, a character a digit or a character of a small set, and every width is a constant:
256, 58, the block of 8, 2^64, the 8 and 5 bits, 11 bits a word, 1626 words. The assumptions say
what the code relies on, such as that the length table is increasing and long enough, that the
accumulator holds a byte on top of an incomplete group, that three words are more than the values of
four bytes. Big-number loops are arithmetic on naturals; a u64 that overflows is a comparison with
`U64`; the 32-bit accumulator of the bit conversion drops its oldest bits. Checksum polynomials and
hashes are parameters here: that the decoder compares all of them, at the right place, is checked with
a small checksum, and that the real ones detect errors in `Checksums`. A BIP39 phrase is words and
spaces: `SplitWhitespace` and `Join` are what reading and `seed` do to them. `Codecs` makes a
behaviour of it: `Write` a payload or `Type` a text, `Read`.

### Checksums, hashes, curves, Poseidon2b

A word is the set of its bits (`Bits`), so `xor` is symmetric difference and a rotation is a map over
positions; `WrappingAdd` says where a carry arrives. What loops over words in the code is a fold here.

*Checksums.* The registers have their real 30 and 40 bits and their real generators. A wrong group
changes the register by an amount that depends on its distance from the end and not on the text
(`OneIsSeen` checks that for the texts written); `Syndromes` lists those amounts for every distance
up to 90 and every error, so "any one or two errors are noticed" is that none of them is zero, no two
are equal, and, for bech32, none and no two of them are the difference of the two variants' constants.

*Keccak, Ripemd160* follow the code: one table of rotations walked as pi visits the lanes, padding in
place in the last block, the two lines of rounds side by side. Beside them stand the definitions,
written from the standards: lanes by coordinates and one padded message (`KeccakDefinition`), the
rounds by the index formulas and a padding found as the least one that fits (`RipemdDefinition`).

*NoidField* has the field product out of integer products of bits `CLASSES` apart (4 in the code,
where 8 terms of a class add up to four bits at most; 2 in the run, with 3 terms to two bits), one
Karatsuba level on another and the folding `reduce`; beside it stand the product as a sum of shifts
(`mul_bitwise`, which the code's tests have too) and the carry-less one (`clmul_bitwise`).
*Poseidon2b* has the permutation with the real round constants and
matrices, and the sponge with its tagged initial value. Width and basis tables are parameters.

*Curves* has the field and group operations of both files on small curves of the same shape
(p ≡ 5 mod 8 with d no square, cofactor 8; an odd prime order and y² = x³ + 7). Where the code calls
`k256`, the group law of that crate is modelled and marked external.

### Release

A run is one push of the tag; `state[r]` is its place in the workflow's concurrency group. A pending
run is cancelled by a later one, the running one never (`cancel-in-progress: false`). `draft[r]`,
`job[r][t]`, `publish[r]` are the jobs, with a target's steps in `BuildSteps` in the order of the
file. `gh release upload --clobber` with its two files is, for each, `Delete` if an asset of that
name is there and `Send`: requests of their own, between which the job may fail. `FailDraft`,
`FailBuild`, `FailPublish` end a job at any step. `RerunAll` and `RerunFailed` are the two buttons of
GitHub; jobs that succeeded keep their conclusion in the latter. What a build produced is who built
it and which checks that job had passed: two builds never count as the same bytes. Whether `strip`
leaves the dependency list in the binary is a choice, and the "sbom" step reads the binary, so only
listed builds get past it.

## Runs

| Run | Question | Bounds | States |
|---|---|---|---|
| `intern` | Do the pools behave under threads and panics? | 3 threads, one parse each of one of three tokens (two pools, shared and unshared values, a token refused after its prefix was interned), 1 panic | 50 thousand |
| `cli_keys` | Does what a single-key run prints read back as it was shown, and does no address go without its key? | 2 runs, the first may mint; 9 keys, group orders 6 and 3; ltc, zec, eth, xmr, kas, noid, an uncompressed custom token | 81 thousand |
| `cli_hd` | Are HD tables complete, labelled right, shown in order, and do their secrets and their phrases read back? | 2 runs, 1 kill; the whole table; options in every useful combination, one without its value | 328 thousand |
| `payout` | Is any confident answer about an address wrong? | every row and 8 custom tokens, 2 keys, 3 edits | 147 thousand |
| `codecs` | Is decode the inverse of encode, and is nothing else decoded? | radices 8, 3, 4; 3-bit bytes in 2-bit groups and words; every payload of up to 3 or 4 bytes, every text of up to 3 to 7 characters | 147 thousand |
| | and is what is computed what it should be? | checksums, Keccak, RIPEMD-160 at real width, messages around every block and padding edge; 16-bit field of NOID; every scalar of curves of 104 and 67 points | in the same run |
| `release` | Is only what was checked shipped, whole, and does the queue drain? | 2 targets, 2 pushes of the tag, 2 attempts of each, failures everywhere | 472 thousand |
| `cli_taproot`, `cli_restore_mints`, `cli_view_key`, `cli_read_back`, `payout_networks`, `release_visible` | Six sentences of the documents | as above, with the one command line (or one push) concerned | until refuted |

Why the bounds are enough. *intern*: three threads let two of them race while a third has already
panicked in the same section; the third token shares nothing, so that the other pool's progress is
seen too. *cli_keys*: `restore` reads nothing but its argv, so a third run could show nothing that
two do not; nine keys contain 0, keys from n up, keys whose big-endian reading is in range and whose
little-endian reading is not, and pairs k, n−k; the coins cover each branch of `dispatch` whose
secret or address forgets something, and one of each family that ignores the network. *cli_hd*: the
same, and a table of all HD coins takes every purpose through every row; one kill falls before,
between and after all lines. *payout*: the hash160 of one key opens with Zcash's two-byte P2PKH
version, that of the other with Bitcoin's, so the 5% of keys `version_is_modelled` is about are the
ones checked; the custom tokens carry other families' prefixes, Ergo's bytes as WIF bytes and a
Monero subaddress prefix; three edits change the value, then the case, then one letter.
*codecs*: the radices keep the edges of the real ones. A byte is no power of a digit, so blocks have
slack; the block lengths 2 and 4 leave out 1 and 3; 2^64 falls inside a varint group; a byte is no
whole number of groups, so every length of padding and a surplus group occur; a BIP39 phrase has 1, 2
or 3 bits of checksum, inside a word and across two; prefixes hold separators and capitals; 3^3
values of three words are more than the 16 they encode. `MAX_INPUT_LEN` and `MAX_LEN` are the
shortest that every encoded payload meets, so the limit itself is hit from both sides. A phrase is
typed with one space between its words, and with spaces before, doubled between and after them. Hash
messages are one byte either side of each place where padding needs another block, and the 120 bytes
where it does in the second. All the constants of Poseidon2b lie in the subfield of 2^16 elements
(its tower is built from the bottom, and they are small numbers), which is closed under everything the
sponge does, so 16 bits run it with the real constants; the operands of the products have bits at
every edge of halves and quarters, and `clmul` is tried on every pair of 6-bit words. The scalars of
the curves reach beyond both group orders, so reduction, refusal, and both parities of a key occur.
*release*: two pushes are what it takes for uploads to meet; a third is a second after the first; two
attempts make a repeated job of every kind; two targets make one succeed while the other fails.

`CHECK_DEADLOCK FALSE` in every configuration: all threads may be idle with no parses left, a
user may stop typing, and nobody has to push a tag.

Constants are small model values, each named in the configuration. `MaxRuns`, `MaxNews`, `MaxKills`,
`MaxParses`, `MaxPanics`, `MaxEdits`, `MaxAttempts` bound what the code does not. No symmetry is
used: the runs with temporal properties would not allow it, and the others are small enough.

### Properties

*Intern.* `Canonical`, `LeakBound`, `ParseEnds`, and `ImplementsInternSpec`: the pools refine the
write-once table. *Cli.* `RestoreAgrees` compares every secret a run printed (with the coin, network
and form it was printed for, single-key or HD) with every later answer to it; `WifAndHexReadBack`
says that those answers are not refusals; `AddressComesWithItsKey` that a run of `new` that was not
killed has shown, for every address, a raw key that has this address; `TestnetIsNotMainnet` compares
testnet output with every mainnet address in the table; `PhraseShownFirst`, `RowsAreChildren`,
`NativeTableCompletes` are about HD tables. `RowsAreChildren` reads the options as the program does, so
it cannot tell whether they are read alike on the way out and on the way back: that is
`PhraseRestoresTable`, which compares the table of a minted phrase with the one a later run makes of
that phrase and the same words. It says nothing of a line where `--hd`, `--mnemonic` or the phrase is
taken for the value of another option, as in `restore --coin ltc --passphrase --mnemonic "…"`: the
run does type such a line, and the addresses are others. `RunEnds` is liveness. *Payout.* `RightFamily`,
`MintedIsRecognised`, `CorruptionNoticed`, `SecretUnrecognised`. *Codecs.* `ReadsBack`,
`OneSpelling`, `TagOpensAll`, `WordsTellKeysApart`; `FuzzTargetsHold`, the assertions of three fuzz
targets over every short text; `TyposNoticed`, about the real checksums; `KeccakIsSponge`,
`RipemdIsDefined`, `FieldProducts`, `NoidFlatIsTower`, each an implementation against its
definition; `EdwardsKeys`, `TaprootSpendable`, `SecretsHaveTheirKeys`, about keys: which scalars
share one, and that what a Taproot address pays to is what the wallet of its secret signs for.
*Release.* `ShippedWasChecked`, `PairsAgree`, `UndraftIsWhole` (about the step that publishes) and
`QueueDrains`. One type invariant per module carries the few facts that hold of the state as such (a
key in use is in range, an idle thread has nothing to do, a `Mismatch` names incompatible families).

### Fairness

`Intern!FairSpec` has weak fairness of each thread's steps inside a parse: the scheduler runs every
runnable thread, and a mutex that is free infinitely often is obtained in this model because every
thread starts finitely many parses (`MaxParses`). Starting a parse and panicking are not fair.
`Cli!FairSpec` has weak fairness of the program's steps, and strong fairness of drawing an in-range
key: the loop of `generate` ends only if the entropy source does not return out-of-range keys for
ever, which it does with probability 2^-128 per draw. A user is not obliged to start a run.
`Release!FairSpec` has weak fairness of `Advance`, the steps of jobs and of the group: GitHub gives
runners to the jobs that wait and ends a job that hangs, which is a failure and so a step. Pushing and
re-running are not fair. One weak fairness for all those steps is enough: runs and attempts are
bounded, and within an attempt every step brings a job nearer its end.

## What the documents say and the code does not do

Each is a run that TLC refutes.

* `cli_taproot`: the README's `new --hd --all --purpose taproot` prints a phrase and three rows and
  then fails at the first coin without a taproot form.
* `cli_restore_mints`: "It never invents key material" (COINS.md) — `restore --coin ltc --mnemonic`,
  the flag last, mints a fresh phrase.
* `cli_view_key`: "prints no secret you did not supply" (COINS.md, cli.rs) — `restore` of a
  CryptoNote key prints the private view key.
* `cli_read_back`: "the secret it hands out is one it also reads back" (cli.rs) — the `0x` hex of
  Ethereum and Conflux wallets and the 25 words are not.
* `release_visible`: "a half-built release is never visible to anyone" (release.yml:75) — the draft
  job takes a release that exists, published or not, so re-running all jobs of a published one
  deletes and replaces its assets while it is visible (`--clobber`, release.yml:258), and leaves it
  short of one if a build fails there.
* `payout_networks`: "every other family here models both networks" (validate.rs) — SegWit,
  Taproot and Kaspa testnet prefixes are not modelled in detection, and the generator mints them.

Met while reading, and not stated anywhere the code contradicts: `new` prints the address before the
secret, so a run killed between the two lines has shown an address and no key; when a tag is pushed
twice and the older run's publish job is run again, the release may hold assets of both (which is
why `UndraftIsWhole` speaks of a tag of which only one run ever began); the fuzz target of
`detect_family` names nine of the twelve families it says it names all of; a private view key typed
into `restore` is accepted as another wallet's spend key; a CryptoNote scalar printed by `new` may
be refused by `restore`, which reads it as a secp256k1 scalar; an option at the end of the line
silently takes its default.

## Proofs

`InternProofs` proves, for every set of threads, pools and values, every set of parses, and any
number of parses and panics:

| Theorem | States |
|---|---|
| `InternTypeCorrect` | `Spec => []TypeOK` |
| `InternCanonical` | `Spec => []Canonical` |
| `InternLeakBound` | `Spec => []LeakBound` |
| `InternRefines` | `Spec => ImplementsInternSpec` |

They rest on the module's four assumptions about constants (a free mutex's owner is no
thread, items are tagged with a pool, a plan is a non-empty sequence of items, bounds are naturals)
and on one inductive invariant. `Canonical` is not inductive: a state in which a thread is about to
insert over another's entry satisfies it and steps out of it. `IInv` adds what rules that out:

* `Busy`: a thread inside a parse has a current item;
* `MutexInv`: a thread in a critical section owns the mutex of its item's pool;
* `SectionInv`: between the miss and the insert, the item is still not in the pool, and the thread's
  `fresh` allocation is the last one leaked; after the insert, the pool holds it;
* `RefsInv`: every reference handed out is what the pool holds now, and is not 0 — `Canonical`
  follows at once, and `pool` entries never change;
* `LeakInv`: leaked = lost + (1 if the pool has it, or a thread is about to insert it).

Two threads cannot be in the section of one pool by `MutexInv`, so one step per action suffices, with
the conjuncts it can disturb below it. `InternRefines` maps `Insert` to `Define`, `Hit` and `Return`
to `Give`, and everything else to a stutter.

`CodecProofs` proves of each codec, for every radix, block size, length table, varint limit, payload
length and list, and every payload and text:

| Codec | what is written reads back | what is read is what is written |
|---|---|---|
| base58 | `Base58ReadsBack` | `Base58OneSpelling` |
| base58 with its checksum | `Base58CheckReadsBack` | `Base58CheckOneSpelling` |
| CryptoNote's blocks | `BlockReadsBack` | `BlockOneSpelling` |
| varints, and what follows them | `VarintReadsBack` | `VarintOneSpelling` |
| CryptoNote addresses | `CryptoNoteReadsBack` | `CryptoNoteOneSpelling` |
| hexadecimal | `HexReadsBack` | `HexOneSpelling` (up to the letter case) |
| bytes in groups (`convertbits`) | `GroupsReadBack` | `GroupsOneSpelling` |
| bech32's checks, of both variants | `CheckedReadsBack` | `CheckedOneSpelling` (up to the letter case) |
| bech32 | `Bech32ReadsBack` | `Bech32OneSpelling` (up to the letter case) |
| SegWit, Taproot | `SegwitReadsBack` | of a checked text, as above |
| CashAddr | `CashReadsBack` | `CashOneSpelling` |
| Conflux | `ConfluxReadsBack` | `ConfluxOneSpelling` (up to the optional type) |
| BIP39 | `PhraseReadsBack` | `PhraseOneSpelling` (up to spaces) |

and `TagOpens` (the opening and the length that `cryptonote_tag` computes from two extremes are those
of every address of the network prefix), `WordsInjective` and `Monero25Injective` (two scalars of 32
bytes have different words, whatever the CRC). `CodecsProofs` carries them to behaviours:

| Theorem | States |
|---|---|
| `TextsHaveOrigins` | `Spec => []Inv` |
| `WrittenReadsBack` | `Spec => []ReadsBack` |
| `WrittenOneWay` | `Spec => []OneSpelling` |
| `FuzzTargetsNeverFail` | `Spec => []FuzzTargetsHold` |
| `TypesHold` | `Spec => []TypeOK` |
| `PrescreenKeepsAll` | `Spec => []TagOpensAll` |
| `FieldProductsHold` | `Spec => []FieldProducts` |
| `WordsDiffer` | `Spec => []WordsTellKeysApart` |

`ReadsBack` and `OneSpelling` compare `read` with `payload` and `text`, chosen steps before; `Inv`
remembers that the text was typed or is what the encoder wrote of the payload, and that what was read
is the decoder's answer to it.

Assumed is what the modules assume of constants, and all of it is true of the code's: a byte and a
character are at least two values (`RadixAssumption`), the length table increases, leaves room for the
bytes and ends at the block (`BlockAssumption`), a byte is a varint group and its flag
(`VarintAssumption`), three words are no fewer than the values of four bytes (`ListAssumption`),
a byte and a group fit the accumulator of the bit conversion (`BitsAssumption`), small letters are
their own small letters and the charset has one of them for every group (`LowerAssumption`,
`CharsetAssumption`), a CashAddr prefix has no colon and no capital (`PrefixAssumption`), a unit of
entropy and its checksum bit are a whole number of words and the checksum fits a byte
(`Bip39Assumption`), payloads are bytes, of the length their scheme has, and write a text no longer
than the decoder takes (`PayloadAssumption`), typed texts are made of the scheme's characters
(`TypedAssumption`). A hash is a parameter, so the last two also say of what is written or typed that
a digest is bytes and a checksum the right number of groups (`Closed`): the code shifts both out of a
fixed number of bits.

The argument: the digits of a number determine it and are determined by it, once leading zeros are
fixed; base58 keeps those as leading `1`s, a block pads to a length that gives the number of bytes
back, and a varint refuses the group that would be a leading zero. So each codec is a bijection
between payloads and the texts it accepts. Blocks are cut where they were joined, because every block
but the last is full. `TagOpens` is a sandwich: bytes between two sequences of bytes, in dictionary
order, have block numbers in between and so digits in between, and where the two extremes agree on a
first character, everything between agrees. For the words: the first is the last digit; the second is
the middle digit with the first word added, which cancels modulo the list's length
(`SummandCancels`); the third likewise; and the third digit is below the list's length because the
value is below its cube.

The codecs that regroup bits need more. `Regroup` keeps an accumulator whose oldest bits fall off, so
the invariant of its loop (`RegroupState`) speaks of the number n that the values so far spell: the
values written are the digits of n without the bits still waiting, and the accumulator is n modulo its
width, which keeps the waiting bits because `BitsAssumption` gives it room for them.
From there it is digits again: a number cut at one width and at another is one
number; the padding is zero and shorter than a group, which is exactly what `ToBytes` refuses
otherwise. A bech32 text comes apart where it was put together because the charset has no `1`, so the
last `1` is the separator however many the prefix has; a CashAddr prefix has no colon, so there the
first is. The two variants' checksums differ in the last group, so no text is of both.

BIP39 addresses bits by number, across bytes and across words (`bit_at`). The bits of the words are
the bits of the entropy followed by the top bits of the digest (`SameBitsBefore`, `BufferIs`), both
ways; `Bip39Assumption` makes all the divisions exact for every legal length (`UnitsSized`), which is
the arithmetic behind 12, 15, 18, 21 and 24 words; and a sequence of bits of a given length
determines the numbers it spells (`SpelledBits`, `SpelledBack`). Splitting at white space undoes
joining with spaces, since no word is a space (`JoinSplit`).

`FieldProductsHold` is about words as sets of bits. An integer product of two words of classes i and
j has its digits, in radix 2^`CLASSES` after a shift by i + j, where the words' bits meet: each digit
counts how many pairs of bits meet there (`ProductDigits`), and no digit carries, because a word of at
most `WidestWord` bits has at most 2^`CLASSES` - 1 bits of a class (60 for the four classes of the code,
which uses 32). So the lowest bit of a digit, which is what the masks keep, is the parity, and the
parities of all the classes are the carry-less product (`ClmulIs`). Both Karatsuba levels are then
algebra of symmetric differences (`MiddleSplits`, `Clmul64Is`, `MulIs`), and folding twice is reducing
bit by bit (`BitwiseIsReduced`, `ReduceIs`) because what the first fold pushes over the top is shorter
than half the field: that is what `NoidAssumption` asks of the taps, beside a width of four words,
none wider than `WidestWord`. All of it is true of 128 bits, four classes and the taps 1, 2 and 7.
`PayloadAssumption` says that the operands are words and elements of those widths.

The fuzz targets follow: what they assert is that accepted texts re-encode to themselves, that a
checked body is the beginning of the unchecked bytes, and that lower case changes no answer.

`ReleaseProofs` proves, for every build matrix, any number of pushes of the tag and of attempts:

| Theorem | States |
|---|---|
| `ReleaseTypeCorrect` | `Spec => []TypeOK` |
| `ReleaseShippedWasChecked` | `Spec => []ShippedWasChecked` |
| `ReleasePairsAgree` | `Spec => []PairsAgree` |
| `ReleaseUndraftIsWhole` | `Spec => UndraftIsWhole` |

The assumptions are that the matrix is not empty and the bounds are naturals. None of the three
properties is inductive: a state in which a second run is about to upload beside the first satisfies
`PairsAgree`, and one in which an unattested build stands before its upload satisfies
`ShippedWasChecked`. `IInv` adds:

* `OneRuns`: the concurrency group has one running run;
* `StepInv`: a job past "test", "sbom" or "attest" has passed it in this attempt (a repeated job
  begins with nothing passed);
* `SentInv`: a job with a piece sent is in the middle of its upload, its run is running, and what it
  sent is still there — by `OneRuns` nobody else uploads;
* `WholeInv`: of the only run that ever began, a target that is done is there whole.

`PairsAgree` is disturbed only by an upload, which is unfinished (and so excepted) until `Send` of the
second piece, when `SentInv` gives the first. `UndraftIsWhole` follows from `WholeInv` when `Publish`
finds every job "ok". `QueueDrains` is liveness and stays with TLC.

`PayoutProofs` proves, for every set of keys, every `Hash160`, every set of custom tokens that
`parse_token` accepts, every pool and any number of edits:

| Theorem | States |
|---|---|
| `Invariant`, `TypeCorrect` | `Spec => []IInv`, `Spec => []TypeOK` |
| `FamilyKept` | `Spec => []RightFamily` |
| `TableCoinsRecognised` | `Spec => []MintedIsRecognised` |
| `DamageNoticed` | `Spec => []CorruptionNoticed` |
| `SecretsNoAddress` | `Spec => []SecretUnrecognised` |

The properties compare a verdict with what was pasted any number of edits before. `IInv` remembers
what lies between: while `intact`, the field is the text pasted up to its letter case (`SameText`),
and once it is not, its checksum is broken or it never had one; a verdict is `check`'s answer to the
text now in the field; and what was pasted looks its part (`LooksLike`, `LooksSecret`: encoding,
checksum, payload length, and the leading bytes that tell base58 families apart). Two facts carry the
rest: no two looks are one (`Arms`, `DetectedAsMinted`, `SecretUndetected` go through the arms of
`detect_family` in order), and minting gives each family its look (a lemma for each constructor).
`TableCoinsRecognised` also needs the table: each P2PKH version, human-readable part and CryptoNote
prefix of a row is one detection looks for, `version_is_modelled` included, which is why it holds
whatever bytes a hash160 opens with and is stated of the table and not of tokens.

`CliProofs` proves, for every set of keys and of scalars, every `EvenY`, `Reduce`, `ViewKey` and child
derivation, every set of templates and typed texts, and any number of runs and kills:

| Theorem | States |
|---|---|
| `Invariant`, `TypeCorrect` | `Spec => []IInv`, `Spec => []TypeOK` |
| `PhraseBeforeRows` | `Spec => []PhraseShownFirst` |
| `KeyWithAddress` | `Spec => []AddressComesWithItsKey` |
| `TestnetsApart` | `Spec => []TestnetIsNotMainnet` |
| `RowsDerived` | `Spec => []RowsAreChildren` |
| `RestoreKeeps` | `Spec => []RestoreAgrees` |
| `SecretsReadBack` | `Spec => []WifAndHexReadBack` |
| `TablesFinish` | `Spec => []NativeTableCompletes`, if every child is a key |

None of the properties says anything of a run under way, so none is inductive. `IInv` has

* `RunOk` of every finished run: what it printed is a part of the lines of one wallet of one key for
  the coin, network and form of its command line (all of them when it finished), or the start of the
  table of one phrase, or nothing;
* `ShownOk`, the same of the run under way, with the lines still to be written;
* `PcOk`: at which step which command is, and what it has by then;
* `ArgsOk`, `LinesOk`: each text on a command line or on the screen holds what its tag says (a `wif`
  a key, a `phrase` a phrase). `Start` types texts back, so this is what makes the next run readable.

`RestoreKeeps` then compares a claim of one run (`ClaimsBacked`: its secret and its address are of one
key) with the answer of another: the answer is the wallet of the key the text reads as, and of two
keys whose secrets are one text the addresses agree, form by form (`BackedReads`), where `EvenY` and
`Reduce` forget no more of the second key than of the first. `TestnetsApart` is the table's: no
version, prefix or type word of a mainnet row is one of a testnet row (`NetworksDisjoint`).
`TablesFinish` has an inductive invariant of its own beside `IInv`, `Progress`: the rows printed, the
coins left and `HdCoins` fit together. Its hypothesis `EveryChildIsAKey` is BIP32's: a path has no key
with a chance below 2^-127, and `derive` then returns an error, as in the model. In the run every path
derived has a key, so the hypothesis only makes explicit what the instance has. Assumed of constants is what the
modules assume (scalars are keys, `EvenY` and `Reduce` are idempotent, bounds are naturals), and what
`Cli` says of the user: a typed text holds what its tag says (`TypedAssumption`), and a template is a
sequence of words and holes (`TemplateAssumption`).

Induction over data is done without an operator as a parameter. A claim about all n is refuted at its
least counterexample (`LeastNat` in `KeysProofs`, as in `SupportedAmongIs`), or the set of numbers it
holds of is shown to be all of them (`Induction` and `SequenceInduction` in `NumberProofs`); that the
function a recursive definition names exists, and obeys its definition, is proved first (`Recursion`).

Only model-checked:

* `ParseEnds`, `RunEnds` and `QueueDrains`: liveness is beyond the prover.
* `PhraseRestoresTable`: two argument lists are compared through what is left of them when some words
  are taken out, and where an option stands in the one and in the other is induction over both.
* `TyposNoticed`, `KeccakIsSponge`, `RipemdIsDefined`, `NoidFlatIsTower`, `EdwardsKeys`,
  `TaprootSpendable`, `SecretsHaveTheirKeys`: what they say is about particular
  polynomials, tables and curves, so it is computed and not derived.

## Not modelled

* SHA-256, SHA-512, BLAKE2b, PBKDF2, HMAC, NFKD, BIP32 and the arithmetic of `k256`: other crates.
  What calls them treats them as injective functions or as parameters (`Sha256d`, `Digest`,
  `TapTweak`), and the CRC that picks CryptoNote's 25th word is a parameter too.
* The word lists and the 128-bit basis tables: data. A word is its index; the tables are checked over
  the subfield of 2^16 elements only.
* The real curves and the hash over the 128-bit field: TLC's integers have 32 bits. `Curves` and
  `Poseidon2b` are the code's algorithms over small instances (the product itself is proved for every
  width, 128 bits with taps 1, 2 and 7 among them); that the code's constants are the right ones is for
  known-answer vectors.
* Zeroisation on drop, wording and layout of the output, `OnceLock` (standard library).
* The fuzz targets of `detect_family` and `parse_token`: they assert that a function gives one answer
  twice and that a result has its type, which holds of any operator.
* Tests; `ci.yml`, whose jobs share nothing; the action versions, permissions and shell text of
  `release.yml`.

## Plan

Done, in this order: `Coins`, `Intern` with its specification and proofs, `Keys`, `Hd`, `Cli`,
`Detect`, `Payout`, the codecs, the release workflow with its proofs, hashes, checksums, curves and
Poseidon2b, the fuzz targets of the decoders, the proofs of `Payout` and `Cli`, those of the codecs and
of the field product.
What would come next: the curves' `compress` and its inverse for every prime.
