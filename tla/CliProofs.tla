----------------------------- MODULE CliProofs ------------------------------
(***************************************************************************)
(* For any keys, child derivation, tokens, templates and number of runs:   *)
(* what the command line prints agrees with what it was asked, with what   *)
(* it printed next to it and with what a later run reads back.             *)
(*                                                                         *)
(* The argument: nothing but the log outlives a run, so the invariant says *)
(* of every finished run, and of the one under way, which wallet, table or *)
(* silence its command line stands for (RunOk), and that every text it put *)
(* out holds what its tag says (HoldsWhatItSays), which is what makes the  *)
(* texts of later command lines readable as keys and phrases.              *)
(***************************************************************************)
EXTENDS Cli, KeysProofs, FiniteSetTheorems
LOCAL INSTANCE FiniteSetsExt

\* A sequence; a command line or lines of output whose texts hold what they say.
SequenceOf(s)  == s \in Seq(Range1(s))
ArgsOk(args) == SequenceOf(args) /\ \A tok \in Range1(args) : HoldsWhatItSays(tok)

LineOk(l) ==
    /\ l[1] \in {"address", "secret", "view", "phrase", "row"}
    /\ l[1] \in {"secret", "view", "phrase"} => HoldsWhatItSays(l[2])
    /\ l[1] = "row" => HoldsWhatItSays(l[3])
LinesOk(lines) == SequenceOf(lines) /\ \A l \in Range1(lines) : LineOk(l)

\* The coin of a single-key command, and the keys generate accepts for it.
SpecOf(args) == ResolveSpec(Coin(args))[2]
InRange(args, k) == k \in Scalar \/ SpecOf(args).params.fam = "Noid"

\* The wallet generate builds, the one `new` shows, and the answer of the other commands.
Fresh(args, k) == BuildWallet(SpecOf(args), k, Net(args), FALSE)
Minted(args, k) ==
    IF IsOk(Fresh(args, k)) /\ Legacy(args)
    THEN WalletFromSecret(Coin(args), Fresh(args, k)[2].secret_hex, Net(args), TRUE)
    ELSE Fresh(args, k)
Answer(args) == WalletFromSecret(Coin(args), The(Positional(args)), Net(args), Legacy(args))

\* A wallet of some key for the coin, network and form of the command line.
ShowsWallet(args, w) ==
    /\ IsOk(ResolveSpec(Coin(args)))
    /\ \E k \in Key : IsWalletOf(w, SpecOf(args), k, Net(args), Legacy(args))

\* Lines of `new`, all of them when it is done; lines of the other single-key commands.
NewWrote(args, lines, done) ==
    \E k \in Key :
        /\ InRange(args, k) /\ IsOk(Minted(args, k)) /\ ShowsWallet(args, Minted(args, k)[2])
        /\ lines \subseteq Range1(NewLines(Minted(args, k)[2]))
        /\ done => Range1(NewLines(Minted(args, k)[2])) \subseteq lines

InspectWrote(args, lines) ==
    /\ IsOk(Answer(args)) /\ ShowsWallet(args, Answer(args)[2])
    /\ lines \subseteq Range1(InspectLines(Answer(args)[2]))

\* The purpose a coin is derived at, and the path.
PurposesOf(args, spec) ==
    IF Purposes(args) = {} THEN NativePurpose(spec) ELSE ParsePurpose(The(Purposes(args)))
PathOf(args, spec, purpose) ==
    <<purpose, spec.hd_slip44, Number(args, "--account"), Number(args, "--index")>>

\* A row of the table an HD command prints of a phrase, and what it has printed of it.
RowOf(args, p, l) ==
    \E spec \in Rows, purpose \in Purpose :
        /\ HdCapable(spec) /\ Supports(spec, purpose) /\ purpose \in PurposesOf(args, spec)
        /\ Child(p, Passphrase(args), PathOf(args, spec, purpose)) \in Scalar
        /\ l = <<"row", HdAddress(spec.params, purpose, Child(p, Passphrase(args), PathOf(args, spec, purpose))),
                 HdSecret(spec.params, Child(p, Passphrase(args), PathOf(args, spec, purpose))),
                 spec.ticker, PathOf(args, spec, purpose)>>

Table(args, p, lines) ==
    /\ p \in Phrase
    /\ Supplied(args) # {} => p = The(Supplied(args))[2]
    /\ \A i \in DOMAIN lines : IF i = 1 /\ Supplied(args) = {} THEN lines[i] = PhraseLine(p)
                               ELSE RowOf(args, p, lines[i])

\* A finished run: what it printed is what its command line stands for, or the start of it.
RunOk(r) ==
    /\ ArgsOk(r.argv) /\ LinesOk(r.out)
    /\ Route(r.argv) = "new" =>
          \/ r.out = << >> /\ r.status # "Ok"
          \/ NewWrote(r.argv, Range1(r.out), r.status = "Ok")
    /\ Route(r.argv) = "inspect" =>
          \/ r.out = << >> /\ r.status # "Ok" /\ (r.status = "Killed" \/ ~IsOk(Answer(r.argv)))
          \/ InspectWrote(r.argv, Range1(r.out)) /\ r.status \in {"Ok", "Killed"}
    /\ Route(r.argv) = "hd" => r.out = << >> \/ \E p \in Phrase : Table(r.argv, p, r.out)
    /\ Route(r.argv) \notin {"new", "inspect", "hd"} => r.out = << >>

\* An Option of T.
Holds(S, T) == S = {} \/ \E x \in T : S = {x}

\* Where a run is, of which command, with what it has by then.
PcOk ==
    /\ pc \in Pcs
    /\ pc = "idle" => argv = << >>
    /\ pc \in {"Usage", "list", "new", "inspect", "hd"} => Route(argv) = pc
    /\ pc \in {"draw", "check"} => Route(argv) = "new" /\ IsOk(ResolveSpec(Coin(argv)))
    /\ pc \in {"validate", "mint", "show", "rows"} => Route(argv) = "hd"
    /\ pc = "validate" => Supplied(argv) # {}
    /\ pc \in {"mint", "show"} => Supplied(argv) = {}
    /\ pc = "check" => key # {}
    /\ pc \notin {"check", "write"} => key = {}
    /\ pc \in {"show", "rows"} => phrase # {}
    /\ pc # "write" => todo = << >>
    /\ pc \notin {"write", "rows"} => out = << >>

\* What a run has shown so far, and with the lines not yet written.
ShownOk ==
    /\ pc = "write" =>
          \/ /\ Route(argv) = "new" /\ IsOk(ResolveSpec(Coin(argv)))
             /\ key # {} /\ InRange(argv, The(key))
             /\ NewWrote(argv, Range1(out) \cup Range1(todo), TRUE)
          \/ Route(argv) = "inspect" /\ key = {} /\ InspectWrote(argv, Range1(out) \cup Range1(todo))
    /\ pc = "rows" => Table(argv, The(phrase), out) /\ (Supplied(argv) = {} => out # << >>)

\* The inductive invariant.
IInv ==
    /\ ArgsOk(argv) /\ LinesOk(out) /\ LinesOk(todo)
    /\ Holds(key, Key) /\ Holds(phrase, Phrase)
    /\ left \in Seq(Rows) /\ \A spec \in Range1(left) : HdCapable(spec)
    /\ pc \in {"validate", "mint", "show", "rows"} => HdArgsError(argv) = {}
    /\ PcOk /\ ShownOk
    /\ SequenceOf(log) /\ \A r \in Range1(log) : RunOk(r)
    /\ Len(log) <= MaxRuns /\ (pc # "idle" => Len(log) < MaxRuns)
    /\ Kills <= MaxKills
-----------------------------------------------------------------------------
(* Sequences. *)

(* A sequence over some set is a sequence over what it holds, and over every set that has it. *)
LEMMA SequenceIs ==
  ASSUME NEW S, NEW s
  PROVE  /\ s \in Seq(S) => SequenceOf(s) /\ Range1(s) \subseteq S
         /\ SequenceOf(s) /\ Range1(s) \subseteq S => s \in Seq(S)
         /\ SequenceOf(s) => Len(s) \in Nat /\ DOMAIN s = 1..Len(s)
<1>1. ASSUME s \in Seq(S) PROVE SequenceOf(s) /\ Range1(s) \subseteq S
  <2>1. Len(s) \in Nat /\ DOMAIN s = 1..Len(s) /\ s \in [1..Len(s) -> S]
    BY <1>1, LenProperties
  <2>2. s \in [1..Len(s) -> Range1(s)]
    BY <2>1 DEF Range1
  <2>3. QED
    BY <2>1, <2>2, SMTT(30) DEF SequenceOf, Range1
<1>2. ASSUME SequenceOf(s), Range1(s) \subseteq S PROVE s \in Seq(S)
  BY <1>2 DEF SequenceOf
<1>3. ASSUME SequenceOf(s) PROVE Len(s) \in Nat /\ DOMAIN s = 1..Len(s)
  BY <1>3, LenProperties DEF SequenceOf
<1>4. QED
  BY <1>1, <1>2, <1>3

(* The empty sequence holds nothing. *)
LEMMA EmptyHolds == SequenceOf(<< >>) /\ Range1(<< >>) = {}
<1>1. Range1(<< >>) = {}
  BY DEF Range1
<1>2. << >> \in Seq({})
  OBVIOUS
<1>3. QED
  BY <1>1, <1>2 DEF SequenceOf

(* Appending keeps a sequence and adds the element. *)
LEMMA AppendHolds ==
  ASSUME NEW s, NEW x, SequenceOf(s)
  PROVE  /\ SequenceOf(Append(s, x)) /\ Range1(Append(s, x)) = Range1(s) \cup {x}
         /\ Len(Append(s, x)) = Len(s) + 1 /\ Append(s, x)[Len(s) + 1] = x
         /\ \A i \in 1..Len(s) : Append(s, x)[i] = s[i]
<1> DEFINE S == Range1(s) \cup {x}
<1>1. s \in Seq(S) /\ x \in S
  BY SequenceIs
<1>2. Append(s, x) \in Seq(S) /\ Range1(Append(s, x)) = S
  BY <1>1, RangeOfAppend
<1>3. SequenceOf(Append(s, x))
  BY <1>2, SequenceIs
<1>4. QED
  BY <1>1, <1>2, <1>3, AppendProperties

(* The least of a set of numbers is in it. *)
LEMMA MinIn ==
  ASSUME NEW S \in SUBSET Nat, S # {}
  PROVE  Min(S) \in S
  BY LeastNat DEF Min

-----------------------------------------------------------------------------
(* Reading the arguments. *)

(* The value of a flag is one of the arguments, if anything. *)
LEMMA ParseValueIn ==
  ASSUME NEW args, SequenceOf(args), NEW flag
  PROVE  ParseValue(args, flag) = {} \/ \E tok \in Range1(args) : ParseValue(args, flag) = {tok}
<1> DEFINE at == {i \in 1..(Len(args) - 1) : args[i] = W(flag)}
<1>1. ParseValue(args, flag) = IF at = {} THEN {} ELSE {args[Min(at) + 1]}
  BY DEF ParseValue
<1>2. CASE at # {}
  <2>1. at \in SUBSET Nat
    OBVIOUS
  <2>2. Min(at) \in at
    <3> HIDE DEF at
    <3>1. QED
      BY <1>2, <2>1, MinIn
  <2>3. Len(args) \in Nat /\ DOMAIN args = 1..Len(args)
    BY SequenceIs
  <2>4. Min(at) + 1 \in DOMAIN args
    BY <2>2, <2>3
  <2>5. QED
    BY <1>1, <1>2, <2>4 DEF Range1
<1>3. QED
  BY <1>1, <1>2

(* So is the positional argument. *)
LEMMA PositionalIn ==
  ASSUME NEW args, SequenceOf(args)
  PROVE  Positional(args) = {} \/ \E tok \in Range1(args) : Positional(args) = {tok}
<1>1. \E found \in SUBSET (2..Len(args)) :
         Positional(args) = IF found = {} THEN {} ELSE {args[Min(found)]}
  <2> DEFINE Skipped[i \in 2..(Len(args) + 1)] == i > 2 /\ args[i - 1] = W("--coin") /\ ~Skipped[i - 1]
             found == {i \in 2..Len(args) : ~Skipped[i] /\ ~IsFlag(args[i])}
  <2>1. Positional(args) = IF found = {} THEN {} ELSE {args[Min(found)]}
    BY DEF Positional
  <2>2. found \in SUBSET (2..Len(args))
    OBVIOUS
  <2> HIDE DEF found
  <2>3. QED
    BY <2>1, <2>2
<1>2. PICK found \in SUBSET (2..Len(args)) :
         Positional(args) = IF found = {} THEN {} ELSE {args[Min(found)]}
  BY <1>1
<1>3. CASE found # {}
  <2>1. Len(args) \in Nat /\ DOMAIN args = 1..Len(args)
    BY SequenceIs
  <2>2. found \in SUBSET Nat /\ found \in SUBSET (1..Len(args))
    BY <2>1
  <2>3. Min(found) \in found
    BY <1>3, <2>2, MinIn
  <2>4. Min(found) \in DOMAIN args
    BY <2>1, <2>2, <2>3
  <2>5. QED
    BY <1>2, <1>3, <2>4 DEF Range1
<1>4. QED
  BY <1>2, <1>3

(* A secret that holds what it says is read as a key or not at all. *)
LEMMA ReadsKeys ==
  ASSUME NEW text, HoldsWhatItSays(text)
  PROVE  \A x \in ParseSecret(text) \cup ParseMasterSecret(text) : x \in Key
  BY DEF HoldsWhatItSays, ParseSecret, ParseMasterSecret, FromWif

(* What a user can type holds what it says, when the lines printed so far do. *)
LEMMA TextsHold ==
  ASSUME SequenceOf(log), \A r \in Range1(log) : LinesOk(r.out),
         NEW text \in Texts
  PROVE  HoldsWhatItSays(text)
<1>1. CASE text \in Typed
  BY <1>1, TypedAssumption
<1>2. CASE text \notin Typed
  <2>1. PICK i \in DOMAIN log : text \in Printed(log[i])
    BY <1>2 DEF Texts
  <2>2. LinesOk(log[i].out)
    BY <2>1 DEF Range1
  <2>3. PICK j \in DOMAIN log[i].out :
           \/ log[i].out[j][1] \in {"secret", "view", "phrase"} /\ text = log[i].out[j][2]
           \/ log[i].out[j][1] = "row" /\ text = log[i].out[j][3]
    BY <2>1 DEF Printed
  <2>4. LineOk(log[i].out[j])
    BY <2>2, <2>3 DEF LinesOk, Range1
  <2>5. QED
    BY <2>3, <2>4 DEF LineOk
<1>3. QED
  BY <1>1, <1>2

(* An argument list of a template is a sequence of words and of such texts. *)
LEMMA FilledOk ==
  ASSUME SequenceOf(log), \A r \in Range1(log) : LinesOk(r.out),
         NEW template \in Template, NEW args \in Filled(template)
  PROVE  ArgsOk(args)
<1>1. SequenceOf(template) /\ \A tok \in Range1(template) : HoldsWhatItSays(tok)
  BY TemplateAssumption, ZenonT(40) DEF SequenceOf, HoldsWhatItSays
<1>2. CASE args = template
  BY <1>1, <1>2 DEF ArgsOk
<1>3. CASE args # template
  <2>1. PICK text \in Texts, hole \in {SecretHole, PhraseHole} : args = Fill(template, text, hole)
    BY <1>3 DEF Filled
  <2>2. HoldsWhatItSays(text)
    BY TextsHold
  <2>3. Len(template) \in Nat /\ DOMAIN template = 1..Len(template)
    BY <1>1, SequenceIs
  <2>4. args = [i \in 1..Len(template) |-> IF template[i] = hole THEN text ELSE template[i]]
    BY <2>1, <2>3 DEF Fill
  <2> DEFINE S == Range1(template) \cup {text}
  <2>5. args \in Seq(S)
    BY <2>3, <2>4 DEF Range1
  <2>6. SequenceOf(args) /\ Range1(args) \subseteq S
    BY <2>5, SequenceIs
  <2>7. QED
    BY <1>1, <2>2, <2>6 DEF ArgsOk
<1>4. QED
  BY <1>2, <1>3

-----------------------------------------------------------------------------
(* Lines. *)

(* A concatenation holds what its halves hold. *)
LEMMA ConcatHolds ==
  ASSUME NEW S, NEW s \in Seq(S), NEW t \in Seq(S)
  PROVE  s \o t \in Seq(S) /\ Range1(s \o t) = Range1(s) \cup Range1(t)
<1>1. /\ s \o t \in Seq(S) /\ Len(s \o t) = Len(s) + Len(t)
      /\ \A i \in 1..Len(s) : (s \o t)[i] = s[i]
      /\ \A i \in 1..Len(t) : (s \o t)[Len(s) + i] = t[i]
  BY ConcatProperties
<1>2. /\ Len(s) \in Nat /\ DOMAIN s = 1..Len(s) /\ Len(t) \in Nat /\ DOMAIN t = 1..Len(t)
      /\ DOMAIN (s \o t) = 1..(Len(s) + Len(t))
  BY <1>1, LenProperties
<1>3. \A i \in 1..Len(t) : Len(s) + i \in 1..(Len(s) + Len(t))
  BY <1>2
<1>4. Range1(s) \cup Range1(t) \subseteq Range1(s \o t)
  <2>1. ASSUME NEW i \in 1..Len(s) PROVE s[i] \in Range1(s \o t)
    <3>1. i \in 1..(Len(s) + Len(t)) /\ (s \o t)[i] = s[i]
      BY <1>1, <1>2
    <3>2. QED
      BY <1>2, <3>1 DEF Range1
  <2>2. ASSUME NEW i \in 1..Len(t) PROVE t[i] \in Range1(s \o t)
    <3>1. Len(s) + i \in 1..(Len(s) + Len(t)) /\ (s \o t)[Len(s) + i] = t[i]
      BY <1>1, <1>3
    <3>2. QED
      BY <1>2, <3>1 DEF Range1
  <2>3. QED
    BY <1>2, <2>1, <2>2 DEF Range1
<1>5. Range1(s \o t) \subseteq Range1(s) \cup Range1(t)
  BY RangeOfConcat
<1>6. QED
  BY <1>1, <1>4, <1>5

(* A wallet of a CryptoNote key prints two secrets: the phrase is never the hex. *)
LEMMA TwoSecrets ==
  ASSUME NEW w, NEW spec, NEW k, NEW net, NEW legacy, IsWalletOf(w, spec, k, net, legacy)
  PROVE  w.fam = "CryptoNote" => w.secret_std # w.secret_hex
  BY DEF IsWalletOf, SecretStd, Words, Hex

(* What the single-key commands print of a wallet: its address, then secrets and a view key of
   its own; `new` leaves out neither the address nor the raw key. *)
LEMMA LinesOfWallet ==
  ASSUME NEW w, w.fam = "CryptoNote" => w.secret_std # w.secret_hex
  PROVE  /\ SequenceOf(NewLines(w)) /\ SequenceOf(InspectLines(w))
         /\ {AddressLine(w.address), SecretLine(w.secret_hex)} \subseteq Range1(NewLines(w))
         /\ Range1(NewLines(w)) \subseteq
                {AddressLine(w.address), SecretLine(w.secret_std), SecretLine(w.secret_hex)}
                \cup {ViewLine(ViewKey[w.secret_hex[2]])}
         /\ Range1(InspectLines(w)) \subseteq {AddressLine(w.address), ViewLine(ViewKey[w.secret_hex[2]])}
<1> DEFINE a == AddressLine(w.address)
           d == SecretLine(w.secret_std)
           h == SecretLine(w.secret_hex)
           v == ViewLine(ViewKey[w.secret_hex[2]])
           S == {a, d, h, v}
           rest == CASE w.fam = "CryptoNote" -> <<d, v, h>>
                     [] w.secret_std = w.secret_hex -> <<h>>
                     [] OTHER -> <<d, h>>
           view == IF w.fam = "CryptoNote" THEN <<v>> ELSE << >>
<1>1. NewLines(w) = <<a>> \o rest /\ InspectLines(w) = <<a>> \o view
  BY DEF NewLines, InspectLines
<1> HIDE DEF a, d, h, v
<1>2. rest \in {<<d, v, h>>, <<h>>, <<d, h>>}
  <2>1. CASE w.fam = "CryptoNote"
    BY <2>1
  <2>2. CASE w.fam # "CryptoNote" /\ w.secret_std = w.secret_hex
    BY <2>2
  <2>3. CASE w.fam # "CryptoNote" /\ w.secret_std # w.secret_hex
    BY <2>3
  <2>4. QED
    BY <2>1, <2>2, <2>3
<1>3. view \in {<<v>>, << >>}
  OBVIOUS
<1> HIDE DEF rest, view
<1>4. /\ <<a>> \in Seq(S) /\ <<a>> \in Seq({a, v}) /\ Range1(<<a>>) = {a}
      /\ <<d, v, h>> \in Seq(S) /\ <<h>> \in Seq(S) /\ <<d, h>> \in Seq(S)
      /\ <<v>> \in Seq({a, v}) /\ << >> \in Seq({a, v})
  BY DEF Range1
<1>5. h \in Range1(<<d, v, h>>) /\ h \in Range1(<<h>>) /\ h \in Range1(<<d, h>>)
  BY DEF Range1
<1>6. rest \in Seq(S) /\ h \in Range1(rest)
  BY <1>2, <1>4, <1>5
<1>7. view \in Seq({a, v})
  BY <1>3, <1>4
<1> HIDE DEF S
<1>8. NewLines(w) \in Seq(S) /\ {a, h} \subseteq Range1(NewLines(w))
  <2> DEFINE b == <<a>>
  <2>1. NewLines(w) = b \o rest /\ b \in Seq(S) /\ Range1(b) = {a}
    BY <1>1, <1>4
  <2> HIDE DEF b
  <2>2. QED
    BY <1>6, <2>1, ConcatHolds
<1>9. InspectLines(w) \in Seq({a, v})
  <2> DEFINE b == <<a>>
  <2>1. InspectLines(w) = b \o view /\ b \in Seq({a, v})
    BY <1>1, <1>4
  <2> HIDE DEF b
  <2>2. QED
    BY <1>7, <2>1, ConcatHolds
<1>10. /\ SequenceOf(NewLines(w)) /\ Range1(NewLines(w)) \subseteq S
       /\ SequenceOf(InspectLines(w)) /\ Range1(InspectLines(w)) \subseteq {a, v}
  BY <1>8, <1>9, SequenceIs
<1>11. QED
  BY <1>8, <1>10 DEF S, a, d, h, v

(* These lines hold what they say. *)
LEMMA WalletLinesOk ==
  ASSUME NEW w, NEW spec, NEW k, NEW net, NEW legacy, IsWalletOf(w, spec, k, net, legacy)
  PROVE  LinesOk(NewLines(w)) /\ LinesOk(InspectLines(w))
<1>1. k \in Key /\ Canon(spec.params, k) \in Key
  BY CanonAddresses DEF IsWalletOf
<1>2. w.secret_hex = Hex(Canon(spec.params, k)) /\ w.secret_std = SecretStd(spec.params, k)
  BY DEF IsWalletOf
<1>3. HoldsWhatItSays(w.secret_hex)
  BY <1>1, <1>2 DEF HoldsWhatItSays, Hex
<1>4. HoldsWhatItSays(w.secret_std)
  <2>1. \/ \E byte, c : w.secret_std = Wif(byte, k, c)
        \/ w.secret_std = EthHex(k)
        \/ w.secret_std = Words(Reduce[k])
        \/ w.secret_std = Hex(k)
    BY <1>2 DEF SecretStd
  <2>2. QED
    BY <1>1, <2>1 DEF HoldsWhatItSays, Wif, EthHex, Words, Hex
<1>5. HoldsWhatItSays(Hex(ViewKey[w.secret_hex[2]]))
  <2>1. w.secret_hex[2] \in Key
    BY <1>1, <1>2 DEF Hex
  <2>2. QED
    BY <2>1, ViewKeyAssumption DEF HoldsWhatItSays, Hex
<1>6. /\ LineOk(AddressLine(w.address)) /\ LineOk(SecretLine(w.secret_std)) /\ LineOk(SecretLine(w.secret_hex))
      /\ LineOk(ViewLine(ViewKey[w.secret_hex[2]]))
  BY <1>3, <1>4, <1>5 DEF LineOk, AddressLine, SecretLine, ViewLine
<1>7. QED
  BY <1>6, TwoSecrets, LinesOfWallet DEF LinesOk

(* A line of such a sequence, appended, keeps it one. *)
LEMMA LinesGrow ==
  ASSUME NEW lines, LinesOk(lines), NEW l, LineOk(l)
  PROVE  LinesOk(Append(lines, l))
  BY AppendHolds DEF LinesOk

(* No line has been written. *)
LEMMA NoLines == LinesOk(<< >>)
  BY EmptyHolds DEF LinesOk

-----------------------------------------------------------------------------
(* Wallets. *)

(* The network of a command line is one. *)
LEMMA NetIs ==
  ASSUME NEW args
  PROVE  Net(args) \in Network /\ Legacy(args) \in BOOLEAN
  BY DEF Net, Network, Legacy, HasFlag

(* The wallet `new` shows for a key drawn: a wallet of that key, or of its reduced form where
   it is derived again from the raw hex for --legacy. *)
LEMMA MintedOk ==
  ASSUME NEW args, NEW k \in Key, IsOk(ResolveSpec(Coin(args))), InRange(args, k),
         IsOk(Minted(args, k))
  PROVE  ShowsWallet(args, Minted(args, k)[2])
<1> DEFINE spec == SpecOf(args)
           net  == Net(args)
<1>0. ResolveSpec(Coin(args))[2] = spec /\ (k \in Scalar \/ spec.params.fam = "Noid")
  BY DEF SpecOf, InRange
<1>1. CASE IsOk(Fresh(args, k)) /\ Legacy(args)
  <2>1. IsWalletOf(Fresh(args, k)[2], spec, k, net, FALSE)
    BY <1>0, <1>1, BuildWalletOk DEF Fresh
  <2> DEFINE text == Hex(Canon(spec.params, k))
  <2>2. Fresh(args, k)[2].secret_hex = text
    BY <2>1 DEF IsWalletOf
  <2>3. \A x \in ParseSecret(text) \cup ParseMasterSecret(text) : x = Canon(spec.params, k)
    BY DEF ParseSecret, ParseMasterSecret, FromWif, Hex
  <2>4. \A x \in ParseSecret(text) \cup ParseMasterSecret(text) : x \in Key
    BY <2>3, CanonAddresses
  <2>5. Minted(args, k) = WalletFromSecret(Coin(args), text, net, TRUE)
    BY <1>1, <2>2 DEF Minted
  <2>6. \E x \in ParseSecret(text) \cup ParseMasterSecret(text) :
            IsWalletOf(Minted(args, k)[2], ResolveSpec(Coin(args))[2], x, net, TRUE)
    <3> HIDE DEF text, net, spec
    <3>1. QED
      BY <2>4, <2>5, WalletReads
  <2>7. \E x \in Key : IsWalletOf(Minted(args, k)[2], spec, x, net, TRUE)
    BY <1>0, <2>4, <2>6
  <2>8. Legacy(args) = TRUE
    BY <1>1, NetIs
  <2>9. QED
    BY <2>7, <2>8 DEF ShowsWallet
<1>2. CASE ~(IsOk(Fresh(args, k)) /\ Legacy(args))
  <2>1. Minted(args, k) = Fresh(args, k) /\ IsOk(Fresh(args, k))
    BY <1>2 DEF Minted
  <2>2. Legacy(args) = FALSE
    BY <1>2, <2>1, NetIs
  <2>3. IsWalletOf(Minted(args, k)[2], spec, k, net, FALSE)
    BY <1>0, <2>1, BuildWalletOk DEF Fresh
  <2>4. QED
    BY <2>2, <2>3 DEF ShowsWallet
<1>3. QED
  BY <1>1, <1>2

(* Nor does an error of it look like anything but an error. *)
LEMMA MintedFails ==
  ASSUME NEW args, NEW k \in Key, IsOk(ResolveSpec(Coin(args))), InRange(args, k),
         ~IsOk(Minted(args, k))
  PROVE  Minted(args, k)[2] \in Errors
<1> DEFINE spec == SpecOf(args)
           net  == Net(args)
<1>0. ResolveSpec(Coin(args))[2] = spec /\ (k \in Scalar \/ spec.params.fam = "Noid")
  BY DEF SpecOf, InRange
<1>1. CASE IsOk(Fresh(args, k)) /\ Legacy(args)
  <2>1. IsWalletOf(Fresh(args, k)[2], spec, k, net, FALSE)
    BY <1>0, <1>1, BuildWalletOk DEF Fresh
  <2> DEFINE text == Hex(Canon(spec.params, k))
  <2>2. Fresh(args, k)[2].secret_hex = text
    BY <2>1 DEF IsWalletOf
  <2>3. \A x \in ParseSecret(text) \cup ParseMasterSecret(text) : x = Canon(spec.params, k)
    BY DEF ParseSecret, ParseMasterSecret, FromWif, Hex
  <2>4. \A x \in ParseSecret(text) \cup ParseMasterSecret(text) : x \in Key
    BY <2>3, CanonAddresses
  <2>5. Minted(args, k) = WalletFromSecret(Coin(args), text, net, TRUE)
    BY <1>1, <2>2 DEF Minted
  <2> HIDE DEF text, net, spec
  <2>6. QED
    BY <2>4, <2>5, WalletReads
<1>2. CASE ~(IsOk(Fresh(args, k)) /\ Legacy(args))
  <2>1. Minted(args, k) = Fresh(args, k)
    BY <1>2 DEF Minted
  <2>2. Minted(args, k)[2] = "UnsupportedTestnet"
    BY <1>0, <2>1, BuildWalletOk DEF Fresh
  <2>3. QED
    BY <2>2 DEF Errors
<1>3. QED
  BY <1>1, <1>2

(* The wallet `restore` shows is one of a key it was given. *)
LEMMA AnswerOk ==
  ASSUME NEW args, ArgsOk(args), Route(args) = "inspect"
  PROVE  /\ IsOk(Answer(args)) => ShowsWallet(args, Answer(args)[2])
         /\ ~IsOk(Answer(args)) => Answer(args)[2] \in Errors
<1> DEFINE text == The(Positional(args))
<1>1. Positional(args) # {}
  BY DEF Route
<1>2. HoldsWhatItSays(text)
  <2>1. PICK tok \in Range1(args) : Positional(args) = {tok}
    BY <1>1, PositionalIn DEF ArgsOk
  <2>2. text = tok
    BY <2>1, TheOfSingleton
  <2> HIDE DEF text
  <2>3. QED
    BY <2>2 DEF ArgsOk
<1>3. \A x \in ParseSecret(text) \cup ParseMasterSecret(text) : x \in Key
  BY <1>2, ReadsKeys
<1>4. Answer(args) = WalletFromSecret(Coin(args), text, Net(args), Legacy(args))
  BY DEF Answer
<1> HIDE DEF text
<1>5. \/ ~IsOk(Answer(args)) /\ Answer(args)[2] \in Errors
      \/ /\ IsOk(Answer(args)) /\ IsOk(ResolveSpec(Coin(args)))
         /\ \E k \in ParseSecret(text) \cup ParseMasterSecret(text) :
                IsWalletOf(Answer(args)[2], ResolveSpec(Coin(args))[2], k, Net(args), Legacy(args))
  BY <1>3, <1>4, WalletReads
<1>6. QED
  BY <1>3, <1>5 DEF ShowsWallet, SpecOf

-----------------------------------------------------------------------------
(* The invariant, kept by every step. *)

(* A command line selects one of five commands. *)
LEMMA RouteIn ==
  ASSUME NEW args
  PROVE  Route(args) \in {"Usage", "list", "new", "inspect", "hd"}
<1> DEFINE verb == IF args = << >> THEN "none" ELSE Word(args[1])
<1>1. Route(args) =
        CASE verb = "new" /\ HasFlag(args, "--hd") -> "hd"
          [] verb = "restore" /\ HasFlag(args, "--mnemonic") -> "hd"
          [] verb = "new" /\ ~HasFlag(args, "--hd") -> IF NoCoin(args) THEN "Usage" ELSE "new"
          [] verb \in SingleKeyVerbs /\ ~(verb = "restore" /\ HasFlag(args, "--mnemonic")) ->
                IF NoCoin(args) \/ Positional(args) = {} THEN "Usage" ELSE "inspect"
          [] verb = "list" -> "list"
          [] OTHER -> "Usage"
  BY DEF Route
<1> HIDE DEF verb
<1>2. QED
  BY <1>1

(* What an HD command complains of is never that it was killed. *)
LEMMA HdErrors ==
  ASSUME NEW args, HdArgsError(args) # {}
  PROVE  The(HdArgsError(args)) \in {"MainnetOnly", "BadPurpose", "BadNumber", "Usage", "NotHd"}
<1>1. HdArgsError(args) \subseteq {"MainnetOnly", "BadPurpose", "BadNumber", "Usage", "NotHd"}
  BY DEF HdArgsError
<1>2. QED
  BY <1>1, TheIsIn

(* Without a complaint the coins it derives are HD rows of the table, and so is every purpose
   it is given. *)
LEMMA HdCoinsOk ==
  ASSUME NEW args, HdArgsError(args) = {}
  PROVE  /\ HdCoins(args) \in Seq(Rows) /\ \A spec \in Range1(HdCoins(args)) : HdCapable(spec)
         /\ \A word \in Purposes(args) : ParsePurpose(word) # {}
<1>1. ~(\E word \in Purposes(args) : ParsePurpose(word) = {})
  BY DEF HdArgsError
<1>2. CASE HasFlag(args, "--all")
  <2>1. HdCoins(args) = Supported
    BY <1>2 DEF HdCoins
  <2>2. Supported \in Seq(Rows) /\ Range1(Supported) \subseteq Rows
    BY SupportedIs, SequenceIs
  <2>3. QED
    BY <1>1, <2>1, <2>2, SupportedIs
<1>3. CASE ~HasFlag(args, "--all")
  <2> DEFINE spec == The(HdLookup(Coin(args)))
  <2>1. HdCoins(args) = <<spec>>
    BY <1>3 DEF HdCoins
  <2>2. HdLookup(Coin(args)) # {}
    BY <1>3 DEF HdArgsError
  <2>3. spec \in HdLookup(Coin(args))
    BY <2>2, TheIsIn
  <2>4. spec \in Rows /\ HdCapable(spec)
    BY <2>3 DEF HdLookup, Lookup
  <2> HIDE DEF spec
  <2>5. QED
    BY <1>1, <2>1, <2>4 DEF Range1
<1>4. QED
  BY <1>2, <1>3

(* The number of killed runs after one more. *)
LEMMA KillsAfter ==
  ASSUME SequenceOf(log), NEW r, log' = Append(log, r)
  PROVE  /\ Kills \in Nat /\ Kills' \in Nat
         /\ Kills' = IF r.status = "Killed" THEN Kills + 1 ELSE Kills
<1> DEFINE N == Len(log)
           S == {i \in 1..N : log[i].status = "Killed"}
           T == {i \in 1..(N + 1) : log'[i].status = "Killed"}
<1>1. /\ N \in Nat /\ DOMAIN log = 1..N /\ SequenceOf(log') /\ Len(log') = N + 1
      /\ log'[N + 1] = r /\ \A i \in 1..N : log'[i] = log[i]
  BY AppendHolds, SequenceIs
<1>2. DOMAIN log' = 1..(N + 1)
  BY <1>1, LenProperties DEF SequenceOf
<1>3. Kills = Cardinality(S) /\ Kills' = Cardinality(T)
  BY <1>1, <1>2 DEF Kills
<1>4. IsFiniteSet(S)
  <2>1. IsFiniteSet(1..N)
    BY <1>1, FS_Interval
  <2>2. S \subseteq 1..N
    OBVIOUS
  <2>3. QED
    BY <2>1, <2>2, FS_Subset
<1>5. T = IF r.status = "Killed" THEN S \cup {N + 1} ELSE S
  BY <1>1
<1>6. N + 1 \notin S
  BY <1>1
<1> HIDE DEF S, T
<1>7. QED
  BY <1>3, <1>4, <1>5, <1>6, FS_AddElement, FS_CardinalityType

(* A run that ends as RunOk says keeps the invariant. *)
LEMMA FinishKeeps ==
  ASSUME IInv, pc # "idle", NEW status, Finish(status),
         RunOk([argv |-> argv, out |-> out, status |-> status]),
         status = "Killed" => Kills < MaxKills
  PROVE  IInv'
<1> DEFINE r == [argv |-> argv, out |-> out, status |-> status]
<1>1. /\ log' = Append(log, r) /\ pc' = "idle" /\ argv' = << >> /\ key' = {} /\ phrase' = {}
      /\ todo' = << >> /\ left' = << >> /\ out' = << >> /\ r.status = status /\ RunOk(r)
  BY DEF Finish, FinishWith
<1> HIDE DEF r
<1>2. SequenceOf(log) /\ (\A x \in Range1(log) : RunOk(x)) /\ Len(log) < MaxRuns /\ Kills <= MaxKills
  BY DEF IInv
<1>3. SequenceOf(log') /\ Len(log') = Len(log) + 1 /\ \A x \in Range1(log') : RunOk(x)
  BY <1>1, <1>2, AppendHolds
<1>4. MaxRuns \in Nat /\ MaxKills \in Nat
  BY RunsAssumption
<1>5. Len(log') <= MaxRuns
  BY <1>2, <1>3, <1>4, SequenceIs
<1>6. Kills' <= MaxKills
  BY <1>1, <1>2, <1>4, KillsAfter
<1>7. ArgsOk(argv') /\ LinesOk(out') /\ LinesOk(todo')
  BY <1>1, EmptyHolds, NoLines DEF ArgsOk
<1>8. Holds(key', Key) /\ Holds(phrase', Phrase) /\ left' \in Seq(Rows) /\ \A spec \in Range1(left') : HdCapable(spec)
  BY <1>1, EmptyHolds DEF Holds
<1>9. PcOk'
  BY <1>1 DEF PcOk, Pcs
<1>10. ShownOk'
  BY <1>1 DEF ShownOk
<1>11. QED
  BY <1>1, <1>3, <1>5, <1>6, <1>7, <1>8, <1>9, <1>10 DEF IInv

(* A step that ends no run keeps what the invariant says of the finished ones. *)
LEMMA GoesOn ==
  ASSUME IInv, log' = log, pc # "idle" \/ Len(log) < MaxRuns,
         ArgsOk(argv'), LinesOk(out'), LinesOk(todo'), Holds(key', Key), Holds(phrase', Phrase),
         left' \in Seq(Rows), \A spec \in Range1(left') : HdCapable(spec),
         pc' \in {"validate", "mint", "show", "rows"} => HdArgsError(argv') = {},
         PcOk', ShownOk'
  PROVE  IInv'
<1>1. SequenceOf(log') /\ (\A r \in Range1(log') : RunOk(r)) /\ Len(log') <= MaxRuns /\ Len(log') < MaxRuns
  BY DEF IInv
<1>2. Kills' <= MaxKills
  BY DEF IInv, Kills
<1>3. QED
  BY <1>1, <1>2 DEF IInv

(* A user starts a run. *)
LEMMA StartKeeps == ASSUME IInv, Start PROVE IInv'
<1>1. PICK template \in Template : \E args \in Filled(template) : argv' = args /\ pc' = Route(args)
  BY DEF Start, Goto
<1>2. argv' \in Filled(template) /\ pc' = Route(argv')
  BY <1>1
<1>3. pc = "idle" /\ Len(log) < MaxRuns /\ UNCHANGED <<key, phrase, todo, left, out, log>>
  BY DEF Start
<1>4. ArgsOk(argv')
  <2>1. SequenceOf(log) /\ \A r \in Range1(log) : LinesOk(r.out)
    BY DEF IInv, RunOk
  <2>2. QED
    BY <1>2, <2>1, FilledOk
<1>5. pc' \in {"Usage", "list", "new", "inspect", "hd"}
  BY <1>2, RouteIn
<1>6. todo = << >> /\ out = << >> /\ key = {}
  BY <1>3 DEF IInv, PcOk
<1>7. PcOk'
  BY <1>2, <1>3, <1>5, <1>6 DEF PcOk, Pcs
<1>8. ShownOk'
  BY <1>5 DEF ShownOk
<1>9. QED
  BY <1>3, <1>4, <1>5, <1>7, <1>8, GoesOn DEF IInv

(* A run that has written nothing ends with an error, or is a command that prints no key. *)
LEMMA SilentRun ==
  ASSUME NEW args, ArgsOk(args), NEW status, NEW r, r = [argv |-> args, out |-> << >>, status |-> status],
         Route(args) = "new" => status # "Ok",
         Route(args) = "inspect" => status # "Ok" /\ (status = "Killed" \/ ~IsOk(Answer(args)))
  PROVE  RunOk(r)
<1>1. r.argv = args /\ r.out = << >> /\ r.status = status
  OBVIOUS
<1>2. QED
  BY <1>1, NoLines DEF RunOk

(* A command line that is a mistake. *)
LEMMA UsageKeeps == ASSUME IInv, Usage PROVE IInv'
<1>1. ArgsOk(argv) /\ pc = "Usage" /\ Finish("Usage") /\ Route(argv) = "Usage" /\ out = << >>
  BY DEF Usage, IInv, PcOk
<1>2. RunOk([argv |-> argv, out |-> out, status |-> "Usage"])
  BY <1>1, SilentRun
<1>3. QED
  BY <1>1, <1>2, FinishKeeps

(* list. *)
LEMMA ListKeeps == ASSUME IInv, List PROVE IInv'
<1>1. ArgsOk(argv) /\ pc = "list" /\ Finish("Ok") /\ Route(argv) = "list" /\ out = << >>
  BY DEF List, IInv, PcOk
<1>2. RunOk([argv |-> argv, out |-> out, status |-> "Ok"])
  BY <1>1, SilentRun
<1>3. QED
  BY <1>1, <1>2, FinishKeeps

(* new resolves its coin. *)
LEMMA NewKeeps == ASSUME IInv, New PROVE IInv'
<1>1. ArgsOk(argv) /\ pc = "new" /\ Route(argv) = "new" /\ out = << >> /\ todo = << >> /\ key = {}
  BY DEF New, IInv, PcOk
<1>2. CASE IsOk(ResolveSpec(Coin(argv)))
  <2>1. pc' = "draw" /\ UNCHANGED <<argv, key, phrase, todo, left, out, log>>
    BY <1>2 DEF New, Goto
  <2>2. PcOk' /\ ShownOk'
    BY <1>1, <1>2, <2>1 DEF PcOk, Pcs, ShownOk
  <2>3. QED
    BY <1>1, <2>1, <2>2, GoesOn DEF IInv
<1>3. CASE ~IsOk(ResolveSpec(Coin(argv)))
  <2> DEFINE e == ResolveSpec(Coin(argv))[2]
  <2>1. Finish(e)
    BY <1>3 DEF New
  <2>2. e \in {"UnknownCoin", "BadCoinToken"}
    BY <1>3, ResolveErrors
  <2> HIDE DEF e
  <2>3. RunOk([argv |-> argv, out |-> out, status |-> e])
    BY <1>1, <2>2, SilentRun
  <2>4. QED
    BY <1>1, <2>1, <2>2, <2>3, FinishKeeps
<1>4. QED
  BY <1>2, <1>3

(* Entropy is drawn. *)
LEMMA DrawKeeps == ASSUME IInv, NEW k \in Key, Draw(k) PROVE IInv'
<1>1. /\ pc = "draw" /\ key' = {k} /\ pc' = "check" /\ UNCHANGED <<argv, phrase, todo, left, out, log>>
      /\ Route(argv) = "new" /\ IsOk(ResolveSpec(Coin(argv))) /\ out = << >> /\ todo = << >>
  BY DEF Draw, Goto, IInv, PcOk
<1>2. Holds(key', Key)
  BY <1>1 DEF Holds
<1>3. PcOk' /\ ShownOk'
  BY <1>1 DEF PcOk, Pcs, ShownOk
<1>4. QED
  BY <1>1, <1>2, <1>3, GoesOn DEF IInv

(* Entropy fails. *)
LEMMA EntropyFailsKeeps == ASSUME IInv, EntropyFails PROVE IInv'
<1>1. /\ ArgsOk(argv) /\ pc \in {"draw", "mint"} /\ Finish("Entropy") /\ Route(argv) \in {"new", "hd"}
      /\ out = << >>
  BY DEF EntropyFails, IInv, PcOk
<1>2. RunOk([argv |-> argv, out |-> out, status |-> "Entropy"])
  BY <1>1, SilentRun
<1>3. QED
  BY <1>1, <1>2, FinishKeeps

(* The wallet of a key in range is built and its lines are ready, or its error ends the run. *)
LEMMA CheckKeeps == ASSUME IInv, Check PROVE IInv'
<1>1. /\ ArgsOk(argv) /\ pc = "check" /\ Route(argv) = "new" /\ out = << >> /\ todo = << >>
      /\ IsOk(ResolveSpec(Coin(argv))) /\ key # {} /\ Holds(key, Key)
  BY DEF Check, IInv, PcOk
<1>2. PICK k \in Key : key = {k} /\ The(key) = k
  BY <1>1, TheOfSingleton DEF Holds
<1>3. CASE InRange(argv, k)
  <2> DEFINE w == Minted(argv, k)
  <2>1. w = NewWallet(k)
    BY DEF Minted, Fresh, SpecOf, NewWallet
  <2>2. Write(w, NewLines)
    BY <1>2, <1>3, <2>1 DEF Check, InRange, SpecOf
  <2>3. CASE IsOk(w)
    <3>1. todo' = NewLines(w[2]) /\ pc' = "write" /\ UNCHANGED <<argv, key, phrase, left, out, log>>
      BY <2>2, <2>3 DEF Write, Goto
    <3>2. ShowsWallet(argv, w[2])
      BY <1>1, <1>3, <2>3, MintedOk
    <3>3. LinesOk(todo')
      BY <3>1, <3>2, WalletLinesOk DEF ShowsWallet
    <3>4. PcOk'
      BY <1>1, <3>1 DEF PcOk, Pcs
    <3>5. NewWrote(argv, Range1(out) \cup Range1(NewLines(w[2])), TRUE)
      <4>1. Range1(out) = {}
        BY <1>1, EmptyHolds
      <4>2. QED
        BY <1>3, <2>3, <3>2, <4>1 DEF NewWrote
    <3> HIDE DEF w
    <3>6. ShownOk'
      BY <1>1, <1>2, <1>3, <3>1, <3>5 DEF ShownOk
    <3>7. QED
      BY <1>1, <3>1, <3>3, <3>4, <3>6, GoesOn DEF IInv
  <2>4. CASE ~IsOk(w)
    <3>1. Finish(w[2])
      BY <2>2, <2>4 DEF Write
    <3>2. w[2] \in Errors
      BY <1>1, <1>3, <2>4, MintedFails
    <3> HIDE DEF w
    <3>3. RunOk([argv |-> argv, out |-> out, status |-> w[2]])
      BY <1>1, <3>2, SilentRun DEF Errors
    <3>4. QED
      BY <1>1, <3>1, <3>2, <3>3, FinishKeeps DEF Errors
  <2>5. QED
    BY <2>3, <2>4
<1>4. CASE ~InRange(argv, k)
  <2>1. pc' = "draw" /\ key' = {} /\ UNCHANGED <<argv, phrase, todo, left, out, log>>
    BY <1>2, <1>4 DEF Check, Goto, InRange, SpecOf
  <2>2. PcOk' /\ ShownOk' /\ Holds(key', Key)
    BY <1>1, <2>1 DEF PcOk, Pcs, ShownOk, Holds
  <2>3. QED
    BY <1>1, <2>1, <2>2, GoesOn DEF IInv
<1>5. QED
  BY <1>3, <1>4

(* restore, inspect and address answer. *)
LEMMA InspectKeeps == ASSUME IInv, Inspect PROVE IInv'
<1>1. ArgsOk(argv) /\ pc = "inspect" /\ Route(argv) = "inspect" /\ out = << >> /\ todo = << >>
  BY DEF Inspect, IInv, PcOk
<1> DEFINE w == Answer(argv)
<1>2. Write(w, InspectLines)
  BY DEF Inspect, Answer
<1>3. CASE IsOk(w)
  <2>1. todo' = InspectLines(w[2]) /\ pc' = "write" /\ UNCHANGED <<argv, key, phrase, left, out, log>>
    BY <1>2, <1>3 DEF Write, Goto
  <2>2. ShowsWallet(argv, w[2])
    BY <1>1, <1>3, AnswerOk
  <2>3. LinesOk(todo')
    BY <2>1, <2>2, WalletLinesOk DEF ShowsWallet
  <2>4. PcOk'
    BY <1>1, <2>1 DEF PcOk, Pcs
  <2>5. InspectWrote(argv, Range1(out) \cup Range1(InspectLines(w[2])))
    <3>1. Range1(out) = {}
      BY <1>1, EmptyHolds
    <3>2. QED
      BY <1>3, <2>2, <3>1 DEF InspectWrote
  <2>6. key = {}
    BY <1>1 DEF IInv, PcOk
  <2> HIDE DEF w
  <2>7. ShownOk'
    BY <1>1, <2>1, <2>5, <2>6 DEF ShownOk
  <2>8. QED
    BY <1>1, <2>1, <2>3, <2>4, <2>7, GoesOn DEF IInv
<1>4. CASE ~IsOk(w)
  <2>1. Finish(w[2])
    BY <1>2, <1>4 DEF Write
  <2>2. w[2] \in Errors
    BY <1>1, <1>4, AnswerOk
  <2>3. ~IsOk(Answer(argv))
    BY <1>4
  <2> HIDE DEF w
  <2>4. RunOk([argv |-> argv, out |-> out, status |-> w[2]])
    BY <1>1, <2>2, <2>3, SilentRun DEF Errors
  <2>5. QED
    BY <1>1, <2>1, <2>2, <2>4, FinishKeeps DEF Errors
<1>5. QED
  BY <1>3, <1>4

(* A line is written, or there is none left and the run is done. *)
LEMMA WriteLineKeeps == ASSUME IInv, WriteLine PROVE IInv'
<1>1. /\ ArgsOk(argv) /\ LinesOk(out) /\ LinesOk(todo) /\ pc = "write"
      /\ \/ /\ Route(argv) = "new" /\ IsOk(ResolveSpec(Coin(argv)))
            /\ key # {} /\ InRange(argv, The(key))
            /\ NewWrote(argv, Range1(out) \cup Range1(todo), TRUE)
         \/ Route(argv) = "inspect" /\ key = {} /\ InspectWrote(argv, Range1(out) \cup Range1(todo))
  BY DEF WriteLine, IInv, ShownOk
<1>2. CASE todo = << >>
  <2>1. Finish("Ok")
    BY <1>2 DEF WriteLine
  <2>2. Range1(out) \cup Range1(todo) = Range1(out)
    BY <1>2, EmptyHolds
  <2>3. RunOk([argv |-> argv, out |-> out, status |-> "Ok"])
    <3>1. \/ Route(argv) = "new" /\ NewWrote(argv, Range1(out), TRUE)
          \/ Route(argv) = "inspect" /\ InspectWrote(argv, Range1(out))
      BY <1>1, <2>2
    <3>2. "Ok" = "Ok" <=> TRUE
      OBVIOUS
    <3>3. NewWrote(argv, Range1(out), TRUE) => NewWrote(argv, Range1(out), "Ok" = "Ok")
      BY DEF NewWrote
    <3> DEFINE r == [argv |-> argv, out |-> out, status |-> "Ok"]
    <3>4. r.argv = argv /\ r.out = out /\ r.status = "Ok"
      OBVIOUS
    <3>5. NewWrote(argv, Range1(out), "Ok" = "Ok") => NewWrote(r.argv, Range1(r.out), r.status = "Ok")
      BY <3>4 DEF NewWrote
    <3> HIDE DEF r
    <3>6. RunOk(r)
      BY <1>1, <3>1, <3>3, <3>4, <3>5 DEF RunOk
    <3>7. QED
      BY <3>6 DEF r
  <2>4. QED
    BY <1>1, <2>1, <2>3, FinishKeeps
<1>3. CASE todo # << >>
  <2>1. out' = Append(out, Head(todo)) /\ todo' = Tail(todo) /\ UNCHANGED <<argv, pc, key, phrase, left, log>>
    BY <1>3 DEF WriteLine
  <2>2. SequenceOf(out) /\ todo \in Seq(Range1(todo))
    BY <1>1 DEF LinesOk, SequenceOf
  <2>3. /\ Head(todo) \in Range1(todo) /\ Tail(todo) \in Seq(Range1(todo))
        /\ Range1(todo) = {Head(todo)} \cup Range1(Tail(todo))
    BY <1>3, <2>2, RangeOfHeadTail
  <2>4. Range1(out') = Range1(out) \cup {Head(todo)}
    BY <2>1, <2>2, AppendHolds
  <2>5. Range1(out') \cup Range1(todo') = Range1(out) \cup Range1(todo)
    BY <2>1, <2>3, <2>4
  <2>6. LinesOk(out')
    BY <1>1, <2>1, <2>3, LinesGrow DEF LinesOk
  <2>7. LinesOk(todo')
    <3>1. SequenceOf(Tail(todo)) /\ Range1(Tail(todo)) \subseteq Range1(todo)
      BY <2>3, SequenceIs
    <3>2. QED
      BY <1>1, <2>1, <3>1 DEF LinesOk
  <2>8. PcOk'
    BY <1>1, <2>1 DEF IInv, PcOk
  <2>9. ShownOk'
    BY <1>1, <2>1, <2>5 DEF ShownOk
  <2>10. QED
    BY <1>1, <2>1, <2>6, <2>7, <2>8, <2>9, GoesOn DEF IInv
<1>4. QED
  BY <1>2, <1>3

(* The options of an HD command are read. *)
LEMMA HdArgsKeeps == ASSUME IInv, HdArgs PROVE IInv'
<1>1. ArgsOk(argv) /\ pc = "hd" /\ Route(argv) = "hd" /\ out = << >> /\ todo = << >> /\ key = {}
  BY DEF HdArgs, IInv, PcOk
<1>2. CASE HdArgsError(argv) # {}
  <2> DEFINE e == The(HdArgsError(argv))
  <2>1. Finish(e)
    BY <1>2 DEF HdArgs
  <2>2. e \in {"MainnetOnly", "BadPurpose", "BadNumber", "Usage", "NotHd"}
    BY <1>2, HdErrors
  <2> HIDE DEF e
  <2>3. RunOk([argv |-> argv, out |-> out, status |-> e])
    BY <1>1, SilentRun
  <2>4. QED
    BY <1>1, <2>1, <2>2, <2>3, FinishKeeps
<1>3. CASE HdArgsError(argv) = {}
  <2>1. /\ left' = HdCoins(argv) /\ UNCHANGED <<argv, key, phrase, todo, out, log>>
        /\ pc' = IF Supplied(argv) = {} THEN "mint" ELSE "validate"
    BY <1>3 DEF HdArgs, Goto
  <2>2. left' \in Seq(Rows) /\ \A spec \in Range1(left') : HdCapable(spec)
    BY <1>3, <2>1, HdCoinsOk
  <2>3. PcOk' /\ ShownOk'
    BY <1>1, <2>1 DEF PcOk, Pcs, ShownOk
  <2>4. QED
    BY <1>1, <1>3, <2>1, <2>2, <2>3, GoesOn DEF IInv
<1>4. QED
  BY <1>2, <1>3

(* The phrase given is a phrase, or it ends the run. *)
LEMMA ValidateKeeps == ASSUME IInv, Validate PROVE IInv'
<1>1. /\ ArgsOk(argv) /\ pc = "validate" /\ Route(argv) = "hd" /\ out = << >> /\ todo = << >> /\ key = {}
      /\ Supplied(argv) # {} /\ HdArgsError(argv) = {}
  BY DEF Validate, IInv, PcOk
<1>2. PICK text \in Range1(argv) : Supplied(argv) = {text} /\ The(Supplied(argv)) = text
  <2>1. PICK text \in Range1(argv) : Supplied(argv) = {text}
    BY <1>1, ParseValueIn DEF Supplied, ArgsOk
  <2>2. QED
    BY <2>1, TheOfSingleton
<1>3. CASE text[1] = "phrase"
  <2>1. phrase' = {text[2]} /\ pc' = "rows" /\ UNCHANGED <<argv, key, todo, left, out, log>>
    BY <1>2, <1>3 DEF Validate, Goto
  <2>2. text[2] \in Phrase
    BY <1>1, <1>3 DEF ArgsOk, HoldsWhatItSays
  <2>3. Holds(phrase', Phrase) /\ The(phrase') = text[2]
    BY <2>1, <2>2, TheOfSingleton DEF Holds
  <2>4. Table(argv, text[2], << >>)
    BY <1>2, <2>2 DEF Table
  <2>5. PcOk' /\ ShownOk'
    BY <1>1, <2>1, <2>3, <2>4 DEF PcOk, Pcs, ShownOk
  <2>6. QED
    BY <1>1, <2>1, <2>3, <2>5, GoesOn DEF IInv
<1>4. CASE text[1] # "phrase"
  <2>1. Finish("InvalidMnemonic")
    BY <1>2, <1>4 DEF Validate
  <2>2. RunOk([argv |-> argv, out |-> out, status |-> "InvalidMnemonic"])
    BY <1>1, SilentRun
  <2>3. QED
    BY <1>1, <2>1, <2>2, FinishKeeps
<1>5. QED
  BY <1>3, <1>4

(* A phrase is minted. *)
LEMMA MintKeeps == ASSUME IInv, NEW p \in Phrase, Mint(p) PROVE IInv'
<1>1. /\ pc = "mint" /\ phrase' = {p} /\ pc' = "show" /\ UNCHANGED <<argv, key, todo, left, out, log>>
      /\ Route(argv) = "hd" /\ out = << >> /\ todo = << >> /\ key = {} /\ Supplied(argv) = {}
      /\ HdArgsError(argv) = {}
  BY DEF Mint, Goto, IInv, PcOk
<1>2. Holds(phrase', Phrase)
  BY <1>1 DEF Holds
<1>3. PcOk' /\ ShownOk'
  BY <1>1 DEF PcOk, Pcs, ShownOk
<1>4. QED
  BY <1>1, <1>2, <1>3, GoesOn DEF IInv

(* It is shown. *)
LEMMA ShowPhraseKeeps == ASSUME IInv, ShowPhrase PROVE IInv'
<1>1. /\ pc = "show" /\ out' = Append(out, PhraseLine(The(phrase))) /\ pc' = "rows"
      /\ UNCHANGED <<argv, key, phrase, todo, left, log>>
      /\ Route(argv) = "hd" /\ out = << >> /\ todo = << >> /\ key = {} /\ Supplied(argv) = {}
      /\ HdArgsError(argv) = {} /\ phrase # {}
  BY DEF ShowPhrase, Goto, IInv, PcOk
<1>2. PICK p \in Phrase : The(phrase) = p
  BY <1>1, TheOfSingleton DEF IInv, Holds
<1>3. LinesOk(out')
  <2>1. LineOk(PhraseLine(p))
    BY DEF LineOk, PhraseLine, HoldsWhatItSays
  <2>2. QED
    BY <1>1, <1>2, <2>1, NoLines, LinesGrow
<1>4. out' # << >> /\ Table(argv, p, out')
  <2>1. out' = <<PhraseLine(p)>>
    BY <1>1, <1>2
  <2>2. \A i \in DOMAIN out' : i = 1 /\ out'[i] = PhraseLine(p)
    BY <2>1
  <2>3. out' # << >>
    BY <2>1
  <2>4. QED
    BY <1>1, <2>2, <2>3 DEF Table
<1>5. PcOk'
  BY <1>1 DEF PcOk, Pcs
<1>6. ShownOk'
  BY <1>1, <1>2, <1>4 DEF ShownOk
<1>7. QED
  BY <1>1, <1>3, <1>5, <1>6, GoesOn DEF IInv

(* The purpose a row is derived at is one of those asked for. *)
LEMMA RowPurposeIn ==
  ASSUME NEW spec, HdCapable(spec), HdArgsError(argv) = {}
  PROVE  The(RowPurpose(spec)) \in PurposesOf(argv, spec) /\ The(RowPurpose(spec)) \in Purpose
<1>1. RowPurpose(spec) = PurposesOf(argv, spec)
  BY DEF RowPurpose, PurposesOf
<1>2. PurposesOf(argv, spec) # {} /\ PurposesOf(argv, spec) \subseteq Purpose
  <2>1. CASE Purposes(argv) = {}
    BY <2>1, NativeSupported DEF PurposesOf
  <2>2. CASE Purposes(argv) # {}
    <3>1. The(Purposes(argv)) \in Purposes(argv)
      BY <2>2, TheIsIn
    <3>2. ParsePurpose(The(Purposes(argv))) # {}
      BY <3>1, HdCoinsOk
    <3>3. QED
      BY <2>2, <3>2 DEF PurposesOf, ParsePurpose
  <2>3. QED
    BY <2>1, <2>2
<1>3. QED
  BY <1>1, <1>2, TheIsIn

(* A row derived as asked extends a table. *)
LEMMA TableGrows ==
  ASSUME NEW args, NEW p, NEW lines, SequenceOf(lines), Table(args, p, lines),
         Supplied(args) = {} => lines # << >>,
         NEW l, RowOf(args, p, l)
  PROVE  Table(args, p, Append(lines, l)) /\ Append(lines, l) # << >>
<1> DEFINE more == Append(lines, l)
<1>1. /\ Len(lines) \in Nat /\ DOMAIN lines = 1..Len(lines)
      /\ SequenceOf(more) /\ Len(more) = Len(lines) + 1 /\ more[Len(lines) + 1] = l
      /\ \A i \in 1..Len(lines) : more[i] = lines[i]
  BY AppendHolds, SequenceIs
<1> HIDE DEF more
<1>2. DOMAIN more = 1..(Len(lines) + 1)
  BY <1>1, SequenceIs
<1>3. ASSUME NEW i \in DOMAIN more
      PROVE  IF i = 1 /\ Supplied(args) = {} THEN more[i] = PhraseLine(p) ELSE RowOf(args, p, more[i])
  <2>1. CASE i = Len(lines) + 1
    <3>1. i = 1 => lines = << >>
      BY <1>1, <2>1, EmptySeq DEF SequenceOf
    <3>2. QED
      BY <1>1, <2>1, <3>1
  <2>2. CASE i # Len(lines) + 1
    <3>1. i \in 1..Len(lines)
      BY <1>1, <1>2, <2>2
    <3>2. QED
      BY <1>1, <3>1 DEF Table
  <2>3. QED
    BY <2>1, <2>2
<1>4. more # << >>
  BY <1>1
<1>5. QED
  BY <1>3, <1>4 DEF Table, more

(* A table that ends, for whatever reason, is the run of an HD command. *)
LEMMA TableRun ==
  ASSUME NEW args, ArgsOk(args), Route(args) = "hd", NEW p \in Phrase, NEW lines, LinesOk(lines),
         Table(args, p, lines), NEW status, NEW r, r = [argv |-> args, out |-> lines, status |-> status]
  PROVE  RunOk(r)
<1>1. r.argv = args /\ r.out = lines /\ r.status = status
  OBVIOUS
<1>2. QED
  BY <1>1 DEF RunOk

(* The next coin's row is written, or its error or the last row ends the table. *)
LEMMA DeriveRowKeeps == ASSUME IInv, DeriveRow PROVE IInv'
<1>1. /\ ArgsOk(argv) /\ LinesOk(out) /\ pc = "rows" /\ Route(argv) = "hd" /\ todo = << >> /\ key = {}
      /\ HdArgsError(argv) = {} /\ phrase # {} /\ Table(argv, The(phrase), out)
      /\ (Supplied(argv) = {} => out # << >>)
      /\ left \in Seq(Rows) /\ \A spec \in Range1(left) : HdCapable(spec)
  BY DEF DeriveRow, IInv, PcOk, ShownOk
<1>2. PICK p \in Phrase : The(phrase) = p
  BY <1>1, TheOfSingleton DEF IInv, Holds
<1>3. CASE left = << >>
  <2>1. Finish("Ok")
    BY <1>3 DEF DeriveRow
  <2>2. RunOk([argv |-> argv, out |-> out, status |-> "Ok"])
    BY <1>1, <1>2, TableRun
  <2>3. QED
    BY <1>1, <2>1, <2>2, FinishKeeps
<1>4. CASE left # << >>
  <2> DEFINE spec == Head(left)
             purpose == The(RowPurpose(spec))
             acct == Derive(p, Passphrase(argv), spec, purpose, Number(argv, "--account"), Number(argv, "--index"))
             path == PathOf(argv, spec, purpose)
             k == Child(p, Passphrase(argv), path)
  <2>1. /\ spec \in Rows /\ Tail(left) \in Seq(Rows) /\ Range1(left) = {spec} \cup Range1(Tail(left))
    BY <1>1, <1>4, RangeOfHeadTail
  <2>2. HdCapable(spec)
    BY <1>1, <2>1
  <2>3. purpose \in PurposesOf(argv, spec) /\ purpose \in Purpose
    BY <1>1, <2>2, RowPurposeIn
  <2>4. IF ~IsOk(acct) THEN Finish(acct[2])
        ELSE /\ out' = Append(out, RowLine(acct[2]))
             /\ left' = Tail(left)
             /\ UNCHANGED <<argv, pc, key, phrase, todo, log>>
    BY <1>2, <1>4 DEF DeriveRow
  <2>5. path = <<purpose, spec.hd_slip44, Number(argv, "--account"), Number(argv, "--index")>>
    BY DEF PathOf
  <2> HIDE DEF acct, purpose, path, k, spec
  <2>6. \/ /\ ~IsOk(acct) /\ acct[2] \in {"UnknownCoin", "UnsupportedPurpose", "Derivation"}
        \/ /\ IsOk(acct) /\ Supports(spec, purpose) /\ k \in Scalar
           /\ acct[2].coin = spec.ticker /\ acct[2].path = path
           /\ acct[2].address = HdAddress(spec.params, purpose, k)
           /\ acct[2].secret = HdSecret(spec.params, k)
    BY <2>5, DeriveIs DEF acct, k
  <2>7. CASE ~IsOk(acct)
    <3>1. Finish(acct[2]) /\ acct[2] # "Killed"
      BY <2>4, <2>6, <2>7
    <3>2. RunOk([argv |-> argv, out |-> out, status |-> acct[2]])
      BY <1>1, <1>2, TableRun
    <3>3. QED
      BY <1>1, <3>1, <3>2, FinishKeeps
  <2>8. CASE IsOk(acct)
    <3> DEFINE row == RowLine(acct[2])
    <3>1. row = <<"row", HdAddress(spec.params, purpose, k), HdSecret(spec.params, k), spec.ticker, path>>
      BY <2>6, <2>8 DEF RowLine
    <3>2. out' = Append(out, row) /\ left' = Tail(left) /\ UNCHANGED <<argv, pc, key, phrase, todo, log>>
      BY <2>4, <2>8
    <3>3. RowOf(argv, p, row)
      BY <2>1, <2>2, <2>3, <2>6, <2>8, <3>1 DEF RowOf, path, k
    <3>4. LineOk(row)
      <4> DEFINE s == HdSecret(spec.params, k)
      <4>1. s[2] = k /\ s[1] \in {"0x", "hex", "wif"} /\ k \in Key
        BY <2>6, <2>8, HdSecretTag, ScalarAssumption
      <4> HIDE DEF s
      <4>2. HoldsWhatItSays(s)
        BY <4>1 DEF HoldsWhatItSays
      <4>3. row[1] = "row" /\ row[3] = s
        BY <3>1 DEF s
      <4> HIDE DEF row
      <4>4. QED
        BY <4>2, <4>3 DEF LineOk
    <3> HIDE DEF row
    <3>5. LinesOk(out')
      BY <1>1, <3>2, <3>4, LinesGrow
    <3>6. Table(argv, p, out') /\ out' # << >>
      BY <1>1, <1>2, <3>2, <3>3, TableGrows DEF LinesOk
    <3>7. PcOk'
      BY <1>1, <3>2 DEF IInv, PcOk
    <3>8. ShownOk'
      BY <1>1, <1>2, <3>2, <3>6 DEF ShownOk
    <3>9. left' \in Seq(Rows) /\ \A x \in Range1(left') : HdCapable(x)
      BY <1>1, <2>1, <3>2
    <3>10. QED
      BY <1>1, <3>2, <3>5, <3>7, <3>8, <3>9, GoesOn DEF IInv
  <2>9. QED
    BY <2>7, <2>8
<1>5. QED
  BY <1>3, <1>4

(* A run is killed: what it has written is what it has shown. *)
LEMMA KillKeeps == ASSUME IInv, Kill PROVE IInv'
<1>1. /\ ArgsOk(argv) /\ LinesOk(out) /\ pc # "idle" /\ Kills < MaxKills /\ Finish("Killed")
  BY DEF Kill, IInv
<1> DEFINE r == [argv |-> argv, out |-> out, status |-> "Killed"]
<1>2. RunOk(r)
  <2>1. CASE pc \notin {"write", "rows"}
    <3>1. out = << >>
      BY <2>1 DEF IInv, PcOk
    <3>2. QED
      BY <1>1, <3>1, SilentRun
  <2>2. CASE pc = "rows"
    <3>1. Route(argv) = "hd" /\ phrase # {} /\ Table(argv, The(phrase), out)
      BY <2>2 DEF IInv, PcOk, ShownOk
    <3>2. QED
      BY <1>1, <3>1, TableRun DEF Table
  <2>3. CASE pc = "write"
    <3>1. r.argv = argv /\ r.out = out /\ r.status = "Killed"
      OBVIOUS
    <3>2. \/ Route(argv) = "new" /\ NewWrote(argv, Range1(out) \cup Range1(todo), TRUE)
          \/ Route(argv) = "inspect" /\ InspectWrote(argv, Range1(out) \cup Range1(todo))
      BY <2>3 DEF IInv, ShownOk
    <3>3. \/ Route(argv) = "new" /\ NewWrote(argv, Range1(out), r.status = "Ok")
          \/ Route(argv) = "inspect" /\ InspectWrote(argv, Range1(out))
      BY <3>1, <3>2 DEF NewWrote, InspectWrote
    <3> HIDE DEF r
    <3>4. QED
      BY <1>1, <3>1, <3>3 DEF RunOk
  <2>4. QED
    BY <2>1, <2>2, <2>3
<1>3. QED
  BY <1>1, <1>2, FinishKeeps

(* Before the first run. *)
LEMMA InitInv == ASSUME Init PROVE IInv
<1>1. /\ argv = << >> /\ pc = "idle" /\ key = {} /\ phrase = {}
      /\ todo = << >> /\ left = << >> /\ out = << >> /\ log = << >>
  BY DEF Init
<1>2. MaxRuns \in Nat /\ MaxKills \in Nat
  BY RunsAssumption
<1>3. Kills = 0
  <2>1. {i \in DOMAIN log : log[i].status = "Killed"} = {}
    BY <1>1
  <2>2. QED
    BY <2>1, FS_EmptySet DEF Kills
<1>4. PcOk /\ ShownOk
  BY <1>1 DEF PcOk, Pcs, ShownOk
<1>5. ArgsOk(argv) /\ LinesOk(out) /\ LinesOk(todo) /\ SequenceOf(log) /\ Range1(log) = {} /\ Range1(left) = {}
  BY <1>1, EmptyHolds, NoLines DEF ArgsOk
<1>6. Holds(key, Key) /\ Holds(phrase, Phrase) /\ left \in Seq(Rows) /\ Len(log) = 0
  BY <1>1 DEF Holds
<1>7. QED
  BY <1>1, <1>2, <1>3, <1>4, <1>5, <1>6 DEF IInv

(* Every step keeps the invariant. *)
LEMMA NextInv == ASSUME IInv, [Next]_vars PROVE IInv'
<1>1. ASSUME UNCHANGED vars PROVE IInv'
  BY <1>1 DEF vars, IInv, PcOk, ShownOk, Kills
<1>2. ASSUME Step PROVE IInv'
  <2>1. ASSUME NEW k \in Key, Draw(k) PROVE IInv'
    BY <2>1, DrawKeeps
  <2>2. ASSUME NEW p \in Phrase, Mint(p) PROVE IInv'
    BY <2>2, MintKeeps
  <2>3. QED
    BY <1>2, <2>1, <2>2, UsageKeeps, ListKeeps, NewKeeps, CheckKeeps, InspectKeeps, WriteLineKeeps,
       HdArgsKeeps, ValidateKeeps, ShowPhraseKeeps, DeriveRowKeeps DEF Step
<1>3. QED
  BY <1>1, <1>2, StartKeeps, EntropyFailsKeeps, KillKeeps DEF Next

(***************************************************************************)
(* What every finished run showed, and what a run under way has shown and  *)
(* is about to show, is what its command line, the key it drew or read and *)
(* the phrase it minted or was given call for (IInv).                      *)
(***************************************************************************)
THEOREM Invariant == Spec => []IInv
<1>1. Init => IInv
  BY InitInv
<1>2. IInv /\ [Next]_vars => IInv'
  BY NextInv
<1>3. QED
  BY <1>1, <1>2, PTL DEF Spec

-----------------------------------------------------------------------------
(* What the invariant gives: types. *)

(* The types of the state. *)
LEMMA InvTypes == ASSUME IInv PROVE TypeOK
<1>1. key \subseteq Key /\ phrase \subseteq Phrase
  BY DEF IInv, Holds
<1>2. \A l \in Range1(out) \cup Range1(todo) : l[1] \in {"address", "secret", "view", "phrase", "row"}
  BY DEF IInv, LinesOk, LineOk
<1>3. Range1(left) \subseteq Range1(Supported)
  <2>1. Range1(left) \subseteq Rows /\ \A spec \in Range1(left) : HdCapable(spec)
    BY SequenceIs DEF IInv
  <2>2. QED
    BY <2>1, SupportedIs
<1>4. pc = "write" => key \subseteq Scalar \/ ResolveSpec(Coin(argv))[2].params.fam = "Noid"
  <2>1. SUFFICES ASSUME pc = "write", key # {}
                 PROVE  key \subseteq Scalar \/ ResolveSpec(Coin(argv))[2].params.fam = "Noid"
    OBVIOUS
  <2>2. InRange(argv, The(key))
    BY <2>1 DEF IInv, ShownOk
  <2>3. key = {The(key)}
    BY <2>1, TheOfSingleton DEF IInv, Holds
  <2>4. QED
    BY <2>2, <2>3 DEF InRange, SpecOf
<1>5. pc \in Pcs /\ (pc = "idle" => argv = << >> /\ out = << >>)
  BY DEF IInv, PcOk
<1>6. QED
  BY <1>1, <1>2, <1>3, <1>4, <1>5 DEF IInv, TypeOK

-----------------------------------------------------------------------------
(* What the invariant gives: the lines of a run say which command it was. *)

(* The lines of a single-key command: its address line is the address of its wallet, its secret
   lines are that wallet's two secrets, and it has no rows and no phrase. *)
LEMMA WalletLinesSay ==
  ASSUME NEW w, w.fam = "CryptoNote" => w.secret_std # w.secret_hex,
         NEW l \in Range1(NewLines(w)) \cup Range1(InspectLines(w))
  PROVE  /\ l[1] \notin {"row", "phrase"}
         /\ l[1] = "address" => l[2] = w.address
         /\ l[1] = "secret" => l[2] \in {w.secret_std, w.secret_hex} /\ l \in Range1(NewLines(w))
<1>1. /\ l \in {AddressLine(w.address), SecretLine(w.secret_std), SecretLine(w.secret_hex)}
               \cup {ViewLine(ViewKey[w.secret_hex[2]])}
      /\ l \in Range1(InspectLines(w)) => l \in {AddressLine(w.address), ViewLine(ViewKey[w.secret_hex[2]])}
  BY LinesOfWallet
<1>2. QED
  BY <1>1 DEF AddressLine, SecretLine, ViewLine

(* A run that shows a row is the table of a phrase. *)
LEMMA RowRun ==
  ASSUME NEW r, RunOk(r), NEW l \in Lines(r, "row") \cup Lines(r, "phrase")
  PROVE  Route(r.argv) = "hd" /\ \E p \in Phrase : Table(r.argv, p, r.out)
<1>1. l \in Range1(r.out) /\ l[1] \in {"row", "phrase"}
  BY DEF Lines
<1>2. r.out # << >>
  BY <1>1, EmptyHolds
<1>3. Route(r.argv) # "new"
  <2>1. SUFFICES ASSUME Route(r.argv) = "new" PROVE FALSE
    OBVIOUS
  <2>2. NewWrote(r.argv, Range1(r.out), r.status = "Ok")
    BY <1>2, <2>1 DEF RunOk
  <2>3. PICK k : ShowsWallet(r.argv, Minted(r.argv, k)[2]) /\ l \in Range1(NewLines(Minted(r.argv, k)[2]))
    BY <1>1, <2>2 DEF NewWrote
  <2>4. QED
    BY <1>1, <2>3, WalletLinesSay, TwoSecrets DEF ShowsWallet
<1>4. Route(r.argv) # "inspect"
  <2>1. SUFFICES ASSUME Route(r.argv) = "inspect" PROVE FALSE
    OBVIOUS
  <2>2. InspectWrote(r.argv, Range1(r.out))
    BY <1>2, <2>1 DEF RunOk
  <2>3. ShowsWallet(r.argv, Answer(r.argv)[2]) /\ l \in Range1(InspectLines(Answer(r.argv)[2]))
    BY <1>1, <2>2 DEF InspectWrote
  <2>4. QED
    BY <1>1, <2>3, WalletLinesSay, TwoSecrets DEF ShowsWallet
<1>5. Route(r.argv) = "hd"
  BY <1>2, <1>3, <1>4 DEF RunOk
<1>6. QED
  BY <1>2, <1>5 DEF RunOk

(* A line of a table is its phrase or a row of it. *)
LEMMA TableLine ==
  ASSUME NEW args, NEW p, NEW lines, Table(args, p, lines), NEW l \in Range1(lines)
  PROVE  \/ l = PhraseLine(p) /\ l[1] = "phrase" /\ l[2][2] = p /\ Supplied(args) = {}
         \/ RowOf(args, p, l) /\ l[1] = "row"
<1>1. (l = PhraseLine(p) /\ Supplied(args) = {}) \/ RowOf(args, p, l)
  BY DEF Table, Range1
<1>2. l = PhraseLine(p) => l[1] = "phrase" /\ l[2][2] = p
  BY DEF PhraseLine
<1>3. RowOf(args, p, l) => l[1] = "row"
  BY DEF RowOf
<1>4. QED
  BY <1>1, <1>2, <1>3

(* A run that shows an address or a secret line is of a single-key command, and shows those of
   a wallet it built for its coin, network and form. *)
LEMMA WalletRun ==
  ASSUME NEW r, RunOk(r), NEW l \in Lines(r, "address") \cup Lines(r, "secret")
  PROVE  \/ Route(r.argv) = "new" /\ NewWrote(r.argv, Range1(r.out), r.status = "Ok")
         \/ Route(r.argv) = "inspect" /\ InspectWrote(r.argv, Range1(r.out))
<1>1. l \in Range1(r.out) /\ l[1] \in {"address", "secret"}
  BY DEF Lines
<1>2. r.out # << >>
  BY <1>1, EmptyHolds
<1>3. Route(r.argv) # "hd"
  <2>1. SUFFICES ASSUME Route(r.argv) = "hd" PROVE FALSE
    OBVIOUS
  <2>2. PICK p \in Phrase : Table(r.argv, p, r.out)
    BY <1>2, <2>1 DEF RunOk
  <2>3. QED
    BY <1>1, <2>2, TableLine
<1>4. QED
  BY <1>2, <1>3 DEF RunOk

(* An address line shows an address of its command line's coin, network and form. *)
LEMMA AddressOfRun ==
  ASSUME NEW r, RunOk(r), NEW a \in Lines(r, "address")
  PROVE  /\ IsOk(ResolveSpec(Coin(r.argv)))
         /\ \E k \in Key : a[2] \in Addresses(SpecOf(r.argv).params, k, Net(r.argv), Legacy(r.argv))
<1>1. PICK w : ShowsWallet(r.argv, w) /\ a \in Range1(NewLines(w)) \cup Range1(InspectLines(w))
  <2>1. a \in Range1(r.out)
    BY DEF Lines
  <2>2. CASE Route(r.argv) = "new"
    BY <2>1, <2>2, WalletRun DEF NewWrote
  <2>3. CASE Route(r.argv) # "new"
    BY <2>1, <2>3, WalletRun DEF InspectWrote
  <2>4. QED
    BY <2>2, <2>3
<1>2. PICK k \in Key : IsWalletOf(w, SpecOf(r.argv), k, Net(r.argv), Legacy(r.argv))
  BY <1>1 DEF ShowsWallet
<1>3. a[2] = w.address
  BY <1>1, <1>2, TwoSecrets, WalletLinesSay DEF Lines
<1>4. a[2] \in Addresses(SpecOf(r.argv).params, k, Net(r.argv), Legacy(r.argv))
  BY <1>2, <1>3, TheIsIn DEF IsWalletOf
<1>5. QED
  BY <1>1, <1>4 DEF ShowsWallet

-----------------------------------------------------------------------------
(* What the invariant gives: the properties. *)

(* A row is preceded by the phrase: the first line of a table from a minted phrase is it. *)
LEMMA InvPhraseShownFirst == ASSUME IInv PROVE PhraseShownFirst
<1>1. SUFFICES ASSUME NEW r \in Runs, NEW i \in DOMAIN r.out, r.out[i][1] = "row", Supplied(r.argv) = {}
               PROVE  \E j \in 1..(i - 1) : r.out[j][1] = "phrase"
  BY DEF PhraseShownFirst
<1>2. RunOk(r) /\ LinesOk(r.out)
  BY DEF IInv, Runs, RunOk
<1>3. r.out[i] \in Lines(r, "row")
  BY <1>1 DEF Lines, Range1
<1>4. PICK p \in Phrase : Table(r.argv, p, r.out)
  BY <1>2, <1>3, RowRun
<1>5. Len(r.out) \in Nat /\ DOMAIN r.out = 1..Len(r.out)
  BY <1>2, SequenceIs DEF LinesOk
<1>6. r.out[1] = PhraseLine(p) /\ r.out[1][1] = "phrase"
  <2>1. 1 \in DOMAIN r.out
    BY <1>5
  <2>2. r.out[1] = PhraseLine(p)
    BY <1>1, <1>4, <2>1 DEF Table
  <2>3. QED
    BY <2>2 DEF PhraseLine
<1>7. i # 1
  BY <1>1, <1>6
<1>8. 1 \in 1..(i - 1)
  BY <1>5, <1>7
<1>9. QED
  BY <1>6, <1>8

(* The raw key printed is canonical, and a canonical key keeps the address. *)
LEMMA InvAddressComesWithItsKey == ASSUME IInv PROVE AddressComesWithItsKey
<1>1. SUFFICES ASSUME NEW r \in Runs, Route(r.argv) = "new", r.status = "Ok", NEW a \in Lines(r, "address")
               PROVE  \E s \in Lines(r, "secret") :
                         /\ s[2][1] = "hex"
                         /\ a[2] \in Addresses(ResolveSpec(Coin(r.argv))[2].params, s[2][2],
                                               Net(r.argv), Legacy(r.argv))
  BY DEF AddressComesWithItsKey
<1>2. RunOk(r)
  BY DEF IInv, Runs
<1>3. NewWrote(r.argv, Range1(r.out), TRUE)
  <2>1. NewWrote(r.argv, Range1(r.out), r.status = "Ok")
    BY <1>1, <1>2, WalletRun
  <2>2. QED
    BY <1>1, <2>1 DEF NewWrote
<1>4. PICK w : /\ ShowsWallet(r.argv, w)
               /\ Range1(r.out) = Range1(NewLines(w))
  BY <1>3, SMTT(30) DEF NewWrote
<1>5. PICK k \in Key : IsWalletOf(w, SpecOf(r.argv), k, Net(r.argv), Legacy(r.argv))
  BY <1>4 DEF ShowsWallet
<1> DEFINE p == SpecOf(r.argv).params
           s == SecretLine(w.secret_hex)
<1>6. s \in Lines(r, "secret")
  <2>1. s \in Range1(NewLines(w))
    BY <1>5, TwoSecrets, LinesOfWallet
  <2>2. QED
    BY <1>4, <2>1 DEF Lines, SecretLine
<1>7. a[2] = w.address
  BY <1>4, <1>5, TwoSecrets, WalletLinesSay DEF Lines
<1>8. a[2] \in Addresses(p, k, Net(r.argv), Legacy(r.argv))
  BY <1>5, <1>7, TheIsIn DEF IsWalletOf
<1>9. s[2][1] = "hex" /\ s[2][2] = Canon(p, k)
  BY <1>5 DEF IsWalletOf, SecretLine, Hex
<1>10. Addresses(p, Canon(p, k), Net(r.argv), Legacy(r.argv)) = Addresses(p, k, Net(r.argv), Legacy(r.argv))
  BY CanonAddresses
<1>11. QED
  BY <1>6, <1>8, <1>9, <1>10 DEF SpecOf

(* Testnet prefixes are nobody's mainnet prefixes. *)
LEMMA InvTestnetIsNotMainnet == ASSUME IInv PROVE TestnetIsNotMainnet
<1>1. SUFFICES ASSUME NEW r \in Runs, HasFlag(r.argv, "--testnet"), NEW a \in Lines(r, "address"),
                      Lookup(Coin(r.argv)) # {}, FamOf(Coin(r.argv)) \notin NetworkAgnostic,
                      NEW spec \in Rows, NEW k \in Scalar, NEW legacy \in BOOLEAN
               PROVE  a[2] \notin Addresses(spec.params, k, "Mainnet", legacy)
  BY DEF TestnetIsNotMainnet
<1>2. RunOk(r)
  BY DEF IInv, Runs
<1>3. PICK x \in Key : a[2] \in Addresses(SpecOf(r.argv).params, x, "Testnet", Legacy(r.argv))
  BY <1>1, <1>2, AddressOfRun DEF Net
<1>4. Coin(r.argv) \in Tickers
  BY <1>1 DEF Lookup, Tickers
<1>5. SpecOf(r.argv) \in Rows
  BY <1>4, TableSpec DEF SpecOf
<1>6. SpecOf(r.argv).params.fam \notin NetworkAgnostic
  BY <1>1 DEF FamOf, SpecOf
<1>7. QED
  BY <1>3, <1>5, <1>6, TestnetApart

(* A row is derived from the phrase of its table, and a ticker names one row of COINS. *)
LEMMA InvRowsAreChildren == ASSUME IInv PROVE RowsAreChildren
<1>1. SUFFICES ASSUME NEW r \in Runs, NEW l \in Lines(r, "row"), NEW p \in PhraseOf(r),
                      NEW spec, spec = The(Lookup(l[4])),
                      NEW k, k = Child(p, Passphrase(r.argv), l[5])
               PROVE  /\ l[5][1] \in (IF Purposes(r.argv) = {} THEN NativePurpose(spec)
                                      ELSE ParsePurpose(The(Purposes(r.argv))))
                      /\ l[5][2] = spec.hd_slip44
                      /\ l[5][3] = Number(r.argv, "--account") /\ l[5][4] = Number(r.argv, "--index")
                      /\ l[2] = HdAddress(spec.params, l[5][1], k)
                      /\ FromWif(l[3]) \cup {l[3][2]} = {k}
  BY DEF RowsAreChildren
<1>2. RunOk(r)
  BY DEF IInv, Runs
<1>3. PICK q \in Phrase : Table(r.argv, q, r.out)
  BY <1>2, RowRun
<1>4. l \in Range1(r.out) /\ l[1] = "row"
  BY DEF Lines
<1>5. p = q
  <2>1. CASE Supplied(r.argv) = {}
    <3>1. PICK m \in Lines(r, "phrase") : p = m[2][2]
      BY <2>1 DEF PhraseOf
    <3>2. m \in Range1(r.out) /\ m[1] = "phrase"
      BY DEF Lines
    <3>3. m[2][2] = q
      BY <1>3, <3>2, TableLine
    <3>4. QED
      BY <3>1, <3>3
  <2>2. CASE Supplied(r.argv) # {}
    <3>1. PICK t \in Supplied(r.argv) : p = t[2]
      BY <2>2 DEF PhraseOf
    <3>2. Supplied(r.argv) = {t}
      BY <1>2, <2>2, <3>1, ParseValueIn DEF RunOk, ArgsOk, Supplied
    <3>3. The(Supplied(r.argv)) = t
      BY <3>2, TheOfSingleton
    <3>4. QED
      BY <1>3, <2>2, <3>1, <3>3 DEF Table
  <2>3. QED
    BY <2>1, <2>2
<1>6. RowOf(r.argv, p, l)
  BY <1>3, <1>4, <1>5, TableLine
<1>7. PICK row \in Rows, purpose \in Purpose :
         /\ purpose \in PurposesOf(r.argv, row)
         /\ l = <<"row", HdAddress(row.params, purpose, Child(p, Passphrase(r.argv), PathOf(r.argv, row, purpose))),
                  HdSecret(row.params, Child(p, Passphrase(r.argv), PathOf(r.argv, row, purpose))),
                  row.ticker, PathOf(r.argv, row, purpose)>>
  BY <1>6 DEF RowOf
<1>8. l[4] = row.ticker /\ l[5] = PathOf(r.argv, row, purpose)
  BY <1>7
<1>9. spec = row
  <2>1. Lookup(row.ticker) = {row}
    BY TickersUnique DEF Lookup
  <2>2. QED
    BY <1>1, <1>8, <2>1, TheOfSingleton
<1>10. l[2] = HdAddress(spec.params, purpose, k) /\ l[3] = HdSecret(spec.params, k)
  BY <1>1, <1>7, <1>8, <1>9
<1>11. /\ l[5][1] = purpose /\ l[5][2] = spec.hd_slip44
       /\ l[5][3] = Number(r.argv, "--account") /\ l[5][4] = Number(r.argv, "--index")
  BY <1>8, <1>9 DEF PathOf
<1>12. l[3][2] = k
  BY <1>10, HdSecretTag
<1>13. FromWif(l[3]) \cup {l[3][2]} = {k}
  BY <1>12 DEF FromWif
<1>14. QED
  BY <1>7, <1>9, <1>10, <1>11, <1>13 DEF PurposesOf

-----------------------------------------------------------------------------
(* What the invariant gives: printed secrets, typed back. *)

(* An answer is an address of a key the text typed stands for. *)
LEMMA AnswerAddress ==
  ASSUME NEW args, ArgsOk(args), Route(args) = "inspect", IsOk(Answer(args)),
         NEW text, text = The(Positional(args))
  PROVE  \E x \in ParseSecret(text) \cup ParseMasterSecret(text) :
            Answer(args)[2].address = The(Addresses(SpecOf(args).params, x, Net(args), Legacy(args)))
<1>1. Positional(args) # {}
  BY DEF Route
<1>2. HoldsWhatItSays(text)
  <2>1. PICK tok \in Range1(args) : Positional(args) = {tok}
    BY <1>1, PositionalIn DEF ArgsOk
  <2>2. text = tok
    BY <2>1, TheOfSingleton
  <2>3. QED
    BY <2>2 DEF ArgsOk
<1>3. \A x \in ParseSecret(text) \cup ParseMasterSecret(text) : x \in Key
  BY <1>2, ReadsKeys
<1>4. Answer(args) = WalletFromSecret(Coin(args), text, Net(args), Legacy(args))
  BY DEF Answer
<1>5. PICK x \in ParseSecret(text) \cup ParseMasterSecret(text) :
          IsWalletOf(Answer(args)[2], ResolveSpec(Coin(args))[2], x, Net(args), Legacy(args))
  BY <1>3, <1>4, WalletReads
<1>6. QED
  BY <1>5 DEF IsWalletOf, SpecOf

(* The secret of a claim is one of a key, and its address is the one of that key, for any form
   that counts as the same. *)
Backed(c) ==
    /\ IsOk(ResolveSpec(c.coin))
    /\ \E k \in Key :
        LET p == ResolveSpec(c.coin)[2].params
        IN  /\ k \in Scalar \/ p.fam = "Noid"
            /\ c.text \in {SecretStd(p, k), Hex(Canon(p, k)), HdSecret(p, k)}
            /\ c.text[1] = "wif" => p.fam # "Noid"
            /\ \A legacy \in BOOLEAN : c.legacy = (legacy /\ p.fam = "SegwitV0") =>
                    /\ Addresses(p, k, c.net, legacy) # {}
                    /\ c.address = The(Addresses(p, k, c.net, legacy))

(* Two forms count as the same when they agree on a SegWit coin. *)
LEMMA SameForm ==
  ASSUME NEW p, NEW one \in BOOLEAN, NEW two \in BOOLEAN,
         (one /\ p.fam = "SegwitV0") = (two /\ p.fam = "SegwitV0")
  PROVE  p.fam = "SegwitV0" => one = two
  OBVIOUS

(* A claim of a single-key command is backed. *)
LEMMA SingleBacked ==
  ASSUME NEW r, RunOk(r), NEW c \in SingleClaims(r)
  PROVE  Backed(c)
<1>1. PICK s \in Lines(r, "secret"), a \in Lines(r, "address") :
         c = Claim(Coin(r.argv), Net(r.argv), Legacy(r.argv), s[2], a[2])
  BY DEF SingleClaims
<1>2. PICK w : /\ ShowsWallet(r.argv, w)
               /\ a \in Range1(NewLines(w)) \cup Range1(InspectLines(w))
               /\ s \in Range1(NewLines(w)) \cup Range1(InspectLines(w))
  <2>1. a \in Range1(r.out) /\ s \in Range1(r.out)
    BY DEF Lines
  <2>2. CASE Route(r.argv) = "new"
    BY <2>1, <2>2, WalletRun DEF NewWrote
  <2>3. CASE Route(r.argv) # "new"
    BY <2>1, <2>3, WalletRun DEF InspectWrote
  <2>4. QED
    BY <2>2, <2>3
<1>3. PICK k \in Key : IsWalletOf(w, SpecOf(r.argv), k, Net(r.argv), Legacy(r.argv))
  BY <1>2 DEF ShowsWallet
<1> DEFINE p == SpecOf(r.argv).params
<1>4. a[2] = w.address /\ s[2] \in {w.secret_std, w.secret_hex}
  BY <1>2, <1>3, TwoSecrets, WalletLinesSay DEF Lines
<1>5. /\ c.coin = Coin(r.argv) /\ c.net = Net(r.argv) /\ c.text = s[2] /\ c.address = a[2]
      /\ c.legacy = (Legacy(r.argv) /\ p.fam = "SegwitV0")
  BY <1>1 DEF Claim, FamOf, SpecOf
<1>6. /\ IsOk(ResolveSpec(c.coin)) /\ ResolveSpec(c.coin)[2].params = p
  BY <1>2, <1>5 DEF ShowsWallet, SpecOf
<1> HIDE DEF p
<1>7. /\ k \in Scalar \/ p.fam = "Noid"
      /\ Addresses(p, k, c.net, Legacy(r.argv)) # {} /\ w.address = The(Addresses(p, k, c.net, Legacy(r.argv)))
      /\ w.secret_hex = Hex(Canon(p, k)) /\ w.secret_std = SecretStd(p, k)
  BY <1>3, <1>5 DEF IsWalletOf, p
<1>8. c.text \in {SecretStd(p, k), Hex(Canon(p, k)), HdSecret(p, k)}
  BY <1>4, <1>5, <1>7
<1>9. c.text[1] = "wif" => p.fam # "Noid"
  <2>1. SUFFICES ASSUME p.fam = "Noid" PROVE c.text[1] # "wif"
    OBVIOUS
  <2>2. SecretStd(p, k) = Hex(k)
    BY <2>1 DEF SecretStd
  <2>3. c.text \in {Hex(k), Hex(Canon(p, k))}
    BY <1>4, <1>5, <1>7, <2>2
  <2>4. QED
    BY <2>3 DEF Hex
<1>10. ASSUME NEW legacy \in BOOLEAN, c.legacy = (legacy /\ p.fam = "SegwitV0")
       PROVE  /\ Addresses(p, k, c.net, legacy) # {}
              /\ c.address = The(Addresses(p, k, c.net, legacy))
  <2>1. p.fam = "SegwitV0" => legacy = Legacy(r.argv)
    <3>1. Legacy(r.argv) \in BOOLEAN
      BY NetIs
    <3>2. QED
      BY <1>5, <1>10, <3>1, SameForm
  <2>2. Addresses(p, k, c.net, legacy) = Addresses(p, k, c.net, Legacy(r.argv))
    BY <2>1, LegacyOnlySegwit
  <2>3. QED
    BY <1>4, <1>5, <1>7, <2>2
<1>11. QED
  BY <1>6, <1>7, <1>8, <1>9, <1>10 DEF Backed

(* So is one of a row, where the single-key commands have its form at all. *)
LEMMA RowBacked ==
  ASSUME NEW r, RunOk(r), NEW c \in HdClaims(r)
  PROVE  Backed(c)
<1>1. PICK l \in Lines(r, "row") :
         /\ l[5][1] = 86 => FamOf(l[4]) = "Taproot"
         /\ c = Claim(l[4], "Mainnet", l[5][1] = 44, l[3], l[2])
  BY DEF HdClaims
<1>2. PICK q \in Phrase : Table(r.argv, q, r.out)
  BY <1>1, RowRun
<1>3. RowOf(r.argv, q, l)
  BY <1>2, TableLine DEF Lines
<1>4. PICK row \in Rows, purpose \in Purpose :
         /\ HdCapable(row) /\ Supports(row, purpose)
         /\ Child(q, Passphrase(r.argv), PathOf(r.argv, row, purpose)) \in Scalar
         /\ l = <<"row", HdAddress(row.params, purpose, Child(q, Passphrase(r.argv), PathOf(r.argv, row, purpose))),
                  HdSecret(row.params, Child(q, Passphrase(r.argv), PathOf(r.argv, row, purpose))),
                  row.ticker, PathOf(r.argv, row, purpose)>>
  BY <1>3 DEF RowOf
<1> DEFINE k == Child(q, Passphrase(r.argv), PathOf(r.argv, row, purpose))
           p == row.params
<1>5. /\ l[2] = HdAddress(p, purpose, k) /\ l[3] = HdSecret(p, k) /\ l[4] = row.ticker
      /\ l[5][1] = purpose /\ k \in Scalar
  BY <1>4 DEF PathOf
<1>6. IsOk(ResolveSpec(row.ticker)) /\ ResolveSpec(row.ticker)[2] = row
  <2>1. row.ticker \in Tickers
    BY DEF Tickers
  <2>2. Lookup(row.ticker) = {row}
    BY TickersUnique DEF Lookup
  <2>3. QED
    BY <2>1, <2>2, TableSpec, TheOfSingleton
<1>7. purpose = 86 => p.fam = "Taproot"
  BY <1>1, <1>5, <1>6 DEF FamOf
<1>8. /\ c.coin = row.ticker /\ c.net = "Mainnet" /\ c.text = HdSecret(p, k) /\ c.address = HdAddress(p, purpose, k)
      /\ c.legacy = (purpose = 44 /\ p.fam = "SegwitV0")
  BY <1>1, <1>5, <1>6 DEF Claim, FamOf
<1> HIDE DEF k, p
<1>9. p.fam # "Noid"
  BY <1>4 DEF HdCapable, NativePurpose, p
<1>10. ASSUME NEW legacy \in BOOLEAN, c.legacy = (legacy /\ p.fam = "SegwitV0")
       PROVE  /\ Addresses(p, k, "Mainnet", legacy) # {}
              /\ c.address = The(Addresses(p, k, "Mainnet", legacy))
  <2>1. p.fam = "SegwitV0" => (legacy <=> purpose = 44)
    BY <1>8, <1>10
  <2>2. Addresses(p, k, "Mainnet", legacy) = {HdAddress(p, purpose, k)}
    <3>1. purpose = 86 => row.params.fam = "Taproot"
      BY <1>7 DEF p
    <3>2. row.params.fam = "SegwitV0" => (legacy <=> purpose = 44)
      BY <2>1 DEF p
    <3>3. Addresses(row.params, k, "Mainnet", legacy) = {HdAddress(row.params, purpose, k)}
      <4>1. Supports(row, purpose) /\ HdCapable(row) /\ row \in Rows /\ purpose \in Purpose
        BY <1>4
      <4>2. QED
        BY <1>10, <3>1, <3>2, <4>1, HdAddressIsSingle, ZenonT(60)
    <3>4. QED
      BY <3>3 DEF p
  <2>3. QED
    BY <1>8, <2>2, TheOfSingleton
<1>11. k \in Key
  BY <1>5, ScalarAssumption
<1>12. QED
  BY <1>5, <1>6, <1>8, <1>9, <1>10, <1>11 DEF Backed, p

(* Whatever the tool ever said of a secret is backed by a key. *)
LEMMA ClaimsBacked ==
  ASSUME IInv, NEW c \in Claims
  PROVE  Backed(c)
<1>1. PICK r \in Runs : c \in SingleClaims(r) \cup HdClaims(r)
  BY DEF Claims
<1>2. RunOk(r)
  BY DEF IInv, Runs
<1>3. QED
  BY <1>1, <1>2, SingleBacked, RowBacked

(* Of a backed claim, every text that reads as a key reads as one with the claim's address. *)
LEMMA BackedReads ==
  ASSUME NEW c, Backed(c), NEW x \in ParseSecret(c.text) \cup ParseMasterSecret(c.text),
         NEW p, p = ResolveSpec(c.coin)[2].params,
         NEW legacy \in BOOLEAN, c.legacy = (legacy /\ p.fam = "SegwitV0")
  PROVE  c.address = The(Addresses(p, x, c.net, legacy))
<1>1. PICK k \in Key :
         /\ c.text \in {SecretStd(p, k), Hex(Canon(p, k)), HdSecret(p, k)}
         /\ \A form \in BOOLEAN : c.legacy = (form /\ p.fam = "SegwitV0") =>
                    c.address = The(Addresses(p, k, c.net, form))
  BY DEF Backed
<1>2. c.address = The(Addresses(p, k, c.net, legacy))
  BY <1>1
<1>3. x \in {k, Canon(p, k)}
  BY <1>1, SecretIsOf
<1>4. Addresses(p, x, c.net, legacy) = Addresses(p, k, c.net, legacy)
  BY <1>3, CanonAddresses
<1>5. QED
  BY <1>2, <1>4

(* What is read back of a claim's text is the key behind it, so the answer is the address the
   claim was made with. *)
LEMMA InvRestoreAgrees == ASSUME IInv PROVE RestoreAgrees
<1>1. SUFFICES ASSUME NEW c \in Claims, NEW a \in Answers, [c EXCEPT !.address = a.address] = a
               PROVE  c.address = a.address
  BY DEF RestoreAgrees
<1>2. Backed(c)
  BY ClaimsBacked
<1>r. PICK r \in Runs :
         /\ Route(r.argv) = "inspect"
         /\ \E l \in Lines(r, "address") :
                a = Claim(Coin(r.argv), Net(r.argv), Legacy(r.argv), The(Positional(r.argv)), l[2])
  BY DEF Answers
<1>3. PICK l \in Lines(r, "address") :
         a = Claim(Coin(r.argv), Net(r.argv), Legacy(r.argv), The(Positional(r.argv)), l[2])
  BY <1>r
<1> DEFINE text == The(Positional(r.argv))
           p    == ResolveSpec(c.coin)[2].params
<1>4. /\ c.coin = Coin(r.argv) /\ c.net = Net(r.argv) /\ c.text = text /\ a.address = l[2]
      /\ c.legacy = (Legacy(r.argv) /\ FamOf(Coin(r.argv)) = "SegwitV0")
  <2>1. \E coin, net, legacy, s, address : c = Claim(coin, net, legacy, s, address)
    BY DEF Claims, SingleClaims, HdClaims
  <2>2. a.coin = c.coin /\ a.net = c.net /\ a.text = c.text /\ a.legacy = c.legacy
    BY <1>1, <2>1 DEF Claim
  <2>3. /\ a.coin = Coin(r.argv) /\ a.net = Net(r.argv) /\ a.text = text /\ a.address = l[2]
        /\ a.legacy = (Legacy(r.argv) /\ FamOf(Coin(r.argv)) = "SegwitV0")
    BY <1>3 DEF Claim
  <2>4. QED
    BY <2>2, <2>3
<1>5. RunOk(r) /\ ArgsOk(r.argv)
  BY DEF IInv, Runs, RunOk
<1>6. InspectWrote(r.argv, Range1(r.out)) /\ l \in Range1(r.out) /\ l[1] = "address"
  BY <1>r, <1>5, WalletRun DEF Lines
<1>7. /\ IsOk(Answer(r.argv)) /\ ShowsWallet(r.argv, Answer(r.argv)[2])
      /\ l \in Range1(InspectLines(Answer(r.argv)[2]))
  BY <1>6 DEF InspectWrote
<1>8. l[2] = Answer(r.argv)[2].address
  BY <1>6, <1>7, TwoSecrets, WalletLinesSay DEF ShowsWallet
<1>9. PICK x \in ParseSecret(text) \cup ParseMasterSecret(text) :
         Answer(r.argv)[2].address = The(Addresses(SpecOf(r.argv).params, x, Net(r.argv), Legacy(r.argv)))
  BY <1>r, <1>5, <1>7, AnswerAddress
<1>10. p = SpecOf(r.argv).params
  BY <1>4 DEF SpecOf
<1>11. c.address = The(Addresses(p, x, c.net, Legacy(r.argv)))
  <2>1. x \in ParseSecret(c.text) \cup ParseMasterSecret(c.text)
    BY <1>4
  <2>2. Legacy(r.argv) \in BOOLEAN
    BY NetIs
  <2>3. c.legacy = (Legacy(r.argv) /\ p.fam = "SegwitV0")
    BY <1>4 DEF FamOf
  <2> HIDE DEF p, text
  <2>4. QED
    BY <1>2, <2>1, <2>2, <2>3, BackedReads DEF p
<1>12. QED
  BY <1>4, <1>8, <1>9, <1>10, <1>11

(* And it is accepted: a key in range, of a coin that has this network. *)
LEMMA InvWifAndHexReadBack == ASSUME IInv PROVE WifAndHexReadBack
<1>1. SUFFICES ASSUME NEW r \in ReadBacks, The(Positional(r.argv))[1] \in {"hex", "wif"},
                      FamOf(Coin(r.argv)) # "CryptoNote"
               PROVE  Accepted(r)
  BY DEF WifAndHexReadBack
<1>2. PICK c \in Claims :
         /\ The(Positional(r.argv)) = c.text /\ Coin(r.argv) = c.coin /\ Net(r.argv) = c.net
         /\ c.legacy = (Legacy(r.argv) /\ FamOf(c.coin) = "SegwitV0")
  BY DEF ReadBacks
<1>3. Route(r.argv) = "inspect" /\ RunOk(r)
  BY DEF ReadBacks, IInv, Runs
<1> DEFINE p == ResolveSpec(c.coin)[2].params
           text == c.text
<1>4. IsOk(ResolveSpec(c.coin))
  BY ClaimsBacked DEF Backed
<1>5. PICK k \in Key :
         /\ k \in Scalar \/ p.fam = "Noid"
         /\ c.text \in {SecretStd(p, k), Hex(Canon(p, k)), HdSecret(p, k)}
         /\ c.text[1] = "wif" => p.fam # "Noid"
         /\ \A legacy \in BOOLEAN : c.legacy = (legacy /\ p.fam = "SegwitV0") =>
                Addresses(p, k, c.net, legacy) # {}
  BY ClaimsBacked DEF Backed
<1>6. p.fam # "CryptoNote"
  BY <1>1, <1>2 DEF FamOf
<1>7. c.legacy = (Legacy(r.argv) /\ p.fam = "SegwitV0") /\ Legacy(r.argv) \in BOOLEAN
  BY <1>2, NetIs DEF FamOf
<1> HIDE DEF p
<1>8. text[2] = k
  <2>1. Canon(p, k) = k
    BY <1>6 DEF Canon
  <2>2. \/ \E byte, comp : text = Wif(byte, k, comp)
        \/ text = EthHex(k)
        \/ text = Hex(k)
    BY <1>5, <1>6, <2>1 DEF SecretStd, HdSecret
  <2>3. QED
    BY <2>2 DEF Wif, EthHex, Hex
<1>9. Addresses(p, k, c.net, Legacy(r.argv)) # {}
  BY <1>5, <1>7
<1>10. text[1] = "hex" \/ (text[1] = "wif" /\ p.fam # "Noid")
  BY <1>1, <1>2, <1>5
<1>11. IsOk(WalletFromSecret(c.coin, text, c.net, Legacy(r.argv)))
  <2> HIDE DEF text
  <2>1. QED
    BY <1>4, <1>5, <1>8, <1>9, <1>10, WalletAccepts DEF p
<1>12. IsOk(Answer(r.argv))
  BY <1>2, <1>11 DEF Answer
<1>13. QED
  BY <1>3, <1>12 DEF RunOk, Accepted

-----------------------------------------------------------------------------

(* TypeOK: the state is of the shapes the model names, a key about to be shown is in range
   (generate's rejection sampling), and the bounds on runs and kills are kept. *)
THEOREM TypeCorrect == Spec => []TypeOK
  BY Invariant, InvTypes, PTL

(***************************************************************************)
(* PhraseShownFirst: no row derived from a minted phrase was ever printed  *)
(* before the phrase, however early the run was killed (cmd_new_hd).       *)
(***************************************************************************)
THEOREM PhraseBeforeRows == Spec => []PhraseShownFirst
  BY Invariant, InvPhraseShownFirst, PTL

(***************************************************************************)
(* AddressComesWithItsKey: the address `new` prints can be spent from with *)
(* the raw hex it prints, CryptoNote's reduced scalar included (cmd_new).  *)
(***************************************************************************)
THEOREM KeyWithAddress == Spec => []AddressComesWithItsKey
  BY Invariant, InvAddressComesWithItsKey, PTL

(***************************************************************************)
(* TestnetIsNotMainnet: an address printed under --testnet is a mainnet    *)
(* address of no coin in COINS and no key (dispatch and pick).             *)
(***************************************************************************)
THEOREM TestnetsApart == Spec => []TestnetIsNotMainnet
  BY Invariant, InvTestnetIsNotMainnet, PTL

(***************************************************************************)
(* RowsAreChildren: every HD row printed holds the address and the secret  *)
(* of the child of the phrase shown or given, at the path printed with it, *)
(* which is the path that was asked for (hd::derive).                      *)
(***************************************************************************)
THEOREM RowsDerived == Spec => []RowsAreChildren
  BY Invariant, InvRowsAreChildren, PTL

(***************************************************************************)
(* RestoreAgrees: however many runs there were and whatever was typed into *)
(* them, `restore` never shows, for a secret the tool printed, another     *)
(* address than the one it was printed with, for that coin, network and    *)
(* form: `new`, HD rows and `restore` agree.                               *)
(***************************************************************************)
THEOREM RestoreKeeps == Spec => []RestoreAgrees
  BY Invariant, InvRestoreAgrees, PTL

(***************************************************************************)
(* WifAndHexReadBack: a WIF or raw hex the tool printed is never refused   *)
(* when it is typed back, but for a CryptoNote coin (parse_secret,         *)
(* parse_master_secret, scalar_in_range).                                  *)
(***************************************************************************)
THEOREM SecretsReadBack == Spec => []WifAndHexReadBack
  BY Invariant, InvWifAndHexReadBack, PTL

-----------------------------------------------------------------------------
(* A table that has begun is finished. *)

\* BIP32 gives no key at a path with a chance below 2^-127; the table stops there.
EveryChildIsAKey == \A p \in Phrase : \A pass, path : Child(p, pass, path) \in Scalar

\* The lines before the table: a minted phrase. A run whose table, once begun, finishes.
Offset(args)   == IF Supplied(args) = {} THEN 1 ELSE 0
Finishes(r)    == Lines(r, "row") # {} /\ Purposes(r.argv) = {} => Completes(r) \/ r.status = "Killed"
\* `done` coins have their row, in order, and the rest is still to do.
InTable(args, lines, rest, done) ==
    /\ done \in Nat
    /\ Len(lines) = Offset(args) + done
    /\ Len(HdCoins(args)) = Len(rest) + done
    /\ \A i \in 1..Len(rest) : rest[i] = HdCoins(args)[done + i]
    /\ \A i \in 1..done : lines[Offset(args) + i][4] = HdCoins(args)[i].ticker
    /\ done # 0 => {Number(args, "--account"), Number(args, "--index")} \subseteq ChildNumber
\* Inductive beside IInv.
Progress ==
    /\ pc \in {"validate", "mint", "show"} => left = HdCoins(argv)
    /\ pc = "rows" => \E done : InTable(argv, out, left, done)
    /\ \A r \in Range1(log) : Finishes(r)

(* Nothing derived yet. *)
LEMMA NoneDone ==
  ASSUME NEW args, NEW lines, HdCoins(args) \in Seq(Rows), Len(lines) = Offset(args)
  PROVE  InTable(args, lines, HdCoins(args), 0)
<1>1. Offset(args) \in Nat /\ Len(HdCoins(args)) \in Nat
  BY LenProperties DEF Offset
<1>2. QED
  BY <1>1 DEF InTable

(* A run that is no table ends. *)
LEMMA FinishProgress ==
  ASSUME IInv, IInv', Progress, NEW status, Finish(status),
         pc = "rows" => Finishes([argv |-> argv, out |-> out, status |-> status])
  PROVE  Progress'
<1> DEFINE r == [argv |-> argv, out |-> out, status |-> status]
<1>1. log' = Append(log, r) /\ pc' = "idle" /\ r.out = out /\ r.argv = argv
  BY DEF Finish, FinishWith
<1>2. SequenceOf(log) /\ \A x \in Range1(log') : RunOk(x)
  BY DEF IInv
<1> HIDE DEF r
<1>3. Range1(log') = Range1(log) \cup {r}
  BY <1>1, <1>2, AppendHolds
<1>4. Finishes(r)
  <2>1. CASE pc = "rows"
    BY <2>1 DEF r
  <2>2. CASE pc # "rows"
    <3>1. SUFFICES ASSUME NEW l \in Lines(r, "row") PROVE FALSE
      BY DEF Finishes
    <3>2. Route(argv) = "hd"
      BY <1>1, <1>2, <1>3, RowRun
    <3>3. out = << >>
      BY <2>2, <3>2 DEF IInv, PcOk, ShownOk
    <3>4. QED
      BY <1>1, <3>3, EmptyHolds DEF Lines
  <2>3. QED
    BY <2>1, <2>2
<1>5. \A x \in Range1(log') : Finishes(x)
  BY <1>3, <1>4 DEF Progress
<1>6. QED
  BY <1>1, <1>5 DEF Progress

(* A step outside the table that ends no run. *)
LEMMA ElsewhereProgress ==
  ASSUME Progress, log' = log, pc' \notin {"validate", "mint", "show", "rows"}
  PROVE  Progress'
  BY DEF Progress

(* The lines of a table, one by one. *)
LEMMA TableLines ==
  ASSUME NEW args, NEW p, NEW lines, SequenceOf(lines), Table(args, p, lines), NEW i \in DOMAIN lines
  PROVE  lines[i][1] = "row" <=> i > Offset(args)
<1>0. i \in Nat /\ i >= 1
  BY SequenceIs
<1>1. CASE i = 1 /\ Supplied(args) = {}
  <2>1. lines[i][1] = "phrase"
    BY <1>1 DEF Table, PhraseLine
  <2>2. QED
    BY <1>1, <2>1 DEF Offset
<1>2. CASE ~(i = 1 /\ Supplied(args) = {})
  <2>1. lines[i][1] = "row"
    BY <1>2 DEF Table, RowOf
  <2>2. i > Offset(args)
    BY <1>0, <1>2 DEF Offset
  <2>3. QED
    BY <2>1, <2>2
<1>3. QED
  BY <1>1, <1>2

(* With the last coin derived the table is complete. *)
LEMMA TableDone ==
  ASSUME NEW args, NEW lines, HdCoins(args) \in Seq(Rows), NEW p, SequenceOf(lines), Table(args, p, lines),
         NEW done, InTable(args, lines, << >>, done),
         NEW r, r = [argv |-> args, out |-> lines, status |-> "Ok"]
  PROVE  Completes(r)
<1> DEFINE coins == HdCoins(args)
<1>1. done \in Nat /\ Len(coins) = done /\ Len(lines) = Offset(args) + done /\ Offset(args) \in Nat
  BY DEF InTable, Offset
<1>2. Len(lines) - Len(coins) = Offset(args)
  BY <1>1
<1>3. r.argv = args /\ r.out = lines /\ r.status = "Ok"
  OBVIOUS
<1>4. \A i \in DOMAIN lines : lines[i][1] = "row" <=> i > Offset(args)
  BY TableLines
<1>5. DOMAIN coins = 1..done
  BY <1>1, LenProperties
<1>6. \A i \in 1..done : lines[Offset(args) + i][4] = coins[i].ticker
  BY DEF InTable
<1> HIDE DEF coins
<1>7. /\ \A i \in DOMAIN r.out : r.out[i][1] = "row" <=> i > Len(r.out) - Len(coins)
      /\ \A i \in DOMAIN coins : r.out[Len(r.out) - Len(coins) + i][4] = coins[i].ticker
  BY <1>2, <1>3, <1>4, <1>5, <1>6
<1>8. Len(r.out) - Len(coins) >= 0
  BY <1>1, <1>2, <1>3
<1>9. QED
  BY <1>3, <1>7, <1>8 DEF Completes, coins

(* HdArgs loads the coins. *)
LEMMA HdArgsProgress == ASSUME IInv, IInv', Progress, HdArgs PROVE Progress'
<1>1. CASE HdArgsError(argv) # {}
  <2>1. Finish(The(HdArgsError(argv))) /\ pc = "hd"
    BY <1>1 DEF HdArgs
  <2>2. QED
    BY <2>1, FinishProgress
<1>2. CASE HdArgsError(argv) = {}
  <2>1. left' = HdCoins(argv) /\ argv' = argv /\ log' = log /\ pc' \in {"mint", "validate"}
    BY <1>2 DEF HdArgs, Goto
  <2>2. QED
    BY <2>1 DEF Progress
<1>3. QED
  BY <1>1, <1>2

(* The table starts at the first coin, after the phrase where there is one to show. *)
LEMMA BeginProgress == ASSUME IInv, IInv', Progress, Validate \/ ShowPhrase PROVE Progress'
<1>1. CASE Validate /\ The(Supplied(argv))[1] # "phrase"
  <2>1. Finish("InvalidMnemonic") /\ pc = "validate"
    BY <1>1 DEF Validate
  <2>2. QED
    BY <2>1, FinishProgress
<1>2. CASE ShowPhrase \/ The(Supplied(argv))[1] = "phrase"
  <2>1. /\ pc' = "rows" /\ argv' = argv /\ left' = left /\ log' = log /\ left = HdCoins(argv)
    BY <1>2 DEF Validate, ShowPhrase, Goto, Progress
  <2>2. Len(out') = Offset(argv')
    <3>1. CASE ShowPhrase
      <4>1. out' = <<PhraseLine(The(phrase))>> /\ Supplied(argv) = {}
        BY <3>1 DEF ShowPhrase, IInv, PcOk
      <4>2. QED
        BY <2>1, <4>1 DEF Offset
    <3>2. CASE Validate
      <4>1. out' = << >> /\ Supplied(argv) # {}
        BY <1>2, <3>2 DEF Validate, ShowPhrase, IInv, PcOk
      <4>2. QED
        BY <2>1, <4>1 DEF Offset
    <3>3. QED
      BY <3>1, <3>2
  <2>3. HdCoins(argv') \in Seq(Rows) /\ left' = HdCoins(argv')
    BY <2>1 DEF IInv
  <2>4. InTable(argv', out', left', 0)
    BY <2>2, <2>3, NoneDone
  <2>5. QED
    BY <2>1, <2>4 DEF Progress
<1>3. QED
  BY <1>1, <1>2

(* A row more is a coin less. *)
LEMMA TableExtends ==
  ASSUME NEW args, NEW lines, NEW rest \in Seq(Rows), NEW done, InTable(args, lines, rest, done),
         SequenceOf(lines), rest # << >>, NEW l, l[4] = Head(rest).ticker,
         {Number(args, "--account"), Number(args, "--index")} \subseteq ChildNumber
  PROVE  InTable(args, Append(lines, l), Tail(rest), done + 1)
<1> DEFINE more == Append(lines, l)
           less == Tail(rest)
           coins == HdCoins(args)
           n == Offset(args)
<1>1. /\ done \in Nat /\ n \in Nat /\ Len(lines) = n + done /\ Len(coins) = Len(rest) + done
      /\ Len(rest) \in Nat
  BY LenProperties DEF InTable, Offset
<1>2. /\ Len(more) = Len(lines) + 1 /\ more[Len(lines) + 1] = l
      /\ \A i \in 1..Len(lines) : more[i] = lines[i]
  BY AppendHolds
<1>3. /\ Len(less) = Len(rest) - 1 /\ \A i \in 1..(Len(rest) - 1) : less[i] = rest[i + 1]
  BY RangeOfHeadTail
<1>4. Head(rest) = rest[1] /\ Len(rest) # 0
  BY EmptySeq
<1>5. \A i \in 1..Len(rest) : rest[i] = coins[done + i]
  BY DEF InTable
<1>6. \A i \in 1..done : lines[n + i][4] = coins[i].ticker
  BY DEF InTable
<1> HIDE DEF more, less, coins, n
<1>7. Len(more) = n + (done + 1) /\ Len(coins) = Len(less) + (done + 1) /\ done + 1 \in Nat
  BY <1>1, <1>2, <1>3
<1>8. \A i \in 1..Len(less) : less[i] = coins[(done + 1) + i]
  <2> TAKE i \in 1..Len(less)
  <2>1. i + 1 \in 1..Len(rest) /\ i \in 1..(Len(rest) - 1) /\ done + (i + 1) = (done + 1) + i
    BY <1>1, <1>3
  <2>2. QED
    BY <1>3, <1>5, <2>1
<1>9. \A i \in 1..(done + 1) : more[n + i][4] = coins[i].ticker
  <2> TAKE i \in 1..(done + 1)
  <2>1. CASE i = done + 1
    <3>1. more[n + i] = l
      BY <1>1, <1>2, <2>1
    <3>2. rest[1] = coins[i]
      <4>1. 1 \in 1..Len(rest)
        BY <1>1, <1>4
      <4>2. QED
        BY <1>5, <2>1, <4>1
    <3>3. QED
      BY <1>4, <3>1, <3>2
  <2>2. CASE i # done + 1
    <3>1. i \in 1..done /\ n + i \in 1..Len(lines)
      BY <1>1, <2>2
    <3>2. QED
      BY <1>2, <1>6, <3>1
  <2>3. QED
    BY <2>1, <2>2
<1>10. QED
  BY <1>7, <1>8, <1>9 DEF InTable, more, less, coins, n

(* A table without a row ends as it likes. *)
LEMMA NoRowFinishes ==
  ASSUME NEW args, NEW p, NEW lines, SequenceOf(lines), Table(args, p, lines), Len(lines) = Offset(args),
         NEW status, NEW r, r = [argv |-> args, out |-> lines, status |-> status]
  PROVE  Finishes(r)
<1>1. r.out = lines
  OBVIOUS
<1>2. SUFFICES ASSUME NEW l \in Lines(r, "row") PROVE FALSE
  BY DEF Finishes
<1>3. PICK i \in DOMAIN lines : l = lines[i] /\ l[1] = "row"
  BY <1>1 DEF Lines, Range1
<1>4. i > Offset(args)
  BY <1>3, TableLines
<1>5. i \in 1..Len(lines) /\ Len(lines) \in Nat
  BY SequenceIs
<1>6. QED
  BY <1>4, <1>5

(* Where every child is a key, only its options can stop a row of a table, and then they stop
   the first one. *)
LEMMA DeriveRowProgress ==
  ASSUME EveryChildIsAKey, IInv, IInv', Progress, DeriveRow
  PROVE  Progress'
<1>1. /\ LinesOk(out) /\ pc = "rows" /\ phrase # {} /\ Table(argv, The(phrase), out)
      /\ HdArgsError(argv) = {}
      /\ left \in Seq(Rows) /\ \A spec \in Range1(left) : HdCapable(spec)
  BY DEF DeriveRow, IInv, PcOk, ShownOk
<1>2. PICK p \in Phrase : The(phrase) = p
  BY <1>1, TheOfSingleton DEF IInv, Holds
<1>3. PICK done : InTable(argv, out, left, done)
  BY <1>1 DEF Progress
<1>4. CASE left = << >>
  <2>1. Finish("Ok")
    BY <1>4 DEF DeriveRow
  <2>2. HdCoins(argv) \in Seq(Rows)
    BY <1>1, HdCoinsOk
  <2> DEFINE r == [argv |-> argv, out |-> out, status |-> "Ok"]
  <2>3. Completes(r)
    BY <1>1, <1>2, <1>3, <1>4, <2>2, TableDone DEF LinesOk
  <2>4. Finishes(r)
    BY <2>3 DEF Finishes
  <2>5. QED
    BY <2>1, <2>4, FinishProgress
<1>5. CASE left # << >>
  <2> DEFINE spec == Head(left)
             purpose == The(RowPurpose(spec))
             account == Number(argv, "--account")
             index == Number(argv, "--index")
             acct == Derive(p, Passphrase(argv), spec, purpose, account, index)
             path == <<purpose, spec.hd_slip44, account, index>>
             k == Child(p, Passphrase(argv), path)
  <2>1. spec \in Rows /\ HdCapable(spec)
    BY <1>1, <1>5, RangeOfHeadTail
  <2>2. IF ~IsOk(acct) THEN Finish(acct[2])
        ELSE /\ out' = Append(out, RowLine(acct[2]))
             /\ left' = Tail(left)
             /\ UNCHANGED <<argv, pc, key, phrase, todo, log>>
    BY <1>2, <1>5 DEF DeriveRow
  <2>3. Purposes(argv) = {} => Supports(spec, purpose)
    BY <2>1, NativeSupported DEF RowPurpose
  <2>4. spec.hd_slip44 # {}
    BY <2>1 DEF HdCapable
  <2>5. k \in Scalar
    BY DEF EveryChildIsAKey
  <2>6. \/ /\ ~IsOk(acct)
           /\ \/ spec.hd_slip44 = {} \/ ~Supports(spec, purpose)
              \/ ~({account, index} \subseteq ChildNumber) \/ k \notin Scalar
        \/ /\ IsOk(acct) /\ {account, index} \subseteq ChildNumber /\ acct[2].coin = spec.ticker
    <3> HIDE DEF acct, purpose, account, index, spec, k, path
    <3>1. QED
      BY DeriveIs DEF acct, k, path
  <2> HIDE DEF acct, purpose, k, path
  <2>7. CASE ~IsOk(acct)
    <3> DEFINE r == [argv |-> argv, out |-> out, status |-> acct[2]]
    <3>1. Finish(acct[2])
      BY <2>2, <2>7
    <3>2. CASE Purposes(argv) # {}
      <4>1. Finishes(r)
        BY <3>2 DEF Finishes
      <4>2. QED
        BY <3>1, <4>1, FinishProgress
    <3>3. CASE Purposes(argv) = {}
      <4>1. ~({account, index} \subseteq ChildNumber)
        BY <2>3, <2>4, <2>5, <2>6, <2>7, <3>3
      <4>2. Len(out) = Offset(argv)
        BY <1>3, <4>1 DEF InTable, Offset
      <4>3. Finishes(r)
        BY <1>1, <1>2, <4>2, NoRowFinishes DEF LinesOk
      <4>4. QED
        BY <3>1, <4>3, FinishProgress
    <3>4. QED
      BY <3>2, <3>3
  <2>8. CASE IsOk(acct)
    <3> DEFINE l == RowLine(acct[2])
    <3>1. out' = Append(out, l) /\ left' = Tail(left) /\ argv' = argv /\ pc' = pc /\ log' = log
      BY <2>2, <2>8
    <3>2. l[4] = Head(left).ticker
      BY <2>6, <2>8 DEF RowLine
    <3>3. {account, index} \subseteq ChildNumber
      BY <2>6, <2>8
    <3> HIDE DEF l
    <3>4. InTable(argv, Append(out, l), Tail(left), done + 1)
      BY <1>1, <1>3, <1>5, <3>2, <3>3, TableExtends DEF LinesOk
    <3>5. InTable(argv', out', left', done + 1)
      BY <3>1, <3>4
    <3>6. QED
      BY <1>1, <3>1, <3>5 DEF Progress
  <2>9. QED
    BY <2>7, <2>8
<1>6. QED
  BY <1>4, <1>5

(* So every step keeps the tables finished or going. *)
LEMMA NextProgress ==
  ASSUME EveryChildIsAKey, IInv, IInv', Progress, [Next]_vars
  PROVE  Progress'
<1>1. ASSUME UNCHANGED vars PROVE Progress'
  BY <1>1 DEF vars, Progress
<1>2. ASSUME Start PROVE Progress'
  <2>1. pc' \in {"Usage", "list", "new", "inspect", "hd"} /\ log' = log
    BY <1>2, RouteIn DEF Start, Goto
  <2>2. QED
    BY <2>1, ElsewhereProgress
<1>3. ASSUME Usage \/ List \/ EntropyFails PROVE Progress'
  <2>1. pc # "rows" /\ \E status : Finish(status)
    BY <1>3 DEF Usage, List, EntropyFails
  <2>2. QED
    BY <2>1, FinishProgress
<1>4. ASSUME New PROVE Progress'
  <2>1. pc # "rows" /\ ((\E status : Finish(status)) \/ (pc' = "draw" /\ log' = log))
    BY <1>4 DEF New, Goto
  <2>2. QED
    BY <2>1, FinishProgress, ElsewhereProgress
<1>5. ASSUME NEW k \in Key, Draw(k) PROVE Progress'
  <2>1. pc' = "check" /\ log' = log
    BY <1>5 DEF Draw, Goto
  <2>2. QED
    BY <2>1, ElsewhereProgress
<1>6. ASSUME Check PROVE Progress'
  <2>1. pc = "check" /\ ((\E status : Finish(status)) \/ (pc' \in {"draw", "write"} /\ log' = log))
    BY <1>6 DEF Check, Write, Goto
  <2>2. QED
    BY <2>1, FinishProgress, ElsewhereProgress
<1>7. ASSUME Inspect PROVE Progress'
  <2>1. pc = "inspect" /\ ((\E status : Finish(status)) \/ (pc' = "write" /\ log' = log))
    BY <1>7 DEF Inspect, Write, Goto
  <2>2. QED
    BY <2>1, FinishProgress, ElsewhereProgress
<1>8. ASSUME WriteLine PROVE Progress'
  <2>1. pc = "write" /\ ((\E status : Finish(status)) \/ (pc' = "write" /\ log' = log))
    BY <1>8 DEF WriteLine
  <2>2. QED
    BY <2>1, FinishProgress, ElsewhereProgress
<1>9. ASSUME NEW p \in Phrase, Mint(p) PROVE Progress'
  <2>1. pc = "mint" /\ pc' = "show" /\ left' = left /\ argv' = argv /\ log' = log
    BY <1>9 DEF Mint, Goto
  <2>2. QED
    BY <2>1 DEF Progress
<1>10. ASSUME Kill PROVE Progress'
  <2>1. Finish("Killed")
    BY <1>10 DEF Kill
  <2>2. Finishes([argv |-> argv, out |-> out, status |-> "Killed"])
    BY DEF Finishes
  <2>3. QED
    BY <2>1, <2>2, FinishProgress
<1>11. ASSUME Step PROVE Progress'
  BY <1>3, <1>4, <1>5, <1>6, <1>7, <1>8, <1>9, <1>11, HdArgsProgress, BeginProgress, DeriveRowProgress DEF Step
<1>12. QED
  BY <1>1, <1>2, <1>3, <1>10, <1>11 DEF Next

(***************************************************************************)
(* NativeTableCompletes: where BIP32 derives a key at every path, an HD    *)
(* table without --purpose that has printed a row prints one for every     *)
(* coin it was asked for, in the order of COINS, unless it is killed: only *)
(* its account and index could stop it, and they stop the first row        *)
(* (cmd_new_hd, hd::derive).                                               *)
(***************************************************************************)
THEOREM TablesFinish == ASSUME EveryChildIsAKey PROVE Spec => []NativeTableCompletes
<1>1. Init => Progress
  <2>1. ASSUME Init PROVE pc = "idle" /\ Range1(log) = {}
    BY <2>1, EmptyHolds DEF Init
  <2>2. QED
    BY <2>1 DEF Progress
<1>2. IInv /\ IInv' /\ Progress /\ [Next]_vars => Progress'
  BY NextProgress
<1>3. Progress => NativeTableCompletes
  BY DEF Progress, Finishes, NativeTableCompletes, Runs
<1>4. QED
  BY <1>1, <1>2, <1>3, Invariant, PTL DEF Spec
=============================================================================
