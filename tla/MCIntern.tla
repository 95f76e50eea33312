------------------------------ MODULE MCIntern ------------------------------
(***************************************************************************)
(* Intern.tla on a few real tokens: two that share a version prefix and    *)
(* differ in everything else, one whose `wif` is malformed and is refused  *)
(* after its prefix has been interned, and one parsed by nobody else.      *)
(***************************************************************************)
EXTENDS Intern, TLC

Token == INSTANCE Coins

P2pkhToken == [text |-> "p2pkh:ver=0,wif=128", fam |-> "p2pkh", flags |-> {},
               kv |-> <<<<"ver", Token!Val("0", 0)>>, <<"wif", Token!Val("128", 128)>>>>]
\* `wif` is out of range: refused once `hrp` has been interned.
BadSegwitToken == [text |-> "segwit:hrp=x,wif=999", fam |-> "segwit", flags |-> {},
                   kv |-> <<<<"hrp", Token!Val("x", Token!NaN)>>, <<"wif", Token!Val("999", 999)>>>>]
SegwitToken == [text |-> "segwit:hrp=x,wif=128", fam |-> "segwit", flags |-> {},
                kv |-> <<<<"hrp", Token!Val("x", Token!NaN)>>, <<"wif", Token!Val("128", 128)>>>>]

CONSTANTS t1, t2, t3    \* the threads

Plans(tokens) == {Token!InternPlan(tok) : tok \in tokens}
Items(plans)  == UNION {{plan[k] : k \in DOMAIN plan} : plan \in plans}

MCPool == {"str", "bytes"}

MCPlan == Plans({P2pkhToken, SegwitToken, BadSegwitToken})
MCItem == Items(MCPlan)
=============================================================================
