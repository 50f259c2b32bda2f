------------------------------ MODULE MCLedger ------------------------------
\* Small instances of Ledger.
EXTENDS Ledger

CONSTANTS
  MaxLinks,
  MaxPaying     \* bound on the blocks that move an amount or pay a fee

Distinct(s) == \A i, j \in DOMAIN s : s[i] = s[j] => i = j

\* Lists of links, and those without repetition.
AnyLinks == UNION {[1..n -> Block] : n \in 0..MaxLinks}
SomeLinks == {s \in AnyLinks : Distinct(s)}

InOrderOfArrival ==
  DOMAIN content' \subseteq 1..(Cardinality(DOMAIN content) + 1)

\* Nothing arrives while the storage is read (MCBlockPool has those arrivals).
LoadFirst == phase = "load" => index' \subseteq disk

\* A block that was lost arrives again before a new one does.
LostFirst == DOMAIN content' # DOMAIN content => DOMAIN content \subseteq index

\* A stop comes before the last block arrives.
StopsEarly == starts' # starts => Cardinality(DOMAIN content') < Cardinality(Block)

\* One block without links, the first.
OneRoot == \A b \in DOMAIN content' : content'[b].links = <<>> => b = 1

\* Only the last block to arrive is heavy enough to replace a chain of others.
HeavyLast == \A b \in DOMAIN content' : content'[b].work # 1 => Cardinality(DOMAIN content') = Cardinality(Block) /\ b = Cardinality(Block)

\* A link without an amount is an output.
Pays(t) == t.fee # 0 \/ \E i \in DOMAIN t.amt : t.amt[i] # 0

FewPaying ==
  /\ Cardinality({b \in DOMAIN transfer' : Pays(transfer'[b])}) <= MaxPaying
  /\ \A b \in DOMAIN transfer' : \A i \in transfer'[b].ins : transfer'[b].amt[i] # 0

\* No block names an account in two inputs, and one that moves nothing none twice.
OneInputEach ==
  /\ \A b \in DOMAIN transfer' : Pays(transfer'[b]) \/ Distinct(content'[b].links)
  /\ \A b \in DOMAIN transfer' : \A i, j \in transfer'[b].ins :
       content'[b].links[i] = content'[b].links[j] => i = j

\* The last block, which no other can link to, is never applied.
LastMovesNothing == \A b \in DOMAIN transfer' : Pays(transfer'[b]) => b # Cardinality(Block)

\* Only the first block moves anything.
FirstPays == \A b \in DOMAIN transfer' : Pays(transfer'[b]) => b = 1
=============================================================================
