---------------------------- MODULE MCMainChain ----------------------------
\* A small instance of MainChain.  The first link of a block that offers most is
\* its max_diff_link, so lists of links are tried in every order.
EXTENDS MainChain

CONSTANT MaxLinks

Distinct(s) == \A i, j \in DOMAIN s : s[i] = s[j] => i = j

SomeLinks == {s \in UNION {[1..n -> Block] : n \in 0..MaxLinks} : Distinct(s)}

InOrderOfArrival ==
  DOMAIN content' \subseteq 1..(Cardinality(DOMAIN content) + 1)

\* Nothing arrives while the storage is read (MCBlockPool has those arrivals).
LoadFirst == phase = "load" => index' \subseteq disk

\* A block that was lost arrives again before a new one does.
LostFirst == DOMAIN content' # DOMAIN content => DOMAIN content \subseteq index

\* A stop comes before the last three blocks.
StopsEarly == starts' # starts => Cardinality(DOMAIN content') < 2
=============================================================================
