---------------------------- MODULE MCBlockPool ----------------------------
\* A small instance of BlockPool.  A frame is two instants long, the second its
\* end.  Hashes carry no meaning: numbering them in the order in which blocks
\* are first seen loses nothing, and neither does listing a block's links in
\* that order, since the pool looks at the set of links only.
EXTENDS BlockPool

CONSTANT MaxLinks

Increasing(s) == \A i, j \in DOMAIN s : i < j => s[i] < s[j]

SomeLinks == {s \in UNION {[1..n -> Block] : n \in 0..MaxLinks} : Increasing(s)}

InOrderOfArrival ==
  DOMAIN content' \subseteq 1..(Cardinality(DOMAIN content) + 1)
=============================================================================
