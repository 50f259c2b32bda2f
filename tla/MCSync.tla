------------------------------- MODULE MCSync -------------------------------
\* A small instance of Sync: a chain, and a block with two links one of which is
\* the other's ancestor, in both orders of its fields.
EXTENDS Sync

Shapes ==
  {[b \in Block |-> CASE b = 2 -> <<1>> [] b = 3 -> third [] OTHER -> <<>>] :
     third \in {<<2>>, <<1, 2>>, <<2, 1>>}}
=============================================================================
