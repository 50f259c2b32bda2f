--------------------------- MODULE BlockPoolProofs ---------------------------
(***************************************************************************)
(* Proofs about BlockPool, for any number of blocks, links, extra blocks,  *)
(* crashes and resets.                                                     *)
(*                                                                         *)
(* The safety properties are not inductive one by one: that the orphan     *)
(* records follow BI_REF rests on the links of a block being in memory,    *)
(* this on extra blocks never being linked to, and what is on disk on all  *)
(* of them.  Core collects what one call of add_block_nolock needs from    *)
(* the calls before it.                                                    *)
(***************************************************************************)
EXTENDS BlockPool, FiniteSetTheorems, TLAPS

\* Links lead to older blocks.
Older ==
  \A b \in DOMAIN content : \A x \in Links(b) : x \in DOMAIN content /\ time(x) < time(b)

\* Every link of a stored block is stored before it or belongs to an earlier file.
Ordered ==
  \A i \in DOMAIN log : \A x \in Links(log[i]) :
    \/ \E j \in 1..(i - 1) : log[j] = x
    \/ MAIN_TIME(time(x)) < FileOf(i) /\ x \in disk \cup cut

Core ==
  /\ oref = index \ ref
  /\ extra \cap ref = {}
  /\ nextra = Cardinality(extra)
  /\ nnoref = Cardinality(oref \ extra)
  /\ \A b \in index : Links(b) \subseteq index \ extra
  /\ \A b \in index \ extra : Links(b) \subseteq ref
  /\ \A b \in extra : FrameEnd(time(b))
  /\ Ordered

\* While the storage is read from its beginning, a block that is due is in memory
\* or each of its places in the log is still to be read.
Pending ==
  phase = "load" /\ loadFrom = 0 =>
    /\ \A b \in due : Links(b) \subseteq due
    /\ \A i \in DOMAIN log : log[i] \in due => log[i] \in index \/ i \in todo

IndInv ==
  /\ TypeOK
  /\ IsFiniteSet(index)
  /\ index \ extra \subseteq disk
  /\ Older
  /\ Pending
  /\ ~crit => Core

-----------------------------------------------------------------------------
\* Dividing by a length keeps the order: frames follow the time, chunks the place.
LEMMA QuotientOrder ==
  ASSUME NEW a \in Nat, NEW b \in Nat, NEW d \in Nat \ {0}, a <= b
  PROVE  a \div d <= b \div d
OBVIOUS

\* A block dated at the end of a frame is of an earlier frame than every younger one.
LEMMA FrameEndOrder ==
  ASSUME NEW t \in Nat, NEW s \in Nat, FrameEnd(t), t < s
  PROVE  MAIN_TIME(t) < MAIN_TIME(s)
BY PeriodAssumption DEF FrameEnd, MAIN_TIME

\* Time stamps are natural numbers.
LEMMA TimeIsNat ==
  ASSUME TypeOK, NEW b \in DOMAIN content
  PROVE  time(b) \in Nat
<1>1. content[b] \in Content
  BY DEF TypeOK, BlocksType
<1>2. QED
  BY Zenon, <1>1, TimeAssumption DEF Content, time

\* What is appended to the log comes after all that was there.
LEMMA LogGrows ==
  ASSUME log \in Seq(Block), NEW w \in Seq(Block), log' = log \o w
  PROVE  /\ log' \in Seq(Block)
         /\ DOMAIN log \subseteq DOMAIN log'
         /\ \A i \in DOMAIN log : log'[i] = log[i]
         /\ \A i \in DOMAIN log' \ DOMAIN log :
              /\ \E k \in DOMAIN w : log'[i] = w[k]
              /\ DOMAIN log \subseteq 1..(i - 1)
         /\ disk' = disk \cup {w[k] : k \in DOMAIN w}
<1>1. log' \in Seq(Block)
  OBVIOUS
<1>2. DOMAIN log \subseteq DOMAIN log' /\ \A i \in DOMAIN log : log'[i] = log[i]
  OBVIOUS
<1>3. ASSUME NEW i \in DOMAIN log' \ DOMAIN log
      PROVE  /\ \E k \in DOMAIN w : log'[i] = w[k]
             /\ DOMAIN log \subseteq 1..(i - 1)
  <2>1. i \in Nat /\ i > Len(log) /\ i - Len(log) \in DOMAIN w /\ log'[i] = w[i - Len(log)]
    OBVIOUS
  <2>2. QED
    BY <2>1
<1>4. ASSUME NEW k \in DOMAIN w PROVE \E i \in DOMAIN log' : log'[i] = w[k]
  <2>1. Len(log) + k \in DOMAIN log' /\ log'[Len(log) + k] = w[k]
    OBVIOUS
  <2>2. QED
    BY <2>1
<1>5. disk' = disk \cup {w[k] : k \in DOMAIN w}
  <2>1. ASSUME NEW x \in disk' PROVE x \in disk \cup {w[k] : k \in DOMAIN w}
    BY <2>1, <1>2, <1>3 DEF disk
  <2>2. ASSUME NEW x \in disk PROVE x \in disk'
    BY <2>2, <1>2 DEF disk
  <2>3. ASSUME NEW k \in DOMAIN w PROVE w[k] \in disk'
    BY <1>4 DEF disk
  <2>4. QED
    BY <2>1, <2>2, <2>3
<1>6. QED
  BY Zenon, <1>1, <1>2, <1>3, <1>5

-----------------------------------------------------------------------------
\* What remove_orphan takes off the lists, called for blocks S without BI_REF:
\* all of S, only blocks with a record, besides S only blocks that are not
\* extra, and the links of every extra block it takes off.
LEMMA RemovalFacts ==
  ASSUME NEW S, S \subseteq index \ ref,
         \A b \in index : Links(b) \subseteq index \ extra
  PROVE  /\ S \subseteq Removal(S)
         /\ Removal(S) \subseteq index \ ref
         /\ Removal(S) \subseteq S \cup (index \ extra)
         /\ \A x \in Removal(S) \cap extra : Links(x) \ ref \subseteq Removal(S)
<1>1. S \subseteq Removal(S)
  BY DEF Removal
<1>2. Removal(S) \subseteq index \ ref
  <2>1. GoesOn(index \ ref)
    BY DEF GoesOn
  <2>2. QED
    BY <2>1 DEF Removal
<1>3. Removal(S) \subseteq S \cup (index \ extra)
  <2> DEFINE R == S \cup (index \ extra)
  <2>1. R \in SUBSET index /\ S \subseteq R
    OBVIOUS
  <2>2. GoesOn(R)
    BY <2>1 DEF GoesOn
  <2>3. QED
    BY <2>1, <2>2 DEF Removal
<1>4. ASSUME NEW x \in Removal(S) \cap extra
      PROVE  Links(x) \ ref \subseteq Removal(S)
  <2>1. SUFFICES ASSUME NEW y \in Links(x) \ ref,
                        NEW R \in SUBSET index, S \subseteq R, GoesOn(R)
                 PROVE  y \in index /\ y \in R
    BY <1>2 DEF Removal
  <2>2. x \in index /\ x \in R
    BY <2>1 DEF Removal
  <2>3. QED
    BY <2>1, <2>2 DEF GoesOn
<1>5. QED
  BY <1>1, <1>2, <1>3, <1>4

\* Taking two disjoint parts off a finite list and adding new blocks changes its
\* length by their sizes, as the counters nextra and nnoref do.
LEMMA ListLength ==
  ASSUME NEW L, IsFiniteSet(L), NEW V, NEW G, V \subseteq L, G \subseteq L,
         V \cap G = {}, NEW D, IsFiniteSet(D), D \cap L = {}
  PROVE  /\ Cardinality(((L \ V) \ G) \cup D)
              = Cardinality(L) - Cardinality(V) - Cardinality(G) + Cardinality(D)
         /\ Cardinality(((L \ V) \ G) \cup D) \in Nat
<1> DEFINE K == (L \ V) \ G
<1>1. /\ IsFiniteSet(V) /\ IsFiniteSet(G) /\ IsFiniteSet(L \ V)
      /\ IsFiniteSet(K) /\ IsFiniteSet(K \cup D)
  BY Zenon, FS_Subset, FS_Union
<1>2. Cardinality(L \ V) = Cardinality(L) - Cardinality(V)
  <2>1. L \cap V = V
    OBVIOUS
  <2>2. QED
    BY ZenonT(30), <2>1, FS_Difference
<1>3. Cardinality(K) = Cardinality(L \ V) - Cardinality(G)
  <2>1. (L \ V) \cap G = G
    OBVIOUS
  <2>2. QED
    BY Zenon, <2>1, <1>1, FS_Difference
<1>4. Cardinality(K \cup D) = Cardinality(K) + Cardinality(D)
  <2>1. K \cap D = {}
    OBVIOUS
  <2>2. Cardinality(K \cup D) = Cardinality(K) + Cardinality(D) - Cardinality(K \cap D)
    BY <1>1, FS_Union
  <2>3. Cardinality(K \cap D) = 0
    BY <2>1, FS_EmptySet, Zenon
  <2>4. Cardinality(K) \in Nat /\ Cardinality(D) \in Nat
    BY <1>1, FS_CardinalityType
  <2> HIDE DEF K
  <2>5. QED
    BY <2>2, <2>3, <2>4
<1>5. Cardinality(K \cup D) \in Nat
  BY <1>1, FS_CardinalityType
<1>6. QED
  BY <1>2, <1>3, <1>4, <1>5

-----------------------------------------------------------------------------
\* One accepted block.  The facts about the sets of the action come first: they
\* are what every conjunct of the invariant needs of it.
LEMMA AddFacts ==
  ASSUME IndInv, ~crit,
         NEW b \in Block, NEW c \in Content, NEW stored \in BOOLEAN, NEW synced \in BOOLEAN,
         Acceptable(b, c),
         NEW V, V = Victims(synced),
         NEW G, G = Gone(c, stored, synced)
  PROVE  /\ b \notin index
         /\ V \subseteq extra
         /\ G \subseteq oref
         /\ G \cap V = {}
         /\ Targets(c) \subseteq index
         /\ \A x \in Targets(c) : time(x) < c.time
         /\ Acted(c, IsExtra(c, stored)) \ V \subseteq G
         /\ \A x \in G \cap extra : Links(x) \subseteq ref \cup G
<1> DEFINE S == Acted(c, IsExtra(c, stored)) \ V
<1>1. Core
  BY DEF IndInv
<1>2. V \subseteq extra
  BY DEF Victims
<1>3. Targets(c) \subseteq index /\ b \notin index /\ \A x \in Targets(c) : time(x) < c.time
  BY DEF Acceptable
<1>4. S \subseteq index \ ref
  BY <1>3 DEF Acted
<1>5. \A x \in index : Links(x) \subseteq index \ extra
  BY <1>1 DEF Core
<1>6. /\ S \subseteq G
      /\ G \subseteq index \ ref
      /\ G \subseteq S \cup (index \ extra)
      /\ \A x \in G \cap extra : Links(x) \ ref \subseteq G
  BY <1>4, <1>5, RemovalFacts DEF Gone
<1>7. G \subseteq oref /\ G \cap V = {}
  BY Zenon, <1>1, <1>2, <1>6 DEF Core
<1>8. QED
  BY SMTT(30), <1>2, <1>3, <1>6, <1>7

\* The content of the blocks seen before stays, and that of b is c.
LEMMA LearnFacts ==
  ASSUME TypeOK, NEW b \in Block, NEW c \in Content, Acceptable(b, c), Learn(b, c)
  PROVE  /\ DOMAIN content' = DOMAIN content \cup {b}
         /\ DOMAIN content' \subseteq Block
         /\ content' \in [DOMAIN content' -> Content]
         /\ content'[b] = c
         /\ \A x \in DOMAIN content : content'[x] = content[x]
         /\ Links(b)' = Targets(c) /\ time(b)' = c.time
         /\ \A x \in DOMAIN content : Links(x)' = Links(x) /\ time(x)' = time(x)
<1>1. content' = [x \in DOMAIN content \cup {b} |-> IF x = b THEN c ELSE content[x]]
  BY DEF Learn
<1>2. b \in DOMAIN content => c = content[b]
  BY DEF Acceptable
<1>3. DOMAIN content \subseteq Block /\ content \in [DOMAIN content -> Content]
  BY DEF TypeOK, BlocksType
<1>4. /\ DOMAIN content' = DOMAIN content \cup {b}
      /\ content'[b] = c
      /\ \A x \in DOMAIN content : content'[x] = content[x]
  BY <1>1, <1>2
<1>5. content' \in [DOMAIN content' -> Content]
  BY <1>1, <1>3
<1>6. QED
  BY <1>3, <1>4, <1>5 DEF Links, time, Targets

\* The links of the new block are older than it.
LEMMA LearnKeepsOlder ==
  ASSUME TypeOK, Older, NEW b \in Block, NEW c \in Content, Acceptable(b, c), Learn(b, c)
  PROVE  Older'
<1>1. /\ DOMAIN content' = DOMAIN content \cup {b}
      /\ Links(b)' = Targets(c) /\ time(b)' = c.time
      /\ \A x \in DOMAIN content : Links(x)' = Links(x) /\ time(x)' = time(x)
  BY LearnFacts
<1>2. index \subseteq DOMAIN content
  BY DEF TypeOK, BlocksType
<1>3. \A x \in Targets(c) : x \in DOMAIN content /\ time(x) < c.time
  BY <1>2 DEF Acceptable
<1>4. SUFFICES ASSUME NEW y \in DOMAIN content', NEW x \in Links(y)'
               PROVE  x \in DOMAIN content' /\ time(x)' < time(y)'
  BY DEF Older
<1>5. CASE y = b
  BY <1>1, <1>3, <1>4, <1>5
<1>6. CASE y # b
  BY <1>1, <1>4, <1>6 DEF Older
<1>7. QED
  BY <1>5, <1>6

\* A call saves the new block or extra blocks that leave their list, finitely many,
\* and what it writes are just these.
LEMMA SavedFacts ==
  ASSUME IndInv, ~crit,
         NEW b \in Block, NEW c \in Content, NEW stored \in BOOLEAN, NEW synced \in BOOLEAN,
         Acceptable(b, c),
         NEW T, T = ToSave(b, c, stored, synced),
         NEW w \in Writes(b, c, T)
  PROVE  /\ T = (Gone(c, stored, synced) \cap extra) \cup (IF stored \/ IsExtra(c, stored) THEN {} ELSE {b})
         /\ T \subseteq Block
         /\ w \in Seq(T) /\ w \in Seq(Block)
         /\ \A x \in T : \E i \in DOMAIN w : w[i] = x
<1>1. T = (Gone(c, stored, synced) \cap extra) \cup (IF stored \/ IsExtra(c, stored) THEN {} ELSE {b})
  BY DEF ToSave, Saved
<1>2. TypeOK /\ IsFiniteSet(index) /\ extra \subseteq index /\ index \subseteq Block
  BY DEF IndInv, TypeOK, BlocksType
<1>3. T \subseteq index \cup {b}
  BY <1>1, <1>2
<1>4. IsFiniteSet(T)
  BY <1>2, <1>3, FS_AddElement, FS_Subset
<1>5. Cardinality(T) \in Nat
  BY <1>4, FS_CardinalityType
<1>6. /\ w \in [1..Cardinality(T) -> T]
      /\ \A x \in T : \E i \in DOMAIN w : w[i] = x
  BY DEF Writes
<1>7. w \in Seq(T) /\ T \subseteq Block
  BY <1>2, <1>3, <1>5, <1>6
<1>8. w \in Seq(Block)
  BY <1>5, <1>6, <1>7
<1>9. QED
  BY Zenon, <1>1, <1>6, <1>7, <1>8

\* add_block_nolock preserves the types, the finiteness of memory and what is
\* saved, also in the step that ends in the critical error.
LEMMA AddKeepsTypes ==
  ASSUME IndInv, ~crit,
         NEW b \in Block, NEW c \in Content, NEW stored \in BOOLEAN, NEW synced \in BOOLEAN,
         stored => b \in disk,
         AddBlock(b, c, stored, synced)
  PROVE  /\ BlocksType'
         /\ ref' \subseteq index' /\ extra' \subseteq index' /\ oref' \subseteq index'
         /\ before' \subseteq extra' \X extra'
         /\ nnoref' \in Nat /\ nextra' \in Nat
         /\ nextra' = Cardinality(extra')
         /\ nnoref' = Cardinality(oref' \ extra')
         /\ crit' \in BOOLEAN
         /\ IsFiniteSet(index')
         /\ index' \ extra' \subseteq disk'
         /\ disk' \subseteq DOMAIN content'
         /\ log' \in Seq(Block)
         /\ DOMAIN log \subseteq DOMAIN log' /\ disk \subseteq disk'
         /\ \A i \in DOMAIN log' : (i \in DOMAIN log /\ log'[i] = log[i]) \/ log'[i] \in index'
<1> DEFINE V == Victims(synced)
           isExtra == IsExtra(c, stored)
           G == Gone(c, stored, synced)
           T == ToSave(b, c, stored, synced)
           kept == (extra \ V) \ G
           new == IF isExtra THEN {b} ELSE {}
<1>1. Core /\ TypeOK
  BY DEF IndInv
<1>2. Acceptable(b, c) /\ Learn(b, c)
  BY DEF AddBlock
<1>3. /\ index' = (index \ V) \cup {b}
      /\ crit' = (Targets(c) \cap V # {})
      /\ ref' = ref \cup G
      /\ extra' = kept \cup new
      /\ oref' = ((oref \ V) \ G) \cup {b}
      /\ before' = (before \cap (kept \X kept)) \cup (kept \X new)
      /\ nextra' = nextra - Cardinality(V) - Cardinality(G \cap extra) + (IF isExtra THEN 1 ELSE 0)
      /\ nnoref' = nnoref - Cardinality(G \ extra) + (IF isExtra THEN 0 ELSE 1)
  BY DEF AddBlock
<1>4. isExtra \in BOOLEAN
  BY DEF IsExtra, Content, FrameEnd
<1>5. /\ b \notin index
      /\ V \subseteq extra /\ G \subseteq oref /\ G \cap V = {}
      /\ Targets(c) \subseteq index
  BY SMTT(30), <1>2, AddFacts
<1>6. /\ index \subseteq DOMAIN content /\ disk \subseteq DOMAIN content
      /\ ref \subseteq index /\ extra \subseteq index /\ oref \subseteq index
  BY <1>1 DEF TypeOK, BlocksType
<1>7. /\ oref = index \ ref /\ extra \cap ref = {}
      /\ nextra = Cardinality(extra) /\ nnoref = Cardinality(oref \ extra)
  BY <1>1 DEF Core
<1>8. /\ DOMAIN content' = DOMAIN content \cup {b}
      /\ DOMAIN content' \subseteq Block
      /\ content' \in [DOMAIN content' -> Content]
  BY <1>1, <1>2, LearnFacts
<1>9. PICK w \in Writes(b, c, T) : log' = log \o w
  BY DEF AddBlock
<1>9a. /\ T = (G \cap extra) \cup (IF stored \/ isExtra THEN {} ELSE {b})
       /\ w \in Seq(T) /\ w \in Seq(Block)
       /\ \A x \in T : \E i \in DOMAIN w : w[i] = x
  BY <1>2, SavedFacts
<1>9b. /\ log' \in Seq(Block)
       /\ DOMAIN log \subseteq DOMAIN log'
       /\ \A i \in DOMAIN log : log'[i] = log[i]
       /\ \A i \in DOMAIN log' \ DOMAIN log : \E k \in DOMAIN w : log'[i] = w[k]
       /\ disk' = disk \cup {w[k] : k \in DOMAIN w}
  BY Zenon, <1>1, <1>9, <1>9a, LogGrows DEF TypeOK
<1>9c. {w[k] : k \in DOMAIN w} = T
  BY <1>9a
<1> HIDE DEF V, isExtra, G, T
<1>10. BlocksType'
  BY <1>3, <1>5, <1>6, <1>8 DEF BlocksType
<1>11. ref' \subseteq index' /\ extra' \subseteq index' /\ oref' \subseteq index'
  BY <1>3, <1>5, <1>6, <1>7
<1>12. before' \subseteq extra' \X extra'
  BY <1>3
<1>13. IsFiniteSet(index) /\ IsFiniteSet(index') /\ IsFiniteSet(extra) /\ IsFiniteSet(oref \ extra)
  <2>1. IsFiniteSet(index)
    BY DEF IndInv
  <2>2. IsFiniteSet(index \ V) /\ IsFiniteSet(extra) /\ IsFiniteSet(oref \ extra)
    BY <2>1, <1>6, FS_Subset
  <2>3. QED
    BY Zenon, <2>1, <2>2, <1>3, FS_AddElement
<1>14. nextra' = Cardinality(extra') /\ nextra' \in Nat
  <2> DEFINE E == G \cap extra
  <2>1. E \subseteq extra /\ V \cap E = {} /\ new \cap extra = {} /\ IsFiniteSet(new)
    BY Zenon, <1>5, <1>6, FS_EmptySet, FS_Singleton
  <2>2. Cardinality(new) = IF isExtra THEN 1 ELSE 0
    BY FS_EmptySet, FS_Singleton
  <2>3. extra' = ((extra \ V) \ E) \cup new
    BY <1>3
  <2>4. nextra' = Cardinality(extra) - Cardinality(V) - Cardinality(E) + Cardinality(new)
    BY <1>3, <1>7, <2>2
  <2>5. V \subseteq extra /\ IsFiniteSet(extra)
    BY <1>5, <1>13
  <2> HIDE DEF E, new
  <2>6. /\ Cardinality(((extra \ V) \ E) \cup new)
             = Cardinality(extra) - Cardinality(V) - Cardinality(E) + Cardinality(new)
        /\ Cardinality(((extra \ V) \ E) \cup new) \in Nat
    BY <2>1, <2>5, ListLength, Zenon
  <2>7. QED
    BY <2>3, <2>4, <2>6, Zenon
<1>15. nnoref' = Cardinality(oref' \ extra') /\ nnoref' \in Nat
  <2> DEFINE L == oref \ extra
             N == G \ extra
             D == {b} \ new
  <2>1. N \subseteq L /\ {} \subseteq L /\ {} \cap N = {} /\ D \cap L = {} /\ IsFiniteSet(D)
    <3>1. D \subseteq {b} /\ IsFiniteSet({b})
      BY Zenon, FS_Singleton
    <3>2. IsFiniteSet(D)
      BY <3>1, FS_Subset
    <3>3. QED
      BY <3>2, <1>5, <1>6
  <2>2. oref' \ extra' = ((L \ {}) \ N) \cup D
    BY <1>3, <1>5, <1>6
  <2>3. /\ Cardinality({}) = 0 /\ Cardinality(L) \in Nat /\ Cardinality(N) \in Nat
        /\ Cardinality(D) = IF isExtra THEN 0 ELSE 1
    <3>1. D = IF isExtra THEN {} ELSE {b}
      BY <1>4
    <3>2. QED
      BY Zenon, <3>1, <2>1, <1>13, FS_EmptySet, FS_Singleton, FS_CardinalityType, FS_Subset
  <2>4. nnoref' = Cardinality(L) - Cardinality({}) - Cardinality(N) + Cardinality(D)
    BY <1>3, <1>4, <1>7, <2>3
  <2>5. IsFiniteSet(L)
    BY <1>13
  <2> HIDE DEF L, N, D
  <2>6. /\ Cardinality(((L \ {}) \ N) \cup D)
             = Cardinality(L) - Cardinality({}) - Cardinality(N) + Cardinality(D)
        /\ Cardinality(((L \ {}) \ N) \cup D) \in Nat
    BY <2>1, <2>5, ListLength, Zenon
  <2>7. QED
    BY <2>2, <2>4, <2>6, Zenon
<1>16. disk' = disk \cup T /\ T \subseteq index'
  BY Zenon, <1>3, <1>5, <1>6, <1>9a, <1>9b, <1>9c
<1>16a. disk \subseteq disk' /\ disk' \subseteq DOMAIN content'
  BY Zenon, <1>3, <1>5, <1>6, <1>8, <1>16
<1>16b. ASSUME NEW i \in DOMAIN log'
        PROVE  (i \in DOMAIN log /\ log'[i] = log[i]) \/ log'[i] \in index'
  <2>1. CASE i \in DOMAIN log
    BY Zenon, <2>1, <1>9b
  <2>2. CASE i \notin DOMAIN log
    BY Zenon, <2>2, <1>9b, <1>9c, <1>16
  <2>3. QED
    BY <2>1, <2>2
<1>17. index' \ extra' \subseteq disk'
  <2>1. index \ extra \subseteq disk
    BY DEF IndInv
  <2>2. QED
    BY Zenon, <2>1, <1>3, <1>4, <1>5, <1>9a, <1>16
<1>18. crit' \in BOOLEAN
  BY <1>3
<1>19. QED
  BY Zenon, <1>10, <1>11, <1>12, <1>13, <1>14, <1>15, <1>9b, <1>16a, <1>16b, <1>17, <1>18

\* Whatever part of its writes a call gets to, a link of a stored block is stored
\* before it or is an extra block of an earlier frame, stored or cut off.
LEMMA OrderedAfter ==
  ASSUME IndInv, ~crit,
         NEW b \in Block, NEW c \in Content, NEW stored \in BOOLEAN, NEW synced \in BOOLEAN,
         Acceptable(b, c), Learn(b, c), Targets(c) \cap Victims(synced) = {},
         NEW T, T = ToSave(b, c, stored, synced),
         NEW w \in Seq(Block), log' = log \o w,
         \A k \in DOMAIN w : w[k] \in T,
         T \subseteq disk' \cup cut', cut \subseteq cut'
  PROVE  Ordered'
<1> DEFINE G == Gone(c, stored, synced)
           isExtra == IsExtra(c, stored)
<1>1. Core /\ TypeOK /\ Older /\ index \ extra \subseteq disk
  BY DEF IndInv
<1>2. T = (G \cap extra) \cup (IF stored \/ isExtra THEN {} ELSE {b})
  BY DEF ToSave, Saved
<1>3. /\ Targets(c) \subseteq index
      /\ \A x \in Targets(c) : time(x) < c.time
      /\ Acted(c, isExtra) \ Victims(synced) \subseteq G
  BY AddFacts
<1>4. /\ Links(b)' = Targets(c) /\ time(b)' = c.time
      /\ \A x \in DOMAIN content : Links(x)' = Links(x) /\ time(x)' = time(x)
  BY Zenon, <1>1, LearnFacts
<1>5. /\ log' \in Seq(Block)
      /\ DOMAIN log \subseteq DOMAIN log'
      /\ \A i \in DOMAIN log : log'[i] = log[i]
      /\ \A i \in DOMAIN log' \ DOMAIN log :
           /\ \E k \in DOMAIN w : log'[i] = w[k]
           /\ DOMAIN log \subseteq 1..(i - 1)
      /\ disk' = disk \cup {w[k] : k \in DOMAIN w}
  BY Zenon, <1>1, LogGrows DEF TypeOK
<1>6. /\ index \subseteq DOMAIN content /\ disk \subseteq DOMAIN content
      /\ ref \subseteq index /\ extra \subseteq index
  BY <1>1 DEF TypeOK, BlocksType
<1>7. /\ extra \cap ref = {}
      /\ \A y \in index : Links(y) \subseteq index \ extra
      /\ \A y \in extra : FrameEnd(time(y))
      /\ Ordered
  BY <1>1 DEF Core
<1>8. \A x \in Targets(c) \cap extra : ~isExtra => x \in G
  BY Zenon, <1>3, <1>7 DEF Acted
<1> HIDE DEF G, isExtra
<1>9. SUFFICES ASSUME NEW i \in DOMAIN log', NEW x \in Links(log[i])'
               PROVE  \/ \E j \in 1..(i - 1) : log'[j] = x
                      \/ MAIN_TIME(time(x)') < MAIN_TIME(time(log[i])') /\ x \in disk' \cup cut'
  BY Zenon DEF Ordered, FileOf
<1>10. CASE i \in DOMAIN log
  <2>1. log[i] \in DOMAIN content /\ log'[i] = log[i]
    BY <1>5, <1>6, <1>10 DEF disk
  <2>2. /\ Links(log[i])' = Links(log[i])
        /\ time(log[i])' = time(log[i])
    BY Zenon, <1>4, <2>1 DEF Links, time
  <2>3. x \in DOMAIN content /\ time(x)' = time(x)
    BY Zenon, <1>1, <1>4, <1>9, <2>1, <2>2 DEF Older
  <2>4. CASE \E j \in 1..(i - 1) : log[j] = x
    <3>1. PICK j \in 1..(i - 1) : log[j] = x
      BY <2>4
    <3>2. j \in DOMAIN log
      BY <1>1, <1>10, <3>1 DEF TypeOK
    <3>3. QED
      BY <1>5, <3>1, <3>2
  <2>5. CASE MAIN_TIME(time(x)) < MAIN_TIME(time(log[i])) /\ x \in disk \cup cut
    BY <1>5, <2>2, <2>3, <2>5
  <2>6. QED
    BY Zenon, <1>7, <1>9, <1>10, <2>2, <2>4, <2>5 DEF Ordered, FileOf
<1>11. CASE i \notin DOMAIN log
  <2>1. PICK k \in DOMAIN w : log'[i] = w[k]
    BY Zenon, <1>5, <1>9, <1>11
  <2>2. DOMAIN log \subseteq 1..(i - 1)
    BY Zenon, <1>5, <1>9, <1>11
  <2>3. CASE x \in disk
    <3>1. PICK j \in DOMAIN log : log[j] = x
      BY <2>3 DEF disk
    <3>2. QED
      BY Zenon, <1>5, <2>2, <3>1
  <2>4. CASE w[k] \in G \cap extra
    <3>1. Links(log[i])' = Links(w[k])
      BY Zenon, <1>4, <1>6, <2>1, <2>4 DEF Links
    <3>2. x \in disk
      BY Zenon, <1>1, <1>6, <1>7, <1>9, <2>4, <3>1
    <3>3. QED
      BY <2>3, <3>2
  <2>5. CASE w[k] = b /\ ~isExtra
    <3>1. /\ Links(log[i])' = Targets(c) /\ time(log[i])' = c.time
      BY Zenon, <1>4, <2>1, <2>5 DEF Links, time
    <3>2. x \in index /\ x \in Targets(c)
      BY Zenon, <1>3, <1>9, <3>1
    <3>3. CASE x \in extra
      <4>1. x \in disk' \cup cut'
        BY Zenon, <1>2, <1>8, <2>5, <3>2, <3>3
      <4>2. FrameEnd(time(x)) /\ time(x) < c.time /\ time(x)' = time(x)
        BY Zenon, <1>3, <1>4, <1>6, <1>7, <3>2, <3>3
      <4>3. time(x) \in Nat /\ c.time \in Nat
        <5>1. time(x) \in Nat
          BY Zenon, <1>1, <1>6, <3>2, TimeIsNat
        <5>2. c.time \in Nat
          BY Zenon, TimeAssumption DEF Content
        <5>3. QED
          BY <5>1, <5>2
      <4>4. MAIN_TIME(time(x)) < MAIN_TIME(c.time)
        BY Zenon, <4>2, <4>3, FrameEndOrder
      <4>5. QED
        BY Zenon, <3>1, <4>1, <4>2, <4>4
    <3>4. CASE x \notin extra
      BY Zenon, <1>1, <2>3, <3>2, <3>4
    <3>5. QED
      BY <3>3, <3>4
  <2>6. QED
    BY Zenon, <1>2, <2>1, <2>4, <2>5
<1>12. QED
  BY <1>10, <1>11

\* add_block_nolock preserves the relations between the flags, the lists, the
\* links and the storage, unless it ends in the critical error.
LEMMA AddKeepsCore ==
  ASSUME IndInv, ~crit,
         NEW b \in Block, NEW c \in Content, NEW stored \in BOOLEAN, NEW synced \in BOOLEAN,
         stored => b \in disk,
         AddBlock(b, c, stored, synced), ~crit', cut' = cut
  PROVE  Core'
<1> DEFINE V == Victims(synced)
           isExtra == IsExtra(c, stored)
           G == Gone(c, stored, synced)
           T == ToSave(b, c, stored, synced)
           kept == (extra \ V) \ G
           new == IF isExtra THEN {b} ELSE {}
<1>1. Core /\ TypeOK /\ index \ extra \subseteq disk
  BY DEF IndInv
<1>2. Acceptable(b, c) /\ Learn(b, c)
  BY DEF AddBlock
<1>3. /\ index' = (index \ V) \cup {b}
      /\ crit' = (Targets(c) \cap V # {})
      /\ ref' = ref \cup G
      /\ extra' = kept \cup new
      /\ oref' = ((oref \ V) \ G) \cup {b}
  BY DEF AddBlock
<1>4. isExtra \in BOOLEAN
  BY DEF IsExtra, Content, FrameEnd
<1>5. /\ b \notin index
      /\ V \subseteq extra /\ G \subseteq oref /\ G \cap V = {}
      /\ Targets(c) \subseteq index
      /\ \A x \in Targets(c) : time(x) < c.time
      /\ \A x \in Targets(c) \ (ref \cup V) : (isExtra => x \in extra) => x \in G
      /\ \A x \in G \cap extra : Links(x) \subseteq ref \cup G
  <2>1. /\ b \notin index
        /\ V \subseteq extra /\ G \subseteq oref /\ G \cap V = {}
        /\ Targets(c) \subseteq index
    BY <1>2, AddFacts
  <2>2. \A x \in Targets(c) : time(x) < c.time
    BY <1>2 DEF Acceptable
  <2>3. Acted(c, isExtra) \ V \subseteq G
    BY <1>2, AddFacts
  <2>4. \A x \in G \cap extra : Links(x) \subseteq ref \cup G
    BY <1>2, AddFacts
  <2>5. \A x \in Targets(c) \ (ref \cup V) : (isExtra => x \in extra) => x \in G
    BY <2>3 DEF Acted
  <2>6. QED
    BY Zenon, <2>1, <2>2, <2>4, <2>5
<1>6. Targets(c) \cap V = {}
  BY Zenon, <1>3
<1>7. /\ index \subseteq DOMAIN content /\ disk \subseteq DOMAIN content
      /\ ref \subseteq index /\ extra \subseteq index
  BY <1>1 DEF TypeOK, BlocksType
<1>8. /\ Links(b)' = Targets(c) /\ time(b)' = c.time
      /\ \A x \in DOMAIN content : Links(x)' = Links(x) /\ time(x)' = time(x)
  BY Zenon, <1>1, <1>2, LearnFacts
<1>9. Ordered'
  <2>1. PICK w \in Writes(b, c, T) : log' = log \o w
    BY DEF AddBlock
  <2>2. w \in Seq(T) /\ w \in Seq(Block) /\ \A x \in T : \E k \in DOMAIN w : w[k] = x
    BY <1>2, SavedFacts
  <2>3. disk' = disk \cup {w[k] : k \in DOMAIN w}
    BY Zenon, <1>1, <2>1, <2>2, LogGrows DEF TypeOK
  <2>4. T \subseteq disk' \cup cut'
    BY <2>2, <2>3
  <2>5. \A k \in DOMAIN w : w[k] \in T
    BY <2>2
  <2>6. QED
    BY Zenon, <1>2, <1>6, <2>1, <2>2, <2>4, <2>5, OrderedAfter
<1>10. nextra' = Cardinality(extra') /\ nnoref' = Cardinality(oref' \ extra')
  BY AddKeepsTypes
<1>11. /\ oref = index \ ref /\ extra \cap ref = {}
       /\ \A y \in index : Links(y) \subseteq index \ extra
       /\ \A y \in index \ extra : Links(y) \subseteq ref
       /\ \A y \in extra : FrameEnd(time(y))
  BY <1>1 DEF Core
<1> HIDE DEF V, isExtra, G, T
<1>12. oref' = index' \ ref' /\ extra' \cap ref' = {}
  BY <1>3, <1>5, <1>7, <1>11
<1>13. ASSUME NEW y \in index' PROVE Links(y)' \subseteq index' \ extra'
  <2>1. CASE y = b
    BY <2>1, <1>3, <1>5, <1>6, <1>8, <1>11
  <2>2. CASE y # b
    BY <2>2, <1>3, <1>5, <1>7, <1>8, <1>11
  <2>3. QED
    BY <2>1, <2>2
<1>14. ASSUME NEW y \in index' \ extra' PROVE Links(y)' \subseteq ref'
  <2>1. CASE y = b
    BY <2>1, <1>3, <1>4, <1>5, <1>6, <1>8
  <2>2. CASE y # b /\ y \in extra
    BY <2>2, <1>3, <1>5, <1>7, <1>8
  <2>3. CASE y # b /\ y \notin extra
    BY <2>3, <1>3, <1>7, <1>8, <1>11
  <2>4. QED
    BY <2>1, <2>2, <2>3
<1>15. ASSUME NEW y \in extra' PROVE FrameEnd(time(y)')
  <2>1. CASE y = b /\ isExtra
    BY <2>1, <1>8 DEF isExtra, IsExtra
  <2>2. CASE y \in extra
    BY Zenon, <2>2, <1>7, <1>8, <1>11
  <2>3. QED
    BY Zenon, <2>1, <2>2, <1>3
<1>16. QED
  BY <1>9, <1>10, <1>12, <1>13, <1>14, <1>15 DEF Core

\* No extra block is given up while the storage is read.
LEMMA NoReuseWithoutSync ==
  Victims(FALSE) = {}
BY DEF Victims, MustReuse

-----------------------------------------------------------------------------
\* A block that is due stays in memory or to be read when a call adds a block and
\* the load passes over no place but those of this block.
LEMMA AddKeepsPending ==
  ASSUME IndInv, ~crit,
         NEW b \in Block, NEW c \in Content, NEW stored \in BOOLEAN, NEW synced \in BOOLEAN,
         stored => b \in disk,
         AddBlock(b, c, stored, synced),
         phase = "load" => ~synced,
         phase' = phase, loadFrom' = loadFrom, due' = due,
         \A i \in todo : i \in todo' \/ log[i] = b
  PROVE  Pending'
<1>1. TypeOK /\ Pending /\ due \subseteq DOMAIN content
  BY DEF IndInv, TypeOK
<1>2. SUFFICES ASSUME phase = "load", loadFrom = 0
               PROVE  /\ \A x \in due : Links(x)' \subseteq due
                      /\ \A i \in DOMAIN log' : log'[i] \in due => log'[i] \in index' \/ i \in todo'
  BY Zenon DEF Pending
<1>3. index' = index \cup {b}
  <2>1. synced = FALSE
    BY <1>2
  <2>2. index' = (index \ Victims(synced)) \cup {b}
    BY Zenon DEF AddBlock
  <2>3. QED
    BY Zenon, <2>1, <2>2, NoReuseWithoutSync
<1>4. \A x \in DOMAIN content : Links(x)' = Links(x)
  BY Zenon, <1>1, LearnFacts DEF AddBlock
<1>5. \A x \in due : Links(x)' \subseteq due
  BY Zenon, <1>1, <1>2, <1>4 DEF Pending
<1>6. \A i \in DOMAIN log' : (i \in DOMAIN log /\ log'[i] = log[i]) \/ log'[i] \in index'
  BY Zenon, AddKeepsTypes
<1>7. \A i \in DOMAIN log : log[i] \in due => log[i] \in index \/ i \in todo
  BY Zenon, <1>1, <1>2 DEF Pending
<1>8. QED
  BY Zenon, <1>3, <1>5, <1>6, <1>7

\* A block arrives.
LEMMA ReceiveStep ==
  ASSUME IndInv, NEW b \in Block, NEW c \in Content, NEW synced \in BOOLEAN,
         Receive(b, c, synced)
  PROVE  IndInv'
<1>1. /\ ~crit /\ (synced => phase = "run")
      /\ AddBlock(b, c, FALSE, synced)
      /\ UNCHANGED <<phase, todo, loadFrom, due, cut, starts>>
  BY Zenon DEF Receive, loadVars
<1>2. TypeOK /\ Older
  BY DEF IndInv
<1>3. TypeOK'
  BY Zenon, <1>1, <1>2, AddKeepsTypes DEF TypeOK
<1>4. IsFiniteSet(index') /\ index' \ extra' \subseteq disk'
  BY Zenon, <1>1, AddKeepsTypes
<1>5. Pending'
  <2>1. phase = "load" => ~synced
    BY <1>1
  <2>2. QED
    BY Zenon, <1>1, <2>1, AddKeepsPending
<1>6. ~crit' => Core'
  BY Zenon, <1>1, AddKeepsCore
<1>7. Older'
  BY Zenon, <1>1, <1>2, LearnKeepsOlder DEF AddBlock
<1>8. QED
  BY <1>3, <1>4, <1>5, <1>6, <1>7 DEF IndInv

\* The load reads a block before every younger one that is in a later file or, in the
\* same file, in a later place.
LEMMA EarlierRead ==
  ASSUME TypeOK, NEW i \in DOMAIN log, NEW j \in DOMAIN log,
         time(log[j]) < time(log[i]), j < i \/ FileOf(j) < FileOf(i)
  PROVE  ReadBefore(j, i)
<1> DEFINE Same(n) == {k \in 1..(n - 1) : FileOf(k) = FileOf(n)}
<1>1. i \in Nat /\ j \in Nat
  BY DEF TypeOK
<1>2. log[i] \in DOMAIN content /\ log[j] \in DOMAIN content
  BY DEF TypeOK, disk
<1>3. time(log[i]) \in Nat /\ time(log[j]) \in Nat
  BY Zenon, <1>2, TimeIsNat
<1>4. FileOf(j) <= FileOf(i) /\ FileOf(i) \in Int /\ FileOf(j) \in Int
  BY <1>3, PeriodAssumption, QuotientOrder DEF FileOf, MAIN_TIME
<1>5. CASE FileOf(j) < FileOf(i)
  BY <1>5 DEF ReadBefore
<1>6. CASE FileOf(j) = FileOf(i) /\ j < i
  <2>1. Same(j) \subseteq Same(i)
    BY <1>1, <1>6
  <2>2. IsFiniteSet(Same(i))
    <3>1. 1 \in Int /\ i - 1 \in Int
      BY <1>1
    <3>2. IsFiniteSet(1..(i - 1))
      BY Zenon, <3>1, FS_Interval
    <3>3. Same(i) \subseteq 1..(i - 1)
      OBVIOUS
    <3>4. QED
      BY Zenon, <3>2, <3>3, FS_Subset
  <2>3. /\ Cardinality(Same(j)) \in Nat /\ Cardinality(Same(i)) \in Nat
        /\ Cardinality(Same(j)) <= Cardinality(Same(i))
    BY <2>1, <2>2, FS_Subset, FS_CardinalityType
  <2>4. Chunk(j) = Cardinality(Same(j)) \div ChunkSize /\ Chunk(i) = Cardinality(Same(i)) \div ChunkSize
    BY DEF Chunk
  <2> HIDE DEF Same
  <2>5. Chunk(j) <= Chunk(i) /\ Chunk(i) \in Int /\ Chunk(j) \in Int
    BY <2>3, <2>4, ChunkSizeAssumption, QuotientOrder
  <2>6. QED
    BY <1>6, <2>5 DEF ReadBefore
<1>7. QED
  BY <1>4, <1>5, <1>6

\* While the storage is read from its beginning, the next stored block that is due is
\* known already or all its links are: none is passed over.
LEMMA NothingPassedOver ==
  ASSUME IndInv, ~crit, phase = "load", loadFrom = 0, NEW i, NextStored(i),
         ~Acceptable(log[i], content[log[i]]), log[i] \in due
  PROVE  log[i] \in index
<1>1. /\ TypeOK /\ Older /\ Pending /\ Ordered
      /\ i \in DOMAIN log /\ log[i] \in DOMAIN content
      /\ \A j \in todo : ~ReadBefore(j, i)
  BY DEF IndInv, Core, TypeOK, NextStored
<1>2. ASSUME NEW x \in Links(log[i]) PROVE x \in index /\ time(x) < time(log[i])
  <2>1. x \in due /\ x \in disk /\ time(x) < time(log[i])
    BY Zenon, <1>1 DEF Pending, TypeOK, Older
  <2>2. ASSUME NEW j \in DOMAIN log, log[j] = x, j < i \/ FileOf(j) < FileOf(i)
        PROVE  x \in index
    <3>1. ReadBefore(j, i)
      BY Zenon, <1>1, <2>1, <2>2, EarlierRead
    <3>2. QED
      BY Zenon, <1>1, <2>1, <2>2, <3>1 DEF Pending
  <2>3. CASE \E j \in 1..(i - 1) : log[j] = x
    <3>1. PICK j \in 1..(i - 1) : log[j] = x
      BY <2>3
    <3>2. j \in DOMAIN log /\ j < i
      BY <1>1, <3>1 DEF TypeOK
    <3>3. QED
      BY Zenon, <2>1, <2>2, <3>1, <3>2
  <2>4. CASE MAIN_TIME(time(x)) < FileOf(i)
    <3>1. PICK j \in DOMAIN log : log[j] = x
      BY <2>1 DEF disk
    <3>2. FileOf(j) < FileOf(i)
      BY <2>4, <3>1 DEF FileOf
    <3>3. QED
      BY Zenon, <2>1, <2>2, <3>1, <3>2
  <2>5. QED
    BY Zenon, <1>1, <2>3, <2>4 DEF Ordered
<1>3. QED
  BY <1>1, <1>2 DEF Acceptable, Links, time

\* Ordered and Older depend on the blocks and the storage alone, Core also on the
\* lists and the counters.
LEMMA OrderUnchanged ==
  ASSUME content' = content, log' = log, cut' = cut
  PROVE  (Ordered => Ordered') /\ (Older => Older') /\ disk' = disk
<1>1. disk' = disk /\ \A i : FileOf(i)' = FileOf(i)
  BY DEF disk, FileOf, time
<1>2. Ordered => Ordered'
  BY <1>1 DEF Ordered, Links, Targets, time
<1>3. Older => Older'
  BY DEF Older, Links, Targets, time
<1>4. QED
  BY <1>1, <1>2, <1>3

LEMMA CoreUnchanged ==
  ASSUME Core, content' = content, index' = index, log' = log, cut' = cut, ref' = ref,
         extra' = extra, oref' = oref, nnoref' = nnoref, nextra' = nextra
  PROVE  Core'
<1>1. \A x : Links(x)' = Links(x) /\ time(x)' = time(x)
  BY Zenon DEF Links, Targets, time
<1>2. /\ oref' = index' \ ref' /\ extra' \cap ref' = {}
      /\ nextra' = Cardinality(extra') /\ nnoref' = Cardinality(oref' \ extra')
  BY Zenon DEF Core
<1>3. /\ \A b \in index' : Links(b)' \subseteq index' \ extra'
      /\ \A b \in index' \ extra' : Links(b)' \subseteq ref'
      /\ \A b \in extra' : FrameEnd(time(b)')
  BY Zenon, <1>1 DEF Core
<1>4. Ordered'
  BY Zenon, OrderUnchanged DEF Core
<1>5. QED
  BY <1>2, <1>3, <1>4 DEF Core

\* The load reads the next place of the log.
LEMMA LoadStep ==
  ASSUME IndInv, NEW i \in todo, LoadBlock(i)
  PROVE  IndInv'
<1>1. /\ ~crit /\ phase = "load" /\ NextStored(i) /\ todo' = todo \ {i}
      /\ UNCHANGED <<phase, loadFrom, due, cut, starts>>
  BY Zenon DEF LoadBlock
<1>2. /\ TypeOK /\ Older /\ Pending
      /\ i \in DOMAIN log /\ log[i] \in Block /\ log[i] \in disk
      /\ log[i] \in DOMAIN content /\ content[log[i]] \in Content
  BY DEF IndInv, TypeOK, BlocksType, disk
<1>3. CASE AddBlock(log[i], content[log[i]], TRUE, FALSE)
  <2>1. TypeOK'
    BY Zenon, <1>1, <1>2, <1>3, AddKeepsTypes DEF TypeOK
  <2>2. IsFiniteSet(index') /\ index' \ extra' \subseteq disk'
    BY Zenon, <1>1, <1>2, <1>3, AddKeepsTypes
  <2>3. Pending'
    <3>1. \A j \in todo : j \in todo' \/ log[j] = log[i]
      BY Zenon, <1>1
    <3>2. QED
      BY Zenon, <1>1, <1>2, <1>3, <3>1, AddKeepsPending
  <2>4. ~crit' => Core'
    BY Zenon, <1>1, <1>2, <1>3, AddKeepsCore
  <2>5. Older'
    BY Zenon, <1>2, <1>3, LearnKeepsOlder DEF AddBlock
  <2>6. QED
    BY <2>1, <2>2, <2>3, <2>4, <2>5 DEF IndInv
<1>4. CASE ~Acceptable(log[i], content[log[i]]) /\ UNCHANGED <<blockVars, poolVars, log>>
  <2>1. /\ content' = content /\ index' = index /\ log' = log
        /\ ref' = ref /\ extra' = extra /\ oref' = oref /\ before' = before
        /\ nnoref' = nnoref /\ nextra' = nextra /\ crit' = crit
    BY <1>4 DEF blockVars, poolVars
  <2>2. disk' = disk /\ Older'
    BY Zenon, <1>1, <1>2, <2>1, OrderUnchanged
  <2>3. TypeOK'
    BY <1>1, <1>2, <2>1, <2>2 DEF TypeOK, BlocksType
  <2>4. Pending'
    <3>1. SUFFICES ASSUME loadFrom = 0, NEW j \in DOMAIN log, log[j] \in due
                   PROVE  log[j] \in index \/ j \in todo'
      <4>1. \A x : Links(x)' = Links(x)
        BY Zenon, <2>1 DEF Links, Targets
      <4>2. QED
        BY Zenon, <1>1, <1>2, <2>1, <4>1 DEF Pending
    <3>2. log[j] \in index \/ j \in todo
      BY Zenon, <1>1, <1>2, <3>1 DEF Pending
    <3>3. j = i => log[j] \in index
      BY Zenon, <1>1, <1>4, <3>1, NothingPassedOver
    <3>4. QED
      BY Zenon, <1>1, <3>2, <3>3
  <2>5. Core'
    BY Zenon, <1>1, <2>1, CoreUnchanged DEF IndInv
  <2>6. QED
    BY <2>1, <2>2, <2>3, <2>4, <2>5 DEF IndInv
<1>5. QED
  BY Zenon, <1>3, <1>4 DEF LoadBlock

\* The load ends: nothing but the phase changes.
LEMMA LoadDoneStep ==
  ASSUME IndInv, LoadDone
  PROVE  IndInv'
<1>1. /\ content' = content /\ index' = index /\ log' = log /\ cut' = cut
      /\ ref' = ref /\ extra' = extra /\ oref' = oref /\ before' = before
      /\ nnoref' = nnoref /\ nextra' = nextra /\ crit' = crit /\ starts' = starts
      /\ phase' = "run" /\ todo' = {} /\ loadFrom' = 0 /\ due' = {}
  BY DEF LoadDone, blockVars, poolVars
<1>2. disk' = disk /\ Older'
  BY Zenon, <1>1, OrderUnchanged DEF IndInv
<1>3. TypeOK'
  BY <1>1, <1>2 DEF IndInv, TypeOK, BlocksType
<1>4. ~crit' => Core'
  BY Zenon, <1>1, CoreUnchanged DEF IndInv
<1>5. Pending'
  BY <1>1 DEF Pending
<1>6. QED
  BY <1>1, <1>2, <1>3, <1>4, <1>5 DEF IndInv

\* The load begins, memory is empty: the invariant holds if it does of the storage.
LEMMA BeginLoadStep ==
  ASSUME starts \in 0..MaxStarts, starts < MaxStarts, NEW from \in Nat, NEW now \in Nat,
         BeginLoad(from, now),
         DOMAIN content' \subseteq Block, content' \in [DOMAIN content' -> Content],
         log' \in Seq(Block), disk' \subseteq DOMAIN content', cut' \subseteq Block,
         Older', Ordered'
  PROVE  IndInv'
<1>1. /\ index' = {} /\ ref' = {} /\ extra' = {} /\ oref' = {} /\ before' = {}
      /\ nnoref' = 0 /\ nextra' = 0
      /\ phase' = "load" /\ loadFrom' = from /\ starts' = starts + 1 /\ crit' = FALSE
      /\ todo' = {i \in DOMAIN log' : from <= time(log[i])' /\ time(log[i])' < now}
      /\ due' = {b \in Whole' : time(b)' < now}
  BY DEF BeginLoad, ForgetMemory
<1>2. IsFiniteSet(index') /\ Cardinality({}) = 0
  BY <1>1, FS_EmptySet
<1>3. Whole' \subseteq disk' /\ \A b \in Whole' : Links(b)' \subseteq Whole'
  BY DEF Whole
<1>4. TypeOK'
  <2>1. starts' \in 0..MaxStarts
    BY <1>1, MaxStartsAssumption
  <2>2. BlocksType'
    BY <1>1 DEF BlocksType
  <2>3. todo' \subseteq DOMAIN log' /\ due' \subseteq disk'
    BY <1>1, <1>3
  <2>4. QED
    BY <1>1, <2>1, <2>2, <2>3 DEF TypeOK
<1>5. \A b \in DOMAIN content' : time(b)' \in Nat
  <2>1. SUFFICES ASSUME NEW b \in DOMAIN content' PROVE content'[b].time \in Nat
    BY DEF time
  <2>2. QED
    BY Zenon, TimeAssumption DEF Content
<1>6. Pending'
  <2>1. ASSUME NEW b \in due', NEW x \in Links(b)' PROVE x \in due'
    <3>1. b \in DOMAIN content' /\ x \in DOMAIN content' /\ time(x)' < time(b)' /\ x \in Whole'
      BY Zenon, <1>1, <1>3, <2>1 DEF Older
    <3>2. QED
      BY <1>1, <1>5, <2>1, <3>1
  <2>2. ASSUME from = 0, NEW i \in DOMAIN log', log'[i] \in due' PROVE i \in todo'
    <3>1. log'[i] \in DOMAIN content' /\ time(log[i])' < now
      BY Zenon, <1>1, <1>3, <2>2 DEF time
    <3>2. time(log[i])' \in Nat
      BY Zenon, <1>5, <3>1 DEF time
    <3>3. QED
      BY <1>1, <2>2, <3>1, <3>2
  <2>3. QED
    BY Zenon, <1>1, <2>1, <2>2 DEF Pending
<1>7. Core'
  <2>1. oref' \ extra' = {} /\ extra' = {}
    BY <1>1
  <2>2. nextra' = Cardinality(extra') /\ nnoref' = Cardinality(oref' \ extra')
    BY <1>1, <1>2, <2>1, Zenon
  <2>3. QED
    BY <1>1, <2>2 DEF Core
<1>8. QED
  BY <1>1, <1>2, <1>4, <1>6, <1>7 DEF IndInv

\* A stop between two calls, or a reset: the storage is as it was.
LEMMA StopStep ==
  ASSUME IndInv, ~crit, starts < MaxStarts, NEW from \in Nat, NEW now \in Nat,
         UNCHANGED <<content, log, cut>>, BeginLoad(from, now)
  PROVE  IndInv'
<1>1. TypeOK /\ Older /\ Ordered
  BY DEF IndInv, Core
<1>2. disk' = disk /\ Older' /\ Ordered'
  BY Zenon, <1>1, OrderUnchanged
<1>3. /\ starts \in 0..MaxStarts
      /\ DOMAIN content' \subseteq Block /\ content' \in [DOMAIN content' -> Content]
      /\ log' \in Seq(Block) /\ disk' \subseteq DOMAIN content' /\ cut' \subseteq Block
  BY <1>1, <1>2 DEF TypeOK, BlocksType
<1>4. QED
  BY Zenon, <1>2, <1>3, BeginLoadStep

\* A stop inside a call, after k of its writes.
LEMMA KilledStep ==
  ASSUME IndInv, NEW b \in Block, NEW c \in Content, NEW stored \in BOOLEAN, NEW synced \in BOOLEAN,
         NEW now \in Nat, Killed(b, c, stored, synced, now)
  PROVE  IndInv'
<1> DEFINE T == ToSave(b, c, stored, synced)
<1>1. /\ ~crit /\ starts < MaxStarts
      /\ Acceptable(b, c) /\ Learn(b, c) /\ Targets(c) \cap Victims(synced) = {}
      /\ BeginLoad(0, now)
  BY Zenon DEF Killed
<1>2. PICK w \in Writes(b, c, T) : \E k \in 0..Len(w) :
        /\ log' = log \o SubSeq(w, 1, k)
        /\ cut' = cut \cup {w[i] : i \in (k + 1)..Len(w)}
  BY Zenon DEF Killed
<1>3. PICK k \in 0..Len(w) :
        /\ log' = log \o SubSeq(w, 1, k)
        /\ cut' = cut \cup {w[i] : i \in (k + 1)..Len(w)}
  BY Zenon, <1>2
<1>4. TypeOK /\ Older
  BY DEF IndInv
<1>5. /\ T = (Gone(c, stored, synced) \cap extra) \cup (IF stored \/ IsExtra(c, stored) THEN {} ELSE {b})
      /\ T \subseteq Block
      /\ w \in Seq(T) /\ w \in Seq(Block)
      /\ \A x \in T : \E i \in DOMAIN w : w[i] = x
  BY <1>1, <1>2, SavedFacts
<1> DEFINE v == SubSeq(w, 1, k)
<1>6. T \subseteq extra \cup {b}
  BY Zenon, <1>5
<1> HIDE DEF T
<1>7. /\ v \in Seq(T) /\ v \in Seq(Block)
      /\ DOMAIN v = 1..k
      /\ \A i \in 1..k : v[i] = w[i] /\ w[i] \in T
  BY <1>3, <1>5
<1>8. \A i \in DOMAIN w : w[i] \in T /\ i \in 1..k \cup (k + 1)..Len(w)
  BY <1>3, <1>5
<1> HIDE DEF v
<1>9. /\ log' \in Seq(Block)
      /\ disk' = disk \cup {v[i] : i \in DOMAIN v}
  BY Zenon, <1>3, <1>4, <1>7, LogGrows DEF TypeOK, v
<1>10. T \subseteq disk' \cup cut'
  <2>1. SUFFICES ASSUME NEW x \in T PROVE x \in disk' \cup cut'
    OBVIOUS
  <2>2. PICK i \in DOMAIN w : w[i] = x
    BY Zenon, <1>5
  <2>3. i \in 1..k => x \in disk'
    BY Zenon, <1>7, <1>9, <2>2
  <2>4. i \in (k + 1)..Len(w) => x \in cut'
    BY Zenon, <1>3, <2>2
  <2>5. QED
    BY Zenon, <1>8, <2>2, <2>3, <2>4
<1>11. \A i \in DOMAIN v : v[i] \in T
  BY Zenon, <1>7
<1>12. Ordered'
  BY Zenon, <1>1, <1>3, <1>7, <1>10, <1>11, OrderedAfter DEF T, v
<1>13. Older'
  BY Zenon, <1>1, <1>4, LearnKeepsOlder
<1>14. /\ DOMAIN content' \subseteq Block /\ content' \in [DOMAIN content' -> Content]
       /\ DOMAIN content' = DOMAIN content \cup {b}
  BY Zenon, <1>1, <1>4, LearnFacts
<1>15. disk' \subseteq DOMAIN content'
  BY Zenon, <1>4, <1>6, <1>9, <1>11, <1>14 DEF TypeOK, BlocksType
<1>16. cut' \subseteq Block /\ starts \in 0..MaxStarts
  <2>1. (k + 1)..Len(w) \subseteq DOMAIN w
    BY <1>3, <1>5
  <2>2. QED
    BY Zenon, <1>3, <1>4, <1>5, <1>8, <2>1 DEF TypeOK
<1>17. 0 \in Nat
  OBVIOUS
<1>18. QED
  BY Zenon, <1>1, <1>9, <1>12, <1>13, <1>14, <1>15, <1>16, <1>17, BeginLoadStep

\* The initial state: nothing in memory, nothing stored.
LEMMA InitInd ==
  ASSUME Init
  PROVE  IndInv
<1>1. IsFiniteSet({}) /\ Cardinality({}) = 0
  BY FS_EmptySet
<1>2. content = [b \in {} |-> {}] /\ DOMAIN content = {}
  BY DEF Init, BlocksInit
<1>3. TypeOK
  <2>1. [b \in {} |-> {}] \in [{} -> Content]
    OBVIOUS
  <2>2. BlocksType
    BY <1>2, <2>1 DEF Init, BlocksInit, BlocksType
  <2>3. 0 \in 0..MaxStarts
    BY MaxStartsAssumption
  <2>4. log = <<>> /\ log \in Seq(Block) /\ DOMAIN log = {}
    BY DEF Init
  <2>5. disk = {}
    BY <2>4 DEF disk
  <2>6. QED
    BY Zenon, <2>2, <2>3, <2>4, <2>5 DEF Init, BlocksInit, TypeOK
<1>4. Core
  <2>1. oref \ extra = {} /\ extra = {}
    BY DEF Init
  <2>2. nextra = Cardinality(extra) /\ nnoref = Cardinality(oref \ extra)
    BY <1>1, <2>1, Zenon DEF Init
  <2>3. QED
    BY <2>2 DEF Init, BlocksInit, Core, Ordered
<1>5. Older /\ Pending
  BY <1>2 DEF Init, Older, Pending
<1>6. QED
  BY <1>1, <1>3, <1>4, <1>5 DEF Init, BlocksInit, IndInv

\* Every step of the block engine keeps the invariant.
LEMMA NextInd ==
  ASSUME IndInv, [Next]_vars
  PROVE  IndInv'
<1>1. ASSUME NEW b \in Block \ index, NEW c \in Content, NEW synced \in BOOLEAN, Receive(b, c, synced)
      PROVE  IndInv'
  BY <1>1, ReceiveStep
<1>2. ASSUME NEW i \in todo, LoadBlock(i)
      PROVE  IndInv'
  BY <1>2, LoadStep
<1>3. CASE LoadDone
  BY <1>3, LoadDoneStep
<1>4. Clock \subseteq Nat
  BY TimeAssumption DEF Clock
<1>5. ASSUME NEW now \in Clock, Restart(now)
      PROVE  IndInv'
  <2>1. 0 \in Nat /\ now \in Nat
    BY <1>4
  <2>2. QED
    BY Zenon, <1>5, <2>1, StopStep DEF Restart
<1>6. ASSUME NEW b \in Block \ index, NEW c \in Content, NEW stored \in BOOLEAN, NEW synced \in BOOLEAN,
             NEW now \in Clock, Killed(b, c, stored, synced, now)
      PROVE  IndInv'
  BY Zenon, <1>4, <1>6, KilledStep
<1>7. ASSUME NEW t \in Clock, NEW now \in Clock, Reset(t, now)
      PROVE  IndInv'
  BY Zenon, <1>4, <1>7, StopStep DEF Reset
<1>8. CASE UNCHANGED vars
  <2>1. /\ content' = content /\ index' = index /\ log' = log /\ cut' = cut
        /\ ref' = ref /\ extra' = extra /\ oref' = oref /\ before' = before
        /\ nnoref' = nnoref /\ nextra' = nextra /\ crit' = crit /\ starts' = starts
        /\ phase' = phase /\ todo' = todo /\ loadFrom' = loadFrom /\ due' = due
    BY <1>8 DEF vars
  <2>2. disk' = disk /\ Older'
    BY Zenon, <2>1, OrderUnchanged DEF IndInv
  <2>3. TypeOK'
    BY <2>1, <2>2 DEF IndInv, TypeOK, BlocksType
  <2>4. ~crit' => Core'
    BY Zenon, <2>1, CoreUnchanged DEF IndInv
  <2>5. Pending'
    BY <2>1 DEF IndInv, Pending, Links, Targets
  <2>6. QED
    BY <2>1, <2>2, <2>3, <2>4, <2>5 DEF IndInv
<1>9. QED
  BY Zenon, <1>1, <1>2, <1>3, <1>5, <1>6, <1>7, <1>8 DEF Next

-----------------------------------------------------------------------------
\* The inductive invariant holds throughout every behaviour of the block engine.
THEOREM Invariance == Spec => []IndInv
<1>1. Init => IndInv
  BY InitInd
<1>2. IndInv /\ [Next]_vars => IndInv'
  BY NextInd
<1>3. QED
  BY <1>1, <1>2, PTL DEF Spec

\* Type correctness.
THEOREM TypeCorrect == Spec => []TypeOK
<1>1. IndInv => TypeOK
  BY DEF IndInv
<1>2. QED
  BY <1>1, Invariance, PTL

\* The orphan records and the counters follow the flags: for any number of
\* blocks, links and extra blocks, remove_orphan and add_orphan never lose or
\* double a record.
THEOREM OrphanListsHold == Spec => []OrphanLists
<1>1. IndInv => OrphanLists
  BY DEF IndInv, Core, TypeOK, OrphanLists
<1>2. QED
  BY <1>1, Invariance, PTL

\* No block in memory ever points at a block that was given up.
THEOREM LinksInMemoryHold == Spec => []LinksInMemory
<1>1. IndInv => LinksInMemory
  BY DEF IndInv, Core, LinksInMemory
<1>2. QED
  BY <1>1, Invariance, PTL

\* apply_block never overwrites an orphan record through the union of ref and
\* oref: the blocks with BI_REF are closed under links.
THEOREM UnionSafeHolds == Spec => []UnionSafe
<1>1. ASSUME IndInv PROVE UnionSafe
  <2>1. SUFFICES ASSUME ~crit, NEW p \in ref, NEW x \in Reach(p) PROVE x \notin oref
    BY DEF UnionSafe
  <2>2. ref \in SUBSET index /\ \A y \in ref : Links(y) \subseteq ref
    BY <1>1, <2>1 DEF IndInv, Core, TypeOK
  <2>3. x \in ref
    BY <2>1, <2>2 DEF Reach
  <2>4. QED
    BY <1>1, <2>1, <2>3 DEF IndInv, Core
<1>2. QED
  BY <1>1, Invariance, PTL

\* Wherever add_block_nolock is stopped between two of its writes, a link of a stored
\* block is stored before it, or dated in an earlier frame and then missing only if
\* its own writing was cut off.
THEOREM StoredInOrderHolds == Spec => []StoredInOrder
<1>1. IndInv => StoredInOrder
  BY Zenon DEF IndInv, Core, Ordered, StoredInOrder
<1>2. QED
  BY <1>1, Invariance, PTL

\* Only extra blocks are not on disk.
THEOREM NothingUnsavedHolds == Spec => []NothingUnsaved
<1>1. IndInv => NothingUnsaved
  BY DEF IndInv, NothingUnsaved
<1>2. QED
  BY <1>1, Invariance, PTL

\* A fresh start that reads all files, sorted chunk by chunk, brings back every
\* stored block dated before it whose ancestors are stored, although blocks from the
\* network are added between those that are read.
THEOREM ReloadIsComplete == Spec => ReloadComplete
<1>1. ASSUME IndInv, Next, phase = "load", phase' = "run", loadFrom = 0, todo = {}
      PROVE  due \subseteq index
  <2>1. SUFFICES ASSUME NEW b \in due PROVE b \in index
    OBVIOUS
  <2>2. PICK i \in DOMAIN log : log[i] = b
    BY <1>1 DEF IndInv, TypeOK, disk
  <2>3. QED
    BY <1>1, <2>1, <2>2 DEF IndInv, Pending
<1>2. IndInv /\ [Next]_vars =>
        [phase = "load" /\ phase' = "run" /\ loadFrom = 0 /\ todo = {} => due \subseteq index]_vars
  BY <1>1
<1>3. QED
  BY <1>2, Invariance, PTL DEF Spec, ReloadComplete
=============================================================================
