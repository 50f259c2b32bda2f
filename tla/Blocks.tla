------------------------------- MODULE Blocks -------------------------------
(***************************************************************************)
(* What the block engine of client/block.c knows of a block: the fields    *)
(* that a hash fixes for ever, and the index of the blocks held in memory  *)
(* (root, block_by_hash, insert_index, remove_index).                      *)
(*                                                                         *)
(* A block is named by its hash.  Of its sixteen fields the engine's       *)
(* bookkeeping tells apart the time, the work its hash shows (diff0), the  *)
(* ordered links, and whether the block can be an "extra" block at all:    *)
(* "plain" means that the last field is an input signature (the nonce of a *)
(* mined block) and that the fee and every link amount are zero.  It is    *)
(* recorded only of a block dated at the end of its frame, where it        *)
(* matters.                                                                *)
(***************************************************************************)
EXTENDS Naturals, Sequences, FiniteSets

CONSTANTS
  Block,      \* the hashes of the blocks that can arrive
  Time,       \* time stamps, counted from XDAG_ERA
  Work,       \* values of diff0
  LinkList,   \* lists of links, at most MAX_LINKS long
  Period      \* MAIN_CHAIN_PERIOD, the length of a time frame

ASSUME TimeAssumption == Time \subseteq Nat
ASSUME WorkAssumption == Work \subseteq Nat \ {0}
ASSUME LinkListAssumption == LinkList \subseteq Seq(Block)
ASSUME PeriodAssumption == Period \in Nat \ {0}

VARIABLES
  content,    \* what is in each block seen so far, by hash
  index       \* the blocks in memory

blockVars == <<content, index>>

\* The time frame of a time stamp (MAIN_TIME), and the last instant of a frame.
MAIN_TIME(t) == t \div Period
FrameEnd(t) == t % Period = Period - 1

Content ==
  {c \in [time : Time, work : Work, links : LinkList, plain : BOOLEAN] :
     c.plain => FrameEnd(c.time)}

time(b) == content[b].time

\* The blocks that b links to.
Targets(c) == {c.links[i] : i \in DOMAIN c.links}
Links(b) == Targets(content[b])

BlocksType ==
  /\ DOMAIN content \subseteq Block
  /\ content \in [DOMAIN content -> Content]
  /\ index \subseteq DOMAIN content

BlocksInit ==
  /\ content = [b \in {} |-> {}]
  /\ index = {}

(***************************************************************************)
(* The checks of add_block_nolock that a block of contents c and hash b    *)
(* passes: it is not known yet, every link is known (else error 5) and     *)
(* older (else error 6).  Of error 2: time stamps count from XDAG_ERA, so  *)
(* that none is before it, and g_time_limit, the age at which a block is   *)
(* refused, is 0 (none); that a block is not dated ahead of the clock only *)
(* delays it, and is a guard of the modules that have a clock.  The checks *)
(* on signatures, field types and sums depend on nothing but the block,    *)
(* and a block they reject never counts.                                   *)
(***************************************************************************)
Acceptable(b, c) ==
  /\ b \notin index
  /\ b \in DOMAIN content => c = content[b]
  /\ \A x \in Targets(c) : x \in index /\ time(x) < c.time

\* The hash b now stands for the contents c.
Learn(b, c) ==
  content' = [x \in DOMAIN content \cup {b} |-> IF x = b THEN c ELSE content[x]]
=============================================================================
