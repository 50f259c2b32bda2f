------------------------------ MODULE MainChain ------------------------------
(***************************************************************************)
(* The choice of the main chain in client/block.c: the difficulty and the  *)
(* max_diff_link of a new block, the flags BI_MAIN_CHAIN and BI_MAIN,      *)
(* set_main, unset_main, check_new_main, unwind_main, and the blocks top   *)
(* and pretop that mining starts from.  It is composed with BlockPool: one *)
(* call of add_block_nolock is one step of both.                           *)
(*                                                                         *)
(* The fields difficulty and max_diff_link of a block never change once it *)
(* is in memory.  So the blocks that a walk along link[max_diff_link] from *)
(* b visits are recorded, in order, in walk[b] when b is added, and every  *)
(* loop of the code along that link is a statement about walk[b].          *)
(***************************************************************************)
EXTENDS BlockPool, FiniteSetsExt

CONSTANTS
  NoBlock,     \* the null pointer
  Instants,    \* the readings of the clock
  Settle,      \* the two seconds that check_new_main lets pass
  SyncFix      \* SYNC_FIX_HEIGHT: where the order of marking changes

ASSUME NoBlockAssumption == NoBlock \notin Block
ASSUME InstantsAssumption == Instants \subseteq Nat /\ Instants # {}
ASSUME SettleAssumption == Settle \in Nat
ASSUME SyncFixAssumption == SyncFix \in Nat

MAX_WAITING_MAIN == 1

VARIABLES
  clock,       \* xdag_get_xtimestamp()
  difficulty,  \* of a block
  walk,        \* b, its max_diff_link, and so on down
  chain,       \* blocks with BI_MAIN_CHAIN
  main,        \* blocks with BI_MAIN
  height,      \* of a block
  nmain,       \* g_xdag_stats.nmain
  total_nmain, \* g_xdag_stats.total_nmain
  top,         \* top_main_chain
  pretop,      \* pretop_main_chain
  best,        \* g_xdag_stats.difficulty
  early        \* history: a block of a frame yet to come was accepted

chainVars == <<difficulty, walk, chain, main, height, nmain, total_nmain, top, pretop, best, early>>
allVars == <<vars, clock, chainVars>>

Pointer == Block \cup {NoBlock}

ChainTypeOK ==
  /\ TypeOK
  /\ clock \in Instants
  /\ difficulty \in [Block -> Nat]
  /\ walk \in [Block -> Seq(Block)]
  /\ main \subseteq index /\ chain \subseteq index
  /\ height \in [Block -> Nat]
  /\ nmain \in Nat /\ total_nmain \in Nat
  /\ {top, pretop} \subseteq index \cup {NoBlock}
  /\ best \in Nat
  /\ early \in BOOLEAN

-----------------------------------------------------------------------------
Walk(b) == IF b = NoBlock THEN <<>> ELSE walk[b]
Diff(b) == IF b = NoBlock THEN 0 ELSE difficulty[b]
Frame(b) == MAIN_TIME(time(b))

(***************************************************************************)
(* What a link to x offers a block of contents c.  From an earlier frame,  *)
(* the work of c comes on top.  From the same frame the difficulty of x,   *)
(* or the work of c on top of the first block of an earlier frame below x. *)
(***************************************************************************)
Below(x, c) ==
  {difficulty[walk[x][i]] : i \in {j \in DOMAIN walk[x] :
     /\ Frame(walk[x][j]) < MAIN_TIME(c.time)
     /\ \A k \in 1..(j - 1) : Frame(walk[x][k]) = MAIN_TIME(c.time)}}

\* Mutant: the work of a frame is counted once for every block of it.
Offer_SameFrameTwice(x, c) == c.work + difficulty[x]

Offer(x, c) ==
  IF Frame(x) < MAIN_TIME(c.time)
  THEN c.work + difficulty[x]
  ELSE Max({difficulty[x]} \cup {c.work + d : d \in Below(x, c)})

NewDiff(c) == Max({c.work} \cup {Offer(x, c) : x \in Targets(c)})

\* The first link that offers the new difficulty; the first link when the
\* block's own work is not exceeded by any, as max_diff_link starts at 0.
MaxDiffLink(c) ==
  CASE c.links = <<>> -> NoBlock
    [] c.links # <<>> /\ NewDiff(c) = c.work -> c.links[1]
    [] OTHER -> c.links[Min({i \in DOMAIN c.links : Offer(c.links[i], c) = NewDiff(c)})]

-----------------------------------------------------------------------------
\* The positions of the walk w before its first member of S.
Until(w, S) == {i \in DOMAIN w : \A j \in 1..i : w[j] \notin S}

(***************************************************************************)
(* check_new_main: among the blocks of the main chain above the last main  *)
(* block, the lowest becomes main if another one waits above it, it is     *)
(* referenced and it is Settle old.                                        *)
(***************************************************************************)
Waiting == {i \in Until(Walk(top), main) : Walk(top)[i] \in chain}

\* Mutant: the highest waiting block becomes main.
Confirmed_Highest ==
  {p \in ref : /\ Cardinality(Waiting) > MAX_WAITING_MAIN
               /\ p = Walk(top)[Min(Waiting)]
               /\ clock >= time(p) + Settle}

Confirmed ==
  {p \in ref : /\ Cardinality(Waiting) > MAX_WAITING_MAIN
               /\ p = Walk(top)[Max(Waiting)]
               /\ clock >= time(p) + Settle}

\* set_main for the block that check_new_main confirms, if any.
MainNow == main \cup Confirmed
NmainNow == nmain + Cardinality(Confirmed)
TotalNow == IF NmainNow > total_nmain THEN NmainNow ELSE total_nmain
HeightNow == [b \in Block |-> IF b \in Confirmed THEN nmain + 1 ELSE height[b]]

CheckNewMain ==
  /\ ~crit
  /\ phase = "run"
  /\ Confirmed # {}
  /\ main' = MainNow /\ nmain' = NmainNow /\ total_nmain' = TotalNow /\ height' = HeightNow
  /\ UNCHANGED <<vars, clock, difficulty, walk, chain, top, pretop, best, early>>

-----------------------------------------------------------------------------
(***************************************************************************)
(* add_block_nolock from check_new_main on.  Marked(w, S) are the blocks   *)
(* that the loop over the walk w down to S marks: a block heavier than the *)
(* one below it, the first such block of its frame.                        *)
(***************************************************************************)
Heavier(w, d, i) == i = Len(w) \/ d[w[i]] > d[w[i + 1]]

\* Mutant: one frame may have several marks.
MarkedAt_EveryHeavier(w, d, f, S) == {i \in Until(w, S) : Heavier(w, d, i)}

MarkedAt(w, d, f, S) ==
  {i \in Until(w, S) : /\ Heavier(w, d, i)
                       /\ \A j \in 1..(i - 1) : Heavier(w, d, j) => f[w[j]] # f[w[i]]}

Marked(w, d, f, S) == {w[i] : i \in MarkedAt(w, d, f, S)}

\* Mutants: unwind to where the walks meet, whatever the frame; unwind all.
UnwindTo_Ancestor(w, d, f) ==
  LET a == Cardinality(Until(w, chain)) + 1
  IN  IF a \in DOMAIN w THEN w[a] ELSE NoBlock
UnwindTo_Genesis(w, d, f) == NoBlock

\* The block to unwind to, blockRef after the first loop: where the walk meets
\* the main chain, or one lower if that block is of the frame of the last mark.
UnwindTo(w, d, f) ==
  LET a == Cardinality(Until(w, chain)) + 1
      m == w[Max(MarkedAt(w, d, f, chain))]
      at(i) == IF i \in DOMAIN w THEN w[i] ELSE NoBlock
  IN  IF at(a) # NoBlock /\ f[at(a)] = f[m] THEN at(a + 1) ELSE at(a)

(***************************************************************************)
(* The memory of an extra block that is given up now holds the new block b *)
(* of walk w: a pointer to the one leads to the other, without flags.      *)
(***************************************************************************)
Pointed(p, b, victims) == IF p \in victims THEN b ELSE p
WalkOfTop(w, victims) == IF top \in victims THEN w ELSE Walk(top)

Unwound(w, b) == {w[i] : i \in Until(w, {b})}

\* The new block becomes the top: the old chain is unwound, the new one marked.
\* Below SyncFix the marks are set before the unwinding, which may undo some.
TakeTop(b, w, d, f, victims) ==
  LET out == Unwound(WalkOfTop(w, victims), UnwindTo(w, d, f))
      n == NmainNow - Cardinality(MainNow \cap out)
      first == IF NmainNow < SyncFix THEN Marked(w, d, f, chain) ELSE {}
      left == ((chain \ victims) \cup first) \ out
      second == IF n >= SyncFix THEN Marked(w, d, f, left) ELSE {}
  IN
  /\ chain' = left \cup second
  /\ main' = MainNow \ out
  /\ nmain' = n
  /\ total_nmain' = TotalNow - Cardinality(MainNow \cap out)
  /\ top' = b /\ best' = d[b]

KeepTop(b, victims) ==
  /\ main' = MainNow /\ nmain' = NmainNow /\ total_nmain' = TotalNow
  /\ chain' = chain \ victims
  /\ top' = Pointed(top, b, victims) /\ UNCHANGED best

\* Mutant: set_pretop is not called for the top.
Pretop_NewOnly(b, t, p, d, f) ==
  IF f[b] < MAIN_TIME(clock) /\ (p = NoBlock \/ d[b] > d[p]) THEN b ELSE p

\* The macro set_pretop, where p is the pretop, for the new block b and then for
\* the top t.
Pretop(b, t, p, d, f) ==
  LET set(x, q) == IF /\ x # NoBlock /\ f[x] < MAIN_TIME(clock)
                      /\ q = NoBlock \/ d[x] > d[q]
                   THEN x ELSE q
  IN  set(t, set(b, p))

ChainAdd(b, c, synced) ==
  LET victims == Victims(synced)
      w == <<b>> \o Walk(MaxDiffLink(c))
      d == [x \in Block |-> IF x = b THEN NewDiff(c) ELSE difficulty[x]]
      f == [x \in index \cup {b} |-> IF x = b THEN MAIN_TIME(c.time) ELSE Frame(x)]
  IN
  /\ c.time <= clock + Period \div 4
  /\ difficulty' = d
  /\ walk' = [walk EXCEPT ![b] = w]
  /\ height' = HeightNow
  /\ pretop' = Pretop(b, Pointed(top, b, victims), Pointed(pretop, b, victims), d, f)
  /\ IF d[b] > best THEN TakeTop(b, w, d, f, victims) ELSE KeepTop(b, victims)
  /\ early' = (early \/ MAIN_TIME(c.time) > MAIN_TIME(clock))
  /\ UNCHANGED clock

\* Mutant: the top survives a reset.
ChainForget_KeepTop ==
  /\ difficulty' = [b \in Block |-> 0]
  /\ walk' = [b \in Block |-> <<>>]
  /\ height' = [b \in Block |-> 0]
  /\ chain' = {} /\ main' = {} /\ nmain' = 0 /\ total_nmain' = 0
  /\ pretop' = NoBlock /\ best' = 0 /\ early' = FALSE
  /\ UNCHANGED <<clock, top>>

ChainForget ==
  /\ difficulty' = [b \in Block |-> 0]
  /\ walk' = [b \in Block |-> <<>>]
  /\ height' = [b \in Block |-> 0]
  /\ chain' = {} /\ main' = {} /\ nmain' = 0 /\ total_nmain' = 0
  /\ top' = NoBlock /\ pretop' = NoBlock /\ best' = 0 /\ early' = FALSE
  /\ UNCHANGED clock

-----------------------------------------------------------------------------
ChainReceive(b, c, synced) == Receive(b, c, synced) /\ ChainAdd(b, c, synced)

ChainLoad(i) ==
  /\ LoadBlock(i)
  /\ IF log[i] \in index' \ index
     THEN ChainAdd(log[i], content[log[i]], FALSE)
     ELSE UNCHANGED <<clock, chainVars>>

ChainLoadDone == LoadDone /\ UNCHANGED <<clock, chainVars>>

ChainRestart == Restart(clock) /\ ChainForget
ChainReset(t) == Reset(t, clock) /\ ChainForget

\* The process stops inside a call: of the chain, nothing is stored.
ChainKilled(b, c, stored, synced) ==
  /\ c.time <= clock + Period \div 4
  /\ Killed(b, c, stored, synced, clock)
  /\ ChainForget

Tick ==
  /\ ~crit
  /\ \E t \in Instants : t > clock
  /\ clock' = Min({t \in Instants : t > clock})
  /\ UNCHANGED <<vars, chainVars>>

ChainInit ==
  /\ Init
  /\ clock = Min(Instants)
  /\ difficulty = [b \in Block |-> 0]
  /\ walk = [b \in Block |-> <<>>]
  /\ height = [b \in Block |-> 0]
  /\ chain = {} /\ main = {} /\ nmain = 0 /\ total_nmain = 0
  /\ top = NoBlock /\ pretop = NoBlock /\ best = 0 /\ early = FALSE

\* Whether the node is synchronised makes a difference when there are too many extra
\* blocks.
Synced == {FALSE, nextra > MaxExtra}

ChainNext ==
  \/ \E b \in Block \ index, c \in Content, synced \in Synced : ChainReceive(b, c, synced)
  \/ \E i \in todo : ChainLoad(i)
  \/ ChainLoadDone
  \/ ChainRestart
  \/ \E b \in Block \ index, c \in Content, stored \in BOOLEAN, synced \in Synced :
       ChainKilled(b, c, stored, synced)
  \/ \E t \in Instants : ChainReset(t)
  \/ CheckNewMain
  \/ Tick

ChainSpec == ChainInit /\ [][ChainNext]_allVars

-----------------------------------------------------------------------------
(***************************************************************************)
(* Properties.                                                             *)
(***************************************************************************)

\* The main chain of the white paper, computed from scratch: on the walk from
\* the top, the first block of each frame that is heavier than the one below.
BestChain == Marked(Walk(top), difficulty, [x \in index |-> Frame(x)], {})

\* The flags BI_MAIN_CHAIN, which add_block_nolock updates from one top to the
\* next by unwinding to a common ancestor, always mark exactly that chain.
ChainMarked == ~crit => chain = BestChain

\* "Every two main blocks belongs to different time frames."
DistinctFrames == \A a, b \in chain : Frame(a) = Frame(b) => a = b

\* The main blocks are the nmain oldest blocks of the main chain, and the height
\* of each is its place in it, counted from the oldest, whatever was unwound and
\* set again: rewards are computed from nmain and read back from the height.
MainHeights ==
  /\ main \subseteq chain
  /\ nmain = Cardinality(main)
  /\ total_nmain >= nmain
  /\ \A b \in chain :
       LET rank == Cardinality({x \in chain : Frame(x) <= Frame(b)})
       IN  IF b \in main THEN height[b] = rank ELSE rank > nmain

WorkOf(S) == FoldSet(LAMBDA b, sum : content[b].work + sum, 0, S)

\* The difficulty of the top, which decides between forks and is compared with
\* that of other nodes, is the work of exactly the blocks marked BI_MAIN_CHAIN,
\* however many blocks of one frame the walk passes through.
ChainWeight == top # NoBlock => Diff(top) = WorkOf(chain) /\ best = Diff(top)

\* A "distinct chain": blocks of different frames, of any two of which one
\* references the other.
DistinctChain(S) ==
  \A a, b \in S : a # b => Frame(a) # Frame(b) /\ (a \in Reach(b) \/ b \in Reach(a))

\* "Main_chain is the distinct chain with maximum difficulty."
HeaviestDistinctChain ==
  \A S \in SUBSET index : DistinctChain(S) => WorkOf(S) <= Diff(top)

\* pretop_block() for a block to be mined in the current frame.
MiningTop ==
  IF top # NoBlock /\ Frame(top) = MAIN_TIME(clock) THEN pretop ELSE top

\* A node mines on the heaviest block of the frames before the current one, if
\* no block was accepted before its frame began.
MinesOnBest ==
  ~early => \A b \in index : Frame(b) < MAIN_TIME(clock) =>
              /\ MiningTop # NoBlock
              /\ Diff(b) <= Diff(MiningTop)
              /\ Frame(MiningTop) < MAIN_TIME(clock)

\* A main block is unwound only when a heavier chain without it takes over.
UnwindsOnlyForks ==
  [][index \subseteq index' =>
       \A b \in main \ main' : b \notin chain' /\ difficulty'[top'] > Diff(top)]_allVars
=============================================================================
