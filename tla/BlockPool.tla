------------------------------ MODULE BlockPool ------------------------------
(***************************************************************************)
(* The two orphan lists of client/block.c, the flags BI_REF and BI_EXTRA,  *)
(* the storage position of a block, and the reload of the storage at start *)
(* and after a reset (work_thread, xdag_load_blocks).                      *)
(*                                                                         *)
(* A block nobody links to yet is an orphan: it has an orphan record       *)
(* (bi->oref) in list 0, or in list 1 when it is an extra block.  An extra *)
(* block (mined, without transfers, dated at the end of a frame, received  *)
(* and not read from disk) stays off the disk until something links to it, *)
(* and the oldest extra block is dropped when there are too many.          *)
(*                                                                         *)
(* The storage is a log: the blocks in the order in which they were        *)
(* appended to the files, one file for each frame.  A call saves several   *)
(* blocks one after another, and the process may stop between two of them. *)
(***************************************************************************)
EXTENDS Blocks

CONSTANTS
  MaxExtra,   \* MAX_ALLOWED_EXTRA
  ChunkSize,  \* bufsize, the number of blocks that a load reads and sorts at once
  MaxStarts   \* bound on crashes and resets in a behaviour

ASSUME MaxExtraAssumption == MaxExtra \in Nat
ASSUME ChunkSizeAssumption == ChunkSize \in Nat \ {0}
ASSUME MaxStartsAssumption == MaxStarts \in Nat

VARIABLES
  ref,        \* blocks with BI_REF
  extra,      \* blocks with BI_EXTRA
  oref,       \* blocks with an orphan record (bi->oref is not null)
  before,     \* the order of list 1: pairs of an extra block and a younger one
  nnoref,     \* g_xdag_extstats.nnoref
  nextra,     \* g_xdag_extstats.nextra
  log,        \* the local storage: blocks in the order they were saved
  phase,      \* "load" while work_thread reads the storage, then "run"
  todo,       \* places of the log the load has still to read
  loadFrom,   \* the load reads the blocks dated from this instant on
  due,        \* history: blocks that the load should bring back to memory
  cut,        \* history: blocks whose saving a stop of the process cut off
  starts,     \* crashes and resets so far
  crit        \* remove_orphan has met a block without a record

poolVars == <<ref, extra, oref, before, nnoref, nextra, crit>>
loadVars == <<phase, todo, loadFrom, due, cut, starts>>
vars == <<content, index, ref, extra, oref, before, nnoref, nextra, log, phase,
          todo, loadFrom, due, cut, starts, crit>>

disk == {log[i] : i \in DOMAIN log}

TypeOK ==
  /\ BlocksType
  /\ ref \subseteq index
  /\ extra \subseteq index
  /\ oref \subseteq index
  /\ before \subseteq extra \X extra
  /\ nnoref \in Nat
  /\ nextra \in Nat
  /\ log \in Seq(Block)
  /\ disk \subseteq DOMAIN content
  /\ phase \in {"load", "run"}
  /\ todo \subseteq DOMAIN log
  /\ loadFrom \in Nat
  /\ due \subseteq disk
  /\ cut \subseteq Block
  /\ starts \in 0..MaxStarts
  /\ crit \in BOOLEAN

-----------------------------------------------------------------------------
\* A block that is not read from the storage, is dated at the very end of its
\* frame and carries a nonce and no amounts is an extra block.
IsExtra(c, stored) == ~stored /\ FrameEnd(c.time) /\ c.plain

(***************************************************************************)
(* remove_orphan.  remove_orphan(x, NORMAL) takes x off its list unless it *)
(* has BI_REF; when x is extra it also saves x and goes on, NORMAL, with   *)
(* the links of x.  Removal(S) is the set of blocks that calls on the      *)
(* members of S take off the lists: the least set that holds S and is      *)
(* closed under going on from an extra member.                             *)
(***************************************************************************)
GoesOn(R) == \A x \in R \cap extra : Links(x) \ ref \subseteq R

\* Mutant: the links of an extra block stay where they are.
Removal_NoRecursion(S) == S \cap index

Removal(S) ==
  {x \in index : \A R \in SUBSET index : S \subseteq R /\ GoesOn(R) => x \in R}

\* Mutants: BI_REF is not looked at; a new extra block leaves all its links.
Acted_Referenced(c, isExtra) ==
  {x \in Targets(c) : isExtra => x \in extra}
Acted_NotForExtra(c, isExtra) ==
  {x \in Targets(c) \ ref : ~isExtra}

\* The links of a new block on which remove_orphan acts: called with
\* ORPHAN_REMOVE_EXTRA, for a new extra block, it acts on extra blocks only.
Acted(c, isExtra) ==
  {x \in Targets(c) \ ref : isExtra => x \in extra}

\* Reuse of the oldest extra block, allowed when the node is synchronised.
MustReuse(synced) == synced /\ nextra > MaxExtra
Victims(synced) ==
  {x \in extra : MustReuse(synced) /\ \A y \in extra : <<y, x>> \notin before}

\* Mutants: an extra block that is linked to is not saved; it is not saved when it
\* is a stored block that links to it.
Saved_NewOnly(b, stored, isExtra, linked) == IF stored \/ isExtra THEN {} ELSE {b}
Saved_NotForStored(b, stored, isExtra, linked) ==
  IF stored THEN {} ELSE linked \cup (IF isExtra THEN {} ELSE {b})

\* What a call writes to the storage: the extra blocks now linked to, and the new
\* block unless it is extra or was read from there.
Saved(b, stored, isExtra, linked) ==
  linked \cup (IF stored \/ isExtra THEN {} ELSE {b})

\* The order in which it is written: the new block b, then the extra blocks in the
\* order of the links of b.
Precedes(b, c, x, y) ==
  \/ x = b
  \/ \E i \in DOMAIN c.links : c.links[i] = x /\ \A j \in 1..i : c.links[j] # y

Writes(b, c, S) ==
  {w \in [1..Cardinality(S) -> S] :
     /\ \A x \in S : \E i \in DOMAIN w : w[i] = x
     /\ \A i, j \in DOMAIN w : i < j => Precedes(b, c, w[i], w[j])}

(***************************************************************************)
(* What the part of add_block_nolock that accepts b does: the blocks given *)
(* up, those taken off the lists, and those saved.                         *)
(***************************************************************************)
Gone(c, stored, synced) == Removal(Acted(c, IsExtra(c, stored)) \ Victims(synced))
ToSave(b, c, stored, synced) ==
  Saved(b, stored, IsExtra(c, stored), Gone(c, stored, synced) \cap extra)

(***************************************************************************)
(* The oldest extra block may be given up, b is saved unless it is extra   *)
(* or came from the storage, b enters the index, its links leave the       *)
(* orphan lists, b joins one.  An extra block that leaves its list is      *)
(* saved and is no longer extra.  A link to the block given up leads to    *)
(* the memory that now holds b itself (crit): if it is the best link of a  *)
(* new top, the loop that looks for the main chain never ends, otherwise   *)
(* remove_orphan finds no record there.                                    *)
(***************************************************************************)
AddBlock(b, c, stored, synced) ==
  LET victims == Victims(synced)
      isExtra == IsExtra(c, stored)
      gone == Gone(c, stored, synced)
      kept == (extra \ victims) \ gone
      new == IF isExtra THEN {b} ELSE {}
  IN
  /\ Acceptable(b, c)
  /\ Learn(b, c)
  /\ index' = (index \ victims) \cup {b}
  /\ crit' = (Targets(c) \cap victims # {})
  /\ ref' = ref \cup gone
  /\ extra' = kept \cup new
  /\ oref' = ((oref \ victims) \ gone) \cup {b}
  /\ before' = (before \cap (kept \X kept)) \cup (kept \X new)
  /\ nextra' = nextra - Cardinality(victims) - Cardinality(gone \cap extra) + (IF isExtra THEN 1 ELSE 0)
  /\ nnoref' = nnoref - Cardinality(gone \ extra) + (IF isExtra THEN 0 ELSE 1)
  /\ \E w \in Writes(b, c, ToSave(b, c, stored, synced)) : log' = log \o w

-----------------------------------------------------------------------------
\* A block arrives from the network or is made by this node.  Extra blocks are
\* given up only in the states SYNC and STST, which the load never is in.
Receive(b, c, synced) ==
  /\ ~crit
  /\ synced => phase = "run"
  /\ AddBlock(b, c, FALSE, synced)
  /\ UNCHANGED loadVars

(***************************************************************************)
(* The order of a load: file after file in the order of frames, each in    *)
(* chunks of ChunkSize blocks, each chunk sorted by time.                  *)
(***************************************************************************)
FileOf(i) == MAIN_TIME(time(log[i]))
Chunk(i) == Cardinality({j \in 1..(i - 1) : FileOf(j) = FileOf(i)}) \div ChunkSize

\* Mutant: sort_callback puts the youngest first.
ReadBefore_Youngest(i, j) ==
  \/ FileOf(i) < FileOf(j)
  \/ FileOf(i) = FileOf(j) /\ Chunk(i) < Chunk(j)
  \/ FileOf(i) = FileOf(j) /\ Chunk(i) = Chunk(j) /\ time(log[i]) > time(log[j])

ReadBefore(i, j) ==
  \/ FileOf(i) < FileOf(j)
  \/ FileOf(i) = FileOf(j) /\ Chunk(i) < Chunk(j)
  \/ FileOf(i) = FileOf(j) /\ Chunk(i) = Chunk(j) /\ time(log[i]) < time(log[j])

NextStored(i) == i \in todo /\ \A j \in todo : ~ReadBefore(j, i)

LoadBlock(i) ==
  /\ ~crit
  /\ phase = "load"
  /\ NextStored(i)
  /\ todo' = todo \ {i}
  /\ \/ AddBlock(log[i], content[log[i]], TRUE, FALSE)
     \/ /\ ~Acceptable(log[i], content[log[i]])
        /\ UNCHANGED <<blockVars, poolVars, log>>
  /\ UNCHANGED <<phase, loadFrom, due, cut, starts>>

\* The load has read everything; or the sums of the file just read can be neither
\* read nor written, and xdag_load_blocks leaves the later files out.
LoadDone ==
  /\ ~crit
  /\ phase = "load"
  /\ \/ todo = {}
     \/ \E i \in DOMAIN log \ todo :
          MAIN_TIME(loadFrom) <= FileOf(i) /\ \A j \in todo : FileOf(i) < FileOf(j)
  /\ phase' = "run"
  /\ todo' = {} /\ loadFrom' = 0 /\ due' = {}
  /\ UNCHANGED <<blockVars, poolVars, log, cut, starts>>

\* Mutant: the list of extra blocks is kept.
ForgetMemory_KeepExtra ==
  /\ index' = {}
  /\ ref' = {} /\ oref' = {}
  /\ nnoref' = 0 /\ nextra' = 0
  /\ UNCHANGED <<extra, before>>

ForgetMemory ==
  /\ index' = {}
  /\ ref' = {} /\ extra' = {} /\ oref' = {}
  /\ before' = {}
  /\ nnoref' = 0 /\ nextra' = 0

\* The stored blocks all whose ancestors are stored as well.
Whole == UNION {R \in SUBSET disk : \A b \in R : Links(b) \subseteq R}

\* work_thread starts to load what is dated from "from" on and before "now".
BeginLoad(from, now) ==
  /\ ForgetMemory
  /\ phase' = "load"
  /\ loadFrom' = from
  /\ todo' = {i \in DOMAIN log' : from <= time(log[i])' /\ time(log[i])' < now}
  /\ due' = {b \in Whole' : time(b)' < now}
  /\ starts' = starts + 1
  /\ crit' = FALSE

\* The process stops between two calls and is started again: the load begins
\* at XDAG_ERA, before every time stamp.
Restart(now) ==
  /\ ~crit
  /\ starts < MaxStarts
  /\ UNCHANGED <<content, log, cut>>
  /\ BeginLoad(0, now)

(***************************************************************************)
(* The process stops inside add_block_nolock, when k of the blocks that    *)
(* the call saves have been written, and is started again.                 *)
(***************************************************************************)
Killed(b, c, stored, synced, now) ==
  /\ ~crit
  /\ starts < MaxStarts
  /\ IF stored
     THEN phase = "load" /\ ~synced /\ \E i \in todo : NextStored(i) /\ b = log[i]
     ELSE synced => phase = "run"
  /\ Acceptable(b, c)
  /\ Targets(c) \cap Victims(synced) = {}
  /\ Learn(b, c)
  /\ \E w \in Writes(b, c, ToSave(b, c, stored, synced)) :
       \E k \in 0..Len(w) :
         /\ log' = log \o SubSeq(w, 1, k)
         /\ cut' = cut \cup {w[i] : i \in (k + 1)..Len(w)}
  /\ BeginLoad(0, now)

\* XDAG_STATE_REST, set by the command "reset" and by xdag_blocks_reset: the
\* load begins at t, the clock reading of the loop pass that noticed the state.
Reset(t, now) ==
  /\ ~crit
  /\ starts < MaxStarts
  /\ phase = "run"
  /\ t <= now
  /\ UNCHANGED <<content, log, cut>>
  /\ BeginLoad(t, now)

Init ==
  /\ BlocksInit
  /\ ref = {} /\ extra = {} /\ oref = {}
  /\ before = {}
  /\ nnoref = 0 /\ nextra = 0
  /\ log = <<>> /\ phase = "load" /\ todo = {} /\ loadFrom = 0 /\ due = {} /\ cut = {}
  /\ starts = 0
  /\ crit = FALSE

\* The readings of the clock that time stamps tell apart.
Clock == {t + 1 : t \in Time}

Next ==
  \/ \E b \in Block \ index, c \in Content, synced \in BOOLEAN : Receive(b, c, synced)
  \/ \E i \in todo : LoadBlock(i)
  \/ LoadDone
  \/ \E now \in Clock : Restart(now)
  \/ \E b \in Block \ index, c \in Content, stored, synced \in BOOLEAN, now \in Clock :
       Killed(b, c, stored, synced, now)
  \/ \E t, now \in Clock : Reset(t, now)

Spec == Init /\ [][Next]_vars

-----------------------------------------------------------------------------
(***************************************************************************)
(* Properties.  They speak of the states before a critical error, after    *)
(* which a link pointer of the new block leads to the block itself.        *)
(***************************************************************************)

\* The orphan records are exactly those of the blocks without BI_REF, every
\* extra block has one (xdag_get_block_pos copies bi->oref->block of an extra
\* block without looking), and the counters nnoref and nextra, which decide how
\* many blocks the node makes and when it gives one up, count the two lists.
OrphanLists ==
  ~crit =>
  /\ oref = index \ ref
  /\ extra \subseteq oref
  /\ nextra = Cardinality(extra)
  /\ nnoref = Cardinality(oref \ extra)

\* Giving up an extra block never leaves a dangling pointer in a link[] of a
\* block in memory: a block in memory links to blocks in memory, none of which
\* is still extra.
LinksInMemory ==
  ~crit => \A b \in index : Links(b) \subseteq index \ extra

\* The blocks that the walk of apply_block from p can reach.
Reach(p) ==
  {x \in index : \A R \in SUBSET index :
                   p \in R /\ (\A y \in R : Links(y) \subseteq R) => x \in R}

\* ref and oref are one union.  apply_block writes link->ref for every block it
\* reaches from a block that check_new_main found referenced, and must never
\* overwrite an orphan record that is still on a list.
UnionSafe ==
  ~crit => \A p \in ref : Reach(p) \cap oref = {}

\* Wherever the process was stopped, a stored block can be read after its links: a
\* link is before it in the log, or in an earlier file, and is missing only when the
\* process was stopped before it was written (only extra blocks are written after a
\* block that links to them, and those are dated at the end of an earlier frame).
StoredInOrder ==
  ~crit => \A i \in DOMAIN log : \A x \in Links(log[i]) :
    \/ \E j \in 1..(i - 1) : log[j] = x
    \/ MAIN_TIME(time(x)) < FileOf(i) /\ x \in disk \cup cut

\* Every block in memory that is not extra is on disk.
NothingUnsaved == index \ extra \subseteq disk

\* When the load of a fresh process has read all files, every stored block dated
\* before the load began is in memory again, unless an ancestor was not stored, and
\* whatever arrived from the network meanwhile.
ReloadComplete ==
  [][phase = "load" /\ phase' = "run" /\ loadFrom = 0 /\ todo = {} => due \subseteq index]_vars

\* The same after a reset ("loading block from the local storage").
ReloadAfterReset ==
  [][phase = "load" /\ phase' = "run" /\ todo = {} => due \subseteq index]_vars

\* No new block keeps a link to the extra block that was given up for it.
NoCritical == ~crit
=============================================================================
