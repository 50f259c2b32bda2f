-------------------------------- MODULE Sync --------------------------------
(***************************************************************************)
(* The synchronisation of blocks of client/sync.c: a block that comes in   *)
(* before one of its links waits for it, the missing block is asked for,   *)
(* and a block that gets in releases the blocks that wait for it.          *)
(*                                                                         *)
(* Two mutexes are involved.  g_sync_hash_mutex is held during the whole   *)
(* handling of a block from the network, block_mutex only during each      *)
(* attempt to add one.  So the other threads that add blocks run between   *)
(* any two steps of a handling: the one that reads the storage             *)
(* (add_block_callback_sync), which then waits for g_sync_hash_mutex to    *)
(* announce its block, and those that add the node's and its miners' own   *)
(* blocks, which announce nothing.  One of these may add the very block    *)
(* that an attempt has just missed, before the wait list is told.  The     *)
(* recursion of xdag_sync_add_block_nolock and xdag_sync_pop_block_nolock  *)
(* is kept as a stack of the calls still to be made.                       *)
(***************************************************************************)
EXTENDS Naturals, Sequences, FiniteSets

CONSTANTS
  Block,       \* hashes, numbered so that a block links to smaller numbers only
  LinkMaps,    \* the links of every block, in the order of its fields
  Storages,    \* what the local storage may hold at the start, closed under links
  NoBlock,
  MaxGossip,   \* bound on blocks sent without being asked for
  MaxOwn,      \* bound on blocks of the node and its miners
  MaxLoss,     \* bound on messages lost
  MaxResets    \* bound on resets

ASSUME BlockAssumption == Block \subseteq Nat /\ NoBlock \notin Block
ASSUME LinksAssumption ==
  \A m \in LinkMaps : \A b \in Block : \A i \in DOMAIN m[b] : m[b][i] \in Block /\ m[b][i] < b
ASSUME StoragesAssumption ==
  \A stored \in Storages : stored \subseteq Block /\
    \A m \in LinkMaps : \A b \in stored : \A i \in DOMAIN m[b] : m[b][i] \in stored
ASSUME BoundsAssumption == MaxGossip \in Nat /\ MaxOwn \in Nat /\ MaxLoss \in Nat /\ MaxResets \in Nat

VARIABLES
  links,     \* what each block links to, never changed
  index,     \* blocks added (block_by_hash)
  wait,      \* g_sync_hash: a block, the link it waits for, asked for recently
  stack,     \* calls to be made by the holder of g_sync_hash_mutex
  loader,    \* a block the loading thread has added and not yet announced
  todo,      \* stored blocks that the loading thread has still to read
  phase,     \* of work_thread: loading, running or about to reset
  net,       \* blocks under way to this node
  requests,  \* requests for blocks under way to other nodes
  lost,      \* history: blocks or requests for blocks that got lost
  relayed,   \* history: how often a block was sent on
  gossip,    \* blocks sent without being asked for so far
  own,       \* blocks of the node and its miners so far
  losses,    \* messages lost so far
  resets     \* resets so far

vars == <<links, index, wait, stack, loader, todo, phase, net, requests, lost,
          relayed, gossip, own, losses, resets>>

Call == [op : {"add", "refused", "push", "ask", "pop", "relay"}, block : Block, need : Block \cup {NoBlock}]
Entry == [block : Block, need : Block, recent : BOOLEAN]

LinkSet(b) == {links[b][i] : i \in DOMAIN links[b]}

TypeOK ==
  /\ links \in LinkMaps
  /\ index \subseteq Block
  /\ wait \subseteq Entry /\ \A q \in wait : q.need \in LinkSet(q.block)
  /\ stack \in Seq(Call)
  /\ loader \in Block \cup {NoBlock}
  /\ todo \subseteq Block
  /\ phase \in {"load", "on", "rest"}
  /\ net \subseteq Block /\ requests \subseteq Block /\ lost \subseteq Block
  /\ relayed \in [Block -> Nat]
  /\ gossip \in 0..MaxGossip /\ own \in 0..MaxOwn /\ losses \in 0..MaxLoss /\ resets \in 0..MaxResets

g_xdag_sync_on == phase = "on"

Missing(b) == LinkSet(b) \ index

\* Mutant: the number of the field is lost.
FirstMissing_Field0(b) == b

\* The first link of b that is missing: error 5 with the number of its field.
FirstMissing(b) ==
  links[b][CHOOSE i \in DOMAIN links[b] :
             links[b][i] \in Missing(b) /\ \A j \in 1..(i - 1) : links[b][j] \notin Missing(b)]

Todo(op, b, x) == [op |-> op, block |-> b, need |-> x]
Returned == Tail(stack)

-----------------------------------------------------------------------------
\* block_arrive_callback takes the mutex for a block from the network.
Arrive(b) ==
  /\ stack = <<>>
  /\ b \in net
  /\ net' = net \ {b}
  /\ stack' = <<Todo("add", b, NoBlock)>>
  /\ UNCHANGED <<links, index, wait, loader, todo, phase, requests, lost, relayed, gossip, own, losses, resets>>

\* Mutant: a block that was known is sent on as well.
Calls_Known(b, hops) ==
  <<Todo("pop", b, NoBlock)>> \o (IF hops THEN <<Todo("relay", b, NoBlock)>> ELSE <<>>)

\* xdag_add_block, under block_mutex: b is known, or all its links are and b gets in,
\* and then the blocks waiting for b are looked for, and after that a new b is sent
\* on if it has hops left; or b is refused for its first missing link.
Calls(b, hops) ==
  <<Todo("pop", b, NoBlock)>> \o (IF b \notin index /\ hops THEN <<Todo("relay", b, NoBlock)>> ELSE <<>>)

Add ==
  /\ stack # <<>> /\ Head(stack).op = "add"
  /\ LET b == Head(stack).block IN
     \/ /\ b \in index \/ Missing(b) = {}
        /\ index' = index \cup {b}
        /\ \E hops \in BOOLEAN : stack' = Calls(b, hops) \o Returned
     \/ /\ b \notin index /\ Missing(b) # {}
        /\ stack' = <<Todo("refused", b, FirstMissing(b))>> \o Returned
        /\ UNCHANGED index
  /\ UNCHANGED <<links, wait, loader, todo, phase, net, requests, lost, relayed, gossip, own, losses, resets>>

\* A block that was refused has to wait, or is dropped if the node does not
\* synchronise.
Refused ==
  /\ stack # <<>> /\ Head(stack).op = "refused"
  /\ LET b == Head(stack).block IN
     \/ /\ g_xdag_sync_on
        /\ stack' = <<Todo("push", b, Head(stack).need)>> \o Returned
        /\ UNCHANGED lost
     \/ /\ ~g_xdag_sync_on
        /\ stack' = Returned
        /\ lost' = lost \cup {b}
  /\ UNCHANGED <<links, index, wait, loader, todo, phase, net, requests, relayed, gossip, own, losses, resets>>

\* xdag_send_packet to all connections.
Relay ==
  /\ stack # <<>> /\ Head(stack).op = "relay"
  /\ relayed' = [relayed EXCEPT ![Head(stack).block] = @ + 1]
  /\ stack' = Returned
  /\ UNCHANGED <<links, index, wait, loader, todo, phase, net, requests, lost, gossip, own, losses, resets>>

\* Mutant: nothing is asked for when the entry is new.
Due_OnlyOld(b, x) ==
  \E q \in wait : q.block = b /\ q.need = x /\ ~q.recent

\* push_block_nolock: whether the missing block has to be asked for, because the
\* entry is new or old.
Due(b, x) ==
  \A q \in wait : q.block = b /\ q.need = x => ~q.recent

Push ==
  /\ stack # <<>> /\ Head(stack).op = "push"
  /\ LET b == Head(stack).block
         x == Head(stack).need
     IN  /\ wait' = {q \in wait : q.block # b \/ q.need # x} \cup {[block |-> b, need |-> x, recent |-> TRUE]}
         /\ stack' = (IF Due(b, x) THEN <<Todo("ask", x, NoBlock)>> ELSE <<>>) \o Returned
  /\ UNCHANGED <<links, index, loader, todo, phase, net, requests, lost, relayed, gossip, own, losses, resets>>

\* The loop after push_block_nolock: if the block asked for waits itself, what it
\* waits for is asked for instead, unless that was done recently.
Ask ==
  /\ stack # <<>> /\ Head(stack).op = "ask"
  /\ LET x == Head(stack).block IN
     \/ /\ \A q \in wait : q.block # x
        /\ requests' = requests \cup {x}
        /\ stack' = Returned
        /\ UNCHANGED wait
     \/ \E q \in wait :
          /\ q.block = x
          /\ wait' = (wait \ {q}) \cup {[q EXCEPT !.recent = TRUE]}
          /\ stack' = (IF q.recent THEN <<>> ELSE <<Todo("ask", q.need, NoBlock)>>) \o Returned
          /\ UNCHANGED requests
  /\ UNCHANGED <<links, index, loader, todo, phase, net, lost, relayed, gossip, own, losses, resets>>

\* Mutant: the entry is not taken out of the list.
Pop_StaysLinked ==
  /\ stack # <<>> /\ Head(stack).op = "pop"
  /\ LET x == Head(stack).block IN
     \/ \E q \in wait :
          /\ q.need = x
          /\ UNCHANGED wait
          /\ stack' = <<Todo("add", q.block, NoBlock)>> \o stack
     \/ /\ \A q \in wait : q.need # x
        /\ stack' = Returned
        /\ UNCHANGED wait
  /\ UNCHANGED <<links, index, loader, todo, phase, net, requests, lost, relayed, gossip, own, losses, resets>>

\* xdag_sync_pop_block_nolock: one block that waits leaves the list and is tried
\* again, with all that follows from it, then the list is searched from its
\* beginning; the mutex is given up when the last call has returned.
Pop ==
  /\ stack # <<>> /\ Head(stack).op = "pop"
  /\ LET x == Head(stack).block IN
     \/ \E q \in wait :
          /\ q.need = x
          /\ wait' = wait \ {q}
          /\ stack' = <<Todo("add", q.block, NoBlock)>> \o stack
     \/ /\ \A q \in wait : q.need # x
        /\ stack' = Returned
        /\ UNCHANGED wait
  /\ UNCHANGED <<links, index, loader, todo, phase, net, requests, lost, relayed, gossip, own, losses, resets>>

-----------------------------------------------------------------------------
\* add_block_callback_sync for the oldest block still to be read, under block_mutex.
Load(b) ==
  /\ loader = NoBlock
  /\ b \in todo /\ \A x \in todo : b <= x
  /\ todo' = todo \ {b}
  /\ \/ /\ b \in index \/ Missing(b) = {}
        /\ index' = index \cup {b}
        /\ loader' = b
     \/ /\ b \notin index /\ Missing(b) # {}
        /\ UNCHANGED <<index, loader>>
  /\ UNCHANGED <<links, wait, stack, phase, net, requests, lost, relayed, gossip, own, losses, resets>>

\* Its call of xdag_sync_pop_block, under g_sync_hash_mutex.
LoadPop ==
  /\ loader # NoBlock
  /\ stack = <<>>
  /\ stack' = <<Todo("pop", loader, NoBlock)>>
  /\ loader' = NoBlock
  /\ UNCHANGED <<links, index, wait, todo, phase, net, requests, lost, relayed, gossip, own, losses, resets>>

\* pool_block_thread for a block of a miner, and xdag_create_and_send_block for one of
\* the node: xdag_add_block and xdag_send_new_block, without g_sync_hash_mutex and
\* without a pop.  They begin when synchronisation is first on.
OwnAdd(b) ==
  /\ own < MaxOwn
  /\ phase = "on" \/ resets > 0
  /\ b \notin index /\ Missing(b) = {}
  /\ own' = own + 1
  /\ index' = index \cup {b}
  /\ relayed' = [relayed EXCEPT ![b] = @ + 1]
  /\ UNCHANGED <<links, wait, stack, loader, todo, phase, net, requests, lost, gossip, losses, resets>>

\* work_thread when the load has ended.
SyncOn ==
  /\ phase = "load" /\ todo = {} /\ loader = NoBlock
  /\ phase' = "on"
  /\ UNCHANGED <<links, index, wait, stack, loader, todo, net, requests, lost, relayed, gossip, own, losses, resets>>

\* work_thread when it finds XDAG_STATE_REST: it turns synchronisation off, and
\* after a pause of more than a frame empties the memory and reads the storage
\* again, from the time the load had reached; the wait list stays.
Rest ==
  /\ phase = "on" /\ resets < MaxResets
  /\ phase' = "rest"
  /\ resets' = resets + 1
  /\ UNCHANGED <<links, index, wait, stack, loader, todo, net, requests, lost, relayed, gossip, own, losses>>

Empty ==
  /\ phase = "rest"
  /\ phase' = "load"
  /\ index' = {}
  /\ todo' \in SUBSET index
  /\ UNCHANGED <<links, wait, stack, loader, net, requests, lost, relayed, gossip, own, losses, resets>>

-----------------------------------------------------------------------------
(***************************************************************************)
(* The other nodes and the network: they answer a request for a block, they*)
(* send blocks of their own accord, and a message may be lost.  Time       *)
(* passes: REQ_PERIOD after a request the entry is no longer recent.       *)
(***************************************************************************)
Answer(x) ==
  /\ x \in requests
  /\ requests' = requests \ {x}
  /\ net' = net \cup {x}
  /\ UNCHANGED <<links, index, wait, stack, loader, todo, phase, lost, relayed, gossip, own, losses, resets>>

Gossip(b) ==
  /\ gossip < MaxGossip
  /\ gossip' = gossip + 1
  /\ net' = net \cup {b}
  /\ UNCHANGED <<links, index, wait, stack, loader, todo, phase, requests, lost, relayed, own, losses, resets>>

Lose(x) ==
  /\ losses < MaxLoss
  /\ losses' = losses + 1
  /\ lost' = lost \cup {x}
  /\ \/ x \in net /\ net' = net \ {x} /\ UNCHANGED requests
     \/ x \in requests /\ requests' = requests \ {x} /\ UNCHANGED net
  /\ UNCHANGED <<links, index, wait, stack, loader, todo, phase, relayed, gossip, own, resets>>

Age(q) ==
  /\ q.recent
  /\ wait' = (wait \ {q}) \cup {[q EXCEPT !.recent = FALSE]}
  /\ UNCHANGED <<links, index, stack, loader, todo, phase, net, requests, lost, relayed, gossip, own, losses, resets>>

-----------------------------------------------------------------------------
Init ==
  /\ links \in LinkMaps
  /\ index = {} /\ wait = {} /\ stack = <<>> /\ loader = NoBlock
  /\ todo \in Storages /\ phase = "load"
  /\ net = {} /\ requests = {} /\ lost = {}
  /\ relayed = [b \in Block |-> 0]
  /\ gossip = 0 /\ own = 0 /\ losses = 0 /\ resets = 0

Handle == Add \/ Refused \/ Relay \/ Push \/ Ask \/ Pop

Next ==
  \/ Handle
  \/ \E b \in Block : Arrive(b) \/ Load(b) \/ OwnAdd(b) \/ Answer(b) \/ Gossip(b) \/ Lose(b)
  \/ LoadPop
  \/ SyncOn
  \/ Rest
  \/ Empty
  \/ \E q \in wait : Age(q)

\* A thread that runs goes on; the load ends; requests are answered and blocks
\* that are not lost arrive.
Fairness ==
  /\ WF_vars(Handle) /\ WF_vars(LoadPop) /\ WF_vars(SyncOn)
  /\ \A b \in Block : WF_vars(Load(b)) /\ WF_vars(Arrive(b)) /\ WF_vars(Answer(b))

Spec == Init /\ [][Next]_vars /\ Fairness

-----------------------------------------------------------------------------
(***************************************************************************)
(* Properties.                                                             *)
(***************************************************************************)
Waits(b) == \E q \in wait : q.block = b

\* No lost wake-up: while nobody holds the mutex, what a block waits for is on
\* its way or asked for, or waits itself, or has just been read from the storage
\* and will be announced, unless the network or a node that does not synchronise
\* dropped it.  So it is also when another thread added it between the attempt
\* that missed it and the entry in the wait list: the answer will find it known.
NoLostWakeup ==
  stack = <<>> => \A q \in wait :
    q.need \in requests \cup net \cup lost \cup {loader} \/ Waits(q.need)

\* A block is sent on to other nodes only once, however often and however many
\* ways it comes in, so that the flooding of a block ends.
RelayOnce == \A b \in Block : relayed[b] <= 1 + resets

\* A block that waits gets in, if the other nodes answer, nothing is lost and the
\* node is not reset, however many of its links are missing and in whatever order
\* they arrive.  (After a reset a handling that outlives the whole load would find
\* the block it has announced gone, and try the same waiting block for ever.)
WaitersServed ==
  \A b \in Block : Waits(b) ~> (b \in index \/ lost # {} \/ resets > 0)
=============================================================================
