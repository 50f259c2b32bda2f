# TLA+ models of the XDAG node

XDAG is a node for a block DAG: every block is at once a transaction and an
address and links to up to fifteen earlier blocks. The heaviest chain through
the DAG, at most one block per time frame of 64 seconds, is the *main chain*; its
confirmed blocks mint coins and fix the order in which transactions are applied.
These modules model the block engine (`client/block.c`), the order of saving and
loading (`client/storage.c`), the synchronisation (`client/sync.c`) and the
request protocol (`client/transport.c`). TLC checks them on small instances, and
TLAPS proves the invariants of the block pool and of the request protocol for
every value of the constants.

## The system and what is modelled

| Part | Source | Module |
|---|---|---|
| Acceptance of blocks: known, links present and older | `block.c` `add_block_nolock` | `Blocks`, `BlockPool` |
| Orphan lists, extra blocks, saving, restart and reset | `block.c` `add_orphan`, `remove_orphan`, `work_thread`; `storage.c` `xdag_load_blocks` | `BlockPool`, `BlockPoolProofs` |
| Difficulty, main chain, confirmation, mining top | `block.c` `add_block_nolock`, `unwind_main`, `check_new_main`, `set_pretop` | `MainChain` |
| Applying and unwinding transactions, balances | `block.c` `apply_block`, `unapply_block`, `set_main`, `unset_main` | `Ledger` |
| Rewards and supply | `block.c` `get_amount`, `xdag_get_supply` | `Rewards`, `Supply` |
| Wait list and requests for missing blocks | `sync.c`, `block.c` `add_block_callback_sync` | `Sync` |
| Requests and answers between nodes | `transport.c` `do_request`, `process_transport_block` | `Transport`, `TransportProofs` |
| Own blocks, mining task, RandomX seeds, pool, miner, transfers, wallet, node database, dnet, memory file, signature cache | `block.c`, `rx_hash.c`, `pool.c`, `miner.c`, `commands.c`, `wallet.c`, `netdb.c`, `dnet/`, `memory.c` | planned, see below |
| Hashes, cryptography, configuration, terminal, JSON-RPC, websocket, HTTP | | not modelled: pure functions, or input and output |

How the parts interact: threads of `dnet` deliver packets to
`block_arrive_callback`, which gives blocks to the synchronisation and other
packets to `process_transport_block`. The synchronisation tries to add a block;
`add_block_nolock`, under `block_mutex`, checks it, saves it, updates the orphan
lists and the main chain. `work_thread` loads the storage at the start, then once
a second confirms main blocks, and on a reset forgets everything and loads again.
Setting or unwinding a main block applies or unapplies the transactions below it.

`MainChain` extends `BlockPool`, and `Ledger` extends `MainChain` and `Rewards`:
one step of `Ledger` is a whole call of `add_block_nolock`, `check_new_main` or a
pass of the load, with everything it does to lists, chain and balances. `Sync` and
`Transport` stand alone; `Sync` takes of the block engine only that a block gets
in when all its links are in.

## The modules

**Blocks.** `content` is what a hash stands for (time, work, ordered links, and
whether the block could be an extra one), `index` the blocks in memory. Only links
to older blocks are accepted. Signatures, keys, field types and the era depend on
nothing but the block itself; blocks here have passed them. That a block is not dated
too far ahead of the clock is a guard of `MainChain`, which has the clock;
`g_time_limit`, a debugging option, is taken as unset.

**BlockPool.** An extra block (mined, no amounts, dated at the end of a frame) is
not saved until something links to it. State: the flags `ref` and `extra`, the
orphan records `oref`, the order of the extra list, the counters, the storage `log`
(blocks in the order they were written; a file holds those of one frame), and the
load in progress. Actions: `Receive`, `LoadBlock`, `LoadDone`, `Restart` (the process
stops between two calls: memory goes), `Killed` (it stops inside `add_block_nolock`,
when any number of the blocks that the call saves have been written), `Reset` (memory
goes, the local variable `t` stays). A call writes the new block first and then the
extra blocks it links to, in the order of the links (`Writes`); `cut` keeps what a
stop left unwritten. A load reads file after file in chunks of `ChunkSize` blocks and
sorts each chunk (`ReadBefore`); it ends early when the sums of a file can be neither
read nor written. `crit` records that a new block links to the block given up for it;
the properties speak of states before that. The recursion of `remove_orphan` is the
least set closed under going on from an extra block to its links. A write that fails
(`xdag_storage_save` returns -1, which its callers do not look at), or that a stop cuts
in the middle of a block, is not modelled.

**MainChain.** Adds `difficulty`, the walk from each block down its best links
(`walk`, fixed when the block is added), the marks `chain` and `main`, heights, the
top and pretop and the clock. `MarkedAt`, `UnwindTo` and `TakeTop` are the three
parts of the marking at the end of `add_block_nolock`, the one with
`SYNC_FIX_HEIGHT` included. `CheckNewMain` confirms one block per pass. When the extra
block given up is the top or the pretop, the pointer leads to the new block
(`Pointed`), while `best`, the difficulty in the statistics, stays.

**Ledger.** Adds what each block transfers and one record with amounts,
`BI_MAIN_REF`, `BI_APPLIED`, the `ref` pointers and the balance of the wallet.
`apply_block` and `unapply_block` are recursive as in the code; amounts are words
modulo `Modulus`, so a subtraction below zero wraps.

**Rewards, Supply.** `get_start_amount`, `get_amount` and the loop of
`xdag_get_supply`, with `set_main` and `unset_main` moving the height.

**Sync.** `wait` is the wait list, `stack` the calls still to be made by the thread
that holds `g_sync_hash_mutex` (`xdag_sync_add_block_nolock` and
`xdag_sync_pop_block_nolock` call each other). One step is one call under
`block_mutex`; the attempt that fails, the look at `g_xdag_sync_on` and the entry in
the list are three. In between, threads that take only `block_mutex` add blocks
without a pop (`OwnAdd`: `pool_block_thread`, `xdag_create_and_send_block`). The loading
thread never does: nothing is entered in the list while the storage is read. The
network loses, repeats and delays; an entry stops being recent at any time
(REQ_PERIOD).

**Transport.** `do_request` publishes a number, takes the mutex, sends, remembers
the connection and waits; a thread claims the number of an answer by an atomic
exchange, then takes the mutex and hands the answer over. Numbers drawn are all
different (64 random bits). Answers, once sent, may arrive any number of times, at
any time or never. The other nodes run this code too: an answer has the kind and the
number of its question, and a packet of sums that carries the number of a request for
blocks is outside the model. Connections come from `dnet`, which is external here.

## Runs

| Run | Instance | What it shows |
|---|---|---|
| `pool` | 3 blocks, up to 2 links, times 0, 1, 3 in frames of 2, chunks of 2 blocks, a second extra block makes the first go, one stop or reset | lists, counters, links, the ref/oref union and the storage stay consistent; a fresh start recovers every stored block whose ancestors are stored |
| `reload_after_reset` | 2 blocks, one reset | **violated**: after a reset the load begins at the clock and not at the beginning |
| `reuse` | 4 blocks, a third extra block makes the oldest go | **violated**: the extra block given up may be linked to by the new one |
| `forks` | 4 blocks, 3 frames, two works, every list of 2 different links, a clock with two readings, one stop or reset | the marks, heights and the difficulty agree with a computation from scratch; a main block is unwound only by a heavier chain without it |
| `heaviest` | 4 blocks, 3 in one frame | **violated**: the main chain is not always the heaviest distinct chain |
| `clock` | 3 blocks, 3 frames and a clock that goes through them, a fee, one stop or reset, `SYNC_FIX_HEIGHT` 1 | mining starts from the heaviest block of earlier frames; no frame has two blocks of the chain, also when main blocks are unwound across that height; a reorganisation or a restart leaves no trace in the balances |
| `ledger` | 4 blocks, two of them paying, any lists of links | balances add up to the rewards, BI_MAIN_REF is exact, and a reorganisation leaves no trace |
| `double_input` | 3 blocks, one of them paying, any lists of links | **violated**: an account named in two inputs of one block goes below zero |
| `rejected_fee` | 4 blocks, fees | **violated**: unwinding takes back a fee that was never given |
| `supply` | drop at 20, halving every 32 | **violated**: `xdag_get_supply` is not what was minted |
| `sync` | 3 blocks, 2 sent unasked, 1 added by another thread, 1 loss, 1 reset | no waiting block is forgotten; each gets in when requests are answered; none is sent on twice |
| `transport` | 2 threads, 1 connection, 4 numbers | an answer reaches only the request it belongs to, while it waits |

The bounds are the smallest at which the hazards happen: three blocks are needed for
`remove_orphan` to go on from an extra block below a normal one to an orphan below
that (an extra block never stays above another one, as `LinksInMemory` says), for a
normal block that is saved before two extra blocks, and for two that wait for one link
and for each other; two frames and three blocks for a fork that overtakes a confirmed
chain, two paying blocks for two transactions that contend for one account, two
threads and three numbers for an answer that is claimed in one request and handed over
in the next. Every property fails under a plausible change of the code (the
definitions marked *Mutant*), in the same instance.

Block names are interchangeable, and the action constraint `InOrderOfArrival` uses it:
blocks are numbered in the order they first arrive. The instances of `MainChain` and
`Ledger` with a stop have it before the last block arrives (`forks` before the second),
let blocks that were lost come back before new ones come, and let nothing arrive during the load (`pool` has
those arrivals). The ledger instances fix one root or let only few blocks pay; in
`ledger` only the last block is heavy, and it moves nothing, since no block is left
that could apply it. In `forks` and `clock` the links of a block are all different: a
link that is repeated offers what it offered before. `ledger` has repeated links, as
two outputs or an input and an output; two inputs of one account are the subject of
`double_input`, and `Conserved` fails there.

What the instances do not reach: no extra block is given up in those of `MainChain`
and `Ledger` (`MaxExtra` is at least the number of blocks), so the top is never one
that is given up, which `ChainAdd` has; two transactions that contend and are applied
in the other order after a reorganisation need more than the four blocks of `ledger`;
and `MinesOnBest` says nothing once a block dated ahead of the clock has come in
(`early`), after which the pretop is brought up to date only with the next block.

### What the violated runs show

* `reload_after_reset`: `work_thread` sets `t` to `XDAG_ERA` once, before the label
  `begin`. A reset jumps back to that label with `t` the time of the last pass.
* `reuse`: `add_block_nolock` has the pointers to the links before it gives up the
  oldest extra block; if that is one of them, the link leads to the new block
  itself. If it is the best link of a block that becomes the top, the loop at
  `block.c:823`, which follows best links, does not end; otherwise `remove_orphan`
  reports "Critical error. obt=0". The blocks of the trace weigh the same, so there
  it is the loop; with a heavier top elsewhere it is the message.
* `heaviest`: for a link in the frame of the new block, the loop that goes down to
  an earlier frame follows the best link of each block on the way. In the instance,
  block 3 links to block 1 of the frame before and to the heavier block 2 of its own
  frame, which is its best link and links to nothing; a fourth, heavy block of that
  frame on top of block 3 never sees block 1, and the distinct chain of blocks 4 and
  1 outweighs the main chain.
* `double_input`: `apply_block` compares each input with the whole amount of its
  account and then subtracts them all. In the trace an account of 4 is named in two
  inputs of 3, and its amount wraps.
* `rejected_fee`: `apply_block` returns 0 for a transaction that cannot be paid,
  `unapply_block` returns minus its fee in any case.
* `supply`: `xdag_get_supply` counts the block that begins a period with the reward of
  the period before, `get_amount` with half of it. With the period of the instance,
  32, the two differ from height 32 on.

One further fact met while modelling has no run of its own. With `SYNC_FIX_HEIGHT`
inside an instance of 4 blocks with two links `ChainMarked` does not hold: blocks below
that height keep the marks of the old rule, as the comment at `block.c:840` intends.

### Fairness

Only `WaitersServed` (in `Sync`) is a liveness property. It assumes weak fairness of
the thread that handles a block, of the loading thread, of the arrival of a block
that is under way, and of the other nodes' answers. Threads are scheduled by the
operating system and hold no lock for ever; that requests are answered and nothing
is lost is stated in the property itself, which is void once a message was lost or
the node was reset. After a loss the code relies on blocks coming in again and on
the comparison of sums every 64 seconds.

## Proofs

`BlockPoolProofs` proves, for every set of blocks and link lists, every frame
length, every limit of extra blocks, every chunk size and any number of stops and
resets, the properties that `pool` checks. Assumptions: those named in `Blocks` and
`BlockPool` (times, works and bounds are natural numbers, link lists are sequences of
blocks). The inductive invariant `IndInv` adds to the types:

* `Core`, as long as `crit` is not set: the invariants about lists and links together
  with facts that none of them states: an extra block is never referenced and is dated
  at the end of its frame, and the links of every block that is not extra are
  referenced. The last makes the ref/oref union safe (`Reach` of a referenced block
  meets no orphan) and needs the closure that `Removal` computes;
* in `Core` too, the order of the storage (`Ordered`, what `StoredInOrder` says). A block may be written before a link of
  its own only when that link was extra; the link is then older and dated at the end
  of a frame, hence of an earlier frame and in an earlier file. So neither a stop
  between two saves nor the sorting of single chunks brings a block before its links;
* that the set of blocks in memory is finite, so that the counters can be compared
  with the sizes of the lists;
* `Pending`: during a load from the beginning every block of `due` (stored, with all
  its ancestors, when the load began) is in memory or still to be read. With the order
  of the storage, the block that is read next finds its links, which gives
  `ReloadComplete`.

Each action has a lemma of its own (`ReceiveStep`, `LoadStep`, `LoadDoneStep`,
`BeginLoadStep`, `KilledStep`); `AddKeepsTypes` and `AddKeepsCore` are shared by the two
ways a block gets in.

`TransportProofs` proves `WritesOwnBuffer` and `OwnAnswer` for any number of
threads, connections and requests, from `NoneAssumption` alone. They are not
inductive as they stand: that an answer which is claimed belongs to the request that
waits has to be known already before it is claimed. The strengthening says that a
number is claimed by one thread only and is then no longer published
(`ClaimsExclusive`), that no packet ever carries the private number, that an answer
whose number is both published and awaited finds its request waiting with the buffer
set (`AnswersWanted`), and that a number just published, or that of a request which
could not be sent, is in no packet (`RequestState`).

Only model-checked: everything about `MainChain`, `Ledger` (its recursive operators
are out of the prover's reach), and `Sync` (liveness, and a stack of calls).

## Plan

1. *Storage*: the sums per time range (`correct_storage_sums`, `xdag_load_sums`)
   and `request_blocks`, composed with `Transport`: two
   nodes whose storages differ end up with the same blocks.
2. *Own blocks and mining*: `xdag_create_block`, `do_mining`, `do_rx_mining` and the
   pair of tasks shared with pool and miner; abstract specification: shares are
   counted for the task they were found for.
3. *RandomX*: seed heights, the two memories, rollback with `unset_main`, composed
   with `MainChain`.
4. *Pool*: connections and miners, `calculate_nopaid_shares`,
   `precalculate_payments`, the block queue; *Miner* as its other end.
5. *Transfers, wallet, node database, dnet, memory file, signature cache*: one small
   module each.
6. Proofs: the frame and height invariants of `MainChain`, safety of `Sync`, the
   invariants of the pool's counters. Refinement: `Ledger` implements a ledger that
   only knows the sequence of main blocks (`Replay`).
