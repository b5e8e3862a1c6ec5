# Espers: a verification of the node's core

TLA+ models of the parts of the Espers node (a proof-of-work / proof-of-stake
coin descended from Bitcoin and Peercoin) that keep state, checked with TLC on
small instances, with the central invariants proved with TLAPS for every
instance. Paths below are relative to `src/src/`.

## The system and its parts

The node learns blocks and transactions from peers, keeps a tree of blocks and
a transaction index in LevelDB, follows the chain of most trust, keeps a pool
of unconfirmed transactions, and mines or stakes blocks. `cs_main` is held
while a message is handled, so handlers do not interleave with each other; what
makes the code hard is

* a stop of the process, or the failure of one step, in the middle of a handler
  that changes memory, disk and wallet one after the other;
* what other threads (sockets, staking, RPC) do between and beside handlers;
* blocks and transactions that arrive early, late, twice or not at all;
* several containers that must say the same (maps and lists that hold iterators
  into each other, an index and its inverse).

| Part | Code | State | Hard behaviour | Here |
|---|---|---|---|---|
| Chain state | `core/main.cpp` AcceptBlock ... Reorganize, `consensus/velocity.cpp`, `consensus/checkpoints.cpp`, start in `util/init.cpp` | block index, best block, `pnext`, money supply, in memory and on disk | stop or failure half way through a reorganisation; rollback and repair at start | `ChainState` |
| Transaction database | `database/txdb-leveldb.*` | LevelDB, one active batch per object | reads inside a transaction, failed commit | `TxDB` |
| Memory pool | `subcore/txmempool.*`, AcceptToMemoryPool | pool, spender of each outpoint | the chain changing under it | `ChainMempool` |
| Orphan transactions | `tx` message | two maps | dependants in any order, limit | `OrphanTxs` |
| Orphan blocks | ProcessBlock, PruneOrphanBlocks | two maps, seen stakes | pruning, AcceptBlock failing, recursion | `OrphanBlocks` |
| Block download | `inv`, `block`, SendMessages, CNodeState | two maps, lists and counters per peer | peers leaving, unrequested blocks, stalling | `BlockDownload` |
| Lookups over the best chain | FindBlockByHeight, `core/blocksizecalculator.cpp` | the block found last, the sizes of recent blocks | caches over reorganisations, searches in the middle of one, one of them without `cs_main` | `ChainLookups` |
| Wallet keys, key store | `core/wallet.cpp`, `subcore/crypter.cpp`, `database/walletdb.cpp` | key pool, reserved keys, encrypted keys, in memory and in the file | stop between memory and file, locking and keeping without `cs_wallet` | `WalletKeys` |
| Address manager | `node/addrman.*` | tables of new and tried addresses, three indexes, two counters | eviction, reference counts, dump and reload | `AddrMan` |
| Xnodes | `xnode/` | list of entries, sync status | pointers kept over an unlock, TRY_LOCK, sleep | `XNodes` |
| Miner, staker | `consensus/miner.cpp`, `kernel.cpp` | none shared beyond the relay address | best block changing meanwhile | `CreateNewBlock` only |
| Rest of the wallet | `core/wallet.cpp` | coins | steps of several files | refund of coinstakes only |
| Sync peer and Demi-nodes, time, sporks, alerts | SyncSelectStart, `deminode/`, `subcore/timedata.cpp`, `consensus/fork.cpp`, `node/alert.cpp` | small maps | flags passed by value, limits | not modelled |
| Difficulty, rewards, script, crypto, fractal, PAS, RPC, Qt | | | pure computation, parsing or presentation | not modelled |

`PROJECT.json` has the same list with reasons, and the hazards at their lines.

## Modules

Blocks and transactions are constants. A block is a member of `Block` with a
parent, a height, a trust and a sequence of transactions; a transaction has a
set of prevouts. Which block's signatures, amounts and reward are right is the
constant `Sound`. What the checks without context (CheckBlock, timestamps,
target, hardened checkpoints) refuse never leaves a trace and is not in `Block`.

* `Transactions`, `BlockTree`: these constants and what the code guarantees of
  them, as named assumptions; TLC evaluates them on every tree it uses. Of the
  ancestors of a block they only say how following `pprev` computes them; that
  chains nest and are linear is proved (`ChainStateProofs!ChainsNest`).
* `ChainState`: AcceptBlock with AddToBlockIndex, SetBestChain, Reorganize and
  SetBestChainInner, one action per handler or per turn of a loop. `db` is what
  is committed, `batch` what the writing CTxDB sees, `call` how far SetBestChain
  has got. `Restart` is possible in every state. It is followed by the
  verification of LoadBlockIndex with its repair (`VerifyBlocks`), by
  `-backtoblock` (`BackToBlock`) and by the rest of AppInit2 (`FinishInit`). A
  read or a commit may fail (`DiskFaults`). The history variable `damage` is
  "memory" once a further block has failed after a committed reorganisation (see
  *Where code and comments disagree*) and "disk" once something was committed on
  top of that; several invariants are stated up to it.
* `BestChain`: what following the best chain promises. The chain on disk
  implements it.
* `TxDB`, and `KeyValueStore`, which it implements: `activeBatch` is a log that
  reads scan; the store is a shared map with private changes. This is what
  `ChainState` assumes of `db` and `batch`.
* `TxMemPool`: addUnchecked and remove on a pool as a value. `ChainMempool`
  composes it with `ChainState`: every step of the chain is taken together with
  what it does to the pool (removal of a connected block's transactions,
  resurrection and conflict removal after a reorganisation, loss at a stop).
  The loops of Reorganize are recursive functions over blocks and transactions
  in the code's order; the recursion of remove is the least set it visits.
  Transactions the wallet offers again enter by AcceptToMemoryPool.
* `OrphanTxs`: the `tx` message. AlreadyHave is asked before `cs_main` is taken,
  so the wallet and new blocks come in between (`AcceptLocal`, `ConnectBlock`).
  The loop over dependants is one action per orphan tried, in any order, since
  hashes order the set arbitrarily. Blocks have one transaction;
  reorganisations, which make a confirmed parent unknown again, are left out.
* `OrphanBlocks`: ProcessBlock composed with `ChainState`. Each orphan's
  AcceptBlock is a whole SetBestChain that may fail or be cut off by a stop.
  PruneOrphanBlocks walks from any orphan to one that waits for it, as often as
  there is one (`Walked`).
* `BlockDownload`: both maps, the lists and counters of each peer, messages, the
  loop of SendMessages, and the socket thread that closes connections beside it.
  Lists are sets, since only the age of the oldest entry matters. Ids of peers
  are used again, which makes no difference as nothing of a gone peer is left
  (`MapsMatchLists`).
* `ChainLookups`: FindBlockByHeight with the block it remembers, and the list of
  block sizes, composed with `ChainState`. Every step that connects a block
  computes the sizes first, which searches, as do RPCs between calls. The `dsee`
  handler (`xnode/xnodemngr.cpp:745`) searches without `cs_main`: `search` is
  how far it has come, one action per turn of the loop along `pnext`, while the
  chain changes under it. A search that runs into a null `pnext` ends the
  process. `stray` is history: the block found last was stored by a search that
  SetBestChain had left behind.
* `WalletKeys`: TopUpKeyPool, reserving, keeping and returning keys,
  EncryptWallet with NewKeyPool, locking, and LoadWallet after a stop. `call` is
  what runs with `cs_wallet`, one action per write of the file. `Lock` and the
  miner's `KeepKey` come in between. When the record of a reserved key cannot be
  read, ReserveKeyFromKeyPool throws with the index already in the CReserveKey,
  whose destructor returns it; here that is a holder without a key. Keys are
  numbered as they are generated; `used`, `old` and `clash` are history.
* `AddrMan`: one action per operation (all hold `cs`). `vRandom` keeps its
  order, since the swaps in it are what could go wrong. `Reload` is an orderly
  stop, which dumps the tables, and the start after it.
* `XNodes`: a message is handled step by step (find, then each test and each
  write), and in between the check thread erases entries and an RPC thread adds
  some; `call.at` is the position that the handler's pointer stands for. Times
  of entries and pings may lie in the future. `CountEnabled` and
  `CheckAndRemove` take the set of entries for which Check got `cs_main`. `sync`
  is what IsBlockchainSynced says.
* `MC*` modules give TLC a tree, transactions or peers.
* The theorems are in `ChainStateProofs`, `BestChainProofs` and
  `ChainMemoryProofs` (the chain and the searches in it), `MempoolProofs` (the pool
  and the refunds), `BlockRelayProofs` (orphan blocks and block download),
  `SupportProofs` (orphan transactions, Xnodes and CTxDB) and `WalletKeysProofs`.
  `NaturalLemmas` has what their loops need. Names carry a prefix (`DbSpec`, `DownloadSpec`, `XNodeSpec`)
  where components share a module of proofs.

## Runs

| Run | Instance | Shows |
|---|---|---|
| `chain` | nine blocks, three branches of up to four; double spends, a coinstake, a branch whose third block cannot connect | up to `damage`: index on disk exact, memory and disk agree, `pnext` marks the main chain, supply exact; buried blocks final, coinstakes taken off the chain refunded, BestChain implemented, only `-backtoblock` cuts back, SetBestChain ends |
| `chain_lookups` | eight blocks with `-deminodes`, a branch that grows past the window of sizes before it is taken; a further block that cannot connect | FindBlockByHeight is right for the best chain, up to `damage` and `stray`, also with a search that holds no lock |
| `txdb` | two objects, two keys, logs of two entries | CTxDB implements the store |
| `mempool` | six blocks, nine transactions with chains, double spends and one on both branches | spend index exact, nothing both in pool and chain, disconnected transactions offered again, no conflicts after a reorganisation |
| `orphan_txs` | seven transactions, limit two | maps agree, no dependant missed, the handler ends |
| `orphan_blocks` | eight blocks, limit two, a chain of three orphans and a fork, a shared stake | maps agree and stay within the limit, pruning cuts no chain of orphans, no stale stake, no orphan left behind an accepted parent, ProcessBlock ends |
| `block_download` | two peers (one local), two blocks, one in transit per peer | maps, lists and counters agree, each block in one of the lists at most, the loop of SendMessages ends |
| `wallet_keys` | a miner's and a sender's reserved key, pool of two, seven keys | no key handed out is lost by a stop, the file is never half encrypted, kept keys stay out of the pool, the pool serves, encryption renews it |
| `addrman` | four hosts, one with two ports, two sources; buckets of one and two | what Check_ tests (indexes, buckets and counters agree), buckets bounded, tried addresses never deleted, an orderly stop and start included, reloading changes nothing |
| `xnodes` | two collaterals, two registrations each, removal after three units of time | one entry per collateral, newest message kept, silent entries leave once their time has come, entries heard count again |
| `disk_before_memory`, `block_sizes` | | see below |

Bounds. The trees are the smallest in which a reorganisation takes off and puts
on at least two blocks, fails after some have been connected, and leaves further
blocks for the second loop; heights start so that the rolling checkpoint applies
to part of the tree. `TempDepth`, `RollingStart`, `SyncSpan` and the maturity
stand for 120, 5000, 620 and the chain parameter, scaled to it. A limit of one
or two makes every limit be reached. `MaxBatch` bounds the log of a transaction,
`MaxTime` the clock of `BlockDownload` in units of its time-out, `BanScore` is
the misbehaviour it counts, `QueueLimit` the length of a queue a peer may fill.
`MaxKeys` bounds the keys generated: the first pool, its renewal by encryption
and two more. `MaxIds` and `MaxTime` bound the ids of `AddrMan` (reloading
numbers them anew) and its times of success; new buckets of one and a tried
bucket of two make each of them overflow. The times of `XNodes` are scaled to
units in which registration, ping, expiration and removal still differ as much
as their order needs (1, 1, 2 and 3), and `MaxSig` bounds registrations. The
searches of the `dsee` handler are for the heights of `Confirming`, one height
that both branches have. Chains of three orphans with a limit of two make the
walk of PruneOrphanBlocks take several turns. Symmetry is used in
`addrman` only, over the hosts and the two ports, which the bucket functions do
not tell apart. `orphan_txs` comes to an end when there is no transaction left
to send or to confirm, so its deadlock check is off; all other runs check it.

Fairness. In all modules but `XNodes`, weak fairness of the steps of the running
handler and nothing else: SetBestChain, the loop of the `tx` message,
ProcessBlock and the loop of SendMessages run on one thread under `cs_main` and
wait for nothing. No message, peer or restart is assumed to come or to stop
coming. A stop in the middle also ends a handler. `XNodes` has the same for its
handler, strong fairness of time (a handler that runs only delays it), and weak
fairness of a CheckAndRemove that gets `cs_main` for all entries: the thread
runs every minute, and `cs_main` is not taken each time, but only while an entry
is left that IsXNodeSynced can count. That the blockchain is synced is a premise
of the properties.

## Where code and comments disagree

Two runs check what a comment says and end with a counterexample.

* `disk_before_memory` (`core/main.cpp:2204`): the loop over further blocks ends
  at a failure, and SetBestChain publishes the last block all the same, so
  memory has a best block that was never connected. This is what `damage`
  records.
* `block_sizes` (`core/blocksizecalculator.cpp:72`): the list of sizes goes on from
  block to block without regard to disconnected and refused ones, so the
  median, which is a network rule, is not that of the last blocks of the chain.

Six more properties are in the modules because a comment says so, and are
refuted when they are added to a `.cfg`:

* `RepairMovesBack` (`MCChainState.cfg`; `database/txdb-leveldb.cpp:562`): the
  repair at start moves the best block back through Reorganize, which denies
  reverse reorganisations.
* `RefundedOnlyOffChain` (`MCChainState.cfg`; `core/main.cpp:1693`): a
  reorganisation that fails after it has disconnected an own coinstake leaves
  the stake's inputs unspent in the wallet. What does hold is
  `LostStakesRefunded`.
* `BranchResurrected` (`MCChainMempool.cfg`; `core/main.cpp:2033`): transactions
  of a disconnected block are offered to the pool last first, so a child is
  refused before its parent comes. What does hold is `RootsResurrected`.
* `StalledPeerDisconnected` (`MCBlockDownload.cfg` with `MaxTime = 4`;
  `core/main.cpp:4462`): nothing sets `nLastBlockProcess`, so no peer is ever found to stall.
* `EvictsLeastRecent` (`MCAddrMan.cfg` with `MaxTime = 2`;
  `node/addrman.cpp:168`): SelectTried swaps the entry it looks at to position `i` and then remembers
  its former position, so another entry than the least recently tried may go.

* `ReturnsMainChain` (`MCChainLookups.cfg`; "Returns hash of block in
  best-block-chain at <index>", `rpc/rpcblockchain.cpp:217`): a search of the `dsee`
  handler that SetBestChain overtakes stores a block of the old branch
  (`core/main.cpp:1236`), after the new best block has reset
  `pblockindexFBBHLast`, and the next search may start from there. What does hold
  is `FindsMainChain`, up to `stray`.

Met while modelling, and visible in the models without a run of their own:

* `BLOCK_REORG_MAX_DEPTH` ("Maximum block reorganize depth", `core/main.h:76`)
  is compared with the difference of two tip heights; a branch one block longer
  may replace any number of blocks above the rolling checkpoint. What does hold
  is `BuriedBlocksStay`.
* `-demimaxdepth` and `-demireorgtype` assign `init.cpp`'s own copies of static
  variables, and Reorganize reads `main.cpp`'s.
* A pool transaction whose input a block on top of the chain has spent stays in
  the pool (`core/main.cpp:2122`): only Reorganize removes conflicts.
* When AcceptBlock fails after the block entered the index, its orphans are held
  on though their parent is there (`core/main.cpp:2839`); hence the exception of
  `AcceptedParentsHaveNoOrphans`.
* There may be one orphan block more than `-maxorphanblocks`
  (`core/main.cpp:1281`), hence the bound of `OrphanBlocksBounded`; and as
  `setStakeSeenOrphan` is not a multiset, pruning one of two orphans with the
  same stake lets a third in.
* `CTxDB::Exists` finds a key that the transaction has erased; no caller is in a
  transaction. It is not modelled.
* A block announced by two peers is queued for the first only, and lost if that
  peer leaves, until somebody announces it again. A parent that comes through
  the wallet or in a block does not wake the orphan transactions.
* "Take key pair from key pool so it won't be used again"
  (`core/wallet.cpp:2198`): while the wallet is locked the pool can be drained
  with keys still reserved. The next top-up then numbers from 1 again, writes
  over the reserved records, and keeping the old key erases the record of a new
  one. This is `clash`, up to which `PoolServes` is stated.
* "Mark old keypool keys as used, and generate all new keys"
  (`core/wallet.cpp:2363`): keys reserved while the wallet is encrypted are not
  marked, and come back if they are returned; hence the form of `PoolRenewed`.
* "Resync if we lose all xnodes from sleep/wake or failure to sync originally"
  (`xnode/xnodesync.cpp:52`): after a gap of an hour IsBlockchainSynced never
  answers yes again (`lastProcess` is not updated), and with no entry to count
  IsXNodeSynced refuses the very messages that would bring entries and stops the
  checking of the list. Registering by RPC, a restart with a list, or two
  threads asking at once gets out of the latter. Hence the premises of
  `SilentLeave`.
* `lastUpdated` of a `dsee` message is not compared with the clock
  (`xnode/xnodemngr.cpp:766`): an entry may have been last seen in the future,
  and then neither expires nor is updated until that time has come. Hence the
  exception of `SilentLeave`. A ping may likewise be up to an hour ahead.
* "remove inactive" (`xnode/xnodemngr.cpp:250`): an entry that CountEnabled has
  set to be removed is erased though it has just been heard of again, when Check
  does not get `cs_main` in between. A message may also be written to another
  entry than the one it was tested against, as Find's pointer is used after the
  lock is released; `NewestKept` excepts that step (`Astray`).

## Proofs

Everything below holds for every value of the constants that the assumptions of
the modules allow: any tree, any transactions, limits, depths and peers.

| Theorem | Says |
|---|---|
| `ChainStateProofs!TypeCorrect` | `TypeOK`: no step follows a `pprev` that is not there |
| `ChainStateProofs!TxIndexCorrect` | `TxIndexExact`: the index on disk describes the chain of hashBestChain, at every moment, unless a block was committed on top of a failed one (`damage` is "disk") |
| `BestChainProofs!ImplementsBestChain` | the chain on disk implements `BestChain` |
| `BestChainProofs!CutBackNeedsRollback` | trust falls only by `-backtoblock` |
| `BestChainProofs!BuriedBlocksAreFinal` | blocks below the rolling checkpoint stay |
| `ChainMemoryProofs!MemoryIsDisk`, `MainChainIsMarked`, `SupplyIsExact` | between calls memory has the best block, the links and the supply of the disk; `pnext` marks the best chain; supplies add up along it; all three unless a further block has failed (`damage`) |
| `MempoolProofs!StakesAreRefunded` | own coinstakes taken off the chain have been refunded |
| `ChainMemoryProofs!SearchIsRight` | FindBlockByHeight finds the block of the best chain, whatever was searched before and with a search without `cs_main` going on, up to `damage` and `stray` |
| `MempoolProofs!PoolIndexCorrect`, `PoolIsOffChain`, `CommitClearsConflicts` | `mapNextTx` is exact, pool and chain share no transaction, a reorganisation leaves no conflict |
| `BlockRelayProofs!OrphanMapsCorrect`, `OrphanBlockLimit`, `PruneKeepsChains`, `StakesHaveOrphans`, `OrphansFollowParents` | the orphan maps agree, the limit holds, pruning takes an orphan that none waits for, no stake outlives its orphan, no orphan waits for an accepted parent |
| `SupportProofs!MapsAgree`, `LimitHolds`, `NoDependantMissed` | the same of the orphan transactions; the loop misses no dependant |
| `BlockRelayProofs!MapsAndListsAgree`, `AskedForOnce`, `TransitLimit` | maps, lists and counters of the download agree, within the limit |
| `SupportProofs!ImplementsStore` | CTxDB implements `KeyValueStore` |
| `WalletKeysProofs!KeysAreSafe`, `NeverMixed`, `KeptStaysOut`, `PoolAlwaysServes`, `EncryptionRenews` | no key is lost by a stop, the file is never mixed, kept keys stay out, the pool serves, encryption renews it |
| `SupportProofs!CollateralsListedOnce`, `RegistrationsGetNewer` | one entry for a collateral; while it stays, registration and ping only get newer, except by a write that goes to another entry than the one found |

None of these is inductive by itself. The strengthenings:

* `TypeInv` adds `CallOnTree`, which ties the position `call.at` of a loop to
  the chain it walks: without it the next block is not known to exist.
* `TxInv` says of the batch what `TxIndexExact` says of the disk: while blocks
  are disconnected and connected the batch describes the chain of `call.at`. The
  commit then only has to rename. `Faithful` is `Describes` and that no
  transaction is in two blocks of the chain, which is what makes disconnecting
  the inverse of connecting. It also says which best block memory has at each
  stage.
* `BestInv`: the index is closed under parents, the disk is never ahead of
  memory whatever failed before, the target outweighs the best chain unless
  `-backtoblock` or the repair started the call, and a reorganisation that has
  begun was authorised and keeps the buried blocks.
* `ForkKnown`: `call.fork` is the fork of the two chains throughout, and what is
  connected goes up from it.
* `MemoryInv`: on disk, in memory and in the batch, `pnext` is the function
  `LinksTo` of one block and supplies add up `Along` its chain; which block that
  is depends on the stage of the call. Reorganize changes links one by one, so
  the proof needs that its two branches share no block (`BranchesApart`).
* `RefundInv`: the own stakes of the chain of `pindexBest` that the batch no
  longer has are refunded, while blocks are disconnected and afterwards.
* `LookupInv`: the block found last, unless it is `stray`, and the block that a
  search without `cs_main` has come to, unless SetBestChain has left it behind,
  are on the chain of `pindexBest` or of the disk, and a search that starts
  there finds what both chains have. While
  further blocks are connected `FurtherAhead` gives that both have the fork: the
  disk's block has more trust than `pindexBest`, so it is not below the fork.
* `Pools`: the pools with an exact index, closed under each operation
  (`AddIsPool`, `RemoveEachIsPool`) and hence under each loop. Off the chain the
  pool stays because a connected block's transactions are removed and
  Acceptable refuses what the database has. For `CommitClearsConflicts` one also
  needs `SpendInv`: the spender that the database names for an output does have
  it among its inputs.
* `PingNewer` (Xnodes): between the test of a ping and its write, entries may be
  erased and added. Entries only move forward and new ones have had no ping, so
  an entry of the same collateral that the pointer can still come to is older
  than the ping. `WriteNewer` says the like of a registration, as long as the
  entry that Find found has not been erased.
* `LoopInv` (orphan transactions): what the loop has passed in the queue has no
  dependants left, except ones that miss an input or will have another turn.
* `MapsInv`, `WaitInv`, `BoundInv` (orphan blocks): within the loop the maps
  differ by the children of the current parent; an orphan with a known parent
  waits for a block that failed, is being accepted, or is still in the queue.
  The walk of PruneOrphanBlocks gains a height with every turn and stays on
  orphans, so that it has come to its end after as many turns as there are
  orphans (`WalkEndsAtLeaf`).
* `ListInv`, `CountInv` (download): pointwise agreement of maps and lists with
  nothing left of a peer that is gone; then counters are cardinalities, which
  needs that adding a block adds an element.
* `WalletKeysProofs!IInv`: `Numbers` (every key and index is one of those
  generated so far, so that a new key is new), `Backed` (what is in memory is in
  the file, or in the transaction of EncryptWallet), `Single` (two pool records
  never have the same key, so that erasing one record takes its key out of the
  pool), `Serves` (while there is no `clash`, a reserved record is still in the
  file and unlike those in memory), `Known` (between the erasing and the filling
  of NewKeyPool, an old key in the pool is a reserved one).

Loops are recursive functions. That such a function exists, and that what each
turn keeps holds at the end, is proved from well-founded induction with sets in
place of predicates (`NaturalLemmas!LoopRuns`, `UpTo`); this serves the nested
loops of Reorganize over the pool, the loop of FindBlockByHeight, the walk of
PruneOrphanBlocks and the loop of CheckAndRemove.

The limits `OrphansBounded` and `TransitBounded` and the
type invariants of `ChainState`, `TxDB`, `OrphanTxs` and `WalletKeys` are only
proved, not among the properties of the runs.

Only model-checked: all liveness properties, since the prover has no rule for
fairness; the properties of `AddrMan`, whose invariant counts the entries of
five tables and whose Reload numbers them anew; and `RootsResurrected`, which needs
that the transactions of a chain do not conflict with each other.

## Not modelled

* In the chain state: the rollback or repair to the root of the tree; a failed
  write of a block-index record; LoadBlockIndex giving up on an unreadable
  block; what the operating system loses of an acknowledged LevelDB write; the
  parts of Velocity that look at clocks, and what its one-element tables yield
  when indexed by height (`consensus/velocity.cpp:27`); that `GetRelayPeerAddr`
  is a string written without a lock (only which peer it names is modelled).
* In the wallet: the choice of coins, CommitTransaction and the history of
  transactions; writes of `wallet.dat` that fail; ReacceptWalletTransactions is
  taken to mark every coin the index has as spent.
* In the address manager: the times of Attempt_, Connected_ and Select_, which
  only weight random choices; the limit `ADDRMAN_GETADDR_MAX`; a `peers.dat`
  with another number of buckets; a crash, after which the tables are those of
  the last dump, up to 15 minutes old (`node/net.cpp:28`), so that addresses
  tried since are new or unknown again.
* Of the Xnodes: an own Xnode (`-xnode`), the maps of who was asked for what,
  votes. Payments are dead code, since `strMainPubKey` is empty
  (`xnode/xnodereward.h:102`). An old `xnodelist.dat` read after a crash.
* In the transaction database: a read of LevelDB that fails, which CTxDB reports
  as a key that is not there (`database/txdb-leveldb.h:80`).
* In the block size calculator: the median and its multiple, which are
  arithmetic on the list.
* Sync peer selection with the Demi-nodes, network-adjusted time, sporks, alerts
  and bans: each is one small map or flag that one thread or one lock guards,
  with no step in the middle; `PROJECT.json` gives the reasons one by one.
* In AcceptToMemoryPool: fees, rate limits, signatures.
* `fImporting` switches off the duplicate-stake check; it is a constant, FALSE
  in the runs.

## Next

In this order:

1. Proofs of `CheckPasses` and `BucketsBounded` of the address manager, and of
   `RootsResurrected`.
2. CommitTransaction composed with `WalletKeys` and the pool.
3. An own Xnode, and the selection of a sync peer.
