# A verification development for Dystater

TLA+ modules that model the parts of Dystater that keep state across threads, messages and
restarts, the TLC configurations that check them, and theorems that TLAPS proves about them.
Paths are relative to the repository; line numbers are of the commit beside which this
directory is kept.

Dystater is a Bitcoin derivative whose sources mix two vintages: `wallet.cpp`, `walletdb.cpp`
and `wallet.h` carry a 0.5/0.6 key pool, `SendMoney` and loader beside 0.10 code for conflicts
and spends; `net.cpp`, `addrman.cpp` and the crypter are 0.10.  The tree does not compile as it
stands: `main.cpp`, `db.cpp`, `sync.h`, `coins.cpp`, `txmempool.cpp`, `rpcserver.cpp` and others
are missing.  What a module needs of them is modelled by how the code that is there uses it, and
the map marks it external.

## 1. Inventory

| Component | State it keeps | Operations that change it | What makes it correct |
|---|---|---|---|
| Key pool and reserved keys (`wallet.cpp` 1693-1893, `wallet.h` CReserveKey) | `setKeyPool` in memory, `pool` records in wallet.dat, an index and key in each `CReserveKey` on some thread's stack | top up, reserve, keep, return, direct use, oldest key, new pool at encryption, load | a key is put to use once; a used key never comes back after a restart; no index has two owners; no key is lost |
| Wallet encryption and locks (`crypter.*`, `wallet.cpp` 97-275 and 427-518, `rpcwallet.cpp` 1700-1950, `qt/walletmodel.cpp` 245-290) | `mapKeys`, `mapCryptedKeys`, `vMasterKey`, `fUseCrypto`, `mapMasterKeys`, the unlock timer, a Berkeley DB transaction | add key, encrypt (in three critical sections), change passphrase, unlock, lock, GUI unlock context | never plain and encrypted keys in one file; the acknowledged passphrase opens the file; handed-out keys are stored; an unlocked wallet is locked again once nobody puts its relock off |
| Wallet transactions (`wallet.cpp` 320-425, 520-740, 933-1001, 1165-1201, 1368-1621, `walletdb.cpp` 110-300) | `mapWallet`, `mapTxSpends`, order positions, `tx` records | create, commit, sync with pool and blocks, erase, load, re-accept | no spent coin is offered again; a send that is recorded is accepted; conflicting transactions share metadata; memory and disk agree |
| Connections (`net.cpp` 390-560, 690-1080, 1300-1430, 1960-1998) | `vNodes`, `vNodesDisconnected`, `nRefCount`, `fDisconnect`, `semOutbound`, copies of `vNodes` in two threads | accept, connect, find, disconnect, release, delete | nothing is deleted in use; counts and slots are exact; limits hold; what is disconnected is deleted |
| Message framing and flow control (`net.cpp` 560-690, 795-1060, 1480-1560, `net.h` CNetMessage) | `vSendMsg`, `nSendOffset`, `nSendSize`, `vRecvMsg`, socket buffers | push, partial send, receive, process, select rules | bytes in order, messages whole; buffers bounded; the two sides never wait for each other |
| Address manager (`addrman.*`, `net.cpp` 1835-1940) | `mapInfo`, `mapAddr`, `vRandom`, `vvNew`, `vvTried`, counters; peers.dat | add, good, shrink, move to tried, evict, getaddr, save and load | the indices agree; buckets stay bounded; tried entries are not deleted; a reload keeps everything |
| Inventory (`net.cpp` 1734-1771, 2000-2028, `net.h`, `limitedmap.h`, `mruset.h`) | `mapAlreadyAskedFor`, `mapAskFor`, `mapRelay`, `vRelayExpiration`, `setInventoryKnown` | ask, relay, expire, evict | requests for a thing are two minutes apart; the halves of a container agree; what is relayed expires |
| Whom to connect to (`net.cpp` 1129-1182, 1197-1411) | one-shots, added nodes, the nodes and slots as the threads see them | seed, choose an address, try added nodes in rounds | one outbound connection for each group; seeds are retried; every address of an added node is tried |
| Local addresses and bans (`net.cpp` 70-345, 480-504, 1484-1619) | `mapLocalHost`, `vfReachable`, `vfLimited`, `setBanned`, `vAddrToSend` | add, vote, remove, limit, tell a peer; ban, clear | a peer is told the best address; bans and scores are not weakened |
| Peers file (`net.cpp` 1183-1191, 1621-1689, 1838-1932) | `peers.dat` and a temporary file | dump, write, commit, rename, read | a crash or a failed write never leaves a torn file that is loaded |
| Connecting and proxies (`netbase.cpp` 235-591) | the proxies, one socket, what a SOCKS5 proxy has answered | connect to an address or a name | no leak past a proxy; a socket is closed or returned (but for one path, section 6); a call ends |
| Addresses (`netbase.cpp` 70-230, 619-1199) | none | kind, group, reachability, print, read back | groups, keys and texts agree with each other |
| Alerts (`alert.cpp`) | `mapAlerts`, what each peer knows | process, cancel, expire, relay | no kept alert cancels another, unless it expired while a call compared it |
| Accounts (`rpcwallet.cpp`, `wallet.h` 474-525, `wallet.cpp` 532-981, `walletdb.cpp` 20-110, `rpcdump.cpp` 39-77) | `mapAddressBook`, `acc` and `acentry` records, caches of each transaction, positions | name, rename, move, send from, import, receive, list | every way amounts are added up agrees; no stale cache is read; moves balance |
| Coin selection (`wallet.cpp` 1203-1480) | none | `SelectCoins`, the fee loop of `CreateTransaction` | inputs are payment, change and a sufficient fee; it fails only for want of coins |
| Wallet flush and backup (`walletdb.cpp` 328-428) | `mapFileUseCount`, `nWalletDBUpdated` | open, write, close, flush, back up | no update is forgotten; no open file is closed; a backup is whole |
| Transaction list (`qt/transactiontablemodel.cpp`, `qt/transactionrecord.cpp`) | `cachedWallet`, the hashes notified and taken | decompose, update, read status, reload | the rows mirror the wallet once a notification is handled, with the debits that are cached |
| Block assembly (`miner.cpp` 40-339) | the heap, orphans, a view of coins | `CreateNewBlock` | after the coinbase: parents precede children; limits hold; nobody is forgotten |
| Miner threads (`miner.cpp` 335-603) | each thread's template, key and nonce | reserve, assemble, search, submit, interrupt | one key of the pool for one block; an interrupted thread that stops finding blocks ends |
| Active chain and locators (`chain.*`) | `vChain` | set tip, locator, fork | the vector is the path to the tip; locators find the fork |
| Proof of work (`pow.*`) | none | retarget, check, block proof, update time | targets bounded, changed only where they may be, work exact |
| Big integers (`uint256.h`) | the limbs | every operator | plain arithmetic modulo the width |
| Scripts (`script/script.*`, `script/interpreter.cpp`) | bytes of a script; stacks, branches, counts | push, read, find, delete; one instruction at a time; sign | scripts read back; branches nest; limits; one form of a signature; a signature covers what its type says |
| Block database (`txdb.cpp`, `leveldbwrapper.h`), checkpoints, conversions and keys, chain queries over RPC, utilities, windows and dialogs | | | section 7 |

How they interact.  The socket handler, the message handler, the opener threads, the RPC threads,
the miner threads, the GUI thread, the address dumper and the wallet flusher run concurrently.
Each component has its lock (`cs_wallet`, `cs_KeyStore`, `cs_vNodes`, `cs_vSend`,
`cs_vRecvMsg`, `CAddrMan::cs`, `cs_mapAlerts`), and the difficult behaviour is where a decision is
taken under one hold of a lock and acted upon under another:

- a `CReserveKey` keeps an index while other calls refill, replace or reload the pool;
- `EncryptWallet` and `ChangeWalletPassphrase` read the wallet's state before they lock it, `Lock()`
  takes only `cs_KeyStore`, and the RPC timer and the GUI's context relock on their own;
- a send chooses coins in `CreateTransaction` and spends them in `CommitTransaction`;
- a node is in `vNodes` before its grant and its `fNetworkNode` are set; `FindNode` hands out a
  pointer after it has released `cs_vNodes`;
- a node that has something to send does not receive;
- a miner thread reads the best block without a lock and has its template made under one;
- the proxy settings are read one at a time while they are being set;
- the flush thread closes a database by a count it has read, and an update counter that nobody locks;
- the interface takes hashes under one lock and changes its rows under another.

The other source of trouble is the restart.  Key pool, keys, transactions and addresses are each
kept twice, in memory and on disk, and what a load rebuilds has to be what a run would have had.
Amounts, scripts and numbers bring the hazards of sequential code: caches that an event must drop,
limits met exactly, branches that are not taken.
`PROJECT.json` lists the hazards, each at its line.

## 2. Modules

| Module | Models | A step is |
|---|---|---|
| `KeyPool` | the key pool and `CReserveKey` | one function under `cs_wallet` |
| `IntervalFacts` | lemmas about sets of numbers, used by the proofs of `KeyPool`, `WalletCrypt`, `AddrMan`, `NetQueue` and `WalletTx` | |
| `KeyPoolProofs`, `WalletCryptProofs`, `WalletTxProofs` | theorems about the module each is named for; those of `WalletFlush` are at the end of `WalletCryptProofs` | |
| `NetNodesProofs`, `NetQueueProofs`, `AddrManProofs` | the same, of the network | |
| `NetParts` | `Inventory`, `LocalHost`, `PeersFile` and `Alerts` side by side, and what they promise | one step of one of them |
| `NetworkProofs` | theorems about `NetParts` | |
| `WalletVault` | abstract: the private keys that can be recovered from the disk, and the passphrase it takes | |
| `WalletCrypt` | encryption, passphrases, locks, timers, wallet.dat | what runs between two lock operations or disk writes |
| `WalletTx` | transactions, spent coins, metadata | one function under `cs_main` and `cs_wallet` |
| `NetNodes` | nodes, reference counts, slots | what a thread does under `cs_vNodes` or between two releases of it; `AddRef` outside it is two steps |
| `NetQueue` | two peers, their queues and sockets | one visit of a loop to the node |
| `AddrMan` | the tables and their round trip | one public member |
| `Accounts` | the address book, moves, sends, imports, caches and listings | one RPC call, or one signal from the chain |
| `CoinSelect` | the choice of coins and the fee loop | one turn of the loop |
| `WalletFlush` | the flush thread, the backup and the users of wallet.dat | what runs under one hold of `cs_db`; the unlocked counter is a load and a store |
| `TxTable` | the list of transactions in the interface | one change of the wallet, one taking of the hashes, one hash handled, one row looked at |
| `Inventory` | requests, relays, known sets | one call |
| `Connecting` | the seed, opencon and addcon threads | one attempt to connect, or one choice |
| `LocalHost` | local addresses, limits, bans | one call under `cs_mapLocalHost` or `cs_setBanned` |
| `PeersFile` | `peers.dat` | one write, commit or rename; a crash |
| `Alerts` | the alerts kept | one `ProcessAlert` |
| `NetAddr` | kinds, groups and texts of addresses | print one, read it back |
| `Socks` | a call to connect | one reading of the settings, or one wait for a socket |
| `BlockAssembly` | `CreateNewBlock` | one transaction gathered, or one taken from the heap |
| `Miner` | the miner threads | what runs between two locks or tests for interruption |
| `Chain` | `CChain`, locators, median time | one `SetTip` |
| `Pow` | targets and times of a chain of headers | one block |
| `UInt256` | `base_uint` in limbs | one operator |
| `Scripts` | bytes of scripts and numbers | one push, deletion or sum |
| `Interpreter` | `EvalScript` | one instruction |
| `Signatures` | canonical signatures, `SignatureHash` | one change of a signature or of a transaction |

`MCKeyPool`, `MCWalletCrypt`, `MCNetNodes`, `MCNetQueue` and `MCAddrMan` extend one module
each, so what they check is what the theorems state.  `MCWallet` extends `WalletTx` and instantiates
`Accounts`, `CoinSelect`, `WalletFlush` and `TxTable`; `MCNetwork` extends `NetParts` and
instantiates `Connecting`, `NetAddr` and `Socks`; `MCConsensus` instantiates several.  In these three
the variable `part`, chosen
in the initial state and never changed, says which module a behaviour is of, and the variables of
the others keep a constant value.  A property of such a run says of each part what its modules
state (`part = "tx" => ...`), so a run is as many small model checkings, side by side, of
components that share no step.  `MCConsensus` takes `UInt256` (Bitwise) and `Scripts` (RECURSIVE);
theorems belong in modules that extend `Chain`, `Pow`, `Miner` and the others directly.

How the state corresponds to the code.  Variables carry the names of the members they stand for.

- **KeyPool.** `setKeyPool` is the set, `pool` the records; a key is the number of the
  `GenerateNewKey` call that made it.  `held` is the pair of members of each `CReserveKey`; `peek`
  is the local of `GetOldestKeyPoolTime`, the one caller that reserves and returns without a
  `CReserveKey`.  `uses` and `overwritten` are ghosts.  `GetReservedKey` contains the refill that
  `ReserveKeyFromKeyPool` begins with; the destructor of `CReserveKey` is `ReturnKey`, and in a
  locked wallet an empty pool yields `vchDefaultKey`, as in the code.
- **WalletCrypt.** A ciphertext is the name of the key that opens it.  `EncryptWallet` is
  `EncryptCheck`, `EncryptKeys`, `EncryptCommit`, `EncryptNewPool`; `cs_wallet` is held by a thread
  in `commit` or `newpool`, which `CsWalletFree` says.  `LoadWallet` is an exit, a crash or a failed
  assertion followed by a start, so it may come anywhere.  `timer` says which of the timers that
  `walletpassphrase` sets is running: each call replaces the one there is, so `LockWallet(1)` and
  `LockWallet(2)` are different actions.  `EncryptNewPool` and `RunLater` may end in the exception of
  `GenerateNewKey` or, with the key saved and its pool record not, of `TopUpKeyPool`
  (`EncryptNewPoolThrows`).  `CDB::Rewrite`, at the end of `EncryptWallet`, is not in the repository: it
  is taken to change no record, and a crash inside it is not modelled.  `acked` is the passphrase
  the user was last told is in force.
- **WalletTx.** A transaction is known by the coins it spends, in the order of `vin`; `Txs` lists
  them in the order of their hashes, in which `mapWallet` is walked.  The loops over `vin` (`Inserted`,
  `Marked`) and over `mapWallet` (`Offered`) are recursive functions; what leaves the
  pool with a conflict (`Descendants`) is the least set closed under children.  `fromAccount` stands for the
  copied metadata.  `mapWallet[hash]` on a hash that is not there inserts a default `CWalletTx`
  (`own = FALSE`), as `operator[]` does.  `chain` is external: nowhere, in the pool, or in a block.
- **NetNodes.** `place` says whether a node is in `vNodes`, in `vNodesDisconnected` or deleted.
  `phase` is the position in the socket handler's loop; `opener` holds the locals of
  `OpenNetworkConnection` and `ConnectNode`, with the kind of its call: an address, a name, a one-shot
  (whose node is marked in a step of its own, `SetOneShot`), or a name of `-connect`, which brings no
  grant.  `Calls` says which kinds each thread makes.  The ghost `direct` is the nodes made without a
  grant.
- **NetQueue.** A message is a header and a payload of units; every send and every receive may move
  any number of units that fits.  `readData` cuts headers and payloads as `CNetMessage` does.  A socket
  is read because it was selected (`SocketRecv`), because the message handler held `cs_vSend` when the
  socket thread looked for something to send (`SocketRecvContended`), or because `select()` failed or
  the socket is in the error set, whatever the buffers hold (`SocketRecvUnasked`).  The ghost
  `unasked` counts what came the last way since the receive buffer was last looked at.
- **AddrMan.** The whole object is one record, and each building block maps a record to a record, so
  that `Add_` and `Good_` read like the code.  Hashes are constants; `GetRandInt` is any value.
- **Accounts.** `book` is `mapAddressBook` and the "name" records, `current` the "acc" records,
  `acentry` the moves.  A transaction is a constant: whether it is a coinbase, what it spends, what it
  pays to whom.  Each cache of a `CWalletTx` is a value or "not cached"; a query that fills a cache is
  an action, because a later call reads it.  The listings are operators over the state.
- **CoinSelect.** `ApproximateBestSubset` tosses coins a thousand times over; the model takes the best
  subset any sequence of tosses finds, at each turn any one of them.  Amounts are small, so `CENT` and
  the fee for a kilobyte are, too.
- **WalletFlush.** `handles` says which thread has wallet.dat open, which value of `nWalletDBUpdated` it
  loaded and what it is writing; `logged` and `dat` are the updates in the log and in the file.
- **TxTable.** A row is its transaction, its index in it, its amounts and its status.  A row's amounts
  come from `CWalletTx::GetDebit`, which is cached (`nDebitCached`): `MarkDirty` drops it in what is
  synced and in what that spends, not in what spends it.  `told`, `undone` and `moved` are ghosts: what
  was notified after it last changed, whether a block was disconnected, and what has seen a
  transaction it spends come or go since it was synced.
- **Inventory.** A `limitedmap` is its map and its `rmap` of values; a `mruset` its set and its queue.
  `mapAskFor` is each peer's multimap in the order of times.
- **Connecting.** `seeder`, `opencon` and `addcon` are the places of the threads with their locals;
  `vNodes` are the nodes with what kind of connection they are.  A slot is held by a node or a thread.
- **LocalHost.** A local host has a score and a port; a peer sees us as some host (`addrLocal`), which
  `AdvertizeLocal` may prefer to what it has.
- **PeersFile.** A file is the sequence of parts written to it, and `durable` says how many of them a
  crash leaves.
- **Alerts.** An alert is the record of its numbers; the interface is what `NotifyAlertChanged` told it.
  `ProcessAlert` reads the adjusted time anew for each comparison, so each reading is of some time in a
  span around the present; `lapsed` is a ghost, the alerts for which two readings of a call could differ.
- **NetAddr.** An address is its sixteen bytes, as in the code; a text is a sequence of numbers and
  punctuation marks, which is what reading it back needs.
- **Socks.** `at` is where the call is, `copied` what it has read of the settings, `want` and `field`
  what `InterruptibleRecv` still waits for.  A socket that cannot be made non-blocking is "lost": open,
  and forgotten by the code.
- **BlockAssembly.** A `COrphan` is the set of transactions it waits for, or destroyed; a read through a
  pointer to a destroyed one may find anything (`dangling`).  `pblocktemplate` says how the call ended:
  it returns, `ConnectBlock` refuses and it throws, or it faults at a write to `vtx[0].vout[0]` or
  `vtx[0].vin[0]`, which do not exist, since the coinbase it prepares is never stored (section 6).
- **Miner.** `miner` has the locals of each thread: the best block it read, the template, the key, the
  extra nonce, the place.  A thread whose `CReserveKey` finds the pool empty has its template made for
  `vchDefaultKey` and holds no key.  `key` in a template is the one `CreateNewBlock` was called with; that
  the block pays it is not said.  `ProcessEnds` is what the thread does not catch, or a fault, and the
  start after it.  The static `hashPrevBlock` of `IncrementExtraNonce` is one variable for all.
- **Chain, Pow, UInt256.** `vChain[h + 1]` is the entry at height `h`; compact numbers have a mantissa,
  a sign and a size; limbs come lowest first.  The ghost `number` of `UInt256` is what plain
  arithmetic says.
- **Scripts, Interpreter, Signatures.** A script is a sequence of bytes whose number of values is a
  constant; the ghost `parts` is what it was made of.  `m` is the interpreter's stacks, branch
  conditions and counts, `chosen` a ghost that remembers which way each branch went.  What is signed
  is the record of the fields that `SignatureHash` serialises.

## 3. Runs

Every property a run checks is stated with a comment beside it.  "Violation" runs check what a
comment or help text of the repository says and the code does not do; the findings in
`PROJECT.json` quote it.

| Run | Instance | Shows |
|---|---|---|
| `keypool` | 2 holders, `-keypool=1`, 5 keys | no used key has a record; owners are distinct and no key is used twice as long as no record in use was overwritten; no record is lost |
| `walletcrypt` | 2 RPC threads, the GUI, 3 keys, 2 passphrases, writes of keys and of pool records may fail | the file always loads; acknowledged passphrases open it; handed-out keys are stored; it implements `WalletVault`; once `walletpassphrase` is not called any more, an unlocked wallet is locked again |
| `netnodes` | 2 openers on one address, one with one-shots and names of `-connect`, an inbound address, 2 nodes, 1 slot | counts and slots exact, limits kept by inbound connections and those with a grant, nothing deleted in use but by the exceptions of section 6, inbound nodes are deleted in the end |
| `netnodes_slot` | 1 opener, 1 node, 1 slot | *violation*: a slot is never returned |
| `netqueue` | 2 requests one way, 1 the other, headers of 2 units, socket buffers of 3, receive limit 1, 2 units after errors on one side | order, whole messages, bounds, delivery unless both have more to send than the sockets take |
| `netqueue_stall` | socket buffers of 3, receive limit 3 | *violation*: both peers wait for each other |
| `addrman` | 3 hosts, 3 new buckets and 1 tried bucket of one place | indices agree with buckets, bounds, reload, no tried entry deleted |
| `wallet` | parts `tx`, `accounts`, `coins`, `flush`, `table` | see below |
| `wallet_spent` | the same | *violation*: after a restart spent coins count as unspent |
| `network` | parts `ask`, `relay`, `connect`, `local`, `ban`, `file`, `alert`, `address`, `proxy` | see below |
| `consensus` | parts `miner`, `assembly`, `chain`, `work`, `integers`, `script`, `numbers`, `evaluation`, `signature` | see below |
| `miner_height` | the same | *violation*: the height in the coinbase is an older block's |

The parts of `wallet`:

| Part | Instance | Property, and what it takes to break it |
|---|---|---|
| `tx` | 2 senders; a receipt of two coins, two spends of one, a spend of the other with the change of the first | `NoSpentCoinOffered`; `RecordsAgree`: disk and memory agree and conflicting transactions share their metadata; `CommitAccepted`: a send that nothing came between is accepted |
| `accounts` | five transactions (a send with change, a mined coin, receipts on an importable address), two keys, two names; six budgets of blocks, moves and calls | `BooksAgree`: accounts add up to the total, `getbalance` two ways, received amounts and `listtransactions` agree; moves balance; pages of a listing tile it; `listsinceblock` misses nothing; caches equal what they cache; the current address of an account is nobody else's |
| `coins` | 128 wallets of four coins, five payments, two fee rates | `BooksAgree`: what is made balances and pays the fee of its size; it fails only for want; coins obey the level of confirmations |
| `flush` | two users, three updates, one of a kind that does not count | `BooksAgree`: no handle loses its database, no counted update is forgotten, a backup has everything |
| `table` | a receipt of two outputs, a send of both, a mined coin; two blocks and a reorganisation | `TableMirrors`: order, rows if and only if the transaction is there, amounts (by the debits as they are cached), status |

The parts of `network`:

| Part | Instance | Property |
|---|---|---|
| `ask`, `relay` | 2 peers, 3 things, limits of 3 and 1 | `InventoryKept`: requests apart, halves of containers agree and are bounded, what is relayed expires |
| `connect` | three addresses in two groups, four command lines (seeds, all known, name proxy, `-connect`), two slots | `ConnectionsChosen`; `AddedTried`, under fairness |
| `local`, `ban` | three hosts of two reachabilities, one peer; the clock goes both ways | `LocalIsBest`; `NothingWeakened` |
| `file` | two versions of the addresses, one temporary name, failing flushes, crashes | `StoredSound`: `peers.dat` is whole or absent; a load is one snapshot |
| `alert` | seven alerts that cancel by range, by number and each other, in every order; the time moves within a call, too | `StoredSound`: none kept cancels another, unless it expired during a call that kept it |
| `address` | 33 addresses of every kind, three ports | `ReachedSafely`: texts read back, keys (and their order), groups and reachability agree |
| `proxy` | IPv4 and onion destinations, numeric, named and overlong, two proxies, slow, broken or refusing | `ReachedSafely`: sockets accounted for, proxies respected, replies consumed, time bounded |

The parts of `consensus`:

| Part | Instance | Property |
|---|---|---|
| `miner` | two threads, one or two keys and then the default key, one nonce, up to three blocks or one change of the pool, interruption at any point, ends of the process | `OneKeyOneBlock`; `InterruptedStops`, under fairness |
| `assembly` | 72 pairs of a pool and options; families, transactions not final, invalid or with missing inputs | `BlockAssembled`: what follows the coinbase connects, nobody is forgotten, no destroyed orphan is read |
| `chain` | eight trees of 24 blocks, every jump of the tip | `LocatorFindsFork` |
| `work` | seven blocks, an interval of three, times up to 25 that run ahead and back | `TargetsRight`: the limit, the factor of four, only between intervals, exact work |
| `integers` | three limbs of a byte of two bits, every operator on every pair, texts of up to four digits and ill-formed ones | `TargetsRight` |
| `script`, `numbers` | three instructions of bytes of three bits; sums of numbers of up to three bytes | `ScriptsRight`: read back as made, found and deleted only where an instruction begins; numbers exact and shortest |
| `evaluation` | four sets of instructions in every order of up to six | `ScriptsRight`: what runs is what every branch around it says, stacks keep what is not touched, limits |
| `signature` | encodings and transactions of two inputs changed twice | `ScriptsRight`: one encoding for one pair of numbers; a change shows if and only if the hash type covers it |

Why the bounds are enough.

- *KeyPool*: the interesting events are two indices outstanding while the pool is refilled or
  replaced, and a restart in between; two holders, a target of 1 (two keys at a time) and five keys
  give two refills and a replacement.  `MaxKeys` bounds keys generated; actions that would need more
  are not enabled.  The holders are symmetric (no liveness is checked in that run).
- *WalletCrypt*: two RPC threads are the fewest that encrypt or change at once; three keys let
  two exist at encryption and one follow; `MaxMasterKeyID = 2` gives one failed attempt and one that
  succeeds.  Two timers suffice, as each call replaces the one there is.  `MayFail` says which writes may
  fail: with master-key writes failing,
  `AckedPassphraseOpens` does not hold, because both callers ignore the result of `WriteMasterKey`
  (section 6).
- *WalletTx*: four transactions make a conflict on one coin, a child of an unconfirmed parent,
  a spend of two coins and a child whose hash is smaller than its parent's.  `MaxOrder = 3` lets
  any three of them be recorded between two restarts and the fourth after one: positions start again
  at a restart, which does not save `nOrderPosNext` in the loader that is there.
- *Accounts*: a budget (`limits`) is a set of transactions with a number of blocks, moves and calls;
  each of the six is small and aims at one thing: naming, reorganisations, maturity, moves with the
  failure of their commit, a move and a block, imports with a rescan.
- *CoinSelect*: two coins deep and two shallow, of values below, at and above the payment, reach each
  of the three levels, exact matches, the one bigger coin, the change below `CENT` and the turn of the
  loop that a bigger transaction makes necessary.
- *WalletFlush*: two users make the counter lose an update and keep a handle open across the test.
- *TxTable*: the budgets give two transactions with a spend between them, one transaction over two
  blocks, and a mined coin over its maturity; at most one hash waits in the first and two in the others.
- *NetNodes*: two openers on one address is what makes `ConnectNode` find a node; `Nodes` bounds
  the objects that are ever made, so deleted ones are not reused.  One thread is that of `-connect`,
  which also makes one-shots, and the other that of the added nodes: with one slot, a node of the
  first beside one of the second is above the limit of slots, which only the first escapes.
- *NetQueue*: a header of two units can be cut in the middle, a reply fits or exceeds what is left
  of the socket buffer, and a receive limit of 1 is below any message.  Both sides come to fill the
  socket buffers with more to send, so the stall of `netqueue_stall` is reached here, too (`BothSending`):
  what `Delivered` says is that there is no other.  `MaxUnasked` bounds what `recv` brings after errors
  before the buffer is looked at again; the code has no bound.
- *AddrMan*: buckets of one place make every table full, so that additions delete, moves to tried
  evict, and an evicted entry may meet a full new bucket.  The bucket counts of the program are
  only sizes here, because the hashes are arbitrary constants.  `MaxId = 3` bounds the ids given out
  between two loads, which start counting anew, so that a deleted address comes back under another id.
- *Inventory*: limits one below what may be asked make both containers evict; `MaxTime` is two retries.
  *Connecting*: `Rounds` bounds the rounds of the threads that only choose, the addcon thread goes round
  for ever; two of the addresses share a group.  *LocalHost*: scores up to `MaxScore`, ban times within
  the clock.  *PeersFile*: the second dump replaces a file, and one temporary name is the worst case of
  its random number.  *Alerts*: ids and times are few, the clock passes every expiry, and moves by up to
  `Drift` to either side during a call.  *Socks*: two waits for each reading and one for a connection,
  so that each time limit is met exactly.
- *BlockAssembly*: the sizes are of one or two units and the limits fall between and on sums of
  them.  *Chain*: `Dense = 4` puts the doubling steps of a locator within a chain of eighteen.  *Pow*:
  hashes of 16 bits with a mantissa of 5 make the compact form lose bits, as it does in the program.
  *Miner*: three blocks are the fewest in which a height is stale: the best block the thread read, the
  one that comes, and the one it finds.  A behaviour has those and a pool of one key, so that one of
  two finds is made for the default key, or one block fewer and two keys, or a change of the pool of
  transactions, which only makes a thread start over (`MCLimits`).
- *UInt256, Scripts, Interpreter, Signatures*: every limit of the code is a constant, set so low that
  short programs meet it; bytes have eight values, so each of the four forms of a push occurs.

Deadlock is checked except in the runs of `NetQueue`, where a connection with all requests made
and answered rightly stops, and in those with parts, where a block is finished, a budget spent, a
script evaluated, a call returned.

Every property has a mutant, and where it speaks of several modules each of them has one or more: a
plausible bug in one definition, kept beside it under a name of its own, for which TLC finds the
property violated.

## 4. Fairness

- `WalletCrypt`: weak fairness of each timer (`LockWallet(1)`, `LockWallet(2)`) and of the GUI leaving a
  context (`Relock`); these are straight-line code that only waits for `cs_wallet`, which nobody
  holds for ever.  As a `walletpassphrase` call replaces the timer by the other, repeated calls put the
  relock off for ever, as in the code: `LockedAgain` has the premise that no such call is in progress
  from some time on.  Nothing makes anybody start or finish a call.
- `NetNodes`: weak fairness of the socket handler's loop and of the message handler's release of its
  copy: each is a loop without an unbounded wait (select and sleep have timeouts).  That the openers
  go on, or that peers connect or disconnect, is not assumed.
- `NetQueue`: weak fairness of each peer's socket loop and message loop, and of a network
  that moves what it has room for.  Requests are not forced, and choosing to send rather than receive is the
  code's rule and not a matter of fairness; nor are errors and contended locks, which would break a stall.
- `Connecting`: weak fairness of the addcon thread alone, a loop that sleeps for a bounded time
  and whose connects time out.  That an address answers, or that a slot is free, is not assumed.
- `Miner`: weak fairness of each thread's step: a scan is a bounded number of hashes, one that finds
  nothing is followed by an interruption point, and the sleep without peers is one itself.  The way round
  through a block that was found has none, so a thread that finds blocks for ever need not stop.

The other modules check safety only.

## 5. Proofs

Every theorem is of `Spec` for every value of the constants that the module's `ASSUME`s allow.  Each
rests on an inductive invariant that TLC found to hold on the instance of section 3 before it was
proved; the proof that a step preserves it has one step per action.

### The key pool

`KeyPoolProofs` proves, for every set of holders, every `-keypool` and every bound on keys
(`TargetAssumption`, `MaxKeysAssumption`):

| Theorem | Says |
|---|---|
| `KeyPoolType` | `Spec => []TypeOK` |
| `UsedKeysAreErased` | `Spec => []UsedKeyLeavesDisk`: a key that was put to use has no record |
| `IndicesOwnedOnce` | `Spec => []OwnedOnce`: until a record in use is overwritten, every index in memory has its record and one owner, so that `ReserveKeyFromKeyPool` does not throw |
| `KeysUsedOnce` | `Spec => []KeyUsedOnceUnlessOverwritten` |

The argument.  `UsedKeyLeavesDisk` alone is not inductive: a holder could keep a key whose record is
under another index, and `KeepKey` would erase the wrong one.  `DiskInv` adds that a key is recorded
under at most one index, that records and holders only name keys already generated (so what
`GenerateNewKey` returns is fresh), and that a holder of a key has the index of its record.  The
only step that writes records is the refill, so the lemma `Topped` states once what a refill does to
the set and the records; the proof that a step preserves the invariant has one step per action.
`Topped` in turn needs that `*--setKeyPool.end()` is an upper bound: `IntervalFacts` proves that a
non-empty set of indices has a smallest and a largest element, by well-founded induction on the
naturals as the library states it.

`OwnerInv` (`OwnedOnce` and `KeyUsedOnceUnlessOverwritten`) is inductive relative to `DiskInv`.  The
condition on `overwritten` cannot be dropped: while a holder keeps an index of a pool that has run
empty, `TopUpKeyPool` derives the same index anew, writes another key under it, and the two owners
erase or return one record for the other (section 6).

### Encryption and the wallet file

`WalletCryptProofs` proves, for every set of threads, keys, passphrases and every bound on master keys:

| Theorem | Says | Needs |
|---|---|---|
| `KeyStoreIsConsistent` | `Spec => []KeyStoreConsistent`: no plain keys beside encrypted ones, and unlocked the wallet can use every key | |
| `IssuedKeysAreStored` | `Spec => []IssuedKeysStored`: a key that was handed out has its record in wallet.dat | |
| `FileAlwaysLoads` | `Spec => []FileLoads`: after a crash at any step; `CDB::Rewrite` is not one | `"mkey" \notin MayFail` |
| `AckedPassphraseAlwaysOpens` | `Spec => []AckedPassphraseOpens` | `"mkey" \notin MayFail` |
| `FileImplementsVault` | `Spec => VaultSpec`: the refinement of `WalletVault` | `"mkey" \notin MayFail` |

The argument.  `StoreInv` is what holds whichever writes fail: the type, the keys in memory
(`MemoryRight`), at most one thread between `EncryptKeys` and the end of `EncryptWallet`, and only
with `cs_wallet` held (`OneEncrypts`), and what the file and the open database transaction have in
common with memory (`FileRight`).  `FileLoads` alone is not inductive, because the commit makes a
transaction that was built over several steps the file at once: the invariant must say of `txn` in the
meantime what it says of the file afterwards.

`CryptInv` adds `MasterKept`: the encrypted keys' master key is under the same passphrase in memory,
in the file and in the transaction, and it is the acknowledged one.  This is where the hypothesis comes
in.  The code ignores the result of `WriteMasterKey` (section 6), so with failing writes of `mkey` the
three theorems are false, as TLC shows; every other write may fail.  The refinement maps the keys
of the vault to those recorded and its protection to the passphrase of the record the keys name; the
commit, the change of a passphrase and the writing of a key are steps of the vault, and everything
else, crashes included, stutters.

### Transactions

`WalletTxProofs` proves, for every set of transactions, whatever they spend and in whatever
order they are listed (`WalletAssumption`), and for any number of senders:

| Theorem | Says |
|---|---|
| `SpentIsNotOffered` | `Spec => []NoSpentCoinOffered`: a coin that an accepted transaction spends is not offered to a payment |
| `RecordsAlwaysAgree` | `Spec => []RecordsAgree`: types, `DiskCurrent` and `MetadataShared` |
| `SendsAreAccepted` | `Spec => CommitAccepted`, an action property: the pool takes a send that nothing came between |

The properties keep the conditions they are checked with: spends read from wallet.dat are left out
(`loaded`), a wallet in which a default `CWalletTx` took a transaction's place is (`shadowed`), and so is
a send since whose choice something was accepted (`stale`).  `RecordsAgree` has no condition on any of them.

The argument.  `WalletInv` has a part that always holds: the file has what the wallet has (`DiskRight`),
`mapTxSpends` names only spenders (`SpendsRight`), and owned spenders of one same single coin share
their metadata (`MetaRight`).  Until something is shadowed, `Clean` adds that every accepted transaction
that matters to the wallet is in it, that what is in it and was not loaded is in `mapTxSpends` under
each coin it spends, and that a record of a transaction in a block has its block; from these follows that
a spent coin is not available.  `Choosable` adds that what a sender chose is still acceptable.  The
loops of `AddToWallet`, `CommitTransaction` and `ReacceptWalletTransactions` are recursive functions over
a sequence: `LoopExists` and `LoopTurns` show once that such a function exists and takes its turns, and an
invariant of the turns holds at the end by `Induct`, the argument from a least counterexample.

### The flush of the wallet file

The end of `WalletCryptProofs` proves, of an instance `Flush` of `WalletFlush`, for every set of threads
and updates and every choice of those that count, as long as the mark for an absent entry is not a
number:

| Theorem | Says |
|---|---|
| `WalletFlushed` | `Flush!Spec => []Flush!FlushedSafely`: no handle loses its database, no counted update is forgotten, a backup is whole |

The argument.  `CountRight` says that `mapFileUseCount` is the number of open handles, `LockRight` that
`cs_db` is held while the database is closed or copied.  The increments of `nWalletDBUpdated` are a
load and a store without a lock, and the race loses some: what is inductive is not that the counter
counts but that a thread loads it while it has the database open, therefore after the last flush
began, so that whatever any thread stores is above `nLastFlushed` (`CounterRight`).

### Nodes

`NetNodesProofs` proves, for every set of opening threads, addresses and `CNode` objects (the sets of
nodes and of openers finite, so that they can be counted), and every number of slots:

| Theorem | Says |
|---|---|
| `RefCountsAreAccurate` | `Spec => []RefCountAccurate`: unless `ConnectNode` found it, the reference count of a node is the copies that hold it, and one for the connection |
| `NotDeletedInUse` | `Spec => []NotDeletedInUseUnlessRefound`: nobody holds a pointer to a deleted node, but one that `ConnectNode` found and a thread that is about to mark a one-shot |
| `LimitsAreKept` | `Spec => []WithinLimits`: the outbound limit for connections with a grant, the inbound limit, no slot lost or made up |

The argument.  That no deleted node is in use needs the count (`RefsRight`), and the count needs to know
who can have a reference of which kind: a pointer is never to an object not made yet, the socket
handler's copy is empty outside its service phase (`PointersRight`), and an opener's node is its own, not
inbound and not deleted, unless it was found (`OpenersRight`).  That outbound connections keep the limit
needs that slots are neither lost nor made up between the semaphore, the openers and the nodes
(`SlotsRight`), although a slot may stay with a deleted node (`netnodes_slot`).

### Queues

`NetQueueProofs` proves, for every size of header, of requests and of replies, every limit of messages,
send and receive buffers and every bound on requests, and whatever part of the stream each send and
receive moves (`QueueAssumption`, which also says that there are two peers):

| Theorem | Says | Needs |
|---|---|---|
| `SendQueueIsAccurate` | `Spec => []SendQueueAccurate`: `nSendSize` is the size of what is queued, `nSendOffset` is within the first message | |
| `ReceiveBufferIsBounded` | `Spec => []ReceiveBounded`: the receive limit, or one message, what one more call brings, and what came after errors (`unasked`) | |
| `MessagesStayInOrder` | `Spec => []InOrder`: what a peer has processed, has received and is still to receive is, unit for unit, what the other queued; no connection is given up | `RequestSize <= MaxSize`, `ReplySize <= MaxSize` |

The argument.  `QueueInv` says of each sender that its counters are right and that its socket's buffer
is within bounds (`Sender`), of each receiver that its buffer is (`Bounded`), and of a connection that is
up, in each direction (`Link`): what is processed is the beginning of what was queued, the messages in
`vRecvMsg` frame the beginning of the rest, all complete but the last, and what is on its way (the wire,
then the send queue from `nSendOffset` on) is the remainder.  `InOrder` alone, an equation between two
sequences of units, is not inductive: it does not say where in the stream a message begins, and a header
read from the middle of one would make `ReceiveMsgBytes` cut differently ever after.  The receiver's bound
needs the link too, since a buffer whose last message is as large as its header says is only as
large as a message that was queued.  A message above `MAX_SIZE` makes the reader close the connection,
which is why the order needs the sizes, and why the link is claimed of a connection that is up.

`SocketSendData` ends with the most messages that fit in what was sent (`MaxOfDone`).  The loops of
`ReceiveMsgBytes` and `GetTotalRecvSize` are recursive functions: `LoopExists` and `LoopTurns` say of
the first, `TotalIs` of the second, that such a function exists and takes its turns.  `AbsorbDoes` says
what a turn of `ReceiveMsgBytes` does to the framing (a header read, data read, or both waiting for
more), and `ReceiveDoes` what all turns together do. The first 500 lines are about sequences of units:
`Stream`, which flattens the messages, is additive (`StreamConcat`), and a beginning of it can be split
off (`StreamSplit`, `StreamFirst`).

### Addresses

`AddrManProofs` proves, for every set of hosts and ports, every finite set of new buckets, every
assignment and size of buckets and every bound on ids (`BucketAssumption`):

| Theorem | Says |
|---|---|
| `TablesAlwaysAgree` | `Spec => []TablesAgree`: `mapInfo`, `mapAddr`, `vRandom`, `nTried`, `nNew` and the buckets agree as `Check_` demands, and no bucket is above its size |
| `TriedIsNeverDeleted` | `Spec => TriedNotDeleted`: a call loses at most one address, and none that is tried |
| `LoadKeepsAddresses` | `Spec => ReloadKeeps`: writing and reading the tables keeps addresses, their tried status and their new buckets |

The argument.  Inside `Add_` and `Good_` the tables do not agree: an entry is in no bucket, or its count
is ahead of its buckets.  So `AddrRight` is a part that holds at every line (`Sound`) and, of each
entry, that its reference count is the number of its buckets (`Counted`); each of the building blocks
(`Create`, `SwapRandom`, `Delete`, `ShrinkNew`, `MakeTried`) has a lemma that says for which entry the
second part fails before and after it, and the lemma of a public member puts them together.

### The parts beside the connections

`NetworkProofs` proves, of `NetParts` and for every set of peers, things, hosts, visitors, alerts and
names of temporary files, and every limit and time (`NetworkAssumption`: numbers are natural, the
container of requests may hold two things and a set of known things one, a temporary name is not
`peers.dat`, and the order of hosts is a sequence of all of them):

| Theorem | Says |
|---|---|
| `InventoryIsKept` | `PartsSpec => []InventoryKept`: requests for a thing are spaced by the retry time, the halves of `limitedmap` and `mruset` agree and keep their limits, whatever is relayed has an entry that expires it |
| `StoredIsSound` | `PartsSpec => []StoredSound`: no start loads a torn snapshot, `peers.dat` is whole unless a flush of it failed; alerts as in `KeptAlertsStand` and `ShownAlertsKept` |
| `LocalIsTheBest` | `PartsSpec => []LocalIsBest`: the address a peer is told is one that no other beats, and within the limit |
| `NothingIsWeakened` | `PartsSpec => NothingWeakened`, an action property: no ban is shortened, no local address loses score |
| `KeptAlertsStand` | `Al!Spec => []Al!NoneCancelled`: no alert that is kept cancels another, unless it expired, or came back into effect, during a call that kept it |
| `ShownAlertsKept` | `Al!Spec => []Al!ShownKept`: the interface shows only what is kept |

`PartsSpec` is what `MCNetwork`'s `Spec` says of these parts: its other parts change none of
`partsVars`, so that a behaviour of `MCNetwork` is one of `PartsSpec`, and the properties are those the
run `network` checks.  Since `part` never changes, the invariant of each part is claimed of the
behaviours of that part (`ThingsInv`, `HostInv`, `StoredInv`), and the steps of the others keep it.

The arguments.  *Inventory* (`AskInv`, `RelayInv`): `RequestsSpaced` is not inductive, as it does not say
that the time `mapAlreadyAskedFor` has for a thing is the last at which it was asked for; nor that a thing
that was asked for is still in the map, without which the next request would start from the present time.
`Counted` gives the size both halves of the map have and that `rmap` is sorted.  The expired entries are
a beginning of `vRelayExpiration`, since what is relayed later expires later or at the same time, so the
messages that lose an entry keep a later one or are gone.  A `mruset` takes one thing after another
(`SetInsertAll`), by induction on how many.  *LocalHost* (`LocalInv`): the pass of `GetLocal` over
`mapLocalHost` is a fold, and what it holds after each host is one that no host so far is better than.
`HostInv` needs only that bans and scores are numbers for `NothingWeakened`.  *PeersFile* (`FileInv`):
the file that is being written is the beginning of the image of one snapshot (`WriterRight`), every
file is made of parts of one image with zeros for what a crash lost (`Piece`), and the checksum tells
which are whole; unless a flush failed, what is durable of `peers.dat` is all of it, since it only
ever comes there by a rename.  *Alerts*
(`AlertInv`): `NoneCancelled` depends on the adjusted time, which may go back and put an expired alert
into effect again; the inductive form forgets the time and says that no kept alert that is not `lapsed`
names another.  It holds because `ProcessAlert` drops what has expired before it looks for what cancels
the alert that came, so that only an alert whose two readings differed may be let past.

### What is only model-checked

- Liveness (`LockedAgain`, delivery in `netqueue`, `AddedTried`, `InterruptedStops`, the end of inbound
  nodes) and whatever needs ENABLED is out of the prover's reach.
- What the parts `accounts`, `coins` and `table` of `wallet` check (`BooksAgree`, `TableMirrors`), the
  choice of connections, addresses and proxies of `network` (`ConnectionsChosen`, `ReachedSafely`), and
  the run `consensus`.
- `Scripts` has RECURSIVE operators and `UInt256` uses Bitwise, so theorems about these two are not
  possible.
- The library's induction theorems take an operator as a parameter, which the provers cannot instantiate.
  Where a proof needs induction over data it goes by a least counterexample (`MinExists` and
  `Induct` of `IntervalFacts`); the other folds of the community modules are left to TLC.

## 6. Behaviour met on the way

The four violations are findings in `PROJECT.json`: an outbound slot that is never returned, two peers
that wait for each other, coins spent before a restart that count as unspent after it, and a coinbase
with the height of an older block.  Met while modelling, and kept out of the properties by conditions
that name them:

In the wallet:

- An index that a `CReserveKey` still holds is written again by a refill of an empty pool, and a key
  may be used twice (`overwritten`).
- `ChangeWalletPassphrase`, called by RPC, asks whether the wallet is locked before it takes `cs_wallet`;
  when the timer locks it in between, the change leaves it unlocked with no timer.  `LockedAgain` is
  about runs without such a change.
- `TopUpKeyPool` throws when a key or its pool record is not written, before `walletpassphrase` sets
  its timer, and `NewKeyPool` throws out of `EncryptWallet` before its second `Lock()`: the wallet stays
  unlocked with no timer (or with the one of an earlier call).  `LockedAgain` asks that every key that
  was made is saved (`AllSaved`).
- `WriteMasterKey`'s result is ignored at `wallet.cpp:267` and `wallet.cpp:475`: set
  `MayFail = {"key", "mkey"}` to see `AckedPassphraseOpens` and `FileLoads` fail.
- `EncryptWallet` replaces the pool with `NewKeyPool` while a `CReserveKey` may hold an index of
  the old one; the old key, generated before the encryption, then returns to the new pool
  (`overwritten`).
- `SyncMetaData` goes coin by coin: a transaction that spends two coins, each also spent by another
  one, ends with the metadata of the last, and the first range is uneven (`MetadataShared` speaks of
  transactions of a single coin).  The copies it makes are not written to disk (`DiskCurrent` leaves
  metadata out).
- `EraseFromWallet` leaves `mapTxSpends`; a later conflict makes `operator[]` insert a default
  `CWalletTx` under the erased hash, which stands in the way of the real one and fails the assertion
  of `ReacceptWalletTransactions` (`shadowed`).
- `ReacceptWalletTransactions` offers transactions in the order of their hashes, so a child may be
  refused for want of its parent and is not offered again.
- The debit a transaction caches before its parent is known stays as it is when the parent comes;
  `BooksAgree` asks for right caches of transactions whose parents were there.
- Positions start at -1 after a load, so moves and transactions of two runs may share one.
- `importprivkey` names the address before `AddKey` may fail, and a label set in the interface asks
  nothing of the account whose current address it was (`relabelled`).
- `ListReceived` takes "watch-only" from the last address of an account alone.
- `vfSpent`, which `getbalance` by accounts still reads, is set by `CommitTransaction` only, not by
  spends that come from the network.
- `WriteAccount`, `WriteAccountingEntry` and `WriteMinVersion` do not count in `nWalletDBUpdated`, so
  what they write may stay in the log until something else is flushed (`CountedRecords`).
- `AddToWallet` and `EraseFromWallet` never put a hash in `vWalletUpdated`, and nobody subscribes to
  `NotifyTransactionChanged`: new transactions show after a restart only, rows that are shown keep
  their first decomposition, and after a reorganisation back to the same height the confirmations of a
  row are stale.  `TableMirrors` speaks of what was notified (`told`, `undone`).
- A row shows the debit its transaction has cached, which is not dropped when a transaction it spends
  comes or is erased: the amounts are then those of before (`moved`).

In the network:

- `ConnectNode` adds its reference to a node `FindNode` found after `cs_vNodes` was released, so two
  openers may use a deleted node, and leaves a reference that nothing releases (`refound`).
- `OpenNetworkConnection` marks a one-shot (`net.cpp:1408`) after `fNetworkNode` is set, when the node
  may already be disconnected and deleted (`MarksOneShot`).
- The calls of `-connect` pass no grant, so their connections are not limited by `semOutbound`
  (`direct`).
- An error of `select()` marks every socket readable, and a socket in the error set is read, too,
  whether or not the receive buffer is full: `-maxreceivebuffer` bounds what comes otherwise (`unasked`).
- An alert that expires between two comparisons of one `ProcessAlert` may be kept beside one that it
  cancels or that cancels it, and both are in effect when the adjusted time goes back (`lapsed`).
- `ConnectSocketDirectly` returns without closing the socket when it cannot be made non-blocking
  (`netbase.cpp:421`); it stays open with no owner ("lost").
- A one-shot that finds no free slot is dropped (`settled`).
- `limitedmap::insert` evicts when the size equals the limit after inserting, and keeps one entry
  fewer than its limit; with a limit of 1 it dereferences the first element of an empty map.
- `SelectTried` returns the position at which the least recently tried entry stood before it was
  swapped to the front of the sample, so another entry is evicted (`addrman.cpp:141-149`).
- `FileCommit` reports no failure, so a snapshot whose flush failed replaces the old file (`torn`); the
  checksum keeps it from being loaded.
- `ConnectSocketByName` does not tell its caller that the proxy failed when the name is a number; when
  a name proxy is set between the copy and the question whether there is one, it connects to the
  copy, which is not valid, and fails.
- `GetGroup` gives a local address the class 255 and then that of the unroutable ones.

In mining and scripts:

- `SIGHASH_SINGLE` with an input that has no output of its number signs the number 1, whatever the
  transaction (`SignsItsPart` says so).
- `CreateNewBlock` pops the orphan of a transaction whose later input is nowhere, and keeps the pointer
  to it in `mapDependers`; `NoDanglingRead` says that such transactions are the only ones it is read for.
- `CreateNewBlock` builds the coinbase in `txNew` and pushes `CTransaction()` in its place
  (`miner.cpp:106-114`).  Taken as it stands, the value, the script and later the extra nonce
  are written to elements of empty vectors, so that a call faults or leaves a block without a coinbase that
  pays anybody, which `ConnectBlock` may refuse; the exception that follows is not caught by the miner
  thread.  `BlockAssembled` speaks of what follows the coinbase, `OneKeyOneBlock` of the key a template
  is made for, and `HeightInCoinbase` of the height that `IncrementExtraNonce` writes.
- From an empty pool every miner thread gets `vchDefaultKey`, so that several blocks are made for it
  (`OneKeyOneBlock` leaves it out).
- A miner thread that has found a block comes back to the making of the next template without an
  interruption point, as long as there are nodes.

`AvailableCoins` is the 0.10 function and `SelectCoins` the 0.5 one; the call that should hand the
first's result to the second is missing from `CreateTransaction`.  `WalletTx` lets a send choose
among the available coins, which is what both vintages do.  `CWalletTx::IsTrusted`, which
`AvailableCoins` calls, is not in the tree; the model takes it wider than `IsConfirmed`, its
predecessor in `wallet.h`, so that it offers no coin less.

`SelectCoins`, `EvalScript` and the listings of accounts have fragments that do not compile (a missing
declaration, a body that stops): where what is meant is plain from the rest of the function it is
read so, and where only a fragment is there (the small constants, the numeric instructions, `PICK`,
`ROLL`, `DEPTH`, `SIZE`, `WITHIN`, `CHECKMULTISIG`) it is left out.

## 7. Not modelled

`PROJECT.json` gives the reason for each component.  In short: serialization, text forms and keys are
pure conversions and cryptography; RPC queries about the chain read the state of `main.cpp`, which is
not in the repository; LevelDB's batches are atomic by contract and the caches above them are not in
the tree; `checkpoints.cpp` is missing; windows, dialogs and views keep nothing of their own.

Inside the modelled components:

- *Wallet*: a crash within `CDB::Rewrite`, which is not in the repository; `nTimeSmart` and with it
  dates in the list of the interface; the derivation of keys and AES, which are symbolic; watch-only
  keys and scripts; failed disk writes of transactions.
- *Network*: `IsTerrible` and `GetChance`, which read times only; `Select_`, whose loops over empty
  buckets end with probability one; `StopNode` and the interruption of a thread that waits for a proxy;
  statistics and byte totals; what is written beyond the buffer when a proxy's reply announces a name
  of 128 bytes or more, whose size `netbase.cpp:379` reads as negative (`Overlong` is the reading that
  goes on until the proxy stops); resolution of names.
- *Consensus*: the hash meter, the bytes of `FormatHashBuffers`, the rule for blocks before a date in
  2013; the status bits and disk form of an index entry; the limit on the size of a whole script;
  hashes and the verification of signatures, which are external; what a write to the missing elements of
  the coinbase does other than fault or leave the model's state alone; blocks lost when the process ends.

## 8. Plan

The components that keep state are modelled.  What is left:

1. Proofs.  `Chain` (`ChainIsBranch`), `Miner` (`OneKeyOneBlock`) and `Connecting`.
2. A composition of `KeyPool` and `WalletCrypt` around `EncryptWallet`'s new pool, with the keys of
   the pool as the keys of the vault; one of `CoinSelect` and `WalletTx`, in which what is chosen is
   what is committed.
3. Abstract specifications: a connection as two reliable queues of messages, which `NetQueue` should
   implement; a pool of slots, for `NetNodes`; the set of known addresses, for `AddrMan`.
