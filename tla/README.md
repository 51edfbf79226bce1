# Verification of hegota-kohaku-cli

TLA+ models of the `kohaku-hegota` command-line wallet, the TLC runs that check
them on small instances, and TLAPS proofs of what matters most.  Line numbers
refer to `src/src/*.rs` unless another path is given.

## The system

`kohaku-hegota` is a one-shot program: every invocation loads a wallet file,
talks to an RPC node, perhaps signs and sends frame transactions, and exits.
There is no daemon and no lock; concurrency comes from several invocations, from
the chain that moves between any two RPC calls, and from invocations that end
early (a refused confirmation, an RPC error, a time-out, Ctrl-C, a crash).

| component | code | state | operations | what makes it correct |
|---|---|---|---|---|
| private note lifecycle | `flow.rs` shield, unshield, sync_notes, rescan_notes, next_fresh; `main.rs` open, import | `Secrets.next_note`, `Secrets.notes` (pending or confirmed) in `wallet.json`, a copy in each process | shield, unshield with merges, balances, rescan, next, import | a note that may hold money is never forgotten; an index is used once; confirmed means landed; a rescan agrees with the chain |
| shielded pool and chain | outside of the repository; called from `flow.rs` | commitments, nullifiers, epoch, mempool | mine, drop, roll the epoch, reorg | environment |
| shared event cache | `sync_cache.rs`; `flow.rs` seed_event_cache, hydrate_local_cache, spent_nullifiers | `pool-sync-<network>.bin`: header (`through`, `records_len`) and records; a `.bin.part` | open, extend, install_download, sync, hydrate, spent_nullifiers | what opens is what the chain logged, no gap, no replaced block; what is served is what the chain holds; it only grows; it always opens |
| note recovery | `notescan.rs` | none (pure) | recover_notes, walk_calldata, RLP reader | every note that can be derived from the mnemonic is found |
| account indexes | `accounts.rs`; `flow.rs` next_fresh, pick_from, pick_to | `next_public`, `public_indexes`, `smart_indexes` | predict, load, next free, scans at import | an index given out is not given out again; imports find what was used |
| send pipeline | `flow.rs` transfer, transact_raw, claim, commit_calls, plan_txs, send_and_wait; `txbuild.rs` | none kept | estimate, confirm, plan, sign, send, wait | nothing is sent that was not agreed to; calls run once and in order, or none does; what is sent can be paid; a success is one |
| epoch root publication | `flow.rs` 1062-1180 | none kept | publish_root, publish_for, published_slot | a publication that is reported is confirmed and still in the recent-root window |
| wallet file | `wallet.rs` | `wallet.json`, `.wallet.json.tmp` | create_wallet, load, save | a save is all or nothing |
| network profile, RPC, Tor; display; doctor | `chain.rs`, `ui.rs`, `doctor.rs` | none kept | I/O | not modelled |

Components interact through files (`wallet.json` is read once by `open` and
written as a whole by `save`; the cache is shared by all wallets of the data
directory), through calls (unshield and rescan begin with sync_notes, which
drives the caching syncer and then spent_nullifiers) and through the chain (a
transaction sent by one command is seen by a later one).  PROJECT.json lists
the hazards of each part with their lines.

## Modules

| module | what it is |
|---|---|
| `PoolTransactions` | outputs, inputs and nullifiers of a set of pool transactions |
| `ShieldedPool` | the environment of the notes: mempool, mined transactions, epoch, reorgs |
| `NoteRecovery` | what `recover_notes` may return, as operators: which notes, and which of them as spent |
| `NoteWallet` | the commands over `wallet.json`, one action per RPC call, save or send; EXTENDS ShieldedPool and NoteRecovery |
| `NoteCustody` | the abstract promise: notes known, indexes used, notes in flight, notes held on chain |
| `NoteWalletInv` | the inductive invariants of NoteWallet, in named parts |
| `NoteWalletProofs` | lemmas on its operators, `TypeCorrect`; rescans, syncs and the index counter with overlap or reorgs |
| `NoteSafetyProofs` | one lemma per action, `Inductive`, `NotesAreSafe`; NoteWallet implements NoteCustody |
| `NoteScan` | `recover_notes`, probe by probe and settle by settle, over the histories a wallet can make; EXTENDS NoteRecovery |
| `NoteScanProofs` | a recovery is sound, ends within its passes, is complete, and ends with a result of `NoteRecovery` |
| `WalletStore` | the abstract wallet file: one cell that a save replaces |
| `WalletFile` | `wallet.json` and its temporary file as system calls, with crashes and loss of power |
| `WalletFileProofs` | a save is atomic and durable; WalletFile implements WalletStore |
| `SyncCache` | the cache file, its part file and the processes that use them; the chain of events underneath |
| `SyncCacheProofs` | the cache is true, for any number of processes |
| `SyncCacheAloneProofs` | the cache opens and only grows, for commands that do not overlap |
| `AccountIndexes` | the public and smart-account indexes the wallet gives out, shows and finds again |
| `AccountIndexesProofs` | accounts that were chosen are shown, fresh indexes are new, an import finds what was used |
| `SendCalls` | how the calls of a command get onto the chain |
| `SendCallsProofs` | calls run in order and once, nothing unasked is sent, what is sent can be paid, a success is one |
| `MCNoteWallet`, `MCNoteScan`, `MCWalletFile`, `MCSyncCache`, `MCAccountIndexes`, `MCSendCalls` | constants for TLC |

How they fit together: NoteWallet and AccountIndexes write `wallet.json` in one
step.  That step is `Put` of WalletStore, and WalletFile, with its system calls,
is shown to implement WalletStore.  NoteRecovery says what a rescan may find, with
the limits of the search, and NoteWallet takes it as one step; NoteScan says how it
is found, and `ResultIsPromised`, checked and proved, states that what it ends with is
one of the results of NoteRecovery.
NoteWallet has the sends of shield and unshield, SendCalls those of the other
commands.  SyncCache feeds the sync of NoteWallet: what its `SyncTree` and
`SyncSpent` take from the chain at once is what `SyncMatchesChain` and
`SpentMatchesChain` say of the cache.

An operator whose comment begins with "A faulty" or "Faulty" is not part of any
specification: it is a plausible mistake in an action next to it, and is there so
that the properties can be tried against it.

### NoteWallet

`disk` is the note part of `Secrets`.  `run[p]` is one invocation: `pc`, the
command, its copy `mem`, and what it has read so far.  A step is what the code
does between two points at which the world can change:

| action | code |
|---|---|
| `Start` | `main.rs` open: `wallet::load`, once |
| `ShieldEpoch`, `ShieldSign`, `Broadcast`, `ShieldReceipt` | shield 430-497: epoch read, confirmation, sign and save, send, receipt |
| `SyncTree`, `SyncEpoch`, `SyncSpent`, `SyncSave` | sync_notes 1294-1347 and spent_nullifiers |
| `UnshieldPlan`, `BuildSpend`, `Broadcast`, `SpendReceipt` | unshield 499-767; `BuildSpend` is one turn of the merge loop or the final spend |
| `RescanLogs`, `RescanBurns`, `RescanApply` | rescan_notes 882-1023, recover_notes as `Recoveries` |
| `NextFresh`, `Import` | next_fresh; create-wallet with an imported mnemonic |
| `Fail` | every `?`, a refused confirmation, a time-out, a crash: the copy is gone, what was saved stays |

Abstractions.  A note is its index and its value; its secrets are a
function of mnemonic and index, as in the code.  Fees and note selection are not
computed: an unshield may choose any one or two of its live notes and any change
that is less than what it spends (a fee is always paid), which includes the choices
the code makes.
`SavedNote.index` is always present (older files without it are left out).
`allocate_note` never reaches the end of `u32`.  A save is one atomic step, which
WalletFile justifies.  A failed `currentEpoch()` gives 0 in sync_notes and
rescan_notes, as `unwrap_or(0)` does; in a rescan the leaves of others may still show
a later epoch, so any epoch up to the true one may be what is known.
A transaction whose proof the pool would reject is one
that is never mined.  A settle without change leaves a leaf only if it publishes a
root, so the logs of a rescan may lack it (`RescanLogs`).  The shift of leaf
positions by a reorg is left out.

### NoteRecovery

A recovery is a set `P` of the readable transactions `R`: those it made use of.
The notes found are `Outs(P)`.

| operator | code |
|---|---|
| `Reached` | scan_shields 205-239: an index is tried unless `Gap` misses in a row come before it, or it is above `Cap` (INDEX_GAP 32, SCAN_CAP 512) |
| `ShieldsUsed` | a shield whose index is tried is found |
| `SettlesUsed` | apply_settles 262-320: a settle of found notes is replayed, unless its change is above the cap or has an index that is taken |
| `HalfCovers` | 296-302: a settle of which one input is worth exactly what was paid may count as done with that input alone and without change |
| `Sound` | nothing is used whose inputs were not found; an index goes to one note |
| `Seen`, `Burnt` | `flow.rs` 925-935, burned 353-358: nullifiers are looked up to the epoch that was read, or that of the latest leaf in the logs |
| `SpentSets` | inputs of replayed settles, burned notes, and perhaps inputs of half covered settles |

Which of two results comes out when two notes share an index depends on the order of
the logs, and so does a half covered settle; `Recoveries` and `SpentSets` have all of
them.

### NoteScan

`Shield`, `Settle`, `Skip` and `RollEpoch` make a history, the others recover from it.

| action | code |
|---|---|
| `Shield`, `Settle`, `Skip` | the transactions that shield and unshield leave on chain: a note at the next index; one or two inputs and perhaps a change note, a proof that names an epoch, perhaps no leaf; an index taken by a transaction that never landed |
| `Read` | rescan_notes and actions_for_tx, `flow.rs` 882-1052: a transaction that left no leaf is not in the logs, one that cannot be fetched counts as one without calls, and a failed `currentEpoch()` as epoch 0 |
| `Probe` | scan_shields 205-239 and match_shield: one index; owned, found in a shield, or one more miss; `Gap` is INDEX_GAP, `Cap` is SCAN_CAP |
| `Apply` | apply_settles 262-320 and locate_change: one settle, in chain order |
| `EndPass` | recover_notes 166-186: again, unless nothing was found or after 64 passes |
| `Burn` | 187-203, burned 353-358: a note is also spent if the pool has a nullifier of it for an epoch that is looked at |

Abstractions.  A commitment is the pair of index and value: what is derived from
the mnemonic at an index matches on chain exactly if both agree.  There are no
transactions of others, since those match no derived commitment.  Reading frames,
RLP and calldata is left out.  `Passes` is 64 in the
code; `ScanAssumption` asks for `Cap \div Gap + 2`, which is 18 for 512 and 32.

`EveryNoteFound` is about the notes that can be derived at all (`Derivable`) if no
`Gap` indexes without a note come in a row before one (`Dense`), and if no settle
of two notes paid exactly what one of them is worth (`HalfCovers`): without the
last condition it does not hold, which is what `scan_values` shows.

`SpentIsKnown` is about what the code can know.  If `currentEpoch()` failed and no
leaf landed with or after the settle of a note, the nullifier of that settle is not
looked up; the note is then reported as unspent although it is spent (known limits).

### WalletFile

A file is an inode; `names` says which one `wallet.json` and
`.wallet.json.tmp` name, `bytes` what a read returns, and `entries` and
`platter` what a loss of power may leave of the directory and of each file.

| action | code in `wallet.rs` |
|---|---|
| `Create`, `Load` | create_wallet 106-150, load 152-165 |
| `OpenTmp`, `WritePart`, `WriteRest`, `SyncFile`, `Rename`, `SyncDir` | save 167-206, one system call each |
| `Fail` | an error of any of these calls, Ctrl-C, a crash of the process |
| `PowerLoss` | the machine stops: each file and the directory is one of what may have reached the disk |

Abstractions.  The secrets are a mnemonic and a count of saves.  `Garbled` is
whatever load cannot parse or decrypt; encryption and its key are not
modelled.  set_permissions and rename are one step, because only the second
changes what a load sees; file modes are left out.  A load reads at once.  The
wallet's directory itself exists on disk.  When the directory cannot be opened
for its sync the save succeeds all the same, as in the code.

### SyncCache

A file has a header (`through`, and `recs`, the records its length counts) and a
`body`.  Files are numbered like inodes and `path` and `part` name two of them,
so that a rename leaves other processes with the old file.  Records are sets:
every writer appends the records of consecutive blocks in one order, hence a
prefix is a subset; records that the header counts and the body lacks stand for
a file that is too short or has a hole.  `open` is three steps (look, create or
trim), because the file may change between the length that was read and the
`set_len`; `extend` is two (records, then header), and a crash may come between.
Both writes are atomic, and so is one RPC fetch.  `fs::write` of a download is
two steps (truncate, fill), and the endpoint may serve a file that is cut short.

A process runs `sync` (seed, latest block, sync, spent_nullifiers) or `hydrate`.
The chain grows by blocks with any events, and any of its last `Margin` blocks
may be replaced (`REORG_MARGIN` is 32 in the code, 1 in the runs: only the
comparison with it matters).  `sync` may be asked for any range, because the
indexer resumes where its own store ends.

### AccountIndexes

`file` is the index part of `Secrets`; `run` the one command at work.

| action | code |
|---|---|
| `NextFresh` | next_fresh 287-307: no RPC call between load and save |
| `PickFresh`, `PayNamed` | pick_to 1558-1611: a fresh address is stored before the confirmation, a named one is not stored |
| `UnshieldNext`, `TailNext`, `TailNamed`, `Confirm` | unshield 553-640: chosen, confirmed, stored |
| `Probe` | one turn of next_free_smart (`accounts.rs` 300-342) |
| `Send` | send_and_wait; what happens to the payment is `Land` or `Drop`, at any later time |
| `Import`, `ScanPublic`, `ScanSmart` | scan_imported (`accounts.rs` 464-573), one batch per step |
| `Receive` | anyone pays an address the wallet has shown |

`Loaded` states which indexes the loop of load_smart ends up with.  `handed` are the accounts, public or
smart, that were handed out as fresh, `own` those a command paid with `--next` or a
tail; both are histories.  An account
is its index: CREATE2 prediction, its strict mode and balances in numbers are
left out, and so is a network without a factory.  Commands do not overlap here;
what overlapping does to a saved copy is shown by `notes_overlap`.  `SCAN_LIMIT`
(1000) and the end of the 10000 probes are not reached.

### SendCalls

`log` has one entry per command: its job, the balance it last read, what the
user agreed to, and what it reported.  `queue` is what is still to be sent, and
`ran` how often each call took effect on the chain.

| action | code in `flow.rs` |
|---|---|
| `Transfer`, `TransactRaw`, `Claim`, `PublishEpochRoot` | the commands up to the balance they read |
| `Cost` | call_cost, pick_value, ensure_can_pay |
| `Ask`, `AskSplit` | want_broadcast; the second question of commit_calls when the batch is rejected |
| `RefreshBalance` | publish_root, after its prompt |
| `Plan`, `Simulate` | plan_txs, tx_count, the simulation of an EOA batch, eoa_sequence; the frames are those of `txbuild.rs` |
| `Send`, `SendUnanswered`, `Receipt`, `GiveUp` | send_and_wait, receipt_all_ok, the 360 seconds of wait_receipt |
| `Confirm` | publish_for: two blocks, the window of the root; 180 seconds |
| `Fail` | every `?`: requests, ensure_rpc_matches_network, the gate of the node, an undeployed account, Ctrl-C |
| `Include`, `Drop`, `Elsewhere`, `NewBlock` | the chain: inclusion with any set of reverting calls, a forgotten transaction, the same key used in another wallet |

Abstractions.  Amounts and fees are small numbers, and sums are taken modulo
`Mod` as U256 addition wraps.  A call has one fee, a transaction adds that of its
VERIFY frame, and the maximal cost is what is charged.  The transaction count
that the node answers may or may not include its mempool.  Blocks are counted
only while a publication waits for them.  One command runs at a time; those
before it may still have transactions in the mempool.  A script agrees to
everything by `--broadcast`, also to the split: that is what want_broadcast does
(`README.md:46` and `CHANGELOG.md:13` say "no silent split-resend", which a
reader may take for more than that).  The cost estimate signs a transaction
locally before the prompt; it is never sent, and so it is not in the model.

`SentIsAffordable` is about commands whose values and fees together fit a U256.
The check before the send is made on the wrapped sum of the whole plan, so a plan
that does not fit may pass it (the hazard at `flow.rs` 1921).

## Runs

| run | question | bounds |
|---|---|---|
| `notes_core` | are notes, indexes and confirmations safe, is NoteCustody implemented, does a rescan agree with the chain, one command at a time | 4 notes of 2 amounts, 4 transactions: a shield, a second, a merge and a spend with change, with failures anywhere; gap 2, cap 3 |
| `notes_sync` | do pending notes get settled; do syncs drop what was spent | 2 notes, 3 transactions, 1 epoch change; no rescan is cut off (gap 1, cap 1) |
| `notes_recovery` | does a rescan agree with the chain after a reorg, an epoch change and an import; are indexes ever rewound | 2 notes, 2 transactions, 2 amounts, 1 of each; gap 1, cap 1 |
| `notes_overlap` | violation: two commands at once lose a note | 2 processes, 2 notes, 2 transactions |
| `note_scan` | is what a recovery finds real, complete and rightly marked as spent; do the passes suffice; is it a result of NoteRecovery | 3 transactions of value 1 or 2, gap 3, cap 4, 3 passes, 1 transaction that cannot be read, 1 epoch change |
| `scan_values` | violation: a change note is not found | 4 transactions, gap 2, cap 4 |
| `wallet_file` | does wallet.json load after any crash and loss of power, does a finished save last, is the cell implemented | 2 mnemonics, 3 files, 3 saves |
| `cache_alone` | one command at a time with crashes, a reorg, a download and a size cap hit inside a scan; does hydration catch up | 3 blocks, 2 events, margin 1, 3 records, 1 reorg, 1 download |
| `cache_shared` | are two processes on the same file, with downloads, ever given wrong events | 2 blocks, 1 kind of event, margin 1, 2 downloads, no reorg |
| `accounts` | are accounts that a command chose shown, are fresh indexes new, does an import find what was used | 3 indexes, batches of 2, lookahead 1, 2 payments, 1 import |
| `accounts_reuse` | violation: two unshields with --next and a tail take the same account | 3 indexes, 2 payments |
| `send_calls` | are calls run in order, once, only as agreed, within the balance; is a reported success one; does each command end | 9 jobs, 2 commands, a balance of 12, amounts below 16, 1 transaction from elsewhere |

The bounds allow each case once more than it needs: two notes are enough to
merge, three transactions for shield, shield, merge; four for a chain of settles
whose first input lies behind a gap; two blocks beyond the margin for a cache
that is extended twice; three transactions and five
indexes for a scan that ends in a gap before the last note, and, with gap 2 and four
notes in `notes_core`, for a rescan that does; three indexes and batches of two for a gap inside a batch
and one that fills it; two commands, so that a transaction of the first lands
during the second; three files, of which the directory can name two.  Processes
are symmetric in `cache_shared`, which checks no liveness.

`note_scan`, `scan_values` and `send_calls` do not check for deadlock: a recovery
is over when it is done, and a sequence of `MaxCommands` commands ends.

The three violations are disagreements between the code and what its comments
and documents say; PROJECT.json quotes both sides.  (1) Two commands at once may
drop a pending note from the file, until a rescan.  (2) `unshield --next
--tail-calls` takes the lowest smart account without code, also when it gave
that account out before.  (3) A settle of two notes of which only one is found in
a pass, and which paid exactly what that one is worth, counts as done without
change; its change note, and what was derived from it, is not recovered.

## Known limits

Six things that the models show and that the properties are worded around:

- After an import whose recovery failed, `next_note` is 0 (`main.rs` 392) and a
  shield takes an index that the mnemonic used before, where `wallet.rs` 57 has
  one index per note.  `OneIndexPerNote` and the invariants of the accounts are
  about a wallet that was not imported again.
- A pending entry that never landed hides a landed note with the same index from
  a rescan (`flow.rs` 993); such an entry can exist only after such an import, or
  after two commands that overlapped and took one index.
  `RescanMatchesChain` is about indexes without such an entry.
- A note behind 32 indexes without a note, or above 512, is not recovered, and
  neither is the change of a half covered settle.  `RescanMatchesChain` and
  `EveryNoteFound` have `Dense` and the absence of `HalfCovers` as conditions;
  NoteScan, NoteRecovery and NoteWallet have the cases.
- When `currentEpoch()` fails it counts as 0 (`flow.rs` 1312 and 929), and spent notes
  may then stay confirmed by a sync, or come back from a rescan whose logs do not show
  their settle.  `SyncedNotesAreUnspent` is about syncs that read the epoch;
  `SpentIsKnown` and `RescanMatchesChain` are about the nullifiers that were looked up.
- Two processes that open the event cache at once may leave it shorter than its
  header says (`sync_cache.rs` 159: the length is read before the file is cut),
  so that every open fails until the file is deleted, although the cache is
  "shared by every wallet".  It never gives wrong events: `CacheIsTrue` and
  `SpentIsComplete` are proved for any number of processes.
- Two saves at once share `.wallet.json.tmp` (`wallet.rs` 188).  With `Procs`
  two and `Overlap` TRUE, MCWalletFile violates `WalletLoads`: one process
  renames the file that the other is still writing.

The first two and the last two go away if commands on one data directory do not
overlap and a failed import is repeated.

## Fairness

`PendingIsSettled` assumes that a command that was started goes on or gives up
(`WF` of `Work`), that the user runs `balances` again and again, and that no RPC
call of its sync fails for ever (`SF` of `Start(p, "balances")` and of each step
of the sync, since failures may come in between).  `send_and_wait` has a
time-out, so no command waits for ever.

`CacheCatchesUp` assumes that a command at work goes on, that
`hydrate-local-cache` is run again and again (`SF` of its start, since the
other command may be started in between) and that from some moment on no command
is cut off.  Before that moment there may be any number of crashes.

`CommandEnds` assumes only that the program goes on (`WF` of `Wallet`) while it
does not wait at a prompt.  Of the chain nothing is assumed: what was sent may
never be included, no block may ever come.  The deadlines of 360 seconds
(wait_receipt) and 180 seconds (publish_for) are `GiveUp`; with the second one
left out the property fails.

## Proofs

Each proof is of the same form: an inductive invariant `IInv`, one lemma per
action that it is kept, and the properties from it.  The constants are arbitrary
within the named assumptions of each module.

`NoteWalletProofs`: `TypeCorrect`, with no assumption beyond the types of the
constants; overlapping commands, reorgs and imports are included.  Three more
theorems hold for overlapping commands or on a chain that is rolled back:

- `RescanAgrees`, for every gap and cap: the recovery is `Recoveries` of NoteRecovery,
  with its limits (that the loops keep to it is `RecoveryKeepsItsPromise`), so the theorem has the conditions of the property (`Dense`, no half
  covered settle, no index used twice).  The argument is about the note of least
  index that a recovery missed (`LeastIndex`).  A transaction spends only what the
  chain creates, and a change has a greater index than the notes it comes from
  (`Grounded`, `Rising`), because every copy of the secrets counts above its notes
  (`IndexesRise`).  So if the missed note comes from a settle, its inputs were found
  and the settle is replayed; if it comes from a shield, all notes before it were
  found and the scan reaches it.  Hence there is none (`AllIsRecovered`), whatever
  other commands write meanwhile.
- `SyncsDropSpent` (no reorg): the nullifiers are read after the tree, and the chain
  only grows (`ReadsGrow`).
- `IndexesGoForward` (no two commands at once): the copy of the running command is
  never behind the file (`CopyNotBehind`).

`NoteSafetyProofs` assumes `Alone`: no two commands at once, no reorg and no
second import, because without these `NoNoteLost` and `OneIndexPerNote` do not
hold (`notes_overlap`, the known limits, and a reorg makes a note unspent that a
sync dropped).  The safety properties are not inductive: `IInv` adds that at most
one command is under way (`Solo`), that mempool and chain come from what was sent
and ids tell transactions apart (`History`), that every note sent or saved has an
index of its own below `next_note` (`Indexing`), and for the running command that
its copy has the notes of the file (`Copied`), that what it read of the chain is
still so (`Informed`), that the transaction in its hands is new, spends landed
notes and creates saved ones (`InHand`), and that an unshield counts on the
confirmed notes (`Counting`).

`WalletKeepsCustody` is the refinement, under the same assumption: each action of
NoteWallet maps to a step of NoteCustody or to a stutter.  NoteCustody has the notes
that were put in flight as `launched`: each goes once, and a rescan that missed or
brought back notes is `Sift`, which may touch only notes that were launched and that
neither hold money nor are about to.  `IInv` is nearly enough for it: `CustodyInv`
adds that no transaction is mined and pending at once (`Apart`).  What a rescan drops
was found as spent (`SpentWasFound`), so it holds nothing; what it adds is an output
of the chain that the file does not have, which `NoteWallet` knows to be spent.

`NoteScanProofs` has no assumption but `ScanAssumption`; any transactions may be
unreadable.  Four theorems, each on the invariant of the one before:

- `RecoveryIsSound`: what was found is an output of the history, one note per
  index; what is marked is spent there, and what is spent is marked, unless the epoch
  could not be read and no leaf shows it.  The invariant adds that a probe begins with
  less than `Gap` misses (`GapOpen`), and that epochs follow the order of the blocks
  and no proof names a later one (`Timely`): a leaf with or after a settle therefore
  shows an epoch that is not below that of the settle's proof (`BurntIsKnown`).
- `PassesAreEnough`: a pass that finds something is followed by another, so 64 of
  them might cut a recovery off.  They never do.  A pass leaves no settle that could
  still be used (`SettledTo`), so a later pass that finds anything finds a shield
  first; that shield lies beyond all that was swept before, and the probe goes on
  for `Gap` indexes after it (`Reach`, `Swept`, `ProbeInv`, `SettleInv`).
  `Cap \div Gap + 2` passes therefore include one that finds nothing.  It needs
  what a history is: notes have indexes of their own, a note is spent once and after
  it was made (`ChainInv`), and amounts add up (`AmountsInv`).
- `RecoveryIsComplete`: the last pass found nothing, so the found notes are closed
  under the settles that can be read, and `Dense` puts every shield within the reach
  of the probe; a closed set that holds the shields is `Derivable` (`UsedInv`,
  `FullInv`).  `Dense` and the absence of `HalfCovers` are the conditions of the
  property; without the second one it is refuted by `scan_values`.
- `RecoveryKeepsItsPromise`: without these conditions, the result of the passes is one
  of `Recoveries` and `SpentSets`, so the single step that `NoteWallet` takes is what
  the loops may do, at every size.  The witness is the `Ledger`: the shields that were
  found, and the settles that were applied with all of their inputs.  Every found note
  is an output of it, and any other applied settle is half covered (`UseInv`,
  `PromiseInv`); a change has a greater index than the inputs, so the found note of
  least index that did not follow from the ledger would follow (`LedgerIsDerived`);
  the last, quiet pass leaves no shield that the probe reaches, and no settle of found
  notes, without a reason that `Recoveries` names (`EndPassEnds`).

`WalletFileProofs` assumes that commands do not overlap (`Alone`).  Crashes and
losses of power are included.  The invariant: whatever `wallet.json` may name
after a loss of power is whole and on the platter (`Whole`) and is never the
temporary file (`Apart`); the variables have their types (`TypeOK`, a part of the
invariant without a run of its own); the running command holds the temporary file alone, with
what it has written (`Holding`); what it saves continues what the file says
(`Heir`).  From it follow `SaveIsAtomicAndDurable`, and with one lemma per action
`FilesImplementCell`: a rename is the cell's `Put`, the sync of the directory its
`Settle`, every other call a stutter.  `MnemonicIsKept` is proved of the cell and
carried over.

`AccountIndexesProofs`: any number of indexes, any batch and lookahead.  The
type invariant says more than shapes: the public indexes in the file are below
`next_public`, and so are those of every copy (`Sound`), imports and failures
included.  The rest is about a wallet that was not imported again: the running command
works on the file as it is (`Copied`), what it has chosen and not stored is the
next index (`Chosen`), the account it is about to pay is stored if it chose it
(`Backed`), so is every account it has used (`OwnStored`), and every index handed
out is below the next one (`HandedBelow`).  `ImportsFindUsed` does without that
condition: any number of imports, each after any number of sends.  A scan stands
at the start of a batch and has found all it knew to be used below it (`ScanInv`);
a batch without a used account ends it, and what lies behind one is not
`Reachable` (`EmptyBatch`); the public indexes are done when it comes to the smart
accounts (`PublicDone`).

`SyncCacheProofs` has no assumption: any number of processes, overlapping or not,
with reorgs, crashes, downloads and cut files.  The invariant is that every header,
in any file or in any process, is settled: its records are what the chain logged
through its block, and that block is out of a reorg's reach.  The locals of a
process add what it holds in its hands: the part of a read that the cache serves
(`ReadPart`), records taken from the cache that the fetch continues (`FromCache`),
and a header that was cut off at the cap (`ExtendsWithinCap`).  The lemma `ExtendSettles` is the step of `extend`.
`CacheIsTrue`, `SyncsMatchChain`, `SpentIsComplete` and `ExtendKeepsCap` follow.

`SyncCacheAloneProofs` assumes that commands do not overlap, and adds (`AInv`) that
one command runs (`OneRuns`), that the file `path` names has the records its header
counts (`PathOpens`), that the running command holds this file with this header
(`HoldsFile`), and that a download replaces no more than an empty cache
(`NothingToLose`).
`CacheAlwaysOpens` and `CoverageOnlyGrows` follow; the first fails for two
processes, see the known limits.

`SendCallsProofs` has no assumption but the types of the constants: any commands,
with any number of calls.  The invariant says of what was sent that it carries all
calls of its command or one of them and was agreed to; that what waits in the
mempool is due, which is to say the calls before its own took effect and no other,
and that there is one such transaction for each command (`TxInv`); and of the
running command where its queue stands: all calls in one transaction or the last
calls one by one, none of them sent before, and the receipt of the head means that
the calls up to it took effect (`Going`).  The lemma `AllJoined` shows that the
flags of eoa_frames, and the one frame of account_frames, tie all calls of a
transaction together, so a transaction takes effect as a whole or not at all
(`IncludeHas`).  `SendsAreSafe` and `ReportsAreTrue` follow; for the second, no
other step than the last receipt and the end of the wait for confirmations reports
a success (`WalletReports`).

`SendsArePaidFor` is about money and needs sums over the calls of any command.
`FoldFunction` is recursive, so facts about it are proved by the smallest set that
would refute them (`SmallestSet`, from the well-foundedness of the numbers): the
fold exists and adds one element at a time (`FoldExists`, `SumsAgree`), and a sum
over a part is at most the sum over the whole (`SumOfPart`, `SumInto`).  The
invariant `PayInv` says that what was sent, and what is queued, is part of a plan
that was checked against the balance the command last read, and that no part of it
is sent twice (`SentPaid`).  `WrapsNot`: as long as the true sum fits a U256, the
wrapped sum of the check is the true one.

Only model-checked: liveness (`PendingIsSettled`, `CacheCatchesUp`,
`CommandEnds`), which is out of the prover's reach.  Every invariant, action
property and refinement that a passing run checks is stated by a theorem, some of
them for commands that do not overlap only, as said above.

## Not modelled

- published_slot and the arithmetic of the recent-root window (`flow.rs`
  1082-1121): it reads slots of the pool's ring buffer, whose contract is not in
  the repository.  A spend with a root that is too old is, in NoteWallet, a
  transaction that is never mined.
- The record codec of the cache, the RLP reader and the calldata decoding: they
  keep no state, and what they are given is a record or a call in the models.
- CREATE2 prediction, key derivation and the encryption of the wallet file: an
  account is its index, a note a function of mnemonic and index, and a file can be
  decrypted or not.
- Network profiles, RPC and Tor (`chain.rs`): configuration and I/O; each failure
  of a request is a `Fail` of the command.
- Display, command line parsing and doctor (`ui.rs`, `main.rs`, `doctor.rs`): they
  change no state apart from the dispatch that is modelled.
- The kohaku-rs crates (proofs, indexer, frame transactions): not in the
  repository; they appear as the code uses them.
