# A verification of the concurrent AVL tree and of the k-CAS beneath it

The repository is a benchmark of concurrent search structures. Its own subject is
the concurrent AVL tree `cpp/ds/sigouin_int_bst_kcas` and the multi-word
compare-and-swap it is written with, `cpp/common/kcas`; most of the rest are other
people's structures, kept for comparison, and the harness that drives them. This
directory models these two and the tree's unbalanced sibling
`cpp/ds/sigouin_int_bst_kcas_unbalanced`, and proves what the k-CAS rests on.

## The parts and how they interact

| part | source | module |
|---|---|---|
| k-CAS with reused descriptors (`KCASLockFree`) | `cpp/common/kcas/kcas_reuse_impl.h` | `KCAS`, `KCASHistory` |
| what it promises | (the same) | `AtomicKCAS` |
| k-CAS with a transactional fast path (`KCASHTM`) | `cpp/common/kcas/kcas_reuse_htm_impl.h` | `KCASHTM` |
| thread slots (`TIDGenerator`) | `cpp/common/kcas/kcas_reuse_impl.h` | `TIDGenerator` |
| encoded words (`casword`) | `cpp/common/kcas/casword.h` | `Val`, `isKcas`, `isRdcss` of `KCAS` |
| the AVL tree | `cpp/ds/sigouin_int_bst_kcas/internal_kcas.h` | `TreeWords`, `AVLTree` |
| the unbalanced tree | `cpp/ds/sigouin_int_bst_kcas_unbalanced/internal_kcas_unbalanced.h` | `TreeWords`, `UnbalancedTree` |
| what the trees promise | (the same) | `ConcurrentSet` |

A thread of the tree obtains a slot (`TIDGenerator`), reads words (`readPtr`,
`readVal`), collects a request (`start`, `add`) and submits it (`execute`).
`execute` and whoever meets the request's tag in a word run `help`; `help` locks each
word by an RDCSS, which others may meet and help in turn.

The two layers are checked apart and meet in two places. `KCAS` is shown to implement
`AtomicKCAS` for callers that compare every word together with a version that grows; the
trees are modelled over a k-CAS that is atomic in that sense, and `RequestsGuarded` asks
whether their requests are of that kind. The condition is the one `KCAS` has
(`FollowsDiscipline`): a node's `key` lies before its `vNumMark`, is locked before it and so has to
guard itself, which means that it never goes down; every other word is compared with the version
and changes only if the version grows. It holds in `bst` and in `avl`, but not on the
larger tree of `avl_successor`, where the AVL tree promotes a smaller key. So, as far as
the instances show, the two layers fit together for guarded operations of the unbalanced tree, and for
the AVL tree as long as that race does not happen. One more condition is on memory: a version that starts again from 0 is one that
went back, so a node must not be reused while a thread may read or help on its words.
`HeldNodesStay` shows that for operations that hold a guard; `contains` of the unbalanced tree
holds none.

## KCAS

State: `mem` is the caswords; `kdesc` and `rdesc` the descriptors, one of each kind
per thread; `pc`, `depth`, `frame`, `reg` the control points and locals, where
`frame[t][d]` belongs to the d-th nested `help` of thread `t`. `building` says that a
thread is between `start` and `execute`, when it may also read. One action is one
access to shared memory, together with the local computation around it:

| actions | code |
|---|---|
| `start`, `add`, `execute` | `start`, `addPtrAddr`/`addValAddr`, `kcasdesc_sort` and the publication in `execute` |
| `readPtr`, `rdcssRead` | `readPtr`/`readVal`, one round of `rdcssRead` |
| `rdcssCopy`, `rdcssCheck`, `rdcssReadState`, `rdcssHelp` | `DESC_SNAPSHOT` and `rdcssHelpOther`, `rdcssHelp` |
| `kcasCopy`, `kcasCheck`, `helpReadState` | `helpOther`, the head of `help` |
| `rdcssNew`, `rdcssInitialized`, `rdcss` | the loop of phase 1 |
| `decide`, `phase2`, `unlock` | `SEQBITS_CAS_FIELD`, phase 2 |

What is taken as one step although the code takes several:

- `DESC_SNAPSHOT` is a `memcpy` and then a comparison of sequence numbers. The copy is
  one step, the comparison another. A torn copy mixes two lives of the descriptor and
  fails the comparison, as a stale one does; within a published life the entries do
  not change.
- `start` increments the sequence number and clears the fields. Nobody uses the fields
  in between: a tag of the old number is refused, and no tag of the new number exists.
- `SEQBITS_CAS_FIELD` loops on a CAS of the word that holds number and state; the model
  takes the round that ends the loop.

Memory is sequentially consistent (the target is x86 and all shared writes but those
to the owner's descriptor are locked instructions). Sequence numbers do not wrap; the
code's wrap after 2^48.

`Disciplined` says whether callers keep to what the trees of this repository are
meant to keep to: a word is compared along with its version word (`Guard`) and changes only
if the version grows; a word that guards itself never goes down (`FollowsDiscipline`).

`KCASHistory` records when a request takes effect, and `Atomicity` says that what the
threads then see is the behaviour of `AtomicKCAS`: a request succeeds at the moment
its state becomes SUCCEEDED, fails at a moment between call and return when one of its
words differs, and a read returns what was there at some moment of the call.

`KCASHTM` adds the transaction of `kcas_reuse_htm_impl.h`: it commits if all words hold
their expected values (`xend`), aborts for that reason (`xabort`) or for no reason
(`aborted`), and after `MAX_RETRIES` goes the software path (`fallBack`). A transaction
also gives up on a word that holds a tag of RDCSS, although its value may be the
expected one; so its specification is `WeakAtomicity`, in which a request may fail
without a reason. The trees retry, so they do not notice.

## TIDGenerator

`begin`, `scan`, `take` are the constructor (the scan reads one slot at a time, the CAS
is separate), `destroy` the destructor, `explicitRelease` what `deinitThread` calls.
A thread that exits may come back as a new one. No more than `MaxLive` threads live at a
time.

## The trees

State shared by both (`TreeWords`): `heap[n]` is the seven words of node `n` (`Node`);
`see[t]` what thread `t` has read, by the name of the local (`oParent`, `oNode`, ...), node
and version together as in `ObservedNode`; `path[t]` the thread's path; `pc[t]` the place
in the code and `reads[t]` the words it has to read before it goes on there. One step is
one read of a shared word, one `execute()`, or the creation of a node. So an operation is a list of reads and an
action at the end of it, and any two operations interleave between all their reads.

| actions | code |
|---|---|
| `call`, `done` | entering and leaving `contains`, `insertIfAbsent`, `erase` |
| `read` | one `casword` read |
| `search`, `terminal` (unbalanced tree), `validatePath`, `notFound` | `search`, `validatePath`, the retry loops around them |
| `createNew`, `internalInsert` | `internalInsert` |
| `countChildren`, `oneChild`, `unlink` | `internalErase`, no child or one |
| `getSuccessor`, `gotSuccessor`, `promote` | `getSuccessor`, `internalErase` with two children |
| `balance`, `chooseRotation`, `ascend` | the loop of `fixHeightAndRebalance`; `todo[t]` is its recursion |
| `fixHeight`, `unnecessary` | `fixHeight` |
| `rotate`, `rotateTwice` | `rotateRight`/`rotateLeft`, `rotateLeftRight`/`rotateRightLeft` |

What a request consists of is written once per `execute()`, in the order of the `add` calls
(`InsertRequest`, `UnlinkRequest`, `PromoteRequest`, `HeightRequest`, `RotateRequest`,
`RotateTwiceRequest`). A word that was added twice is compared and written by its first
entry only, as the lock-free k-CAS does; `Weak` lets `execute()` fail without a reason, as
the transactional one may.

A test that gives up in the middle of a chain of reads is made at its end. That loses no
behaviour: the reads after it change nothing and the thread starts over either way.
The values are the keys they came with, so that `LinksAgree` notices a value that does not
follow its key.

The record manager (`recmgr`) is external and modelled from its use. `limbo[n]` is defined for the
nodes that are not in the tree: those a thread has created and not yet linked, those that were retired
and those given back. It is the set of threads whose guards keep `n` from being allocated again:
at `retire`, whoever holds a guard (`Guarded`); at `deallocate`, nobody. A thread that returns
lets its guard go, and in the AVL tree also one whose attempt has failed, since the guard of its
updates is declared inside the retry loop (`Retry`). `createNew` takes any address of `Free`, one
whose guards are all gone or an unused one. Who holds a guard differs: all operations of the AVL
tree (`internal_kcas.h:232`, `:321`, `:379`), but only `insertIfAbsent` and `erase` of the unbalanced
one (`internal_kcas_unbalanced.h:318`, `:385`), whose `contains` (`:203-212`) and its adapter take none.
The unbalanced tree retires a new node after a failed k-CAS (`:375`) and leaks it when the
parent has the key (`:366`). A node is retired in the step of the k-CAS that unlinks it and may be
reused as soon as the guards of that moment are gone, which is the earliest the code allows
(DEBRA waits for later epochs). Until then, and while it is free and not used again, it keeps
its words: what an unguarded reader finds in memory that was given back to the system is
not modelled. An address that no thread and no node refers to is forgotten, so that retries
do not fill the heap.

`Linearizable` is refinement of `ConcurrentSet`: the set is the keys of the nodes that are
in the tree and not marked; an update takes effect when its k-CAS succeeds; an operation that changes
nothing must give an answer that was true at some instant of the call. What was true is
collected in the history variable `may`.

## Runs

| run | instance | shows |
|---|---|---|
| `kcas_reuse` | 2 threads, a version and a word, reuse, reads | `SnapshotSound`, `RdcssTagsLive`, `LockedPrefix`, `SuccessIsAtomic`, `DecisionStable`; `Atomicity` and `TagsLive`, which need the discipline |
| `kcas_chain` | 3 threads overlapping in pairs, 2 versions | `LockedPrefix`, `Atomicity` where helpers help helpers |
| `kcas_progress` | as `kcas_reuse`, fair | `TypeOK`, and every call returns |
| `kcas_htm` | transactions among helpers | `WeakAtomicity`, `TagsLive` |
| `kcas_orphan` | 2 words without versions, values that recur, fair | violated: a call may never return |
| `tid` | 4 threads, 4 slots | `SlotExclusive`, `NoOverrun` |
| `tid_deinit` | the same with `deinitThread` | violated: two owners of a slot |
| `avl` | 2 threads on trees of 1 to 4 nodes, fair | `TypeOK`, `InOrder`, `LinksAgree`, `BalancedWhenQuiet`, `RequestsGuarded`, `HeldNodesStay`, `VersionsTell`, `Linearizable`, `Progress` |
| `avl_successor` | an erase with two children and an insertion on 9 nodes | violated: `InOrder` |
| `bst` | 2 and 3 threads on trees of 1 to 5 nodes, weak k-CAS; `contains` beside insertions only | `InOrder`, `RequestsGuarded`, `HeldNodesStay`, `VersionsTell`, `Linearizable` |
| `bst_stale_pred` | an insertion and an erase on one node, fair | violated: `Progress` |
| `bst_contains` | a `contains` beside an erase and an insertion on one node | violated: `Linearizable` |

The bounds: two or three threads suffice for an owner, a helper and a competitor; two
words for a first one, which a helper skips, and a second; one or two requests per
thread for a first life and its reuse; sequence numbers up to 5. `MaxDepth` bounds the
nesting of `helpOther` and is never what stops a thread: the chain of helped requests
climbs the address order. Fairness is weak fairness of each thread's own steps: the
threads are kernel threads, and no step of an operation waits for another thread.

The trees are started in the states of `TreeScenarios`, all of them trees that insertions
build: an empty side, one and two children, and one step from each of the four
rotations, so that one thread rotates while the other searches, erases or inserts on the
nodes that move. Starting there instead of at the empty tree is what makes the
interleavings of two operations, with dozens of reads each, fit. The only case of `avl` with an
erase of two children during a rotation is too small for the race of `avl_successor`, which
needs a node that keeps a left child with a right child when it is rotated down.
`bst` has no balancing, and room for three threads and further operations of a thread, so that nodes
are removed and used again while others are at work. Its `contains` meets insertions only,
which free nothing that was ever linked; beside an erase it can go wrong (`bst_contains`). The
search beside an erase is still in the run, as that of `insertIfAbsent`. The instance of
`bst_contains` is also one of those of `avl`, where `contains` has a guard and passes. Nothing
bounds the number of retries: the scripts are finite and each failure has a cause, except
with `Weak`, where a retry returns to an earlier state. The default build uses the transactional
k-CAS and so is `Weak`; `bst` has it and asks for no progress, since a k-CAS that may always
fail promises none. `avl` is there for progress and quiet states too and has a k-CAS that fails
only for a reason: its instances with `Weak` are not checked.
`FairSpec` of `AVLTree` says weak fairness as "idle again and again, or stepping again and
again": a thread inside an operation always has a step, so ENABLED, which is slow to evaluate
there, is not needed.

## Findings

- **A finished request can leave its tag behind** (`kcas_orphan`). If a word gets back
  the value that a request expects between the owner's seeing another and its deciding
  FAILED, a helper that is between reading UNDECIDED and its second CAS installs the tag
  after the owner has gone on. Nobody can remove it: everyone stops at the sequence
  number. Readers of the word loop. Under the version discipline values do not come back
  and this does not happen (`kcas_progress`, `kcas_reuse`, `TagsAreLive`). That covers the requests
  for which `RequestsGuarded` holds, not those of the race of `avl_successor`, and no
  thread that helps on a node that was freed (`bst_contains`).
- **`deinitThread` frees a slot twice** (`tid_deinit`), once itself and once in the
  destructor of the thread-local object. Nothing in the repository calls it.

- **`getSuccessor` of the AVL tree may return a smaller key** (`avl_successor`). It reads
  `node->right` before `node->vNumMark`. A left rotation of the node between the two reads puts
  the old right child above the node; the walk to the left then comes back to the node and
  goes down its left side, and `validatePath` finds all versions current. The k-CAS of the
  two-child erase succeeds with a key that is too small, and the node's left sub-tree is out
  of order. The request also lowers a `key` word, so that `RequestsGuarded` fails on this instance
  and the atomicity of the k-CAS beneath is not established for it. Reading the version first,
  as `search` does, rules it out. When the walk ends at
  the node itself, the node's version is in the request twice; that request is saved by the
  k-CAS comparing only one of the entries.
- **An insertion into the unbalanced tree may never return** (`bst_stale_pred`). `oPred`
  outlives a failed attempt, and `search` leaves it alone when the key has no
  predecessor on the new path. If the old one was removed in the meantime, every k-CAS
  compares a version that has changed for good.
- **`contains` of the unbalanced tree may find a key that never was there** (`bst_contains`). It
  takes no guard. While it has a pointer to a node, the node can be erased, freed, and
  allocated for an insertion of the key it looks for; it finds the key before the insertion
  takes effect, and needs "no validation" on finding one. In the program it may also read
  memory that is used for something else.

Noticed while modelling, with no document to hold against the code, or too plain for a model:
`erase` with two children returns the value of the promoted key, and `insertIfAbsent` may return
the value of another key that was promoted into the node; `createNode` asserts `parent->key <
maxKey`, which fails for the first insertion under the root in a build with assertions;
`validate` uses `errorFound` uninitialised; a new node of the unbalanced tree is leaked when the
parent has the key by the time it is read; the double rotations' FAILURE is taken for success
by their caller, which `BalancedWhenQuiet` shows to be harmless in the instances of `avl`; the
check of the predecessor's version by the unbalanced tree's insertion could be dropped in
all instances tried without breaking `InOrder` or `Linearizable`.

## Proofs

The proofs are for any number of threads, words, values, entries and depth.

- `KCASInvariants` states the inductive invariant. `Inv1` is about one thread at a
  time: what each control point implies for the thread's own frames, registers and
  descriptor, and that every copy that passed its check agrees with its request while the
  request lives. `Inv` adds the lock invariant: every word below the cursor of any loop
  over an undecided request holds its tag; and it says what can take a tag away.
  `LockedPrefix` alone is not inductive: that a helper may start at the second
  entry needs that the tag it met was that of a live request or else that the check
  fails; that a tag stays needs that only phase 2 of a decided request removes it.
- `KCASThreadProofs` proves that steps keep `Inv1`, `KCASLockProofs` that they keep types and the
  rest of `Inv`, one lemma per action; `KCASProofs` puts them together: `TypeCorrect`,
  `SnapshotsAreSound`, `RdcssTagsAreLive`, `PrefixIsLocked`, `SuccessAllAtOnce`,
  `DecisionsAreStable`. These hold for all callers, with or without the version discipline.
- `KCASTagsProofs` adds what the discipline gives (`Inv4`): a published request stays sorted and
  disciplined, since versions only grow; it is decided before its owner returns; a word that
  phase 2 has passed does not get the tag back; who has seen a request undecided and can still
  install its tag finds it undecided; a word that made a helper give up keeps differing until
  the decision. The last one is what fails in `kcas_orphan`, and why `TagsLive` alone is not
  inductive: without it a late helper installs a tag for a request that is over. It rests on
  `LogicalStep`: what a reader takes a word to hold changes only at the step that
  decides a request SUCCEEDED. `KCASProofs.TagsAreLive` is the result.
- `KCASHistoryProofs` proves the refinement of `AtomicKCAS` step by step (`HInvStep`, `HStep`): the
  deciding CAS is `Succeed` or `Fail` of the owner whoever takes it, the calls and returns
  are their own, and every other step changes nothing abstract. `HInv` says what the
  history variables hold at each control point. `KCASProofs.KcasIsAtomic` is the
  refinement theorem. `SortedAll` shows that `kcasdesc_sort` loses no entry, by counting.
- `TIDGeneratorProofs`: `TypeCorrect`, `SlotIsExclusive`, and `ScanStaysInside`, whose argument
  counts (`Thinning`): a thread looks past slot k only while another one has that slot, so
  at most `MaxLive - k` threads are at slot k or further.

From assumptions `ConstantsAssumption` and `SlotsAssumption` alone; `TagsAreLive` and `KcasIsAtomic`
assume `Disciplined` besides, the constant with which `execute` is only called on requests that
follow the discipline. `RequestsGuarded` is that condition seen from the trees, for nodes that are not
reused under a request (`HeldNodesStay`); it is model-checked, and fails for the AVL tree in the
race of `avl_successor`. The statements for all callers have no such condition.

Only model-checked: `Progress` (liveness), `WeakAtomicity` (the transactional
k-CAS of `KCASHTM`, whose fall-back path adds steps to those of `KCAS`), and the properties
of the trees.

## Not modelled

- The inside of the record manager (`recordmgr`), a submodule whose code is not in the repository:
  epochs, pools and the allocator. The models have what the trees use of it.
- The skip list and the (a,b)-tree over k-CAS. Both keep arrays in their nodes (towers, keys and
  children); their interesting cases, towers of two levels that are spliced at once, or nodes
  that split and merge, begin at sizes that cannot be enumerated read by read.
- The variants of the k-CAS that validate further addresses; the AVL tree is built with the ones
  modelled.
- Weak memory: the models interleave accesses. The fences that the code has (or leaves to x86)
  are beyond them.
- The overflow of the 48-bit sequence numbers and the limit of 64 nodes on a path.
- The other trees, lists and hash tables in C++ and Java, the STM, the range-query providers
  and the sequential structures: other authors' baselines, each with an algorithm of its own;
  they share nothing with the tree but the harness. They are the bulk of the repository's lines.
- The benchmark drivers, statistics, scripts and plots: no shared state whose correctness a
  model could state.
