# SmartCart, specified in TLA+

SmartCart collects price files that Israeli retailers publish, stages them on
disk, and activates what they say in PostgreSQL: a current price per store and
product, and a history of price changes.  This directory models the parts of it
whose correctness depends on an order of events: database transactions of
several connections, files written by several processes that may be killed or
lose power, and portals that may answer anything.

Run a model with `tlc -config <X>.cfg <Module>.tla` and the proofs with
`tlapm <X>Proofs.tla`, for `Activation`, `Seam`, `Staging`, `Tree`, `Identity`,
`Shufersal`, `RamiLevy` and `Promotions`.  `PROJECT.json` lists components, runs,
hazards, theorems, disagreements between code and documents, and for each
definition the lines of the source it stands for.

## 1. Inventory

| Component | Code | State it keeps | Operations | Modelled by |
|---|---|---|---|---|
| Ordered activation | `db_spike/activation.py`, migrations 0002 and 0003 | `store_product_current_state`, `price_history`, `artifact_occurrence.activation_outcome` | `activate_occurrence` | `Activation` |
| Occurrences | `db_spike/occurrence.py` | `artifact_occurrence` | `insert_occurrence` | `Activation` (`Insert`) |
| Transactions | `db_spike/db.py` | the connection's transaction | `transaction` | `EndTransaction` and `Fail` of each database module |
| Store catalog | `db_spike/catalog.py` | `store`, `store_source_alias` | `get_or_create_store_by_alias`, `add_store_source_alias` | `StoreCatalog` |
| Normalized evidence | `db_spike/normalized_evidence.py`, migration 0008 | `normalized_occurrence_evidence` | `persist_normalized_occurrence_evidence` | `NormalizedSeam` |
| Normalize-to-persistence seam | `integration/occurrence_activation.py` | none of its own; three transactions | `activate_normalized_occurrence` | `NormalizedSeam` |
| Product identity | `db_spike/product_identity.py`, migrations 0005-0007 | `smartcart_product`, current assignment, assignment history | create, name, assign, correct | `ProductIdentity` |
| Crash-safe staging | `durability_spike/staging.py`, `blob_store.py`, `_atomic_file.py` | four directory trees | `stage_raw`, `finalize_canonical`, `recover_raw`; `ensure_dir_durable` below them | `DurableStaging`, `DurableTree` |
| Rami Levy collector | `collectors/rami_levy/run.py`, `session.py`, `download.py`, `discovery.py`, `transport.py` | the session's cookie and flag, the run's outcomes | `run_phase1a` | `RamiLevyRun`, `RamiLevyFiles` |
| Shufersal collector | `collectors/shufersal/run.py`, `discovery.py`, `download.py`, `transport.py` | the run's outcomes | `run_phase1a` | `ShufersalRun`, `ShufersalFiles` |
| Artifact content, ingestion runs | `db_spike/content.py`, `ingestion_run.py` | two tables | idempotent single statements | not modelled |
| Migrations | `db_spike/migrate.py`, `migrations/` | `schema_migrations` | `apply_migrations` | not modelled |
| Parsing and validation | `collectors/*/parse.py`, `validate.py` | none | pure functions over XML | `RamiLevyFiles`, `ShufersalFiles` |
| Normalization contract | `normalize/contract.py`, `rami_levy.py`, `shufersal.py` | none | pure translation of fields | `SourceText` (what makes it raise) |
| Promotions | `normalize/promotion*.py`, `core/promotion_*.py` | none | pure functions over dicts and decimals | `Promotions` |

How they interact.  A collector run returns payloads; a caller stages the raw
bytes and the canonical payload (`DurableStaging`), records a content and an
occurrence row (`insert_occurrence`), normalizes the items, and calls
`activate_normalized_occurrence`.  That function resolves the retailer's store
identifier (`StoreCatalog`), persists the items as evidence, and activates the
occurrence, in three transactions of one connection; a crash between two of
them is repaired by calling it again.  Product identity is a separate pair of
tables, changed by hand.  Nothing in the repository runs threads; concurrency is
several processes on one database or one staging root.

What is hard, and what makes it correct:

- *Activation*: two connections, inserts that commit late, equal instants,
  retries after an unknown COMMIT.  Derived state must be that of a serial run
  in `(collected_at, occurrence_id)` order, each occurrence applied once or
  written off for good.
- *The seam*: an identifier resolved in one transaction is used in two later
  ones; replays with other items race.  Evidence must be written once, and
  derived state must be replayable from it; no deadlock between the two kinds
  of transaction.
- *Store catalog*: two first resolutions of one identifier.
- *Product identity*: assignments are read without a lock before they are
  written.
- *Staging*: what is visible is not yet on disk.  An answer must survive a power
  loss, also when it was another process that wrote the file.
  The same holds of every directory above a file, which another process may
  have made and not synced.
- *Collectors*: sessions expire, requests are rejected, files are published
  anew.  Retries must be bounded, one file's failure must stay its own, and what
  is returned as a store's prices must be that store's, whatever the listing
  names and the files contain.
- *Promotions*: a membership must find its own group again, and a bundle must
  count each item of the basket once.

## 2. Modules

`Activation` is the core.  A database table is a function, a row is a record or
`None`, and an SQL statement that other connections can tell apart is one action;
PostgreSQL's READ COMMITTED is modelled by letting other connections step between
two actions of one transaction, and by keeping a transaction's writes in `rows[w]`
and `events[w]` until its COMMIT.  Only `WriteLine` takes several statements at
once, a line's SELECT, upsert and history INSERT: a store's rows and log are
touched only under its lock, and a failure between two of them rolls the whole
transaction back, as one before or after them does.  `lockOwner` is the store row's `FOR UPDATE`.  An insert of an
occurrence takes `FOR KEY SHARE` on its store through the foreign key, so
`Insert` waits for that lock; sequence numbers are handed out before COMMIT, so
occurrences appear in any order of ids.  `Fail` is any error or lost connection:
`transaction()` rolls back.  The actions, in the order of the code: `ReadFacts`
or `RaiseValueError`, `LockStore`, `ReturnAlreadyApplied` or `FindUnresolved`,
`Defer` or `FindNoneEarlier`, `ChooseBranch`, `CommitStale`, or `WriteLine` for
each product and `CommitApplied`.

`OrderedActivation` is its abstract specification: a call is one atomic step
that defers, writes off or applies the occurrence, with derived state computed
at once from the whole batch: a product has the row of its last line, and the
event of its first line that changes the price it had.  `ActivationRefinement` maps one to the other.

`StoreCatalog` models the two writers of aliases, with the unique key's wait as
`aliasWriter`.  `NormalizedSeam` extends `Activation`, instantiates
`StoreCatalog`, and adds the evidence transaction with its two row locks; it
conjoins each of their actions with where the connection is in the seam, so that
the three transactions, and the locks between them, compose.

`ProductIdentity` models reads without lock, the wait for a row that another
transaction wrote, and COMMIT, for assign and correct.

`DurableStaging` keeps two views of each directory entry: `visible`, from the
rename or link on, and `durable`, from the directory's fsync or the kernel's own
writeback on.  A kill loses neither, a power loss sets `visible` to `durable`.
`os.replace`, `os.link`, the fsyncs and the existence tests are separate actions.
`WriteOnce` is what `atomic_write_once_bytes` promises; `StagingRefinement` maps
the metadata as it is on disk to it.

`DurableTree` is what lies below: any tree of directories, and processes that
publish files in it with `atomic_write_once_bytes`.  Each call walks down from
the root: `Mkdir` or `FindDirectory` (or `RaiseNotADirectory`), then
`SyncParent`, for each ancestor, and at last `Link` and `SyncFile`, or the
loser's `ConfirmSame`.  An entry on disk whose directory is not on disk is lost
with it (`Reachable`).  The tree may start with directories that are there and
not on disk, or with something else where a directory is wanted.  It refines
`WriteOnce` too, with a register that counts a file as published only with all
of its directories.  `DurableStaging` has no tree: its directories are there,
which is what `DurableTree` shows a call to have established; its own subject is
the order of several files.

`RamiLevyRun` and `ShufersalRun` take one request and its handling as a step.
The portal is free: any answer at any time, a session dropped at any moment, a
newer publication between two discoveries.  `CollectionRun` is what both promise:
dependencies first, then one outcome for each file in turn, with its payload
returned when it succeeded - and that of the Stores file perhaps when it did not -
unless an exception that nobody catches ends the run.

`RamiLevyFiles` and `ShufersalFiles` are the pure functions between a body and an
outcome: discovery over the listing's rows, the container, the schema family, the
identity tags and their conflicts, the records, and what validation rejects.  A
document is what the code looks at: its root ids under both spellings, its
envelope, its records; a text is absent, empty, a number or not one (`SourceText`).
The two runs evaluate them on documents that differ from a sound one in one
thing each, and keep the payloads, so that properties relate what was listed,
what was served, the outcome and what is returned.

`Promotions` has the two normalizations of a promotions occurrence and the fixed
bundle.  A list built by nested loops is a function of the places its entries
come from.  Nothing in it changes state, so it has no run; `PromotionsProofs` says
what it computes.

The `MC*` modules give the constants small values.  Definitions whose comment
says "Fault" are plausible bugs; no specification uses them.  They document
which mistake each property is there to catch, and each property fails when its
fault replaces the operator that follows it.

## 3. Runs

| Run | Module, cfg | States | What it shows |
|---|---|---|---|
| `activation` | MCActivationRefinement, Activation | 396,338 | order, staleness, finality, history and refinement of activation |
| `activation_liveness` | MCActivation, ActivationLiveness | 1,709 | calls return; retried occurrences are resolved |
| `seam` | MCNormalizedSeam, Seam | 1,788,592 | evidence, current state, row locks and store resolution across the three transactions |
| `identity` | MCProductIdentity, Identity | 40,599 | reassignment and history; calls return |
| `staging` | MCDurableStaging, Staging | 277,428 | answers survive, records are write-once |
| `tree` | MCDurableTree, Tree | 161,056 | answered files are on disk with all their directories |
| `rami_levy` | MCRamiLevyRun, RamiLevy | 51,299 | bounded re-logins; a store's prices are its own; implements CollectionRun |
| `shufersal` | MCShufersalRun, Shufersal | 327,695 | bounded requests, rediscovery after a rejection, right names and ids; implements CollectionRun |

Four more runs, `activation_mixed`, `identity_lost_history`, `staging_blob_gap` and
`rami_levy_isolation`, end in the violation that section 6 describes.

States are distinct ones, up to symmetry of the connections or processes where
the cfg declares it; runs with liveness declare none.

Bounds, and why they suffice:

- Activation: three occurrences (one between two others), two instants (equal
  and different), two connections, two products, two prices, batches of one to
  three lines, one of which names a product twice at two prices, one for another
  store.  Two transactions are enough for every
  conflict on a lock held by one; three occurrences give an earlier, a present
  and a later one, each of which may come late.  The liveness run has two
  occurrences and no second product.
- Seam: two stores, two aliases, two prices, two occurrences that may also be
  unparsable or of the Stores file, two callers.
- The store catalog runs inside `seam`, with two connections and two store ids
  (`MaxStores`): enough for two stores, or for one that is rolled back, whose value
  is used up, and another.  `MaxStores` bounds the sequence and makes a connection
  stop, not fail, when it is used up.
- Identity: three products, so that a correction may go to either of two others.
  `MaxHistory` bounds the history from which a call starts.
- Staging: one raw file, two canonical payloads of an extract that breaks its
  determinism contract, two instants, two processes: the conflicts are per
  metadata file.
- Tree: a forked tree of directories with a file in each branch, three
  processes, so that one may make a directory and die, one find it, and one
  publish below both; two contents.
- Collectors: the Stores file and two stores, so that there is a file whose
  failure comes before another one.  Rami Levy's are an ordinary store and the
  online one, whose id is compared as a number; its listings hold old rows,
  foreign ones and both shapes of names.  A file differs from a sound one in one
  thing: the container, a tag, an id, a price, a repeated or a missing record.
  Shufersal's listings are numbered, not their URLs: a later listing may carry the
  URL of an earlier one, since no code compares them.

Deadlock is checked in every run; `Ended` lets a finished collector run stutter.

Fairness.  `FairSpec` of `Activation` and `ProductIdentity` assumes that a
connection's statements are executed (weak fairness) and that a row lock
which is released again and again is granted in the end (strong fairness):
PostgreSQL queues the waiters of a row.  `RetrySpec` adds a caller that retries
an unresolved occurrence, which the docstring of `ActivationOutcome.DEFERRED`
makes the caller's duty; no code in the repository does it, and
`EventuallyResolved` says that if failures stop, that is enough.  Strong
fairness of `CallAgain` is needed since a connection may be busy.  The collectors
assume only that the program itself goes on; nothing is assumed of the portal.

## 4. Theorems

`ActivationProofs` proves for any stores, items, prices, connections,
occurrences and batches, from `ActivationAssumption` and `NoneAssumption`:
`TypeCorrect`, `ActivationOrder` (`AppliesInOrder`), `StaleJustified`
(`StaleOnlyWhenOvertaken`), `OutcomesAreFinal`, `DerivedStateIsApplied`,
`CurrentStateMonotone`, `HistoryOrdered`, `HistoryExplained`
(`HistoryExplainsCurrentPrice`) and `Refinement` (`ImplementsOrdered`).  A batch is
any sequence of lines; it may name a product any number of times.

The inductive invariant is type correctness, the shape of a call in progress
(its target is eligible and its batch agrees, as was checked before the lock),
that a connection past `locking` holds its target's store and nobody else does,
and what it has established: the target is unresolved, nothing earlier is
unresolved, nothing later is resolved.  The last three would be destroyed by
another connection's insert or COMMIT; that both need the store's lock is what
makes them stable, and it is the reason for the lock in the code.  The order of
history and the monotony of current state follow, because what a COMMIT adds is
of an occurrence that no resolved one of its store is later than.

`HistoryExplained` adds an invariant of the loop over the lines (`LoopInv`): an
uncommitted row is that of its product's latest line so far, over the *committed*
row, and there is one uncommitted event for each product with a line that
differs from the committed price, of the first such line (`FirstDiffers`).  A
later line of the product replaces the row; its event, if the price differs from
the row it has just read, meets the unique key of the first one and is dropped.
Others' COMMITs leave the invariant true, since they need the lock of the store to
replace its rows.  At COMMIT it says that a product's price changes together with
a new last event.  Event and price are of one line unless the batch names the
product at two prices; `EndsAt` says which pairs some batch allows, and is equality
for a product that no batch does that to.  `Refinement` uses the same two
invariants: a COMMIT finds the turn of its occurrence as `OrderedActivation`
defines it, replaces the rows that `Apply` does and adds the events that `Apply`
does; every other step, a rollback included, is a stutter, an `Observe` or a
`Preserve`.

`StagingProofs` proves for any hashes, instants and processes, from
`StagingAssumption`: `TypeCorrect`, `AnswersSurvive` (`AnsweredIsDurable`),
`WrittenOnce` (`RecordsWriteOnce`), `Refinement` (`ImplementsWriteOnce`),
`RecordsReadable` (`RecordsStayReadable`) and `ReadableWithoutPowerLoss`.  The
invariant's heart is that what is durable is visible: no entry is on disk that
processes do not see, so a link onto a durable entry fails; and a call at its
fsync sees its own record, so that what it answers is what it has synced.  That
no record is visible without its bytes needs two more facts: a call past its
blob sees it until it has ended (`BlobInv`; nobody removes an entry, and a power loss
takes the call with it), and a canonical record names a canonical hash (`NamesInv`,
without which "the blob of the record" means nothing).  `RecordsReadable` excepts
power losses, since `staging_blob_gap` shows that they do break it; where only
processes die (`PowerMayFail` is FALSE), every visible record has its bytes.

`TreeProofs` proves for any tree, contents and processes, from
`TreeAssumption`: `TypeCorrect`, `AnswersAreReachable` (`AnsweredIsReachable`) and
`Refinement` (`ImplementsWriteOnce`).  The invariant says that a call has made
durable every ancestor above the one it is at, that what is on disk is what is
seen, and that the parent of what is seen is a directory; it is stable because
nobody removes an entry except a power loss, which keeps exactly what can be
reached.

`SeamProofs` is about the three transactions together, for any identifiers,
stores, inputs, batches, occurrences and connections, from `SeamAssumption`,
`ActivationAssumption` and `NoneAssumption`.  Its argument has four parts.

- *The catalog alone*: `CatalogTypeCorrect`, `AnswersStay` and `NoOrphanStore`.  The
  invariant ties a connection at its COMMIT to the uncommitted key it holds: no
  other one can have inserted that alias.
- *The seam implements its parts.*  `SeamImplementsCatalog` and
  `SeamImplementsActivation` say that a behaviour of the seam, seen through the
  variables of the catalog or of activation, is a behaviour of `Catalog!Spec` or
  of `Spec`.  So every theorem about those holds of the seam, with nothing proved
  twice: `SeamAnswersStay` (`AnswersAgree`) and `SeamNoOrphanStore`
  (`EveryStoreHasAlias`) follow at once, and so do the order, staleness and
  history of `ActivationProofs`.  What has to be shown for it is that activation is
  called with a batch it admits (`SeamArgumentsInv`): the items carry the store
  that the first transaction resolved, and that store exists because what a
  resolution answers is in the table.  `SeamImplementsOrdered`
  (`ImplementsOrdered`) carries the atomic specification over too.
- *Evidence and derived state*: `EvidenceIsOfItsOccurrence` (`EvidenceAgrees`),
  `EvidenceWrittenOnce` (`EvidenceIsImmutable`) and `DerivedStateHasEvidence`
  (`DerivedFromEvidence`).  `EvidenceInv` says what a connection has established at
  each stage: it found the occurrence, its items agree with it, it holds the
  occurrence's row, there was no evidence when it looked.  Only a holder of that
  row writes evidence, so what was found stays true up to the INSERT; without
  the lock, two replays could both find none.  A connection that activates has
  evidence equal to its items, by its own INSERT or by the comparison that lets a
  replay through.  `BufferedInv` says that each uncommitted row says what the batch
  says of a product, so that COMMIT makes current rows that evidence says.
- *No deadlock*: `DeadlockFree` (`NoDeadlock`).  `Rank` orders connections by what
  they may still have to wait for - the store's row, then the occurrence's, which
  an activation needs once more at its COMMIT - and
  `WaitsUpwards` shows that whoever waits, waits for one of a higher rank.  A group in
  which everybody waits for another member would have one of the highest rank.
  A group may have any size; the run could only look at two connections.

`IdentityProofs` proves for any identities, products and connections:
`TypeCorrect`, `NoSilentReassignment` (`ReassignmentLeavesHistory`),
`FirstProductRecorded` (`FirstCorrectionExact`) and `SupersededByAnother`
(`NeverSupersededByItself`).  The invariant says that what a correction has read
is another product than the requested one, and is what the identity is still
assigned to until its first history row.  A correction that has read holds no
lock yet, so this must survive others' commits, and does: only a correction
changes an assignment, and its COMMIT adds the history row too.  A connection at
its COMMIT holds the identity's row, so a first assignment is still the first.

`ShufersalProofs` proves, for any stores, published files and answers:
`TypeCorrect`, `FewRequests` (`RequestsAreBounded`), `OutcomesAreTruthful`
(`OutcomeNamesParsedFile`), `PricesCanBeUsed` (`PricesAreUsable`) and
`RunKeepsItsPromise`, the safety part of `ImplementsCollectionRun`.  The invariant
counts: listings taken and rediscoveries left add up to two, and the requests made
are at most two for every listing but the current one, and one for each of its
attempts; no request of the current listing was rejected.

`RamiLevyProofs` proves, for any stores, listings, contents and answers:
`TypeCorrect`, `FewRelogins` (`ReloginsAreBounded`), `PricesCanBeUsed`
(`PricesAreUsable`), `StoresOutcomeIsTold` (`StoresOutcomeTellsPayload`) and
`RunKeepsItsPromise`.  The invariant charges each re-login to the operation that
has marked it as used, and says that the file in hand was discovered under the
store's own id.  For the latter, `Latest` must answer one of the rows it is
given: a listing has finitely many times, so they have an upper bound (the
shortest prefix without one would give a contradiction), and the least upper
bound is reached.  `RunAssumption` therefore demands of the listings that they
are sequences, that their times are numbers, and that a PriceFull file's name
has a store id, which is how the code's parser of names defines one.

`PromotionsProofs` proves of the pure functions: `MembershipsFindTheirGroup` (each
membership is joined to exactly one group if no promotion is named twice),
`RepeatedPromotionIsAmbiguous` (otherwise it may not be), `BundleCostsAddUp`,
`BundleStaysInBasket` (for a required quantity of at least zero) and
`NegativeQuantityIsAccepted` (which the code does not demand).

Only model-checked: liveness (`CallsReturn`, `EventuallyResolved`, and the part of
`ImplementsCollectionRun` that says a run ends), since the prover does not treat
fairness and `ENABLED`.  Every other property that a passing run checks is stated
by a theorem for all values of the constants.

## 5. What the models leave out

- Money, quantities and texts are model values: the properties compare them for
  equality.  The five normalized facts of an item are one value.
- A row's foreign keys and check constraints appear where they wait or fail; an
  error of any statement is `Fail`.
- `record_price_observation`, an earlier writer that takes no lock, is used by
  first-round tests only.
- Nobody removes or repoints a directory or a blob (`_atomic_file.py` puts it out
  of scope).  `mkstemp`'s temporary file is no entry of the modelled tree.
- Chain, subchain and chain-product upserts: single idempotent statements.
- Not modelled: `content.py` and `ingestion_run.py`, each a single idempotent or
  independent statement whose rows no modelled component reads; `migrate.py`, an
  operator's command, which two processes must not run at once.
- The pages of a portal: success or each kind of failure.  Of an XML document,
  what is only copied to a record; of a validation, the warnings (repeated item
  codes, zero prices, ids of an unusual length), which decide nothing.
- The field-by-field copy of `normalize/rami_levy.py` and `shufersal.py`; only what
  makes it raise is in `SourceText`.

## 6. Where code and documents disagree

Four disagreements have a run that shows them (PROJECT.json, `findings`):

- `activation_mixed`: a legacy activation after a normalized one keeps the
  normalized facts of the older occurrence beside the new price and source.
- `identity_lost_history`: two corrections that read the same current product
  both append it; the product in between has no history row.
- `staging_blob_gap`: a blob that another process has renamed but not synced is
  taken for durable, so metadata may outlive its bytes in a power loss.
- `rami_levy_isolation`: a network error of a file's request is not caught and
  ends the whole run.

Others were met while modelling; no run shows them, or one only in passing:

- `ProductPrice` is "One product's observed price within an occurrence"
  (`activation.py:146`), but nothing rejects a batch that names a product twice, and
  the validators only warn.  With two prices it leaves a current price without an
  event of its own: the second event meets the unique key of the first and is
  dropped (`activation.py:547`).  The models include such batches.
- `_download_with_rediscovery` "never retries the same stale URL"
  (`shufersal/run.py:53`), but compares no URLs: when the second listing has the
  rejected one again, as in `tests/collectors/shufersal/test_run_integration.py:174`,
  it is requested again.
- `finalize_canonical` takes its instant from a raw record that is visible but
  perhaps not on disk (`staging.py:237`); after a power loss the raw file may be
  staged again with another instant, and both records then disagree.
- `add_store_source_alias` returns without recording an identifier that already
  means another store (`catalog.py:141`).
- A corrupt ZIP member raises `BadZipFile` outside the `try` of
  `_extract_single_zip_member` and ends the Rami Levy run (`transport.py:105`).
- An HTTP 401 or 403 is raised by urllib before `response.status` is looked at,
  so it ends the run and is not a session expiry (`session.py:189`; the test
  uses an opener that returns the response).
- A body shorter than declared raises `IncompleteRead`, which is no `OSError`,
  and ends either collector's run (`shufersal/download.py:83`).
- Shufersal's validation compares each decimal price with zero; of a `NaN` that
  raises `InvalidOperation`, which ends the run (`shufersal/validate.py:147`).
  Rami Levy's accepts it as a price.
- `_ids_match` "fails (returns False) [...] for any non-numeric value on either
  side", but `isdigit()` holds of a superscript digit, for which `int()` raises a
  ValueError that ends the run (`rami_levy/validate.py:99`).
- `run_stores` of both collectors returns records that validation rejected, and so
  does `run_phase1a`, whose docstring restricts only the items to files that
  succeeded (`rami_levy/run.py:171`, `shufersal/run.py:163`).
- `_require` in both normalizers says that upstream validation should have
  prevented a missing field; validation looks at the price only, so an item
  without quantity, unit or name passes it and then makes normalization raise
  (`normalize/rami_levy.py:49`, `shufersal.py:31`).
- Shufersal takes the first row of a listing; nothing compares its ids with the
  store that was asked for (`shufersal/discovery.py:101`).
- `promotion_contract.py:164` lets memberships be linked "to their exact source
  Group"; an occurrence that names a promotion twice is accepted and breaks that
  (theorem `RepeatedPromotionIsAmbiguous`).
- A bundle's required quantity may be negative, and then leaves more items
  unmatched than the basket has; "Infinity" is an OverflowError and no
  ValueError (`promotion_interpretation.py:31`).  A bundle total may be a NaN or
  infinite (`promotion_interpretation.py:39`).

These that end a run are the actions `ReadCorruptMember`, `Raises`,
`RaiseIncompleteRead`, `RaiseInvalidOperation` and `RaiseValueError` (of
`RamiLevyRun`), and the state "aborted" of
`CollectionRun`.

## 7. Plan

Done, in this order: `Activation` with its abstract specification and proofs,
`DurableStaging` with its own, `StoreCatalog`, `ProductIdentity`,
`NormalizedSeam`, the two collectors, their files, `DurableTree` with its proofs,
the catalog's proofs, `Promotions`, the proofs of `ProductIdentity` and of the two
collectors, and those of the seam with the catalog's inside them.

Next, to model:

- The caller's order of steps from a collector run over staging and `content.py`
  to an occurrence, and replays of it.

Next, to prove:

- That `DurableStaging` on top of `DurableTree` keeps its answers: the two are
  proved apart, and the directories are the former's assumption.
