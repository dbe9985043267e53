# A verification of the copy-on-write block device

TLA+ models of `blockdevice/` (an in-memory copy-on-write block device whose
changes serialize to a delta) and of the `bdev` command: what each part
promises, TLC runs that check it on small instances, and TLAPS proofs of the
central promises for every instance.

## 1. The system

| Part | State | Operations | Source |
|---|---|---|---|
| Device | shared immutable `base`, own `dirty` map from block index to buffer | `New`, `ReadAt`, `WriteAt` | `blockdevice/blockdevice.go` |
| Delta format, tiers L0 and L1 | none (pure) | `Serialize`, `SerializeTier`, `Deserialize` | `blockdevice/format.go` |
| Parallel record writing | one buffer, goroutines, a `WaitGroup` | `writeRecords` | `blockdevice/format.go` |
| Reed-Solomon tier L2 | none (pure), goroutines in `SerializeRS` | `SerializeRS`, `deserializeRS`, `rsSalvage` | `blockdevice/rs.go` |
| Inspect | none (pure) | `Inspect` | `blockdevice/inspect.go` |
| `bdev` | files | `diff`, `apply`, `inspect`; `writeFile` | `cmd/bdev/` |

**How they interact.** Many devices share one base slice and run at the same
time; a single device is never used by two callers at once (its documented
contract). A device is paused by serializing its overlay and resumed by
deserializing the blob over the same base, possibly in another process and
after the blob was stored somewhere that damages it. `Deserialize` never fails
for damage it can work around: it returns the device it could rebuild together
with a `*PartialRecoveryError` that lists lost blocks and flags other loss.
`Inspect` judges the same blob without a base. `bdev` calls these from the
command line and replaces its output file atomically.

**What is hard.** Aliasing (the base, the caller's slice, the blob, one arena
for all restored blocks) under interleaved calls; `int64` overflow at the end
of the device; the meaning of a damaged blob (a failed CRC also hides the index,
duplicates, cuts, surplus bytes, an unreadable header); goroutines that share
one output buffer; two implementations of the same judgement; crashes during
`writeFile`. `PROJECT.json` lists each as a hazard at its line.

**What makes each part correct.**

- Device: it behaves as a flat disk of its own; the base is never written.
- Format: nothing is fabricated; a nil error means nothing was lost; blamed
  blocks were really lost; order does not matter; the header can be spared.
- Parallel writing: the bytes of the sequential path, joined, always returning.
- Inspect: the verdict of `Deserialize`.
- L2: as L1, and up to K lost shards cost no block; all that can be encoded can
  be decoded.
- `writeFile`: old or new content, whole, at every moment.

## 2. Modules

| Module | Role |
|---|---|
| `FlatDisk` | what a device promises: disks, callers' buffers and a saved image, with atomic calls |
| `BlockDevice` | the device with its memory: base, caller slices, blob, heap; one step per copied block |
| `BlockDeviceProofs` | its theorems; that it implements `FlatDisk` |
| `DeltaFormat` | the L0/L1 format as operators: `SerializeTier`, `Deserialize` and their parts |
| `PauseResume` | the cycle write, pause, damage, resume, over `DeltaFormat` |
| `FormatProofs` | lemmas about the operators of `DeltaFormat`, `DeltaInspect` and `RSFormat` that the proofs of both cycles and of `Bdev` use |
| `PauseResumeProofs` | the theorems of `PauseResume` and `PauseInspect` |
| `DeltaInspect` | `Inspect` for L0/L1 as operators |
| `PauseInspect` | the comparison of `Inspect` with `Deserialize` in the states of `PauseResume` |
| `SerializeWorkers`, `SerializeWorkersProofs` | `writeRecords` with its goroutines; its theorems |
| `RSFormat` | the L2 format as operators: geometry, `SerializeRS`, `deserializeRS`, `rsSalvage`, `inspectRS` |
| `RSRecovery`, `RSRecoveryProofs` | the cycle write, pause, damage, resume at tier L2; its theorems |
| `ShardWriters`, `ShardWritersProofs` | the goroutines of `SerializeRS`: records across shards, parity, shard headers; its theorems |
| `AtomicFile` | what `writeFile` promises: files replaced whole, in one step |
| `WriteFile`, `WriteFileProofs` | `writeFile` call by call, with failures, kills, power failures and links; its theorems, that it implements `AtomicFile` among them |
| `Bdev`, `BdevProofs` | the commands `diff`, `apply` and `inspect` over shared files; its theorems |
| `ParseArgs` | the command line of `diff` |
| `MC...` | instances for TLC |

Definitions keep the names of the source (`checkRange`, `applyRecords`,
`finalizeBad`, `scanL1Records`, ...). Operators called `X_Something` just before
`X` are mutants: plausible bugs of `X` that some property must detect.

### BlockDevice

`mem` maps addresses to block contents; `dirty[d][b]` is an *address*, so that
keeping the caller's slice, the base or the blob where a copy is due is
expressible and would be seen. `op[d]` is the call in progress. `ReadAt` and
`WriteAt` judge their arguments (`checkRange`, with the wrap-around of `int64`
scaled down to `MaxInt`); `CopyOut` and `CopyIn` are one iteration of their
loops; `Return` ends the call. Steps of different devices interleave freely.
`Serialize` and `Deserialize` are single steps here, because the contract
excludes other calls on the same device meanwhile, and other devices share no
memory with them other than the base, which nobody writes; what they do
inside is the subject of the other modules. `Fill` and `ReuseBlob` are the
environment: a caller may write its slice whenever no call of its own runs,
the owner of the blob at any time. `make` returns any heap buffer no overlay
refers to.

### DeltaFormat and PauseResume

A blob is a header (magic and version, tier, count, CRC), the records that are
there in full, and the kind of tail left after them: nothing, fewer bytes than
an index field, or a readable index. `layout` is the record stride the body
really has, which a damaged tier byte does not change. A CRC is *ideal*: it is
the value it covers, so it verifies exactly when value and CRC belong
together. (The code comments put the chance of a CRC32 collision at 2^-32 per
record.)

`applyRecords` is given by sets of positions rather than by a loop: the
positions applied, the last of them for each block, the failed ones that no
applied record excuses. `Extent` is its judgement of the body's length.
The medium may change an index, the data or the CRC of a record, any header
field, the index of a cut-off record, cut the blob at or inside any record,
append stray bytes or copies of records, and exchange records. `origin` and
`faulted` are history variables that the properties need.

### SerializeWorkers

The caller chooses the sequential or the parallel path, spawns one goroutine per
slice and waits. A record is written in three steps, index, data and CRC, and
the CRC step reads back what the first two left in the blob, as the code does.

### RSFormat and RSRecovery

Lengths are counted in cells. A record has four, two of them for the index, so
that a shard boundary can fall inside an index field, between fields or at a
record. A shard of a blob is the header that is there for it (index, and whether
the CRC verifies) and the number of the written shard its bytes are; the index
is outside the CRC, as in the code. CRCs are ideal. `Reconstruct` stands for the
library: from N shards in their places it gives the shard that was written, from
others garbage, which verifies nowhere. Bytes that are no index, in a misplaced
shard, read as an arbitrary number, the variable `wild`.

`parseRSMeta` has all its bounds: counts, geometry, record multiple, the memory
cap, the relation of shard size and payload, and the plausibility of the body's
length. Its check against a shard size that overflows 32 bits is implied by the
others and has no case of its own. Behind an outer header that fails, the code
may scan the body for L1 records; the shards start off the record stride, so the
scan finds none, and the model says `ErrCorrupt` at once.

The medium spoils shards, changes shard indices, cuts at or inside a shard,
appends bytes or copies of shards, exchanges shards, and spoils either header.

### ShardWriters

`SerializeRS` after its checks. A record is five cells here (two of index, two of
data, one CRC), so that it can be cut in each of its fields. A goroutine fills
its local buffers `hdr` and `tail`, then copies field after field;
`writeShardSpans` is one step per span that `copy` writes. `Encode` waits for the
workers; then one goroutine per shard writes the header. The error returns of the
library's `New` and `Encode` are left out: the checked geometry excludes them.

### WriteFile and AtomicFile

One step per system call, each with its failure. A name `CreateTemp` makes up
is never one that a running call uses, so a temporary file is kept with its call;
what a killed call, or a failed `Remove`, leaves behind is not tracked. The file
system is external, and these are the assumptions: a rename is atomic; changes of
the directory reach the disk in the order they were made, together and at
some later time (nothing syncs the directory); what was not synced of a file may
be torn by a power failure, its mode included in what must be synced. Two
ordinary names, the path given to `bdev` and the one it may be a link to; other
programs remove names and make the link at any time.

### Bdev and ParseArgs

`Bdev` composes the formats of all tiers with the promise of `writeFile`: a
command reads its inputs one after the other and ends with one replacement of
its output, or none. A delta carries, as history, the images it was made from.
Users replace images meanwhile; the delta is damaged, and fetched again; commands
are killed; `apply` may write over its own base and be repeated.

`Damages` is what may happen to a delta, once until it is fetched again. At L0
and L1 the header CRC fails, the index or the data of a record changes, the last
record is cut off at any of the places that matter, or a record is appended once
more. At L2 a run of shards is lost, or one shard claims another index: one of
`Stray`, while bytes that are no index, read where the misplaced shard puts them,
give one of `Wild`. Several kinds of damage in one blob are the subject of
`PauseResume` and `RSRecovery`.

`ParseArgs` has one token for each kind that `parseArgs` or the `flag` package
tells apart. Both passes are modelled, the second as the library does it.

## 3. Runs

| Run | Question | Bounds |
|---|---|---|
| `device_two` | aliasing, isolation, flat-disk behaviour of two devices | 2 devices, 2 blocks, 3 heap buffers, one-block calls, offsets inside, at the end, past it and negative |
| `device_one` | the loops, several arena windows; `checkRange` | 1 device, 3 blocks of 2 bytes, calls of 0 to 2 blocks, aligned and not, `int64` of width 4 |
| `pause_resume` | damage and recovery; Inspect against Deserialize | 3 blocks, 2 contents, up to 3 damages, the right base and one a block short |
| `workers` | the fan-out under every schedule | 0..8 records, 1..4 processors, 2 records per worker |
| `rs_recovery` | erasures, salvage, misplaced shards; Inspect against Deserialize | 3 blocks, 2 contents, 6 requested geometries, up to 2 damages |
| `shard_writers` | the goroutines of `SerializeRS` under every schedule | 0..6 records, 1..3 processors, 4 geometries, 2 records per worker |
| `write_file` | failures, kills, power failures, links, two writers of one path | 2 processes, 2 contents, unbounded calls |
| `bdev` | commands over shared, changing, damaged files | 2 processes, 3 commands, images of 1 and 2 blocks, 1 edit, all tiers |
| `parse_args` | the two passes over a command line | every line of up to 5 tokens of 10 kinds |
| `loss_listed`, `rs_misindexed`, `rs_alloc` | three statements of the documentation that the code does not keep | as `pause_resume` and `rs_recovery`, 1 damage; `rs_alloc` with a smaller memory cap |

Why these bounds reach the interesting cases. Two devices with three buffers let
a buffer be freed by one device and reused by the other. `MaxInt = 7` with a
base of 4 or 6 bytes makes `off+n` wrap for aligned arguments. Three blocks and
three damages allow a cut, a copy and a changed index in one blob, which is what
the duplicate suppression and the tail rule need to go wrong. With two contents,
three dirty blocks always hold two that are alike, which `SilentMeansExact`
excepts after a change of an index: for that damage the run tests the property on
blobs of one and two records, and theorem `SilenceIsExact` has any number of
both. Seven records
on three processors leave a short last slice, eight on four an even split.
With parity of one and two, two damages go to the limit of what is reconstructed
and past it, and pair a misplaced shard with a copy or a loss; 20 cells of memory
make some geometries of three blocks too large, and leave most within. Five cells
per record over one to four shards put boundaries into every field. Two writers
are enough for one to rename between the resolution and the rename of the
other; calls follow one another without a bound. Three commands are a diff, an
apply that fails or recovers a part, and its repetition, or a diff, an apply and
an inspect. Of the two modified images of `bdev` one changes both blocks to the
same content, which opens the residual window of `RoundTrip` when an index is
hit, and one to different contents, which does not. The stray shard index 1 and
the wild reading 0 put a shard of the three data shards into another's place and
let garbage name a block. Five tokens are two
positionals, a flag with its value and one token of any other kind among them.
Contents, heap buffers and devices are interchangeable, hence the symmetry sets
(none is used in a run with a liveness property).

**Properties.** `ImplementsFlatDisk` (refinement), `Separation`, `BaseIntact`,
`Isolation`, `ArgumentsJudged`; `NeverFabricates`, `SilentMeansExact`,
`BlameIsTrue`, `ReorderHarmless`, `HeaderExpendable`; `InspectAgrees`,
`InspectReportsLoss`; `SlicesDisjoint`, `ByteIdentity`, `NoWriteAfterReturn`,
`Termination`; `ErasuresCostNothing`, `RSNeverFabricates`, `RSSilentMeansExact`,
`RSLossAccounted`, `RSInspectAgrees`; `ShardIdentity`, `DisjointSpans`,
`JoinedBeforeParity`, `ShardTermination`; `NeverTorn`, `ImplementsAtomicFile`
(refinement), `WriteThrough`; `RoundTrip`, `PartialIsMix`, `InspectForetells`;
`ReadOnce`. Each is stated in words where it is defined.

`SilentMeansExact` carries exceptions, each a limit of the format rather
than of the model: damage that makes a failed record repeat exactly what was
applied for the block it misnames (documented at `PartialRecoveryError`), and a
cut made up for by copies of other records, which leaves the count right and
every CRC intact. `RSSilentMeansExact` has the same two, and only if the index of
a shard was hit: a misplaced shard pairs the index of one block with the equal
content of another, or a copy of a shard takes the place of another one.
`ErasuresCostNothing` leaves out blobs beyond the decoder's memory cap and damaged
shard indices, which the findings below are about. For a blob with surplus bytes
or copied shards it says that every block is restored, and leaves open whether
`Truncated` is reported. `WriteThrough` holds for calls
during which no name became another kind of entry: the code resolves the link
once, and a link made after that is replaced. `RoundTrip` and `PartialIsMix` trust
L0 deltas only if no index and no data of a record was hit, since L0 has no record
CRC. `RoundTrip` excepts the residual window documented at
`PartialRecoveryError.Truncated` (`format.go:61`): an index was hit, and two
changed blocks have the same content. There `apply` exits with 0 although a block
is missing, at L1 and, through a misplaced shard, at L2. `InspectForetells` leaves
out an index hit at L0, which may point outside the base; `inspect` has no base.

**Fairness.** Only `workers` and `shard_writers` assume any: weak fairness of the
caller and of each goroutine, which is what the Go scheduler gives to
goroutines that can run (none of them blocks on anything but `wg.Wait`).

**Deadlock** checking is off in these two, because the function stops when it
returns, in `bdev`, where the bound on commands ends the run, and in `parse_args`,
which ends with the verdict on the command line.

**Findings.**

1. `loss_listed`: a blob cut inside a record that is not the last one. The block
   of the cut record is listed in `BadBlocks`; the records after it are lost too,
   with `Truncated` unset, although its documentation says that data lost
   without a trustworthy index sets it "in every other case". `Inspect` sets
   `Truncated` for the same blob.
2. `rs_misindexed`: a shard whose index changes to that of a later shard is not
   the erasure that the comment on `parseShardSection` promises. It takes the
   later shard's slot: two wrong shards for one damaged field, one more
   than K=1 can bear. The record CRCs catch the garbage; the blocks are lost.
3. `rs_alloc`: `SerializeRS` writes, without an error, blobs whose shards need
   more than `rsMaxDecodeAlloc` (8 GiB) in all, and `parseRSMeta` rejects them,
   undamaged. Two comments say that every output can be read back.

Two smaller deviations, without a run: the last goroutine of `writeRecords` can
get fewer than `serialMinPerWorker` records, because the chunk size is rounded up
(385 records on 3 processors: 129, 129, 127); and bytes or shards appended to an
L2 blob are ignored, where the documentation of `Deserialize` (`format.go:219`),
which names no tier, says that surplus is reported with `Truncated`.

## 4. Proofs

All theorems hold for every value of the constants that satisfies the named
assumptions:

- `GeometryAssumption` (sizes are numbers, the base fits an `int64`),
  `ContentAssumption` (the base has a content), `ArgumentAssumption` (offsets are
  `int64` values, slices fit the buffer): the device.
- `FormatAssumption` (absence is not a content), `CycleAssumption` (bases are not
  longer than the device): both delta formats.
- `RSAssumption` (sizes and default counts are positive, the filler `Junk` is no
  content, `rsDefaultParity` is at most 3), `RecoveryAssumption` (requests are
  integers, bases are not longer than the device): tier L2.
- `WorkersAssumption`, `ShardsAssumption` (counts are numbers, at least one
  processor, at least one data shard): the goroutines.
- `WriteFileAssumption` (a link leads to another name).
- `BdevAssumption` (what users put in place as `base` and `mod` are images of
  whole blocks; the bounds on runs and edits are numbers), with
  `FormatAssumption` and `RSAssumption`: the commands. Shard indices that are hit
  become natural numbers, bytes that are no index read as integers.

The bound on `rsDefaultParity`, which is 2 in `rs.go:43`, is a relation between
constants that the code relies on and does not state. `parseRSMeta` rejects a
shard section longer than four times the body. With one data shard and the
default parity, a blob of which a single shard is left is still restored from
it, which needs `1 + rsDefaultParity` to be at most that factor; with a default
parity of 4 the length check would refuse it. `ErasuresAreFree` does not hold
without the bound. TLC evaluates each assumption in every run of its module.

- **BlockDevice.** `Separation` and `BaseIntact` prove each other's steps: a
  write keeps the base because its buffer is on the heap, and keeps the other
  overlays because its buffer is in none of them. The inductive invariant `IInv`
  adds `OpJudged`, which ties the progress of a call to blocks of the base and
  rests on `CheckRangeNamesBlocks`: the wrapped arithmetic of `checkRange`
  accepts exactly the requests that name whole blocks. From `IInv` follow
  `TypeCorrect`, `BuffersSeparate`, `BaseNeverModified`,
  `ArgumentsAlwaysJudged` and the action property `DevicesIsolated`.
- **FlatDiskImplemented.** Under the mapping `diskMap`/`bufMap`/`savedMap` a call
  takes effect on the flat disk when it begins: the blocks not yet copied are
  read from where the copy will take them. The loop steps are stutters, which
  needs `Separation` twice, for a write that must not touch a block of another
  device and for a read whose source must not change before it is copied.
- **PauseResume, nothing fabricated.** `NeverFabricates` is not inductive: it speaks
  of a result, and the damage happens before. `PInv` adds that every record of the
  stored blob is *genuine* (its CRC is still that of some dirty block and its
  content, or broken; in an L0 body the record itself, while no index or data was
  touched) and that a header CRC that verifies vouches for the tier of the body.
  Each damage keeps this; `DeserializeGenuine` draws the conclusion for every path
  through `Deserialize`. Theorems `CycleTypeCorrect`, `NothingFabricated`.
- **PauseResume, what the verdict is worth.** Genuine records are not enough to say
  that none is missing. `LInv` carries a `Lineage`: a map from the records of the
  blob to the dirty blocks they descend from, which is injective unless records
  were copied and onto unless the blob was cut, with what each kind of damage can
  have changed of a record since; `HeaderOf` and the account of the tail complete
  it. The step proofs say how each damage changes the map (a swap composes it, a
  copy extends it, a cut restricts it). A nil error then means that each record
  was applied or repeats an applied one, so the map counts the blocks restored:
  if it is a bijection all are (`SilenceIsExact`, `OrderDoesNotMatter`,
  `HeaderIsExpendable`), and a tail that was cut off is a block no other
  record has (`BlameIsAlwaysTrue`).
- **PauseInspect.** `ApplyVerdict` and `ScanFacts` take the two judgements apart into
  the same questions: does a record verify under an index the base has not, does
  one fail that repeats none applied, does the length fit. `VerdictsConcur`
  (in `FormatProofs`) compares them question by question on each path, the
  headerless one included, for every blob there is and not only those the cycle
  reaches. `InspectAlwaysAgrees` and `InspectMissesNoLoss` follow, and `Bdev` uses
  the same lemma.
- **SerializeWorkers.** `WInv` says that the slices fill the records handed out
  without overlap, that the records a goroutine has passed are complete, that the
  one it is at is as far as its step, and that whoever left the `WaitGroup` has
  ended. Theorems `WorkersTypeCorrect`, `SlicesAlwaysDisjoint`,
  `ParallelIsSequential`, `QuietAfterReturn`.
- **ShardWriters.** `ShardIdentity` and `DisjointSpans` speak of cells, the code of
  offsets into a payload that is divided by the shard size at every span. `IInv`
  ties them together: a goroutine at field `f`, byte `j` of record `p` has the
  payload offset of exactly that place (`WorkersOK`), its local buffers hold the
  record it is at (`BuffersOK`), ranges are apart (`Apart`), and a data cell is
  blank or right, and right as soon as the goroutine whose range it is in
  has passed it (`DataCells`, `Progress`). A span advances over consecutive
  offsets of one shard, each still blank and no other goroutine's. Parity and headers follow once the
  `WaitGroup` is empty. Theorems `ShardWritersTypeCorrect`, `BlobIsFlatPayload`,
  `NoCellWrittenTwice`, `ParityIsOfFinalData`.
- **RSRecovery.** The invariant `RInv` says how the stored blob still descends from
  what `SerializeRS` wrote: its payload is the records of the dirty blocks, its
  geometry one that was accepted, each shard that is there one that was
  written, under its own index unless an index was hit, once unless one was
  copied. The rest is about the operators. `RSFabricatesNothing`: each cell that is
  read, wherever from, is garbage or a cell that was written (`ReadAuthentic`), so a CRC
  that verifies is that of a dirty block (`VerifiedIsTrue`). With no index hit,
  every cell that can be read is the one written for that place (`Faithful`); then
  the records read are the records written (`ReadIsGenuine`), and what is lost
  is what was not read: `RSLossIsAccounted`. `ErasuresAreFree` needs in addition
  that none of the checks of `parseRSMeta` fires: `BodyLongEnough` bounds the body
  from below by the shards that fill the slots, for every accepted geometry.
  `RSInspectAlwaysAgrees` rests on `RSVerdictsConcur`, which compares the two
  salvage walks as for L1.
  `RSSilenceIsExact` has to do without `Faithful`, since a shard may be in the
  wrong place: if no two contents are equal and no shard was copied, a data cell
  is read in at most one place (`DataOnce`; a reconstruction that is no
  garbage fixes the other data shards), each record read without an error has
  the content of a dirty block, so the records name as many different blocks as
  there are, which are all of them (`SilentMisplaced`). A single data shard is the
  exception: its shards are copies of each other, and nothing is misplaced.

- **WriteFile.** `NeverTorn` speaks of names, and what a rename puts under a name
  was made earlier. `WFInv` adds `InHand`: the temporary file of a call is exactly
  as far as the call's steps, so at the rename it holds all of the data, with its
  mode, synced; and `Aimed`: a call whose names kept their kinds still aims where
  the path leads. Theorems `WriteFileTypeCorrect`, `NoFileIsTorn`, `WritesThrough`.
  `AtomicFileImplemented`: the rename is the step at which a call takes effect;
  what comes before and after it is a stutter or the call's return. A power
  failure maps to going back to an earlier state because, by `NeverTorn`, every
  file it finds is synced.

- **Bdev.** The properties speak of exit codes, and what makes an exit code right
  happened earlier: which images a delta was made from, which damage it took, and
  that what a command has read stays in its memory while the files change. `BInv`
  says, of each file and of each command, what it can be: a delta, be it in the
  file, read by a command or remembered by one that exited, is `Made`: what
  `Serialize` wrote for the images it names, or that damaged once; a command holds
  whole images, as many as its steps have read; an exited `apply` wrote what
  `Decode` and `materialize` give for what it read. From this `FilesAreWhole`
  (`TypeOK`) follows at once.
  The other three need what `Made` says of the blob. At L0 and L1 it is `Plain`:
  the records name the dirty blocks under their own CRCs, their index or their data
  perhaps hit, and only a blob that lost no record has the count of its header.
  `DamagedIsPlain` goes through `Damages` one by one. A record that verifies at L1
  was not hit (`PlainRecordTrue`); one that does not, and of which a nil error says
  that it repeats an applied one, has the content of a dirty block under the index
  of another, so the two contents are equal: that is the residual window, and
  nothing else is. At L2 the blob is still `Stored`, with a shard lost or
  misplaced, so that the lemmas of the L2 cycle apply, `SilentMisplaced` among
  them. `DecodedFacts` concludes, for every tier, that
  what is decoded is part of the change, and that a nil error means all of it,
  outside that window. `MaterializedIsMod` carries this to
  images: blocks of the modified image written over the delta's base, or over a
  base on which an earlier `apply` has left some of them, as happens when `apply`
  overwrites its own base and is repeated. Hence `ExitZeroIsExact` (`RoundTrip`)
  and `ExitThreeIsMix` (`PartialIsMix`). `InspectForetellsApply` is
  `DecodedForetold`, by `VerdictsConcur` and `RSVerdictsConcur`, since the codes of
  both commands are functions of the verdicts.

Where a theorem gave rise to a strengthening (`IInv`, `WInv`, `PInv`, `LInv`,
`WFInv`, `RInv`, `BInv`), that was an invariant of a TLC run over the instance of the
table above before it was proved (`BInv` with two commands instead of three).

Only model-checked:

- `Termination` and `ShardTermination`: liveness is out of the prover's reach.
- `ReadOnce`: the reading from left to right that it compares with is recursive, and
  what a recursive definition computes for every input takes an induction that
  the prover cannot instantiate.

## 5. Limits

- CRC32 is ideal; a collision is not modelled. So is Reed-Solomon.
- Use of one device by two callers at once is excluded, as its contract does.
- A blob changes while it is stored, not while `Deserialize` reads it.
- Bases are whole blocks, so the `ErrCorrupt` of `Deserialize` for a base of
  another length (`format.go:226`) does not occur.
- The loop of `SerializeRS` that starts the goroutines for the shard headers
  (`rs.go:187`) is one step with `Encode`: it only starts goroutines whose headers
  and shards nobody else touches.
- Allocation failure, the panic of `New` on an unaligned base and integer widths
  of record counts are left out.
- A header of one tier that verifies over a body of another tier does not occur:
  it would take a header CRC that collides.
- The temporary names of two running calls of `writeFile` never collide.
- Not modelled: the external Reed-Solomon and CRC libraries; what `bdev` prints,
  and its usage texts; build files and scripts.

## 6. State of the plan

Every component is modelled. Every safety property of the passing runs is proved
for all values of the constants, except `ReadOnce`, and so are both
refinements; 36 theorems state them. What stays with TLC is listed at the end of
section 4. The three statements that the findings refute are not theorems, and
each theorem near them says what it leaves out: `ErasuresAreFree` the
damaged shard index and the blob beyond the memory cap, `SilenceIsExact` and
`BlameIsAlwaysTrue` say nothing of the blocks a cut loses without a name.
