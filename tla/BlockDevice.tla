----------------------------- MODULE BlockDevice -----------------------------
(***************************************************************************)
(* The copy-on-write device of blockdevice.go, with the memory it works    *)
(* in. Several devices share one base and run at the same time; each call  *)
(* of ReadAt and WriteAt copies one block per step, so the copies of       *)
(* different devices interleave. All blocks live in one memory, and a      *)
(* dirty overlay holds addresses into it: an overlay that kept the         *)
(* caller's slice, the base or the blob instead of a buffer of its own     *)
(* would show here as it does in the program.                              *)
(*                                                                         *)
(* Serialize and Deserialize are here for what they do to memory (which    *)
(* buffers they read, make and share) on an intact blob; what they do with *)
(* a damaged one is DeltaFormat and PauseResume.                           *)
(***************************************************************************)
EXTENDS Integers, FiniteSets

CONSTANTS
    Device,      \* the devices open at the same time, over one base
    NBlocks,     \* length of the base in blocks
    BlockSize,   \* bytes in a block
    MaxInt,      \* the largest int64
    MaxBuf,      \* length of a caller's buffer in blocks
    Content,     \* what a block may hold
    BaseImage,   \* content of the base, block by block
    Heap,        \* block buffers the runtime can hand out
    Offset,      \* offsets callers pass, in bytes
    Length       \* slice lengths callers pass, in bytes

Block == 0 .. (NBlocks - 1)
Slot  == 0 .. (MaxBuf - 1)
Size  == NBlocks * BlockSize       \* len(d.base)

ASSUME GeometryAssumption ==
    /\ NBlocks \in Nat /\ BlockSize \in Nat \ {0} /\ MaxBuf \in Nat
    /\ MaxInt \in Nat /\ Size <= MaxInt

ASSUME ContentAssumption == BaseImage \in [Block -> Content]

ASSUME ArgumentAssumption ==
    /\ Offset \subseteq (-(MaxInt + 1)) .. MaxInt
    /\ Length \subseteq 0 .. (MaxBuf * BlockSize)
    /\ MaxBuf * BlockSize <= MaxInt

-----------------------------------------------------------------------------
(* Memory: the shared base, the callers' buffers, the record data of the   *)
(* stored blob and the heap. NoBuf is the absence of a dirty entry.         *)

BaseAddr(b)      == <<"base", b>>
CallerAddr(d, j) == <<"caller", d, j>>
BlobAddr(b)      == <<"blob", b>>
HeapAddr(h)      == <<"heap", h>>
NoBuf            == <<"none">>

HeapAddrs == {HeapAddr(h) : h \in Heap}
Addr == {BaseAddr(b) : b \in Block}
          \cup {CallerAddr(d, j) : d \in Device, j \in Slot}
          \cup {BlobAddr(b) : b \in Block}
          \cup HeapAddrs

VARIABLES
    mem,         \* mem[a]: the block stored at address a
    dirty,       \* dirty[d][b]: address of d's buffer for block b, or NoBuf
    blob,        \* the blocks the stored delta has a record for
    op           \* op[d]: the call in progress on device d

vars == <<mem, dirty, blob, op>>

Kind == {"idle", "read", "write", "ErrUnaligned", "ErrOutOfRange"}
Idle == [kind |-> "idle", off |-> 0, n |-> 0, k |-> 0]

\* Blocks of the call in progress: the first one, how many, the next one.
Lo(o)  == o.off \div BlockSize
Cnt(o) == o.n \div BlockSize
Cur(o) == Lo(o) + o.k

\* Where device d's block b is read from: its dirty buffer, else the base.
Src(d, b) == IF dirty[d][b] = NoBuf THEN BaseAddr(b) ELSE dirty[d][b]
View(d)   == [b \in Block |-> mem[Src(d, b)]]

\* Heap buffers no overlay refers to: what make may return.
Free == {a \in HeapAddrs : \A d \in Device, b \in Block : dirty[d][b] # a}

EmptyOverlay == [b \in Block |-> NoBuf]

Init ==
    /\ mem \in [Addr -> Content]
    /\ \A b \in Block : mem[BaseAddr(b)] = BaseImage[b]
    /\ dirty = [d \in Device |-> EmptyOverlay]
    /\ blob = {}                  \* the delta of a device nobody has written
    /\ op = [d \in Device |-> Idle]

-----------------------------------------------------------------------------
\* int64 arithmetic on the sum or difference of two int64 values.
Int64(x) == IF x > MaxInt THEN x - 2 * (MaxInt + 1)
            ELSE IF x < -(MaxInt + 1) THEN x + 2 * (MaxInt + 1)
            ELSE x

\* Mutant: the bounds check computes off+n, which wraps for a huge offset.
checkRange_Naive(n, off) ==
    IF off % BlockSize # 0 \/ n % BlockSize # 0 THEN "ErrUnaligned"
    ELSE IF off < 0 \/ Int64(off + n) > Size THEN "ErrOutOfRange"
    ELSE "nil"

checkRange(n, off) ==
    IF off % BlockSize # 0 \/ n % BlockSize # 0 THEN "ErrUnaligned"
    ELSE IF off < 0 \/ off > Size \/ n > Int64(Size - off)
    THEN "ErrOutOfRange"
    ELSE "nil"

\* ReadAt or WriteAt is called on a device nobody else is calling.
Begin(d, kind, off, n) ==
    /\ op[d] = Idle
    /\ LET err == checkRange(n, off)
       IN  op' = [op EXCEPT ![d] =
                    [kind |-> IF err = "nil" THEN kind ELSE err,
                     off |-> off, n |-> n, k |-> 0]]
    /\ UNCHANGED <<mem, dirty, blob>>

ReadAt(d, off, n)  == Begin(d, "read", off, n)
WriteAt(d, off, n) == Begin(d, "write", off, n)

InLoop(d, kind) == op[d].kind = kind /\ op[d].k < Cnt(op[d])
Advance(d)      == op' = [op EXCEPT ![d].k = @ + 1]

\* Mutant: ReadAt copies to the place after its own, past the buffer's end.
CopyOut_PastEnd(d) ==
    /\ InLoop(d, "read")
    /\ LET to == CallerAddr(d, op[d].k + 1)
       IN  mem' = [a \in Addr \cup {to} |->
                     IF a = to THEN mem[Src(d, Cur(op[d]))] ELSE mem[a]]
    /\ Advance(d)
    /\ UNCHANGED <<dirty, blob>>

\* One iteration of ReadAt's loop.
CopyOut(d) ==
    /\ InLoop(d, "read")
    /\ mem' = [mem EXCEPT ![CallerAddr(d, op[d].k)] = mem[Src(d, Cur(op[d]))]]
    /\ Advance(d)
    /\ UNCHANGED <<dirty, blob>>

\* Mutant: the overlay keeps the caller's slice instead of copying it.
CopyIn_KeepSlice(d) ==
    /\ InLoop(d, "write")
    /\ dirty' = [dirty EXCEPT ![d][Cur(op[d])] = CallerAddr(d, op[d].k)]
    /\ Advance(d)
    /\ UNCHANGED <<mem, blob>>

\* Mutant: a block that is not dirty is written in the base.
CopyIn_ThroughBase(d) ==
    /\ InLoop(d, "write")
    /\ mem' = [mem EXCEPT ![Src(d, Cur(op[d]))] = mem[CallerAddr(d, op[d].k)]]
    /\ Advance(d)
    /\ UNCHANGED <<dirty, blob>>

\* One iteration of WriteAt's loop: a block that is dirty is overwritten in
\* its buffer, any other gets a new buffer.
CopyIn(d) ==
    /\ InLoop(d, "write")
    /\ LET b == Cur(op[d])
       IN  \E a \in (IF dirty[d][b] = NoBuf THEN Free ELSE {dirty[d][b]}) :
              /\ dirty' = [dirty EXCEPT ![d][b] = a]
              /\ mem' = [mem EXCEPT ![a] = mem[CallerAddr(d, op[d].k)]]
    /\ Advance(d)
    /\ UNCHANGED blob

\* The call returns: its loop is done, or checkRange refused it.
Return(d) ==
    /\ op[d] # Idle
    /\ op[d].kind \in {"read", "write"} => op[d].k = Cnt(op[d])
    /\ op' = [op EXCEPT ![d] = Idle]
    /\ UNCHANGED <<mem, dirty, blob>>

\* The caller writes its own buffer; io.WriterAt forbids it during a call.
Fill(d, j, c) ==
    /\ op[d] = Idle
    /\ mem' = [mem EXCEPT ![CallerAddr(d, j)] = c]
    /\ UNCHANGED <<dirty, blob, op>>

\* The caller drops device d and opens a new one over the base.
New(d) ==
    /\ op[d] = Idle
    /\ dirty' = [dirty EXCEPT ![d] = EmptyOverlay]
    /\ UNCHANGED <<mem, blob, op>>

-----------------------------------------------------------------------------
\* Serialize: a new blob with a copy of every dirty block.
Serialize(d) ==
    /\ op[d] = Idle
    /\ blob' = {b \in Block : dirty[d][b] # NoBuf}
    /\ mem' = [a \in Addr |->
                 IF \E b \in blob' : a = BlobAddr(b)
                 THEN mem[dirty[d][a[2]]] ELSE mem[a]]
    /\ UNCHANGED <<dirty, op>>

\* The owner of the blob reuses its bytes.
ReuseBlob(b, c) ==
    /\ b \in blob
    /\ mem' = [mem EXCEPT ![BlobAddr(b)] = c]
    /\ UNCHANGED <<dirty, blob, op>>

\* Mutant: every record is given the same window of the arena.
Arenas_Shared == {w \in [blob -> Free] : \A b, c \in blob : w[b] = w[c]}

\* The windows of a new arena, one for each record of the blob.
Arenas == {w \in [blob -> Free] : \A b, c \in blob : w[b] = w[c] => b = c}

\* Mutant: the overlay refers to the records in the blob.
Deserialize_AliasBlob(d) ==
    /\ op[d] = Idle
    /\ dirty' = [dirty EXCEPT ![d] =
                   [b \in Block |-> IF b \in blob THEN BlobAddr(b) ELSE NoBuf]]
    /\ UNCHANGED <<mem, blob, op>>

\* The caller drops device d and rebuilds one from the blob: every record
\* is copied into its own window of one new arena.
Deserialize(d) ==
    /\ op[d] = Idle
    /\ \E w \in Arenas :
          /\ dirty' = [dirty EXCEPT ![d] =
                         [b \in Block |-> IF b \in blob THEN w[b] ELSE NoBuf]]
          /\ mem' = [a \in Addr |->
                       IF \E b \in blob : a = w[b]
                       THEN mem[BlobAddr(CHOOSE b \in blob : a = w[b])]
                       ELSE mem[a]]
    /\ UNCHANGED <<blob, op>>

-----------------------------------------------------------------------------
Next ==
    \/ \E d \in Device :
          \/ \E off \in Offset, n \in Length : ReadAt(d, off, n)
          \/ \E off \in Offset, n \in Length : WriteAt(d, off, n)
          \/ CopyOut(d)
          \/ CopyIn(d)
          \/ Return(d)
          \/ \E j \in Slot, c \in Content : Fill(d, j, c)
          \/ New(d)
          \/ Serialize(d)
          \/ Deserialize(d)
    \/ \E b \in Block, c \in Content : ReuseBlob(b, c)

Spec == Init /\ [][Next]_vars

-----------------------------------------------------------------------------
(* Properties. *)

\* Every variable has its type (an overlay may hold any address: that it
\* holds only heap buffers is Separation).
TypeOK ==
    /\ mem \in [Addr -> Content]
    /\ dirty \in [Device -> [Block -> Addr \cup {NoBuf}]]
    /\ blob \subseteq Block
    /\ op \in [Device -> [kind : Kind, off : Int, n : Nat, k : Nat]]

\* No two dirty entries, of one device or of two, share a buffer, and none
\* is the base, a caller's slice or the blob: what WriteAt, Serialize and the
\* arena of Deserialize promise ("buffers stay independent and never alias
\* blob or base").
Separation ==
    /\ \A d \in Device, b \in Block : dirty[d][b] \in HeapAddrs \cup {NoBuf}
    /\ \A d, e \in Device : \A b, c \in Block :
          dirty[d][b] = dirty[e][c] /\ dirty[d][b] # NoBuf => d = e /\ b = c

\* "The base data is never modified", by any device, in any interleaving.
BaseIntact == \A b \in Block : mem[BaseAddr(b)] = BaseImage[b]

\* The whole blocks lo .. lo+cnt-1 of the base that a request stands for.
NamesBlocks(off, n) ==
    \E lo, cnt \in 0 .. NBlocks :
        lo + cnt <= NBlocks /\ off = lo * BlockSize /\ n = cnt * BlockSize

\* checkRange, whose arithmetic is that of int64, answers what the geometry
\* says: a call is served exactly when offset and length name a run of whole
\* blocks of the base, and its loop never indexes the base past its end.
ArgumentsJudged ==
    \A d \in Device : op[d].kind # "idle" =>
        /\ op[d].kind \in {"read", "write"} <=> NamesBlocks(op[d].off, op[d].n)
        /\ op[d].kind \in {"read", "write"} =>
              op[d].k <= Cnt(op[d]) /\ Lo(op[d]) + Cnt(op[d]) <= NBlocks

\* "Distinct Devices are independent, even when they share a base": what a
\* device reads as changes only in a WriteAt of its own or when its caller
\* replaces it, never in a step of another device, of a caller that reuses
\* its slice or of the owner of a blob.
Isolation ==
    [][\A d \in Device :
          View(d)' # View(d) =>
              \/ op[d].kind = "write"
              \/ op[d] = Idle /\ dirty'[d] # dirty[d]]_vars

\* While d writes, its blocks not yet copied count as written, and while it
\* reads, the slots not yet copied count as read: a call is one step.
Left(d, kind, j) ==
    op[d].kind = kind /\ op[d].k <= j /\ j < Cnt(op[d])

diskMap ==
    [d \in Device |-> [b \in Block |->
        IF Left(d, "write", b - Lo(op[d]))
        THEN mem[CallerAddr(d, b - Lo(op[d]))]
        ELSE mem[Src(d, b)]]]

bufMap ==
    [d \in Device |-> [j \in Slot |->
        IF Left(d, "read", j)
        THEN mem[Src(d, Lo(op[d]) + j)]
        ELSE mem[CallerAddr(d, j)]]]

savedMap ==
    [b \in Block |-> IF b \in blob THEN mem[BlobAddr(b)] ELSE mem[BaseAddr(b)]]

Flat == INSTANCE FlatDisk WITH disk <- diskMap, buf <- bufMap, saved <- savedMap

\* The devices over one base, with their overlays, arenas and interleaved
\* copies, implement independent flat disks whose calls are atomic and whose
\* stored deltas are frozen images.
ImplementsFlatDisk == Flat!Spec
=============================================================================
