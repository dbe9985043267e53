-------------------------- MODULE BlockDeviceProofs --------------------------
(***************************************************************************)
(* Proofs about BlockDevice, for any number of devices, blocks, buffers    *)
(* and contents and any int64 width.                                       *)
(***************************************************************************)
EXTENDS BlockDevice, TLAPS

-----------------------------------------------------------------------------
(* Arithmetic of checkRange. *)

\* An aligned byte count is a multiple of the block size.
LEMMA AlignedIsMultiple ==
    ASSUME NEW x \in Int, x % BlockSize = 0
    PROVE  x \div BlockSize \in Int /\ x = (x \div BlockSize) * BlockSize
BY GeometryAssumption, SMT

\* A multiple of the block size is aligned and divides exactly.
LEMMA MultipleDivides ==
    ASSUME NEW q \in Int
    PROVE  /\ (q * BlockSize) % BlockSize = 0
           /\ (q * BlockSize) \div BlockSize = q
BY GeometryAssumption, SMT

\* Byte counts compare as the block counts do.
LEMMA MultipleMonotonic ==
    ASSUME NEW p \in Int, NEW q \in Int
    PROVE  p * BlockSize <= q * BlockSize <=> p <= q
BY GeometryAssumption, SMT

\* checkRange, computed with int64 wrap-around, accepts exactly the requests
\* whose offset and length lie in the base by integer arithmetic.
LEMMA CheckRangeExact ==
    ASSUME NEW off \in Offset, NEW n \in Length
    PROVE  checkRange(n, off) = "nil" <=>
             /\ off % BlockSize = 0 /\ n % BlockSize = 0
             /\ 0 <= off /\ off + n <= Size
<1>1. /\ off \in Int /\ off <= MaxInt /\ n \in Nat
      /\ Size \in Nat /\ Size <= MaxInt /\ MaxInt \in Nat
  BY GeometryAssumption, ArgumentAssumption DEF Size
<1>2. 0 <= off /\ off <= Size => Int64(Size - off) = Size - off
  BY <1>1 DEF Int64
<1> QED BY <1>1, <1>2 DEF checkRange

\* Those are the requests that name a run of whole blocks of the base.
LEMMA CheckRangeNamesBlocks ==
    ASSUME NEW off \in Offset, NEW n \in Length
    PROVE  checkRange(n, off) = "nil" <=> NamesBlocks(off, n)
<1>0. off \in Int /\ n \in Nat /\ NBlocks \in Nat /\ BlockSize \in Nat \ {0}
  BY GeometryAssumption, ArgumentAssumption
<1>1. ASSUME checkRange(n, off) = "nil" PROVE NamesBlocks(off, n)
  <2> DEFINE lo == off \div BlockSize
             cnt == n \div BlockSize
  <2>1. /\ lo \in Int /\ off = lo * BlockSize
        /\ cnt \in Int /\ n = cnt * BlockSize
        /\ 0 <= off /\ off + n <= Size
    BY <1>0, <1>1, CheckRangeExact, AlignedIsMultiple
  <2> HIDE DEF lo, cnt
  <2>2. 0 <= lo /\ 0 <= cnt
    BY <2>1, <1>0, MultipleMonotonic
  <2>3. (lo + cnt) * BlockSize <= NBlocks * BlockSize
    BY <2>1, <1>0 DEF Size
  <2>4. lo + cnt <= NBlocks
    BY <2>1, <2>3, <1>0, MultipleMonotonic
  <2> QED BY <2>1, <2>2, <2>4, <1>0 DEF NamesBlocks
<1>2. ASSUME NamesBlocks(off, n) PROVE checkRange(n, off) = "nil"
  <2>1. PICK lo, cnt \in 0 .. NBlocks :
           lo + cnt <= NBlocks /\ off = lo * BlockSize /\ n = cnt * BlockSize
    BY <1>2 DEF NamesBlocks
  <2>2. off % BlockSize = 0 /\ n % BlockSize = 0
    <3>1. lo \in Int /\ cnt \in Int
      BY <1>0
    <3>2. (lo * BlockSize) % BlockSize = 0 /\ (cnt * BlockSize) % BlockSize = 0
      BY <3>1, MultipleDivides, Zenon
    <3> QED BY <2>1, <3>2, Zenon
  <2>3. (lo + cnt) * BlockSize <= NBlocks * BlockSize /\ 0 <= off
    BY <2>1, <1>0, MultipleMonotonic
  <2>4. off + n <= Size
    BY <2>1, <2>3, <1>0 DEF Size
  <2> QED BY <2>2, <2>3, <2>4, CheckRangeExact
<1> QED BY <1>1, <1>2

\* The loop of an accepted call stays inside the base and the buffer.
LEMMA AcceptedBounds ==
    ASSUME NEW o \in [kind : Kind, off : Int, n : Nat, k : Nat],
           o.off \in Offset, o.n \in Length, checkRange(o.n, o.off) = "nil"
    PROVE  /\ Lo(o) \in Nat /\ Cnt(o) \in Nat
           /\ Lo(o) + Cnt(o) <= NBlocks /\ Cnt(o) <= MaxBuf
<1>0. NBlocks \in Nat /\ BlockSize \in Nat \ {0} /\ MaxBuf \in Nat
  BY GeometryAssumption
<1>1. PICK lo, cnt \in 0 .. NBlocks :
         lo + cnt <= NBlocks /\ o.off = lo * BlockSize /\ o.n = cnt * BlockSize
  BY CheckRangeNamesBlocks DEF NamesBlocks
<1>2. Lo(o) = lo /\ Cnt(o) = cnt
  BY <1>0, <1>1, MultipleDivides DEF Lo, Cnt
<1>3. cnt * BlockSize <= MaxBuf * BlockSize
  BY <1>1, <1>0, ArgumentAssumption
<1> QED BY <1>0, <1>1, <1>2, <1>3, MultipleMonotonic
-----------------------------------------------------------------------------
(* Addresses: the regions of memory are disjoint and addressed one to one. *)

\* An address of one region is none of another, nor NoBuf.
LEMMA AddressesDistinct ==
    /\ \A b, c : BaseAddr(b) # BlobAddr(c) /\ BaseAddr(b) # NoBuf
    /\ \A b, d, j : /\ BaseAddr(b) # CallerAddr(d, j)
                    /\ BlobAddr(b) # CallerAddr(d, j)
    /\ \A a \in HeapAddrs : a # NoBuf
    /\ \A a \in HeapAddrs : \A b : a # BaseAddr(b) /\ a # BlobAddr(b)
    /\ \A a \in HeapAddrs : \A d, j : a # CallerAddr(d, j)
BY DEF BaseAddr, BlobAddr, CallerAddr, HeapAddr, NoBuf, HeapAddrs

\* Within a region, different blocks have different addresses.
LEMMA AddressesInjective ==
    /\ \A b, c : BaseAddr(b) = BaseAddr(c) => b = c
    /\ \A b, c : BlobAddr(b) = BlobAddr(c) => b = c
    /\ \A b : BlobAddr(b)[2] = b
    /\ \A d, e, i, j : CallerAddr(d, i) = CallerAddr(e, j) => d = e /\ i = j
BY DEF BaseAddr, BlobAddr, CallerAddr

\* The regions make up the memory.
LEMMA AddressesIn ==
    /\ \A b \in Block : BaseAddr(b) \in Addr /\ BlobAddr(b) \in Addr
    /\ \A d \in Device, j \in Slot : CallerAddr(d, j) \in Addr
    /\ HeapAddrs \subseteq Addr
    /\ NoBuf \notin Addr
BY DEF Addr, BaseAddr, BlobAddr, CallerAddr, HeapAddr, HeapAddrs, NoBuf

-----------------------------------------------------------------------------
(* The inductive invariant. *)

\* A call in progress was judged by checkRange and has not overrun its loop.
OpJudged ==
    \A d \in Device : op[d] # Idle =>
        /\ op[d].kind # "idle" /\ op[d].off \in Offset /\ op[d].n \in Length
        /\ op[d].kind \in {"read", "write"}
              <=> checkRange(op[d].n, op[d].off) = "nil"
        /\ op[d].kind \in {"read", "write"} => op[d].k <= Cnt(op[d])

IInv == TypeOK /\ Separation /\ BaseIntact /\ OpJudged

\* A served call works on blocks of the base and slots of its buffer.
LEMMA ServedBounds ==
    ASSUME TypeOK, OpJudged, NEW d \in Device, op[d].kind \in {"read", "write"}
    PROVE  /\ Lo(op[d]) \in Nat /\ Cnt(op[d]) \in Nat
           /\ Lo(op[d]) + Cnt(op[d]) <= NBlocks /\ Cnt(op[d]) <= MaxBuf
           /\ op[d].k <= Cnt(op[d])
           /\ op[d].k < Cnt(op[d]) => Cur(op[d]) \in Block /\ op[d].k \in Slot
<1>1. op[d] # Idle
  BY DEF Idle
<1>2. op[d] \in [kind : Kind, off : Int, n : Nat, k : Nat]
  BY DEF TypeOK
<1>3. /\ Lo(op[d]) \in Nat /\ Cnt(op[d]) \in Nat
      /\ Lo(op[d]) + Cnt(op[d]) <= NBlocks /\ Cnt(op[d]) <= MaxBuf
  BY <1>1, <1>2, AcceptedBounds DEF OpJudged
<1>4. op[d].k <= Cnt(op[d])
  BY <1>1 DEF OpJudged
<1> QED BY <1>2, <1>3, <1>4, GeometryAssumption DEF Cur, Block, Slot

\* Where a block is read from is in memory, and in no caller's or blob's.
LEMMA SrcInMemory ==
    ASSUME TypeOK, NEW d \in Device, NEW b \in Block
    PROVE  Src(d, b) \in Addr
BY AddressesIn DEF TypeOK, Src

\* The steps of the calls keep OpJudged: Begin judges, Advance stays in the
\* loop, Return forgets.
LEMMA BeginJudged ==
    ASSUME IInv, NEW d \in Device, NEW off \in Offset, NEW n \in Length,
           NEW kind \in {"read", "write"}, Begin(d, kind, off, n)
    PROVE  /\ op' \in [Device -> [kind : Kind, off : Int, n : Nat, k : Nat]]
           /\ OpJudged'
<1> DEFINE o == [kind |-> IF checkRange(n, off) = "nil" THEN kind
                          ELSE checkRange(n, off),
                 off |-> off, n |-> n, k |-> 0]
<1>1. op' = [op EXCEPT ![d] = o]
  BY DEF Begin
<1>2. checkRange(n, off) \in {"nil", "ErrUnaligned", "ErrOutOfRange"}
  BY DEF checkRange
<1>3. off \in Int /\ n \in Nat
  BY GeometryAssumption, ArgumentAssumption
<1>4. o \in [kind : Kind, off : Int, n : Nat, k : Nat]
  BY <1>2, <1>3 DEF Kind
<1>5. /\ o.kind # "idle" /\ o.off \in Offset /\ o.n \in Length
      /\ o.kind \in {"read", "write"} <=> checkRange(o.n, o.off) = "nil"
  BY <1>2
<1>6. o.kind \in {"read", "write"} => o.k <= Cnt(o)
  BY <1>4, <1>5, AcceptedBounds
<1> HIDE DEF o
<1>7. op' \in [Device -> [kind : Kind, off : Int, n : Nat, k : Nat]]
  BY <1>1, <1>4 DEF IInv, TypeOK
<1>8. \A e \in Device : op'[e] = IF e = d THEN o ELSE op[e]
  BY <1>1 DEF IInv, TypeOK
<1>9. OpJudged'
  BY <1>5, <1>6, <1>8 DEF IInv, OpJudged, Idle, checkRange, Cnt
<1> QED BY <1>7, <1>9

\* The next iteration of a loop stays within the blocks checkRange admitted.
LEMMA AdvanceJudged ==
    ASSUME IInv, NEW d \in Device, NEW kind \in {"read", "write"},
           InLoop(d, kind), Advance(d)
    PROVE  /\ op' \in [Device -> [kind : Kind, off : Int, n : Nat, k : Nat]]
           /\ OpJudged'
<1>1. op[d] \in [kind : Kind, off : Int, n : Nat, k : Nat]
  BY DEF IInv, TypeOK
<1>2. op[d].kind = kind /\ op[d].k + 1 <= Cnt(op[d])
  BY <1>1, ServedBounds DEF IInv, InLoop
<1> DEFINE o == [op[d] EXCEPT !.k = @ + 1]
<1>3. /\ op' = [op EXCEPT ![d] = o]
      /\ o \in [kind : Kind, off : Int, n : Nat, k : Nat]
      /\ o.kind = op[d].kind /\ o.off = op[d].off /\ o.n = op[d].n
      /\ o.k = op[d].k + 1
  BY <1>1 DEF Advance
<1>4. Cnt(o) = Cnt(op[d])
  BY <1>3 DEF Cnt
<1> HIDE DEF o
<1>5. op' \in [Device -> [kind : Kind, off : Int, n : Nat, k : Nat]]
  BY <1>3 DEF IInv, TypeOK
<1>6. \A e \in Device : op'[e] = IF e = d THEN o ELSE op[e]
  BY <1>3 DEF IInv, TypeOK
<1>7. op[d] # Idle
  BY <1>2 DEF Idle
<1>8. OpJudged'
  BY <1>2, <1>3, <1>4, <1>6, <1>7 DEF IInv, OpJudged, Idle, checkRange, Cnt
<1> QED BY <1>5, <1>8

\* A device that is idle again has no request to judge.
LEMMA ReturnJudged ==
    ASSUME IInv, NEW d \in Device, Return(d)
    PROVE  /\ op' \in [Device -> [kind : Kind, off : Int, n : Nat, k : Nat]]
           /\ OpJudged'
<1>1. Idle \in [kind : Kind, off : Int, n : Nat, k : Nat]
  BY DEF Idle, Kind
<1>2. op' = [op EXCEPT ![d] = Idle]
  BY DEF Return
<1>3. op' \in [Device -> [kind : Kind, off : Int, n : Nat, k : Nat]]
  BY <1>1, <1>2 DEF IInv, TypeOK
<1>4. \A e \in Device : op'[e] = IF e = d THEN Idle ELSE op[e]
  BY <1>2 DEF IInv, TypeOK
<1>5. OpJudged'
  BY <1>4 DEF IInv, OpJudged, checkRange, Cnt
<1> QED BY <1>3, <1>5
-----------------------------------------------------------------------------
(* Each action keeps the inductive invariant. *)

\* No device has a dirty block or a call in progress at first.
LEMMA InitIInv == Init => IInv
<1> SUFFICES ASSUME Init PROVE IInv
  OBVIOUS
<1>1. TypeOK
  BY DEF Init, TypeOK, EmptyOverlay, Idle, Kind
<1>2. Separation
  BY DEF Init, Separation, EmptyOverlay
<1>3. BaseIntact
  BY DEF Init, BaseIntact
<1>4. OpJudged
  BY DEF Init, OpJudged
<1> QED BY <1>1, <1>2, <1>3, <1>4 DEF IInv

\* A write of one block outside the base leaves the base and the types alone.
LEMMA StoreOutsideBase ==
    ASSUME TypeOK, BaseIntact, NEW a \in Addr, NEW c \in Content,
           \A b : a # BaseAddr(b), mem' = [mem EXCEPT ![a] = c]
    PROVE  mem' \in [Addr -> Content] /\ BaseIntact'
<1>1. mem' \in [Addr -> Content]
  BY DEF TypeOK
<1>2. \A b \in Block : mem'[BaseAddr(b)] = mem[BaseAddr(b)]
  BY AddressesIn DEF TypeOK
<1> QED BY <1>1, <1>2 DEF BaseIntact

\* ReadAt writes the caller's buffer only.
LEMMA CopyOutKeeps ==
    ASSUME IInv, NEW d \in Device, CopyOut(d)
    PROVE  IInv'
<1>1. op[d].kind = "read" /\ op[d].k < Cnt(op[d])
  BY DEF CopyOut, InLoop
<1>2. Cur(op[d]) \in Block /\ op[d].k \in Slot
  BY <1>1, ServedBounds DEF IInv
<1>3. /\ CallerAddr(d, op[d].k) \in Addr
      /\ mem[Src(d, Cur(op[d]))] \in Content
  BY <1>2, AddressesIn, SrcInMemory DEF IInv, TypeOK
<1>4. mem' \in [Addr -> Content] /\ BaseIntact'
  <2>1. mem' = [mem EXCEPT ![CallerAddr(d, op[d].k)] = mem[Src(d, Cur(op[d]))]]
    BY DEF CopyOut
  <2>2. \A b : CallerAddr(d, op[d].k) # BaseAddr(b)
    BY AddressesDistinct
  <2> QED BY <1>3, <2>1, <2>2, StoreOutsideBase DEF IInv
<1>5. op' \in [Device -> [kind : Kind, off : Int, n : Nat, k : Nat]] /\ OpJudged'
  BY AdvanceJudged DEF CopyOut
<1>6. TypeOK' /\ Separation'
  BY <1>4, <1>5 DEF IInv, TypeOK, Separation, CopyOut
<1> QED BY <1>4, <1>5, <1>6 DEF IInv

\* A dirty entry set to a buffer it already had, or to one nobody has, keeps
\* the buffers apart.
LEMMA OwnBufferSeparate ==
    ASSUME TypeOK, Separation, NEW d \in Device, NEW b \in Block,
           NEW a \in (IF dirty[d][b] = NoBuf THEN Free ELSE {dirty[d][b]}),
           dirty' = [dirty EXCEPT ![d][b] = a]
    PROVE  /\ a \in HeapAddrs
           /\ dirty' \in [Device -> [Block -> Addr \cup {NoBuf}]]
           /\ Separation'
<1>1. a \in HeapAddrs
  BY DEF Separation, Free
<1>2. dirty' \in [Device -> [Block -> Addr \cup {NoBuf}]]
  BY <1>1, AddressesIn DEF TypeOK
<1>3. \A e \in Device, c \in Block :
         dirty'[e][c] = IF e = d /\ c = b THEN a ELSE dirty[e][c]
  BY DEF TypeOK
<1>4. \A e \in Device, c \in Block : dirty[e][c] = a => e = d /\ c = b
  BY <1>1, AddressesDistinct DEF Separation, Free
<1>5. Separation'
  BY <1>1, <1>3, <1>4 DEF Separation
<1> QED BY <1>1, <1>2, <1>5

\* WriteAt writes its own buffer, or a new one nobody refers to.
LEMMA CopyInKeeps ==
    ASSUME IInv, NEW d \in Device, CopyIn(d)
    PROVE  IInv'
<1>1. op[d].kind = "write" /\ op[d].k < Cnt(op[d])
  BY DEF CopyIn, InLoop
<1> DEFINE b == Cur(op[d])
<1>2. b \in Block /\ op[d].k \in Slot
  BY <1>1, ServedBounds DEF IInv
<1>3. PICK a \in (IF dirty[d][b] = NoBuf THEN Free ELSE {dirty[d][b]}) :
         /\ dirty' = [dirty EXCEPT ![d][b] = a]
         /\ mem' = [mem EXCEPT ![a] = mem[CallerAddr(d, op[d].k)]]
  BY DEF CopyIn
<1> HIDE DEF b
<1>4. /\ a \in HeapAddrs
      /\ dirty' \in [Device -> [Block -> Addr \cup {NoBuf}]]
      /\ Separation'
  BY <1>2, <1>3, OwnBufferSeparate DEF IInv
<1>5. mem[CallerAddr(d, op[d].k)] \in Content
  BY <1>2, AddressesIn DEF IInv, TypeOK
<1>6. mem' \in [Addr -> Content] /\ BaseIntact'
  BY <1>3, <1>4, <1>5, AddressesIn, AddressesDistinct, StoreOutsideBase DEF IInv
<1>7. op' \in [Device -> [kind : Kind, off : Int, n : Nat, k : Nat]] /\ OpJudged'
  BY AdvanceJudged DEF CopyIn
<1>8. TypeOK'
  BY <1>4, <1>6, <1>7 DEF IInv, TypeOK, CopyIn
<1> QED BY <1>4, <1>6, <1>7, <1>8 DEF IInv

\* A step that leaves op alone leaves its judgement alone.
LEMMA SameOpJudged == OpJudged /\ op' = op => OpJudged'
BY DEF OpJudged, checkRange, Cnt

\* A caller that writes its buffer touches no overlay and no base.
LEMMA FillKeeps ==
    ASSUME IInv, NEW d \in Device, NEW j \in Slot, NEW c \in Content, Fill(d, j, c)
    PROVE  IInv'
<1>1. mem' \in [Addr -> Content] /\ BaseIntact'
  BY AddressesIn, AddressesDistinct, StoreOutsideBase DEF IInv, Fill
<1>2. TypeOK' /\ Separation' /\ OpJudged'
  BY <1>1, SameOpJudged DEF IInv, TypeOK, Separation, Fill
<1> QED BY <1>1, <1>2 DEF IInv

\* The owner of the blob touches no overlay and no base.
LEMMA ReuseBlobKeeps ==
    ASSUME IInv, NEW b \in Block, NEW c \in Content, ReuseBlob(b, c)
    PROVE  IInv'
<1>1. mem' \in [Addr -> Content] /\ BaseIntact'
  BY AddressesIn, AddressesDistinct, StoreOutsideBase DEF IInv, ReuseBlob
<1>2. TypeOK' /\ Separation' /\ OpJudged'
  BY <1>1, SameOpJudged DEF IInv, TypeOK, Separation, ReuseBlob
<1> QED BY <1>1, <1>2 DEF IInv

\* A new device has no buffers.
LEMMA NewKeeps ==
    ASSUME IInv, NEW d \in Device, New(d)
    PROVE  IInv'
<1>1. /\ dirty' \in [Device -> [Block -> Addr \cup {NoBuf}]]
      /\ \A e \in Device, b \in Block :
            dirty'[e][b] = IF e = d THEN NoBuf ELSE dirty[e][b]
  BY DEF IInv, TypeOK, New, EmptyOverlay
<1>2. Separation'
  BY <1>1 DEF IInv, Separation
<1>3. TypeOK' /\ BaseIntact' /\ OpJudged'
  BY <1>1, SameOpJudged DEF IInv, TypeOK, BaseIntact, New
<1> QED BY <1>2, <1>3 DEF IInv
\* Serialize: a step that only fills cells of the blob.
LEMMA SerializeMemory ==
    ASSUME TypeOK, NEW d \in Device, Serialize(d)
    PROVE  /\ blob' \subseteq Block
           /\ mem' \in [Addr -> Content]
           /\ \A b \in blob' : mem'[BlobAddr(b)] = mem[dirty[d][b]]
           /\ \A a \in Addr : (\A b : a # BlobAddr(b)) => mem'[a] = mem[a]
<1>1. /\ blob' = {b \in Block : dirty[d][b] # NoBuf}
      /\ mem' = [a \in Addr |-> IF \E b \in blob' : a = BlobAddr(b)
                                THEN mem[dirty[d][a[2]]] ELSE mem[a]]
  BY DEF Serialize
<1>2. \A b \in blob' : dirty[d][b] \in Addr /\ BlobAddr(b)[2] = b
  BY <1>1, AddressesInjective DEF TypeOK
<1>3. \A a \in Addr : mem'[a] \in Content
  BY <1>1, <1>2 DEF TypeOK
<1>4. mem' \in [Addr -> Content]
  BY <1>1, <1>3
<1>5. \A b \in blob' : BlobAddr(b) \in Addr
  BY <1>1, AddressesIn
<1> QED BY <1>1, <1>2, <1>4, <1>5

\* Serialize writes the blob only.
LEMMA SerializeKeeps ==
    ASSUME IInv, NEW d \in Device, Serialize(d)
    PROVE  IInv'
<1>1. /\ blob' \subseteq Block /\ mem' \in [Addr -> Content]
      /\ \A a \in Addr : (\A b : a # BlobAddr(b)) => mem'[a] = mem[a]
  BY SerializeMemory DEF IInv
<1>2. BaseIntact'
  BY <1>1, AddressesIn, AddressesDistinct DEF IInv, BaseIntact
<1>3. TypeOK' /\ Separation' /\ OpJudged'
  BY <1>1, SameOpJudged DEF IInv, TypeOK, Separation, Serialize
<1> QED BY <1>2, <1>3 DEF IInv

\* Deserialize: a step that fills free heap cells, one for each record.
LEMMA DeserializeMemory ==
    ASSUME TypeOK, NEW d \in Device, NEW w \in Arenas,
           mem' = [a \in Addr |->
                     IF \E b \in blob : a = w[b]
                     THEN mem[BlobAddr(CHOOSE b \in blob : a = w[b])]
                     ELSE mem[a]]
    PROVE  /\ mem' \in [Addr -> Content]
           /\ \A b \in blob : mem'[w[b]] = mem[BlobAddr(b)]
           /\ \A a \in Addr : a \notin Free => mem'[a] = mem[a]
<1>1. /\ w \in [blob -> Free] /\ Free \subseteq HeapAddrs
      /\ \A b, c \in blob : w[b] = w[c] => b = c
  BY DEF Arenas, Free
<1>2. \A a \in Addr : (\E b \in blob : a = w[b]) =>
         /\ (CHOOSE b \in blob : a = w[b]) \in blob
         /\ a = w[CHOOSE b \in blob : a = w[b]]
  OBVIOUS
<1>3. \A b \in blob : w[b] \in Addr /\ BlobAddr(b) \in Addr
  BY <1>1, AddressesIn DEF TypeOK
<1>4. \A b \in blob : (CHOOSE c \in blob : w[b] = w[c]) = b
  BY <1>1
<1>5. \A a \in Addr : mem'[a] \in Content
  BY <1>2, <1>3 DEF TypeOK
<1>6. mem' \in [Addr -> Content]
  BY <1>5
<1>7. \A b \in blob : mem'[w[b]] = mem[BlobAddr(b)]
  BY <1>3, <1>4
<1>8. \A a \in Addr : a \notin Free => mem'[a] = mem[a]
  BY <1>1
<1> QED BY <1>6, <1>7, <1>8

\* Deserialize gives every record a window of its own, outside every overlay.
LEMMA DeserializeKeeps ==
    ASSUME IInv, NEW d \in Device, Deserialize(d)
    PROVE  IInv'
<1>1. PICK w \in Arenas :
         /\ dirty' = [dirty EXCEPT ![d] =
                        [b \in Block |-> IF b \in blob THEN w[b] ELSE NoBuf]]
         /\ mem' = [a \in Addr |->
                      IF \E b \in blob : a = w[b]
                      THEN mem[BlobAddr(CHOOSE b \in blob : a = w[b])]
                      ELSE mem[a]]
  BY DEF Deserialize
<1>2. /\ mem' \in [Addr -> Content]
      /\ \A a \in Addr : a \notin Free => mem'[a] = mem[a]
  BY <1>1, DeserializeMemory DEF IInv
<1>3. /\ w \in [blob -> Free] /\ Free \subseteq HeapAddrs
      /\ \A b, c \in blob : w[b] = w[c] => b = c
  BY DEF Arenas, Free
<1>4. /\ dirty' \in [Device -> [Block -> Addr \cup {NoBuf}]]
      /\ \A e \in Device, b \in Block :
            dirty'[e][b] = IF e = d
                           THEN IF b \in blob THEN w[b] ELSE NoBuf
                           ELSE dirty[e][b]
  BY <1>1, <1>3, AddressesIn DEF IInv, TypeOK
<1>5. \A e \in Device, b \in Block, c \in blob : dirty[e][b] # w[c]
  BY <1>3 DEF Free
<1>6. Separation'
  <2>1. ASSUME NEW e \in Device, NEW b \in Block
        PROVE  dirty'[e][b] \in HeapAddrs \cup {NoBuf}
    BY <1>3, <1>4 DEF IInv, Separation
  <2>2. ASSUME NEW e \in Device, NEW f \in Device, NEW b \in Block, NEW c \in Block,
               dirty'[e][b] = dirty'[f][c], dirty'[e][b] # NoBuf
        PROVE  e = f /\ b = c
    <3>1. CASE e = d /\ f = d
      BY <1>3, <1>4, <2>2, <3>1
    <3>2. CASE (e = d) # (f = d)
      BY <1>4, <1>5, <2>2, <3>2
    <3>3. CASE e # d /\ f # d
      BY <1>4, <2>2, <3>3 DEF IInv, Separation
    <3> QED BY <3>1, <3>2, <3>3
  <2> QED BY <2>1, <2>2 DEF Separation
<1>7. BaseIntact'
  BY <1>2, <1>3, AddressesIn, AddressesDistinct DEF IInv, BaseIntact
<1>8. TypeOK' /\ OpJudged'
  BY <1>2, <1>4, SameOpJudged DEF IInv, TypeOK, Deserialize
<1> QED BY <1>6, <1>7, <1>8 DEF IInv

\* Every step keeps the inductive invariant.
LEMMA NextIInv == IInv /\ [Next]_vars => IInv'
<1> SUFFICES ASSUME IInv, [Next]_vars PROVE IInv'
  OBVIOUS
<1>1. ASSUME NEW d \in Device, NEW off \in Offset, NEW n \in Length,
             ReadAt(d, off, n) \/ WriteAt(d, off, n)
      PROVE  IInv'
  <2>1. op' \in [Device -> [kind : Kind, off : Int, n : Nat, k : Nat]] /\ OpJudged'
    BY <1>1, BeginJudged DEF ReadAt, WriteAt
  <2>2. mem' = mem /\ dirty' = dirty /\ blob' = blob
    BY <1>1 DEF ReadAt, WriteAt, Begin
  <2> QED BY <2>1, <2>2 DEF IInv, TypeOK, Separation, BaseIntact
<1>2. ASSUME NEW d \in Device, Return(d) PROVE IInv'
  <2>1. op' \in [Device -> [kind : Kind, off : Int, n : Nat, k : Nat]] /\ OpJudged'
    BY <1>2, ReturnJudged
  <2> QED BY <1>2, <2>1 DEF Return, IInv, TypeOK, Separation, BaseIntact
<1>3. CASE UNCHANGED vars
  BY <1>3, SameOpJudged DEF vars, IInv, TypeOK, Separation, BaseIntact
<1> QED
  BY <1>1, <1>2, <1>3, CopyOutKeeps, CopyInKeeps, FillKeeps, NewKeeps,
     SerializeKeeps, DeserializeKeeps, ReuseBlobKeeps DEF Next

\* The inductive invariant gives ArgumentsJudged.
LEMMA IInvArguments == IInv => ArgumentsJudged
<1> SUFFICES ASSUME IInv, NEW d \in Device, op[d].kind # "idle"
             PROVE  /\ op[d].kind \in {"read", "write"}
                          <=> NamesBlocks(op[d].off, op[d].n)
                    /\ op[d].kind \in {"read", "write"} =>
                          /\ op[d].k <= Cnt(op[d])
                          /\ Lo(op[d]) + Cnt(op[d]) <= NBlocks
  BY DEF ArgumentsJudged
<1>1. op[d] # Idle
  BY DEF Idle
<1>2. op[d].kind \in {"read", "write"} <=> NamesBlocks(op[d].off, op[d].n)
  BY <1>1, CheckRangeNamesBlocks DEF IInv, OpJudged
<1> QED BY <1>2, ServedBounds DEF IInv

\* In every behaviour the invariant holds.
LEMMA SpecIInv == Spec => []IInv
BY InitIInv, NextIInv, PTL DEF Spec

\* Every variable always has its type.
THEOREM TypeCorrect == Spec => []TypeOK
<1>1. IInv => TypeOK
  BY DEF IInv
<1> QED BY <1>1, SpecIInv, PTL

\* The dirty buffers of all devices are always disjoint from each other and
\* from the base, the callers' slices and the blob.
THEOREM BuffersSeparate == Spec => []Separation
<1>1. IInv => Separation
  BY DEF IInv
<1> QED BY <1>1, SpecIInv, PTL

\* No call of any device ever modifies the base.
THEOREM BaseNeverModified == Spec => []BaseIntact
<1>1. IInv => BaseIntact
  BY DEF IInv
<1> QED BY <1>1, SpecIInv, PTL

\* checkRange serves exactly the requests that name whole blocks of the base,
\* for every int64 offset, and no loop leaves the base.
THEOREM ArgumentsAlwaysJudged == Spec => []ArgumentsJudged
BY IInvArguments, SpecIInv, PTL
-----------------------------------------------------------------------------
(* Isolation. *)

\* A device whose overlay and whose blocks' cells do not change reads the
\* same as before.
LEMMA ViewKept ==
    ASSUME NEW d \in Device, dirty'[d] = dirty[d],
           \A b \in Block : mem'[Src(d, b)] = mem[Src(d, b)]
    PROVE  View(d)' = View(d)
<1>1. \A b \in Block : Src(d, b)' = Src(d, b)
  BY DEF Src, NoBuf, BaseAddr
<1> QED BY <1>1 DEF View

\* The cell a block is read from is of the base or of the device's own heap
\* buffers: no caller's, no blob's, none that is free.
LEMMA SrcPrivate ==
    ASSUME IInv, NEW d \in Device, NEW b \in Block
    PROVE  /\ Src(d, b) \in Addr /\ Src(d, b) \notin Free
           /\ \A e, j : Src(d, b) # CallerAddr(e, j)
           /\ \A c : Src(d, b) # BlobAddr(c)
<1>1. Src(d, b) = BaseAddr(b) \/ (Src(d, b) = dirty[d][b] /\ dirty[d][b] \in HeapAddrs)
  BY DEF Src, IInv, Separation
<1>2. BaseAddr(b) \notin Free
  BY AddressesDistinct DEF Free
<1>3. dirty[d][b] \notin Free
  BY DEF Free
<1>4. Src(d, b) \in Addr
  BY SrcInMemory DEF IInv
<1> QED BY <1>1, <1>2, <1>3, <1>4, AddressesDistinct

\* Two devices never read a block of the heap from the same cell.
LEMMA SrcDisjoint ==
    ASSUME IInv, NEW d \in Device, NEW e \in Device, NEW b \in Block,
           NEW c \in Block, dirty[d][b] # NoBuf, Src(e, c) = dirty[d][b]
    PROVE  e = d /\ c = b
<1>1. dirty[d][b] \in HeapAddrs
  BY DEF IInv, Separation
<1>2. Src(e, c) = dirty[e][c]
  BY <1>1, AddressesDistinct DEF Src
<1>3. dirty[e][c] = dirty[d][b] /\ dirty[e][c] # NoBuf
  BY <1>2
<1>4. Separation
  BY DEF IInv
<1> QED BY <1>3, <1>4 DEF Separation

\* What a CopyIn of device d does to a cell another block is read from.
LEMMA CopyInElsewhere ==
    ASSUME IInv, NEW d \in Device, NEW b \in Block,
           NEW a \in (IF dirty[d][b] = NoBuf THEN Free ELSE {dirty[d][b]}),
           \A y \in Addr : y # a => mem'[y] = mem[y],
           NEW e \in Device, NEW c \in Block, e # d \/ c # b
    PROVE  mem'[Src(e, c)] = mem[Src(e, c)]
<1>1. Src(e, c) # a
  <2>1. CASE dirty[d][b] = NoBuf
    BY <2>1, SrcPrivate
  <2>2. CASE dirty[d][b] # NoBuf
    BY <2>2, SrcDisjoint
  <2> QED BY <2>1, <2>2
<1>2. Src(e, c) \in Addr
  BY SrcPrivate
<1> QED BY <1>1, <1>2

\* One step of Isolation.
LEMMA StepIsolated ==
    ASSUME IInv, [Next]_vars, NEW d \in Device, View(d)' # View(d)
    PROVE  op[d].kind = "write" \/ (op[d] = Idle /\ dirty'[d] # dirty[d])
<1> SUFFICES ASSUME ~(op[d].kind = "write"),
                    ~(op[d] = Idle /\ dirty'[d] # dirty[d])
             PROVE  View(d)' = View(d)
  OBVIOUS
<1>1. ASSUME NEW e \in Device, NEW off \in Offset, NEW n \in Length,
             ReadAt(e, off, n) \/ WriteAt(e, off, n)
      PROVE  View(d)' = View(d)
  BY <1>1, ViewKept DEF ReadAt, WriteAt, Begin
<1>2. ASSUME NEW e \in Device, CopyOut(e) PROVE View(d)' = View(d)
  BY <1>2, ViewKept, SrcPrivate DEF CopyOut, IInv, TypeOK
<1>3. ASSUME NEW e \in Device, CopyIn(e) PROVE View(d)' = View(d)
  <2>1. op[e].kind = "write" /\ op[e].k < Cnt(op[e])
    BY <1>3 DEF CopyIn, InLoop
  <2> DEFINE b == Cur(op[e])
  <2>2. b \in Block /\ e # d
    BY <2>1, ServedBounds DEF IInv
  <2>3. PICK a \in (IF dirty[e][b] = NoBuf THEN Free ELSE {dirty[e][b]}) :
           /\ dirty' = [dirty EXCEPT ![e][b] = a]
           /\ mem' = [mem EXCEPT ![a] = mem[CallerAddr(e, op[e].k)]]
    BY <1>3 DEF CopyIn
  <2> HIDE DEF b
  <2>4. \A c \in Block : mem'[Src(d, c)] = mem[Src(d, c)]
    <3>1. \A y \in Addr : y # a => mem'[y] = mem[y]
      BY <2>3 DEF IInv, TypeOK
    <3> QED BY <2>2, <2>3, <3>1, CopyInElsewhere
  <2>5. dirty'[d] = dirty[d]
    BY <2>2, <2>3 DEF IInv, TypeOK
  <2> QED BY <2>4, <2>5, ViewKept
<1>4. ASSUME NEW e \in Device, Return(e) PROVE View(d)' = View(d)
  BY <1>4, ViewKept DEF Return
<1>5. ASSUME NEW e \in Device, NEW j \in Slot, NEW c \in Content, Fill(e, j, c)
      PROVE  View(d)' = View(d)
  BY <1>5, ViewKept, SrcPrivate DEF Fill, IInv, TypeOK
<1>6. ASSUME NEW e \in Device, New(e) PROVE View(d)' = View(d)
  <2>1. dirty'[d] = dirty[d]
    BY <1>6 DEF New, IInv, TypeOK
  <2> QED BY <1>6, <2>1, ViewKept DEF New
<1>7. ASSUME NEW e \in Device, Serialize(e) PROVE View(d)' = View(d)
  <2>1. \A b \in Block : mem'[Src(d, b)] = mem[Src(d, b)]
    BY <1>7, SerializeMemory, SrcPrivate DEF IInv
  <2> QED BY <1>7, <2>1, ViewKept DEF Serialize
<1>8. ASSUME NEW e \in Device, Deserialize(e) PROVE View(d)' = View(d)
  <2>1. \A a \in Addr : a \notin Free => mem'[a] = mem[a]
    <3>1. PICK w \in Arenas :
             mem' = [a \in Addr |->
                       IF \E b \in blob : a = w[b]
                       THEN mem[BlobAddr(CHOOSE b \in blob : a = w[b])]
                       ELSE mem[a]]
      BY <1>8 DEF Deserialize
    <3> QED BY <3>1, DeserializeMemory DEF IInv
  <2>2. dirty'[d] = dirty[d]
    BY <1>8 DEF Deserialize, IInv, TypeOK
  <2> QED BY <2>1, <2>2, SrcPrivate, ViewKept
<1>9. ASSUME NEW b \in Block, NEW c \in Content, ReuseBlob(b, c)
      PROVE  View(d)' = View(d)
  BY <1>9, ViewKept, SrcPrivate DEF ReuseBlob, IInv, TypeOK
<1>10. CASE UNCHANGED vars
  BY <1>10, ViewKept DEF vars
<1> QED
  BY <1>1, <1>2, <1>3, <1>4, <1>5, <1>6, <1>7, <1>8, <1>9, <1>10 DEF Next

\* Devices that share a base are independent: only a device's own WriteAt or
\* its replacement changes what it reads as.
THEOREM DevicesIsolated == Spec => Isolation
<1>1. IInv /\ [Next]_vars =>
         [\A d \in Device : View(d)' # View(d) =>
              \/ op[d].kind = "write"
              \/ op[d] = Idle /\ dirty'[d] # dirty[d]]_vars
  BY StepIsolated
<1> QED BY <1>1, SpecIInv, PTL DEF Spec, Isolation

-----------------------------------------------------------------------------
(* BlockDevice implements FlatDisk: the interleaved block copies of ReadAt   *)
(* and WriteAt, the overlays and the arenas are indistinguishable from       *)
(* atomic calls on private flat disks.                                       *)

\* The blocks and slots still to be copied lie in the base and the buffer.
LEMMA LeftBounds ==
    ASSUME IInv, NEW d \in Device
    PROVE  /\ \A b \in Block : Left(d, "write", b - Lo(op[d])) =>
                 b - Lo(op[d]) \in Slot
           /\ \A j \in Slot : Left(d, "read", j) =>
                 Lo(op[d]) + j \in Block
<1>1. op[d].k \in Nat
  BY DEF IInv, TypeOK
<1>2. ASSUME NEW b \in Block, Left(d, "write", b - Lo(op[d]))
      PROVE  b - Lo(op[d]) \in Slot
  <2>1. Lo(op[d]) \in Nat /\ Cnt(op[d]) \in Nat /\ Cnt(op[d]) <= MaxBuf
    BY <1>2, ServedBounds DEF IInv, Left
  <2> QED BY <1>1, <1>2, <2>1, GeometryAssumption DEF Left, Slot, Block
<1>3. ASSUME NEW j \in Slot, Left(d, "read", j)
      PROVE  Lo(op[d]) + j \in Block
  <2>1. /\ Lo(op[d]) \in Nat /\ Cnt(op[d]) \in Nat
        /\ Lo(op[d]) + Cnt(op[d]) <= NBlocks
    BY <1>3, ServedBounds DEF IInv, Left
  <2> QED BY <1>1, <1>3, <2>1, GeometryAssumption DEF Left, Slot, Block
<1> QED BY <1>2, <1>3

\* Nothing is left of a call that has not begun or whose loop is done.
LEMMA IdleLeft ==
    ASSUME NEW d \in Device, op[d].kind \notin {"read", "write"}
    PROVE  \A kind \in {"read", "write"}, j \in Int : ~Left(d, kind, j)
BY DEF Left

\* A device none of whose state or cells change shows the same disk and
\* buffer as before.
LEMMA DeviceKept ==
    ASSUME IInv, NEW d \in Device, op'[d] = op[d], dirty'[d] = dirty[d],
           \A b \in Block : mem'[Src(d, b)] = mem[Src(d, b)],
           \A j \in Slot : mem'[CallerAddr(d, j)] = mem[CallerAddr(d, j)]
    PROVE  diskMap'[d] = diskMap[d] /\ bufMap'[d] = bufMap[d]
<1>1. \A b : Src(d, b)' = Src(d, b)
  BY DEF Src, NoBuf, BaseAddr
<1>2. /\ Lo(op[d])' = Lo(op[d])
      /\ \A kind, j : Left(d, kind, j)' <=> Left(d, kind, j)
  BY DEF Lo, Cnt, Left
<1>3. diskMap'[d] = diskMap[d]
  BY <1>1, <1>2, LeftBounds DEF diskMap
<1>4. bufMap'[d] = bufMap[d]
  BY <1>1, <1>2, LeftBounds DEF bufMap
<1> QED BY <1>3, <1>4

\* A step that touches neither the blob nor the base keeps the stored image.
LEMMA SavedKept ==
    ASSUME blob' = blob, 
           \A b \in Block : /\ mem'[BaseAddr(b)] = mem[BaseAddr(b)]
                            /\ mem'[BlobAddr(b)] = mem[BlobAddr(b)]
    PROVE  savedMap' = savedMap
BY DEF savedMap, BaseAddr, BlobAddr
\* Devices that all show what they showed, over the same stored image: a
\* stuttering step of FlatDisk.
LEMMA AllKeptStutters ==
    ASSUME \A d \in Device : diskMap'[d] = diskMap[d] /\ bufMap'[d] = bufMap[d],
           savedMap' = savedMap
    PROVE  UNCHANGED Flat!vars
<1>1. diskMap' = diskMap /\ bufMap' = bufMap
  BY DEF diskMap, bufMap
<1> QED BY <1>1 DEF Flat!vars

\* The call that begins: a served one takes effect at once, a refused one
\* has no effect.
LEMMA BeginRefines ==
    ASSUME IInv, IInv', NEW d \in Device, NEW off \in Offset, NEW n \in Length,
           NEW kind \in {"read", "write"}, Begin(d, kind, off, n)
    PROVE  [Flat!Next]_(Flat!vars)
<1> DEFINE lo == Lo(op'[d])
           cnt == Cnt(op'[d])
<1>1. /\ mem' = mem /\ dirty' = dirty /\ blob' = blob /\ op[d] = Idle
      /\ op' = [op EXCEPT ![d] =
                  [kind |-> IF checkRange(n, off) = "nil" THEN kind
                            ELSE checkRange(n, off),
                   off |-> off, n |-> n, k |-> 0]]
  BY DEF Begin
<1>2. \A e \in Device : e # d => op'[e] = op[e]
  BY <1>1 DEF IInv, TypeOK
<1>3. /\ \A e \in Device : e # d => diskMap'[e] = diskMap[e] /\ bufMap'[e] = bufMap[e]
      /\ savedMap' = savedMap
  BY <1>1, <1>2, DeviceKept, SavedKept
<1>4. /\ op'[d].k = 0
      /\ op'[d].kind \in {kind, "ErrUnaligned", "ErrOutOfRange"}
  BY <1>1 DEF IInv, TypeOK, checkRange
<1>5. \A b : Src(d, b)' = Src(d, b)
  BY <1>1 DEF Src, NoBuf, BaseAddr
<1>6. /\ diskMap[d] = [b \in Block |-> mem[Src(d, b)]]
      /\ bufMap[d] = [j \in Slot |-> mem[CallerAddr(d, j)]]
  BY <1>1 DEF diskMap, bufMap, Left, Idle
<1>7. CASE op'[d].kind \notin {"read", "write"}
  <2>1. diskMap'[d] = diskMap[d] /\ bufMap'[d] = bufMap[d]
    BY <1>1, <1>5, <1>6, <1>7 DEF diskMap, bufMap, Left, CallerAddr
  <2> QED BY <1>3, <2>1, AllKeptStutters
<1>8. CASE op'[d].kind \in {"read", "write"}
  <2>1. /\ lo \in Nat /\ cnt \in Nat /\ lo + cnt <= NBlocks /\ cnt <= MaxBuf
    <3>1. TypeOK' /\ OpJudged'
      BY DEF IInv
    <3>2. op'[d] \in [kind : Kind, off : Int, n : Nat, k : Nat] /\ op'[d] # Idle
      BY <3>1, <1>8 DEF TypeOK, Idle
    <3>3. /\ op'[d].off \in Offset /\ op'[d].n \in Length
          /\ checkRange(op'[d].n, op'[d].off) = "nil"
      BY <3>1, <3>2, <1>8 DEF OpJudged, checkRange, Idle
    <3> QED BY <3>2, <3>3, AcceptedBounds
  <2>2. lo \in 0 .. NBlocks /\ cnt \in 0 .. MaxBuf
    BY <2>1, GeometryAssumption
  <2>3. /\ \A b \in Block : 0 <= b - lo /\ b - lo < cnt <=> lo <= b /\ b < lo + cnt
        /\ \A j \in Slot : 0 <= j
    BY <2>1, GeometryAssumption DEF Block, Slot
  <2> HIDE DEF lo, cnt
  <2>4. CASE kind = "read"
    <3>1. op'[d].kind = "read"
      BY <1>4, <1>8, <2>4
    <3>2. \A j : Left(d, "read", j)' <=> 0 <= j /\ j < cnt
      BY <1>4, <3>1 DEF Left, cnt, Cnt
    <3>3. \A j : ~(Left(d, "write", j)')
      BY <3>1 DEF Left
    <3>4. diskMap'[d] = diskMap[d]
      BY <1>1, <1>5, <1>6, <3>3 DEF diskMap
    <3>5. \A j \in Slot : j < cnt => lo + j \in Block
      BY <2>1, GeometryAssumption DEF Block, Slot
    <3>6. bufMap'[d] = [j \in Slot |-> IF j < cnt THEN diskMap[d][lo + j]
                                       ELSE bufMap[d][j]]
      BY <1>1, <1>5, <1>6, <2>3, <3>2, <3>5 DEF bufMap, lo, Lo, CallerAddr
    <3>7. /\ diskMap' = diskMap
          /\ bufMap' = [bufMap EXCEPT ![d] =
                          [j \in Slot |-> IF j < cnt THEN diskMap[d][lo + j]
                                          ELSE @[j]]]
      BY <1>3, <3>4, <3>6 DEF diskMap, bufMap
    <3>8. Flat!Read(d, lo, cnt)
      BY <2>1, <1>3, <3>7 DEF Flat!Read, Flat!Slot, Slot
    <3> QED BY <2>2, <3>8 DEF Flat!Next
  <2>5. CASE kind = "write"
    <3>1. op'[d].kind = "write"
      BY <1>4, <1>8, <2>5
    <3>2. \A j : ~(Left(d, "read", j)')
      BY <3>1 DEF Left
    <3>4. bufMap'[d] = bufMap[d]
      BY <1>1, <1>5, <1>6, <3>2 DEF bufMap, CallerAddr
    <3>5. \A b \in Block : lo <= b /\ b < lo + cnt => b - lo \in Slot
      BY <2>1, GeometryAssumption DEF Block, Slot
    <3>6. diskMap'[d] = [b \in Block |-> IF lo <= b /\ b < lo + cnt
                                         THEN bufMap[d][b - lo]
                                         ELSE diskMap[d][b]]
      <4>1. diskMap'[d] = [b \in Block |-> IF 0 <= b - lo /\ b - lo < cnt
                                           THEN mem[CallerAddr(d, b - lo)]
                                           ELSE mem[Src(d, b)]]
        BY <1>1, <1>4, <1>5, <3>1 DEF diskMap, Left, lo, Lo, cnt, Cnt, CallerAddr
      <4>2. \A b \in Block : lo <= b /\ b < lo + cnt =>
               bufMap[d][b - lo] = mem[CallerAddr(d, b - lo)]
        BY <1>6, <3>5
      <4>3. \A b \in Block : diskMap[d][b] = mem[Src(d, b)]
        BY <1>6
      <4> QED BY <2>3, <4>1, <4>2, <4>3
    <3>7. /\ bufMap' = bufMap
          /\ diskMap' = [diskMap EXCEPT ![d] =
                           [b \in Block |-> IF lo <= b /\ b < lo + cnt
                                            THEN bufMap[d][b - lo] ELSE @[b]]]
      BY <1>3, <3>4, <3>6 DEF diskMap, bufMap
    <3>8. Flat!Write(d, lo, cnt)
      BY <2>1, <1>3, <3>7 DEF Flat!Write, Flat!Block, Block
    <3> QED BY <2>2, <3>8 DEF Flat!Next
  <2> QED BY <2>4, <2>5
<1> QED BY <1>7, <1>8
\* One block copied out by ReadAt: the slot now holds what it counted as.
LEMMA CopyOutRefines ==
    ASSUME IInv, NEW d \in Device, CopyOut(d)
    PROVE  UNCHANGED Flat!vars
<1> DEFINE o == op[d]
           a == CallerAddr(d, o.k)
<1>1. /\ o.kind = "read" /\ o.k < Cnt(o) /\ blob' = blob /\ dirty' = dirty
      /\ mem' = [mem EXCEPT ![a] = mem[Src(d, Cur(o))]]
      /\ op' = [op EXCEPT ![d].k = @ + 1]
  BY DEF CopyOut, InLoop, Advance
<1>2. /\ Lo(o) \in Nat /\ Cnt(o) \in Nat /\ o.k \in Slot /\ o.k \in Nat
      /\ Cur(o) = Lo(o) + o.k /\ Cur(o) \in Block
  BY <1>1, ServedBounds DEF IInv, TypeOK, Cur
<1>3. \A y \in Addr : mem'[y] = IF y = a THEN mem[Src(d, Cur(o))] ELSE mem[y]
  BY <1>1 DEF IInv, TypeOK
<1>4. \A e \in Device, b \in Block : mem'[Src(e, b)] = mem[Src(e, b)]
  BY <1>3, SrcPrivate
<1>5. savedMap' = savedMap
  BY <1>1, <1>3, AddressesIn, AddressesDistinct, SavedKept
<1>6. ASSUME NEW e \in Device, e # d
      PROVE  diskMap'[e] = diskMap[e] /\ bufMap'[e] = bufMap[e]
  <2>1. op'[e] = op[e] /\ dirty'[e] = dirty[e]
    BY <1>1, <1>6 DEF IInv, TypeOK
  <2>2. \A j \in Slot : mem'[CallerAddr(e, j)] = mem[CallerAddr(e, j)]
    BY <1>3, <1>6, AddressesIn, AddressesInjective
  <2> QED BY <1>4, <2>1, <2>2, DeviceKept
<1>7. /\ op'[d].kind = "read" /\ op'[d].k = o.k + 1
      /\ op'[d].off = o.off /\ op'[d].n = o.n
  BY <1>1 DEF IInv, TypeOK
<1>8. \A b : Src(d, b)' = Src(d, b)
  BY <1>1 DEF Src, NoBuf, BaseAddr
<1>9. diskMap'[d] = diskMap[d]
  BY <1>1, <1>4, <1>7, <1>8 DEF diskMap, Left
<1>10. bufMap'[d] = bufMap[d]
  <2>1. bufMap'[d] = [j \in Slot |->
           IF o.k + 1 <= j /\ j < Cnt(o) THEN mem'[Src(d, Lo(o) + j)]
           ELSE mem'[CallerAddr(d, j)]]
    BY <1>7, <1>8 DEF bufMap, Left, Lo, Cnt, CallerAddr
  <2>2. bufMap[d] = [j \in Slot |->
           IF o.k <= j /\ j < Cnt(o) THEN mem[Src(d, Lo(o) + j)]
           ELSE mem[CallerAddr(d, j)]]
    BY <1>1 DEF bufMap, Left
  <2>3. ASSUME NEW j \in Slot, o.k + 1 <= j, j < Cnt(o)
        PROVE  mem'[Src(d, Lo(o) + j)] = mem[Src(d, Lo(o) + j)] /\ o.k <= j
    <3>1. Left(d, "read", j)
      BY <1>1, <1>2, <2>3 DEF Left, Slot
    <3>2. Lo(o) + j \in Block
      BY <3>1, LeftBounds
    <3> QED BY <1>2, <1>4, <2>3, <3>2 DEF Slot
  <2>4. ASSUME NEW j \in Slot, ~(o.k + 1 <= j /\ j < Cnt(o))
        PROVE  mem'[CallerAddr(d, j)] = IF o.k <= j /\ j < Cnt(o)
                                        THEN mem[Src(d, Lo(o) + j)]
                                        ELSE mem[CallerAddr(d, j)]
    <3>1. CASE j = o.k
      BY <1>1, <1>2, <1>3, <3>1, AddressesIn
    <3>2. CASE j # o.k
      <4>1. ~(o.k <= j /\ j < Cnt(o))
        BY <1>2, <2>4, <3>2 DEF Slot
      <4>2. CallerAddr(d, j) # a /\ CallerAddr(d, j) \in Addr
        BY <3>2, AddressesInjective, AddressesIn
      <4> QED BY <1>3, <4>1, <4>2
    <3> QED BY <3>1, <3>2
  <2> HIDE DEF o, a
  <2> QED BY <2>1, <2>2, <2>3, <2>4
<1> QED BY <1>5, <1>6, <1>9, <1>10, AllKeptStutters
\* One block copied in by WriteAt: the block now holds what it counted as.
LEMMA CopyInRefines ==
    ASSUME IInv, NEW d \in Device, CopyIn(d)
    PROVE  UNCHANGED Flat!vars
<1> DEFINE o == op[d]
           cb == Cur(o)
<1>1. /\ o.kind = "write" /\ o.k < Cnt(o) /\ blob' = blob
      /\ op' = [op EXCEPT ![d].k = @ + 1]
  BY DEF CopyIn, InLoop, Advance
<1>2. /\ Lo(o) \in Nat /\ Cnt(o) \in Nat /\ o.k \in Slot /\ o.k \in Nat
      /\ cb = Lo(o) + o.k /\ cb \in Block
  BY <1>1, ServedBounds DEF IInv, TypeOK, Cur
<1>3. PICK a \in (IF dirty[d][cb] = NoBuf THEN Free ELSE {dirty[d][cb]}) :
         /\ dirty' = [dirty EXCEPT ![d][cb] = a]
         /\ mem' = [mem EXCEPT ![a] = mem[CallerAddr(d, o.k)]]
  BY DEF CopyIn
<1> HIDE DEF cb
<1>4. a \in HeapAddrs /\ a \in Addr /\ a # NoBuf
  BY <1>2, <1>3, AddressesIn, AddressesDistinct DEF IInv, Separation, Free
<1>5. \A y \in Addr : mem'[y] = IF y = a THEN mem[CallerAddr(d, o.k)] ELSE mem[y]
  BY <1>3 DEF IInv, TypeOK
<1>6. \A e \in Device, b \in Block :
         e # d \/ b # cb => mem'[Src(e, b)] = mem[Src(e, b)]
  BY <1>2, <1>3, <1>5, CopyInElsewhere
<1>7. \A e \in Device, j \in Slot : mem'[CallerAddr(e, j)] = mem[CallerAddr(e, j)]
  BY <1>4, <1>5, AddressesIn, AddressesDistinct
<1>8. savedMap' = savedMap
  BY <1>1, <1>4, <1>5, AddressesIn, AddressesDistinct, SavedKept
<1>9. ASSUME NEW e \in Device, e # d
      PROVE  diskMap'[e] = diskMap[e] /\ bufMap'[e] = bufMap[e]
  <2>1. op'[e] = op[e] /\ dirty'[e] = dirty[e]
    BY <1>1, <1>3, <1>9 DEF IInv, TypeOK
  <2> QED BY <1>6, <1>7, <1>9, <2>1, DeviceKept
<1>10. /\ op'[d].kind = "write" /\ op'[d].k = o.k + 1
       /\ op'[d].off = o.off /\ op'[d].n = o.n
  BY <1>1 DEF IInv, TypeOK
<1>11. bufMap'[d] = bufMap[d]
  BY <1>1, <1>7, <1>10 DEF bufMap, Left, CallerAddr
<1>12. diskMap'[d] = diskMap[d]
  <2>1. \A b \in Block : dirty'[d][b] = IF b = cb THEN a ELSE dirty[d][b]
    BY <1>2, <1>3 DEF IInv, TypeOK
  <2>2. \A b \in Block : Src(d, b)' = IF b = cb THEN a ELSE Src(d, b)
    BY <1>4, <2>1 DEF Src, NoBuf, BaseAddr
  <2>3. diskMap'[d] = [b \in Block |->
           IF o.k + 1 <= b - Lo(o) /\ b - Lo(o) < Cnt(o)
           THEN mem'[CallerAddr(d, b - Lo(o))]
           ELSE mem'[IF b = cb THEN a ELSE Src(d, b)]]
    BY <1>10, <2>2 DEF diskMap, Left, Lo, Cnt, CallerAddr
  <2>4. diskMap[d] = [b \in Block |->
           IF o.k <= b - Lo(o) /\ b - Lo(o) < Cnt(o)
           THEN mem[CallerAddr(d, b - Lo(o))] ELSE mem[Src(d, b)]]
    BY <1>1 DEF diskMap, Left
  <2>5. ASSUME NEW b \in Block, o.k + 1 <= b - Lo(o), b - Lo(o) < Cnt(o)
        PROVE  /\ mem'[CallerAddr(d, b - Lo(o))] = mem[CallerAddr(d, b - Lo(o))]
               /\ o.k <= b - Lo(o)
    <3>1. o.k <= b - Lo(o)
      BY <1>2, <2>5 DEF Block
    <3>2. Left(d, "write", b - Lo(o))
      BY <1>1, <2>5, <3>1 DEF Left
    <3>3. b - Lo(o) \in Slot
      BY <3>2, LeftBounds
    <3> QED BY <1>7, <3>1, <3>3
  <2>6. ASSUME NEW b \in Block, ~(o.k + 1 <= b - Lo(o) /\ b - Lo(o) < Cnt(o))
        PROVE  mem'[IF b = cb THEN a ELSE Src(d, b)] =
                  IF o.k <= b - Lo(o) /\ b - Lo(o) < Cnt(o)
                  THEN mem[CallerAddr(d, b - Lo(o))] ELSE mem[Src(d, b)]
    <3>1. CASE b = cb
      <4>1. b - Lo(o) = o.k
        BY <1>2, <3>1 DEF Block
      <4> QED BY <1>1, <1>2, <1>4, <1>5, <3>1, <4>1
    <3>2. CASE b # cb
      <4>1. ~(o.k <= b - Lo(o) /\ b - Lo(o) < Cnt(o))
        BY <1>2, <2>6, <3>2 DEF Block
      <4> QED BY <1>6, <3>2, <4>1
    <3> QED BY <3>1, <3>2
  <2> HIDE DEF o
  <2> QED BY <2>3, <2>4, <2>5, <2>6
<1> QED BY <1>8, <1>9, <1>11, <1>12, AllKeptStutters

\* The return of a call: nothing of it was left.
LEMMA ReturnRefines ==
    ASSUME IInv, NEW d \in Device, Return(d)
    PROVE  UNCHANGED Flat!vars
<1>1. /\ mem' = mem /\ dirty' = dirty /\ blob' = blob
      /\ op' = [op EXCEPT ![d] = Idle]
      /\ op[d].kind \in {"read", "write"} => op[d].k = Cnt(op[d])
  BY DEF Return
<1>2. ASSUME NEW e \in Device, e # d
      PROVE  diskMap'[e] = diskMap[e] /\ bufMap'[e] = bufMap[e]
  <2>1. op'[e] = op[e]
    BY <1>1, <1>2 DEF IInv, TypeOK
  <2> QED BY <1>1, <2>1, DeviceKept
<1>3. op'[d].kind = "idle"
  BY <1>1 DEF IInv, TypeOK, Idle
<1>4. \A j \in Int, kind \in {"read", "write"} : ~Left(d, kind, j)
  <2>1. op[d].kind \in {"read", "write"} => Cnt(op[d]) \in Nat
    BY ServedBounds DEF IInv
  <2> QED BY <1>1, <2>1 DEF Left
<1>5. \A b : Src(d, b)' = Src(d, b)
  BY <1>1 DEF Src, NoBuf, BaseAddr
<1>6. \A b \in Block : Left(d, "write", b - Lo(op[d])) => b - Lo(op[d]) \in Int
  BY LeftBounds DEF Slot
<1>7. \A b \in Block : ~Left(d, "write", b - Lo(op[d]))
  BY <1>4, <1>6
<1>8. \A j \in Slot : ~Left(d, "read", j)
  BY <1>4 DEF Slot
<1>9. diskMap'[d] = diskMap[d] /\ bufMap'[d] = bufMap[d]
  <2>1. diskMap'[d] = [b \in Block |-> mem[Src(d, b)]]
    BY <1>1, <1>3, <1>5 DEF diskMap, Left
  <2>2. bufMap'[d] = [j \in Slot |-> mem[CallerAddr(d, j)]]
    BY <1>1, <1>3 DEF bufMap, Left, CallerAddr
  <2> QED BY <2>1, <2>2, <1>7, <1>8 DEF diskMap, bufMap
<1>10. savedMap' = savedMap
  BY <1>1, SavedKept
<1> QED BY <1>2, <1>9, <1>10, AllKeptStutters
\* What an idle device shows: its overlay over the base, and its buffer.
LEMMA IdleShows ==
    ASSUME NEW d \in Device, op[d] = Idle
    PROVE  /\ diskMap[d] = [b \in Block |-> mem[Src(d, b)]]
           /\ bufMap[d] = [j \in Slot |-> mem[CallerAddr(d, j)]]
BY DEF diskMap, bufMap, Left, Idle

\* The caller of the detailed device fills the buffer of the flat one.
LEMMA FillRefines ==
    ASSUME IInv, NEW d \in Device, NEW j \in Slot, NEW c \in Content, Fill(d, j, c)
    PROVE  Flat!Fill(d, j, c)
<1>1. /\ op[d] = Idle /\ op' = op /\ dirty' = dirty /\ blob' = blob
      /\ \A y \in Addr : mem'[y] = IF y = CallerAddr(d, j) THEN c ELSE mem[y]
  BY DEF Fill, IInv, TypeOK
<1>2. \A e \in Device, b \in Block : mem'[Src(e, b)] = mem[Src(e, b)]
  BY <1>1, SrcPrivate
<1>3. \A e \in Device, i \in Slot : e # d =>
         mem'[CallerAddr(e, i)] = mem[CallerAddr(e, i)]
  BY <1>1, AddressesIn, AddressesInjective
<1>4. \A e \in Device : e # d => diskMap'[e] = diskMap[e] /\ bufMap'[e] = bufMap[e]
  BY <1>1, <1>2, <1>3, DeviceKept
<1>5. \A b : Src(d, b)' = Src(d, b)
  BY <1>1 DEF Src, NoBuf, BaseAddr
<1>6. diskMap'[d] = diskMap[d]
  BY <1>1, <1>2, <1>5 DEF diskMap, Left, Idle
<1>7. bufMap'[d] = [i \in Slot |-> mem'[CallerAddr(d, i)]]
  BY <1>1 DEF bufMap, Left, Idle, CallerAddr
<1>8. \A i \in Slot : mem'[CallerAddr(d, i)] =
         IF i = j THEN c ELSE mem[CallerAddr(d, i)]
  BY <1>1, AddressesIn, AddressesInjective
<1>9. bufMap'[d] = [bufMap[d] EXCEPT ![j] = c]
  <2>1. bufMap[d] = [i \in Slot |-> mem[CallerAddr(d, i)]]
    BY <1>1, IdleShows
  <2> QED BY <1>7, <1>8, <2>1
<1>10. diskMap' = diskMap /\ bufMap' = [bufMap EXCEPT ![d][j] = c]
  BY <1>4, <1>6, <1>9 DEF diskMap, bufMap
<1>11. savedMap' = savedMap
  BY <1>1, AddressesIn, AddressesDistinct, SavedKept
<1> QED BY <1>10, <1>11 DEF Flat!Fill

\* New resets the flat disk to the base.
LEMMA NewRefines ==
    ASSUME IInv, NEW d \in Device, New(d)
    PROVE  Flat!Reset(d)
<1>1. /\ op[d] = Idle /\ op' = op /\ mem' = mem /\ blob' = blob
      /\ dirty' = [dirty EXCEPT ![d] = EmptyOverlay]
  BY DEF New
<1>2. /\ \A b \in Block : dirty'[d][b] = NoBuf
      /\ \A e \in Device : e # d => dirty'[e] = dirty[e]
  BY <1>1 DEF IInv, TypeOK, EmptyOverlay
<1>3. \A e \in Device : e # d => diskMap'[e] = diskMap[e] /\ bufMap'[e] = bufMap[e]
  BY <1>1, <1>2, DeviceKept
<1>4. \A b \in Block : Src(d, b)' = BaseAddr(b)
  BY <1>2 DEF Src, NoBuf, BaseAddr
<1>5. diskMap'[d] = [b \in Block |-> mem[BaseAddr(b)]]
  BY <1>1, <1>4 DEF diskMap, Left, Idle
<1>6. diskMap'[d] = BaseImage
  BY <1>5, ContentAssumption DEF IInv, BaseIntact
<1>7. bufMap'[d] = bufMap[d]
  BY <1>1 DEF bufMap, Left, Idle, CallerAddr
<1>8. bufMap' = bufMap /\ diskMap' = [diskMap EXCEPT ![d] = BaseImage]
  BY <1>3, <1>6, <1>7 DEF diskMap, bufMap
<1>9. savedMap' = savedMap
  BY <1>1, SavedKept
<1> QED BY <1>8, <1>9 DEF Flat!Reset

\* Serialize saves what the flat disk shows.
LEMMA SerializeRefines ==
    ASSUME IInv, NEW d \in Device, Serialize(d)
    PROVE  Flat!Save(d)
<1>1. /\ op[d] = Idle /\ op' = op /\ dirty' = dirty
      /\ blob' = {b \in Block : dirty[d][b] # NoBuf}
  BY DEF Serialize
<1>2. /\ \A b \in blob' : mem'[BlobAddr(b)] = mem[dirty[d][b]]
      /\ \A a \in Addr : (\A b : a # BlobAddr(b)) => mem'[a] = mem[a]
  BY SerializeMemory DEF IInv
<1>3. \A e \in Device, b \in Block : mem'[Src(e, b)] = mem[Src(e, b)]
  BY <1>2, SrcPrivate
<1>4. \A e \in Device, j \in Slot : mem'[CallerAddr(e, j)] = mem[CallerAddr(e, j)]
  BY <1>2, AddressesIn, AddressesDistinct
<1>5. \A e \in Device : diskMap'[e] = diskMap[e] /\ bufMap'[e] = bufMap[e]
  BY <1>1, <1>3, <1>4, DeviceKept
<1>6. diskMap' = diskMap /\ bufMap' = bufMap
  BY <1>5 DEF diskMap, bufMap
<1>7. \A b \in Block : mem'[BaseAddr(b)] = mem[BaseAddr(b)]
  BY <1>2, AddressesIn, AddressesDistinct
<1>8. savedMap' = [b \in Block |-> IF b \in blob' THEN mem'[BlobAddr(b)]
                                   ELSE mem'[BaseAddr(b)]]
  BY DEF savedMap, BlobAddr, BaseAddr
<1>9. savedMap' = [b \in Block |-> mem[Src(d, b)]]
  BY <1>1, <1>2, <1>7, <1>8 DEF Src
<1>10. savedMap' = diskMap[d]
  BY <1>1, <1>9, IdleShows
<1> QED BY <1>6, <1>10 DEF Flat!Save

\* Deserialize loads the saved image.
LEMMA DeserializeRefines ==
    ASSUME IInv, NEW d \in Device, Deserialize(d)
    PROVE  Flat!Load(d)
<1>1. op[d] = Idle /\ op' = op /\ blob' = blob
  BY DEF Deserialize
<1>2. PICK w \in Arenas :
         /\ dirty' = [dirty EXCEPT ![d] =
                        [b \in Block |-> IF b \in blob THEN w[b] ELSE NoBuf]]
         /\ mem' = [a \in Addr |->
                      IF \E b \in blob : a = w[b]
                      THEN mem[BlobAddr(CHOOSE b \in blob : a = w[b])]
                      ELSE mem[a]]
  BY DEF Deserialize
<1>3. /\ \A b \in blob : mem'[w[b]] = mem[BlobAddr(b)]
      /\ \A a \in Addr : a \notin Free => mem'[a] = mem[a]
  BY <1>2, DeserializeMemory DEF IInv
<1>4. \A b \in blob : w[b] \in HeapAddrs
  BY DEF Arenas, Free
<1>5. /\ \A b \in Block : dirty'[d][b] = IF b \in blob THEN w[b] ELSE NoBuf
      /\ \A e \in Device : e # d => dirty'[e] = dirty[e]
  BY <1>2 DEF IInv, TypeOK
<1>6. \A e \in Device, b \in Block : mem'[Src(e, b)] = mem[Src(e, b)]
  BY <1>3, SrcPrivate
<1>7. /\ \A e \in Device, j \in Slot :
            mem'[CallerAddr(e, j)] = mem[CallerAddr(e, j)]
      /\ \A b \in Block : /\ mem'[BaseAddr(b)] = mem[BaseAddr(b)]
                          /\ mem'[BlobAddr(b)] = mem[BlobAddr(b)]
  BY <1>3, AddressesIn, AddressesDistinct DEF Free
<1>8. \A e \in Device : e # d => diskMap'[e] = diskMap[e] /\ bufMap'[e] = bufMap[e]
  BY <1>1, <1>5, <1>6, <1>7, DeviceKept
<1>9. \A b \in Block : Src(d, b)' = IF b \in blob THEN w[b] ELSE BaseAddr(b)
  BY <1>4, <1>5, AddressesDistinct DEF Src, NoBuf, BaseAddr
<1>10. diskMap'[d] = [b \in Block |-> mem'[IF b \in blob THEN w[b] ELSE BaseAddr(b)]]
  BY <1>1, <1>9 DEF diskMap, Left, Idle
<1>11. diskMap'[d] = savedMap
  BY <1>3, <1>7, <1>10 DEF savedMap
<1>12. bufMap'[d] = bufMap[d]
  BY <1>1, <1>7 DEF bufMap, Left, Idle, CallerAddr
<1>13. bufMap' = bufMap /\ diskMap' = [diskMap EXCEPT ![d] = savedMap]
  BY <1>8, <1>11, <1>12 DEF diskMap, bufMap
<1>14. savedMap' = savedMap
  BY <1>1, <1>7, SavedKept
<1> QED BY <1>13, <1>14 DEF Flat!Load

\* Reusing the blob patches the saved image and no disk.
LEMMA ReuseBlobRefines ==
    ASSUME IInv, NEW b \in Block, NEW c \in Content, ReuseBlob(b, c)
    PROVE  Flat!Patch(b, c)
<1>1. /\ b \in blob /\ op' = op /\ dirty' = dirty /\ blob' = blob
      /\ \A y \in Addr : mem'[y] = IF y = BlobAddr(b) THEN c ELSE mem[y]
  BY DEF ReuseBlob, IInv, TypeOK
<1>2. \A e \in Device, x \in Block : mem'[Src(e, x)] = mem[Src(e, x)]
  BY <1>1, SrcPrivate
<1>3. \A e \in Device, j \in Slot : mem'[CallerAddr(e, j)] = mem[CallerAddr(e, j)]
  BY <1>1, AddressesIn, AddressesDistinct
<1>4. \A e \in Device : diskMap'[e] = diskMap[e] /\ bufMap'[e] = bufMap[e]
  BY <1>1, <1>2, <1>3, DeviceKept
<1>5. diskMap' = diskMap /\ bufMap' = bufMap
  BY <1>4 DEF diskMap, bufMap
<1>6. \A x \in Block :
         /\ mem'[BaseAddr(x)] = mem[BaseAddr(x)]
         /\ mem'[BlobAddr(x)] = IF x = b THEN c ELSE mem[BlobAddr(x)]
  BY <1>1, AddressesIn, AddressesDistinct, AddressesInjective
<1>7. savedMap' = [x \in Block |-> IF x \in blob THEN mem'[BlobAddr(x)]
                                   ELSE mem'[BaseAddr(x)]]
  BY <1>1 DEF savedMap, BlobAddr, BaseAddr
<1>8. savedMap' = [savedMap EXCEPT ![b] = c]
  BY <1>1, <1>6, <1>7 DEF savedMap
<1> QED BY <1>5, <1>8 DEF Flat!Patch

-----------------------------------------------------------------------------
\* The initial states are initial states of the flat disks.
LEMMA InitRefines == Init => Flat!Init
<1> SUFFICES ASSUME Init PROVE Flat!Init
  OBVIOUS
<1>1. \A d \in Device : op[d] = Idle /\ \A b \in Block : Src(d, b) = BaseAddr(b)
  BY DEF Init, EmptyOverlay, Src
<1>2. \A d \in Device : /\ diskMap[d] = [b \in Block |-> mem[BaseAddr(b)]]
                        /\ bufMap[d] = [j \in Slot |-> mem[CallerAddr(d, j)]]
  BY <1>1, IdleShows
<1>3. [b \in Block |-> mem[BaseAddr(b)]] = BaseImage
  BY ContentAssumption DEF Init
<1>4. diskMap = [d \in Device |-> BaseImage]
  BY <1>2, <1>3 DEF diskMap
<1>5. bufMap \in [Device -> [Slot -> Content]]
  <2>1. \A d \in Device, j \in Slot : mem[CallerAddr(d, j)] \in Content
    BY AddressesIn DEF Init
  <2>2. \A d \in Device : bufMap[d] \in [Slot -> Content]
    BY <1>2, <2>1
  <2> QED BY <2>2 DEF bufMap
<1>6. savedMap = BaseImage
  BY <1>3 DEF Init, savedMap
<1> QED BY <1>4, <1>5, <1>6 DEF Flat!Init, Flat!Slot, Slot

\* Every step is a step of the flat disks or leaves them as they are.
LEMMA NextRefines == IInv /\ IInv' /\ [Next]_vars => [Flat!Next]_(Flat!vars)
<1> SUFFICES ASSUME IInv, IInv', [Next]_vars PROVE [Flat!Next]_(Flat!vars)
  OBVIOUS
<1>0. Flat!Block = Block /\ Flat!Slot = Slot
  BY DEF Flat!Block, Block, Flat!Slot, Slot
<1>1. ASSUME NEW d \in Device, NEW off \in Offset, NEW n \in Length,
             ReadAt(d, off, n) \/ WriteAt(d, off, n)
      PROVE  [Flat!Next]_(Flat!vars)
  BY <1>1, BeginRefines DEF ReadAt, WriteAt
<1>2. ASSUME NEW d \in Device, CopyOut(d) \/ CopyIn(d) \/ Return(d)
      PROVE  [Flat!Next]_(Flat!vars)
  BY <1>2, CopyOutRefines, CopyInRefines, ReturnRefines
<1>3. ASSUME NEW d \in Device, NEW j \in Slot, NEW c \in Content, Fill(d, j, c)
      PROVE  [Flat!Next]_(Flat!vars)
  BY <1>0, <1>3, FillRefines DEF Flat!Next
<1>4. ASSUME NEW d \in Device, New(d) \/ Serialize(d) \/ Deserialize(d)
      PROVE  [Flat!Next]_(Flat!vars)
  BY <1>4, NewRefines, SerializeRefines, DeserializeRefines DEF Flat!Next
<1>5. ASSUME NEW b \in Block, NEW c \in Content, ReuseBlob(b, c)
      PROVE  [Flat!Next]_(Flat!vars)
  BY <1>0, <1>5, ReuseBlobRefines DEF Flat!Next
<1>6. ASSUME UNCHANGED vars PROVE UNCHANGED Flat!vars
  <2>1. \A d \in Device : diskMap'[d] = diskMap[d] /\ bufMap'[d] = bufMap[d]
    BY <1>6, DeviceKept DEF vars
  <2>2. savedMap' = savedMap
    BY <1>6, SavedKept DEF vars
  <2> QED BY <2>1, <2>2, AllKeptStutters
<1> QED BY <1>1, <1>2, <1>3, <1>4, <1>5, <1>6 DEF Next

\* The devices of blockdevice.go, with every interleaving of their copies,
\* implement atomic, independent flat disks with frozen stored images.
THEOREM FlatDiskImplemented == Spec => ImplementsFlatDisk
BY InitRefines, NextRefines, SpecIInv, PTL DEF Spec, Flat!Spec, ImplementsFlatDisk
=============================================================================
