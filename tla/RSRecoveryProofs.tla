-------------------------- MODULE RSRecoveryProofs --------------------------
(***************************************************************************)
(* Proofs about RSRecovery, for any number of blocks, contents, damages,   *)
(* bases and geometries: that the medium leaves of what SerializeRS wrote  *)
(* what the lemmas of FormatProofs need, and what follows from them.       *)
(***************************************************************************)
EXTENDS RSRecovery, FormatProofs

-----------------------------------------------------------------------------
(* The inductive invariant. *)

RInv ==
    /\ phase # "live" => Stored(blob, faulted, origin)
    /\ phase = "resumed" => res = DeserializeL2(blob, base, wild)

-----------------------------------------------------------------------------
(* The invariant. *)

\* It holds initially.
LEMMA InitRInv == Init => TypeOK /\ RInv
<1> SUFFICES ASSUME Init PROVE TypeOK /\ RInv
  OBVIOUS
<1> USE DEF Init
<1>1. Empty \in Overlay /\ Corrupt \in Result /\ Dirty(Corrupt.over) \cup Corrupt.bad = {}
  BY EmptyType, CorruptType
<1>2. NoBlob \in RSBlob
  BY DEF NoBlob, RSBlob
<1>3. MaxFaults \in Nat /\ NBlocks \in Nat
  BY FormatAssumption, RecoveryAssumption
<1>4. TypeOK
  BY <1>1, <1>2, <1>3 DEF TypeOK, WildIdx
<1>5. RInv
  BY DEF RInv
<1> QED BY <1>4, <1>5

\* A damage keeps it if what it leaves is as it says.
LEMMA DamageStep ==
    ASSUME TypeOK, RInv, NEW kind \in Fault, NEW damaged \in RSBlob, Damage(kind, damaged),
           Stored(damaged, faulted \cup {kind}, origin)
    PROVE  TypeOK' /\ RInv'
<1> USE DEF Damage
<1>1. nfaults' \in 0 .. MaxFaults
  BY RecoveryAssumption DEF TypeOK
<1>2. faulted' \subseteq Fault
  BY DEF TypeOK
<1>3. TypeOK'
  BY <1>1, <1>2 DEF TypeOK
<1>4. phase' = "stored"
  BY DEF TypeOK
<1>5. Stored(blob', faulted', origin')
  OBVIOUS
<1>6. RInv'
  BY <1>4, <1>5 DEF RInv
<1> QED BY <1>3, <1>6

\* What the blob of a damage to it looks like; each keeps the invariant.
LEMMA MediumStep ==
    ASSUME TypeOK, RInv, Medium
    PROVE  TypeOK' /\ RInv'
<1>1. phase = "stored" /\ blob \in RSBlob /\ Stored(blob, faulted, origin)
  BY DEF Medium, SpoilShard, FlipShardIndex, Truncate, CopyShard, SwapShards, Trail,
         SpoilHeader, SpoilMeta, Damage, TypeOK, RInv
<1>2. PICK b : b = blob
  OBVIOUS
<1>3. PICK fs : fs = faulted
  OBVIOUS
<1>4. PICK ov : ov = origin
  OBVIOUS
<1> DEFINE sh == b.shards
<1>5. b \in RSBlob /\ Stored(b, fs, ov)
  BY <1>1, <1>2, <1>3, <1>4
<1>6. /\ sh \in Seq(ShardHdr) /\ Len(sh) \in Nat /\ b.rest \in Nat
      /\ DOMAIN sh = 1 .. Len(sh)
      /\ b.header \in BOOLEAN /\ b.metaOK \in BOOLEAN
      /\ b = Redone(b, sh, b.rest, b.header, b.metaOK)
      /\ \A k \in 1 .. Len(sh) : /\ sh[k] \in ShardHdr /\ sh[k].of < Total(b.meta)
                                 /\ "index" \notin fs => sh[k].idx = sh[k].of
      /\ "copy" \notin fs => \A k, l \in 1 .. Len(sh) : sh[k].of = sh[l].of => k = l
  BY <1>5, StoredShards
<1>7. ASSUME NEW kind \in Fault, NEW damaged, Damage(kind, damaged),
             NEW sh2 \in Seq(ShardHdr), NEW rest \in Nat, NEW h \in BOOLEAN, NEW mok \in BOOLEAN,
             Fits(b, sh2, fs \cup {kind}),
             h \/ ~b.header \/ kind = "header", mok \/ ~b.metaOK \/ kind = "meta",
             damaged = Redone(b, sh2, rest, h, mok)
      PROVE  TypeOK' /\ RInv'
  <2>1. damaged \in RSBlob /\ Stored(damaged, fs \cup {kind}, ov)
    BY <1>5, <1>7, RedoneIsStored
  <2>2. Stored(damaged, faulted \cup {kind}, origin)
    BY <2>1, <1>3, <1>4
  <2>3. kind \in Fault /\ Damage(kind, damaged) /\ TypeOK /\ RInv
    BY <1>7
  <2> QED BY <2>1, <2>2, <2>3, DamageStep, Zenon
<1>8. ASSUME NEW k \in 1 .. Len(sh), SpoilShard(k)
      PROVE  TypeOK' /\ RInv'
  <2> DEFINE hdr == [idx |-> sh[k].idx, ok |-> FALSE, of |-> sh[k].of]
             sh2 == [sh EXCEPT ![k] = hdr]
  <2>1. PICK dm : dm = [blob EXCEPT !.shards[k].ok = FALSE]
    OBVIOUS
  <2>2. Damage("shard", dm)
    BY <1>8, <2>1 DEF SpoilShard
  <2>3. sh[k] = [idx |-> sh[k].idx, ok |-> sh[k].ok, of |-> sh[k].of] /\ hdr \in ShardHdr
    BY <1>6 DEF ShardHdr
  <2>4. dm = Redone(b, sh2, b.rest, b.header, b.metaOK)
    <3>1. dm = [b EXCEPT !.shards = [sh EXCEPT ![k] = [sh[k] EXCEPT !.ok = FALSE]]]
      BY <1>2, <2>1
    <3>2. [sh[k] EXCEPT !.ok = FALSE] = hdr
      <4>1. PICK y \in ShardHdr : y = sh[k]
        BY <1>6
      <4>2. ASSUME NEW v PROVE [y EXCEPT !.ok = v] = [idx |-> y.idx, ok |-> v, of |-> y.of]
        BY DEF ShardHdr
      <4> QED BY <4>1, <4>2
    <3>3. dm = [b EXCEPT !.shards = sh2]
      BY <3>1, <3>2
    <3> HIDE DEF sh2
    <3> QED BY <3>3, <1>6 DEF Redone
  <2>5. /\ sh2 \in Seq(ShardHdr) /\ Len(sh2) = Len(sh)
        /\ \A l \in 1 .. Len(sh) : sh2[l].of = sh[l].of /\ sh2[l].idx = sh[l].idx
    <3>1. \A l \in 1 .. Len(sh) : sh2[l] = IF l = k THEN hdr ELSE sh[l]
      BY <1>6
    <3>2. sh2 \in Seq(ShardHdr) /\ Len(sh2) = Len(sh)
      <4> HIDE DEF hdr
      <4> QED BY <1>6, <2>3
    <3> QED BY <3>1, <3>2
  <2> HIDE DEF sh2
  <2>6. Fits(b, sh2, fs \cup {"shard"})
    BY <1>6, <2>5 DEF Fits
  <2>7. "shard" \in Fault
    BY DEF Fault
  <2> QED BY <1>6, <1>7, <2>2, <2>4, <2>5, <2>6, <2>7
<1>9. ASSUME NEW k \in 1 .. Len(sh), NEW x \in 0 .. Total(blob.meta), FlipShardIndex(k, x)
      PROVE  TypeOK' /\ RInv'
  <2> DEFINE hdr == [idx |-> x, ok |-> sh[k].ok, of |-> sh[k].of]
             sh2 == [sh EXCEPT ![k] = hdr]
  <2>1. PICK dm : dm = [blob EXCEPT !.shards[k].idx = x]
    OBVIOUS
  <2>2. Damage("index", dm)
    BY <1>9, <2>1 DEF FlipShardIndex
  <2>3. sh[k] = [idx |-> sh[k].idx, ok |-> sh[k].ok, of |-> sh[k].of] /\ hdr \in ShardHdr
    BY <1>6 DEF ShardHdr
  <2>4. dm = Redone(b, sh2, b.rest, b.header, b.metaOK)
    <3>1. dm = [b EXCEPT !.shards = [sh EXCEPT ![k] = [sh[k] EXCEPT !.idx = x]]]
      BY <1>2, <2>1
    <3>2. [sh[k] EXCEPT !.idx = x] = hdr
      BY <2>3
    <3>3. dm = [b EXCEPT !.shards = sh2]
      BY <3>1, <3>2
    <3> HIDE DEF sh2
    <3> QED BY <3>3, <1>6 DEF Redone
  <2>5. /\ sh2 \in Seq(ShardHdr) /\ Len(sh2) = Len(sh)
        /\ \A l \in 1 .. Len(sh) : sh2[l].of = sh[l].of
    <3>1. \A l \in 1 .. Len(sh) : sh2[l] = IF l = k THEN hdr ELSE sh[l]
      BY <1>6
    <3>2. sh2 \in Seq(ShardHdr) /\ Len(sh2) = Len(sh)
      <4> HIDE DEF hdr
      <4> QED BY <1>6, <2>3
    <3> QED BY <3>1, <3>2
  <2> HIDE DEF sh2
  <2>6. Fits(b, sh2, fs \cup {"index"})
    BY <1>6, <2>5 DEF Fits
  <2>7. "index" \in Fault
    BY DEF Fault
  <2> QED BY <1>6, <1>7, <2>2, <2>4, <2>5, <2>6, <2>7
<1>10. ASSUME NEW m \in 0 .. Len(sh), Truncate(m)
       PROVE  TypeOK' /\ RInv'
  <2> DEFINE sh2 == SubSeq(sh, 1, m)
  <2>1. PICK r \in {0, Stride(blob.meta) - 1} :
          Damage("cut", [blob EXCEPT !.shards = SubSeq(@, 1, m), !.rest = r])
    BY <1>10 DEF Truncate
  <2>2. r \in Nat
    <3>1. b.meta.size \in Nat
      BY <1>5 DEF RSBlob
    <3>2. rsShardHdrSize \in Nat /\ rsShardHdrSize >= 1
      BY RSAssumption
    <3> QED BY <1>2, <2>1, <3>1, <3>2 DEF Stride
  <2>3. PICK dm : dm = [blob EXCEPT !.shards = SubSeq(@, 1, m), !.rest = r]
    OBVIOUS
  <2>4. Damage("cut", dm)
    BY <2>1, <2>3
  <2>5. dm = Redone(b, sh2, r, b.header, b.metaOK)
    <3>1. dm = [b EXCEPT !.shards = sh2, !.rest = r]
      BY <1>2, <2>3
    <3> HIDE DEF sh2
    <3> QED BY <3>1, <1>6 DEF Redone
  <2>6. /\ sh2 \in Seq(ShardHdr) /\ Len(sh2) = m
        /\ \A l \in 1 .. m : sh2[l] = sh[l]
    BY <1>6
  <2> HIDE DEF sh2
  <2>7. Fits(b, sh2, fs \cup {"cut"})
    BY <1>6, <2>6 DEF Fits
  <2>8. "cut" \in Fault
    BY DEF Fault
  <2> QED BY <1>6, <1>7, <2>2, <2>4, <2>5, <2>6, <2>7, <2>8
<1>11. ASSUME Trail PROVE TypeOK' /\ RInv'
  <2> DEFINE r == b.rest + 1
  <2>1. PICK dm : dm = [blob EXCEPT !.rest = @ + 1]
    OBVIOUS
  <2>2. Damage("surplus", dm)
    BY <1>11, <2>1 DEF Trail
  <2>3. r \in Nat
    BY <1>6
  <2>4. dm = Redone(b, sh, r, b.header, b.metaOK)
    <3>1. dm = [b EXCEPT !.rest = r]
      BY <1>2, <2>1
    <3> HIDE DEF r
    <3> QED BY <3>1, <1>6 DEF Redone
  <2> HIDE DEF r
  <2>5. Fits(b, sh, fs \cup {"surplus"})
    BY <1>6 DEF Fits
  <2>6. "surplus" \in Fault
    BY DEF Fault
  <2> QED BY <1>6, <1>7, <2>2, <2>3, <2>4, <2>5, <2>6
<1>12. ASSUME NEW k \in 1 .. Len(sh), CopyShard(k)
       PROVE  TypeOK' /\ RInv'
  <2> DEFINE sh2 == Append(sh, sh[k])
  <2>1. PICK dm : dm = [blob EXCEPT !.shards = Append(@, blob.shards[k])]
    OBVIOUS
  <2>2. Damage("copy", dm)
    BY <1>12, <2>1 DEF CopyShard
  <2>3. dm = Redone(b, sh2, b.rest, b.header, b.metaOK)
    <3>1. dm = [b EXCEPT !.shards = sh2]
      BY <1>2, <2>1
    <3> HIDE DEF sh2
    <3> QED BY <3>1, <1>6 DEF Redone
  <2>4. /\ sh2 \in Seq(ShardHdr) /\ Len(sh2) = Len(sh) + 1
        /\ \A l \in 1 .. Len(sh) : sh2[l] = sh[l]
        /\ sh2[Len(sh) + 1] = sh[k]
    BY <1>6
  <2> HIDE DEF sh2
  <2>5. ASSUME NEW l \in 1 .. Len(sh2) PROVE \E j \in 1 .. Len(sh) : sh2[l] = sh[j]
    <3>1. l \in 1 .. Len(sh) \/ l = Len(sh) + 1
      BY <1>6, <2>4
    <3> QED BY <2>4, <3>1
  <2>6. Fits(b, sh2, fs \cup {"copy"})
    <3>1. \A l \in 1 .. Len(sh2) : /\ sh2[l].of < Total(b.meta)
                                   /\ "index" \notin fs => sh2[l].idx = sh2[l].of
      BY <1>6, <2>5
    <3> QED BY <3>1 DEF Fits
  <2>7. "copy" \in Fault
    BY DEF Fault
  <2> QED BY <1>6, <1>7, <2>2, <2>3, <2>4, <2>6, <2>7
<1>13. ASSUME NEW k \in 1 .. Len(sh), NEW l \in (k + 1) .. Len(sh), SwapShards(k, l)
       PROVE  TypeOK' /\ RInv'
  <2> DEFINE sh2 == [sh EXCEPT ![k] = sh[l], ![l] = sh[k]]
  <2>1. PICK dm : dm = [blob EXCEPT !.shards[k] = blob.shards[l], !.shards[l] = blob.shards[k]]
    OBVIOUS
  <2>2. Damage("swap", dm)
    BY <1>13, <2>1 DEF SwapShards
  <2>3. l \in 1 .. Len(sh) /\ k # l
    BY <1>6
  <2>4. dm = Redone(b, sh2, b.rest, b.header, b.metaOK)
    <3>1. dm = [b EXCEPT !.shards[k] = sh[l], !.shards[l] = sh[k]]
      BY <1>2, <2>1
    <3>2. dm = [b EXCEPT !.shards = sh2]
      BY <3>1, <1>6 DEF Redone
    <3> HIDE DEF sh2
    <3> QED BY <3>2, <1>6 DEF Redone
  <2>5. /\ sh2 \in Seq(ShardHdr) /\ Len(sh2) = Len(sh)
        /\ \A i \in 1 .. Len(sh) : sh2[i] = IF i = l THEN sh[k] ELSE IF i = k THEN sh[l] ELSE sh[i]
    BY <1>6, <2>3
  <2> HIDE DEF sh2
  <2>6. Fits(b, sh2, fs \cup {"swap"})
    <3>1. ASSUME NEW i \in 1 .. Len(sh2) PROVE \E j \in 1 .. Len(sh) : sh2[i] = sh[j]
      BY <2>3, <2>5
    <3>2. \A i \in 1 .. Len(sh2) : /\ sh2[i].of < Total(b.meta)
                                   /\ "index" \notin fs => sh2[i].idx = sh2[i].of
      BY <1>6, <3>1
    <3>3. ASSUME "copy" \notin fs, NEW i \in 1 .. Len(sh2), NEW j \in 1 .. Len(sh2),
                 sh2[i].of = sh2[j].of
          PROVE  i = j
      BY <1>6, <2>3, <2>5, <3>3
    <3> QED BY <3>2, <3>3 DEF Fits
  <2>7. "swap" \in Fault
    BY DEF Fault
  <2> QED BY <1>6, <1>7, <2>2, <2>4, <2>5, <2>6, <2>7
<1>14. ASSUME SpoilHeader PROVE TypeOK' /\ RInv'
  <2>1. PICK dm : dm = [blob EXCEPT !.header = FALSE]
    OBVIOUS
  <2>2. Damage("header", dm)
    BY <1>14, <2>1 DEF SpoilHeader
  <2>3. dm = Redone(b, sh, b.rest, FALSE, b.metaOK)
    <3>1. dm = [b EXCEPT !.header = FALSE]
      BY <1>2, <2>1
    <3> QED BY <3>1, <1>6 DEF Redone
  <2>4. Fits(b, sh, fs \cup {"header"})
    BY <1>6 DEF Fits
  <2>5. "header" \in Fault
    BY DEF Fault
  <2> QED BY <1>6, <1>7, <2>2, <2>3, <2>4, <2>5
<1>15. ASSUME SpoilMeta PROVE TypeOK' /\ RInv'
  <2>1. PICK dm : dm = [blob EXCEPT !.metaOK = FALSE]
    OBVIOUS
  <2>2. Damage("meta", dm)
    BY <1>15, <2>1 DEF SpoilMeta
  <2>3. dm = Redone(b, sh, b.rest, b.header, FALSE)
    <3>1. dm = [b EXCEPT !.metaOK = FALSE]
      BY <1>2, <2>1
    <3> QED BY <3>1, <1>6 DEF Redone
  <2>4. Fits(b, sh, fs \cup {"meta"})
    BY <1>6 DEF Fits
  <2>5. "meta" \in Fault
    BY DEF Fault
  <2> QED BY <1>6, <1>7, <2>2, <2>3, <2>4, <2>5
<1>16. DOMAIN blob.shards = 1 .. Len(sh) /\ blob.shards = sh
  BY <1>2, <1>6
<1>17. CASE \E k \in DOMAIN blob.shards :
              \/ SpoilShard(k)
              \/ \E x \in 0 .. Total(blob.meta) : FlipShardIndex(k, x)
              \/ Truncate(k - 1)
              \/ CopyShard(k)
              \/ \E l \in (k + 1) .. Len(blob.shards) : SwapShards(k, l)
  <2>1. PICK k \in 1 .. Len(sh) :
          \/ SpoilShard(k)
          \/ \E x \in 0 .. Total(blob.meta) : FlipShardIndex(k, x)
          \/ Truncate(k - 1)
          \/ CopyShard(k)
          \/ \E l \in (k + 1) .. Len(sh) : SwapShards(k, l)
    BY <1>16, <1>17, Zenon
  <2>2. k - 1 \in 0 .. Len(sh)
    BY <1>6
  <2> QED BY <2>1, <2>2, <1>8, <1>9, <1>10, <1>12, <1>13, Zenon
<1> QED BY <1>11, <1>14, <1>15, <1>17, Zenon DEF Medium

\* Pause, Resume and Continue keep it.
LEMMA CycleStep ==
    ASSUME TypeOK, RInv,
           \/ \E b \in Block, c \in Content : Write(b, c)
           \/ \E r \in Requests : Pause(r[1], r[2])
           \/ \E maxBlock \in ResumeBases : Resume(maxBlock)
           \/ Continue
    PROVE  TypeOK' /\ RInv'
<1>1. ASSUME NEW b \in Block, NEW c \in Content, Write(b, c)
      PROVE  TypeOK' /\ RInv'
  <2>1. over' \in Overlay
    BY <1>1 DEF Write, TypeOK, Overlay
  <2>2. TypeOK'
    BY <1>1, <2>1 DEF Write, TypeOK
  <2>3. phase' = "live"
    BY <1>1 DEF Write
  <2>4. RInv'
    BY <2>3 DEF RInv
  <2> QED BY <2>2, <2>4
<1>2. ASSUME NEW r \in Requests, Pause(r[1], r[2])
      PROVE  TypeOK' /\ RInv'
  <2>1. r[1] \in Int /\ r[2] \in Int
    BY RecoveryAssumption
  <2>2. PICK ov : ov = over
    OBVIOUS
  <2>3. PICK b : b = blob'
    OBVIOUS
  <2>4. ov \in Overlay /\ b \in SerializeRS(ov, r[1], r[2])
    BY <1>2, <2>2, <2>3 DEF Pause, TypeOK
  <2>5. b \in RSBlob /\ Stored(b, {}, ov)
    BY <2>1, <2>4, SerializedIsStored
  <2>6. blob' \in RSBlob /\ Stored(blob', faulted', origin') /\ phase' = "stored"
    BY <1>2, <2>2, <2>3, <2>5 DEF Pause
  <2>7. TypeOK'
    BY <1>2, <2>6, RecoveryAssumption DEF Pause, TypeOK
  <2>8. RInv'
    BY <2>6 DEF RInv
  <2> QED BY <2>7, <2>8
<1>3. ASSUME NEW maxBlock \in ResumeBases, Resume(maxBlock)
      PROVE  TypeOK' /\ RInv'
  <2>1. maxBlock \in 0 .. NBlocks
    BY RecoveryAssumption
  <2>2. PICK b : b = blob
    OBVIOUS
  <2>3. PICK ov : ov = origin
    OBVIOUS
  <2>4. PICK wd : wd = wild'
    OBVIOUS
  <2>5. b \in RSBlob /\ ov \in Overlay /\ Stored(blob, faulted, origin) /\ Sourced(b, ov)
    BY <1>3, <2>2, <2>3 DEF Resume, TypeOK, RInv, Stored
  <2>6. wd \in WildIdx /\ wd \in Int
    BY <1>3, <2>4, FormatAssumption DEF Resume, WildIdx
  <2>7. PICK d : d = DeserializeL2(b, maxBlock, wd)
    OBVIOUS
  <2>8. d \in Result /\ \A x \in Dirty(d.over) \cup d.bad : InBase(x, maxBlock)
    <3>1. PICK faults : faults = faulted
      OBVIOUS
    <3>2. Stored(b, faults, ov)
      BY <2>2, <2>3, <2>5, <3>1
    <3>3. Resumed(b, faults, ov, maxBlock, wd, d)
      BY <2>1, <2>5, <2>6, <2>7, <3>2 DEF Resumed
    <3> QED BY <2>1, <2>5, <2>6, <2>7, <3>3, L2Type, L2InBase
  <2>9. res' = d
    BY <1>3, <2>2, <2>4, <2>7 DEF Resume
  <2>10. TypeOK'
    BY <1>3, <2>1, <2>4, <2>6, <2>8, <2>9 DEF Resume, TypeOK
  <2>11. phase' = "resumed" /\ Stored(blob', faulted', origin')
    BY <1>3, <2>5 DEF Resume
  <2>12. res' = DeserializeL2(blob', base', wild')
    BY <1>3 DEF Resume
  <2>13. RInv'
    BY <2>11, <2>12 DEF RInv
  <2> QED BY <2>10, <2>13
<1>4. ASSUME Continue PROVE TypeOK' /\ RInv'
  <2>1. /\ Empty \in Overlay /\ Corrupt \in Result /\ NoBlob \in RSBlob
        /\ Dirty(Corrupt.over) \cup Corrupt.bad = {}
    <3>1. NoBlob \in RSBlob
      BY DEF NoBlob, RSBlob
    <3> QED BY <3>1, EmptyType, CorruptType
  <2>2. over' \in Overlay
    BY <1>4, <2>1 DEF Continue, TypeOK, Result
  <2>3. NBlocks \in 0 .. NBlocks /\ 0 \in WildIdx /\ 0 \in 0 .. MaxFaults
    BY FormatAssumption, RecoveryAssumption DEF WildIdx
  <2>4. TypeOK'
    BY <1>4, <2>1, <2>2, <2>3 DEF Continue, TypeOK
  <2>5. phase' = "live"
    BY <1>4 DEF Continue
  <2>6. RInv'
    BY <2>5 DEF RInv
  <2> QED BY <2>4, <2>6
<1> QED BY <1>1, <1>2, <1>3, <1>4

\* Every step keeps it.
LEMMA NextRInv == TypeOK /\ RInv /\ [Next]_vars => (TypeOK /\ RInv)'
<1> SUFFICES ASSUME TypeOK, RInv, [Next]_vars PROVE (TypeOK /\ RInv)'
  OBVIOUS
<1>1. CASE UNCHANGED vars
  <2>1. TypeOK'
    BY <1>1 DEF vars, TypeOK
  <2>2. /\ phase' = phase /\ res' = res /\ Stored(blob', faulted', origin') = Stored(blob, faulted, origin)
        /\ DeserializeL2(blob', base', wild') = DeserializeL2(blob, base, wild)
    BY <1>1 DEF vars
  <2>3. RInv'
    BY <2>2 DEF RInv
  <2> QED BY <2>1, <2>3
<1>2. CASE Medium
  BY <1>2, MediumStep
<1>3. CASE \/ \E b \in Block, c \in Content : Write(b, c)
           \/ \E r \in Requests : Pause(r[1], r[2])
           \/ \E maxBlock \in ResumeBases : Resume(maxBlock)
           \/ Continue
  BY <1>3, CycleStep, Zenon
<1> QED BY <1>1, <1>2, <1>3, Zenon DEF Next

\* What holds in every state in which the invariant holds always holds.
LEMMA AlwaysRInv == Spec => [](TypeOK /\ RInv)
<1>1. Init => TypeOK /\ RInv
  BY InitRInv
<1>2. TypeOK /\ RInv /\ [Next]_vars => (TypeOK /\ RInv)'
  BY NextRInv
<1> QED BY <1>1, <1>2, PTL DEF Spec

-----------------------------------------------------------------------------
(* The first theorems. *)

\* The variables keep their types: only blocks of the base are restored or
\* blamed, whatever an index read from a misplaced or reconstructed shard says.
THEOREM RecoveryTypeCorrect == Spec => []TypeOK
<1>1. Spec => [](TypeOK /\ RInv)
  BY AlwaysRInv
<1> QED BY <1>1, PTL

\* Whatever the medium does to shards, their indices and their order, and
\* whatever reconstruction makes of it, deserializeRS restores in a block the
\* content it was serialized with or nothing.
THEOREM RSFabricatesNothing == Spec => []RSNeverFabricates
<1>1. TypeOK /\ RInv => RSNeverFabricates
  <2> SUFFICES ASSUME TypeOK, RInv, phase = "resumed", NEW x \in Block
               PROVE  res.over[x] \in {origin[x], NoData}
    BY DEF RSNeverFabricates
  <2>1. PICK b : b = blob
    OBVIOUS
  <2>2. PICK ov : ov = origin
    OBVIOUS
  <2>3. PICK wd : wd = wild
    OBVIOUS
  <2>4. PICK maxBlock : maxBlock = base
    OBVIOUS
  <2>5. PICK d : d = res
    OBVIOUS
  <2>6. /\ b \in RSBlob /\ ov \in Overlay /\ Sourced(b, ov) /\ maxBlock \in 0 .. NBlocks
        /\ d = DeserializeL2(b, maxBlock, wd)
    BY <2>1, <2>2, <2>3, <2>4, <2>5 DEF TypeOK, RInv, Stored
  <2>7. wd \in Int
    BY <2>3, FormatAssumption DEF TypeOK, WildIdx
  <2>8. \A y \in Block : d.over[y] \in {ov[y], NoData}
    BY <2>6, <2>7, L2Type
  <2> QED BY <2>2, <2>5, <2>8
<1>2. Spec => [](TypeOK /\ RInv)
  BY AlwaysRInv
<1> QED BY <1>1, <1>2, PTL

\* In a state of the cycle this is what it has at hand.
LEMMA ResumedState ==
    TypeOK /\ RInv /\ phase = "resumed" => Resumed(blob, faulted, origin, base, wild, res)
<1> SUFFICES ASSUME TypeOK, RInv, phase = "resumed"
             PROVE  Resumed(blob, faulted, origin, base, wild, res)
  OBVIOUS
<1>1. wild \in Int
  BY FormatAssumption DEF TypeOK, WildIdx
<1>2. /\ blob \in RSBlob /\ origin \in Overlay /\ Stored(blob, faulted, origin)
      /\ base \in 0 .. NBlocks /\ res = DeserializeL2(blob, base, wild)
  BY DEF TypeOK, RInv
<1> QED BY <1>1, <1>2 DEF Resumed

-----------------------------------------------------------------------------
(* The theorems on what the code promises. *)

\* "Up to K erasures are fully reconstructed": short of damage to an index or
\* to a header, and granted the memory, K missing shards cost no block, for any
\* geometry SerializeRS accepts; the bounds parseRSMeta sets on the length of
\* the body are never in the way. Unless the blob has grown the error is nil.
THEOREM ErasuresAreFree == Spec => []ErasuresCostNothing
<1>1. TypeOK /\ RInv => ErasuresCostNothing
  <2> SUFFICES ASSUME TypeOK, RInv, phase = "resumed", HeadersIntact, "index" \notin faulted,
                      BaseLargeEnough, AllocGranted, Erasures <= blob.meta.parity
               PROVE  res.err = "nil" /\ res.over = origin /\ res.bad = {}
    BY DEF ErasuresCostNothing
  <2>1. PICK b, faults, ov, maxBlock, wd, d :
          /\ b = blob /\ faults = faulted /\ ov = origin
          /\ maxBlock = base /\ wd = wild /\ d = res
    OBVIOUS
  <2>2. Resumed(b, faults, ov, maxBlock, wd, d)
    BY <2>1, ResumedState
  <2>3. /\ "index" \notin faults /\ faults \cap {"header", "meta"} = {}
        /\ \A x \in Dirty(ov) : x < maxBlock
        /\ Total(b.meta) * b.meta.size <= rsMaxDecodeAlloc
        /\ Missing(parseShardSection(b)) <= b.meta.parity
    BY <2>1 DEF HeadersIntact, BaseLargeEnough, AllocGranted, Erasures
  <2>4. d.err = "nil" /\ d.over = ov /\ d.bad = {}
    BY <2>2, <2>3, ErasuresFree
  <2> QED BY <2>1, <2>4
<1>2. Spec => [](TypeOK /\ RInv)
  BY AlwaysRInv
<1> QED BY <1>1, <1>2, PTL

\* "Lost regions are never zero-filled into the record stream": with shards in
\* their places, rsSalvage blames only lost blocks, and all of them unless it
\* reports loss it cannot attribute.
THEOREM RSLossIsAccounted == Spec => []RSLossAccounted
<1>1. TypeOK /\ RInv => RSLossAccounted
  <2> SUFFICES ASSUME TypeOK, RInv, phase = "resumed", res.err = "Partial", "index" \notin faulted
               PROVE  LET lost == {x \in Dirty(origin) : res.over[x] = NoData}
                      IN  res.bad \subseteq lost /\ (~res.truncated => res.bad = lost)
    BY Zenon DEF RSLossAccounted
  <2>1. PICK b, faults, ov, maxBlock, wd, d :
          /\ b = blob /\ faults = faulted /\ ov = origin
          /\ maxBlock = base /\ wd = wild /\ d = res
    OBVIOUS
  <2>2. Resumed(b, faults, ov, maxBlock, wd, d)
    BY <2>1, ResumedState
  <2>3. d.err = "Partial" /\ "index" \notin faults
    BY <2>1
  <2>4. LET lost == {x \in Dirty(ov) : d.over[x] = NoData}
        IN  d.bad \subseteq lost /\ (~d.truncated => d.bad = lost)
    BY <2>2, <2>3, LossAccounted
  <2> QED BY <2>1, <2>4
<1>2. Spec => [](TypeOK /\ RInv)
  BY AlwaysRInv
<1> QED BY <1>1, <1>2, PTL

\* inspectRS' own copy of the walk never parts from deserializeRS: both reject
\* or neither, a nil error is echoed by a clean Info, whatever is blamed is
\* listed; over a base that is large enough they agree whether anything is
\* lost, wherever the shards are, and with shards in their places on the blocks.
THEOREM RSInspectAlwaysAgrees == Spec => []RSInspectAgrees
<1>1. TypeOK /\ RInv => RSInspectAgrees
  <2> SUFFICES ASSUME TypeOK, RInv, phase = "resumed" PROVE RSInspectAgrees
    BY DEF RSInspectAgrees
  <2>1. PICK b, faults, ov, maxBlock, wd, d, info :
          /\ b = blob /\ faults = faulted /\ ov = origin
          /\ maxBlock = base /\ wd = wild /\ d = res /\ info = InspectL2(blob, wild)
    OBVIOUS
  <2>2. Resumed(b, faults, ov, maxBlock, wd, d) /\ info = InspectL2(b, wd)
    BY <2>1, ResumedState
  <2>3. /\ (info.err = "ErrCorrupt") = (d.err = "ErrCorrupt")
        /\ d.err = "nil" => Clean(info)
        /\ d.bad \subseteq info.BadBlocks
        /\ (\A x \in Dirty(ov) : x < maxBlock) => (Clean(info) <=> d.err = "nil")
        /\ "index" \notin faults /\ (\A x \in Dirty(ov) : x < maxBlock)
           => info.BadBlocks = d.bad
    BY <2>2, RSVerdictsConcur
  <2>4. /\ "index" \notin faulted <=> "index" \notin faults
        /\ BaseLargeEnough <=> \A x \in Dirty(ov) : x < maxBlock
    BY <2>1 DEF BaseLargeEnough
  <2> QED BY <2>1, <2>3, <2>4, Zenon DEF RSInspectAgrees
<1>2. Spec => [](TypeOK /\ RInv)
  BY AlwaysRInv
<1> QED BY <1>1, <1>2, PTL

\* A nil error of Deserialize at tier L2 means that nothing was lost, whatever
\* the damage and the geometry, but for the two windows the format leaves to a
\* shard whose index was hit: equal contents, and a copied shard.
THEOREM RSSilenceIsExact == Spec => []RSSilentMeansExact
<1>1. TypeOK /\ RInv => RSSilentMeansExact
  <2> SUFFICES ASSUME TypeOK, RInv, phase = "resumed", res.err = "nil",
                      "index" \in faulted => /\ "copy" \notin faulted
                                             /\ \A x, y \in Dirty(origin) : origin[x] = origin[y] => x = y
               PROVE  res.over = origin
    BY Zenon DEF RSSilentMeansExact
  <2>1. PICK b, faults, ov, maxBlock, wd, d :
          /\ b = blob /\ faults = faulted /\ ov = origin
          /\ maxBlock = base /\ wd = wild /\ d = res
    OBVIOUS
  <2>2. Resumed(b, faults, ov, maxBlock, wd, d) /\ d.err = "nil"
    BY <2>1, ResumedState
  <2>3. CASE "index" \notin faults
    <3>1. Faithful(b, parseShardSection(b))
      BY <2>2, <2>3, StoredIsFaithful DEF Resumed
    <3>2. d.over = ov
      BY <2>2, <3>1, SilentFaithful
    <3> QED BY <2>1, <3>2
  <2>4. CASE "index" \in faults
    <3>1. "copy" \notin faults /\ \A x, y \in Dirty(ov) : ov[x] = ov[y] => x = y
      BY <2>1, <2>4, Zenon
    <3>2. d.over = ov
      BY <2>2, <3>1, SilentMisplaced
    <3> QED BY <2>1, <3>2
  <2> QED BY <2>3, <2>4
<1>2. Spec => [](TypeOK /\ RInv)
  BY AlwaysRInv
<1> QED BY <1>1, <1>2, PTL
=============================================================================
