------------------------------- MODULE FlatDisk -------------------------------
(***************************************************************************)
(* What the block device promises its callers: every device is a flat      *)
(* array of blocks, private to it, that starts as the base image; a call   *)
(* of ReadAt or WriteAt takes effect at once; a stored delta is an image   *)
(* frozen when it was taken, whatever its device does afterwards.          *)
(* There is no overlay, no base, no buffer here: BlockDevice has them, and *)
(* is shown to implement this module.                                      *)
(***************************************************************************)
EXTENDS Naturals

CONSTANTS
    Device,      \* the devices open at the same time
    NBlocks,     \* length of the base in blocks
    MaxBuf,      \* length of a caller's buffer in blocks
    Content,     \* what a block may hold
    BaseImage    \* content of the base, block by block

VARIABLES
    disk,        \* disk[d][b]: what block b of device d reads as
    buf,         \* buf[d][j]: the caller's buffer for device d
    saved        \* saved[b]: the image the stored delta stands for

vars == <<disk, buf, saved>>

Block == 0 .. (NBlocks - 1)
Slot  == 0 .. (MaxBuf - 1)

Init ==
    /\ disk = [d \in Device |-> BaseImage]
    /\ buf \in [Device -> [Slot -> Content]]
    /\ saved = BaseImage

\* Blocks lo .. lo+cnt-1 of device d are copied into its caller's buffer.
Read(d, lo, cnt) ==
    /\ lo + cnt <= NBlocks /\ cnt <= MaxBuf
    /\ buf' = [buf EXCEPT ![d] =
                 [j \in Slot |-> IF j < cnt THEN disk[d][lo + j] ELSE @[j]]]
    /\ UNCHANGED <<disk, saved>>

\* The caller's buffer is copied onto blocks lo .. lo+cnt-1 of device d.
Write(d, lo, cnt) ==
    /\ lo + cnt <= NBlocks /\ cnt <= MaxBuf
    /\ disk' = [disk EXCEPT ![d] =
                 [b \in Block |-> IF lo <= b /\ b < lo + cnt
                                  THEN buf[d][b - lo] ELSE @[b]]]
    /\ UNCHANGED <<buf, saved>>

\* The caller changes its own buffer between two calls.
Fill(d, j, c) ==
    /\ buf' = [buf EXCEPT ![d][j] = c]
    /\ UNCHANGED <<disk, saved>>

\* Device d is replaced by a new one over the base.
Reset(d) ==
    /\ disk' = [disk EXCEPT ![d] = BaseImage]
    /\ UNCHANGED <<buf, saved>>

\* The image of device d is stored, replacing the one stored before.
Save(d) ==
    /\ saved' = disk[d]
    /\ UNCHANGED <<disk, buf>>

\* Device d is replaced by one that holds the stored image.
Load(d) ==
    /\ disk' = [disk EXCEPT ![d] = saved]
    /\ UNCHANGED <<buf, saved>>

\* The owner of the stored image overwrites one block of it.
Patch(b, c) ==
    /\ saved' = [saved EXCEPT ![b] = c]
    /\ UNCHANGED <<disk, buf>>

Next ==
    \/ \E d \in Device :
          \/ \E lo \in 0 .. NBlocks, cnt \in 0 .. MaxBuf :
                Read(d, lo, cnt) \/ Write(d, lo, cnt)
          \/ \E j \in Slot, c \in Content : Fill(d, j, c)
          \/ Reset(d) \/ Save(d) \/ Load(d)
    \/ \E b \in Block, c \in Content : Patch(b, c)

Spec == Init /\ [][Next]_vars
=============================================================================
