--------------------------- MODULE WriteFileProofs ---------------------------
(***************************************************************************)
(* Theorems about WriteFile, for every set of processes and of contents:   *)
(* no file is ever torn, writeFile implements AtomicFile, and it writes    *)
(* through links.                                                          *)
(***************************************************************************)
EXTENDS WriteFile, TLAPS

-----------------------------------------------------------------------------
(* The inductive invariant. *)

\* File t has these data, mode and sync state.
Holds(t, d, m, s) == t.data = d /\ t.mode = m /\ t.synced = s

\* What a call has in its hands: its temporary file is as far as its steps.
InHand(r) ==
    /\ r.tmp = None <=> r.pc \in {"idle", "create", "renamed"}
    /\ r.pc # "idle" => r.data \in Value
    /\ r.pc = "write" => Holds(r.tmp, "empty", "0600", FALSE)
    /\ r.pc = "chmod" => Holds(r.tmp, r.data, "0600", FALSE)
    /\ r.pc = "sync" => Holds(r.tmp, r.data, "0644", FALSE)
    /\ r.pc \in {"close", "rename"} => Holds(r.tmp, r.data, "0644", TRUE)

\* The call aims where Path leads now, unless a name changed its kind.
Aimed(r) == r.pc # "idle" /\ r.stale = FALSE => r.path = EvalSymlinks

Typed ==
    /\ dir \in [Name -> Entry] /\ settled \in [Name -> Entry]
    /\ proc \in [Proc -> ProcSet]

\* The invariant; NeverTorn needs InHand at the rename, WriteThrough needs Aimed.
WFInv ==
    /\ Typed /\ NeverTorn
    /\ \A p \in Proc : InHand(proc[p]) /\ Aimed(proc[p])

-----------------------------------------------------------------------------
(* Calls and entries. *)

\* An idle process satisfies the invariant.
LEMMA RestingFits == Resting \in ProcSet /\ InHand(Resting) /\ Aimed(Resting)
  BY DEF Resting, ProcSet, InHand, Aimed, Stages, Name, None, File

\* A step of one call that leaves the directory alone.
LEMMA OneCallMoves ==
    ASSUME WFInv, NEW p \in Proc, NEW r \in ProcSet, InHand(r), Aimed(r),
           proc' = [proc EXCEPT ![p] = r], UNCHANGED <<dir, settled>>
    PROVE  WFInv'
<1>1. Typed' BY DEF WFInv, Typed
<1>2. NeverTorn' BY DEF WFInv, NeverTorn, Whole
<1>3. ASSUME NEW q \in Proc PROVE InHand(proc[q])' /\ Aimed(proc[q])'
  <2>1. EvalSymlinks' = EvalSymlinks BY DEF EvalSymlinks
  <2>2. CASE q = p
    <3>1. proc'[q] = r BY <2>2 DEF WFInv, Typed
    <3> QED BY <3>1, <2>1 DEF InHand, Aimed
  <2>3. CASE q # p
    <3>1. proc'[q] = proc[q] BY <2>3 DEF WFInv, Typed
    <3> QED BY <3>1, <2>1 DEF InHand, Aimed, WFInv
  <2> QED BY <2>2, <2>3
<1> QED BY <1>1, <1>2, <1>3 DEF WFInv

\* A step on to a stage that the new temporary file fits.
LEMMA StepFits ==
    ASSUME WFInv, NEW p \in Proc, NEW from, NEW to \in Stages, NEW tmp \in FileSet,
           Step(p, from, to, tmp), from # "idle",
           to = "write" => Holds(tmp, "empty", "0600", FALSE),
           to = "chmod" => Holds(tmp, proc[p].data, "0600", FALSE),
           to = "sync" => Holds(tmp, proc[p].data, "0644", FALSE),
           to \in {"close", "rename"} => Holds(tmp, proc[p].data, "0644", TRUE),
           to \notin {"idle", "create", "renamed"}
    PROVE  WFInv'
<1> DEFINE r == [proc[p] EXCEPT !.pc = to, !.tmp = tmp]
<1>1. proc[p] \in ProcSet /\ InHand(proc[p]) /\ Aimed(proc[p]) /\ proc[p].pc = from
  BY DEF WFInv, Typed, Step
<1>2. r \in ProcSet BY <1>1 DEF ProcSet
<1>3. /\ r.pc = to /\ r.tmp = tmp /\ r.data = proc[p].data
      /\ r.path = proc[p].path /\ r.stale = proc[p].stale
  BY <1>1 DEF ProcSet
<1>4. tmp # None BY DEF FileSet, None
<1>5. InHand(r) BY <1>1, <1>3, <1>4 DEF InHand
<1>6. Aimed(r) BY <1>1, <1>3 DEF Aimed
<1>7. proc' = [proc EXCEPT ![p] = r] /\ UNCHANGED <<dir, settled>>
  BY DEF WFInv, Typed, Step
<1> HIDE DEF r
<1> QED BY <1>2, <1>5, <1>6, <1>7, OneCallMoves

\* A return, with or without an error, and a killed process.
LEMMA BackToRest ==
    ASSUME WFInv, NEW p \in Proc, proc' = [proc EXCEPT ![p] = Resting],
           UNCHANGED <<dir, settled>>
    PROVE  WFInv'
  BY RestingFits, OneCallMoves

\* The start of a call.
LEMMA ResolveKeeps ==
    ASSUME WFInv, NEW p \in Proc, NEW v \in Value, Resolve(p, v)
    PROVE  WFInv'
<1> DEFINE r == [pc |-> "create", data |-> v, path |-> EvalSymlinks, tmp |-> None,
                 stale |-> FALSE]
<1>2. EvalSymlinks \in Name BY DEF EvalSymlinks, Name
<1>3. r \in ProcSet BY <1>2 DEF ProcSet, Stages
<1>4. InHand(r) /\ Aimed(r) BY DEF InHand, Aimed
<1>5. proc' = [proc EXCEPT ![p] = r] /\ UNCHANGED <<dir, settled>> BY DEF Resolve
<1> HIDE DEF r
<1> QED BY <1>3, <1>4, <1>5, OneCallMoves

\* What the temporary file is once it is there.
LEMMA HasFile ==
    ASSUME WFInv, NEW p \in Proc, proc[p].pc \notin {"idle", "create", "renamed"}
    PROVE  proc[p].tmp \in FileSet
  BY DEF WFInv, Typed, InHand, ProcSet

\* An error is followed by the deferred Remove.
LEMMA FailsKeeps ==
    ASSUME WFInv, NEW p \in Proc, NEW from \in {"chmod", "sync", "close", "rename"},
           Fails(p, from)
    PROVE  WFInv'
<1>1. Step(p, from, "remove", proc[p].tmp) BY DEF Fails
<1>2. proc[p].pc = from BY <1>1 DEF Step
<1>3. proc[p].tmp \in FileSet BY <1>2, HasFile
<1>4. "remove" \in Stages BY DEF Stages
<1> QED BY <1>1, <1>3, <1>4, StepFits

\* The steps on the temporary file, one after the other.
LEMMA TempFileSteps ==
    ASSUME WFInv, NEW p \in Proc,
           CreateTemp(p) \/ Write(p) \/ Chmod(p) \/ Sync(p) \/ Close(p)
    PROVE  WFInv'
<1>s. Stages = {"idle", "create", "write", "chmod", "sync", "close", "rename", "renamed",
                "remove"}
  BY DEF Stages
<1>i. InHand(proc[p]) /\ proc[p] \in ProcSet BY DEF WFInv, Typed
<1> DEFINE t == proc[p].tmp
<1>1. CASE CreateTemp(p)
  <2>1. CASE Step(p, "create", "write", File("empty", "0600", FALSE))
    <3> DEFINE u == File("empty", "0600", FALSE)
    <3>1. u \in FileSet /\ Holds(u, "empty", "0600", FALSE) BY DEF FileSet, File, Holds
    <3>2. Step(p, "create", "write", u) BY <2>1
    <3> HIDE DEF u
    <3> QED BY <3>1, <3>2, <1>s, StepFits
  <2>2. CASE proc' = [proc EXCEPT ![p] = Resting] /\ UNCHANGED <<dir, settled>>
    BY <2>2, BackToRest
  <2> QED BY <1>1, <2>1, <2>2 DEF CreateTemp
<1>2. CASE Write(p)
  <2>1. proc[p].pc = "write" /\ t \in FileSet BY <1>2, HasFile DEF Write, Step
  <2>2. Holds(t, "empty", "0600", FALSE) /\ proc[p].data \in Value
    BY <2>1, <1>i DEF InHand
  <2>3. CASE Step(p, "write", "chmod", [t EXCEPT !.data = proc[p].data])
    <3> DEFINE u == [t EXCEPT !.data = proc[p].data]
    <3>1. u \in FileSet /\ Holds(u, proc[p].data, "0600", FALSE)
      BY <2>1, <2>2 DEF FileSet, Holds
    <3>2. Step(p, "write", "chmod", u) BY <2>3
    <3> HIDE DEF u
    <3> QED BY <3>1, <3>2, <1>s, StepFits
  <2>4. CASE Step(p, "write", "remove", [t EXCEPT !.data = "torn"])
    <3> DEFINE u == [t EXCEPT !.data = "torn"]
    <3>1. u \in FileSet BY <2>1 DEF FileSet
    <3>2. Step(p, "write", "remove", u) BY <2>4
    <3> HIDE DEF u
    <3> QED BY <3>1, <3>2, <1>s, StepFits
  <2> QED BY <1>2, <2>3, <2>4 DEF Write
<1>3. CASE Chmod(p)
  <2>1. CASE Step(p, "chmod", "sync", File(t.data, "0644", FALSE))
    <3> DEFINE u == File(t.data, "0644", FALSE)
    <3>1. proc[p].pc = "chmod" /\ t \in FileSet BY <2>1, HasFile DEF Step
    <3>2. t.data = proc[p].data /\ proc[p].data \in Value
      BY <3>1, <1>i DEF InHand, Holds
    <3>3. u \in FileSet /\ Holds(u, proc[p].data, "0644", FALSE)
      BY <3>2 DEF FileSet, File, Holds
    <3>4. Step(p, "chmod", "sync", u) BY <2>1
    <3> HIDE DEF u
    <3> QED BY <3>3, <3>4, <1>s, StepFits
  <2> QED BY <1>3, <2>1, FailsKeeps DEF Chmod
<1>4. CASE Sync(p)
  <2>1. CASE Step(p, "sync", "close", [t EXCEPT !.synced = TRUE])
    <3> DEFINE u == [t EXCEPT !.synced = TRUE]
    <3>1. proc[p].pc = "sync" /\ t \in FileSet BY <2>1, HasFile DEF Step
    <3>2. Holds(t, proc[p].data, "0644", FALSE) BY <3>1, <1>i DEF InHand
    <3>3. u \in FileSet /\ Holds(u, proc[p].data, "0644", TRUE)
      BY <3>1, <3>2 DEF FileSet, Holds
    <3>4. Step(p, "sync", "close", u) BY <2>1
    <3> HIDE DEF u
    <3> QED BY <3>3, <3>4, <1>s, StepFits
  <2> QED BY <1>4, <2>1, FailsKeeps DEF Sync
<1>5. CASE Close(p)
  <2>1. CASE Step(p, "close", "rename", t)
    <3>1. proc[p].pc = "close" /\ t \in FileSet BY <2>1, HasFile DEF Step
    <3>2. Holds(t, proc[p].data, "0644", TRUE) BY <3>1, <1>i DEF InHand
    <3> QED BY <2>1, <3>1, <3>2, <1>s, StepFits
  <2> QED BY <1>5, <2>1, FailsKeeps DEF Close
<1> QED BY <1>1, <1>2, <1>3, <1>4, <1>5

-----------------------------------------------------------------------------
(* Changes of the directory. *)

\* Noting changes nothing but "stale", and that only from FALSE to TRUE.
LEMMA NotingOnlyNotes ==
    ASSUME NEW procs \in [Proc -> ProcSet], proc' = Noting(procs, dir'), NEW q \in Proc
    PROVE  /\ proc' \in [Proc -> ProcSet]
           /\ proc'[q].pc = procs[q].pc /\ proc'[q].data = procs[q].data
           /\ proc'[q].path = procs[q].path /\ proc'[q].tmp = procs[q].tmp
           /\ proc'[q].stale = FALSE => procs[q].stale = FALSE
           /\ proc'[q].stale = FALSE /\ proc'[q].pc # "idle"
              => \A f \in Name : dir'[f].kind = dir[f].kind
<1>1. \A x \in Proc : [procs[x] EXCEPT !.stale = TRUE] \in ProcSet
  BY DEF ProcSet
<1>2. proc' \in [Proc -> ProcSet] BY <1>1 DEF Noting
<1>3. CASE \E f \in Name : dir'[f].kind # dir[f].kind /\ procs[q].pc # "idle"
  <2>1. proc'[q] = [procs[q] EXCEPT !.stale = TRUE] BY <1>3 DEF Noting
  <2> QED BY <1>2, <2>1 DEF ProcSet
<1>4. CASE ~ \E f \in Name : dir'[f].kind # dir[f].kind /\ procs[q].pc # "idle"
  <2>1. proc'[q] = procs[q] BY <1>4 DEF Noting
  <2> QED BY <1>2, <1>4, <2>1
<1> QED BY <1>3, <1>4

\* Where Path leads depends on the kinds of the entries alone.
LEMMA KindsDecide ==
    ASSUME NEW d \in [Name -> Entry], NEW e \in [Name -> Entry],
           \A f \in Name : d[f].kind = e[f].kind
    PROVE  d[Path] = Link <=> e[Path] = Link
<1>1. \A x \in Entry : x = Link <=> x.kind = "link"
  BY DEF Entry, FileSet, None, Link
<1> QED BY <1>1 DEF Name

\* A change of the directory that the processes note. Only p may change more.
LEMMA DirectoryChanges ==
    ASSUME WFInv, NEW procs \in [Proc -> ProcSet], \A q \in Proc : InHand(procs[q]),
           \A q \in Proc : procs[q].pc # "idle" =>
               /\ proc[q].pc # "idle"
               /\ procs[q].path = proc[q].path /\ procs[q].stale = proc[q].stale,
           dir' \in [Name -> Entry], \A f \in Name : Whole(dir'[f]),
           proc' = Noting(procs, dir'), UNCHANGED settled
    PROVE  WFInv'
<1>1. Typed'
  <2>1. CASE Proc = {} BY <2>1 DEF WFInv, Typed, Noting
  <2>2. CASE Proc # {} BY <2>2, NotingOnlyNotes DEF WFInv, Typed
  <2> QED BY <2>1, <2>2
<1>2. NeverTorn' BY DEF WFInv, NeverTorn, Whole
<1>3. ASSUME NEW q \in Proc PROVE InHand(proc'[q]) /\ Aimed(proc[q])'
  <2> DEFINE r == proc'[q]
  <2>1. /\ r.pc = procs[q].pc /\ r.data = procs[q].data /\ r.path = procs[q].path
        /\ r.tmp = procs[q].tmp
        /\ r.stale = FALSE => procs[q].stale = FALSE
        /\ r.stale = FALSE /\ r.pc # "idle" => \A f \in Name : dir'[f].kind = dir[f].kind
    BY NotingOnlyNotes
  <2> HIDE DEF r
  <2>2. InHand(r) BY <2>1 DEF InHand
  <2>3. ASSUME r.pc # "idle", r.stale = FALSE PROVE r.path = EvalSymlinks'
    <3>1. \A f \in Name : dir'[f].kind = dir[f].kind BY <2>1, <2>3
    <3>2. dir'[Path] = Link <=> dir[Path] = Link
      BY <3>1, KindsDecide DEF WFInv, Typed
    <3>3. EvalSymlinks' = EvalSymlinks BY <3>1, <3>2 DEF EvalSymlinks, Name
    <3>4. proc[q].path = EvalSymlinks BY <2>1, <2>3 DEF WFInv, Aimed
    <3> QED BY <2>1, <2>3, <3>3, <3>4
  <2> QED BY <2>2, <2>3 DEF Aimed, r
<1> QED BY <1>1, <1>2, <1>3 DEF WFInv, InHand

\* The rename puts in place a file that is whole.
LEMMA RenameKeeps ==
    ASSUME WFInv, NEW p \in Proc, Rename(p)
    PROVE  WFInv'
<1>1. CASE Fails(p, "rename") BY <1>1, FailsKeeps
<1>2. CASE /\ proc[p].pc = "rename"
           /\ dir' = [dir EXCEPT ![proc[p].path] = proc[p].tmp]
           /\ proc' = Noting([proc EXCEPT ![p].pc = "renamed", ![p].tmp = None], dir')
           /\ UNCHANGED settled
  <2> DEFINE r == [proc[p] EXCEPT !.pc = "renamed", !.tmp = None]
             procs == [proc EXCEPT ![p] = r]
  <2>1. proc[p] \in ProcSet /\ InHand(proc[p]) BY DEF WFInv, Typed
  <2>2. proc[p].tmp \in FileSet BY <1>2, HasFile
  <2>3. Whole(proc[p].tmp) BY <1>2, <2>1 DEF InHand, Holds, Whole
  <2>4. proc[p].path \in Name BY <2>1 DEF ProcSet
  <2>5. dir' \in [Name -> Entry] BY <1>2, <2>2, <2>4 DEF WFInv, Typed, Entry
  <2>6. \A f \in Name : Whole(dir'[f])
    BY <1>2, <2>3, <2>4 DEF WFInv, Typed, NeverTorn
  <2>7. r \in ProcSet BY <2>1 DEF ProcSet, Stages
  <2>8. /\ r.pc = "renamed" /\ r.tmp = None /\ r.data = proc[p].data
        /\ r.path = proc[p].path /\ r.stale = proc[p].stale
    BY <2>1 DEF ProcSet
  <2>9. InHand(r) BY <1>2, <2>1, <2>8 DEF InHand
  <2>10. proc' = Noting(procs, dir')
    BY <1>2 DEF WFInv, Typed
  <2> HIDE DEF r
  <2>11. /\ procs \in [Proc -> ProcSet]
         /\ \A q \in Proc : procs[q] = IF q = p THEN r ELSE proc[q]
    BY <2>7 DEF WFInv, Typed
  <2>12. \A q \in Proc : InHand(procs[q]) BY <2>9, <2>11 DEF WFInv
  <2>13. \A q \in Proc : procs[q].pc # "idle" =>
               /\ proc[q].pc # "idle"
               /\ procs[q].path = proc[q].path /\ procs[q].stale = proc[q].stale
    BY <1>2, <2>8, <2>11
  <2> HIDE DEF procs
  <2> QED BY <1>2, <2>5, <2>6, <2>10, <2>11, <2>12, <2>13, DirectoryChanges
<1> QED BY <1>1, <1>2 DEF Rename

\* Another program leaves no file behind.
LEMMA RelinkKeeps ==
    ASSUME WFInv, NEW f \in Name, NEW e \in {None, Link}, Relink(f, e)
    PROVE  WFInv'
<1>1. dir' = [dir EXCEPT ![f] = e] /\ proc' = Noting(proc, dir') /\ UNCHANGED settled
  BY DEF Relink
<1>2. e \in Entry /\ Whole(e) BY DEF Entry, Whole, None, Link
<1>3. dir' \in [Name -> Entry] BY <1>1, <1>2 DEF WFInv, Typed
<1>4. \A g \in Name : Whole(dir'[g]) BY <1>1, <1>2 DEF WFInv, Typed, NeverTorn
<1>5. proc \in [Proc -> ProcSet] /\ \A q \in Proc : InHand(proc[q])
  BY DEF WFInv, Typed
<1> QED BY <1>1, <1>3, <1>4, <1>5, DirectoryChanges

\* A power failure finds only files that are synced, and keeps them.
LEMMA PowerLossIsClean ==
    ASSUME WFInv, PowerLoss
    PROVE  dir' = settled /\ settled' = settled /\ proc' = [p \in Proc |-> Resting]
<1>1. Path \in Name /\ Real \in Name BY DEF Name
<1>2. \A f \in Name : Survivors(settled[f]) = {settled[f]}
  BY DEF WFInv, NeverTorn, Whole, Survivors
<1>3. PICK d \in Survivors(settled[Path]), e \in Survivors(settled[Real]) :
          dir' = [f \in Name |-> IF f = Path THEN d ELSE e]
  BY DEF PowerLoss
<1>4. d = settled[Path] /\ e = settled[Real] BY <1>1, <1>2
<1>5. dir' = settled
  <2>1. \A f \in Name : f = Path \/ f = Real BY DEF Name
  <2>2. \A f \in Name : dir'[f] = settled[f] BY <1>3, <1>4, <2>1
  <2>3. settled \in [Name -> Entry] BY DEF WFInv, Typed
  <2> QED BY <1>3, <2>2, <2>3
<1> QED BY <1>5 DEF PowerLoss

-----------------------------------------------------------------------------
(* The invariant holds. *)

\* The directory is whole before the first call.
LEMMA InitHolds == Init => WFInv
<1> SUFFICES ASSUME Init PROVE WFInv OBVIOUS
<1>1. PICK v \in Value : \E d \in {None, Link, File(v, "0644", TRUE)},
                            e \in {None, File(v, "0644", TRUE)} :
          dir = [f \in Name |-> IF f = Path THEN d ELSE e]
  BY DEF Init
<1>2. \A x \in {None, Link, File(v, "0644", TRUE)} : x \in Entry /\ Whole(x)
  <2>1. None \in Entry /\ Whole(None) BY DEF Entry, Whole, None
  <2>2. Link \in Entry /\ Whole(Link) BY DEF Entry, Whole, Link
  <2>3. File(v, "0644", TRUE) \in Entry BY DEF Entry, FileSet, File
  <2>4. Whole(File(v, "0644", TRUE)) BY DEF Whole, File
  <2> QED BY <2>1, <2>2, <2>3, <2>4
<1>3. dir \in [Name -> Entry] /\ \A f \in Name : Whole(dir[f]) BY <1>1, <1>2
<1>4. settled = dir /\ proc = [p \in Proc |-> Resting] BY DEF Init
<1> QED BY <1>3, <1>4, RestingFits DEF WFInv, Typed, NeverTorn

\* Every step keeps the invariant.
LEMMA NextKeeps == WFInv /\ [Next]_vars => WFInv'
<1> SUFFICES ASSUME WFInv, [Next]_vars PROVE WFInv' OBVIOUS
<1>1. CASE UNCHANGED vars
  BY <1>1 DEF vars, WFInv, Typed, NeverTorn, Whole, InHand, Holds, Aimed, EvalSymlinks
<1>2. ASSUME NEW p \in Proc, writeFile(p) PROVE WFInv'
  <2>1. ASSUME NEW v \in Value, Resolve(p, v) PROVE WFInv' BY <2>1, ResolveKeeps
  <2>2. CASE CreateTemp(p) \/ Write(p) \/ Chmod(p) \/ Sync(p) \/ Close(p)
    BY <2>2, TempFileSteps
  <2>3. CASE Rename(p) BY <2>3, RenameKeeps
  <2>4. CASE Remove(p) BY <2>4, BackToRest DEF Remove
  <2> QED BY <1>2, <2>1, <2>2, <2>3, <2>4 DEF writeFile
<1>3. ASSUME NEW p \in Proc, Kill(p) PROVE WFInv' BY <1>3, BackToRest DEF Kill
<1>4. ASSUME NEW f \in Name, NEW e \in {None, Link}, Relink(f, e) PROVE WFInv'
  BY <1>4, RelinkKeeps
<1>5. CASE Settle
  BY <1>5 DEF Settle, WFInv, Typed, NeverTorn, Whole, InHand, Holds, Aimed, EvalSymlinks
<1>6. CASE PowerLoss
  <2>1. dir' = settled /\ settled' = settled /\ proc' = [p \in Proc |-> Resting]
    BY <1>6, PowerLossIsClean
  <2>2. Typed' /\ NeverTorn' BY <2>1, RestingFits DEF WFInv, Typed, NeverTorn, Whole
  <2>3. \A p \in Proc : InHand(proc'[p]) BY <2>1, RestingFits
  <2>4. \A p \in Proc : proc'[p].pc = "idle" BY <2>1 DEF Resting
  <2> QED BY <2>2, <2>3, <2>4 DEF WFInv, InHand, Aimed
<1> QED BY <1>1, <1>2, <1>3, <1>4, <1>5, <1>6 DEF Next

\* The invariant gives the type invariant that TLC checks.
LEMMA InvIsTyped == WFInv => TypeOK
  BY DEF WFInv, Typed, TypeOK, InHand

\* Every variable of writeFile's calls, of the directory and of the disk keeps
\* its type, and a call has a temporary file exactly while it should.
THEOREM WriteFileTypeCorrect == Spec => []TypeOK
  BY InitHolds, NextKeeps, InvIsTyped, PTL DEF Spec

\* No name ever shows, to a reader or after a power failure, a file that is
\* incomplete, unreadable or not yet on the disk.
THEOREM NoFileIsTorn == Spec => []NeverTorn
<1>1. WFInv => NeverTorn BY DEF WFInv
<1> QED BY <1>1, InitHolds, NextKeeps, PTL DEF Spec

-----------------------------------------------------------------------------
(* Writing through a link. *)

\* The rename of a call whose aim is not stale.
LEMMA RenameHits ==
    ASSUME WFInv, NEW p \in Proc, Rename(p), proc'[p].pc = "renamed", ~proc[p].stale
    PROVE  /\ Content(dir'[IF dir'[Path] = Link THEN Real ELSE Path]) = proc[p].data
           /\ dir[Path] = Link /\ dir[Real].kind = "file" => dir'[Path] = Link
<1>1. proc[p] \in ProcSet /\ InHand(proc[p]) /\ Aimed(proc[p]) BY DEF WFInv, Typed
<1>2. /\ proc[p].pc = "rename" /\ dir' = [dir EXCEPT ![proc[p].path] = proc[p].tmp]
  <2>1. ~Fails(p, "rename") BY DEF Fails, Step, WFInv, Typed, ProcSet
  <2> QED BY <2>1 DEF Rename
<1>3. proc[p].tmp \in FileSet BY <1>2, HasFile
<1>4. Holds(proc[p].tmp, proc[p].data, "0644", TRUE) BY <1>1, <1>2 DEF InHand
<1>5. Content(proc[p].tmp) = proc[p].data /\ proc[p].tmp # Link
  BY <1>3, <1>4 DEF Content, Holds, FileSet, Link
<1>6. proc[p].path = EvalSymlinks BY <1>1, <1>2 DEF Aimed, ProcSet
<1>7. Path \in Name /\ Real \in Name /\ dir \in [Name -> Entry]
  BY DEF Name, WFInv, Typed
<1> QED BY <1>2, <1>5, <1>6, <1>7, WriteFileAssumption DEF EvalSymlinks

\* Nothing but the call's own rename takes it past the rename.
LEMMA OnlyRename ==
    ASSUME WFInv, Next, NEW p \in Proc, proc[p].pc = "rename", proc'[p].pc = "renamed"
    PROVE  Rename(p)
<1>p. proc \in [Proc -> ProcSet] BY DEF WFInv, Typed
<1>1. ASSUME NEW q \in Proc, q # p, writeFile(q) PROVE FALSE
  <2>1. CASE \E v \in Value : Resolve(q, v) BY <1>1, <2>1, <1>p DEF Resolve
  <2>2. ASSUME NEW from, NEW to, NEW tmp, Step(q, from, to, tmp) PROVE FALSE
    BY <1>1, <2>2, <1>p DEF Step
  <2>3. CASE proc' = [proc EXCEPT ![q] = Resting] BY <1>1, <2>3, <1>p
  <2>4. CASE proc' = Noting([proc EXCEPT ![q].pc = "renamed", ![q].tmp = None], dir')
    <3> DEFINE r == [proc[q] EXCEPT !.pc = "renamed", !.tmp = None]
               procs == [proc EXCEPT ![q] = r]
    <3>1. proc[q] \in ProcSet BY <1>p
    <3>2. r \in ProcSet BY <3>1 DEF ProcSet, Stages
    <3>3. proc' = Noting(procs, dir') BY <2>4, <1>p
    <3> HIDE DEF r
    <3>4. procs \in [Proc -> ProcSet] /\ procs[p] = proc[p] BY <1>1, <1>p, <3>2
    <3> HIDE DEF procs
    <3>5. proc'[p].pc = procs[p].pc BY <3>3, <3>4, NotingOnlyNotes
    <3> QED BY <3>4, <3>5
  <2> QED BY <1>1, <2>1, <2>2, <2>3, <2>4
       DEF writeFile, CreateTemp, Write, Chmod, Sync, Close, Rename, Remove, Fails
<1>2. ASSUME writeFile(p) PROVE Rename(p)
  BY <1>2 DEF writeFile, Resolve, CreateTemp, Write, Chmod, Sync, Close, Remove, Fails, Step
<1>3. ASSUME NEW q \in Proc, Kill(q) PROVE FALSE BY <1>3, <1>p DEF Kill, Resting
<1>4. ASSUME NEW f \in Name, NEW e \in {None, Link}, Relink(f, e) PROVE FALSE
  <2>1. proc' = Noting(proc, dir') BY <1>4 DEF Relink
  <2>2. proc'[p].pc = proc[p].pc BY <2>1, <1>p, NotingOnlyNotes
  <2> QED BY <2>2
<1>5. ~Settle BY DEF Settle
<1>6. ~PowerLoss BY DEF PowerLoss, Resting
<1> QED BY <1>1, <1>2, <1>3, <1>4, <1>5, <1>6 DEF Next

\* "The write goes through to the real file": a rename puts the call's data
\* where Path leads, and keeps the link, unless another program changed the kind
\* of a name after the call looked.
THEOREM WritesThrough == Spec => WriteThrough
<1> DEFINE Through(p) ==
        proc[p].pc = "rename" /\ proc'[p].pc = "renamed" /\ ~proc[p].stale =>
            /\ Content(dir'[IF dir'[Path] = Link THEN Real ELSE Path]) = proc[p].data
            /\ dir[Path] = Link /\ dir[Real].kind = "file" => dir'[Path] = Link
<1>1. ASSUME WFInv, [Next]_vars PROVE [\A p \in Proc : Through(p)]_vars
  <2> SUFFICES ASSUME Next, NEW p \in Proc, proc[p].pc = "rename",
                      proc'[p].pc = "renamed", ~proc[p].stale
               PROVE  Through(p)
    BY <1>1
  <2>1. Rename(p) BY <1>1, OnlyRename
  <2> QED BY <1>1, <2>1, RenameHits
<1> QED BY <1>1, InitHolds, NextKeeps, PTL DEF Spec, WriteThrough

-----------------------------------------------------------------------------
(* writeFile implements AtomicFile. *)

\* What AtomicFile calls cur, settled and call.
curMap     == [f \in Name |-> Content(dir[f])]
settledMap == [f \in Name |-> Content(settled[f])]
callMap    == [p \in Proc |-> Stage(proc[p])]

\* An entry that is whole shows complete contents or no file.
LEMMA WholeShows ==
    ASSUME NEW e \in Entry, Whole(e)
    PROVE  Content(e) \in Value \cup {"none", "link"}
<1>1. CASE e.kind = "file" BY <1>1 DEF Content, Whole
<1>2. CASE e.kind # "file"
  <2>1. e.kind \in {"none", "link"} BY <1>2 DEF Entry, FileSet, None, Link
  <2> QED BY <1>2, <2>1 DEF Content
<1> QED BY <1>1, <1>2

\* Initial states are initial states.
LEMMA InitRefines == Init => Atomic!Init
<1> SUFFICES ASSUME Init PROVE Atomic!Init OBVIOUS
<1>1. WFInv BY InitHolds
<1>2. \A f \in Name : Content(dir[f]) \in Value \cup {"none", "link"}
  BY <1>1, WholeShows DEF WFInv, Typed, NeverTorn
<1>3. curMap \in Atomic!File BY <1>2 DEF curMap, Atomic!File
<1>4. settledMap = curMap BY DEF Init, settledMap, curMap
<1>5. callMap = [p \in Proc |-> Atomic!Idle]
  <2>1. Stage(Resting) = Atomic!Idle BY DEF Stage, Resting, Atomic!Idle
  <2>2. \A p \in Proc : proc[p] = Resting BY DEF Init
  <2> QED BY <2>1, <2>2 DEF callMap
<1> QED BY <1>3, <1>4, <1>5 DEF Atomic!Init, curMap, settledMap, callMap

\* What the stages of a call are to AtomicFile.
LEMMA StageCases ==
    ASSUME NEW r
    PROVE  /\ r.pc = "idle" => Stage(r) = Atomic!Idle
           /\ r.pc = "renamed" => Stage(r) = Atomic!Done
           /\ r.pc \notin {"idle", "renamed"} => Stage(r) = Atomic!Busy(r.data)
           /\ r.pc # "idle" => Stage(r) # Atomic!Idle
<1>1. Atomic!Idle = [st |-> "idle"] /\ Atomic!Done = [st |-> "done"]
  BY DEF Atomic!Idle, Atomic!Done
<1>2. Atomic!Busy(r.data) = [st |-> "busy", v |-> r.data] BY DEF Atomic!Busy
<1>3. CASE r.pc = "idle" BY <1>1, <1>3 DEF Stage
<1>4. CASE r.pc = "renamed"
  <2>1. Stage(r) = [st |-> "done"] BY <1>4 DEF Stage
  <2> QED BY <1>1, <1>4, <2>1
<1>5. CASE r.pc \notin {"idle", "renamed"}
  <2>1. Stage(r) = [st |-> "busy", v |-> r.data] BY <1>5 DEF Stage
  <2> QED BY <1>1, <1>2, <1>5, <2>1
<1> QED BY <1>3, <1>4, <1>5

\* A step of one call that leaves the directory alone begins it, ends it, or
\* is not seen.
LEMMA OneCallRefines ==
    ASSUME WFInv, NEW p \in Proc, NEW r, proc' = [proc EXCEPT ![p] = r],
           UNCHANGED <<dir, settled>>,
           \/ r.pc = "idle"
           \/ r.pc = "create" /\ r.data \in Value /\ proc[p].pc = "idle"
           \/ /\ r.pc \notin {"idle", "renamed"} /\ proc[p].pc \notin {"idle", "renamed"}
              /\ r.data = proc[p].data
    PROVE  Atomic!Next \/ UNCHANGED Atomic!vars
<1>1. curMap' = curMap /\ settledMap' = settledMap BY DEF curMap, settledMap
<1>2. callMap' = [callMap EXCEPT ![p] = Stage(r)]
  BY DEF callMap, WFInv, Typed
<1>3. callMap[p] = Stage(proc[p]) BY DEF callMap
<1>4. CASE r.pc = "idle"
  <2>1. CASE proc[p].pc = "idle"
    <3>1. callMap' = callMap
      BY <1>2, <1>3, <1>4, <2>1, StageCases DEF callMap
    <3> QED BY <1>1, <3>1 DEF Atomic!vars, curMap, settledMap, callMap
  <2>2. CASE proc[p].pc # "idle"
    <3>1. callMap[p] # Atomic!Idle /\ callMap' = [callMap EXCEPT ![p] = Atomic!Idle]
      BY <1>2, <1>3, <1>4, <2>2, StageCases
    <3>2. Atomic!Return(p)
      BY <1>1, <3>1 DEF Atomic!Return, curMap, settledMap, callMap
    <3> QED BY <3>2 DEF Atomic!Next
  <2> QED BY <2>1, <2>2
<1>5. CASE r.pc = "create" /\ r.data \in Value /\ proc[p].pc = "idle"
  <2>1. callMap[p] = Atomic!Idle /\ callMap' = [callMap EXCEPT ![p] = Atomic!Busy(r.data)]
    BY <1>2, <1>3, <1>5, StageCases
  <2>2. Atomic!Call(p, r.data) BY <1>1, <2>1 DEF Atomic!Call, curMap, settledMap, callMap
  <2> QED BY <1>5, <2>2 DEF Atomic!Next
<1>6. CASE /\ r.pc \notin {"idle", "renamed"} /\ proc[p].pc \notin {"idle", "renamed"}
           /\ r.data = proc[p].data
  <2>1. callMap' = callMap
    BY <1>2, <1>3, <1>6, StageCases DEF callMap
  <2> QED BY <1>1, <2>1 DEF Atomic!vars, curMap, settledMap, callMap
<1> QED BY <1>4, <1>5, <1>6

\* Noting is not seen.
LEMMA NotingIsHidden ==
    ASSUME NEW procs \in [Proc -> ProcSet], proc' = Noting(procs, dir')
    PROVE  callMap' = [p \in Proc |-> Stage(procs[p])]
<1>1. ASSUME NEW p \in Proc PROVE Stage(proc'[p]) = Stage(procs[p])
  BY NotingOnlyNotes DEF Stage
<1> QED BY <1>1 DEF callMap

\* The rename is the moment a call takes effect.
LEMMA RenameRefines ==
    ASSUME WFInv, NEW p \in Proc, Rename(p), ~Fails(p, "rename")
    PROVE  Atomic!Next
<1>1. /\ proc[p].pc = "rename"
      /\ dir' = [dir EXCEPT ![proc[p].path] = proc[p].tmp]
      /\ proc' = Noting([proc EXCEPT ![p].pc = "renamed", ![p].tmp = None], dir')
      /\ UNCHANGED settled
  BY DEF Rename
<1>2. proc[p] \in ProcSet /\ InHand(proc[p]) BY DEF WFInv, Typed
<1> DEFINE r == [proc[p] EXCEPT !.pc = "renamed", !.tmp = None]
           procs == [proc EXCEPT ![p] = r]
           v == proc[p].data
           g == proc[p].path
<1>3. r \in ProcSet /\ r.pc = "renamed" BY <1>2 DEF ProcSet, Stages
<1>4. proc' = Noting(procs, dir') BY <1>1 DEF WFInv, Typed
<1> HIDE DEF r
<1>5. procs \in [Proc -> ProcSet] BY <1>3 DEF WFInv, Typed
<1>6. callMap' = [callMap EXCEPT ![p] = Atomic!Done]
  <2>1. Stage(r) = Atomic!Done BY <1>3, StageCases
  <2>2. \A q \in Proc : procs[q] = IF q = p THEN r ELSE proc[q] BY DEF WFInv, Typed
  <2> HIDE DEF procs
  <2>3. callMap' = [q \in Proc |-> Stage(procs[q])] BY <1>4, <1>5, NotingIsHidden
  <2> QED BY <2>1, <2>2, <2>3 DEF callMap
<1>7. callMap[p] = Atomic!Busy(v) BY <1>1, StageCases DEF callMap
<1>8. Content(proc[p].tmp) = v
  <2>1. proc[p].tmp \in FileSet BY <1>1, HasFile
  <2>2. Holds(proc[p].tmp, v, "0644", TRUE) BY <1>1, <1>2 DEF InHand
  <2> QED BY <2>1, <2>2 DEF Content, Holds, FileSet
<1>9. v \in Value /\ g \in Name BY <1>1, <1>2 DEF InHand, ProcSet
<1>10. curMap' = [curMap EXCEPT ![g] = v] /\ settledMap' = settledMap
  BY <1>1, <1>8, <1>9 DEF curMap, settledMap, WFInv, Typed
<1>11. Atomic!Commit(p, v, g)
  BY <1>6, <1>7, <1>10 DEF Atomic!Commit, curMap, settledMap, callMap
<1> QED BY <1>9, <1>11 DEF Atomic!Next

\* A process' step is a step or a stutter of AtomicFile.
LEMMA WriteFileRefines ==
    ASSUME WFInv, NEW p \in Proc, writeFile(p) \/ Kill(p)
    PROVE  Atomic!Next \/ UNCHANGED Atomic!vars
<1>p. proc[p] \in ProcSet BY DEF WFInv, Typed
<1>1. ASSUME NEW v \in Value, Resolve(p, v) PROVE Atomic!Next \/ UNCHANGED Atomic!vars
  <2> DEFINE r == [pc |-> "create", data |-> v, path |-> EvalSymlinks, tmp |-> None,
                   stale |-> FALSE]
  <2>1. /\ proc[p].pc = "idle" /\ proc' = [proc EXCEPT ![p] = r]
        /\ UNCHANGED <<dir, settled>>
    BY <1>1 DEF Resolve
  <2>2. r.pc = "create" /\ r.data = v OBVIOUS
  <2> HIDE DEF r
  <2> QED BY <2>1, <2>2, OneCallRefines
<1>2. ASSUME NEW from, NEW to, NEW tmp, Step(p, from, to, tmp),
             from \notin {"idle", "renamed"}, to \notin {"idle", "renamed"}
      PROVE  Atomic!Next \/ UNCHANGED Atomic!vars
  <2> DEFINE r == [proc[p] EXCEPT !.pc = to, !.tmp = tmp]
  <2>1. proc' = [proc EXCEPT ![p] = r] /\ UNCHANGED <<dir, settled>>
    BY <1>2 DEF WFInv, Typed, Step
  <2>2. r.pc = to /\ r.data = proc[p].data BY <1>p DEF ProcSet
  <2>3. proc[p].pc = from BY <1>2 DEF Step
  <2> HIDE DEF r
  <2> QED BY <1>2, <2>1, <2>2, <2>3, OneCallRefines
<1>3. CASE proc' = [proc EXCEPT ![p] = Resting] /\ UNCHANGED <<dir, settled>>
  <2>1. Resting.pc = "idle" BY DEF Resting
  <2> QED BY <1>3, <2>1, OneCallRefines
<1>4. CASE Rename(p) /\ ~Fails(p, "rename") BY <1>4, RenameRefines
<1>5. CASE CreateTemp(p)
  <2> DEFINE u == File("empty", "0600", FALSE)
  <2>1. \/ Step(p, "create", "write", u)
        \/ proc' = [proc EXCEPT ![p] = Resting] /\ UNCHANGED <<dir, settled>>
    BY <1>5 DEF CreateTemp
  <2> HIDE DEF u
  <2> QED BY <2>1, <1>2, <1>3
<1>6. CASE Write(p) BY <1>6, <1>2 DEF Write
<1>7. CASE Chmod(p)
  <2> DEFINE u == File(proc[p].tmp.data, "0644", FALSE)
  <2>1. Step(p, "chmod", "sync", u) \/ Step(p, "chmod", "remove", proc[p].tmp)
    BY <1>7 DEF Chmod, Fails
  <2> HIDE DEF u
  <2> QED BY <2>1, <1>2
<1>8. CASE Sync(p) BY <1>8, <1>2 DEF Sync, Fails
<1>9. CASE Close(p) BY <1>9, <1>2 DEF Close, Fails
<1>10. CASE Fails(p, "rename") BY <1>10, <1>2 DEF Fails
<1>11. CASE Remove(p) BY <1>11, <1>3 DEF Remove
<1>12. CASE Kill(p) BY <1>12, <1>3 DEF Kill
<1> QED BY <1>1, <1>4, <1>5, <1>6, <1>7, <1>8, <1>9, <1>10, <1>11, <1>12 DEF writeFile

\* Every step is a step or a stutter of AtomicFile.
LEMMA NextRefines == WFInv /\ [Next]_vars => [Atomic!Next]_Atomic!vars
<1> SUFFICES ASSUME WFInv, [Next]_vars PROVE Atomic!Next \/ UNCHANGED Atomic!vars
  OBVIOUS
<1>1. CASE UNCHANGED vars BY <1>1 DEF vars, Atomic!vars
<1>2. ASSUME NEW p \in Proc, writeFile(p) \/ Kill(p)
      PROVE  Atomic!Next \/ UNCHANGED Atomic!vars
  BY <1>2, WriteFileRefines
<1>3. ASSUME NEW f \in Name, NEW e \in {None, Link}, Relink(f, e) PROVE Atomic!Next
  <2>1. dir' = [dir EXCEPT ![f] = e] /\ proc' = Noting(proc, dir') /\ UNCHANGED settled
    BY <1>3 DEF Relink
  <2>2. Content(e) \in {"none", "link"} BY DEF Content, None, Link
  <2>3. curMap' = [curMap EXCEPT ![f] = Content(e)] /\ settledMap' = settledMap
    BY <2>1 DEF curMap, settledMap, WFInv, Typed
  <2>4. callMap' = callMap
    BY <2>1, NotingIsHidden DEF callMap, WFInv, Typed
  <2>5. Atomic!Relink(f, Content(e))
    BY <2>3, <2>4 DEF Atomic!Relink, curMap, settledMap, callMap
  <2> QED BY <2>2, <2>5 DEF Atomic!Next
<1>4. CASE Settle
  <2>1. curMap' = curMap /\ settledMap' = curMap /\ callMap' = callMap
    BY <1>4 DEF Settle, curMap, settledMap, callMap
  <2>2. Atomic!Settle BY <2>1 DEF Atomic!Settle, curMap, settledMap, callMap
  <2> QED BY <2>2 DEF Atomic!Next
<1>5. CASE PowerLoss
  <2>1. dir' = settled /\ settled' = settled /\ proc' = [p \in Proc |-> Resting]
    BY <1>5, PowerLossIsClean
  <2>2. curMap' = settledMap /\ settledMap' = settledMap
    BY <2>1 DEF curMap, settledMap
  <2>3. callMap' = [p \in Proc |-> Atomic!Idle]
    <3>1. Stage(Resting) = Atomic!Idle BY DEF Stage, Resting, Atomic!Idle
    <3> QED BY <2>1, <3>1 DEF callMap
  <2>4. Atomic!Loss BY <2>2, <2>3 DEF Atomic!Loss, curMap, settledMap, callMap
  <2> QED BY <2>4 DEF Atomic!Next
<1> QED BY <1>1, <1>2, <1>3, <1>4, <1>5 DEF Next

\* writeFile, with all its failures, kills and power failures, replaces files as
\* AtomicFile does: in one step, whole, by the data of the call.
THEOREM AtomicFileImplemented == Spec => ImplementsAtomicFile
  BY InitHolds, NextKeeps, InitRefines, NextRefines, PTL
     DEF Spec, ImplementsAtomicFile, Atomic!Spec
=============================================================================
