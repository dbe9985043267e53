------------------------------ MODULE WriteFile ------------------------------
(***************************************************************************)
(* writeFile of io.go, system call by system call, in several processes on *)
(* one directory. Every call may fail, a process may be killed anywhere,   *)
(* and the power may fail.                                                 *)
(*                                                                         *)
(* The file system is external. A rename is atomic; changes of the         *)
(* directory reach the disk in order, at some later time, since nothing    *)
(* syncs the directory; what was not synced of a file may be lost or torn. *)
(* Two names are ordinary, Path and Real, and Path may be a link to Real.  *)
(* A name CreateTemp makes up is known to its call only, so a temporary    *)
(* file is kept with the call, and forgotten if the call leaves it behind. *)
(***************************************************************************)
EXTENDS Naturals

CONSTANTS
    Proc, Value,
    Path,        \* the output path given to bdev
    Real         \* the name Path refers to when it is a link

ASSUME WriteFileAssumption == Path # Real

VARIABLES
    dir,         \* the directory
    settled,     \* the directory as it is on the disk
    proc         \* the processes

vars == <<dir, settled, proc>>

Name == {Path, Real}

\* An entry of the directory; "torn" is some part of what was written.
None == [kind |-> "none"]
Link == [kind |-> "link"]                \* to Real
File(data, mode, synced) == [kind |-> "file", data |-> data, mode |-> mode, synced |-> synced]
FileSet == [kind : {"file"}, data : Value \cup {"empty", "torn"}, mode : {"0600", "0644"},
            synced : BOOLEAN]
Entry   == {None, Link} \cup FileSet

\* A process: the data of its call, where it goes, the temporary file. "stale"
\* is history: whether a name has become another kind of entry since then.
Resting == [pc |-> "idle", data |-> "empty", path |-> Path, tmp |-> None, stale |-> FALSE]

Init ==
    /\ \E v \in Value : \E d \in {None, Link, File(v, "0644", TRUE)},
                           e \in {None, File(v, "0644", TRUE)} :
          dir = [f \in Name |-> IF f = Path THEN d ELSE e]
    /\ settled = dir /\ proc = [p \in Proc |-> Resting]

-----------------------------------------------------------------------------
(* The steps of writeFile. *)

\* Process p, at the step before, goes on with temporary file "tmp".
Step(p, from, to, tmp) ==
    /\ proc[p].pc = from
    /\ proc' = [proc EXCEPT ![p].pc = to, ![p].tmp = tmp]
    /\ UNCHANGED <<dir, settled>>

\* An error: the file is closed, the deferred Remove is next.
Fails(p, from) == Step(p, from, "remove", proc[p].tmp)

\* Mutant: the path is taken as it is.
EvalSymlinks_Literal == Path

\* Where the write goes: Path if it does not resolve.
EvalSymlinks ==
    IF dir[Path] = Link /\ dir[Real].kind = "file" THEN Real ELSE Path

Resolve(p, v) ==
    /\ proc[p].pc = "idle"
    /\ proc' = [proc EXCEPT ![p] = [pc |-> "create", data |-> v, path |-> EvalSymlinks,
                                     tmp |-> None, stale |-> FALSE]]
    /\ UNCHANGED <<dir, settled>>

\* Mutant: the Remove is deferred before the error is looked at.
CreateTemp_Deferred(p) ==
    \/ Step(p, "create", "write", File("empty", "0600", FALSE))
    \/ Step(p, "create", "remove", None)

\* A new file is empty and private. After an error nothing is to be removed.
CreateTemp(p) ==
    \/ Step(p, "create", "write", File("empty", "0600", FALSE))
    \/ /\ proc[p].pc = "create" /\ proc' = [proc EXCEPT ![p] = Resting]
       /\ UNCHANGED <<dir, settled>>

Write(p) ==
    \/ Step(p, "write", "chmod", [proc[p].tmp EXCEPT !.data = proc[p].data])
    \/ Step(p, "write", "remove", [proc[p].tmp EXCEPT !.data = "torn"])

\* The mode is one more thing to sync.
Chmod(p) ==
    \/ Step(p, "chmod", "sync", File(proc[p].tmp.data, "0644", FALSE))
    \/ Fails(p, "chmod")

\* Mutant: the file is not synced.
Sync_Skipped(p) == Step(p, "sync", "close", proc[p].tmp)

Sync(p) ==
    \/ Step(p, "sync", "close", [proc[p].tmp EXCEPT !.synced = TRUE])
    \/ Fails(p, "sync")

Close(p) == Step(p, "close", "rename", proc[p].tmp) \/ Fails(p, "close")

\* The processes as they are after the directory became d.
Noting(procs, d) ==
    [p \in Proc |-> IF \E f \in Name : d[f].kind # dir[f].kind /\ procs[p].pc # "idle"
                    THEN [procs[p] EXCEPT !.stale = TRUE] ELSE procs[p]]

Rename(p) ==
    \/ /\ proc[p].pc = "rename"
       /\ dir' = [dir EXCEPT ![proc[p].path] = proc[p].tmp]
       /\ proc' = Noting([proc EXCEPT ![p].pc = "renamed", ![p].tmp = None], dir')
       /\ UNCHANGED settled
    \/ Fails(p, "rename")

\* Mutant: what is removed is the output file.
Remove_Path(p) ==
    /\ proc[p].pc \in {"remove", "renamed"}
    /\ dir' = [dir EXCEPT ![proc[p].path] = None]
    /\ proc' = [proc EXCEPT ![p] = Resting] /\ UNCHANGED settled

\* The deferred Remove, an error of which is ignored, and the return.
Remove(p) ==
    /\ proc[p].pc \in {"remove", "renamed"}
    /\ proc' = [proc EXCEPT ![p] = Resting] /\ UNCHANGED <<dir, settled>>

-----------------------------------------------------------------------------
(* The rest of the world. *)

Kill(p) ==
    /\ proc[p] # Resting /\ proc' = [proc EXCEPT ![p] = Resting]
    /\ UNCHANGED <<dir, settled>>

\* Another program removes a name or makes Path a link.
Relink(f, e) ==
    /\ e = Link => f = Path
    /\ dir[f] # e /\ dir' = [dir EXCEPT ![f] = e]
    /\ proc' = Noting(proc, dir') /\ UNCHANGED settled

Settle == settled # dir /\ settled' = dir /\ UNCHANGED <<dir, proc>>

\* What was not synced may be gone.
Survivors(e) ==
    IF e.kind = "file" /\ ~e.synced THEN {e, [e EXCEPT !.data = "torn"]} ELSE {e}

PowerLoss ==
    /\ \E d \in Survivors(settled[Path]), e \in Survivors(settled[Real]) :
          dir' = [f \in Name |-> IF f = Path THEN d ELSE e]
    /\ settled' = dir' /\ proc' = [p \in Proc |-> Resting]

writeFile(p) ==
    \/ \E v \in Value : Resolve(p, v)
    \/ CreateTemp(p) \/ Write(p) \/ Chmod(p) \/ Sync(p) \/ Close(p) \/ Rename(p) \/ Remove(p)

Next ==
    \/ \E p \in Proc : writeFile(p) \/ Kill(p)
    \/ \E f \in Name, e \in {None, Link} : Relink(f, e)
    \/ Settle \/ PowerLoss

Spec == Init /\ [][Next]_vars

-----------------------------------------------------------------------------
(* Properties. *)

Stages == {"idle", "create", "write", "chmod", "sync", "close", "rename", "renamed", "remove"}
ProcSet ==
    [pc : Stages, data : Value \cup {"empty"}, path : Name, tmp : {None} \cup FileSet,
     stale : BOOLEAN]

\* Every variable has its type; a call has a temporary file from CreateTemp on
\* until it renames it or comes to the deferred Remove, and then has one.
TypeOK ==
    /\ dir \in [Name -> Entry] /\ settled \in [Name -> Entry]
    /\ proc \in [Proc -> ProcSet]
    /\ \A p \in Proc : proc[p].tmp = None <=> proc[p].pc \in {"idle", "create", "renamed"}

\* A file with all of some call's data, readable, and safe on the disk.
Whole(e) == e.kind = "file" => e.data \in Value /\ e.mode = "0644" /\ e.synced

\* Under no name there ever is a file that a reader, or the next power
\* failure, finds in part, whatever failed or died at whichever step.
NeverTorn == \A f \in Name : Whole(dir[f]) /\ Whole(settled[f])

\* What is under a name. A file others may not read is no better than a torn
\* one.
Content(e) ==
    IF e.kind = "file" THEN IF e.mode = "0644" THEN e.data ELSE "private" ELSE e.kind

Stage(r) ==
    CASE r.pc = "idle"    -> [st |-> "idle"]
      [] r.pc = "renamed" -> [st |-> "done"]
      [] OTHER            -> [st |-> "busy", v |-> r.data]

Atomic ==
    INSTANCE AtomicFile WITH
        NoFile  <- {"none", "link"},
        cur     <- [f \in Name |-> Content(dir[f])],
        settled <- [f \in Name |-> Content(settled[f])],
        call    <- [p \in Proc |-> Stage(proc[p])]

\* "A failed write (ENOSPC, crash) never leaves a truncated file clobbering a
\* good previous one": in all interleavings of calls, failures, kills and power
\* failures, writeFile replaces a file in one step, by exactly its own data,
\* and only if it does not fail.
ImplementsAtomicFile == Atomic!Spec

\* "The write goes through to the real file, instead of the rename silently
\* replacing the symlink": if no name became another kind of entry since the
\* call resolved Path, then after the rename reading Path gives the call's data,
\* and a link that led to a file is still there.
WriteThrough ==
    [][\A p \in Proc :
          proc[p].pc = "rename" /\ proc'[p].pc = "renamed" /\ ~proc[p].stale =>
              /\ Content(dir'[IF dir'[Path] = Link THEN Real ELSE Path]) = proc[p].data
              /\ dir[Path] = Link /\ dir[Real].kind = "file" => dir'[Path] = Link]_vars
=============================================================================
