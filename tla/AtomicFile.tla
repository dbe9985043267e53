----------------------------- MODULE AtomicFile -----------------------------
(***************************************************************************)
(* What writeFile of io.go promises. Calls replace files as a whole: a     *)
(* call that returns nil has put its data in place in one step, a call     *)
(* that fails or dies has changed nothing or, if it died late, everything. *)
(* A power failure takes the files back to an earlier state, together, and *)
(* never to a torn one.                                                    *)
(***************************************************************************)
CONSTANTS
    Proc,       \* processes that call writeFile
    Name,       \* names a user may give, directly or through a link
    Value,      \* contents of a file, complete and readable
    NoFile      \* what is at a name that is no file: nothing, or a link

VARIABLES
    cur,        \* the files as processes see them
    settled,    \* the files as a power failure would leave them
    call        \* call[p]: the call process p is in

vars == <<cur, settled, call>>

Idle       == [st |-> "idle"]
Busy(v)    == [st |-> "busy", v |-> v]
Done       == [st |-> "done"]
File       == [Name -> Value \cup NoFile]

Init ==
    /\ cur \in File /\ settled = cur
    /\ call = [p \in Proc |-> Idle]

Call(p, v) == /\ call[p] = Idle /\ call' = [call EXCEPT ![p] = Busy(v)]
              /\ UNCHANGED <<cur, settled>>

Commit(p, v, f) == /\ call[p] = Busy(v) /\ call' = [call EXCEPT ![p] = Done]
                   /\ cur' = [cur EXCEPT ![f] = v] /\ UNCHANGED settled

\* nil after Commit, an error before it.
Return(p) == /\ call[p] # Idle /\ call' = [call EXCEPT ![p] = Idle]
             /\ UNCHANGED <<cur, settled>>

\* Another program makes or removes a link, or removes a file.
Relink(f, x) == cur' = [cur EXCEPT ![f] = x] /\ UNCHANGED <<settled, call>>

Settle == settled' = cur /\ UNCHANGED <<cur, call>>

Loss == cur' = settled /\ call' = [p \in Proc |-> Idle] /\ UNCHANGED settled

Next ==
    \/ \E p \in Proc, v \in Value : Call(p, v) \/ \E f \in Name : Commit(p, v, f)
    \/ \E p \in Proc : Return(p)
    \/ \E f \in Name, x \in NoFile : Relink(f, x)
    \/ Settle \/ Loss

Spec == Init /\ [][Next]_vars
=============================================================================
