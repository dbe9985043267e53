------------------------------ MODULE ParseArgs ------------------------------
(***************************************************************************)
(* The command line of "bdev diff": parseArgs of io.go splits it into flag *)
(* tokens and positionals, and hands the flag tokens to the flag package,  *)
(* which reads them once more. Both must see the same flags with the same  *)
(* values, or an input is taken for the output.                            *)
(*                                                                         *)
(* A token stands for all of its kind: a name, a number that is a tier and *)
(* one that is none, a flag with its value attached, a flag nobody         *)
(* declared, one with too many dashes.                                     *)
(***************************************************************************)
EXTENDS Integers, Sequences

CONSTANTS MaxArgs      \* longest command line

ASSUME ArgsAssumption == MaxArgs \in Nat

VARIABLES
    args,        \* the command line
    i,           \* next token
    flags, pos,  \* flag tokens and positionals so far
    res          \* how diff goes on

vars == <<args, i, flags, pos, res>>

Token  == {"a", "1", "9", "-o", "-o=a", "-tier", "-h", "-x", "---o", "--"}
want   == 2
Number == {"1", "9"}
Tiers  == {"0", "1"}                 \* those of 0, 1, 2 that occur

Pending  == [st |-> "pending"]
Help     == [st |-> "exit", code |-> 0]
Usage    == [st |-> "exit", code |-> 2]
Run(o)   == [st |-> "run", pos |-> o.pos, out |-> o.out, tier |-> o.tier]

Init ==
    /\ args \in UNION {[1 .. n -> Token] : n \in 0 .. MaxArgs}
    /\ i = 1 /\ flags = <<>> /\ pos = <<>> /\ res = Pending

-----------------------------------------------------------------------------
plain(a) == a \in {"a"} \cup Number

\* Mutant: a flag that has its value attached takes the next token, too.
takesValue_Attached(a) == a \in {"-o", "-tier", "---o", "-o=a"}

\* fs.Lookup of the name without its dashes finds a flag; none is boolean.
takesValue(a) == a \in {"-o", "-tier", "---o"}

\* One iteration of the loop.
Partition ==
    /\ i <= Len(args) /\ UNCHANGED <<args, res>>
    /\ \/ /\ args[i] = "--" /\ i' = Len(args) + 1
          /\ pos' = pos \o SubSeq(args, i + 1, Len(args)) /\ UNCHANGED flags
       \/ /\ plain(args[i]) /\ i' = i + 1
          /\ pos' = Append(pos, args[i]) /\ UNCHANGED flags
       \/ /\ args[i] # "--" /\ ~plain(args[i]) /\ UNCHANGED pos
          /\ LET n == IF takesValue(args[i]) /\ i < Len(args) THEN 2 ELSE 1
             IN  i' = i + n /\ flags' = flags \o SubSeq(args, i, i + n - 1)

\* Parse of the flag package, from the k-th token on.
RECURSIVE fsParse(_, _, _)
fsParse(fl, k, got) ==
    LET more  == k < Len(fl)
        error == [got EXCEPT !.err = "error"]
    IN  IF k > Len(fl) \/ plain(fl[k]) \/ fl[k] = "--" THEN got
        ELSE CASE fl[k] = "-h"   -> [got EXCEPT !.err = "help"]
               [] fl[k] = "-o=a" -> fsParse(fl, k + 1, [got EXCEPT !.out = "a"])
               [] fl[k] = "-o" /\ more -> fsParse(fl, k + 2, [got EXCEPT !.out = fl[k + 1]])
               [] fl[k] = "-tier" /\ more /\ fl[k + 1] \in Number
                                 -> fsParse(fl, k + 2, [got EXCEPT !.tier = fl[k + 1]])
               [] OTHER          -> error

Default == [err |-> "nil", out |-> "", tier |-> "0"]

\* The rest of parseArgs, and diff's checks of -o and -tier.
Parse ==
    /\ i > Len(args) /\ res = Pending
    /\ LET got == fsParse(flags, 1, Default)
       IN  res' = IF got.err = "help" THEN Help
                  ELSE IF got.err = "error" \/ Len(pos) # want THEN Usage
                  ELSE IF got.out = "" \/ got.tier \notin Tiers THEN Usage
                  ELSE Run([pos |-> pos, out |-> got.out, tier |-> got.tier])
    /\ UNCHANGED <<args, i, flags, pos>>

Next == Partition \/ Parse
Spec == Init /\ [][Next]_vars

-----------------------------------------------------------------------------
(* Properties. *)

\* The command line read once, from left to right.
RECURSIVE Reading(_, _)
Reading(a, o) ==
    IF a = <<>>
    THEN IF Len(o.pos) = want /\ o.out # "" /\ o.tier \in Tiers THEN Run(o) ELSE Usage
    ELSE LET rest  == Tail(a)
             value == IF rest = <<>> THEN "" ELSE Head(rest)
         IN  CASE Head(a) = "--"   -> Reading(<<>>, [o EXCEPT !.pos = @ \o rest])
               [] plain(Head(a))   -> Reading(rest, [o EXCEPT !.pos = Append(@, Head(a))])
               [] Head(a) = "-h"   -> Help
               [] Head(a) = "-o=a" -> Reading(rest, [o EXCEPT !.out = "a"])
               [] Head(a) = "-o" /\ rest # <<>>
                                   -> Reading(Tail(rest), [o EXCEPT !.out = value])
               [] Head(a) = "-tier" /\ value \in Number
                                   -> Reading(Tail(rest), [o EXCEPT !.tier = value])
               [] OTHER            -> Usage

\* "Accepting flags before or after the positionals. A -- token ends flag
\* interpretation": the two passes give, for every command line, what one
\* reading from left to right gives: no token is dropped or counted twice, and
\* none is a flag's value to one pass and a positional to the other.
ReadOnce == res # Pending => res = Reading(args, [pos |-> <<>>, out |-> "", tier |-> "0"])
=============================================================================
