------------------------------- MODULE MCSigning -------------------------------
EXTENDS Signing, TLC

CONSTANTS fa, fb, n1

(* Two artifacts of one base name, in two directories. *)
NameVal == (fa :> n1) @@ (fb :> n1)

Keygen     == [cmd |-> "keypair"]
SignOf(f)   == [cmd |-> "sign", file |-> f]
VerifyOf(f) == [cmd |-> "verify", file |-> f]
ReferTo(fmt) == [cmd |-> "refer", name |-> n1, format |-> fmt, subject |-> "d"]

JobsVal ==
  {Keygen, SignOf(fa), SignOf(fb), VerifyOf(fa)} \union {ReferTo(fmt) : fmt \in Formats}

Symmetry == Permutations(Procs) \union Permutations(Contents)
===============================================================================
