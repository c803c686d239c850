------------------------------- MODULE Vault -------------------------------
(***************************************************************************)
(* What a shielded pool promises to whoever sees only token transfers: it  *)
(* takes value in, and pays out no more than it holds.                     *)
(***************************************************************************)
EXTENDS Integers

CONSTANT Assets

VARIABLES balance, taken, paid

vars == <<balance, taken, paid>>

Init ==
  /\ balance = [a \in Assets |-> 0]
  /\ taken   = [a \in Assets |-> 0]
  /\ paid    = [a \in Assets |-> 0]

\* v units of `a` come in.
TakeIn(a, v) ==
  /\ v > 0
  /\ balance' = [balance EXCEPT ![a] = @ + v]
  /\ taken'   = [taken EXCEPT ![a] = @ + v]
  /\ UNCHANGED paid

\* v units of `a` go out.
PayOut(a, v) ==
  /\ v > 0
  /\ v <= balance[a]
  /\ balance' = [balance EXCEPT ![a] = @ - v]
  /\ paid'    = [paid EXCEPT ![a] = @ + v]
  /\ UNCHANGED taken

\* The amount is the change of the balance.
Next ==
  \E a \in Assets :
    \/ TakeIn(a, balance'[a] - balance[a])
    \/ PayOut(a, balance[a] - balance'[a])

Spec == Init /\ [][Next]_vars
=============================================================================
