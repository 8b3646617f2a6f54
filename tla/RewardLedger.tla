---------------------------- MODULE RewardLedger ----------------------------
(***************************************************************************)
(* What a distributor of rewards promises to its accounts, whatever        *)
(* accumulator it keeps: what an account has earned never shrinks, grows   *)
(* only when rewards come in, and is paid out exactly.                     *)
(***************************************************************************)
EXTENDS Naturals

CONSTANT Accounts

VARIABLES
  received,  \* rewards that have come in
  earned,    \* [account]: what it has earned so far, paid or not
  paid       \* [account]: what it has been paid so far

Init ==
  /\ received = 0
  /\ earned = [a \in Accounts |-> 0]
  /\ paid = [a \in Accounts |-> 0]

\* More rewards come in and are shared out; nobody loses by it.
Receive ==
  /\ received' \in Nat /\ received' > received
  /\ earned' \in [Accounts -> Nat]
  /\ \A a \in Accounts : earned'[a] >= earned[a]
  /\ UNCHANGED paid

\* An account is paid all it has earned and was not paid yet.
Pay(a) ==
  /\ paid' = [paid EXCEPT ![a] = earned[a]]
  /\ UNCHANGED <<received, earned>>

Next ==
  \/ Receive
  \/ \E a \in Accounts : Pay(a)

Spec == Init /\ [][Next]_<<received, earned, paid>>
=============================================================================
