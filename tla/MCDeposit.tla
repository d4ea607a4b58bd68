------------------------------ MODULE MCDeposit ------------------------------
(* Deposit on small instances: one sell, two replicas, an account spelt in *)
(* two ways, another one and a string that is no account.                  *)
EXTENDS Deposit, TLC

CONSTANTS a, a42, b, bad

Canonicalized(address) ==
  CASE address = bad -> None
    [] address = a42 -> a
    [] OTHER -> address
=============================================================================
