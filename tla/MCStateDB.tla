----------------------------- MODULE MCStateDB -----------------------------
(* A small instance of StateDB: an account without code, a contract with    *)
(* storage, and an address that is not on disk.                             *)
EXTENDS StateDB

CONSTANTS user, contract, fresh, k1, code

Accounts ==
    [a \in {user, contract, fresh} |->
        CASE a = user -> [nonce |-> 0, balance |-> 1, code |-> NoCode, storage |-> [k \in {k1} |-> 0]]
          [] a = contract -> [nonce |-> 0, balance |-> 0, code |-> code, storage |-> [k \in {k1} |-> 1]]
          [] OTHER -> None]
=============================================================================
