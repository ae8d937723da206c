----------------------------- MODULE MCAccounts -----------------------------
(* Accounts with a few sessions of a few users.                             *)
EXTENDS Accounts, TLC

Symmetric ==
  Permutations(Clients) \union Permutations(Names) \union Permutations(Workers)

(* Where a user is still within the promise: the rest is not searched.       *)
Promised == \E n \in Names : n \notin shared \union lost

=============================================================================
