----------------------------- MODULE MCAccounts -----------------------------
(* Threads, sessions and pairing codes are interchangeable. *)
EXTENDS Accounts, TLC

AccountsSymmetry == Permutations(Threads) \cup Permutations(Tokens) \cup Permutations(LinkCodes)
=============================================================================
