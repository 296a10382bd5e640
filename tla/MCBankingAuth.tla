---------------------------- MODULE MCBankingAuth ----------------------------
(* Instances of BankingAuth for TLC *)
EXTENDS BankingAuth, TLC

ClientSymmetry == Permutations(Clients)
=============================================================================
