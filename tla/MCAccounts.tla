----------------------------- MODULE MCAccounts -----------------------------
(* Two requests at a time over three accounts and two emails.                *)
EXTENDS Accounts, TLC

Sym == Permutations(Requests) \cup Permutations(Ids) \cup Permutations(Emails)
=============================================================================
