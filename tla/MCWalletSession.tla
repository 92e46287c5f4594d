-------------------------- MODULE MCWalletSession --------------------------
(***************************************************************************)
(* WalletSession for TLC: two wallets, so that one can hold the passphrase *)
(* of the other, two words and the blank passphrase, padded or not, and    *)
(* two faults, so that one can follow another's repair.                    *)
(***************************************************************************)
EXTENDS WalletSession
=============================================================================
