------------------------------- MODULE Keyring -------------------------------
(***************************************************************************)
(* An identity's private key files in a key directory (_keys.py): what     *)
(* ensure_keyring() creates and FileKeyProvider loads.  The two files are  *)
(* written one after the other, each opened with O_TRUNC and then filled,  *)
(* so a crash leaves a file missing or torn.                               *)
(*                                                                         *)
(* A file holds the number of the generate_identity() call that filled it. *)
(***************************************************************************)
EXTENDS Integers

VARIABLES
  kemFile, xFile,          \* <id>.kem.pem and <id>.x.pem
  minted                   \* generate_identity() calls so far

keyringVars == <<kemFile, xFile, minted>>

NoFile == 0
Torn == -1
Contents == {NoFile, Torn} \cup (Nat \ {0})

KeyringInit == kemFile = NoFile /\ xFile = NoFile /\ minted = 0

-----------------------------------------------------------------------------
(* ensure_keyring() asks for the kem file alone.                           *)
MustMint == kemFile = NoFile

Mint == minted' = minted + 1 /\ UNCHANGED <<kemFile, xFile>>

(* save_identity(), through _write_private_pem().                          *)
TruncateKem == kemFile' = Torn /\ UNCHANGED <<xFile, minted>>
FillKem     == kemFile' = minted /\ UNCHANGED <<xFile, minted>>
TruncateX   == xFile' = Torn /\ UNCHANGED <<kemFile, minted>>
FillX       == xFile' = minted /\ UNCHANGED <<kemFile, minted>>

(* Mutant: what is submitted lacks the keys.                               *)
DiskPair_Unset == <<NoFile, NoFile>>

(* FileKeyProvider._load_identity() succeeds, and with which key pair.     *)
Loadable == kemFile > 0 /\ xFile > 0

DiskPair == <<kemFile, xFile>>

KeyringOK == kemFile \in Contents /\ xFile \in Contents /\ minted \in Nat
=============================================================================
