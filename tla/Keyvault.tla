------------------------------ MODULE Keyvault ------------------------------
(***************************************************************************)
(* The SMC program (CXeSMC) and the key vault (CXeKeyVault) of a console:  *)
(* data that is turned in place on the way to the image and back, and a    *)
(* flag, bIsDecrypted, that says which way it is turned.                   *)
(***************************************************************************)
EXTENDS Integers

-----------------------------------------------------------------------------
(* SMC: how often its data has been munged, 0 when it is plain, 1 as it is *)
(* in the image                                                            *)

Munge(s)   == [data |-> s.data + 1, plain |-> FALSE]
UnMunge(s) == [data |-> s.data - 1, plain |-> TRUE]

\* Mutant: the SMC of an image is munged again.
LoadMunged(s) == [data |-> s.data + 1, plain |-> TRUE]

SaveSMC(s) == IF s.plain THEN Munge(s) ELSE s
LoadSMC(s) == UnMunge(s)   \* Load(true)
TakenSMC   == [data |-> 0, plain |-> TRUE]   \* Load(false) of a decrypted file

-----------------------------------------------------------------------------
(* Key vault: the keys its data is encrypted under, and its nonce, the hash *)
(* of the data made with a CPU key                                          *)

Vault(alt) ==
  [under |-> {}, nonce |-> <<"none", "plain">>, plain |-> TRUE, alt |-> alt]

NoVault == [Vault(FALSE) EXCEPT !.plain = FALSE]

Hash(under, cpu) == <<cpu, IF under = {} THEN "plain" ELSE "encrypted">>
CalculateNonce(v, cpu) == Hash(v.under, cpu)

Flip(S, key) == (S \ {key}) \cup ({key} \ S)

\* CXeKeyVault::Crypt.  Encrypting makes a new nonce first; decrypting succeeds
\* when the nonce is that of the result, which stays as it is if it does not.
Encrypt(v, cpu) ==
  LET nonce == CalculateNonce(v, cpu)
  IN  [v EXCEPT !.nonce = nonce, !.under = Flip(@, <<cpu, nonce>>), !.plain = FALSE]

Decrypt(v, cpu) ==
  LET under == Flip(v.under, <<cpu, v.nonce>>)
  IN  [v EXCEPT !.under = under, !.plain = Hash(under, cpu) = v.nonce]

\* Mutant: what Decrypt returns is not looked at.
SaveUnchecked(v, encrypted, cpu) ==
  CASE v.plain /\ encrypted -> Encrypt(v, cpu)
    [] ~ v.plain /\ ~ encrypted -> [Decrypt(v, cpu) EXCEPT !.plain = TRUE]
    [] OTHER -> v

\* Save(saveEncrypted): nothing when the data already is as it is wanted.
SaveVault(v, encrypted, cpu) ==
  CASE v.plain /\ encrypted -> Encrypt(v, cpu)
    [] ~ v.plain /\ ~ encrypted -> Decrypt(v, cpu)
    [] OTHER -> v

\* Load(true), and Load(false) of a file.
LoadVault(v, cpu) == Decrypt(v, cpu)
TakenVault(v) == [v EXCEPT !.plain = TRUE]
=============================================================================
