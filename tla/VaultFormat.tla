--------------------------- MODULE VaultFormat ---------------------------
(*************************************************************************)
(* src/src/vault.rs over src/src/crypto.rs: how a vault file is made,    *)
(* opened, changed and sealed again, with ideal cryptography.  Argon2id  *)
(* and HKDF give one key per password and parameter set; AES-GCM         *)
(* decrypts only under the key, nonce and AAD it was made with.  Files   *)
(* sit in slots (the vault path, a backup, a copy on another disk) where *)
(* they may be copied, damaged, or mixed section by section.             *)
(*************************************************************************)
EXTENDS Naturals, Sequences

CONSTANTS
    Passwords,
    Payloads,    \* entry lists, told apart by their serialized size in bytes
    Slots,
    NoFile,
    NoHandle,    \* nothing unlocked
    Unknown,     \* a slot whose content is no longer what was sealed
    MaxVaults,   \* bound: vaults created
    MaxNonces,   \* bound: nonces drawn, two per vault and one per seal
    MaxSpoils    \* bound: times a file is damaged or mixed

NoEntries == 2               \* the payload "[]"
MaxDecryptedBytes == 50331648    \* MAX_DECRYPTED_BYTES, 48 MiB
MaxFileBytes == 67108864         \* MAX_VAULT_FILE_BYTES and MAX_READ_BYTES, 64 MiB

ASSUME FormatAssumption ==
    /\ NoEntries \in Payloads /\ Payloads \subseteq Nat
    /\ MaxVaults \in Nat /\ MaxNonces \in Nat /\ MaxSpoils \in Nat

VARIABLES
    shelf,      \* [Slots -> File]
    handle,     \* UnlockedVault
    vaults,     \* salts and Vault Keys drawn so far
    nonces,     \* nonces drawn so far
    owner,      \* history: the password each vault was created with
    made,       \* history: every ciphertext made
    origin,     \* history: what an intact slot was sealed from, or Unknown
    spoils      \* history: files damaged or mixed so far

vars == <<shelf, handle, vaults, nonces, owner, made, origin, spoils>>

--------------------------------------------------------------------------
(* Keys, ciphertexts and files.  Salt 0 has the wrong length, nonce 0 the  *)
(* wrong length or encoding, AAD "short" a ciphertext under 16 bytes.      *)

DefaultKdf(k) == [name |-> "argon2id", salt |-> k, cost |-> "default"]

\* KdfParams::validate: fixed name, salt length and hash length, bounded costs.
ValidKdf(kdf) == kdf.name = "argon2id" /\ kdf.salt # 0 /\ kdf.cost \in {"default", "accepted"}

Kek(pw, kdf) == [password |-> pw, kdf |-> kdf]
VaultKey(k)  == [vault |-> k]

Encrypt(k, n, aad, m) == [key |-> k, nonce |-> n, aad |-> aad, msg |-> m]
Blob(c) == [nonce |-> c.nonce, ciphertext |-> c]
\* Mutant: the tag of the payload is not checked
Decrypts_NoTag(blob, k, aad) ==
    /\ blob.ciphertext.aad = aad
    /\ blob.ciphertext.nonce = blob.nonce
    /\ aad = "vault" \/ blob.ciphertext.key = k

Decrypts(blob, k, aad) ==
    /\ blob.ciphertext.key = k
    /\ blob.ciphertext.nonce = blob.nonce
    /\ blob.ciphertext.aad = aad

WellFormed(blob) == blob.nonce # 0 /\ blob.ciphertext.aad # "short"

Validate(f) ==
    IF f.version # 1 THEN "UnsupportedVersion"
    ELSE IF ~ValidKdf(f.kdf) THEN "InvalidKdfParameters"
    ELSE IF WellFormed(f.wrapped) /\ WellFormed(f.vault) THEN "ok"
    ELSE "InvalidEncoding"

\* A Vault Key or a payload, and the tag of 16 bytes.
CiphertextBytes(c) ==
    IF c.aad = "short" THEN 0 ELSE 16 + IF c.aad = "vault_key" THEN 32 ELSE c.msg

Base64Bytes(n) == 4 * ((n + 2) \div 3)

\* Everything in the JSON text but the two ciphertexts is of constant length.
FrameBytes == 249
FileBytes(f) == FrameBytes + Base64Bytes(CiphertextBytes(f.wrapped.ciphertext))
                           + Base64Bytes(CiphertextBytes(f.vault.ciphertext))

\* read_vault and from_bytes, then unlock.
UnlockResult(f, pw) ==
    IF FileBytes(f) > MaxFileBytes THEN "VaultFormat"
    ELSE IF Validate(f) # "ok" THEN Validate(f)
    ELSE IF ~(/\ Decrypts(f.wrapped, Kek(pw, f.kdf), "vault_key")
              /\ Decrypts(f.vault, f.wrapped.ciphertext.msg, "vault"))
         THEN "Authentication"
    ELSE IF f.vault.ciphertext.msg > MaxDecryptedBytes THEN "VaultFormat"
    ELSE "ok"

Init ==
    /\ shelf = [s \in Slots |-> NoFile]
    /\ handle = NoHandle
    /\ vaults = 0
    /\ nonces = 0
    /\ owner = <<>>
    /\ made = {}
    /\ origin = [s \in Slots |-> Unknown]
    /\ spoils = 0

--------------------------------------------------------------------------
(* VaultFile and UnlockedVault *)

Store(s, f, from) ==
    /\ shelf' = [shelf EXCEPT ![s] = f]
    /\ origin' = [origin EXCEPT ![s] = from]

\* VaultFile::new
New(pw, s) ==
    LET k    == vaults + 1
        kdf  == DefaultKdf(k)
        wrap == Encrypt(Kek(pw, kdf), nonces + 1, "vault_key", VaultKey(k))
        body == Encrypt(VaultKey(k), nonces + 2, "vault", NoEntries)
    IN
    /\ handle = NoHandle
    /\ vaults < MaxVaults /\ nonces + 2 <= MaxNonces
    /\ vaults' = k
    /\ nonces' = nonces + 2
    /\ owner' = Append(owner, pw)
    /\ made' = made \cup {wrap, body}
    /\ handle' = [vault |-> k, kdf |-> kdf, wrapped |-> Blob(wrap), entries |-> NoEntries]
    /\ Store(s, [version |-> 1, kdf |-> kdf, wrapped |-> Blob(wrap), vault |-> Blob(body)],
             [vault |-> k, entries |-> NoEntries])
    /\ UNCHANGED spoils

\* Mutant: the parameters kept in memory are the defaults of this build
Unlock_KeepsDefaultKdf(s, pw) ==
    /\ handle = NoHandle
    /\ shelf[s] # NoFile
    /\ UnlockResult(shelf[s], pw) = "ok"
    /\ handle' = [vault   |-> shelf[s].wrapped.ciphertext.msg.vault,
                  kdf     |-> DefaultKdf(vaults),
                  wrapped |-> shelf[s].wrapped,
                  entries |-> shelf[s].vault.ciphertext.msg]
    /\ UNCHANGED <<shelf, vaults, nonces, owner, made, origin, spoils>>

\* VaultFile::unlock; a failure changes nothing.
Unlock(s, pw) ==
    /\ handle = NoHandle
    /\ shelf[s] # NoFile
    /\ UnlockResult(shelf[s], pw) = "ok"
    /\ handle' = [vault   |-> shelf[s].wrapped.ciphertext.msg.vault,
                  kdf     |-> shelf[s].kdf,
                  wrapped |-> shelf[s].wrapped,
                  entries |-> shelf[s].vault.ciphertext.msg]
    /\ UNCHANGED <<shelf, vaults, nonces, owner, made, origin, spoils>>

\* add_entry, update_entry and remove_entry
Edit(p) ==
    /\ handle # NoHandle
    /\ handle' = [handle EXCEPT !.entries = p]
    /\ UNCHANGED <<shelf, vaults, nonces, owner, made, origin, spoils>>

\* Mutant: seal writes today's default parameters instead of the vault's own
Seal_DefaultKdf(s) ==
    /\ handle # NoHandle
    /\ handle.entries <= MaxDecryptedBytes
    /\ nonces < MaxNonces
    /\ nonces' = nonces + 1
    /\ LET body == Encrypt(VaultKey(handle.vault), nonces + 1, "vault", handle.entries)
       IN  /\ made' = made \cup {body}
           /\ Store(s, [version |-> 1, kdf |-> DefaultKdf(vaults),
                        wrapped |-> handle.wrapped, vault |-> Blob(body)],
                    [vault |-> handle.vault, entries |-> handle.entries])
    /\ UNCHANGED <<handle, vaults, owner, spoils>>

\* Mutant: seal uses the nonce of the wrapped key again
Seal_ReusesNonce(s) ==
    /\ handle # NoHandle
    /\ handle.entries <= MaxDecryptedBytes
    /\ nonces < MaxNonces
    /\ LET body == Encrypt(VaultKey(handle.vault), nonces, "vault", handle.entries)
       IN  /\ made' = made \cup {body}
           /\ Store(s, [version |-> 1, kdf |-> handle.kdf,
                        wrapped |-> handle.wrapped, vault |-> Blob(body)],
                    [vault |-> handle.vault, entries |-> handle.entries])
    /\ UNCHANGED <<handle, vaults, nonces, owner, spoils>>

\* Mutant: seal does not look at the size of what it encrypts
Seal_Unchecked(s) ==
    /\ handle # NoHandle
    /\ nonces < MaxNonces
    /\ nonces' = nonces + 1
    /\ LET body == Encrypt(VaultKey(handle.vault), nonces + 1, "vault", handle.entries)
       IN  /\ made' = made \cup {body}
           /\ Store(s, [version |-> 1, kdf |-> handle.kdf,
                        wrapped |-> handle.wrapped, vault |-> Blob(body)],
                    [vault |-> handle.vault, entries |-> handle.entries])
    /\ UNCHANGED <<handle, vaults, owner, spoils>>

\* seal: a fresh nonce, everything else as it was unlocked.
Seal(s) ==
    /\ handle # NoHandle
    /\ handle.entries <= MaxDecryptedBytes
    /\ nonces < MaxNonces
    /\ nonces' = nonces + 1
    /\ LET body == Encrypt(VaultKey(handle.vault), nonces + 1, "vault", handle.entries)
       IN  /\ made' = made \cup {body}
           /\ Store(s, [version |-> 1, kdf |-> handle.kdf,
                        wrapped |-> handle.wrapped, vault |-> Blob(body)],
                    [vault |-> handle.vault, entries |-> handle.entries])
    /\ UNCHANGED <<handle, vaults, owner, spoils>>

LockVault ==
    /\ handle # NoHandle
    /\ handle' = NoHandle
    /\ UNCHANGED <<shelf, vaults, nonces, owner, made, origin, spoils>>

--------------------------------------------------------------------------
(* What happens to files outside the program *)

Copy(s, t) ==
    /\ s # t /\ shelf[s] # NoFile
    /\ Store(t, shelf[s], origin[s])
    /\ UNCHANGED <<handle, vaults, nonces, owner, made, spoils>>

Spoil(s, f) ==
    /\ spoils < MaxSpoils
    /\ spoils' = spoils + 1
    /\ Store(s, f, Unknown)
    /\ UNCHANGED <<handle, vaults, nonces, owner, made>>

\* One section of s is replaced by that section of t.
Splice(s, t, section) ==
    /\ s # t /\ shelf[s] # NoFile /\ shelf[t] # NoFile
    /\ Spoil(s, [shelf[s] EXCEPT ![section] = shelf[t][section]])

\* The two encrypted sections change places.
Exchange(s) ==
    /\ shelf[s] # NoFile
    /\ Spoil(s, [shelf[s] EXCEPT !.wrapped = shelf[s].vault, !.vault = shelf[s].wrapped])

Flipped(blob) == [blob EXCEPT !.ciphertext.key = [noone |-> 0]]

Damages(f) ==
    {[f EXCEPT !.version = 2],
     [f EXCEPT !.kdf.name = "other"],
     [f EXCEPT !.kdf.salt = 0],
     [f EXCEPT !.kdf.cost = "accepted"],
     [f EXCEPT !.kdf.cost = "forbidden"],
     [f EXCEPT !.wrapped.nonce = 0],
     [f EXCEPT !.wrapped = Flipped(f.wrapped)],
     [f EXCEPT !.vault.nonce = f.wrapped.nonce],
     [f EXCEPT !.vault.ciphertext.aad = "short"],
     [f EXCEPT !.vault = Flipped(f.vault)]}

Damage(s) ==
    /\ shelf[s] # NoFile
    /\ \E f \in Damages(shelf[s]) : Spoil(s, f)

--------------------------------------------------------------------------

Next ==
    \/ \E s \in Slots :
          \/ \E pw \in Passwords : New(pw, s) \/ Unlock(s, pw)
          \/ Seal(s)
          \/ \E t \in Slots :
                \/ Copy(s, t)
                \/ \E section \in {"kdf", "wrapped", "vault"} : Splice(s, t, section)
          \/ Exchange(s)
          \/ Damage(s)
    \/ \E p \in Payloads : Edit(p)
    \/ LockVault

Spec == Init /\ [][Next]_vars

--------------------------------------------------------------------------
(* Properties *)

TypeOK ==
    /\ vaults \in 0 .. MaxVaults /\ nonces \in 0 .. MaxNonces /\ spoils \in 0 .. MaxSpoils
    /\ Len(owner) = vaults
    /\ handle # NoHandle =>
          handle.vault \in 1 .. vaults /\ handle.entries \in Payloads
    /\ \A s \in Slots : origin[s] # Unknown =>
          /\ origin[s].vault \in 1 .. vaults
          /\ origin[s].entries \in Payloads /\ origin[s].entries <= MaxDecryptedBytes

\* A file that is as it was sealed, however many unlock, edit and seal rounds
\* and copies lie behind it, opens under the password its vault was created
\* with and gives back exactly the entries that were sealed.  The last 253
\* payload sizes that seal accepts are the exception: tag, Base64 and JSON
\* make the file larger than what is ever read again.
IntactOpens ==
    \A s \in Slots : origin[s] # Unknown =>
        /\ shelf[s].vault.ciphertext.msg = origin[s].entries
        /\ UnlockResult(shelf[s], owner[origin[s].vault]) =
              IF origin[s].entries <= MaxDecryptedBytes - 253 THEN "ok" ELSE "VaultFormat"

\* Whatever opens, damaged and mixed files included, opens only for the owner
\* of the vault and with entries that were once sealed in that very vault.
WhateverOpensIsGenuine ==
    \A s \in Slots : \A pw \in Passwords :
        shelf[s] # NoFile /\ UnlockResult(shelf[s], pw) = "ok" =>
            \E k \in 1 .. vaults :
                /\ owner[k] = pw
                /\ shelf[s].kdf = DefaultKdf(k)
                /\ shelf[s].vault.ciphertext \in made
                /\ shelf[s].vault.ciphertext.key = VaultKey(k)

\* crypto.rs:29: no nonce is used twice with the same key.
NoncesAreFresh ==
    \A a, b \in made : a.key = b.key /\ a.nonce = b.nonce => a = b

\* The unlocked vault can always be written back: what seal will put in the
\* file fits the Vault Key and password it was unlocked with, and its wrapped
\* key survives from creation without being wrapped again.
HandleCarriesItsKeys ==
    handle # NoHandle =>
        /\ handle.kdf = DefaultKdf(handle.vault)
        /\ Decrypts(handle.wrapped, Kek(owner[handle.vault], handle.kdf), "vault_key")
        /\ handle.wrapped.ciphertext.msg = VaultKey(handle.vault)
==========================================================================
