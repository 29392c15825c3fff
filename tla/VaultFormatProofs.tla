------------------------- MODULE VaultFormatProofs -------------------------
(*************************************************************************)
(* Theorems about VaultFormat for any passwords, payload sizes, slots,   *)
(* and numbers of vaults, seals and spoiled files.                       *)
(*************************************************************************)
EXTENDS VaultFormat, TLAPS

(* Shapes.  A spoiled file still parses: its sections are those of files   *)
(* that were sealed, or those with a field overwritten.                    *)
Kdfs == [name : {"argon2id", "other"}, salt : Nat,
         cost : {"default", "accepted", "forbidden"}]
NoOne == [noone |-> 0]
Keys == [password : Passwords, kdf : Kdfs] \cup [vault : Nat] \cup {NoOne}
Ciphertexts == [key : Keys, nonce : Nat, aad : {"vault_key", "vault", "short"},
                msg : [vault : Nat] \cup Payloads]
Blobs == [nonce : Nat, ciphertext : Ciphertexts]
FileShapes == [version : {1, 2}, kdf : Kdfs, wrapped : Blobs, vault : Blobs]

(* What the cryptography rests on: a ciphertext that is neither cut short  *)
(* nor under a key nobody has was made by the program, and what the        *)
(* program makes under a password is that password's own Vault Key.        *)
WrapOf(c, k, own) ==
    /\ c.key = Kek(own[k], DefaultKdf(k))
    /\ c.aad = "vault_key" /\ c.msg = VaultKey(k)

BodyOf(c, k) ==
    /\ c.key = VaultKey(k)
    /\ c.aad = "vault" /\ c.msg \in Payloads

Intact(blob) == blob.nonce # 0 /\ blob.ciphertext.nonce = blob.nonce

Known(c, md) == c \in md \/ c.key = NoOne \/ c.aad = "short"

Counters ==
    /\ vaults \in 0 .. MaxVaults /\ nonces \in 0 .. MaxNonces /\ spoils \in 0 .. MaxSpoils
    /\ owner \in Seq(Passwords) /\ Len(owner) = vaults

MadeInv ==
    /\ made \subseteq Ciphertexts
    /\ \A c \in made : \E k \in 1 .. vaults : WrapOf(c, k, owner) \/ BodyOf(c, k)
    /\ \A c \in made : c.nonce \in 1 .. nonces
    /\ \A c, d \in made : c.nonce = d.nonce => c = d

FileInv(f, md) ==
    f \in FileShapes /\ Known(f.wrapped.ciphertext, md) /\ Known(f.vault.ciphertext, md)

HandleInv(h, own, md) ==
    /\ h.vault \in 1 .. Len(own) /\ h.entries \in Payloads
    /\ h.kdf = DefaultKdf(h.vault)
    /\ h.wrapped \in Blobs /\ h.wrapped.ciphertext \in md
    /\ Intact(h.wrapped) /\ WrapOf(h.wrapped.ciphertext, h.vault, own)

\* f is what seal makes of the vault and entries in `from`.
Sealed(f, from, own) ==
    /\ from.vault \in 1 .. Len(own)
    /\ from.entries \in Payloads /\ from.entries <= MaxDecryptedBytes
    /\ f.version = 1 /\ f.kdf = DefaultKdf(from.vault)
    /\ Intact(f.wrapped) /\ WrapOf(f.wrapped.ciphertext, from.vault, own)
    /\ Intact(f.vault) /\ BodyOf(f.vault.ciphertext, from.vault)
    /\ f.vault.ciphertext.msg = from.entries

SlotInv(f, from, own, md) ==
    /\ f # NoFile => FileInv(f, md)
    /\ from # Unknown => Sealed(f, from, own)

FormatInv ==
    /\ Counters /\ MadeInv
    /\ shelf = [s \in Slots |-> shelf[s]] /\ origin = [s \in Slots |-> origin[s]]
    /\ \A s \in Slots : SlotInv(shelf[s], origin[s], owner, made)
    /\ handle # NoHandle => HandleInv(handle, owner, made)

--------------------------------------------------------------------------
(* What the invariant says in terms of the checked properties *)

\* The size of a sealed file is within what is read exactly up to 253 bytes
\* below the limit on the payload.
LEMMA SizeBoundary ==
    ASSUME NEW e \in Nat, e <= MaxDecryptedBytes
    PROVE  (FrameBytes + Base64Bytes(32 + 16) + Base64Bytes(e + 16) <= MaxFileBytes)
             <=> e <= MaxDecryptedBytes - 253
  BY SMT DEF FrameBytes, Base64Bytes, MaxFileBytes, MaxDecryptedBytes

LEMMA SealedOpens ==
    ASSUME NEW f, NEW from, NEW own, Sealed(f, from, own)
    PROVE  UnlockResult(f, own[from.vault]) =
               IF from.entries <= MaxDecryptedBytes - 253 THEN "ok" ELSE "VaultFormat"
<1>0. from.entries \in Nat /\ from.entries <= MaxDecryptedBytes
  BY FormatAssumption DEF Sealed
<1>1. CiphertextBytes(f.wrapped.ciphertext) = 32 + 16
  BY DEF Sealed, WrapOf, CiphertextBytes
<1>2. CiphertextBytes(f.vault.ciphertext) = from.entries + 16
  BY <1>0 DEF Sealed, BodyOf, CiphertextBytes
<1>3. FileBytes(f) <= MaxFileBytes <=> from.entries <= MaxDecryptedBytes - 253
  BY <1>1, <1>2, SizeBoundary, FormatAssumption DEF FileBytes, Sealed
<1>4. FileBytes(f) > MaxFileBytes <=> ~(from.entries <= MaxDecryptedBytes - 253)
  <2>1. FileBytes(f) \in Nat
    BY <1>1, <1>2, FormatAssumption DEF FileBytes, FrameBytes, Base64Bytes, Sealed
  <2> QED BY SMT, <1>3, <2>1 DEF MaxFileBytes
<1>5. Validate(f) = "ok"
  <2>1. ValidKdf(f.kdf)  BY DEF Sealed, ValidKdf, DefaultKdf
  <2>2. WellFormed(f.wrapped) /\ WellFormed(f.vault)
    BY DEF Sealed, WellFormed, Intact, WrapOf, BodyOf
  <2> QED BY <2>1, <2>2 DEF Validate, Sealed
<1>6. /\ Decrypts(f.wrapped, Kek(own[from.vault], f.kdf), "vault_key")
      /\ Decrypts(f.vault, f.wrapped.ciphertext.msg, "vault")
  BY DEF Sealed, Intact, WrapOf, BodyOf, Decrypts
<1>7. ~(f.vault.ciphertext.msg > MaxDecryptedBytes)
  <2>1. f.vault.ciphertext.msg = from.entries  BY DEF Sealed
  <2> QED BY SMT, <1>0, <2>1 DEF MaxDecryptedBytes
<1> QED BY <1>4, <1>5, <1>6, <1>7 DEF UnlockResult

\* Whatever opens was wrapped for the password and holds a body of that vault.
LEMMA OpenedIsKnown ==
    ASSUME FormatInv, NEW f, FileInv(f, made), NEW pw, UnlockResult(f, pw) = "ok"
    PROVE  \E k \in 1 .. vaults :
              /\ owner[k] = pw /\ f.kdf = DefaultKdf(k)
              /\ f.wrapped.ciphertext \in made /\ f.vault.ciphertext \in made
              /\ Intact(f.wrapped) /\ WrapOf(f.wrapped.ciphertext, k, owner)
              /\ Intact(f.vault) /\ BodyOf(f.vault.ciphertext, k)
<1> DEFINE w == f.wrapped.ciphertext
           b == f.vault.ciphertext
<1>1. /\ Validate(f) = "ok"
      /\ Decrypts(f.wrapped, Kek(pw, f.kdf), "vault_key")
      /\ Decrypts(f.vault, w.msg, "vault")
  BY DEF UnlockResult
<1>2. WellFormed(f.wrapped) /\ WellFormed(f.vault)  BY <1>1 DEF Validate
<1>3. w.key = Kek(pw, f.kdf) /\ w.aad = "vault_key" /\ Intact(f.wrapped)
  BY <1>1, <1>2 DEF Decrypts, Intact, WellFormed
<1>4. b.key = w.msg /\ b.aad = "vault" /\ Intact(f.vault)
  BY <1>1, <1>2 DEF Decrypts, Intact, WellFormed
<1>5. w \in made
  <2>1. Kek(pw, f.kdf) # NoOne
    <3>1. "password" \in DOMAIN Kek(pw, f.kdf)  BY DEF Kek
    <3>2. "password" \notin DOMAIN NoOne  BY DEF NoOne
    <3> QED BY <3>1, <3>2
  <2> QED BY <1>3, <2>1 DEF FileInv, Known
<1>6. PICK k \in 1 .. vaults : WrapOf(w, k, owner)
  BY <1>3, <1>5 DEF FormatInv, MadeInv, BodyOf
<1>7. owner[k] = pw /\ f.kdf = DefaultKdf(k)
  <2>1. Kek(owner[k], DefaultKdf(k)) = Kek(pw, f.kdf)  BY <1>3, <1>6 DEF WrapOf
  <2> QED BY <2>1 DEF Kek
<1>8. b.key = VaultKey(k)  BY <1>4, <1>6 DEF WrapOf
<1>9. b \in made
  <2>1. VaultKey(k) # NoOne
    <3>1. "vault" \in DOMAIN VaultKey(k)  BY DEF VaultKey
    <3>2. "vault" \notin DOMAIN NoOne  BY DEF NoOne
    <3> QED BY <3>1, <3>2
  <2> QED BY <1>4, <1>8, <2>1 DEF FileInv, Known
<1>10. BodyOf(b, k)
  <2>1. PICK j \in 1 .. vaults : BodyOf(b, j)
    BY <1>4, <1>9 DEF FormatInv, MadeInv, WrapOf
  <2> QED BY <1>8, <2>1 DEF BodyOf
<1> HIDE DEF w, b
<1> QED BY <1>3, <1>4, <1>5, <1>6, <1>7, <1>9, <1>10 DEF w, b

LEMMA FormatInvImplies ==
    FormatInv => /\ TypeOK /\ IntactOpens /\ WhateverOpensIsGenuine
                 /\ NoncesAreFresh /\ HandleCarriesItsKeys
<1> SUFFICES ASSUME FormatInv
             PROVE  /\ TypeOK /\ IntactOpens /\ WhateverOpensIsGenuine
                    /\ NoncesAreFresh /\ HandleCarriesItsKeys
  OBVIOUS
<1>1. TypeOK  BY DEF FormatInv, Counters, HandleInv, SlotInv, Sealed, TypeOK
<1>2. IntactOpens
  BY SealedOpens DEF FormatInv, SlotInv, Sealed, IntactOpens
<1>3. WhateverOpensIsGenuine
  BY OpenedIsKnown DEF FormatInv, SlotInv, WhateverOpensIsGenuine, BodyOf
<1>4. NoncesAreFresh  BY DEF FormatInv, MadeInv, NoncesAreFresh
<1>5. HandleCarriesItsKeys
  BY DEF FormatInv, HandleInv, Intact, WrapOf, Decrypts, HandleCarriesItsKeys
<1> QED BY <1>1, <1>2, <1>3, <1>4, <1>5

--------------------------------------------------------------------------
(* The steps.  Vaults, nonces, owners and ciphertexts only grow, so that   *)
(* what the invariant says of a handle or a slot goes on to hold of it.    *)

Grows ==
    /\ owner' \in Seq(Passwords) /\ Len(owner) <= Len(owner')
    /\ \A k \in 1 .. Len(owner) : owner'[k] = owner[k]
    /\ made \subseteq made'

LEMMA Growth ==
    ASSUME FormatInv, Grows
    PROVE  /\ 1 .. Len(owner) \subseteq 1 .. Len(owner')
           /\ \A h : HandleInv(h, owner, made) => HandleInv(h, owner', made')
           /\ \A f : FileInv(f, made) => FileInv(f, made')
           /\ \A f, from : SlotInv(f, from, owner, made) => SlotInv(f, from, owner', made')
<1>1. 1 .. Len(owner) \subseteq 1 .. Len(owner')
  BY DEF FormatInv, Counters, Grows
<1>2. \A c : \A k \in 1 .. Len(owner) : WrapOf(c, k, owner) => WrapOf(c, k, owner')
  BY DEF Grows, WrapOf
<1>3. \A h : HandleInv(h, owner, made) => HandleInv(h, owner', made')
  BY <1>1, <1>2 DEF Grows, HandleInv
<1>4. \A f : FileInv(f, made) => FileInv(f, made')
  BY DEF Grows, FileInv, Known
<1>5. \A f, from : Sealed(f, from, owner) => Sealed(f, from, owner')
  BY <1>1, <1>2 DEF Sealed
<1> QED BY <1>1, <1>3, <1>4, <1>5 DEF SlotInv

\* A step that stores nothing.
LEMMA NotStored ==
    ASSUME FormatInv, Grows, Counters', MadeInv', UNCHANGED <<shelf, origin>>,
           handle' # NoHandle => HandleInv(handle', owner', made')
    PROVE  FormatInv'
  BY Growth DEF FormatInv

\* A step that stores a file in one slot.
LEMMA Stored ==
    ASSUME FormatInv, Grows, Counters', MadeInv', NEW s \in Slots, NEW f, NEW from,
           Store(s, f, from), SlotInv(f, from, owner', made'),
           handle' # NoHandle => HandleInv(handle', owner', made')
    PROVE  FormatInv'
<1>1. /\ shelf' = [t \in Slots |-> shelf'[t]] /\ origin' = [t \in Slots |-> origin'[t]]
      /\ shelf'[s] = f /\ origin'[s] = from
      /\ \A t \in Slots \ {s} : shelf'[t] = shelf[t] /\ origin'[t] = origin[t]
  BY DEF FormatInv, Store
<1>2. \A t \in Slots : SlotInv(shelf'[t], origin'[t], owner', made')
  BY <1>1, Growth DEF FormatInv
<1> QED BY <1>1, <1>2 DEF FormatInv

LEMMA FormatInit == Init => FormatInv
<1> SUFFICES ASSUME Init PROVE FormatInv
  OBVIOUS
<1>1. Counters  BY FormatAssumption DEF Init, Counters
<1>2. MadeInv  BY DEF Init, MadeInv
<1>3. \A s \in Slots : SlotInv(shelf[s], origin[s], owner, made)  BY DEF Init, SlotInv
<1> QED BY <1>1, <1>2, <1>3 DEF Init, FormatInv

\* A new ciphertext under a nonce not used before, of a vault there is.
LEMMA MadeGrows ==
    ASSUME FormatInv, Grows, vaults' = Len(owner'),
           NEW c \in Ciphertexts, NEW d \in Ciphertexts,
           NEW k \in 1 .. vaults', WrapOf(c, k, owner') \/ BodyOf(c, k), BodyOf(d, k),
           c = d \/ c.nonce # d.nonce,
           c.nonce \in nonces + 1 .. nonces', d.nonce \in nonces + 1 .. nonces',
           nonces' \in Nat, made' = made \cup {c, d}
    PROVE  MadeInv'
<1>1. nonces \in Nat /\ vaults = Len(owner)  BY FormatAssumption DEF FormatInv, Counters
<1>2. MadeInv  BY DEF FormatInv
<1>3. made' \subseteq Ciphertexts  BY <1>2 DEF MadeInv
<1>4. \A e \in made' : e.nonce \in 1 .. nonces'  BY <1>1, <1>2 DEF MadeInv
<1>5. \A e \in made : e.nonce # c.nonce /\ e.nonce # d.nonce  BY <1>1, <1>2 DEF MadeInv
<1>6. \A e1, e2 \in made' : e1.nonce = e2.nonce => e1 = e2
  BY <1>2, <1>5 DEF MadeInv
<1>7. \A e \in made' : \E j \in 1 .. vaults' : WrapOf(e, j, owner') \/ BodyOf(e, j)
  <2>1. ASSUME NEW e \in made
        PROVE  \E j \in 1 .. vaults' : WrapOf(e, j, owner') \/ BodyOf(e, j)
    <3>1. PICK j \in 1 .. vaults : WrapOf(e, j, owner) \/ BodyOf(e, j)
      BY <1>2 DEF MadeInv
    <3>2. j \in 1 .. vaults' /\ owner'[j] = owner[j]  BY <1>1, Growth DEF Grows
    <3> QED BY <3>1, <3>2 DEF WrapOf
  <2> QED BY <2>1
<1> QED BY <1>3, <1>4, <1>6, <1>7 DEF MadeInv

\* The shapes of what is encrypted.
LEMMA Shapes ==
    ASSUME NEW k \in Nat, NEW n \in Nat, NEW pw \in Passwords, NEW e \in Payloads
    PROVE  /\ DefaultKdf(k) \in Kdfs
           /\ Encrypt(Kek(pw, DefaultKdf(k)), n, "vault_key", VaultKey(k)) \in Ciphertexts
           /\ Encrypt(VaultKey(k), n, "vault", e) \in Ciphertexts
<1>1. DefaultKdf(k) \in Kdfs  BY DEF DefaultKdf, Kdfs
<1>2. Kek(pw, DefaultKdf(k)) \in Keys  BY <1>1 DEF Kek, Keys
<1>3. VaultKey(k) \in Keys /\ VaultKey(k) \in [vault : Nat]  BY DEF VaultKey, Keys
<1> QED BY <1>1, <1>2, <1>3 DEF Encrypt, Ciphertexts

\* VaultFile::new
LEMMA FormatNew ==
    ASSUME FormatInv, NEW pw \in Passwords, NEW s \in Slots, New(pw, s) PROVE FormatInv'
<1> DEFINE k    == vaults + 1
           kdf  == DefaultKdf(k)
           wrap == Encrypt(Kek(pw, kdf), nonces + 1, "vault_key", VaultKey(k))
           body == Encrypt(VaultKey(k), nonces + 2, "vault", NoEntries)
           h    == [vault |-> k, kdf |-> kdf, wrapped |-> Blob(wrap), entries |-> NoEntries]
           f    == [version |-> 1, kdf |-> kdf, wrapped |-> Blob(wrap), vault |-> Blob(body)]
           from == [vault |-> k, entries |-> NoEntries]
<1>1. /\ vaults < MaxVaults /\ nonces + 2 <= MaxNonces
      /\ vaults' = k /\ nonces' = nonces + 2 /\ owner' = Append(owner, pw)
      /\ made' = made \cup {wrap, body} /\ handle' = h /\ Store(s, f, from)
      /\ UNCHANGED spoils
  BY DEF New
<1>2. /\ vaults \in Nat /\ nonces \in Nat /\ k \in Nat /\ k = Len(owner) + 1
      /\ NoEntries \in Payloads
  BY FormatAssumption DEF FormatInv, Counters
<1>20. NoEntries <= MaxDecryptedBytes  BY SMT DEF NoEntries, MaxDecryptedBytes
<1>3. Grows /\ owner'[k] = pw /\ Len(owner') = k
  BY <1>1, <1>2 DEF Grows, FormatInv, Counters
<1>4. Counters'  BY <1>1, <1>2, <1>3, FormatAssumption DEF FormatInv, Counters, Grows
<1>5. /\ kdf \in Kdfs /\ wrap \in Ciphertexts /\ body \in Ciphertexts
      /\ WrapOf(wrap, k, owner') /\ BodyOf(body, k)
      /\ wrap.nonce = nonces + 1 /\ body.nonce = nonces + 2 /\ body.msg = NoEntries
  <2>1. kdf \in Kdfs /\ wrap \in Ciphertexts /\ body \in Ciphertexts
    BY <1>2, Shapes
  <2>2. WrapOf(wrap, k, owner') /\ wrap.nonce = nonces + 1
    BY <1>3 DEF Encrypt, WrapOf
  <2>3. BodyOf(body, k) /\ body.nonce = nonces + 2 /\ body.msg = NoEntries
    BY <1>2 DEF Encrypt, BodyOf
  <2> QED BY <2>1, <2>2, <2>3
<1>6. /\ Blob(wrap) \in Blobs /\ Blob(wrap).ciphertext = wrap /\ Intact(Blob(wrap))
      /\ Blob(body) \in Blobs /\ Blob(body).ciphertext = body /\ Intact(Blob(body))
  BY <1>2, <1>5 DEF Blob, Blobs, Intact
<1> HIDE DEF wrap, body, kdf, k
<1>7. MadeInv'  BY <1>1, <1>2, <1>3, <1>5, MadeGrows
<1>8. HandleInv(h, owner', made')
  BY <1>1, <1>2, <1>3, <1>5, <1>6 DEF HandleInv, kdf
<1>9. SlotInv(f, from, owner', made')
  <2>1. f \in FileShapes  BY <1>5, <1>6 DEF FileShapes
  <2>2. FileInv(f, made')  BY <1>1, <1>6, <2>1 DEF FileInv, Known
  <2>3. Sealed(f, from, owner')
    BY <1>2, <1>20, <1>3, <1>5, <1>6 DEF Sealed, kdf
  <2> QED BY <2>2, <2>3 DEF SlotInv
<1> QED BY <1>1, <1>3, <1>4, <1>7, <1>8, <1>9, Stored

\* VaultFile::unlock: what opens carries the keys it will be sealed with.
LEMMA FormatUnlock ==
    ASSUME FormatInv, NEW pw \in Passwords, NEW s \in Slots, Unlock(s, pw) PROVE FormatInv'
<1> DEFINE f == shelf[s]
<1>1. /\ f # NoFile /\ UnlockResult(f, pw) = "ok"
      /\ handle' = [vault   |-> f.wrapped.ciphertext.msg.vault, kdf |-> f.kdf,
                    wrapped |-> f.wrapped, entries |-> f.vault.ciphertext.msg]
      /\ UNCHANGED <<shelf, vaults, nonces, owner, made, origin, spoils>>
  BY DEF Unlock
<1>2. FileInv(f, made)  BY <1>1 DEF FormatInv, SlotInv
<1>3. PICK k \in 1 .. vaults :
              /\ owner[k] = pw /\ f.kdf = DefaultKdf(k)
              /\ f.wrapped.ciphertext \in made /\ f.vault.ciphertext \in made
              /\ Intact(f.wrapped) /\ WrapOf(f.wrapped.ciphertext, k, owner)
              /\ Intact(f.vault) /\ BodyOf(f.vault.ciphertext, k)
  BY <1>1, <1>2, OpenedIsKnown
<1>4. Grows /\ Counters' /\ MadeInv'
  BY <1>1 DEF FormatInv, Grows, Counters, MadeInv
<1>5. f.wrapped.ciphertext.msg.vault = k  BY <1>3 DEF WrapOf, VaultKey
<1>6. f.wrapped \in Blobs  BY <1>2 DEF FileInv, FileShapes
<1>7. HandleInv(handle', owner', made')
  BY <1>1, <1>3, <1>5, <1>6 DEF HandleInv, BodyOf, FormatInv, Counters
<1> QED BY <1>1, <1>4, <1>7, NotStored

LEMMA FormatEdit ==
    ASSUME FormatInv, (\E p \in Payloads : Edit(p)) \/ LockVault PROVE FormatInv'
<1>1. CASE \E p \in Payloads : Edit(p)
  <2>1. PICK p \in Payloads : Edit(p)  BY <1>1
  <2>2. UNCHANGED <<shelf, vaults, nonces, owner, made, origin, spoils>>
    BY <2>1 DEF Edit
  <2>3. Grows /\ Counters' /\ MadeInv'
    BY <2>2 DEF FormatInv, Grows, Counters, MadeInv
  <2>4. HandleInv(handle', owner', made')
    <3>1. HandleInv(handle, owner, made)  BY <2>1 DEF Edit, FormatInv
    <3>2. handle' = [handle EXCEPT !.entries = p]  BY <2>1 DEF Edit
    <3> QED BY <2>2, <3>1, <3>2 DEF HandleInv
  <2> QED BY <2>2, <2>3, <2>4, NotStored
<1>2. CASE LockVault
  <2>1. Grows /\ Counters' /\ MadeInv'
    BY <1>2 DEF LockVault, FormatInv, Grows, Counters, MadeInv
  <2> QED BY <1>2, <2>1, NotStored DEF LockVault
<1> QED BY <1>1, <1>2

\* seal
LEMMA FormatSeal ==
    ASSUME FormatInv, NEW s \in Slots, Seal(s) PROVE FormatInv'
<1> DEFINE k    == handle.vault
           body == Encrypt(VaultKey(k), nonces + 1, "vault", handle.entries)
           f    == [version |-> 1, kdf |-> handle.kdf,
                    wrapped |-> handle.wrapped, vault |-> Blob(body)]
           from == [vault |-> handle.vault, entries |-> handle.entries]
<1>1. /\ handle # NoHandle /\ handle.entries <= MaxDecryptedBytes
      /\ nonces < MaxNonces /\ nonces' = nonces + 1 /\ made' = made \cup {body}
      /\ Store(s, f, from) /\ UNCHANGED <<handle, vaults, owner, spoils>>
  BY DEF Seal
<1>2. HandleInv(handle, owner, made)  BY <1>1 DEF FormatInv
<1>3. /\ nonces \in Nat /\ k \in Nat /\ k \in 1 .. vaults /\ handle.entries \in Payloads
      /\ vaults = Len(owner)
  BY <1>2, FormatAssumption DEF FormatInv, Counters, HandleInv
<1>4. Grows /\ Counters'
  BY <1>1, <1>3, FormatAssumption DEF FormatInv, Counters, Grows
<1>5. body \in Ciphertexts /\ BodyOf(body, k) /\ body.nonce = nonces + 1
      /\ body.msg = handle.entries
  BY <1>3, Shapes DEF Encrypt, BodyOf, Ciphertexts, Keys, VaultKey
<1>6. Blob(body) \in Blobs /\ Blob(body).ciphertext = body /\ Intact(Blob(body))
  BY <1>3, <1>5 DEF Blob, Blobs, Intact
<1>7. DefaultKdf(k) \in Kdfs  BY <1>3 DEF DefaultKdf, Kdfs
<1> HIDE DEF body
<1>8. MadeInv'
  <2>1. made' = made \cup {body, body}  BY <1>1
  <2> QED BY <1>1, <1>3, <1>4, <1>5, <2>1, MadeGrows
<1>9. HandleInv(handle', owner', made')  BY <1>1, <1>2, <1>4, Growth
<1>10. SlotInv(f, from, owner', made')
  <2>1. /\ f.version = 1 /\ f.kdf = DefaultKdf(k) /\ f.wrapped = handle.wrapped
        /\ f.vault = Blob(body) /\ from.vault = k /\ from.entries = handle.entries
    BY <1>2 DEF HandleInv
  <2>2. f \in FileShapes  BY <1>2, <1>6, <1>7 DEF HandleInv, FileShapes
  <2> HIDE DEF f, from
  <2>3. FileInv(f, made')  BY <1>1, <1>2, <1>6, <2>1, <2>2 DEF HandleInv, FileInv, Known
  <2>4. Sealed(f, from, owner')
    BY <1>1, <1>2, <1>3, <1>5, <1>6, <2>1 DEF HandleInv, Sealed
  <2> QED BY <2>3, <2>4 DEF SlotInv
<1> QED BY <1>1, <1>4, <1>8, <1>9, <1>10, Stored

--------------------------------------------------------------------------
(* Outside the program: what is stored is no longer known to be intact,    *)
(* but no new ciphertext comes about.                                      *)

LEMMA FormatCopy ==
    ASSUME FormatInv, NEW s \in Slots, NEW t \in Slots, Copy(s, t) PROVE FormatInv'
<1>1. Store(t, shelf[s], origin[s]) /\ UNCHANGED <<handle, vaults, nonces, owner, made, spoils>>
  BY DEF Copy
<1>2. Grows /\ Counters' /\ MadeInv'
  BY <1>1 DEF FormatInv, Grows, Counters, MadeInv
<1>3. SlotInv(shelf[s], origin[s], owner', made')  BY <1>1 DEF FormatInv
<1>4. handle' # NoHandle => HandleInv(handle', owner', made')  BY <1>1 DEF FormatInv
<1> QED BY <1>1, <1>2, <1>3, <1>4, Stored

LEMMA FormatSpoil ==
    ASSUME FormatInv, NEW s \in Slots, NEW f, FileInv(f, made), Spoil(s, f) PROVE FormatInv'
<1>1. /\ spoils < MaxSpoils /\ spoils' = spoils + 1 /\ Store(s, f, Unknown)
      /\ UNCHANGED <<handle, vaults, nonces, owner, made>>
  BY DEF Spoil
<1>2. Grows /\ Counters' /\ MadeInv'
  BY <1>1, FormatAssumption DEF FormatInv, Grows, Counters, MadeInv
<1>3. SlotInv(f, Unknown, owner', made')  BY <1>1 DEF SlotInv
<1>4. handle' # NoHandle => HandleInv(handle', owner', made')  BY <1>1 DEF FormatInv
<1> QED BY <1>1, <1>2, <1>3, <1>4, Stored

LEMMA FormatMix ==
    ASSUME FormatInv, NEW s \in Slots,
           \/ \E t \in Slots, section \in {"kdf", "wrapped", "vault"} : Splice(s, t, section)
           \/ Exchange(s)
    PROVE  FormatInv'
<1>1. ASSUME NEW t \in Slots, NEW section \in {"kdf", "wrapped", "vault"},
             Splice(s, t, section)
      PROVE  FormatInv'
  <2> DEFINE f == [shelf[s] EXCEPT ![section] = shelf[t][section]]
  <2>1. FileInv(shelf[s], made) /\ FileInv(shelf[t], made)
    BY <1>1 DEF Splice, FormatInv, SlotInv
  <2>2. f \in FileShapes  BY <2>1 DEF FileInv, FileShapes
  <2>3. /\ f.wrapped \in {shelf[s].wrapped, shelf[t].wrapped}
        /\ f.vault \in {shelf[s].vault, shelf[t].vault}
    BY <2>1 DEF FileInv, FileShapes
  <2>4. Spoil(s, f)  BY <1>1 DEF Splice
  <2> HIDE DEF f
  <2>5. FileInv(f, made)  BY <2>1, <2>2, <2>3 DEF FileInv
  <2> QED BY <2>4, <2>5, FormatSpoil
<1>2. CASE Exchange(s)
  <2> DEFINE f == [shelf[s] EXCEPT !.wrapped = shelf[s].vault, !.vault = shelf[s].wrapped]
  <2>1. FileInv(shelf[s], made)  BY <1>2 DEF Exchange, FormatInv, SlotInv
  <2>2. /\ f \in FileShapes
        /\ f.wrapped = shelf[s].vault /\ f.vault = shelf[s].wrapped
    BY <2>1 DEF FileInv, FileShapes
  <2>3. Spoil(s, f)  BY <1>2 DEF Exchange
  <2> HIDE DEF f
  <2>4. FileInv(f, made)  BY <2>1, <2>2 DEF FileInv
  <2> QED BY <2>3, <2>4, FormatSpoil
<1> QED BY <1>1, <1>2

\* Each damage keeps the shape, and turns no ciphertext into a new one.
LEMMA DamagedIsKnown ==
    ASSUME NEW f, FileInv(f, made), NEW g \in Damages(f) PROVE FileInv(g, made)
<1>0. f \in FileShapes  BY DEF FileInv
<1>1. ASSUME NEW b \in Blobs PROVE Flipped(b) \in Blobs /\ Flipped(b).ciphertext.key = NoOne
  <2>1. b.ciphertext \in Ciphertexts  BY DEF Blobs
  <2> DEFINE c == [b.ciphertext EXCEPT !.key = NoOne]
  <2>2. NoOne \in Keys  BY DEF Keys
  <2>3. c \in Ciphertexts /\ c.key = NoOne  BY <2>1, <2>2 DEF Ciphertexts
  <2>4. Flipped(b) = [b EXCEPT !.ciphertext = c]  BY DEF Flipped, NoOne
  <2> HIDE DEF c
  <2> QED BY <2>3, <2>4 DEF Blobs
<1>2. CASE g.wrapped = f.wrapped /\ g.vault = f.vault /\ g \in FileShapes
  BY <1>2 DEF FileInv
<1>3. CASE g = [f EXCEPT !.version = 2]
  BY <1>0, <1>2, <1>3 DEF FileShapes
<1>4. ASSUME NEW kdf \in Kdfs, g = [f EXCEPT !.kdf = kdf] PROVE FileInv(g, made)
  BY <1>0, <1>2, <1>4 DEF FileShapes
<1>5. ASSUME NEW b \in Blobs, Known(b.ciphertext, made), g = [f EXCEPT !.wrapped = b]
      PROVE  FileInv(g, made)
  BY <1>0, <1>5 DEF FileShapes, FileInv
<1>6. ASSUME NEW b \in Blobs, Known(b.ciphertext, made), g = [f EXCEPT !.vault = b]
      PROVE  FileInv(g, made)
  BY <1>0, <1>6 DEF FileShapes, FileInv
<1>7. f.kdf \in Kdfs /\ f.wrapped \in Blobs /\ f.vault \in Blobs
  BY <1>0 DEF FileShapes
<1>8. CASE g \in {[f EXCEPT !.kdf.name = "other"], [f EXCEPT !.kdf.salt = 0],
                  [f EXCEPT !.kdf.cost = "accepted"], [f EXCEPT !.kdf.cost = "forbidden"]}
  <2>1. /\ [f.kdf EXCEPT !.name = "other"] \in Kdfs /\ [f.kdf EXCEPT !.salt = 0] \in Kdfs
        /\ [f.kdf EXCEPT !.cost = "accepted"] \in Kdfs
        /\ [f.kdf EXCEPT !.cost = "forbidden"] \in Kdfs
    BY <1>7 DEF Kdfs
  <2> QED BY <1>4, <1>8, <2>1
<1>9. CASE g = [f EXCEPT !.wrapped.nonce = 0] \/ g = [f EXCEPT !.wrapped = Flipped(f.wrapped)]
  <2> DEFINE b == [f.wrapped EXCEPT !.nonce = 0]
  <2>1. b \in Blobs /\ b.ciphertext = f.wrapped.ciphertext  BY <1>7 DEF Blobs
  <2>2. Known(b.ciphertext, made)  BY <2>1 DEF FileInv
  <2>3. Known(Flipped(f.wrapped).ciphertext, made)  BY <1>1, <1>7 DEF Known
  <2> QED BY <1>1, <1>5, <1>7, <1>9, <2>1, <2>2, <2>3
<1>10. CASE g = [f EXCEPT !.vault.nonce = f.wrapped.nonce] \/ g = [f EXCEPT !.vault = Flipped(f.vault)]
  <2> DEFINE b == [f.vault EXCEPT !.nonce = f.wrapped.nonce]
  <2>1. b \in Blobs /\ b.ciphertext = f.vault.ciphertext  BY <1>7 DEF Blobs
  <2>2. Known(b.ciphertext, made)  BY <2>1 DEF FileInv
  <2>3. Known(Flipped(f.vault).ciphertext, made)  BY <1>1, <1>7 DEF Known
  <2> QED BY <1>1, <1>6, <1>7, <1>10, <2>1, <2>2, <2>3
<1>11. CASE g = [f EXCEPT !.vault.ciphertext.aad = "short"]
  <2> DEFINE c == [f.vault.ciphertext EXCEPT !.aad = "short"]
             b == [f.vault EXCEPT !.ciphertext = c]
  <2>1. c \in Ciphertexts /\ c.aad = "short"  BY <1>7 DEF Blobs, Ciphertexts
  <2>2. g = [f EXCEPT !.vault = b]  BY <1>11
  <2> HIDE DEF c
  <2>3. b \in Blobs /\ b.ciphertext = c  BY <1>7, <2>1 DEF Blobs
  <2>4. Known(b.ciphertext, made)  BY <2>1, <2>3 DEF Known
  <2> HIDE DEF b
  <2> QED BY <1>6, <2>2, <2>3, <2>4
<1> QED BY <1>3, <1>8, <1>9, <1>10, <1>11 DEF Damages

LEMMA FormatDamage ==
    ASSUME FormatInv, NEW s \in Slots, Damage(s) PROVE FormatInv'
<1>1. PICK f \in Damages(shelf[s]) : Spoil(s, f)  BY DEF Damage
<1>2. FileInv(shelf[s], made)  BY DEF Damage, FormatInv, SlotInv
<1>3. FileInv(f, made)  BY <1>2, DamagedIsKnown
<1> QED BY <1>1, <1>3, FormatSpoil

--------------------------------------------------------------------------

LEMMA FormatNext == FormatInv /\ [Next]_vars => FormatInv'
<1> SUFFICES ASSUME FormatInv, [Next]_vars PROVE FormatInv'
  OBVIOUS
<1>1. CASE UNCHANGED vars
  BY <1>1 DEF vars, FormatInv, Counters, MadeInv
<1>2. CASE Next
  BY <1>2, FormatNew, FormatUnlock, FormatEdit, FormatSeal, FormatCopy, FormatMix,
     FormatDamage DEF Next
<1> QED BY <1>1, <1>2

\* An intact file opens for its owner with what was sealed, up to the limit
\* on size; a file that opens is genuine, however files were damaged and mixed.
THEOREM FormatSafe == Spec => [](TypeOK /\ IntactOpens /\ WhateverOpensIsGenuine)
<1>1. Spec => []FormatInv  BY FormatInit, FormatNext, PTL DEF Spec
<1> QED BY <1>1, FormatInvImplies, PTL

\* No nonce serves twice under one key, over any number of vaults and seals.
THEOREM NoncesFresh == Spec => []NoncesAreFresh
<1>1. Spec => []FormatInv  BY FormatInit, FormatNext, PTL DEF Spec
<1> QED BY <1>1, FormatInvImplies, PTL

\* An unlocked vault keeps what is needed to write it back under its password.
THEOREM HandleKeepsKeys == Spec => []HandleCarriesItsKeys
<1>1. Spec => []FormatInv  BY FormatInit, FormatNext, PTL DEF Spec
<1> QED BY <1>1, FormatInvImplies, PTL
============================================================================
