# offline-vault in TLA+

TLA+ modules, TLC configurations and machine-checked proofs for `offline-vault`,
a password manager with an egui front-end that keeps its entries in one encrypted
file. Line numbers below refer to `src/src/` unless another path is given.

Run a configuration with `tlc -config X.cfg M` and check proofs with `tlapm M.tla`.

## 1. The system

| Component | State | Operations | Talks to |
|---|---|---|---|
| `storage.rs` | the vault file, `.vt.*.tmp` files | `read_vault`, `vault_exists`, `write_vault_atomic`, `delete_vault` | the file system |
| `vault.rs` | `VaultFile`; `UnlockedVault` (entries, Vault Key, wrapped key, KDF section) | `new`, `from_bytes`, `unlock`, `add/update/remove_entry`, `seal`, `lock` | `crypto.rs` |
| `crypto.rs` | none | Argon2id, HKDF, AES-256-GCM wrap/unwrap, encrypt/decrypt, random bytes | libraries, system RNG |
| `clipboard.rs` | `ClipboardGuard`: retained secret, deadline | `copy`, `poll`, `cancel`, `drop` | the system clipboard |
| `autolock.rs` | `last_activity` | `note_activity`, `should_lock`, event classification | `App::tick` |
| `app.rs` | `AppState`, error message, the guard, the timer | `create_vault`, `unlock`, `lock`, `save`, entry operations, `copy_*`, `tick` | all of the above |
| `ui.rs` | password fields, selection, entry draft, generator window, operation error | one `update` per frame | `App`, `password_generator.rs` |
| `security.rs` | `SecureBuffer`: its bytes and its `locked` flag | constructors, `wipe`, `duplicate`, `into_vec`, `try_lock`, `Drop`, `with_wiped_scratch` | `memory_lock.rs`, the allocator |
| `memory_lock.rs` | none; the system keeps the locked pages | `lock`, `unlock` | the operating system |
| `password_generator.rs` | a `SecureBuffer` and a chunk of random bytes, during a call | `generate` | system RNG |
| `error.rs`, `main.rs`, `lib.rs` | none | error values, window set-up | |

The program is single-threaded. egui calls `VaultApp::update` for every frame it
draws; `update` first calls `App::tick` (clipboard poll, then auto-lock), then draws
the screen for the resulting state and applies the user's click, then the entry
dialog, then the operation error. Every `App` operation is a blocking call.

What is hard:

- *Crashes and power loss* inside `write_vault_atomic`, and several processes on one path.
- *Two calls that are not one*: `get_text` then `clear`; `metadata` then `read`;
  `vault_exists`, a second of key derivation, then the write.
- *Partial failure*: memory is changed before the save that may fail; the retained
  secret is wiped before the `set_text` that may fail.
- *Time*: both deadlines are looked at only when a frame is drawn, and input resets
  the timer before it is compared.
- *Stale front-end state*: the dialog is not modal, is drawn over every screen, and an
  auto-lock does not reset it.
- *Long protocols*: keys and KDF parameters travel from unlock through edits to seal, and
  nonces must never come back.
- *Numbers*: three size limits in three files have to agree through tag, Base64 and JSON; a
  byte modulo an alphabet is biased unless the right bytes are rejected.
- *Memory*: page locks do not nest and outlive the flag that recorded them; every early
  return has to leave freed memory wiped.

What makes each component correct:

- storage: the path names one whole image at all times; a failed save is invisible.
- clipboard: a copied secret has a clear ahead of it that comes not early; foreign text is
  left alone, but for one race.
- app: state, memory and file agree except after a failed save; a frame that finds a timer
  run out locks or clears.
- ui: it never leaves `App`'s state machine and announces every failed save.
- vault and crypto: what was sealed opens again for its owner, and nothing else opens.
- security and memory_lock: what goes back to the allocator holds no secret; page locks and
  `locked` flags agree but for three known ways to come apart.
- password generator: what is returned is as asked, drawn uniformly, and a call returns.
- several copies: entries of two vaults never mix; a lone writer loses nothing.

`PROJECT.json` lists the hazards line by line with the properties aimed at each.

## 2. Modules

| Module | Models | Composes |
|---|---|---|
| `AtomicStore` | what `write_vault_atomic` promises: one register with an atomic commit | |
| `Storage` | `storage.rs`, one action per system call | refines `AtomicStore` |
| `Clipboard` | `clipboard.rs` and the clipboard outside | |
| `App` | `app.rs` with `autolock.rs`, a frame at a time | `Clipboard` by `INSTANCE`; the file is `AtomicStore`'s register |
| `Ui` | `ui.rs` | extends `App`, refines it |
| `VaultFormat` | `vault.rs` over `crypto.rs`, ideal cryptography | |
| `Instances` | several copies of `app.rs` on one path | |
| `SecureBuffer` | `security.rs` over `memory_lock.rs`: allocations and pages | |
| `PasswordGenerator` | `password_generator.rs` and the generator window of `ui.rs` | extends `SecureBuffer` |
| `StorageProofs`, `ClipboardProofs`, `AppProofs` (instantiates `ClipboardProofs`), `VaultFormatProofs`, `InstancesProofs`, `PasswordGeneratorProofs` | theorems about the module of that name | |
| `UiProofs` | theorems about `Ui` | extends `AppProofs` |
| `MC*` | symmetry and input sets for TLC | |

Each module also holds the mutated operators its properties are tested against,
directly before the definition they change; each is marked `Mutant:` and no
specification uses one.

### Storage

`pc[w]` is the line `write_vault_atomic` has reached: `mkdir` (39-44), `create`
(46-47), `write` (48-49), `sync` (50), `rename` (59), `flushdir` (64-69) and `discard`
(54-62). Each save writes an inode of its own; `size` is what the page cache holds,
`synced` what reached the disk, `survivors` the images a power loss may bring back.
`StepFails` is any failing call, `DiscardTmp` the `let _ = remove_file` that may itself
fail, `Kill` the death of one process. `PowerLoss` keeps any prefix of an unsynced
inode and any subset of the temporary names. Names: two failing 8-byte draws give the
all-zero name, which only the writers in `FallsBack` do; drawn names are taken to be
distinct. `orphans` is history: the names under which a save that died, lost power or could
not remove it left its own file.

### Clipboard

`Copy`, `CopyFails`, `Cancel`, `PollDue` and `Drop` are the guard's calls. `try_clear`
is two steps, `read` and `clear`, so `OtherAppWrites` may come in between. `ours`,
`placedAt`, `gaveUp` and `raced` are history. `gaveUp` records that the clipboard's own
calls, `cancel`, or the death of the process kept the guard from clearing our text.

### App

`frame` walks through `update`: `BeginFrame` (start of `tick`), `Poll` (`try_clear`),
`AutoLock`, and then one operation or `NoOperation`. `Persist` is `save` after a change
to memory: it writes, or fails and sets `dirty`. `IoMayFail` stands for every `?` of
reading, key derivation, sealing and writing. An entry is one content under an id; the
contents are what gets copied. The clock may tick whether a frame was drawn or not, since
nothing in `src/src` asks for one; `framed` records that this tick has had its frame. `Restart` is a kill: no destructor runs; the
orderly exit is `Drop` in `Clipboard`. An operation of the user's is recorded as input
(`lastInput`) but not as activity: a click acts on the release of the button, which
`is_user_activity_event` does not count.

### Ui

One click per frame. `draft` holds the id it was opened for (or `NewId`) and its text;
`used` makes every new id fresh. `Dialog` actions are allowed on every screen, as in
`update`, which calls `show_entry_dialog` after whichever screen is up.

### VaultFormat

A ciphertext is the record of the key, nonce, AAD and message it was made with;
`Decrypts` compares them, `Validate` and `UnlockResult` follow the order of the checks.
Slots are files; they may be copied, damaged field by field, or mixed section by section.
An entry list stands for all lists of one serialized size, and its size is that number of
bytes: `seal` compares it with `MAX_DECRYPTED_BYTES`, then the tag, Base64 and the JSON
around it make the file that `from_bytes` compares with `MAX_VAULT_FILE_BYTES` (which is
also storage's `MAX_READ_BYTES`).

### Instances

`create_vault`, `unlock` and saves are two steps around the slow key derivation or the
rename. A row is one text of an entry, with the vault it was added to (`homes`); an update
replaces a row by a fresh one. `acked` holds what the user was told is saved, `dropped` what
a copy has replaced or removed in memory: such a text counts as acknowledged until the save
that omits it succeeds.

### SecureBuffer

`block[b]` is an allocation: who owns it (a `SecureBuffer`, a `Vec` from `into_vec`, the
allocator, or a caller that freed the `Vec` itself, `gone`), its page, whether it is empty,
what its bytes hold and the `locked` flag. A buffer sits on one page and may share it.
`pinned` are the pages the system has locked. `mlock` and `munlock` do not nest: unlocking a
buffer unlocks the page of its neighbours. A refused lock changes nothing; unlocking is
taken to succeed. `disturbed` is history: the pages where flag and pin came apart, because
a locked buffer became a `Vec`, was wiped before its drop, or left a locked neighbour behind.

### PasswordGenerator

`generate` is a call drawn out over steps: `Begin` takes a zeroed buffer, `DrawChunk` fills
a chunk, one step looks at each byte, `RngFails` leaves by `?` and `Return` drops the buffer.
The program has one thread, so other buffers do not move while it runs (`Elsewhere` asks for
`pc = "idle"`); between calls any part of the program does any legal thing with them.
Characters are told apart by their class. The window is `shown`, `result` and `error`.

## 3. What TLC checks

| Run | Configuration | Shows |
|---|---|---|
| `storage` | 2 writers, 1 reader, 3 saves in all, the names of one writer may fall back to zeroes | the vault file is whole at every instant and after any power loss; a failed save leaves no trace; refinement of `AtomicStore` |
| `clipboard` | 2 secrets, 1 foreign text, interval 2, 5 ticks, every call may fail | a copied secret has a clear ahead of it that is not early and ends once begun; foreign text stays but for the race between `get_text` and `clear` |
| `app` | 2 ids, limit 1, 2 passwords and a short one, timeout 3, interval 2, 6 ticks, frames drawn or not | agreement of state, memory and file; what a frame does about both timers |
| `ui` | 2 ids, 2 texts, 1 password and a short one, 1 tick | `Ui` implements `App`; failures are announced |
| `vault_format` | 2 passwords, 2 vaults, 2 slots, 5 nonces, 2 damages, 4 payload sizes | what opens, and for whom |
| `instances` | 2 copies, 2 vaults, 4 rows | no mixing, no loss with one writer |
| `password_generator` | 2 buffers on 1 page, lengths 1 to 4 with 2 and 3 allowed, chunks of 2 bytes, every choice of classes | memory, page locks, the drawn password; the call returns |

The properties, in short:

- `VaultIsWhole`: what the path names, now or after a power loss, is a whole image.
  `NeverReadsTorn`: no reader gets less. `FailedSaveInvisible`: an `Err` was no save.
  `NoLitter`: temporary files belong to the running saves that made them, or were left by a
  death, a power loss or a failed removal. `EstablishedVaultSurvives`: no save
  opens a window without a vault. `ImplementsRegister`: all of it is one atomic register.
- `OursIsGuarded`: a secret of ours on the clipboard has a clear ahead of it that knows its
  text. `SecretOnlyWhilePending`: the retained copy never outlives the pending clear.
  `ForeignKeptUnlessRaced`: a foreign text is cleared in no way but the race, which is left
  (see below). `NotEarly`. `BegunClearFinishes`: a clear once begun ends with our text gone, or
  with a failed call or a death to blame.
- `UnsavedOnlyAfterFailure`, `SavedFileFits`, `StateMatchesFile`, `OnlyOwnerRewrites`:
  the file against memory and state. `LocksOnTime`, `ClearsOnTime`: a frame that is past its
  timers leaves nothing overdue, however late it came.
- `UiImplementsApp`, `FailedSaveIsAnnounced`, `SelectionExists`, `ClosedMeansSaved`.
- `IntactOpens`: an intact file opens for its owner with what was sealed, except the last
  253 payload sizes that `seal` accepts. `WhateverOpensIsGenuine`, `NoncesAreFresh`,
  `HandleCarriesItsKeys`.
- `VaultsNeverMix`, `LoneWriterLosesNothing`.
- `FreedMemoryIsWiped`: of the memory a `SecureBuffer` frees. `PinsMatchFlags`;
  `DrawIsUniform`: every class gets its share of the accepted bytes; `GeneratedAsAsked`: length
  and classes, and no write past the end; `FailureLeavesNoPassword`; `GenerateReturns` under fairness.

### Disagreements with the documentation

Five runs end in a counterexample; each states a sentence of the repository and
shows what the code does instead. `PROJECT.json` quotes the lines.

| Run | Sentence | What happens |
|---|---|---|
| `clipboard_failed_copy` | README.md:43-44, copied passwords are cleared | a second copy that fails wipes the text the pending clear compares with; the first password stays |
| `app_no_repaint` | README.md:41-42, locks after three minutes | nothing requests a repaint, so no frame reads the timer while the user is idle |
| `storage_shared_name` | README.md:38-40, a failed save never corrupts the previous vault | two copies whose draws fail use one temporary name; one's failed save removes the other's file, its retry makes a new one, and the other's rename publishes that half-written |
| `ui_lost_edit` | ui.rs:669, "Success: drop draft" | Save after the entry was deleted under the dialog stores nothing and says nothing |
| `instances_create` | app.rs:153-154, refuses to overwrite | two copies that both offer to create: the later one overwrites |

Others were met and have no run:

- `clipboard.rs:18-21` says that contents placed there by another application are never
  overwritten, and `README.md:43-44` that the clipboard is cleared only if it still contains
  exactly the copied password. `try_clear` reads, compares and then clears in a second call
  (`clipboard.rs:174-189`): what another application copies in between is removed.
  `ForeignKeptUnlessRaced` excepts exactly this (`raced`); without the exception TLC finds it violated. The backend has no compare-and-clear.
- `app.rs:192-194` says that the error's Display string "is what the GUI shows". `unlock` resets
  `App.error` (line 196) and leaves by `?` on lines 212-214 without setting it; `show_unlock` drops
  the Result (`ui.rs:404`), so a wrong password shows nothing. `create_vault` has the same gap on
  lines 177-179. `UnlockFails` models it.
- `clipboard.rs:160` says `cancel` is called on lock and on shutdown; nothing calls it.
- `security.rs:117` says `wipe` preserves `len()`, and so does
  `tests/security_tests.rs:81-83`; zeroizing a `Vec` empties it.
- `vault.rs:11-14` names a "maximum size of the decrypted vault payload", 48 MiB, next to one of
  the file, 64 MiB, and `seal` compares with the first only (`vault.rs:362`). The last 253
  payload sizes make a file beyond the second: they are saved with `Ok` and never read
  again. `IntactOpens` states this exactly.
- `README.md:32-35` says locking of memory is attempted; `try_lock` has no caller in `src/src`.
- `README.md:50` says "wipe every buffer we own"; `ui.rs:725` replaces the generator's
  old text by assignment, which frees it as it is.
- `ui.rs:731` says "Select at least one character type." whatever went wrong, a failing RNG
  included.
- The fallback path that `app.rs:396` writes as `./vault.json` is the bare `vault.json` (line 432), whose
  parent is empty, which `storage.rs:79-86` refuses: no vault can be created there.
- `app.rs:53-55` says `NoVault` means that no file exists; it goes stale when another copy creates.
- With a filter that hides every row the list says "No entries yet".

### Bounds

- `MaxTime` ends the clock. A copy is only taken when its deadline is within it, so no
  property holds merely because time ran out. In `app` six ticks hold one full timeout
  and the start of the next, and two clipboard intervals. In `ui` the clock hardly moves:
  the timers are `app`'s subject.
- `MaxAttempts`, `MaxSaves`, `MaxVaults`, `MaxNonces`, `MaxSpoils`, `MaxRows` bound saves per
  writer, saves in all, vaults, nonces, damages and rows. Two vaults reach every mixture; four
  rows let each of two copies add, replace and lose one. Three copies take more than
  five minutes and had met nothing when stopped; the theorems cover any number.
- `MaxSaves` is 3 with two per writer: one copy saves and retries while the other saves, which
  is what it takes for a save to meet both its own leftover and another's rename. One of the two
  may fall back to the all-zero name. That both do is run `storage_shared_name`, at the same
  bounds, where `VaultIsWhole` is false; theorem `OneFallbackSafe` holds for any number of saves.
- `MaxEntries` is 1 in `app`, with two ids, so the limit is hit; 2 in `ui`, where a second
  entry matters more.
- `Payloads` are the empty list and the sizes on either side of both limits:
  `MAX_DECRYPTED_BYTES` - 253 and one more, and one above `MAX_DECRYPTED_BYTES`.
- In `password_generator` two buffers share one page, the case where pins and flags come
  apart; two pages pass as well, in over four minutes. Lengths and chunks are scaled
  down (8 to 128 characters and chunks of 256 bytes in the code), so that a chunk ends before
  the password, with it and after it. `Samples` holds a byte on each side of the
  limits of several alphabets; `DrawIsUniform` counts all 256.

### Fairness

- `Clipboard`: weak fairness of `TryClear` alone: `try_clear` is a synchronous call and runs to its
  end unless the process dies. Nothing is assumed to call `poll`: frames are drawn when the
  window system wants one, which the code does not establish (run `app_no_repaint`). So
  `BegunClearFinishes` is about a clear that has begun; that it begins is not claimed.
- `PasswordGenerator`: weak fairness of the call's own steps, since nothing in it waits, and
  strong fairness of accepting a byte: `Limit` accepts more than two bytes in three for every
  alphabet, so rejecting for ever has probability 0.

Nothing is assumed of the user, of other applications, of frames, or of system calls
succeeding. The two timer properties of `App` are safety properties with no fairness.

Deadlock is checked in `password_generator`, where some button can always be clicked. It is
off elsewhere: the guard is gone after `Drop`, clocks and counters end at their bounds, and
`App` stops with the last tick.

## 4. What is proved

All theorems hold for every value of the constants that the named assumptions allow.

| Theorem | Statement | Argument |
|---|---|---|
| `StorageProofs!TypeCorrect` | types of `Storage`, and past `write_all` a save has all its bytes in its file | inductive once a running save is known to have a number (`Numbered`) |
| `StorageProofs!StorageSafe` | while no two running saves share a name (`Exclusive`): `VaultIsWhole`, `NeverReadsTorn`, `FailedSaveInvisible` | a temporary name of a running save holds its own inode (`HoldsOwn`), an inode past `sync` is whole and synced and never written again, only such inodes reach `vault` and `survivors` |
| `StorageProofs!OneFallbackExclusive`, `OneFallbackSafe` | where at most one copy falls back, names are `Exclusive`, so the same for any number of writers and saves, leftovers included | the name of a running save is drawn for it alone, or is the one fallback name (`OwnNames`) |
| `StorageProofs!SavesCleanUp` | `NoLitter` | inductive with the types alone; shared names allowed |
| `StorageProofs!VaultStaysEstablished` | `EstablishedVaultSurvives` | what the path names is itself among the survivors (`Settled`) |
| `StorageProofs!StorageImplementsRegister` | while `Exclusive`: `ImplementsRegister` | in a state of `SafeInv` no torn image is in sight, so each call maps to one register step or none |
| `StorageProofs!WriterImplementsRegister` | where at most one copy falls back: `ImplementsRegister` | from the theorems above |
| `ClipboardProofs!TypeCorrect` | types of `Clipboard` | same invariant as the next three |
| `ClipboardProofs!GuardSafe` | `OursIsGuarded`, `SecretOnlyWhilePending` | `Live`: `try_clear` only runs in a live guard |
| `ClipboardProofs!ForeignKept` | `ForeignKeptUnlessRaced` | `Compared`: past the comparison the text is ours, or someone wrote |
| `ClipboardProofs!NeverEarly` | `NotEarly` | `Due`, and `LastCopy`: a deadline always belongs to the last successful copy |
| `AppProofs!VaultSafe` | `UnsavedOnlyAfterFailure`, `SavedFileFits`, `StateMatchesFile` | memory always fits the limit, and the key is that of the file (`OpenVault`); cardinality lemmas for add, change and remove |
| `AppProofs!TypeCorrect` | types of `App` | with `VaultInv`: what a copy places comes from memory, what memory holds came from a file (`TypesInv`) |
| `AppProofs!OwnerOnly` | `OnlyOwnerRewrites` | from `VaultInv`, by cases on the step |
| `AppProofs!LocksInTime` | `LocksOnTime` | once the frame is past the auto-lock the timer is still ahead (`TimerInv`), for the recorded activity is never later than the last input (`InputInv`) |
| `AppProofs!ClearsInTime` | `ClearsOnTime` | once the frame is past its poll, a text of ours has its deadline ahead (`Pending`) |
| `AppProofs!AppDrivesGuard` | every step of `App` is a step of `Clipboard` on the guard, the clipboard and the clock, none, or a restart | by cases on the step (`GuardStep`) |
| `AppProofs!CopiesStayGuarded`, `OthersTextsKept` | `OursIsGuarded`, `SecretOnlyWhilePending`, `ForeignKeptUnlessRaced`, `NotEarly` of the guard inside `App` | `ClipboardProofs`' invariant, instantiated, survives `App`'s steps and restarts (`Guarded`) |
| `UiProofs!UiRefinesApp` | `UiImplementsApp` | each click is an `App` step, or one `App` refuses; needs that a selection and a draft are ids (`UiTypes`) |
| `UiProofs!UiTypesCorrect` | `UiTypeOK`: types, and an error inside the dialog is one of a new entry | `App`'s types carried over by the refinement |
| `UiProofs!FailuresAnnounced`, `SavedWhenClosed`, `SelectionKept` | `FailedSaveIsAnnounced`, `ClosedMeansSaved`, `SelectionExists` | from `UiInv`, by cases on the step |
| `UiProofs!VaultSafeBehindWindow`, `TimersBehindWindow` | `App`'s safety, the guard's, `LocksOnTime` and `ClearsOnTime`, under `UiSpec` | from the refinement |
| `VaultFormatProofs!FormatSafe` | types, `IntactOpens`, `WhateverOpensIsGenuine` | a ciphertext that decrypts is one the program made, and of those each is some vault's wrapped key or payload (`MadeInv`); an unspoiled slot is as sealed (`SlotInv`); an arithmetic lemma finds the boundary of 253 (`SizeBoundary`) |
| `VaultFormatProofs!NoncesFresh` | `NoncesAreFresh` | every nonce made so far has been counted (`Counters`) |
| `VaultFormatProofs!HandleKeepsKeys` | `HandleCarriesItsKeys` | the handle's wrapped key was made by its own vault's creation (`HandleInv`) |
| `InstancesProofs!TypeCorrect` | types of `Instances` | same invariant as the next two |
| `InstancesProofs!NeverMixed` | `VaultsNeverMix` | not the file alone, but every memory and every image about to be written is of one vault (`AtHome`) |
| `InstancesProofs!LoneWriterSafe` | `LoneWriterLosesNothing` | what the only writer acknowledged is in the file, in the bytes it unlocks from and, but for its own changes, in its memory (`Lone`) |
| `InstancesProofs!OverwritesOnlyRivals` | a file that `create_vault` overwrites was written by another copy, never by the same one in this or an earlier run | a copy at the start screen has not written (`Authors`), and a file has an author |
| `InstancesProofs!LoneCopyCreatesOnce` | where one copy runs: `CreateNeverOverwrites` | from the theorem above |
| `PasswordGeneratorProofs!TypeCorrect`, `NothingLeftBehind`, `PinsFollowFlags` | types, `FreedMemoryIsWiped`, `PinsMatchFlags` | each block by itself is sound (`HeapInv`), also under any other use of buffers between calls |
| `PasswordGeneratorProofs!PasswordAsAsked`, `NoPasswordAfterFailure` | `GeneratedAsAsked`, `FailureLeavesNoPassword` | a running call owns its buffer and has characters left to draw (`GeneratorInv`) |
| `PasswordGeneratorProofs!DrawsAreUniform` | `DrawIsUniform` | q -> q * n + i is a bijection from the numbers below 255 div n to the accepted bytes that give character i (`EachRemainderEquallyOften`); alphabets have seven sizes (`AlphabetSizes`) |
| `PasswordGeneratorProofs!GeneratorUsesBuffers` | `generate` owns a live buffer while it runs, and the program is a run of `SecureBuffer` | by cases on the step (`HeapSteps`) |

Assumptions: the sentinels are not values, the entry ids are finite, the limits are
natural numbers (`ConstantsAssumption`, `ClipboardAssumption`, `AppAssumption`,
`UiAssumption`, `FormatAssumption`, `InstancesAssumption`, `BufferAssumption`,
`GeneratorAssumption`); TLC evaluates each of them on the runs. `AppAssumption`
also keeps the empty clipboard, the copied fields and foreign texts apart, as `Clipboard` does.

Conditional theorems name their condition, and each condition is needed:

- `Exclusive` in `StorageSafe` and `StorageImplementsRegister`; run `storage_shared_name` is the
  counterexample without it. It holds whenever at most one copy falls back to the all-zero name
  (`OneFallbackExclusive`): always while one copy runs, and for any number of copies unless the
  system's random source fails two of them. The other theorems about `Storage` do not need it.
- One copy in `LoneCopyCreatesOnce`; run `instances_create` is the counterexample with two.
  `OverwritesOnlyRivals` says without condition what is overwritten.

Nothing is proved under the assumption that frames keep being drawn, that copies take turns, or
that clipboard calls succeed: the code gives no such guarantee.

How the proofs compose: `UiProofs` gets `App`'s theorems from the refinement. `AppProofs`
instantiates `ClipboardProofs` with `App`'s variables, so that the guard's inductive invariant
is not repeated; it adds that `App` takes only the guard's steps, and the one step
`Clipboard` does not have, a restart, which starts over with a fresh guard.
`App`'s file is the register that `Storage` is proved to implement, and `Instances` writes it in
one step for the same reason.

Only model-checked: `BegunClearFinishes` and `GenerateReturns`, since liveness under
fairness is beyond the prover. Every invariant and action property of a passing run is proved.

## 5. Not modelled

- File permissions, path resolution, `error.rs`, `main.rs`, layout and wording.
- Primitives: Argon2id, HKDF and AES-GCM are ideal, and their random draws never repeat.
- A parent directory created by `create_dir_all` is taken to be durable.
- The limits of single fields (`MAX_TITLE_BYTES` and the like) and the characters of an entry:
  `SaveInvalid` in `Ui` is any draft that is refused.
- The text of the search field. It restricts which rows can be clicked and may be changed at
  any time, so `Ui` lets any row be clicked; that the selected row may be hidden is seen in
  the code, and no document speaks of it.
- The chunk of random bytes in `generate`, an array on the stack and no `SecureBuffer`; buffers
  over several pages; an unlock that fails.
- `validate_entries` in `VaultFile::unlock` (`vault.rs:198-200`) has no arm in `UnlockResult`. What
  `seal` encrypts has passed `add_entry` or `update_entry`; only `entries_mut`, which only
  `tests/vault_tests.rs:503-521` calls, gets around them.
- Two unlocked copies that save over each other lose the earlier one's additions without
  noticing. `Instances` shows it happen; no document says otherwise, so no property states it.
- The size limit of `read_vault` is in `VaultFormat`, not in `Storage`.

## 6. Plan

Done, in order of importance: `Storage` with its abstract register; `Clipboard`; `App`
over both; `Ui` over `App`; `VaultFormat`, now in bytes; `Instances`, now with update and
remove; `SecureBuffer` and `PasswordGenerator`; theorems about all of them. Every invariant
and every action property that a passing run checks is proved.

Left, should the code grow that way:

1. `App` over `VaultFormat` in place of the abstract password and contents, so that nonces
   and keys are followed through the state machine of the screens.
2. `Instances` over `Storage`, each save being the calls of `write_vault_atomic`; today it rests
   on `ImplementsRegister`.
3. Field limits, when an import or a sync adds a second way for entries to come in.
