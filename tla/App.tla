------------------------------- MODULE App -------------------------------
(*************************************************************************)
(* src/src/app.rs: the state machine between the GUI and the vault,      *)
(* storage, clipboard and auto-lock layers, driven one frame at a time.  *)
(* It composes Clipboard (the guard, the system clipboard and the clock) *)
(* with the vault in memory and the vault on disk.  write_vault_atomic   *)
(* is the atomic register that Storage implements: a save replaces the   *)
(* file and answers Ok, or leaves it and answers Err.                    *)
(*                                                                       *)
(* An entry is its id and one content; a content stands for the fields,  *)
(* and copying the password or the username puts it on the clipboard.    *)
(*************************************************************************)
EXTENDS Naturals, FiniteSets

CONSTANTS
    Ids,            \* entry ids
    Absent,         \* no entry under an id
    MaxEntries,     \* MAX_ENTRIES
    Passwords,      \* master passwords a user types
    Short,          \* those under MIN_MASTER_PASSWORD_LEN
    NoKey,          \* no unlocked vault, hence no key
    NoFile,         \* no file at the vault path
    Damaged,        \* a file that from_bytes or decryption rejects
    Timeout,        \* DEFAULT_TIMEOUT, in clock ticks
    IoMayFail,      \* whether reading, sealing or writing may fail
    Secrets, Foreign, Empty, NoDeadline, ClearAfter, MaxTime, Failures, CallsCancel

VARIABLES
    st,             \* AppState: {"NoVault", "Locked", "Unlocked"}
    mem,            \* [Ids -> Secrets \cup {Absent}]: UnlockedVault.entries
    key,            \* the password whose kdf and wrapped_key the vault carries
    disk,           \* the vault file
    error,          \* App.error
    lastActivity,   \* AutoLock.last_activity
    frame,          \* {"idle", "polling", "locking", "ui"}: where update is
    active,         \* user_activity_in(input) for this frame
    framed,         \* history: a frame was drawn in this tick
    lastInput,      \* history: when the user last touched the program
    dirty,          \* history: the last save since unlocking failed
    clip, secret, deadline, step, phase, now, ours, placedAt, gaveUp, raced

Guard == INSTANCE Clipboard

vault     == <<st, mem, key, disk, dirty>>
clipboard == <<clip, secret, deadline, step, phase, ours, placedAt, gaveUp, raced>>
loop      == <<frame, active, framed, lastInput>>
vars      == <<vault, error, lastActivity, loop, clipboard, now>>

Vaults == [Ids -> Secrets \cup {Absent}]
Files  == [pw : Passwords \ Short, data : Vaults]
NoEntries == [i \in Ids |-> Absent]

ASSUME AppAssumption ==
    /\ Timeout \in Nat \ {0}
    /\ IsFiniteSet(Ids)
    /\ MaxEntries \in Nat
    /\ Short \subseteq Passwords
    /\ NoKey \notin Passwords
    /\ NoFile \notin Files /\ Damaged \notin Files /\ NoFile # Damaged
    /\ Absent \notin Secrets
    /\ IoMayFail \in BOOLEAN
    /\ ClearAfter \in Nat \ {0} /\ MaxTime \in Nat /\ NoDeadline \notin Nat
    /\ Empty \notin Secrets \cup Foreign /\ Secrets \cap Foreign = {}
    /\ CallsCancel \in BOOLEAN

Present(m) == {i \in Ids : m[i] # Absent}
Fits(m) == Cardinality(Present(m)) <= MaxEntries
StateFor(file) == IF file = NoFile THEN "NoVault" ELSE "Locked"

Init ==
    /\ disk \in {NoFile, Damaged} \cup {f \in Files : Fits(f.data)}
    /\ st = StateFor(disk)
    /\ mem = NoEntries
    /\ key = NoKey
    /\ dirty = FALSE
    /\ error = "none"
    /\ lastActivity = 0
    /\ frame = "idle" /\ active = FALSE /\ framed = FALSE /\ lastInput = 0
    /\ Guard!Init

--------------------------------------------------------------------------
(* One frame: tick polls the clipboard, then the auto-lock; the screen     *)
(* comes last, with at most one operation of the user's.                   *)

\* Mutant: the clipboard is polled only while unlocked
BeginFrame_PollsUnlocked(activity) ==
    /\ frame = "idle"
    /\ active' = activity
    /\ lastInput' = IF activity THEN now ELSE lastInput
    /\ IF st = "Unlocked" /\ deadline # NoDeadline /\ now >= deadline
       THEN Guard!PollDue /\ frame' = "polling"
       ELSE UNCHANGED <<clipboard, now>> /\ frame' = "locking"
    /\ UNCHANGED <<vault, error, lastActivity, framed>>

BeginFrame(activity) ==
    /\ frame = "idle"
    /\ active' = activity
    /\ lastInput' = IF activity THEN now ELSE lastInput
    /\ IF deadline # NoDeadline /\ now >= deadline
       THEN Guard!PollDue /\ frame' = "polling"
       ELSE UNCHANGED <<clipboard, now>> /\ frame' = "locking"
    /\ UNCHANGED <<vault, error, lastActivity, framed>>

Poll ==
    /\ frame = "polling"
    /\ Guard!TryClear
    /\ frame' = IF step' = "idle" THEN "locking" ELSE "polling"
    /\ UNCHANGED <<vault, error, lastActivity, active, framed, lastInput>>

\* lock(): the entries and the key go, the clipboard guard stays.
DropVault ==
    /\ st' = "Locked"
    /\ mem' = NoEntries
    /\ key' = NoKey
    /\ dirty' = FALSE
    /\ UNCHANGED disk

\* Mutant: the frame's input is read after the timer was compared
AutoLock_NoTimer ==
    /\ frame = "locking"
    /\ frame' = "ui"
    /\ lastActivity' = IF st = "Unlocked" THEN now ELSE lastActivity
    /\ UNCHANGED <<vault, error, active, framed, lastInput, clipboard, now>>

\* AutoLock::should_lock
Expired(last) == now - last >= Timeout

\* Activity in this frame counts before the timer is read.
AutoLock ==
    LET last == IF st = "Unlocked" /\ active THEN now ELSE lastActivity IN
    /\ frame = "locking"
    /\ frame' = "ui"
    /\ IF st = "Unlocked" /\ Expired(last)
       THEN DropVault /\ error' = "none" /\ lastActivity' = now
       ELSE lastActivity' = last /\ UNCHANGED <<vault, error>>
    /\ UNCHANGED <<active, framed, lastInput, clipboard, now>>

EndFrame ==
    /\ frame' = "idle"
    /\ framed' = TRUE
    /\ active' = FALSE

NoOperation ==
    /\ frame = "ui"
    /\ EndFrame
    /\ UNCHANGED <<vault, error, lastActivity, lastInput, clipboard, now>>

\* An operation is the user's, but a click acts when the button is released,
\* and a release does not count as activity (autolock.rs:64-76).
Acting == frame = "ui" /\ EndFrame /\ lastInput' = now /\ UNCHANGED now

--------------------------------------------------------------------------
(* create_vault, unlock, lock *)

CreateRejected(pw, confirm) ==
    /\ Acting
    /\ error' = CASE pw \in Short   -> "PasswordTooShort"
                  [] pw \notin Short /\ pw # confirm -> "PasswordMismatch"
                  [] OTHER          -> "VaultAlreadyExists"
    /\ pw \in Short \/ pw # confirm \/ disk # NoFile
    /\ UNCHANGED <<vault, lastActivity, clipboard>>

\* Mutant: the state is set before the file is written
CreateVault_StateFirst(pw) ==
    /\ Acting
    /\ pw \notin Short /\ disk = NoFile
    /\ error' = "none"
    /\ st' = "Unlocked"
    /\ mem' = NoEntries
    /\ key' = pw
    /\ dirty' = FALSE
    /\ lastActivity' = now
    /\ \/ disk' = [pw |-> pw, data |-> NoEntries]
       \/ IoMayFail /\ UNCHANGED disk
    /\ UNCHANGED clipboard

\* Mutant: vault_exists is not consulted
CreateVault_Overwrites(pw) ==
    /\ Acting
    /\ pw \notin Short
    /\ error' = "none"
    /\ st' = "Unlocked"
    /\ mem' = NoEntries
    /\ key' = pw
    /\ disk' = [pw |-> pw, data |-> NoEntries]
    /\ dirty' = FALSE
    /\ lastActivity' = now
    /\ UNCHANGED clipboard

CreateVault(pw) ==
    /\ Acting
    /\ pw \notin Short /\ disk = NoFile
    /\ error' = "none"
    /\ \/ /\ st' = "Unlocked"
          /\ mem' = NoEntries
          /\ key' = pw
          /\ disk' = [pw |-> pw, data |-> NoEntries]
          /\ dirty' = FALSE
          /\ lastActivity' = now
       \/ /\ IoMayFail       \* every `?` of lines 177-179
          /\ UNCHANGED <<vault, lastActivity>>
    /\ UNCHANGED clipboard

\* The file authenticates under this password, and validate_entries accepts
\* what it holds.
Opens(pw) == disk \in Files /\ disk.pw = pw /\ Fits(disk.data)

Unlock(pw) ==
    /\ Acting
    /\ st = "Locked"
    /\ error' = "none"
    /\ Opens(pw)
    /\ st' = "Unlocked"
    /\ mem' = disk.data
    /\ key' = pw
    /\ dirty' = FALSE
    /\ lastActivity' = now
    /\ UNCHANGED <<disk, clipboard>>

\* Reading, parsing, key derivation or authentication fails: each leaves by
\* `?` with the error already reset.
UnlockFails(pw) ==
    /\ Acting
    /\ st = "Locked"
    /\ error' = "none"
    /\ ~Opens(pw) \/ IoMayFail
    /\ UNCHANGED <<vault, lastActivity, clipboard>>

\* unlock without a vault, and the stray second click on an unlocked one
UnlockElsewhere ==
    /\ Acting
    /\ st # "Locked"
    /\ error' = IF st = "NoVault" THEN "VaultNotFound" ELSE "none"
    /\ UNCHANGED <<vault, lastActivity, clipboard>>

\* Mutant: locking leaves AppError::Locked as the message on the screen
Lock_NoState ==
    /\ Acting
    /\ error' = "Locked"
    /\ IF st = "Unlocked"
       THEN DropVault /\ lastActivity' = now
       ELSE UNCHANGED <<vault, lastActivity>>
    /\ UNCHANGED clipboard

Lock ==
    /\ Acting
    /\ error' = "none"
    /\ IF st = "Unlocked"
       THEN DropVault /\ lastActivity' = now
       ELSE UNCHANGED <<vault, lastActivity>>
    /\ UNCHANGED clipboard

--------------------------------------------------------------------------
(* save and the entry operations: memory first, then the file *)

\* Mutant: a failed write is taken for a success
Persist_IgnoresError(m) ==
    \/ disk' = [pw |-> key, data |-> m] /\ dirty' = FALSE
    \/ IoMayFail /\ dirty' = FALSE /\ UNCHANGED disk

Persist(m) ==
    \/ disk' = [pw |-> key, data |-> m] /\ dirty' = FALSE
    \/ IoMayFail /\ dirty' = TRUE /\ UNCHANGED disk

Mutate(m) ==
    /\ mem' = m
    /\ Persist(m)
    /\ UNCHANGED <<st, key, error, lastActivity, clipboard>>

SaveVault ==
    /\ Acting
    /\ st = "Unlocked"
    /\ Mutate(mem)

\* Mutant: the limit is compared after the push
AddEntry_OffByOne(i, c) ==
    /\ Acting
    /\ st = "Unlocked"
    /\ mem[i] = Absent
    /\ Cardinality(Present(mem)) <= MaxEntries
    /\ Mutate([mem EXCEPT ![i] = c])

AddEntry(i, c) ==
    /\ Acting
    /\ st = "Unlocked"
    /\ mem[i] = Absent
    /\ Cardinality(Present(mem)) < MaxEntries
    /\ Mutate([mem EXCEPT ![i] = c])

UpdateEntry(i, c) ==
    /\ Acting
    /\ st = "Unlocked"
    /\ mem[i] # Absent
    /\ Mutate([mem EXCEPT ![i] = c])

RemoveEntry(i) ==
    /\ Acting
    /\ st = "Unlocked"
    /\ mem[i] # Absent
    /\ Mutate([mem EXCEPT ![i] = Absent])

Untouched == Acting /\ UNCHANGED <<vault, error, lastActivity, clipboard>>

\* remove_entry or update_entry of an id that is not there: Ok(false), and
\* the file is not written.
NothingToChange(i) ==
    /\ Untouched
    /\ st = "Unlocked"
    /\ mem[i] = Absent

\* Locked, an invalid entry, a duplicate id, a full vault or a copy of what
\* is not there: Err before any change.
Refused == Untouched

CopyField(i) ==
    /\ Acting
    /\ st = "Unlocked" /\ mem[i] # Absent
    /\ Guard!Copy(mem[i])
    /\ UNCHANGED <<vault, error, lastActivity>>

CopyFieldFails(i) ==
    /\ Acting
    /\ st = "Unlocked" /\ mem[i] # Absent
    /\ Guard!CopyFails
    /\ UNCHANGED <<vault, error, lastActivity>>

--------------------------------------------------------------------------
(* The environment *)

\* The process ends without destructors and is started again.
Restart ==
    /\ st' = StateFor(disk)
    /\ mem' = NoEntries
    /\ key' = NoKey
    /\ dirty' = FALSE
    /\ error' = "none"
    /\ lastActivity' = now
    /\ frame' = "idle" /\ active' = FALSE
    /\ secret' = Empty /\ deadline' = NoDeadline /\ step' = "idle"
    /\ gaveUp' = (gaveUp \/ ours)
    /\ UNCHANGED <<disk, framed, lastInput, clip, phase, now, ours, placedAt, raced>>

OtherAppWrites(t) ==
    /\ Guard!OtherAppWrites(t)
    /\ UNCHANGED <<vault, error, lastActivity, loop>>

\* Nothing makes the window system draw a frame in every tick.
Tick ==
    /\ frame = "idle"
    /\ Guard!Tick
    /\ framed' = FALSE
    /\ UNCHANGED <<vault, error, lastActivity, frame, active, lastInput, clipboard>>

--------------------------------------------------------------------------

Entries ==
    \/ SaveVault
    \/ \E i \in Ids :
          \/ \E c \in Secrets : AddEntry(i, c) \/ UpdateEntry(i, c)
          \/ RemoveEntry(i)
          \/ NothingToChange(i)
          \/ CopyField(i)
          \/ CopyFieldFails(i)
    \/ Refused

Lifecycle ==
    \/ \E pw \in Passwords :
          \/ \E confirm \in Passwords : CreateRejected(pw, confirm)
          \/ CreateVault(pw)
          \/ Unlock(pw)
          \/ UnlockFails(pw)
    \/ UnlockElsewhere
    \/ Lock

Next ==
    \/ \E a \in BOOLEAN : BeginFrame(a)
    \/ Poll
    \/ AutoLock
    \/ NoOperation
    \/ Lifecycle
    \/ Entries
    \/ Restart
    \/ \E t \in Guard!Texts : OtherAppWrites(t)
    \/ Tick

Spec == Init /\ [][Next]_vars

--------------------------------------------------------------------------
(* Properties *)

TypeOK ==
    /\ st \in {"NoVault", "Locked", "Unlocked"}
    /\ mem \in Vaults
    /\ key \in (Passwords \ Short) \cup {NoKey}
    /\ disk \in Files \cup {NoFile, Damaged}
    /\ dirty \in BOOLEAN
    /\ error \in {"none", "PasswordTooShort", "PasswordMismatch",
                  "VaultAlreadyExists", "VaultNotFound"}
    /\ lastActivity \in 0 .. MaxTime
    /\ frame \in {"idle", "polling", "locking", "ui"}
    /\ active \in BOOLEAN /\ framed \in BOOLEAN
    /\ lastInput \in 0 .. MaxTime
    /\ Guard!TypeOK

\* What the user sees unlocked is what a restart would read back, unless the
\* last save failed; and the file opens with the password that opened it.
UnsavedOnlyAfterFailure ==
    st = "Unlocked" => dirty \/ disk = [pw |-> key, data |-> mem]

\* A save never writes more entries than unlock accepts: the limit add_entry
\* enforces is the one validate_entries checks (vault.rs:334 against 291).
SavedFileFits == disk \in Files => Fits(disk.data)

\* The screen offers to create a vault exactly when there is none: an
\* operation that fails half-way leaves state and file agreeing.
StateMatchesFile == st = "NoVault" <=> disk = NoFile

\* A vault file is only ever replaced by its own unlocked vault, under the
\* same password: creating never overwrites, and a locked or damaged file is
\* never written.
OnlyOwnerRewrites ==
    [][disk # NoFile /\ disk' # disk =>
          /\ st = "Unlocked"
          /\ disk \in Files /\ disk' \in Files /\ disk'.pw = disk.pw]_vars

\* A frame of this tick has got past both of its timers.
Looked == framed \/ frame = "ui"

\* In a tick that has had its frame the vault is not unlocked any more once
\* Timeout has passed since the user's last input, whatever was opened, locked
\* or restarted in between and however long no frame was drawn
\* (app.rs:345-353, autolock.rs:34-40).
LocksOnTime == st = "Unlocked" /\ Looked => now < lastInput + Timeout

\* Nor is a copied field on the clipboard any more once ClearAfter has passed,
\* locked or not, unless the clipboard failed or the process died
\* (app.rs:341-343).
ClearsOnTime == ours /\ Looked => gaveUp \/ now < placedAt + ClearAfter

\* README.md:41-42: the vault locks after Timeout without input.
UnlockedMeansRecentInput == st = "Unlocked" => now <= lastInput + Timeout
==========================================================================
