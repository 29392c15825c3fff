---------------------------- MODULE Instances ----------------------------
(*************************************************************************)
(* Several running copies of the program on one vault path.  Nothing in  *)
(* src/src/app.rs locks the file: create_vault checks for a file, spends *)
(* about a second deriving keys and then writes; unlock reads the file   *)
(* and derives keys before it changes state; a save seals memory and     *)
(* then renames over whatever is there.  Each such operation is two      *)
(* steps here, and the other copies run in between.                      *)
(*************************************************************************)
EXTENDS Naturals, FiniteSets

CONSTANTS
    Apps,        \* running copies
    NoFile,      \* no file at the vault path
    MaxVaults,   \* bound: vaults created, each with its own Vault Key
    MaxRows      \* bound: texts of entries, added or updated

Images == [vault : 1 .. MaxVaults, rows : SUBSET (1 .. MaxRows)]

ASSUME InstancesAssumption ==
    /\ MaxVaults \in Nat /\ MaxRows \in Nat
    /\ NoFile \notin Images

VARIABLES
    file,     \* the vault file: its Vault Key and its rows
    st,       \* [Apps -> AppState]
    mem,      \* [Apps -> image]: the unlocked vault, or NoFile
    pc,       \* [Apps -> {"idle", "creating", "unlocking", "saving"}]
    image,    \* [Apps -> image]: the bytes read, or about to be written
    vaults,   \* Vault Keys drawn so far
    rows,     \* texts of entries so far; an update replaces one by a new one
    homes,    \* history: [1 .. rows -> the vault each was written in]
    acked,    \* history: [Apps -> rows whose save answered Ok]
    dropped,  \* history: [Apps -> rows taken out since the last such save]
    writers   \* history: the copies that ever wrote the file

history == <<acked, dropped, writers>>
vars == <<file, st, mem, pc, image, vaults, rows, homes, history>>

StateFor(f) == IF f = NoFile THEN "NoVault" ELSE "Locked"

Init ==
    /\ file = NoFile
    /\ st = [a \in Apps |-> "NoVault"]
    /\ mem = [a \in Apps |-> NoFile]
    /\ pc = [a \in Apps |-> "idle"]
    /\ image = [a \in Apps |-> NoFile]
    /\ vaults = 0
    /\ rows = 0
    /\ homes = [r \in 1 .. MaxRows |-> 0]
    /\ acked = [a \in Apps |-> {}]
    /\ dropped = [a \in Apps |-> {}]
    /\ writers = {}

Enter(a, step, img) ==
    /\ pc[a] = "idle"
    /\ pc' = [pc EXCEPT ![a] = step]
    /\ image' = [image EXCEPT ![a] = img]

Leave(a, step) ==
    /\ pc[a] = step
    /\ pc' = [pc EXCEPT ![a] = "idle"]
    /\ image' = [image EXCEPT ![a] = NoFile]

Open(a, img) ==
    /\ st' = [st EXCEPT ![a] = "Unlocked"]
    /\ mem' = [mem EXCEPT ![a] = img]

--------------------------------------------------------------------------

\* create_vault up to the key derivation
BeginCreate(a) ==
    /\ st[a] = "NoVault"
    /\ file = NoFile
    /\ vaults < MaxVaults
    /\ vaults' = vaults + 1
    /\ Enter(a, "creating", [vault |-> vaults + 1, rows |-> {}])
    /\ UNCHANGED <<file, st, mem, rows, homes, history>>

FinishCreate(a) ==
    /\ Leave(a, "creating")
    /\ file' = image[a]
    /\ writers' = writers \cup {a}
    /\ Open(a, image[a])
    /\ UNCHANGED <<vaults, rows, homes, acked, dropped>>

\* unlock up to the key derivation; without a file read_vault fails.
BeginUnlock(a) ==
    /\ st[a] = "Locked"
    /\ file # NoFile
    /\ Enter(a, "unlocking", file)
    /\ UNCHANGED <<file, st, mem, vaults, rows, homes, history>>

FinishUnlock(a) ==
    /\ Leave(a, "unlocking")
    /\ Open(a, image[a])
    /\ UNCHANGED <<file, vaults, rows, homes, history>>

\* Mutant: the vault is sealed before the change is made
BeginSave_SealsFirst(a, gone, new) ==
    /\ st[a] = "Unlocked"
    /\ mem' = [mem EXCEPT ![a].rows = (@ \ gone) \cup new]
    /\ dropped' = [dropped EXCEPT ![a] = @ \cup gone]
    /\ Enter(a, "saving", mem[a])
    /\ UNCHANGED <<file, st, vaults, acked, writers>>

\* A change to memory, and save up to the rename
BeginSave(a, gone, new) ==
    /\ st[a] = "Unlocked"
    /\ mem' = [mem EXCEPT ![a].rows = (@ \ gone) \cup new]
    /\ dropped' = [dropped EXCEPT ![a] = @ \cup gone]
    /\ Enter(a, "saving", mem'[a])
    /\ UNCHANGED <<file, st, vaults, acked, writers>>

\* The text of a new entry, or a new text for one.
NewRow(a) ==
    /\ rows < MaxRows
    /\ rows' = rows + 1
    /\ homes' = [homes EXCEPT ![rows + 1] = mem[a].vault]

BeginAdd(a) == BeginSave(a, {}, {rows + 1}) /\ NewRow(a)

\* update_entry and remove_entry of an entry that this copy does not hold
\* answer Ok(false), and nothing is saved.
BeginUpdate(a) ==
    /\ st[a] = "Unlocked"
    /\ \E r \in mem[a].rows : BeginSave(a, {r}, {rows + 1})
    /\ NewRow(a)

BeginRemove(a) ==
    /\ st[a] = "Unlocked"
    /\ \E r \in mem[a].rows : BeginSave(a, {r}, {})
    /\ UNCHANGED <<rows, homes>>

\* Mutant: the header is read again from the file instead of kept from unlocking
FinishSave_FileHeader(a) ==
    /\ Leave(a, "saving")
    /\ file' = [image[a] EXCEPT !.vault = file.vault]
    /\ writers' = writers \cup {a}
    /\ acked' = [acked EXCEPT ![a] = (@ \ dropped[a]) \cup mem[a].rows]
    /\ dropped' = [dropped EXCEPT ![a] = {}]
    /\ UNCHANGED <<st, mem, vaults, rows, homes>>

FinishSave(a) ==
    /\ Leave(a, "saving")
    /\ file' = image[a]
    /\ writers' = writers \cup {a}
    /\ acked' = [acked EXCEPT ![a] = (@ \ dropped[a]) \cup mem[a].rows]
    /\ dropped' = [dropped EXCEPT ![a] = {}]
    /\ UNCHANGED <<st, mem, vaults, rows, homes>>

\* Creating, unlocking or saving answers Err.
Fail(a) ==
    /\ pc[a] # "idle"
    /\ Leave(a, pc[a])
    /\ UNCHANGED <<file, st, mem, vaults, rows, homes, history>>

\* Mutant: the screen locks and the entries stay in memory
LockVault_KeepsEntries(a) ==
    /\ pc[a] = "idle" /\ st[a] = "Unlocked"
    /\ st' = [st EXCEPT ![a] = "Locked"]
    /\ UNCHANGED <<file, mem, pc, image, vaults, rows, homes, history>>

LockVault(a) ==
    /\ pc[a] = "idle" /\ st[a] = "Unlocked"
    /\ st' = [st EXCEPT ![a] = "Locked"]
    /\ mem' = [mem EXCEPT ![a] = NoFile]
    /\ dropped' = [dropped EXCEPT ![a] = {}]
    /\ UNCHANGED <<file, pc, image, vaults, rows, homes, acked, writers>>

\* The copy ends, at any point, and is started again.
Restart(a) ==
    /\ pc' = [pc EXCEPT ![a] = "idle"]
    /\ image' = [image EXCEPT ![a] = NoFile]
    /\ st' = [st EXCEPT ![a] = StateFor(file)]
    /\ mem' = [mem EXCEPT ![a] = NoFile]
    /\ dropped' = [dropped EXCEPT ![a] = {}]
    /\ UNCHANGED <<file, vaults, rows, homes, acked, writers>>

Next ==
    \E a \in Apps :
        \/ BeginCreate(a) \/ FinishCreate(a)
        \/ BeginUnlock(a) \/ FinishUnlock(a)
        \/ BeginAdd(a) \/ BeginUpdate(a) \/ BeginRemove(a)
        \/ FinishSave(a)
        \/ Fail(a)
        \/ LockVault(a)
        \/ Restart(a)

Spec == Init /\ [][Next]_vars

--------------------------------------------------------------------------
(* Properties *)

TypeOK ==
    /\ file \in Images \cup {NoFile}
    /\ st \in [Apps -> {"NoVault", "Locked", "Unlocked"}]
    /\ mem \in [Apps -> Images \cup {NoFile}]
    /\ \A a \in Apps : st[a] = "Unlocked" <=> mem[a] # NoFile
    /\ pc \in [Apps -> {"idle", "creating", "unlocking", "saving"}]
    /\ image \in [Apps -> Images \cup {NoFile}]
    /\ vaults \in 0 .. MaxVaults /\ rows \in 0 .. MaxRows
    /\ homes \in [1 .. MaxRows -> 0 .. MaxVaults]
    /\ acked \in [Apps -> SUBSET (1 .. MaxRows)]
    /\ dropped \in [Apps -> SUBSET (1 .. MaxRows)]
    /\ writers \subseteq Apps

\* Copies that overwrite each other's files still never put entries of one
\* vault under the Vault Key of another.
VaultsNeverMix ==
    file # NoFile => \A r \in file.rows : homes[r] = file.vault

\* As long as one copy does all the writing, no text it acknowledged goes
\* missing, whatever the other copies read, and whatever fails or restarts.  A
\* text that this copy replaced or removed counts until a save succeeds.  With
\* two writers the later save wins (see README).
LoneWriterLosesNothing ==
    \A a \in Apps : writers = {a} =>
        /\ file # NoFile
        /\ acked[a] \subseteq file.rows

\* app.rs:153-154: create_vault refuses to overwrite an existing vault.
CreateNeverOverwrites ==
    [][\A a \in Apps : FinishCreate(a) => file = NoFile]_vars
==========================================================================
