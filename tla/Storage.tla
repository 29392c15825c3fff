----------------------------- MODULE Storage -----------------------------
(*************************************************************************)
(* src/src/storage.rs, system call by system call: several processes     *)
(* saving to one vault path with write_vault_atomic, readers of that     *)
(* path, failures of every call, processes that die, and power loss.     *)
(*                                                                       *)
(* The k-th save of writer w writes one inode, <<w, k>>, whose intended  *)
(* content is the sealed image of that save.  The file system is         *)
(* external: directory operations are atomic, an unsynced inode may lose *)
(* any suffix at power loss, an unflushed rename may be undone.  A       *)
(* directory that create_dir_all makes is taken to be durable.           *)
(*************************************************************************)
EXTENDS Naturals, FiniteSets

CONSTANTS
    Writers,       \* processes that save
    Readers,       \* processes that read
    MaxAttempts,   \* bound: saves per writer
    MaxSaves,      \* bound: saves of all writers together
    FallsBack,     \* writers whose two draws in temp_path_in may both fail
    Original,      \* the inode of a vault that was there before
    ZeroName,      \* ".vt.00...0.tmp", the name built when random_bytes fails
    NoFile         \* nothing under a name

FreshNames == Writers \X (1 .. MaxAttempts)
Names      == FreshNames \cup {ZeroName}
Inodes     == FreshNames \cup {Original}

ASSUME ConstantsAssumption ==
    /\ MaxAttempts \in Nat /\ MaxSaves \in Nat
    /\ FallsBack \subseteq Writers
    /\ ZeroName \notin FreshNames
    /\ Original \notin FreshNames
    /\ NoFile \notin Inodes

VARIABLES
    vault,      \* what the vault path names: an inode or NoFile
    survivors,  \* what the vault path may name after a power loss
    tmp,        \* [Names -> Inodes \cup {NoFile}]: the .vt.*.tmp entries
    size,       \* [Inodes -> {"empty", "partial", "whole"}], in the page cache
    synced,     \* [Inodes -> BOOLEAN]: sync_all returned for this inode
    pc,         \* [Writers -> Steps]: where write_vault_atomic is
    attempt,    \* [Writers -> 0 .. MaxAttempts]: saves begun
    name,       \* [Writers -> Names]: tmp_path
    result,     \* [Writers -> {"none", "ok", "err"}]: the last call's result
    rpc,        \* [Readers -> {"idle", "checked", "opened"}]: read_vault
    handle,     \* [Readers -> Inodes \cup {NoFile}]: the file being read
    torn,       \* [Readers -> BOOLEAN]: a read_vault gave a truncated image
    orphans     \* history: names under which a save left its file behind

disk    == <<vault, survivors, tmp, size, synced>>
writer  == <<pc, attempt, name, result>>
reader  == <<rpc, handle, torn>>
vars    == <<disk, writer, reader, orphans>>

Steps == {"idle", "mkdir", "create", "write", "sync", "rename", "flushdir", "discard"}
Sizes == {"empty", "partial", "whole"}

Begun == {save \in FreshNames : save[2] <= attempt[save[1]]}

\* The inode the current save of w writes.
Own(w) == <<w, attempt[w]>>

Init ==
    /\ vault \in {Original, NoFile}
    /\ survivors = {vault}
    /\ tmp = [n \in Names |-> NoFile]
    /\ size = [i \in Inodes |-> IF i = Original THEN "whole" ELSE "empty"]
    /\ synced = [i \in Inodes |-> i = Original]
    /\ pc = [w \in Writers |-> "idle"]
    /\ attempt = [w \in Writers |-> 0]
    /\ name = [w \in Writers |-> ZeroName]
    /\ result = [w \in Writers |-> "none"]
    /\ rpc = [r \in Readers |-> "idle"]
    /\ handle = [r \in Readers |-> NoFile]
    /\ torn = [r \in Readers |-> FALSE]
    /\ orphans = {}

--------------------------------------------------------------------------
(* write_vault_atomic *)

Goto(w, step) == pc' = [pc EXCEPT ![w] = step]

Return(w, r) ==
    /\ Goto(w, "idle")
    /\ result' = [result EXCEPT ![w] = r]

\* Two 8-byte draws; each falls back to zeroes on its own, so only a double
\* failure gives a name two saves can share.
TempPath(w, k) ==
    {<<w, k>>} \cup (IF w \in FallsBack THEN {ZeroName} ELSE {})

BeginSave(w) ==
    /\ pc[w] = "idle"
    /\ attempt[w] < MaxAttempts
    /\ Cardinality(Begun) < MaxSaves
    /\ attempt' = [attempt EXCEPT ![w] = @ + 1]
    /\ \E n \in TempPath(w, attempt[w] + 1) : name' = [name EXCEPT ![w] = n]
    /\ result' = [result EXCEPT ![w] = "none"]
    /\ Goto(w, "mkdir")
    /\ UNCHANGED <<disk, reader, orphans>>

\* parent_dir rejects a bare file name, or create_dir_all fails: nothing has
\* been touched and there is nothing to clean.
NoDirectory(w) ==
    /\ pc[w] = "mkdir"
    /\ Return(w, "err")
    /\ UNCHANGED <<disk, attempt, name, reader, orphans>>

HaveDirectory(w) ==
    /\ pc[w] = "mkdir"
    /\ Goto(w, "create")
    /\ UNCHANGED <<disk, attempt, name, result, reader, orphans>>

\* create_new: O_EXCL, so an entry already under the name is a failure.
CreateTmp(w) ==
    /\ pc[w] = "create"
    /\ tmp[name[w]] = NoFile
    /\ tmp' = [tmp EXCEPT ![name[w]] = Own(w)]
    /\ Goto(w, "write")
    /\ UNCHANGED <<vault, survivors, size, synced, attempt, name, result, reader, orphans>>

\* Mutant: write(2) once instead of write_all
WriteTmp_Once(w) ==
    /\ pc[w] = "write"
    /\ size' \in {[size EXCEPT ![Own(w)] = s] : s \in {"partial", "whole"}}
    /\ Goto(w, "sync")
    /\ UNCHANGED <<vault, survivors, tmp, synced, attempt, name, result, reader, orphans>>

\* write_all loops over write(2): an observer, or a crash, sees a prefix.
WriteTmp(w) ==
    /\ pc[w] = "write"
    /\ size[Own(w)] # "whole"
    /\ size' = [size EXCEPT ![Own(w)] = IF @ = "empty" THEN "partial" ELSE "whole"]
    /\ IF size'[Own(w)] = "whole" THEN Goto(w, "sync") ELSE UNCHANGED pc
    /\ UNCHANGED <<vault, survivors, tmp, synced, attempt, name, result, reader, orphans>>

\* Mutant: sync_all is skipped before the rename
SyncTmp_Skipped(w) ==
    /\ pc[w] = "sync"
    /\ Goto(w, "rename")
    /\ UNCHANGED <<disk, attempt, name, result, reader, orphans>>

SyncTmp(w) ==
    /\ pc[w] = "sync"
    /\ synced' = [synced EXCEPT ![Own(w)] = TRUE]
    /\ Goto(w, "rename")
    /\ UNCHANGED <<vault, survivors, tmp, size, attempt, name, result, reader, orphans>>

\* Mutant: the old vault is removed first, as where rename does not replace
RenameTmp_RemoveFirst(w) ==
    /\ pc[w] = "rename"
    /\ tmp[name[w]] # NoFile
    /\ vault' = tmp[name[w]]
    /\ survivors' = survivors \cup {vault', NoFile}
    /\ tmp' = [tmp EXCEPT ![name[w]] = NoFile]
    /\ orphans' = orphans \ {name[w]}
    /\ Goto(w, "flushdir")
    /\ UNCHANGED <<size, synced, attempt, name, result, reader>>

\* rename(2) acts on the name, whatever inode it now names.
RenameTmp(w) ==
    /\ pc[w] = "rename"
    /\ tmp[name[w]] # NoFile
    /\ vault' = tmp[name[w]]
    /\ survivors' = survivors \cup {vault'}
    /\ tmp' = [tmp EXCEPT ![name[w]] = NoFile]
    /\ orphans' = orphans \ {name[w]}
    /\ Goto(w, "flushdir")
    /\ UNCHANGED <<size, synced, attempt, name, result, reader>>

\* The file w leaves when it can no longer remove it.
LeftBehind(w) == {n \in {name[w]} : tmp[n] = Own(w)}

\* Mutant: the failing call returns with `?`, past the clean-up
StepFails_NoCleanup(w) ==
    /\ pc[w] \in {"create", "write", "sync", "rename"}
    /\ Return(w, "err")
    /\ UNCHANGED <<disk, attempt, name, reader, orphans>>

\* open, write_all, sync_all or rename fails: the error path of each goes
\* through remove_file(tmp_path).
StepFails(w) ==
    /\ pc[w] \in {"create", "write", "sync", "rename"}
    /\ Goto(w, "discard")
    /\ UNCHANGED <<disk, attempt, name, result, reader, orphans>>

\* `let _ = remove_file`: removes whatever the name holds, or fails unnoticed.
DiscardTmp(w) ==
    /\ pc[w] = "discard"
    /\ \/ /\ tmp' = [tmp EXCEPT ![name[w]] = NoFile]
          /\ orphans' = orphans \ {name[w]}
       \/ /\ orphans' = orphans \cup LeftBehind(w)
          /\ UNCHANGED tmp
    /\ Return(w, "err")
    /\ UNCHANGED <<vault, survivors, size, synced, attempt, name, reader>>

\* Mutant: a failing directory sync is reported as a failed save
FlushDir_Strict(w) ==
    /\ pc[w] = "flushdir"
    /\ \/ survivors' = {vault} /\ Return(w, "ok")
       \/ UNCHANGED survivors /\ Return(w, "err")
    /\ UNCHANGED <<vault, tmp, size, synced, attempt, name, reader, orphans>>

\* The directory's sync is best effort; the call answers Ok either way.
FlushDir(w) ==
    /\ pc[w] = "flushdir"
    /\ \/ survivors' = {vault}
       \/ UNCHANGED survivors
    /\ Return(w, "ok")
    /\ UNCHANGED <<vault, tmp, size, synced, attempt, name, reader, orphans>>

\* The process dies between two calls; the page cache outlives it.
Kill(w) ==
    /\ pc[w] # "idle"
    /\ Goto(w, "idle")
    /\ orphans' = orphans \cup LeftBehind(w)
    /\ UNCHANGED <<disk, attempt, name, result, reader>>

--------------------------------------------------------------------------
(* read_vault and delete_vault *)

\* Without a vault, here or at the open, read_vault answers VaultNotFound.
CheckVault(r) ==
    /\ rpc[r] = "idle"
    /\ vault # NoFile
    /\ rpc' = [rpc EXCEPT ![r] = "checked"]
    /\ UNCHANGED <<disk, writer, handle, torn, orphans>>

OpenVault(r) ==
    /\ rpc[r] = "checked"
    /\ handle' = [handle EXCEPT ![r] = vault]
    /\ rpc' = [rpc EXCEPT ![r] = IF vault = NoFile THEN "idle" ELSE "opened"]
    /\ UNCHANGED <<disk, writer, torn, orphans>>

FinishRead(r) ==
    /\ rpc[r] = "opened"
    /\ torn' = [torn EXCEPT ![r] = @ \/ size[handle[r]] # "whole"]
    /\ rpc' = [rpc EXCEPT ![r] = "idle"]
    /\ handle' = [handle EXCEPT ![r] = NoFile]
    /\ UNCHANGED <<disk, writer, orphans>>

DeleteVault ==
    /\ vault # NoFile
    /\ vault' = NoFile
    /\ survivors' = survivors \cup {NoFile}
    /\ UNCHANGED <<tmp, size, synced, writer, reader, orphans>>

--------------------------------------------------------------------------
(* Power loss: every process dies, an unsynced inode keeps any prefix of   *)
(* its bytes, and each temporary entry may or may not have reached disk.   *)

Prefixes(s) ==
    CASE s = "empty"   -> {"empty"}
      [] s = "partial" -> {"empty", "partial"}
      [] s = "whole"   -> Sizes

\* An inode that no name reached is gone; a named one that was not synced
\* keeps any prefix.
Leftovers(named) ==
    LET loose == {i \in named \cap Inodes : ~synced[i]} IN
    {[i \in Inodes |-> IF i \in loose THEN cut[i] ELSE IF i \in named THEN size[i] ELSE "empty"] :
        cut \in {c \in [loose -> Sizes] : \A i \in loose : c[i] \in Prefixes(size[i])}}

PowerLoss ==
    /\ vault' \in survivors
    /\ survivors' = {vault'}
    /\ \E kept \in SUBSET {n \in Names : tmp[n] # NoFile} :
          tmp' = [n \in Names |-> IF n \in kept THEN tmp[n] ELSE NoFile]
    /\ size' \in Leftovers({vault'} \cup {tmp'[n] : n \in Names})
    /\ pc' = [w \in Writers |-> "idle"]
    /\ rpc' = [r \in Readers |-> "idle"]
    /\ handle' = [r \in Readers |-> NoFile]
    /\ orphans' = {n \in Names : tmp'[n] # NoFile}
    /\ UNCHANGED <<synced, attempt, name, result, torn>>

--------------------------------------------------------------------------

Save(w) ==
    \/ BeginSave(w)
    \/ NoDirectory(w)
    \/ HaveDirectory(w)
    \/ CreateTmp(w)
    \/ WriteTmp(w)
    \/ SyncTmp(w)
    \/ RenameTmp(w)
    \/ StepFails(w)
    \/ DiscardTmp(w)
    \/ FlushDir(w)
    \/ Kill(w)

Read(r) == CheckVault(r) \/ OpenVault(r) \/ FinishRead(r)

Next ==
    \/ \E w \in Writers : Save(w)
    \/ \E r \in Readers : Read(r)
    \/ DeleteVault
    \/ PowerLoss

Spec == Init /\ [][Next]_vars

--------------------------------------------------------------------------
(* Properties *)

FullyWritten ==
    \A w \in Writers : pc[w] \in {"sync", "rename", "flushdir"} => size[Own(w)] = "whole"

\* Types; and a save that is past write_all has all its bytes in its file,
\* whatever the saves beside it did to the name (storage.rs:46-51).
TypeOK ==
    /\ vault \in Inodes \cup {NoFile}
    /\ survivors \subseteq Inodes \cup {NoFile}
    /\ tmp \in [Names -> Inodes \cup {NoFile}]
    /\ size \in [Inodes -> Sizes]
    /\ synced \in [Inodes -> BOOLEAN]
    /\ pc \in [Writers -> Steps]
    /\ attempt \in [Writers -> 0 .. MaxAttempts]
    /\ name \in [Writers -> Names]
    /\ result \in [Writers -> {"none", "ok", "err"}]
    /\ rpc \in [Readers -> {"idle", "checked", "opened"}]
    /\ handle \in [Readers -> Inodes \cup {NoFile}]
    /\ torn \in [Readers -> BOOLEAN]
    /\ orphans \subseteq Names
    /\ FullyWritten

\* The vault path never names a truncated file, now or after a power loss at
\* this very moment: sync_all comes before rename on every path
\* (storage.rs:46-60).
VaultIsWhole ==
    \A v \in survivors \cup {vault} : v # NoFile => size[v] = "whole"

\* A save that answered Err is not the vault and cannot become it: "a failed
\* save never corrupts the previous vault" (storage.rs:55-63).
FailedSaveInvisible ==
    \A w \in Writers : result[w] = "err" => Own(w) \notin survivors \cup {vault}

\* A reader that runs into any number of saves gets one image in full,
\* although read_vault looks the path up twice (storage.rs:18, 25).
NeverReadsTorn ==
    \A r \in Readers : ~torn[r]

\* A temporary file belongs to a save in progress, unless the very save that
\* made it died, lost power or could not remove it (storage.rs:55-63); also
\* when saves share a name and remove each other's files.
NoLitter ==
    \A n \in Names :
        tmp[n] # NoFile =>
            \/ n \in orphans
            \/ \E w \in Writers :
                  /\ name[w] = n
                  /\ tmp[n] = Own(w)
                  /\ pc[w] \in {"write", "sync", "rename", "discard"}

\* Once a vault has reached the disk no save, however it fails, opens a
\* window in which a power loss would leave no vault at all; only
\* delete_vault does.
EstablishedVaultSurvives ==
    [][NoFile \notin survivors /\ NoFile \in survivors' => DeleteVault]_vars

\* write_vault_atomic implements the atomic register.  A torn image is no
\* value of that register.
Torn == "torn"
ImageOf(v) == IF v # NoFile /\ size[v] # "whole" THEN Torn ELSE v

\* Each writer as a client of the register: how far its save is, and of what.
Phase == [w \in Writers |->
            IF pc[w] = "idle" THEN "idle"
            ELSE IF pc[w] = "flushdir" THEN "done" ELSE "asked"]
Request == [w \in Writers |-> IF attempt[w] = 0 THEN NoFile ELSE Own(w)]

Register == INSTANCE AtomicStore WITH
    Clients   <- Writers,
    Values    <- Inodes,
    Absent    <- NoFile,
    value     <- ImageOf(vault),
    survivors <- {ImageOf(v) : v \in survivors},
    phase     <- Phase,
    request   <- Request,
    answer    <- result

ImplementsRegister == Register!Spec
==========================================================================
