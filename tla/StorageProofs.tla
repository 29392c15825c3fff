-------------------------- MODULE StorageProofs --------------------------
(*************************************************************************)
(* Theorems about Storage for any number of writers, readers and saves.  *)
(* The safety theorems assume no more of temp_path_in than that two      *)
(* saves that run at once do not have one name (Exclusive): the fallback *)
(* name may be used, and the file of a dead save may lie under it.       *)
(*************************************************************************)
EXTENDS Storage, TLAPS

(* Type correctness is inductive once a save that runs, or has answered,   *)
(* is known to have a number within the bound.                             *)
Numbered ==
    \A w \in Writers :
        pc[w] # "idle" \/ result[w] # "none" => attempt[w] \in 1 .. MaxAttempts

TypeInv == TypeOK /\ Numbered

\* Everything starts within its type.
LEMMA TypeInit == Init => TypeInv
BY ConstantsAssumption DEF Init, TypeInv, TypeOK, Numbered, FullyWritten, Steps, Sizes, Names, Inodes, FreshNames

\* A save writes an inode of its own.
LEMMA OwnIsFresh ==
    ASSUME TypeInv, NEW w \in Writers, pc[w] # "idle" \/ result[w] # "none"
    PROVE  Own(w) \in FreshNames /\ Own(w) \in Inodes
BY DEF TypeInv, Numbered, Own, FreshNames, Inodes

\* Two saves never write the same inode.
LEMMA OwnDistinct ==
    ASSUME NEW w \in Writers, NEW x \in Writers, w # x
    PROVE  Own(w) # Own(x)
BY DEF Own

\* No save cuts another's file, and its own is whole once write_all returned.
LEMMA WrittenSave ==
    ASSUME TypeInv, NEW w \in Writers, Save(w)
    PROVE  FullyWritten'
<1>1. CASE BeginSave(w)
  BY <1>1 DEF BeginSave, FullyWritten, Own, Goto, disk, TypeInv, TypeOK
<1>2. CASE WriteTmp(w)
  <2>1. Own(w) \in Inodes
    BY <1>2, OwnIsFresh DEF WriteTmp
  <2>2. \A x \in Writers : x # w => Own(x) # Own(w) /\ size'[Own(x)] = size[Own(x)] /\ pc'[x] = pc[x]
    BY <1>2, <2>1, OwnDistinct DEF WriteTmp, Goto, TypeInv, TypeOK
  <2>3. pc'[w] # "write" => size'[Own(w)] = "whole"
    BY <1>2, <2>1 DEF WriteTmp, Goto, TypeInv, TypeOK
  <2>4. \A x \in Writers : Own(x)' = Own(x)
    BY <1>2 DEF WriteTmp, Own
  <2>5. pc'[w] \in {"write", "sync"}
    BY <1>2 DEF WriteTmp, Goto, TypeInv, TypeOK
  <2> QED BY <2>2, <2>3, <2>4, <2>5 DEF FullyWritten, TypeInv, TypeOK
<1>3. CASE ~BeginSave(w) /\ ~WriteTmp(w)
  <2>1. /\ UNCHANGED <<size, attempt>>
        /\ \A x \in Writers : pc'[x] \in {"sync", "rename", "flushdir"}
                               => pc[x] \in {"sync", "rename", "flushdir"}
    BY <1>3 DEF Save, NoDirectory, HaveDirectory, CreateTmp, SyncTmp, RenameTmp, StepFails,
       DiscardTmp, FlushDir, Kill, Goto, Return, disk, TypeInv, TypeOK
  <2> QED BY <2>1 DEF FullyWritten, Own, TypeInv, TypeOK
<1> QED BY <1>1, <1>2, <1>3

\* No step of a save leaves the types.
LEMMA TypeSave ==
    ASSUME TypeInv, NEW w \in Writers, Save(w)
    PROVE  TypeInv'
<1>0. FullyWritten'
  BY WrittenSave
<1> USE <1>0 DEF TypeInv, TypeOK, Numbered, Goto, Return, disk, writer, reader
<1>1. CASE BeginSave(w)
  <2>1. attempt[w] + 1 \in 1 .. MaxAttempts
    BY <1>1, ConstantsAssumption DEF BeginSave
  <2>2. TempPath(w, attempt[w] + 1) \subseteq Names
    BY <2>1 DEF TempPath, Names, FreshNames
  <2> QED BY <1>1, <2>1, <2>2, ConstantsAssumption DEF BeginSave, Steps
<1>2. CASE NoDirectory(w)    BY <1>2 DEF NoDirectory, Steps
<1>3. CASE HaveDirectory(w)  BY <1>3 DEF HaveDirectory, Steps
<1>4. CASE CreateTmp(w)      BY <1>4, OwnIsFresh DEF CreateTmp, Steps
<1>5. CASE WriteTmp(w)       BY <1>5, OwnIsFresh DEF WriteTmp, Steps, Sizes
<1>6. CASE SyncTmp(w)        BY <1>6, OwnIsFresh DEF SyncTmp, Steps
<1>7. CASE RenameTmp(w)      BY <1>7 DEF RenameTmp, Steps
<1>8. CASE StepFails(w)      BY <1>8 DEF StepFails, Steps
<1>9. CASE DiscardTmp(w)     BY <1>9 DEF DiscardTmp, LeftBehind, Steps
<1>10. CASE FlushDir(w)      BY <1>10 DEF FlushDir, Steps
<1>11. CASE Kill(w)          BY <1>11 DEF Kill, LeftBehind, Steps
<1> QED BY <1>1, <1>2, <1>3, <1>4, <1>5, <1>6, <1>7, <1>8, <1>9, <1>10, <1>11 DEF Save

\* No step at all leaves the types.
LEMMA TypeNext == TypeInv /\ [Next]_vars => TypeInv'
<1> SUFFICES ASSUME TypeInv, [Next]_vars PROVE TypeInv'
  OBVIOUS
<1>1. ASSUME NEW w \in Writers, Save(w) PROVE TypeInv'
  BY <1>1, TypeSave
<1>2. ASSUME NEW r \in Readers, Read(r) PROVE TypeInv'
  <2> USE DEF TypeInv, TypeOK, Numbered, FullyWritten, Own, disk, writer
  <2>1. CASE CheckVault(r)  BY <2>1 DEF CheckVault
  <2>2. CASE OpenVault(r)   BY <2>2 DEF OpenVault
  <2>3. CASE FinishRead(r)  BY <2>3 DEF FinishRead
  <2> QED BY <1>2, <2>1, <2>2, <2>3 DEF Read
<1>3. CASE DeleteVault
  BY <1>3 DEF DeleteVault, TypeInv, TypeOK, Numbered, FullyWritten, Own, writer, reader
<1>4. CASE PowerLoss
  <2>1. size' \in [Inodes -> Sizes]
    BY <1>4 DEF PowerLoss, Leftovers, Sizes, TypeInv, TypeOK
  <2>2. FullyWritten'
    BY <1>4 DEF PowerLoss, FullyWritten
  <2> QED BY <1>4, <2>1, <2>2 DEF PowerLoss, TypeInv, TypeOK, Numbered, Steps
<1>5. CASE UNCHANGED vars
  BY <1>5 DEF vars, disk, writer, reader, TypeInv, TypeOK, Numbered, FullyWritten, Own
<1> QED BY <1>1, <1>2, <1>3, <1>4, <1>5 DEF Next

\* Every variable of write_vault_atomic, read_vault and the file system keeps
\* its type, fallback names included.
THEOREM TypeCorrect == Spec => []TypeOK
<1>1. TypeInv => TypeOK  BY DEF TypeInv
<1> QED BY <1>1, TypeInit, TypeNext, PTL DEF Spec

--------------------------------------------------------------------------
(* Safety.  The vault stays whole because rename can only publish the      *)
(* renaming save's own inode (HoldsOwn), which was written to the end and  *)
(* synced before (Readied), and nothing shrinks or rewrites an inode that  *)
(* has reached that point (Published).  Unpublished says when an inode is  *)
(* not yet, or can no longer be, the vault.                                *)

\* Two saves that run at the same time write under different names.
Exclusive ==
    \A w, x \in Writers :
        w # x /\ pc[w] # "idle" /\ pc[x] # "idle" => name[w] # name[x]

\* From its create_new to its rename a save's name holds the save's inode.
HoldsOwn ==
    \A w \in Writers : pc[w] \in {"write", "sync", "rename"} => tmp[name[w]] = Own(w)

Readied ==
    \A w \in Writers :
        /\ pc[w] = "sync" => size[Own(w)] = "whole"
        /\ pc[w] = "rename" => size[Own(w)] = "whole" /\ synced[Own(w)]

Published ==
    /\ vault \in survivors
    /\ \A v \in survivors : v # NoFile => size[v] = "whole" /\ synced[v]

Reading ==
    /\ NeverReadsTorn
    /\ \A r \in Readers :
          rpc[r] = "opened" => handle[r] \in Inodes /\ size[handle[r]] = "whole"

Unpublished ==
    \A w \in Writers :
        /\ pc[w] # "idle" => result[w] = "none"
        /\ pc[w] \notin {"idle", "flushdir"} \/ result[w] = "err" => Own(w) \notin survivors
        /\ \A k \in 1 .. MaxAttempts : k > attempt[w] => <<w, k>> \notin survivors

SafeInv == TypeInv /\ HoldsOwn /\ Readied /\ Published /\ Reading /\ Unpublished

\* The strengthened invariant holds at the start.
LEMMA SafeInit == Init => SafeInv
<1> SUFFICES ASSUME Init PROVE SafeInv
  OBVIOUS
<1>1. TypeInv
  BY TypeInit
<1>2. HoldsOwn /\ Readied
  BY DEF Init, HoldsOwn, Readied
<1>3. Published /\ Reading
  BY ConstantsAssumption DEF Init, Published, Reading, NeverReadsTorn, Inodes
<1>4. Unpublished
  BY ConstantsAssumption DEF Init, Unpublished, Own, Inodes, FreshNames
<1> QED BY <1>1, <1>2, <1>3, <1>4 DEF SafeInv

\* A save that only moves to another step, or fails, publishes nothing.
LEMMA SafeQuiet ==
    ASSUME SafeInv, NEW w \in Writers,
           NoDirectory(w) \/ HaveDirectory(w) \/ StepFails(w) \/ Kill(w)
    PROVE  SafeInv'
<1> USE DEF SafeInv
<1>1. TypeInv'
  BY TypeSave DEF Save
<1>2. pc[w] # "idle" /\ UNCHANGED <<disk, attempt, name, reader>>
  BY DEF NoDirectory, HaveDirectory, StepFails, Kill
<1>3. /\ pc' \in [Writers -> Steps]
      /\ \A x \in Writers : x # w => pc'[x] = pc[x]
      /\ pc'[w] \in {"idle", "create", "discard"}
  BY DEF NoDirectory, HaveDirectory, StepFails, Kill, Goto, Return, TypeInv, TypeOK, Steps
<1>4. HoldsOwn'
  BY <1>2, <1>3 DEF HoldsOwn, Own, disk
<1>5. Readied' /\ Published' /\ Reading'
  BY <1>2, <1>3 DEF Readied, Published, Reading, NeverReadsTorn, Own, disk, reader
<1>6. Unpublished'
  <2>1. CASE NoDirectory(w)
    BY <2>1 DEF NoDirectory, Unpublished, Goto, Return, Own, disk, TypeInv, TypeOK
  <2>2. CASE HaveDirectory(w)
    BY <2>2 DEF HaveDirectory, Unpublished, Goto, Own, disk, TypeInv, TypeOK
  <2>3. CASE StepFails(w)
    BY <2>3 DEF StepFails, Unpublished, Goto, Own, disk, TypeInv, TypeOK
  <2>4. CASE Kill(w)
    BY <2>4 DEF Kill, Unpublished, Goto, Own, disk, TypeInv, TypeOK
  <2> QED BY <2>1, <2>2, <2>3, <2>4
<1> QED BY <1>1, <1>4, <1>5, <1>6

\* The writing steps of a save keep the invariant.
LEMMA SafeSave ==
    ASSUME SafeInv, Exclusive, NEW w \in Writers, Save(w)
    PROVE  SafeInv'
<1> USE DEF SafeInv
<1>1. TypeInv'
  BY TypeSave
<1>2. CASE NoDirectory(w) \/ HaveDirectory(w) \/ StepFails(w) \/ Kill(w)
  BY <1>2, SafeQuiet
<1>3. CASE BeginSave(w)
  <2>1. Own(w)' = <<w, attempt[w] + 1>>
    BY <1>3 DEF BeginSave, Own, TypeInv, TypeOK
  <2>2. attempt[w] + 1 \in 1 .. MaxAttempts /\ attempt[w] + 1 > attempt[w]
    BY <1>3, ConstantsAssumption DEF BeginSave, TypeInv, TypeOK
  <2>3. \A x \in Writers : x # w => Own(x)' = Own(x) /\ pc'[x] = pc[x] /\ name'[x] = name[x]
                                    /\ attempt'[x] = attempt[x] /\ result'[x] = result[x]
    BY <1>3 DEF BeginSave, Own, Goto, TypeInv, TypeOK
  <2>4. pc'[w] = "mkdir" /\ result'[w] = "none" /\ attempt'[w] = attempt[w] + 1
    BY <1>3 DEF BeginSave, Goto, TypeInv, TypeOK
  <2>5. HoldsOwn'
    BY <1>3, <2>3, <2>4 DEF BeginSave, HoldsOwn, disk
  <2>6. Readied' /\ Published' /\ Reading'
    BY <1>3, <2>3, <2>4 DEF BeginSave, Readied, Published, Reading, NeverReadsTorn, disk, reader
  <2>7. Unpublished'
    BY <1>3, <2>1, <2>2, <2>3, <2>4 DEF BeginSave, Unpublished, disk, TypeInv, TypeOK
  <2> QED BY <1>1, <2>5, <2>6, <2>7
<1>4. CASE CreateTmp(w)
  <2>1. \A x \in Writers : x # w /\ pc[x] # "idle" => tmp'[name[x]] = tmp[name[x]]
    BY <1>4 DEF CreateTmp, Exclusive, TypeInv, TypeOK
  <2>2. HoldsOwn'
    BY <1>4, <2>1 DEF CreateTmp, HoldsOwn, Own, Goto, TypeInv, TypeOK
  <2>3. Readied' /\ Published' /\ Reading'
    BY <1>4 DEF CreateTmp, Readied, Published, Reading, NeverReadsTorn, Own, Goto, reader,
                TypeInv, TypeOK
  <2>4. Unpublished'
    BY <1>4 DEF CreateTmp, Unpublished, Own, Goto, TypeInv, TypeOK
  <2> QED BY <1>1, <2>2, <2>3, <2>4
<1>5. CASE WriteTmp(w)
  <2>1. Own(w) \in Inodes
    BY <1>5, OwnIsFresh DEF WriteTmp
  <2>2. size' \in [Inodes -> Sizes]
    BY <1>1 DEF TypeInv, TypeOK
  <2>3. \A i \in Inodes : size[i] = "whole" => size'[i] = "whole"
    BY <1>5, <2>1 DEF WriteTmp, TypeInv, TypeOK
  <2>4. pc'[w] = "sync" => size'[Own(w)] = "whole"
    BY <1>5, <2>1 DEF WriteTmp, Goto, TypeInv, TypeOK
  <2>5. pc'[w] \in {"write", "sync"} /\ \A x \in Writers : x # w => pc'[x] = pc[x]
    BY <1>5 DEF WriteTmp, Goto, TypeInv, TypeOK
  <2>6. Readied'
    <3> SUFFICES ASSUME NEW x \in Writers
                 PROVE /\ pc'[x] = "sync" => size'[Own(x)] = "whole"
                       /\ pc'[x] = "rename" => size'[Own(x)] = "whole" /\ synced[Own(x)]
      BY <1>5 DEF WriteTmp, Readied, Own
    <3>1. CASE x = w   BY <3>1, <2>4, <2>5
    <3>2. CASE x # w
      <4>1. pc[x] # "idle" => Own(x) \in Inodes
        BY OwnIsFresh
      <4> QED BY <3>2, <4>1, <2>3, <2>5 DEF Readied
    <3> QED BY <3>1, <3>2
  <2>7. HoldsOwn'
    BY <1>5, <2>5 DEF WriteTmp, HoldsOwn, Own
  <2>8. Published' /\ Reading'
    BY <1>5, <2>3 DEF WriteTmp, Published, Reading, NeverReadsTorn, reader, TypeInv, TypeOK
  <2>9. Unpublished'
    BY <1>5, <2>5 DEF WriteTmp, Unpublished, Own
  <2> QED BY <1>1, <2>6, <2>7, <2>8, <2>9
<1>6. CASE SyncTmp(w)
  <2>1. Own(w) \in Inodes
    BY <1>6, OwnIsFresh DEF SyncTmp
  <2>2. Readied'
    BY <1>6, <2>1 DEF SyncTmp, Readied, Own, Goto, TypeInv, TypeOK
  <2>3. HoldsOwn'
    BY <1>6 DEF SyncTmp, HoldsOwn, Own, Goto, TypeInv, TypeOK
  <2>4. Published' /\ Reading'
    BY <1>6, <2>1 DEF SyncTmp, Published, Reading, NeverReadsTorn, reader, TypeInv, TypeOK
  <2>5. Unpublished'
    BY <1>6 DEF SyncTmp, Unpublished, Own, Goto, TypeInv, TypeOK
  <2> QED BY <1>1, <2>2, <2>3, <2>4, <2>5
<1>7. CASE RenameTmp(w)
  <2>1. \A x \in Writers : x # w /\ pc[x] # "idle" => tmp'[name[x]] = tmp[name[x]]
    BY <1>7 DEF RenameTmp, Exclusive, TypeInv, TypeOK
  <2>2. vault' = Own(w) /\ Own(w) \in Inodes
    BY <1>7, OwnIsFresh DEF RenameTmp, HoldsOwn
  <2>3. HoldsOwn'
    BY <1>7, <2>1 DEF RenameTmp, HoldsOwn, Own, Goto, TypeInv, TypeOK
  <2>4. Published'
    BY <1>7, <2>2 DEF RenameTmp, Published, Readied
  <2>5. Readied' /\ Reading'
    BY <1>7 DEF RenameTmp, Readied, Reading, NeverReadsTorn, Own, Goto, reader, TypeInv, TypeOK
  <2>6. Unpublished'
    BY <1>7, <2>2, OwnDistinct DEF RenameTmp, Unpublished, Own, Goto, TypeInv, TypeOK
  <2> QED BY <1>1, <2>3, <2>4, <2>5, <2>6
<1>8. CASE DiscardTmp(w)
  <2>0. \A x \in Writers : x # w /\ pc[x] # "idle" => tmp'[name[x]] = tmp[name[x]]
    BY <1>8 DEF DiscardTmp, Exclusive, TypeInv, TypeOK
  <2>1. HoldsOwn'
    BY <1>8, <2>0 DEF DiscardTmp, HoldsOwn, Own, Goto, Return, TypeInv, TypeOK
  <2>2. Readied' /\ Published' /\ Reading'
    BY <1>8 DEF DiscardTmp, Readied, Published, Reading, NeverReadsTorn, Own, Goto, Return,
                reader, TypeInv, TypeOK
  <2>3. Unpublished'
    BY <1>8 DEF DiscardTmp, Unpublished, Own, Goto, Return, TypeInv, TypeOK
  <2> QED BY <1>1, <2>1, <2>2, <2>3
<1>9. CASE FlushDir(w)
  <2>1. survivors' \subseteq survivors /\ vault \in survivors'
    BY <1>9 DEF FlushDir, Published
  <2>2. HoldsOwn'
    BY <1>9 DEF FlushDir, HoldsOwn, Own, Goto, Return, TypeInv, TypeOK
  <2>3. Readied' /\ Published' /\ Reading'
    BY <1>9, <2>1 DEF FlushDir, Readied, Published, Reading, NeverReadsTorn, Own, Goto, Return,
                reader, TypeInv, TypeOK
  <2>4. Unpublished'
    BY <1>9, <2>1 DEF FlushDir, Unpublished, Own, Goto, Return, TypeInv, TypeOK
  <2> QED BY <1>1, <2>2, <2>3, <2>4
<1> QED BY <1>2, <1>3, <1>4, <1>5, <1>6, <1>7, <1>8, <1>9 DEF Save

\* Readers only look, and look only at published inodes.
LEMMA SafeRead ==
    ASSUME SafeInv, NEW r \in Readers, Read(r)
    PROVE  SafeInv'
<1> USE DEF SafeInv
<1>1. TypeInv'
  BY TypeNext DEF Next
<1>2. UNCHANGED <<disk, writer>>
  BY DEF Read, CheckVault, OpenVault, FinishRead
<1>3. Reading'
  BY <1>2 DEF Read, CheckVault, OpenVault, FinishRead, Reading, NeverReadsTorn, Published,
              disk, TypeInv, TypeOK
<1>4. (HoldsOwn /\ Readied /\ Published /\ Unpublished)'
  BY <1>2 DEF HoldsOwn, Readied, Published, Unpublished, Own, disk, writer
<1> QED BY <1>1, <1>3, <1>4

\* Power loss cuts only inodes that were not synced, and kills every save.
LEMMA SafePowerLoss ==
    ASSUME SafeInv, PowerLoss
    PROVE  SafeInv'
<1> USE DEF SafeInv
<1>1. TypeInv'
  BY TypeNext DEF Next
<1>2. HoldsOwn' /\ Readied' /\ Reading'
  BY DEF PowerLoss, HoldsOwn, Readied, Reading, NeverReadsTorn
<1>3. Published'
  BY DEF PowerLoss, Published, Leftovers, TypeInv, TypeOK
<1>4. Unpublished'
  BY DEF PowerLoss, Unpublished, Own, Published
<1> QED BY <1>1, <1>2, <1>3, <1>4

\* Every step keeps the strengthened invariant.
LEMMA SafeNext == Exclusive /\ SafeInv /\ [Next]_vars => SafeInv'
<1> SUFFICES ASSUME Exclusive, SafeInv, [Next]_vars PROVE SafeInv'
  OBVIOUS
<1>1. CASE DeleteVault
  <2>1. TypeInv'
    BY <1>1, TypeNext DEF SafeInv, Next
  <2>2. (HoldsOwn /\ Readied /\ Published /\ Reading)'
    BY <1>1 DEF SafeInv, DeleteVault, HoldsOwn, Readied, Published, Reading,
                NeverReadsTorn, Own, writer, reader
  <2>3. \A w \in Writers : pc[w] # "idle" \/ result[w] = "err" => Own(w) # NoFile
    BY OwnIsFresh, ConstantsAssumption DEF SafeInv
  <2>4. \A w \in Writers : \A k \in 1 .. MaxAttempts : <<w, k>> # NoFile
    BY ConstantsAssumption DEF Inodes, FreshNames
  <2>5. Unpublished'
    BY <1>1, <2>3, <2>4 DEF SafeInv, DeleteVault, Unpublished, Own, writer
  <2> QED BY <2>1, <2>2, <2>5 DEF SafeInv
<1>2. CASE UNCHANGED vars
  BY <1>2 DEF SafeInv, TypeInv, TypeOK, Numbered, FullyWritten, HoldsOwn, Readied, Published,
              Reading, NeverReadsTorn, Unpublished, Own, vars, disk, writer, reader
<1> QED BY <1>1, <1>2, SafeSave, SafeRead, SafePowerLoss DEF Next

\* While no two running saves share a name: the vault is never a truncated
\* file, not even after a power loss at any instant; no reader gets a torn
\* image; and a save that answered Err is not the vault and never becomes it.
THEOREM StorageSafe ==
    Spec /\ []Exclusive => [](VaultIsWhole /\ NeverReadsTorn /\ FailedSaveInvisible)
<1>1. SafeInv => VaultIsWhole /\ NeverReadsTorn /\ FailedSaveInvisible
  BY DEF SafeInv, Published, Reading, Unpublished, VaultIsWhole, FailedSaveInvisible
<1>2. Exclusive /\ SafeInv /\ [Next]_vars => SafeInv'
  BY SafeNext
<1> QED BY <1>1, <1>2, SafeInit, PTL DEF Spec

\* Names are not shared while at most one writer's draws fail: a drawn name
\* is sixteen random bytes, taken as distinct, and is never the fallback one
\* (storage.rs:88-97).
THEOREM OneFallbackExclusive ==
    ASSUME \A w, x \in FallsBack : w = x
    PROVE  Spec => []Exclusive
<1> DEFINE OwnNames ==
             \A w \in Writers :
                 pc[w] # "idle" => name[w] = Own(w) \/ (name[w] = ZeroName /\ w \in FallsBack)
           Inv == TypeInv /\ OwnNames
<1>1. Init => Inv
  BY TypeInit DEF Init
<1>2. Inv /\ [Next]_vars => Inv'
  <2> SUFFICES ASSUME TypeInv, OwnNames, [Next]_vars PROVE OwnNames'
    BY TypeNext
  <2>1. ASSUME NEW w \in Writers, Save(w) PROVE OwnNames'
    <3>1. CASE BeginSave(w)
      BY <3>1 DEF BeginSave, TempPath, Own, Goto, TypeInv, TypeOK
    <3>2. ASSUME ~BeginSave(w)
          PROVE  /\ UNCHANGED <<name, attempt>>
                 /\ \A x \in Writers : pc'[x] # "idle" => pc[x] # "idle"
      BY <2>1, <3>2 DEF Save, NoDirectory, HaveDirectory, CreateTmp, WriteTmp, SyncTmp, RenameTmp,
         StepFails, DiscardTmp, FlushDir, Kill, Goto, Return, TypeInv, TypeOK
    <3> QED BY <3>1, <3>2 DEF Own
  <2>2. ASSUME NEW r \in Readers, Read(r) PROVE OwnNames'
    BY <2>2 DEF Read, CheckVault, OpenVault, FinishRead, writer, Own
  <2>3. CASE DeleteVault
    BY <2>3 DEF DeleteVault, writer, Own
  <2>4. CASE PowerLoss
    BY <2>4 DEF PowerLoss
  <2>5. CASE UNCHANGED vars
    BY <2>5 DEF vars, writer, Own
  <2> QED BY <2>1, <2>2, <2>3, <2>4, <2>5 DEF Next
<1>3. Inv => Exclusive
  <2> SUFFICES ASSUME Inv, NEW w \in Writers, NEW x \in Writers,
                      w # x, pc[w] # "idle", pc[x] # "idle"
               PROVE  name[w] # name[x]
    BY DEF Exclusive
  <2>1. Own(w) # Own(x)
    BY OwnDistinct
  <2>2. Own(w) # ZeroName /\ Own(x) # ZeroName
    BY OwnIsFresh, ConstantsAssumption
  <2> QED BY <2>1, <2>2
<1> QED BY <1>1, <1>2, <1>3, PTL DEF Spec

\* So any number of writers of which at most one falls back is safe, with
\* whatever its dead saves left behind: a fallback name that is still taken
\* makes create_new fail (storage.rs:103), and the save cleans up and answers
\* Err.  This holds of drawn names, and of a lone writer.
THEOREM OneFallbackSafe ==
    ASSUME \A w, x \in FallsBack : w = x
    PROVE  Spec => [](VaultIsWhole /\ NeverReadsTorn /\ FailedSaveInvisible)
BY OneFallbackExclusive, StorageSafe, PTL

--------------------------------------------------------------------------
(* Litter needs no assumption on the names: the save that made a file      *)
(* still runs, or recorded in orphans that it left the file behind.        *)

\* A step of a save keeps every temporary file accounted for.
LEMMA LitterSave ==
    ASSUME TypeInv, NoLitter, NEW w \in Writers, Save(w)
    PROVE  NoLitter'
<1> USE DEF NoLitter, Own, LeftBehind, TypeInv, TypeOK, Goto, Return, disk
<1>1. CASE BeginSave(w)      BY <1>1 DEF BeginSave
<1>2. CASE NoDirectory(w)    BY <1>2 DEF NoDirectory
<1>3. CASE HaveDirectory(w)  BY <1>3 DEF HaveDirectory
<1>4. CASE CreateTmp(w)      BY <1>4 DEF CreateTmp
<1>5. CASE WriteTmp(w)       BY <1>5 DEF WriteTmp
<1>6. CASE SyncTmp(w)        BY <1>6 DEF SyncTmp
<1>7. CASE RenameTmp(w)      BY <1>7 DEF RenameTmp
<1>8. CASE StepFails(w)      BY <1>8 DEF StepFails
<1>9. CASE DiscardTmp(w)     BY <1>9 DEF DiscardTmp
<1>10. CASE FlushDir(w)      BY <1>10 DEF FlushDir
<1>11. CASE Kill(w)          BY <1>11 DEF Kill
<1> QED BY <1>1, <1>2, <1>3, <1>4, <1>5, <1>6, <1>7, <1>8, <1>9, <1>10, <1>11 DEF Save

\* A failing save cleans up: every temporary file belongs to the running save
\* that created it, unless that save died, lost power or could not remove it
\* (storage.rs:46-63).
THEOREM SavesCleanUp == Spec => []NoLitter
<1>1. Init => TypeInv /\ NoLitter
  BY TypeInit DEF Init, NoLitter
<1>2. TypeInv /\ NoLitter /\ [Next]_vars => (TypeInv /\ NoLitter)'
  <2> SUFFICES ASSUME TypeInv, NoLitter, [Next]_vars PROVE NoLitter'
    BY TypeNext
  <2>1. ASSUME NEW r \in Readers, Read(r) PROVE NoLitter'
    BY <2>1 DEF Read, CheckVault, OpenVault, FinishRead, NoLitter, Own, disk, writer
  <2>2. CASE DeleteVault
    BY <2>2 DEF DeleteVault, NoLitter, Own, writer
  <2>3. CASE PowerLoss
    BY <2>3 DEF PowerLoss, NoLitter
  <2>4. CASE UNCHANGED vars
    BY <2>4 DEF vars, disk, writer, NoLitter, Own
  <2> QED BY LitterSave, <2>1, <2>2, <2>3, <2>4 DEF Next
<1> QED BY <1>1, <1>2, PTL DEF Spec

--------------------------------------------------------------------------
(* Nor does the survival of an established vault.  A flush may settle on   *)
(* what the path names now only because that is itself a survivor.         *)

Settled == vault \in survivors

\* Once a vault has reached the disk only delete_vault lets a power loss leave
\* none: no save, however it fails or is killed, passes through a state
\* without a vault (storage.rs:46-66).
THEOREM VaultStaysEstablished == Spec => EstablishedVaultSurvives
<1>1. Init => Settled
  BY DEF Init, Settled
<1>2. Settled /\ [Next]_vars =>
         Settled' /\ (NoFile \notin survivors /\ NoFile \in survivors' => DeleteVault)
  <2> SUFFICES ASSUME Settled, [Next]_vars
               PROVE  Settled' /\ (NoFile \notin survivors /\ NoFile \in survivors' => DeleteVault)
    OBVIOUS
  <2> USE DEF Settled
  <2>1. ASSUME NEW w \in Writers, Save(w)
        PROVE  Settled' /\ (NoFile \notin survivors => NoFile \notin survivors')
    <3>1. CASE RenameTmp(w)
      BY <3>1 DEF RenameTmp
    <3>2. CASE FlushDir(w)
      BY <3>2 DEF FlushDir
    <3>3. CASE UNCHANGED <<vault, survivors>>
      BY <3>3
    <3> QED
      BY <2>1, <3>1, <3>2, <3>3 DEF Save, BeginSave, NoDirectory, HaveDirectory, CreateTmp,
         WriteTmp, SyncTmp, StepFails, DiscardTmp, Kill, disk
  <2>2. ASSUME NEW r \in Readers, Read(r) PROVE UNCHANGED <<vault, survivors>>
    BY <2>2 DEF Read, CheckVault, OpenVault, FinishRead, disk
  <2>3. CASE DeleteVault
    BY <2>3 DEF DeleteVault
  <2>4. CASE PowerLoss
    BY <2>4 DEF PowerLoss
  <2>5. CASE UNCHANGED vars
    BY <2>5 DEF vars, disk
  <2> QED BY <2>1, <2>2, <2>3, <2>4, <2>5 DEF Next
<1> QED BY <1>1, <1>2, PTL DEF Spec, EstablishedVaultSurvives

--------------------------------------------------------------------------
(* Refinement.  In a state of SafeInv no torn image is in sight, so the    *)
(* register's value is the vault entry itself; each system call is then    *)
(* one step of the register or none.                                       *)

Survives == ImageOf(vault) = vault /\ {ImageOf(v) : v \in survivors} = survivors

\* What a reader sees, now or after a power loss, is what the path names.
LEMMA NothingTorn == SafeInv => Survives
BY DEF SafeInv, Published, ImageOf, Survives

\* A step of a save is one step of the register, or none.
LEMMA RegisterSave ==
    ASSUME SafeInv, SafeInv', NEW w \in Writers, Save(w)
    PROVE  Register!Next \/ UNCHANGED Register!vars
<1>1. Survives /\ Survives' /\ TypeInv /\ TypeInv'
  <2>1. Survives /\ Survives'
    BY NothingTorn, PTL
  <2> QED BY <2>1 DEF SafeInv
<1> USE <1>1 DEF TypeInv, TypeOK, Survives, Goto, Return, disk, writer, reader
<1>2. CASE BeginSave(w)
  <2> DEFINE v == <<w, attempt[w] + 1>>
  <2>1. v \in Inodes /\ attempt[w] + 1 # 0
    BY <1>2, ConstantsAssumption DEF BeginSave, Inodes, FreshNames
  <2>2. Phase[w] = "idle" /\ Phase' = [Phase EXCEPT ![w] = "asked"]
    BY <1>2 DEF BeginSave, Phase
  <2>3. Request' = [Request EXCEPT ![w] = v]
    BY <1>2, <2>1 DEF BeginSave, Request, Own
  <2>4. Register!Ask(w, v)
    BY <1>2, <2>2, <2>3 DEF BeginSave, Register!Ask
  <2> QED BY <2>1, <2>4 DEF Register!Next
<1>3. CASE NoDirectory(w)
  <2>1. Register!Refuse(w)
    BY <1>3 DEF NoDirectory, Register!Refuse, Phase, Request, Own
  <2> QED BY <2>1 DEF Register!Next
<1>4. CASE HaveDirectory(w) \/ CreateTmp(w) \/ WriteTmp(w) \/ SyncTmp(w) \/ StepFails(w)
  <2>1. Phase' = Phase
    BY <1>4 DEF HaveDirectory, CreateTmp, WriteTmp, SyncTmp, StepFails, Phase
  <2>2. UNCHANGED <<vault, survivors, attempt, result>>
    BY <1>4 DEF HaveDirectory, CreateTmp, WriteTmp, SyncTmp, StepFails
  <2> QED BY <2>1, <2>2 DEF Register!vars, Request, Own
<1>5. CASE RenameTmp(w)
  <2>1. attempt[w] # 0
    BY <1>5 DEF RenameTmp, Numbered
  <2>2. vault' = Own(w) /\ Request[w] = Own(w)
    BY <1>5, <2>1 DEF RenameTmp, SafeInv, HoldsOwn, Request
  <2>3. Register!Commit(w)
    BY <1>5, <2>2 DEF RenameTmp, Register!Commit, Phase, Request, Own
  <2> QED BY <2>3 DEF Register!Next
<1>6. CASE DiscardTmp(w)
  <2>1. Register!Refuse(w)
    BY <1>6 DEF DiscardTmp, Register!Refuse, Phase, Request, Own
  <2> QED BY <2>1 DEF Register!Next
<1>7. CASE FlushDir(w)
  <2>1. Register!Acknowledge(w)
    BY <1>7 DEF FlushDir, Register!Acknowledge, Phase, Request, Own
  <2> QED BY <2>1 DEF Register!Next
<1>8. CASE Kill(w)
  <2>1. Register!Abandon(w)
    BY <1>8 DEF Kill, Register!Abandon, Phase, Request, Own
  <2> QED BY <2>1 DEF Register!Next
<1> QED BY <1>2, <1>3, <1>4, <1>5, <1>6, <1>7, <1>8 DEF Save

\* While no two running saves share a name, write_vault_atomic implements the
\* atomic register: a save takes effect at its rename and nowhere else, Ok
\* comes only after it, and power loss returns to a vault the path named since
\* the last flush.
THEOREM StorageImplementsRegister == Spec /\ []Exclusive => ImplementsRegister
<1>1. Init => Register!Init
  BY ConstantsAssumption DEF Init, Register!Init, ImageOf, Phase, Request, Inodes
<1>2. SafeInv /\ SafeInv' /\ [Next]_vars => [Register!Next]_(Register!vars)
  <2> SUFFICES ASSUME SafeInv, SafeInv', [Next]_vars
               PROVE  Register!Next \/ UNCHANGED Register!vars
    OBVIOUS
  <2>1. Survives /\ Survives'
    BY NothingTorn, PTL
  <2>2. ASSUME NEW w \in Writers, Save(w) PROVE Register!Next \/ UNCHANGED Register!vars
    BY <2>2, RegisterSave
  <2>3. ASSUME NEW r \in Readers, Read(r) PROVE UNCHANGED Register!vars
    BY <2>3 DEF Read, CheckVault, OpenVault, FinishRead, Register!vars, ImageOf, Phase, Request,
                Own, disk, writer
  <2>4. CASE DeleteVault
    <3>1. Register!Remove
      BY <2>1, <2>4 DEF DeleteVault, Register!Remove, Survives, Phase, Request, Own, writer
    <3> QED BY <3>1 DEF Register!Next
  <2>5. CASE PowerLoss
    <3>1. Register!LosePower
      BY <2>1, <2>5 DEF PowerLoss, Register!LosePower, Survives, Phase, Request, Own
    <3> QED BY <3>1 DEF Register!Next
  <2>6. CASE UNCHANGED vars
    BY <2>6 DEF vars, disk, writer, Register!vars, ImageOf, Phase, Request, Own
  <2> QED BY <2>2, <2>3, <2>4, <2>5, <2>6 DEF Next
<1>3. Exclusive /\ SafeInv /\ [Next]_vars => SafeInv'
  BY SafeNext
<1> QED BY <1>1, <1>2, <1>3, SafeInit, PTL DEF Spec, ImplementsRegister, Register!Spec

\* So it does for drawn names, and when no writer but one may fall back.
THEOREM WriterImplementsRegister ==
    ASSUME \A w, x \in FallsBack : w = x
    PROVE  Spec => ImplementsRegister
BY OneFallbackExclusive, StorageImplementsRegister, PTL
==========================================================================
