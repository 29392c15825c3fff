---------------------------- MODULE AppProofs ----------------------------
(*************************************************************************)
(* Theorems about App for any entries, passwords, limits, timeouts and   *)
(* failing calls.                                                        *)
(*************************************************************************)
EXTENDS App, FiniteSetTheorems, TLAPS

(* State, memory and file.  StateMatchesFile, SavedFileFits and         *)
(* UnsavedOnlyAfterFailure are not inductive alone: what a save writes     *)
(* fits because memory always fits, and it goes back under the password    *)
(* that opened the file because the key is that file's.                    *)
VaultTypes ==
    /\ st \in {"NoVault", "Locked", "Unlocked"}
    /\ mem \in Vaults
    /\ key \in (Passwords \ Short) \cup {NoKey}
    /\ disk \in Files \cup {NoFile, Damaged}
    /\ dirty \in BOOLEAN

OpenVault ==
    st = "Unlocked" =>
        /\ key \in Passwords \ Short
        /\ disk \in Files /\ disk.pw = key
        /\ Fits(mem)

VaultInv ==
    /\ VaultTypes /\ OpenVault
    /\ StateMatchesFile /\ SavedFileFits /\ UnsavedOnlyAfterFailure

--------------------------------------------------------------------------
(* How many entries a vault holds after each operation *)

\* Only finitely many entries are present, and an empty vault is in bounds.
LEMMA PresentFinite ==
    ASSUME NEW m PROVE IsFiniteSet(Present(m)) /\ Cardinality(Present(m)) \in Nat
<1>1. Present(m) \subseteq Ids  BY DEF Present
<1>2. IsFiniteSet(Present(m))  BY <1>1, FS_Subset, AppAssumption
<1> QED BY <1>2, FS_CardinalityType

\* lock and create leave an empty list, within every limit.
LEMMA EmptyFits == NoEntries \in Vaults /\ Fits(NoEntries)
<1>1. Present(NoEntries) = {}  BY DEF Present, NoEntries
<1>2. Cardinality({}) = 0  BY FS_EmptySet
<1> QED BY <1>1, <1>2, AppAssumption DEF Fits, NoEntries, Vaults

\* add_entry's guard is strict, so one more entry still fits.
LEMMA AddFits ==
    ASSUME mem \in Vaults, NEW i \in Ids, NEW c \in Secrets,
           Cardinality(Present(mem)) < MaxEntries
    PROVE  [mem EXCEPT ![i] = c] \in Vaults /\ Fits([mem EXCEPT ![i] = c])
<1> DEFINE m == [mem EXCEPT ![i] = c]
<1>1. m \in Vaults  BY DEF Vaults
<1>2. Present(m) = Present(mem) \cup {i}  BY AppAssumption DEF Present, Vaults
<1>3. /\ IsFiniteSet(Present(mem))
      /\ Cardinality(Present(mem)) \in Nat
      /\ Cardinality(Present(m)) \in Nat
  BY PresentFinite
<1>4. \/ Cardinality(Present(m)) = Cardinality(Present(mem))
      \/ Cardinality(Present(m)) = Cardinality(Present(mem)) + 1
  BY <1>2, <1>3, FS_AddElement
<1>5. Cardinality(Present(m)) <= MaxEntries
  BY <1>3, <1>4, AppAssumption
<1> QED BY <1>1, <1>5 DEF Fits

\* Changing or removing an entry adds none.
LEMMA ChangeFits ==
    ASSUME mem \in Vaults, Fits(mem), NEW i \in Ids, mem[i] # Absent,
           NEW c \in Secrets \cup {Absent}
    PROVE  [mem EXCEPT ![i] = c] \in Vaults /\ Fits([mem EXCEPT ![i] = c])
<1> DEFINE m == [mem EXCEPT ![i] = c]
<1>1. m \in Vaults  BY DEF Vaults
<1>2. Present(m) \subseteq Present(mem)  BY DEF Present, Vaults
<1>3. Cardinality(Present(m)) <= Cardinality(Present(mem))
  BY <1>2, PresentFinite, FS_Subset
<1>4. /\ Cardinality(Present(mem)) \in Nat
      /\ Cardinality(Present(m)) \in Nat
  BY PresentFinite
<1>5. Cardinality(Present(m)) <= MaxEntries
  BY <1>3, <1>4, AppAssumption DEF Fits
<1> QED BY <1>1, <1>5 DEF Fits

--------------------------------------------------------------------------

\* The invariant reads the vault's variables only.
LEMMA VaultStays == ASSUME VaultInv, UNCHANGED vault PROVE VaultInv'
BY DEF vault, VaultInv, VaultTypes, OpenVault, StateMatchesFile, SavedFileFits,
       UnsavedOnlyAfterFailure, Fits, Present

\* Locking forgets the entries and keeps the file.
LEMMA VaultDropped ==
    ASSUME VaultInv, st = "Unlocked", DropVault PROVE VaultInv'
BY EmptyFits, AppAssumption
   DEF DropVault, VaultInv, VaultTypes, OpenVault, StateMatchesFile, SavedFileFits,
       UnsavedOnlyAfterFailure, Fits, Present

\* A save of what fits, whether it succeeds or fails.
LEMMA VaultSaved ==
    ASSUME VaultInv, st = "Unlocked", NEW m \in Vaults, Fits(m), Mutate(m)
    PROVE  VaultInv'
<1> USE DEF VaultInv, VaultTypes, OpenVault, Mutate
<1>1. CASE disk' = [pw |-> key, data |-> m] /\ dirty' = FALSE
  <2>1. disk' \in Files /\ disk'.pw = key /\ disk'.data = m
    BY <1>1 DEF Files
  <2>2. disk' # NoFile
    BY <2>1, AppAssumption
  <2> QED BY <1>1, <2>1, <2>2
          DEF StateMatchesFile, SavedFileFits, UnsavedOnlyAfterFailure, Fits, Present
<1>2. CASE dirty' = TRUE /\ UNCHANGED disk
  BY <1>2 DEF StateMatchesFile, SavedFileFits, UnsavedOnlyAfterFailure, Fits, Present
<1> QED BY <1>1, <1>2 DEF Persist

\* App::new on whatever file there is.
LEMMA VaultInit == Init => VaultInv
<1> SUFFICES ASSUME Init PROVE VaultInv
  OBVIOUS
<1>1. VaultTypes
  BY EmptyFits DEF Init, VaultTypes, StateFor
<1> QED
  BY <1>1, AppAssumption
  DEF Init, VaultInv, OpenVault, StateFor, StateMatchesFile, SavedFileFits,
      UnsavedOnlyAfterFailure

\* create_vault, unlock and lock.
LEMMA VaultLifecycle == ASSUME VaultInv, Lifecycle PROVE VaultInv'
<1>1. ASSUME NEW pw \in Passwords, CreateVault(pw) PROVE VaultInv'
  <2>1. CASE UNCHANGED vault  BY <2>1, VaultStays
  <2>2. CASE /\ st' = "Unlocked" /\ mem' = NoEntries /\ key' = pw
             /\ disk' = [pw |-> pw, data |-> NoEntries] /\ dirty' = FALSE
    <3>1. pw \in Passwords \ Short  BY <1>1 DEF CreateVault
    <3>2. disk' \in Files /\ disk'.pw = pw /\ disk'.data = NoEntries
      BY <2>2, <3>1, EmptyFits DEF Files
    <3>3. disk' # NoFile  BY <3>2, AppAssumption
    <3> QED BY <2>2, <3>1, <3>2, <3>3, EmptyFits
            DEF VaultInv, VaultTypes, OpenVault, StateMatchesFile, SavedFileFits,
                UnsavedOnlyAfterFailure, Fits, Present
  <2> QED BY <1>1, <2>1, <2>2 DEF CreateVault
<1>2. ASSUME NEW pw \in Passwords, Unlock(pw) PROVE VaultInv'
  <2>1. /\ disk \in Files /\ disk.pw = pw /\ Fits(disk.data)
        /\ st' = "Unlocked" /\ mem' = disk.data /\ key' = pw /\ dirty' = FALSE /\ disk' = disk
    BY <1>2 DEF Unlock, Opens
  <2>2. /\ disk.pw \in Passwords \ Short /\ disk.data \in Vaults
        /\ disk = [pw |-> disk.pw, data |-> disk.data]
    BY <2>1 DEF Files
  <2>3. disk # NoFile  BY <2>1, AppAssumption
  <2> QED BY <2>1, <2>2, <2>3
          DEF VaultInv, VaultTypes, OpenVault, StateMatchesFile, SavedFileFits,
              UnsavedOnlyAfterFailure, Fits, Present
<1>3. CASE Lock
  <2>1. CASE st = "Unlocked"  BY <1>3, <2>1, VaultDropped DEF Lock
  <2>2. CASE st # "Unlocked"  BY <1>3, <2>2, VaultStays DEF Lock
  <2> QED BY <2>1, <2>2
<1>4. ASSUME NEW pw \in Passwords, NEW confirm \in Passwords, CreateRejected(pw, confirm)
      PROVE VaultInv'
  BY <1>4, VaultStays DEF CreateRejected
<1>5. ASSUME NEW pw \in Passwords, UnlockFails(pw) PROVE VaultInv'
  BY <1>5, VaultStays DEF UnlockFails
<1>6. CASE UnlockElsewhere  BY <1>6, VaultStays DEF UnlockElsewhere
<1> QED BY <1>1, <1>2, <1>3, <1>4, <1>5, <1>6 DEF Lifecycle

\* The entry operations: each saves something that fits.
LEMMA VaultEntries == ASSUME VaultInv, Entries PROVE VaultInv'
<1>0. mem \in Vaults /\ (st = "Unlocked" => Fits(mem))
  BY DEF VaultInv, VaultTypes, OpenVault
<1>1. CASE SaveVault
  BY <1>0, <1>1, VaultSaved DEF SaveVault
<1>2. ASSUME NEW i \in Ids, NEW c \in Secrets, AddEntry(i, c) PROVE VaultInv'
  BY <1>0, <1>2, AddFits, VaultSaved DEF AddEntry
<1>3. ASSUME NEW i \in Ids, NEW c \in Secrets, UpdateEntry(i, c) PROVE VaultInv'
  BY <1>0, <1>3, ChangeFits, VaultSaved DEF UpdateEntry
<1>4. ASSUME NEW i \in Ids, RemoveEntry(i) PROVE VaultInv'
  BY <1>0, <1>4, ChangeFits, VaultSaved DEF RemoveEntry
<1>5. ASSUME NEW i \in Ids, NothingToChange(i) PROVE VaultInv'
  BY <1>5, VaultStays DEF NothingToChange, Untouched
<1>6. ASSUME NEW i \in Ids, CopyField(i) PROVE VaultInv'
  BY <1>6, VaultStays DEF CopyField
<1>7. ASSUME NEW i \in Ids, CopyFieldFails(i) PROVE VaultInv'
  BY <1>7, VaultStays DEF CopyFieldFails
<1>8. CASE Refused  BY <1>8, VaultStays DEF Refused, Untouched
<1> QED BY <1>1, <1>2, <1>3, <1>4, <1>5, <1>6, <1>7, <1>8 DEF Entries

\* No step of App breaks the agreement of state, memory and file.
LEMMA VaultNext == VaultInv /\ [Next]_vars => VaultInv'
<1> SUFFICES ASSUME VaultInv, [Next]_vars PROVE VaultInv'
  OBVIOUS
<1>1. ASSUME NEW a \in BOOLEAN, BeginFrame(a) PROVE VaultInv'
  BY <1>1, VaultStays DEF BeginFrame
<1>2. CASE Poll  BY <1>2, VaultStays DEF Poll
<1>3. CASE AutoLock
  <2>1. CASE UNCHANGED vault  BY <2>1, VaultStays
  <2>2. CASE st = "Unlocked" /\ DropVault  BY <2>2, VaultDropped
  <2> QED BY <1>3, <2>1, <2>2 DEF AutoLock
<1>4. CASE NoOperation  BY <1>4, VaultStays DEF NoOperation
<1>5. CASE Lifecycle    BY <1>5, VaultLifecycle
<1>6. CASE Entries      BY <1>6, VaultEntries
<1>7. CASE Restart
  BY <1>7, EmptyFits, AppAssumption
  DEF Restart, StateFor, VaultInv, VaultTypes, OpenVault, StateMatchesFile, SavedFileFits,
      UnsavedOnlyAfterFailure, Fits, Present
<1>8. ASSUME NEW t \in Guard!Texts, OtherAppWrites(t) PROVE VaultInv'
  BY <1>8, VaultStays DEF OtherAppWrites
<1>9. CASE Tick  BY <1>9, VaultStays DEF Tick
<1>10. CASE UNCHANGED vars  BY <1>10, VaultStays DEF vars
<1> QED
  BY <1>1, <1>2, <1>3, <1>4, <1>5, <1>6, <1>7, <1>8, <1>9, <1>10 DEF Next

\* Memory and file differ only after a failed save; a saved file is within
\* what unlock accepts; the state says NoVault exactly without a file
\* (app.rs:156-295).
THEOREM VaultSafe ==
    Spec => [](UnsavedOnlyAfterFailure /\ SavedFileFits /\ StateMatchesFile)
<1>1. VaultInv => UnsavedOnlyAfterFailure /\ SavedFileFits /\ StateMatchesFile
  BY DEF VaultInv
<1> QED BY <1>1, VaultInit, VaultNext, PTL DEF Spec

\* A step that replaces a file starts from that file's own unlocked vault.
LEMMA OwnerStep ==
    VaultInv /\ [Next]_vars =>
        (disk # NoFile /\ disk' # disk =>
            /\ st = "Unlocked"
            /\ disk \in Files /\ disk' \in Files /\ disk'.pw = disk.pw)
<1> SUFFICES ASSUME VaultInv, [Next]_vars, disk # NoFile, disk' # disk
             PROVE  /\ st = "Unlocked"
                    /\ disk \in Files /\ disk' \in Files /\ disk'.pw = disk.pw
  OBVIOUS
<1>1. ASSUME st = "Unlocked", NEW m \in Vaults, Mutate(m)
      PROVE  disk \in Files /\ disk' \in Files /\ disk'.pw = disk.pw
  BY <1>1 DEF VaultInv, OpenVault, Mutate, Persist, Files
<1>2. CASE Entries
  <2>0. mem \in Vaults  BY DEF VaultInv, VaultTypes
  <2>1. CASE SaveVault  BY <1>1, <2>0, <2>1 DEF SaveVault
  <2>2. ASSUME NEW i \in Ids, NEW c \in Secrets, AddEntry(i, c) \/ UpdateEntry(i, c)
        PROVE  st = "Unlocked" /\ disk \in Files /\ disk' \in Files /\ disk'.pw = disk.pw
    <3>1. [mem EXCEPT ![i] = c] \in Vaults  BY <2>0 DEF Vaults
    <3> QED BY <1>1, <2>2, <3>1 DEF AddEntry, UpdateEntry
  <2>3. ASSUME NEW i \in Ids, RemoveEntry(i)
        PROVE  st = "Unlocked" /\ disk \in Files /\ disk' \in Files /\ disk'.pw = disk.pw
    <3>1. [mem EXCEPT ![i] = Absent] \in Vaults  BY <2>0 DEF Vaults
    <3> QED BY <1>1, <2>3, <3>1 DEF RemoveEntry
  <2> QED
    BY <1>2, <2>1, <2>2, <2>3
    DEF Entries, NothingToChange, Refused, Untouched, CopyField, CopyFieldFails, vault
<1>3. CASE Lifecycle
  BY <1>3 DEF Lifecycle, CreateRejected, CreateVault, Unlock, UnlockFails, UnlockElsewhere,
              Lock, DropVault, vault
<1>4. ASSUME NEW a \in BOOLEAN, BeginFrame(a) PROVE FALSE
  BY <1>4 DEF BeginFrame, vault
<1>5. ASSUME Poll \/ AutoLock \/ NoOperation \/ Restart \/ Tick PROVE FALSE
  BY <1>5 DEF Poll, AutoLock, DropVault, NoOperation, Restart, Tick, vault
<1>6. ASSUME NEW t \in Guard!Texts, OtherAppWrites(t) PROVE FALSE
  BY <1>6 DEF OtherAppWrites, vault
<1>7. ASSUME UNCHANGED vars PROVE FALSE
  BY <1>7 DEF vars, vault
<1> QED BY <1>2, <1>3, <1>4, <1>5, <1>6, <1>7 DEF Next

\* No operation of App overwrites a vault file but the saves of the vault that
\* was opened from it, under its own password (app.rs:156-179, 246-257).
THEOREM OwnerOnly == Spec => OnlyOwnerRewrites
BY OwnerStep, VaultInit, VaultNext, PTL DEF Spec, OnlyOwnerRewrites

--------------------------------------------------------------------------
(* Types.  The vault's part comes with VaultInv; the guard's part and the  *)
(* fields of the frame are kept step by step.                              *)

Frame ==
    /\ error \in {"none", "PasswordTooShort", "PasswordMismatch",
                  "VaultAlreadyExists", "VaultNotFound"}
    /\ lastActivity \in 0 .. MaxTime
    /\ frame \in {"idle", "polling", "locking", "ui"}
    /\ active \in BOOLEAN /\ framed \in BOOLEAN
    /\ lastInput \in 0 .. MaxTime

LEMMA TypeParts == TypeOK <=> VaultTypes /\ Frame /\ Guard!TypeOK
BY DEF TypeOK, VaultTypes, Frame

LEMMA PartsInit == Init => Frame /\ Guard!TypeOK
<1>1. 0 \in 0 .. MaxTime  BY AppAssumption
<1> QED BY <1>1 DEF Init, Frame, Guard!Init, Guard!TypeOK, Guard!Texts

\* Where neither the clipboard nor the clock moves, the guard keeps its types.
LEMMA GuardStays ==
    ASSUME Guard!TypeOK, UNCHANGED clipboard, UNCHANGED now PROVE Guard!TypeOK'
BY DEF clipboard, Guard!TypeOK, Guard!Texts

\* What a step does to the guard, it does in the guard's own types.
LEMMA GuardTypesNext ==
    ASSUME VaultInv, Frame, Guard!TypeOK, [Next]_vars PROVE Guard!TypeOK'
<1> USE DEF Guard!TypeOK, Guard!Texts
<1>1. ASSUME NEW a \in BOOLEAN, BeginFrame(a) PROVE Guard!TypeOK'
  BY <1>1 DEF BeginFrame, clipboard, Guard!PollDue, Guard!history
<1>2. CASE Poll
  BY <1>2 DEF Poll, Guard!TryClear, Guard!ReadSame, Guard!ReadOther, Guard!ReadFails,
              Guard!Clear, Guard!ClearFails, Guard!Finish, Guard!history
<1>3. CASE AutoLock \/ NoOperation
  BY <1>3, GuardStays DEF AutoLock, NoOperation
<1>4. CASE Lifecycle
  BY <1>4, GuardStays
  DEF Lifecycle, CreateRejected, CreateVault, Unlock, UnlockFails, UnlockElsewhere, Lock, Acting
<1>5. CASE Entries
  <2>1. ASSUME NEW i \in Ids, CopyField(i) PROVE Guard!TypeOK'
    <3>1. mem[i] \in Secrets
      BY <2>1 DEF CopyField, VaultInv, VaultTypes, Vaults
    <3>2. now + ClearAfter \in 0 .. MaxTime
      BY <2>1, AppAssumption DEF CopyField, Guard!Copy
    <3> QED BY <2>1, <3>1, <3>2 DEF CopyField, Guard!Copy
  <2>2. ASSUME NEW i \in Ids, CopyFieldFails(i) PROVE Guard!TypeOK'
    BY <2>2 DEF CopyFieldFails, Guard!CopyFails
  <2>3. CASE UNCHANGED clipboard /\ UNCHANGED now
    BY <2>3, GuardStays
  <2> QED
    BY <1>5, <2>1, <2>2, <2>3
    DEF Entries, SaveVault, AddEntry, UpdateEntry, RemoveEntry, NothingToChange, Refused,
        Untouched, Mutate, Acting
<1>6. CASE Restart  BY <1>6 DEF Restart
<1>7. ASSUME NEW t \in Guard!Texts, OtherAppWrites(t) PROVE Guard!TypeOK'
  BY <1>7 DEF OtherAppWrites, Guard!OtherAppWrites, Guard!guard
<1>8. CASE Tick
  <2>1. now + 1 \in 0 .. MaxTime  BY <1>8, AppAssumption DEF Tick, Guard!Tick
  <2> QED BY <1>8, <2>1 DEF Tick, clipboard, Guard!Tick
<1>9. CASE UNCHANGED vars  BY <1>9, GuardStays DEF vars
<1> QED
  BY <1>1, <1>2, <1>3, <1>4, <1>5, <1>6, <1>7, <1>8, <1>9 DEF Next

\* An operation of the user's ends the frame and may set the timer.
LEMMA FrameActing ==
    ASSUME Frame, Acting, now \in 0 .. MaxTime, lastActivity' \in {lastActivity, now},
           error' \in {error, "none", "PasswordTooShort", "PasswordMismatch",
                       "VaultAlreadyExists", "VaultNotFound"}
    PROVE  Frame'
BY DEF Acting, EndFrame, Frame

LEMMA FrameNext == ASSUME Frame, Guard!TypeOK, [Next]_vars PROVE Frame'
<1>0. now \in 0 .. MaxTime  BY DEF Guard!TypeOK
<1>1. ASSUME NEW a \in BOOLEAN, BeginFrame(a) PROVE Frame'
  BY <1>0, <1>1 DEF BeginFrame, Frame
<1>2. CASE Poll  BY <1>2 DEF Poll, Frame
<1>3. CASE AutoLock  BY <1>0, <1>3 DEF AutoLock, Frame
<1>4. CASE NoOperation  BY <1>4 DEF NoOperation, EndFrame, Frame
<1>5. CASE Lifecycle
  <2>1. ASSUME NEW pw \in Passwords, NEW confirm \in Passwords, CreateRejected(pw, confirm)
        PROVE  Frame'
    <3>1. error' \in {"PasswordTooShort", "PasswordMismatch", "VaultAlreadyExists"}
      BY <2>1 DEF CreateRejected
    <3> QED BY <1>0, <2>1, <3>1, FrameActing DEF CreateRejected
  <2>2. ASSUME NEW pw \in Passwords, CreateVault(pw) \/ Unlock(pw) \/ UnlockFails(pw)
        PROVE  Frame'
    BY <1>0, <2>2, FrameActing DEF CreateVault, Unlock, UnlockFails
  <2>3. CASE UnlockElsewhere  BY <1>0, <2>3, FrameActing DEF UnlockElsewhere
  <2>4. CASE Lock  BY <1>0, <2>4, FrameActing DEF Lock
  <2> QED BY <1>5, <2>1, <2>2, <2>3, <2>4 DEF Lifecycle
<1>6. CASE Entries
  <2>1. Acting /\ UNCHANGED <<error, lastActivity>>
    BY <1>6 DEF Entries, SaveVault, AddEntry, UpdateEntry, RemoveEntry, NothingToChange, Refused,
                Untouched, CopyField, CopyFieldFails, Mutate
  <2> QED BY <1>0, <2>1, FrameActing
<1>7. CASE Restart  BY <1>0, <1>7 DEF Restart, Frame
<1>8. ASSUME NEW t \in Guard!Texts, OtherAppWrites(t) PROVE Frame'
  BY <1>8 DEF OtherAppWrites, loop, Frame
<1>9. CASE Tick  BY <1>9 DEF Tick, Frame
<1>10. CASE UNCHANGED vars  BY <1>10 DEF vars, loop, Frame
<1> QED
  BY <1>1, <1>2, <1>3, <1>4, <1>5, <1>6, <1>7, <1>8, <1>9, <1>10 DEF Next

\* TypeOK is not inductive alone: what a copy puts on the clipboard comes from
\* memory, and what unlock puts in memory comes from the file.
TypesInv == VaultInv /\ Frame /\ Guard!TypeOK

\* App's fields, the guard's and the file's keep their types, for any number of
\* entries and passwords (app.rs:100-353).
THEOREM TypeCorrect == Spec => []TypeOK
<1>1. Init => TypesInv
  BY VaultInit, PartsInit DEF TypesInv
<1>2. TypesInv /\ [Next]_vars => TypesInv'
  BY VaultNext, GuardTypesNext, FrameNext DEF TypesInv
<1>3. TypesInv => TypeOK
  BY TypeParts DEF TypesInv, VaultInv
<1> QED BY <1>1, <1>2, <1>3, PTL DEF Spec

--------------------------------------------------------------------------
(* The two timers, with frames drawn in some ticks only.  In a tick that   *)
(* has had its frame both deadlines are still ahead; what ticks without a  *)
(* frame let pass, the next frame makes up for before it draws its screen. *)
TimeTypes ==
    /\ st \in {"NoVault", "Locked", "Unlocked"}
    /\ frame \in {"idle", "polling", "locking", "ui"}
    /\ now \in Nat /\ lastActivity \in Nat /\ lastInput \in Nat

InputInv ==
    /\ lastInput <= now
    /\ active => frame # "idle" /\ lastInput = now

TimerInv ==
    st = "Unlocked" =>
        /\ lastActivity <= lastInput
        /\ Looked => now < lastActivity + Timeout

TimeInv == TimeTypes /\ InputInv /\ TimerInv

\* The clock, and what the user does, start at zero.
LEMMA TimeInit == Init => TimeInv
BY AppAssumption DEF Init, TimeInv, TimeTypes, InputInv, TimerInv, Looked, StateFor, Guard!Init

\* An operation that leaves the timer alone, opens the vault or closes it.
LEMMA TimeActing ==
    ASSUME TimeInv, Acting,
           \/ UNCHANGED <<st, lastActivity>>
           \/ st' \in {"NoVault", "Locked", "Unlocked"} /\ lastActivity' = now
    PROVE  TimeInv'
BY AppAssumption DEF Acting, EndFrame, TimeInv, TimeTypes, InputInv, TimerInv, Looked

\* A frame compares the timer before its screen, and the clock only moves on
\* to a tick without a frame.
LEMMA TimeNext == TimeInv /\ [Next]_vars => TimeInv'
<1> SUFFICES ASSUME TimeInv, [Next]_vars PROVE TimeInv'
  OBVIOUS
<1> USE DEF TimeInv, TimeTypes, InputInv, TimerInv, Looked
<1>1. ASSUME NEW a \in BOOLEAN, BeginFrame(a) PROVE TimeInv'
  <2>1. now' = now  BY <1>1 DEF BeginFrame, Guard!PollDue
  <2> QED BY <1>1, <2>1 DEF BeginFrame, vault
<1>2. CASE Poll
  <2>1. now' = now
    BY <1>2 DEF Poll, Guard!TryClear, Guard!ReadSame, Guard!ReadOther, Guard!ReadFails,
                Guard!Clear, Guard!ClearFails
  <2> QED BY <1>2, <2>1 DEF Poll, vault
<1>3. CASE AutoLock
  BY <1>3, AppAssumption DEF AutoLock, Expired, DropVault, vault
<1>4. CASE NoOperation  BY <1>4 DEF NoOperation, EndFrame, vault
<1>5. CASE Lifecycle
  <2>1. Acting /\ (\/ UNCHANGED <<st, lastActivity>>
                   \/ st' \in {"NoVault", "Locked", "Unlocked"} /\ lastActivity' = now)
    BY <1>5 DEF Lifecycle, CreateRejected, CreateVault, Unlock, UnlockFails, UnlockElsewhere,
                Lock, DropVault, vault
  <2> QED BY <2>1, TimeActing
<1>6. CASE Entries
  <2>1. Acting /\ UNCHANGED <<st, lastActivity>>
    BY <1>6 DEF Entries, SaveVault, AddEntry, UpdateEntry, RemoveEntry, NothingToChange, Refused,
                Untouched, CopyField, CopyFieldFails, Mutate, vault
  <2> QED BY <2>1, TimeActing
<1>7. CASE Restart  BY <1>7 DEF Restart, StateFor
<1>8. ASSUME NEW t \in Guard!Texts, OtherAppWrites(t) PROVE TimeInv'
  BY <1>8 DEF OtherAppWrites, Guard!OtherAppWrites, vault, loop
<1>9. CASE Tick
  <2>1. now' = now + 1 /\ ~framed' /\ frame' = "idle" /\ frame = "idle" /\ ~active'
    BY <1>9 DEF Tick, Guard!Tick
  <2> QED BY <1>9, <2>1, AppAssumption DEF Tick, vault
<1>10. CASE UNCHANGED vars  BY <1>10 DEF vars, vault, loop
<1> QED
  BY <1>1, <1>2, <1>3, <1>4, <1>5, <1>6, <1>7, <1>8, <1>9, <1>10 DEF Next

\* Every frame leaves the vault locked if the timeout has passed since the
\* user's last input, for every timeout and however rarely frames are drawn:
\* no click finds, and no tick with a frame shows, an expired vault
\* (app.rs:345-353, autolock.rs:34-40).
THEOREM LocksInTime == Spec => []LocksOnTime
<1>1. TimeInv => LocksOnTime
  BY AppAssumption DEF TimeInv, TimeTypes, InputInv, TimerInv, LocksOnTime
<1> QED BY <1>1, TimeInit, TimeNext, PTL DEF Spec

(* The clipboard's deadline.  A text that is ours is the one the guard     *)
(* looks for; try_clear runs in the first frame that finds the deadline    *)
(* due, before that frame's screen.                                        *)
ClipTypes ==
    /\ now \in Nat
    /\ frame \in {"idle", "polling", "locking", "ui"}
    /\ step \in {"idle", "read", "clear"}
    /\ step # "idle" <=> frame = "polling"

Pending ==
    ours /\ ~gaveUp =>
        /\ deadline = placedAt + ClearAfter
        /\ secret = clip
        /\ placedAt \in Nat
        /\ framed \/ frame \in {"locking", "ui"} => now < placedAt + ClearAfter

ClipInv == ClipTypes /\ Pending /\ ours \in BOOLEAN /\ gaveUp \in BOOLEAN

\* Nothing is pending at the start.
LEMMA ClipInit == Init => ClipInv
<1> SUFFICES ASSUME Init PROVE ClipInv
  OBVIOUS
<1>1. ClipTypes  BY DEF Init, Guard!Init, ClipTypes
<1>2. ours = FALSE /\ gaveUp = FALSE  BY DEF Init, Guard!Init
<1>3. Pending  BY <1>2 DEF Pending
<1> QED BY <1>1, <1>2, <1>3 DEF ClipInv

\* What leaves the guard and the clipboard alone within a frame's screen.
LEMMA ClipActing == ASSUME ClipInv, Acting, UNCHANGED clipboard PROVE ClipInv'
BY DEF ClipInv, ClipTypes, Pending, Acting, EndFrame, clipboard

\* A copy starts a full interval; a failed one gives the old text up.
LEMMA ClipCopies ==
    ASSUME ClipInv, NEW i \in Ids, CopyField(i) \/ CopyFieldFails(i) PROVE ClipInv'
<1> USE DEF ClipInv, ClipTypes, Pending
<1>1. Acting  BY DEF CopyField, CopyFieldFails
<1>2. CASE CopyField(i)
  <2>1. /\ deadline' = now + ClearAfter /\ placedAt' = now /\ clip' = secret' /\ step' = step
    BY <1>2 DEF CopyField, Guard!Copy
  <2>2. ours' \in BOOLEAN /\ gaveUp' \in BOOLEAN
    BY <1>2 DEF CopyField, Guard!Copy
  <2>3. ClipTypes'
    BY <1>1, <2>1 DEF Acting, EndFrame
  <2>4. now' = now /\ now < now + ClearAfter
    BY <1>1, AppAssumption DEF Acting
  <2>5. Pending'
    BY <2>1, <2>4
  <2> QED BY <2>2, <2>3, <2>5
<1>3. CASE CopyFieldFails(i)
  <2>1. /\ gaveUp' = (gaveUp \/ ours) /\ ours' = ours
        /\ step' = step /\ deadline' = deadline /\ placedAt' = placedAt /\ clip' = clip
    BY <1>3 DEF CopyFieldFails, Guard!CopyFails
  <2> QED BY <1>1, <2>1 DEF Acting, EndFrame
<1> QED BY <1>2, <1>3

\* try_clear takes our text away, or a failing call makes it give up.
LEMMA ClipPolls == ASSUME ClipInv, Poll PROVE ClipInv'
<1> USE DEF ClipInv, ClipTypes, Pending, Poll
<1>1. CASE Guard!ReadSame   BY <1>1 DEF Guard!ReadSame
<1>2. CASE Guard!ReadOther  BY <1>2 DEF Guard!ReadOther, Guard!Finish, Guard!history
<1>3. CASE Guard!ReadFails  BY <1>3 DEF Guard!ReadFails, Guard!Finish
<1>4. CASE Guard!Clear      BY <1>4 DEF Guard!Clear, Guard!Finish
<1>5. CASE Guard!ClearFails  BY <1>5 DEF Guard!ClearFails, Guard!Finish
<1> QED BY <1>1, <1>2, <1>3, <1>4, <1>5 DEF Guard!TryClear

\* No frame gets past a deadline that is due, and the clock only moves on to a
\* tick without a frame.
LEMMA ClipNext == ClipInv /\ [Next]_vars => ClipInv'
<1> SUFFICES ASSUME ClipInv, [Next]_vars PROVE ClipInv'
  OBVIOUS
<1> USE DEF ClipInv, ClipTypes, Pending
<1>1. ASSUME NEW a \in BOOLEAN, BeginFrame(a) PROVE ClipInv'
  <2>1. CASE Guard!PollDue /\ frame' = "polling"
    BY <1>1, <2>1 DEF BeginFrame, Guard!PollDue, Guard!history
  <2>2. CASE /\ UNCHANGED <<clipboard, now>> /\ frame' = "locking"
             /\ ~(deadline # NoDeadline /\ now >= deadline)
    <3>1. placedAt \in Nat => placedAt + ClearAfter \in Nat /\ placedAt + ClearAfter # NoDeadline
      BY AppAssumption
    <3> QED BY <1>1, <2>2, <3>1 DEF BeginFrame, clipboard
  <2> QED BY <1>1, <2>1, <2>2 DEF BeginFrame
<1>2. CASE Poll  BY <1>2, ClipPolls
<1>3. CASE AutoLock  BY <1>3 DEF AutoLock, clipboard
<1>4. CASE NoOperation  BY <1>4 DEF NoOperation, EndFrame, clipboard
<1>5. CASE Lifecycle
  <2>1. Acting /\ UNCHANGED clipboard
    BY <1>5 DEF Lifecycle, CreateRejected, CreateVault, Unlock, UnlockFails, UnlockElsewhere, Lock
  <2> QED BY <2>1, ClipActing
<1>6. CASE Entries
  <2>1. CASE \E i \in Ids : CopyField(i) \/ CopyFieldFails(i)
    BY <2>1, ClipCopies
  <2>2. CASE Acting /\ UNCHANGED clipboard
    BY <2>2, ClipActing
  <2> QED
    BY <1>6, <2>1, <2>2 DEF Entries, SaveVault, AddEntry, UpdateEntry, RemoveEntry,
       NothingToChange, Refused, Untouched, Mutate
<1>7. CASE Restart  BY <1>7 DEF Restart
<1>8. ASSUME NEW t \in Guard!Texts, OtherAppWrites(t) PROVE ClipInv'
  BY <1>8 DEF OtherAppWrites, Guard!OtherAppWrites, Guard!guard, loop
<1>9. CASE Tick
  <2>1. now' = now + 1 /\ ~framed' /\ frame' = frame /\ frame = "idle"
    BY <1>9 DEF Tick, Guard!Tick
  <2> QED BY <1>9, <2>1, AppAssumption DEF Tick, clipboard
<1>10. CASE UNCHANGED vars  BY <1>10 DEF vars, clipboard, loop
<1> QED
  BY <1>1, <1>2, <1>3, <1>4, <1>5, <1>6, <1>7, <1>8, <1>9, <1>10 DEF Next

\* Every frame leaves the clipboard without a copied field whose interval is
\* over, whatever happened to the vault meanwhile and however rarely frames are
\* drawn, unless a clipboard call failed or the process was killed
\* (app.rs:340-343).
THEOREM ClearsInTime == Spec => []ClearsOnTime
<1>1. ClipInv => ClearsOnTime  BY DEF ClipInv, Pending, Looked, ClearsOnTime
<1> QED BY <1>1, ClipInit, ClipNext, PTL DEF Spec

--------------------------------------------------------------------------
(* The guard inside App.  Whatever App does to the clipboard and to the    *)
(* clock is a step of Clipboard, or the end of the process; so the guard's *)
(* invariant, proved there for all its steps, holds here as well.          *)

GuardProofs == INSTANCE ClipboardProofs

\* App meets the assumptions those proofs rest on.
LEMMA GuardConstants == GuardProofs!ClipboardAssumption
BY AppAssumption DEF GuardProofs!ClipboardAssumption

\* Both instances of Clipboard are the same guard.
LEMMA SameGuard == Guard!Next => GuardProofs!Next
BY DEF Guard!Next, Guard!Copy, Guard!CopyFails, Guard!Cancel, Guard!PollDue, Guard!Drop,
       Guard!TryClear, Guard!ReadSame, Guard!ReadOther, Guard!ReadFails, Guard!Clear,
       Guard!ClearFails, Guard!Finish, Guard!Crash, Guard!OtherAppWrites, Guard!Tick,
       Guard!Texts, Guard!guard, Guard!history,
       GuardProofs!Next, GuardProofs!Copy, GuardProofs!CopyFails, GuardProofs!Cancel,
       GuardProofs!PollDue, GuardProofs!Drop, GuardProofs!TryClear, GuardProofs!ReadSame,
       GuardProofs!ReadOther, GuardProofs!ReadFails, GuardProofs!Clear, GuardProofs!ClearFails,
       GuardProofs!Finish, GuardProofs!Crash, GuardProofs!OtherAppWrites, GuardProofs!Tick,
       GuardProofs!Texts, GuardProofs!guard, GuardProofs!history

\* A step of App is a step of the guard, none of its business, or a restart.
LEMMA GuardStep ==
    ASSUME VaultInv, [Next]_vars
    PROVE  Guard!Next \/ Restart \/ UNCHANGED Guard!vars
<1>0. UNCHANGED <<clipboard, now>> => UNCHANGED Guard!vars
  BY DEF clipboard, Guard!vars, Guard!guard, Guard!history
<1>1. ASSUME NEW a \in BOOLEAN, BeginFrame(a) PROVE Guard!Next \/ UNCHANGED Guard!vars
  BY <1>0, <1>1 DEF BeginFrame, Guard!Next
<1>2. CASE Poll  BY <1>2 DEF Poll, Guard!Next
<1>3. CASE AutoLock \/ NoOperation  BY <1>0, <1>3 DEF AutoLock, NoOperation
<1>4. CASE Lifecycle
  BY <1>0, <1>4 DEF Lifecycle, CreateRejected, CreateVault, Unlock, UnlockFails,
     UnlockElsewhere, Lock, Acting
<1>5. CASE Entries
  <2>1. ASSUME NEW i \in Ids, CopyField(i) PROVE Guard!Next
    <3>1. mem[i] \in Secrets  BY <2>1 DEF CopyField, VaultInv, VaultTypes, Vaults
    <3> QED BY <2>1, <3>1 DEF CopyField, Guard!Next
  <2>2. ASSUME NEW i \in Ids, CopyFieldFails(i) PROVE Guard!Next
    BY <2>2 DEF CopyFieldFails, Guard!Next
  <2> QED
    BY <1>0, <1>5, <2>1, <2>2
    DEF Entries, SaveVault, AddEntry, UpdateEntry, RemoveEntry, NothingToChange, Refused,
        Untouched, Mutate, Acting
<1>6. ASSUME NEW t \in Guard!Texts, OtherAppWrites(t) PROVE Guard!Next
  BY <1>6 DEF OtherAppWrites, Guard!Next
<1>7. CASE Tick  BY <1>7 DEF Tick, Guard!Next
<1>8. CASE UNCHANGED vars  BY <1>0, <1>8 DEF vars
<1> QED BY <1>1, <1>2, <1>3, <1>4, <1>5, <1>6, <1>7, <1>8 DEF Next

\* App drives the guard, the clipboard and the clock by Clipboard's own steps
\* only, so that nothing the GUI does reaches around the guard; a restart
\* replaces the guard by a fresh one (app.rs:297-343).
THEOREM AppDrivesGuard == Spec => [][Guard!Next \/ Restart]_(Guard!vars)
<1>1. VaultInv /\ [Next]_vars => [Guard!Next \/ Restart]_(Guard!vars)
  BY GuardStep
<1> QED BY <1>1, VaultInit, VaultNext, PTL DEF Spec

Guarded == VaultInv /\ GuardProofs!GuardInv

\* A fresh guard, also that of a restarted process, has nothing pending.
LEMMA GuardedInit == Init => Guarded
<1> SUFFICES ASSUME Init PROVE Guarded
  OBVIOUS
<1>1. GuardProofs!Init  BY DEF Init, Guard!Init, GuardProofs!Init
<1> QED BY <1>1, GuardConstants, GuardProofs!GuardInit, VaultInit DEF Guarded

LEMMA GuardedNext == Guarded /\ [Next]_vars => Guarded'
<1> SUFFICES ASSUME Guarded, [Next]_vars PROVE GuardProofs!GuardInv'
  BY VaultNext DEF Guarded
<1>1. CASE Guard!Next \/ UNCHANGED Guard!vars
  <2>1. GuardProofs!Next \/ UNCHANGED GuardProofs!vars
    BY <1>1, SameGuard DEF Guard!vars, Guard!guard, Guard!history,
       GuardProofs!vars, GuardProofs!guard, GuardProofs!history
  <2> QED BY <2>1, GuardConstants, GuardProofs!GuardNext DEF Guarded
<1>2. CASE Restart
  BY <1>2 DEF Restart, Guarded, GuardProofs!GuardInv, GuardProofs!TypeOK, GuardProofs!Texts,
     GuardProofs!OursIsGuarded, GuardProofs!SecretOnlyWhilePending, GuardProofs!Live,
     GuardProofs!Compared, GuardProofs!Due, GuardProofs!LastCopy
<1> QED BY <1>1, <1>2, GuardStep DEF Guarded

LEMMA GuardedAlways == Spec => []Guarded
BY GuardedInit, GuardedNext, PTL DEF Spec

\* In the running program, too, a copied field has a clear ahead of it that
\* knows its text, locked or not, unless the clipboard failed or the process
\* died; and the retained copy goes with the deadline (app.rs:297-343).
THEOREM CopiesStayGuarded == Spec => [](Guard!OursIsGuarded /\ Guard!SecretOnlyWhilePending)
<1>1. Guarded => Guard!OursIsGuarded /\ Guard!SecretOnlyWhilePending
  BY DEF Guarded, GuardProofs!GuardInv, GuardProofs!OursIsGuarded,
     GuardProofs!SecretOnlyWhilePending, Guard!OursIsGuarded, Guard!SecretOnlyWhilePending
<1> QED BY <1>1, GuardedAlways, PTL

\* Nor does the program take another application's text away, but for a write
\* between the two calls of try_clear, or a copied field before its time.
THEOREM OthersTextsKept == Spec => Guard!ForeignKeptUnlessRaced /\ Guard!NotEarly
<1>1. Guarded =>
         /\ step = "clear" /\ step' = "idle" /\ clip' # clip => clip = secret \/ raced
         /\ phase = "running" /\ ours /\ ~ours' /\ step = "clear" /\ step' = "idle"
              => now >= placedAt + ClearAfter
  BY DEF Guarded, GuardProofs!GuardInv, GuardProofs!Compared, GuardProofs!Due,
     GuardProofs!LastCopy
<1> QED
  BY <1>1, GuardedAlways, PTL DEF Guard!ForeignKeptUnlessRaced, Guard!NotEarly

==========================================================================
