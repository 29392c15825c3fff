----------------------------- MODULE UiProofs -----------------------------
(*************************************************************************)
(* Theorems about Ui: it implements App, so that what AppProofs shows of *)
(* App holds behind the window too, and what the window promises besides.*)
(*************************************************************************)
EXTENDS Ui, AppProofs

\* What a click acts on is an id, never one of the sentinels, and an error in
\* the dialog is one of a new entry.
UiTypes ==
    /\ selected \in Ids \cup {NoRow}
    /\ draft \in Drafts \cup {NoDraft}
    /\ ErrorIsOfNewEntry
    /\ opError \in BOOLEAN
    /\ used \subseteq Ids

UiInv == UiTypes /\ VaultInv

--------------------------------------------------------------------------
(* Every step of Ui is a step of App                                       *)

\* A click that App does not notice is an operation it refuses.
LEMMA UntouchedIsNext == Untouched => Next
  BY DEF Refused, Entries, Next

LEMMA ScreensAreNext == UiTypes /\ Screens => Next
<1> SUFFICES ASSUME UiTypes, Screens PROVE Next
  OBVIOUS
<1>1. ASSUME NEW pw \in Passwords, NEW confirm \in Passwords, ClickCreate(pw, confirm)
      PROVE  Next
  <2>1. CreateRejected(pw, confirm) \/ CreateVault(pw)  BY <1>1 DEF ClickCreate
  <2> QED BY <2>1 DEF Lifecycle, Next
<1>2. ASSUME NEW pw \in Passwords, ClickUnlock(pw) PROVE Next
  <2>1. Unlock(pw) \/ UnlockFails(pw)  BY <1>2 DEF ClickUnlock
  <2> QED BY <2>1 DEF Lifecycle, Next
<1>3. CASE \/ \E i \in Ids : ClickRow(i)
           \/ \E text \in Secrets : ClickAdd(text)
           \/ ClickEdit
  BY <1>3, UntouchedIsNext DEF ClickRow, ClickAdd, ClickEdit
<1>4. CASE ClickDelete \/ ClickCopy
  <2>1. selected \in Ids  BY <1>4 DEF ClickDelete, ClickCopy, UiTypes
  <2>2. \/ RemoveEntry(selected) \/ NothingToChange(selected)
        \/ CopyField(selected) \/ CopyFieldFails(selected) \/ Untouched
    BY <1>4 DEF ClickDelete, ClickCopy
  <2> QED BY <2>1, <2>2, UntouchedIsNext DEF Entries, Next
<1>5. CASE ClickLock
  BY <1>5 DEF ClickLock, Lifecycle, Next
<1> QED BY <1>1, <1>2, <1>3, <1>4, <1>5 DEF Screens

LEMMA DialogIsNext == UiTypes /\ Dialog => Next
<1> SUFFICES ASSUME UiTypes, Dialog PROVE Next
  OBVIOUS
<1>1. draft # NoDraft => draft.text \in Secrets /\ draft.id \in Ids \cup {NewId}
  BY DEF UiTypes, Drafts
<1>2. CASE \/ \E text \in Secrets : EditDraft(text)
           \/ CloseDialog \/ SaveInvalid \/ SaveRefused
  BY <1>2, UntouchedIsNext DEF EditDraft, CloseDialog, SaveInvalid, SaveRefused
<1>3. ASSUME NEW i \in Ids, SaveNew(i) PROVE Next
  <2>1. AddEntry(i, draft.text) /\ draft.text \in Secrets  BY <1>1, <1>3 DEF SaveNew
  <2> QED BY <2>1 DEF Entries, Next
<1>4. CASE SaveEdit
  <2>1. /\ UpdateEntry(draft.id, draft.text)
        /\ draft.text \in Secrets /\ draft.id \in Ids
    BY <1>1, <1>4 DEF SaveEdit
  <2> QED BY <2>1 DEF Entries, Next
<1>5. CASE SaveEditOfMissing
  <2>1. NothingToChange(draft.id) /\ draft.id \in Ids
    BY <1>1, <1>5 DEF SaveEditOfMissing
  <2> QED BY <2>1 DEF Entries, Next
<1> QED BY <1>2, <1>3, <1>4, <1>5 DEF Dialog

LEMMA UiStep == UiTypes /\ [UiNext]_uiVars => [Next]_vars
<1> SUFFICES ASSUME UiTypes, [UiNext]_uiVars PROVE [Next]_vars
  OBVIOUS
<1>1. CASE Background  BY <1>1 DEF Background, Next
<1>2. CASE Screens  BY <1>2, ScreensAreNext
<1>3. CASE Dialog  BY <1>3, DialogIsNext
<1>4. CASE Dismiss  BY <1>4, UntouchedIsNext DEF Dismiss
<1>5. CASE UiRestart  BY <1>5 DEF UiRestart, Next
<1>6. CASE UNCHANGED uiVars  BY <1>6 DEF uiVars
<1> QED BY <1>1, <1>2, <1>3, <1>4, <1>5, <1>6 DEF UiNext

--------------------------------------------------------------------------
(* The types of the window's own fields                                    *)

LEMMA UiTypesInit == UiInit => UiTypes
  BY UiAssumption DEF UiInit, UiTypes, ErrorIsOfNewEntry, Present

LEMMA UiTypesScreens == UiInv /\ Screens => UiTypes'
<1> SUFFICES ASSUME UiInv, Screens PROVE UiTypes'
  OBVIOUS
<1> USE DEF UiInv, UiTypes, ErrorIsOfNewEntry
<1>1. mem \in Vaults  BY DEF VaultInv, VaultTypes
<1>2. ASSUME NEW pw \in Passwords, ClickUnlock(pw) PROVE UiTypes'
  BY <1>2 DEF ClickUnlock, ui
<1>3. ASSUME NEW pw \in Passwords, NEW confirm \in Passwords, ClickCreate(pw, confirm)
      PROVE  UiTypes'
  BY <1>3 DEF ClickCreate, ui
<1>4. ASSUME NEW i \in Ids, ClickRow(i) PROVE UiTypes'
  BY <1>4 DEF ClickRow
<1>5. ASSUME NEW text \in Secrets, ClickAdd(text) PROVE UiTypes'
  <2>1. [id |-> NewId, text |-> text, failed |-> FALSE] \in Drafts  BY DEF Drafts
  <2> QED BY <1>5, <2>1 DEF ClickAdd
<1>6. CASE ClickEdit
  <2>1. mem[selected] # Absent =>
            [id |-> selected, text |-> mem[selected], failed |-> FALSE] \in Drafts
    BY <1>1, <1>6 DEF ClickEdit, Vaults, Drafts
  <2> QED BY <1>6, <2>1 DEF ClickEdit
<1>7. CASE ClickDelete
  <2>1. opError' = opError \/ opError' = (opError \/ SaveFailed)  BY <1>7 DEF ClickDelete
  <2>2. opError' \in BOOLEAN  BY <2>1
  <2>3. selected' \in {selected, NoRow}  BY <1>7 DEF ClickDelete
  <2> QED BY <1>7, <2>2, <2>3 DEF ClickDelete
<1>8. CASE ClickCopy  BY <1>8 DEF ClickCopy
<1>9. CASE ClickLock  BY <1>9 DEF ClickLock
<1> QED BY <1>2, <1>3, <1>4, <1>5, <1>6, <1>7, <1>8, <1>9 DEF Screens

LEMMA UiTypesDialog == UiInv /\ Dialog => UiTypes'
<1> SUFFICES ASSUME UiInv, Dialog PROVE UiTypes'
  OBVIOUS
<1> USE DEF UiInv, UiTypes, ErrorIsOfNewEntry
<1>1. ASSUME NEW text \in Secrets, EditDraft(text) PROVE UiTypes'
  <2>1. draft \in Drafts  BY <1>1 DEF EditDraft
  <2>2. [draft EXCEPT !.text = text] \in Drafts  BY <2>1 DEF Drafts
  <2> QED BY <1>1, <2>2 DEF EditDraft
<1>2. CASE SaveInvalid
  <2>1. draft \in Drafts  BY <1>2 DEF SaveInvalid
  <2>2. [draft EXCEPT !.failed = TRUE] \in Drafts  BY <2>1 DEF Drafts
  <2> QED BY <1>2, <2>2 DEF SaveInvalid
<1>3. CASE CloseDialog \/ SaveRefused \/ SaveEditOfMissing
  BY <1>3 DEF CloseDialog, SaveRefused, SaveEditOfMissing
<1>4. CASE SaveEdit \/ \E i \in Ids : SaveNew(i)
  <2>1. opError' = (opError \/ SaveFailed)  BY <1>4 DEF SaveEdit, SaveNew
  <2>2. opError' \in BOOLEAN  BY <2>1
  <2>3. draft' \in {draft, NoDraft} /\ selected' = selected /\ used' \subseteq Ids
    BY <1>4 DEF SaveEdit, SaveNew
  <2> QED BY <2>2, <2>3
<1> QED BY <1>1, <1>2, <1>3, <1>4 DEF Dialog

LEMMA UiNextKeeps == UiInv /\ [UiNext]_uiVars => UiInv'
<1> SUFFICES ASSUME UiInv, [UiNext]_uiVars PROVE UiInv'
  OBVIOUS
<1>1. [Next]_vars  BY UiStep DEF UiInv
<1>2. VaultInv'  BY <1>1, VaultNext DEF UiInv
<1>3. UiTypes'
  <2>1. CASE Background \/ UNCHANGED uiVars
    BY <2>1 DEF Background, ui, uiVars, UiInv, UiTypes, ErrorIsOfNewEntry
  <2>2. CASE Dismiss  BY <2>2 DEF Dismiss, UiInv, UiTypes, ErrorIsOfNewEntry
  <2>3. CASE UiRestart  BY <2>3 DEF UiRestart, UiInv, UiTypes, ErrorIsOfNewEntry
  <2> QED BY <2>1, <2>2, <2>3, UiTypesScreens, UiTypesDialog DEF UiNext
<1> QED BY <1>2, <1>3 DEF UiInv

LEMMA UiAlways == UiSpec => []UiInv
<1>1. UiInit => UiInv  BY UiTypesInit, VaultInit DEF UiInit, UiInv
<1> QED BY <1>1, UiNextKeeps, PTL DEF UiSpec

\* VaultApp implements App: whatever is clicked, in whatever order, App takes
\* one of its own steps or none.
THEOREM UiRefinesApp == UiSpec => UiImplementsApp
<1>1. UiInit => Init  BY DEF UiInit
<1>2. UiInv /\ [UiNext]_uiVars => [Next]_vars  BY UiStep DEF UiInv
<1> QED BY <1>1, <1>2, UiAlways, PTL DEF UiSpec, UiImplementsApp, Spec

--------------------------------------------------------------------------
(* What the window promises                                                *)

\* Where memory can change: the three clicks that save, and the steps that
\* open, close or restart the vault, after which nothing is unsaved.
LEMMA MemoryChanges ==
    ASSUME UiInv, [UiNext]_uiVars, mem' # mem
    PROVE  \/ ClickDelete \/ SaveEdit \/ \E i \in Ids : SaveNew(i)
           \/ dirty' = FALSE /\ (draft' = draft \/ st' # "Unlocked")
<1> DEFINE Goal == \/ ClickDelete \/ SaveEdit \/ \E i \in Ids : SaveNew(i)
                   \/ dirty' = FALSE /\ (draft' = draft \/ st' # "Unlocked")
<1>1. CASE Background
  BY <1>1 DEF Background, ui, BeginFrame, Poll, AutoLock, DropVault, NoOperation,
              OtherAppWrites, Tick, vault
<1>2. CASE Screens
  <2>1. ASSUME NEW pw \in Passwords, NEW confirm \in Passwords, ClickCreate(pw, confirm)
        PROVE  Goal
    BY <2>1 DEF ClickCreate, ui, CreateRejected, CreateVault, vault
  <2>2. ASSUME NEW pw \in Passwords, ClickUnlock(pw) PROVE Goal
    BY <2>2 DEF ClickUnlock, ui, Unlock, UnlockFails, vault
  <2>3. CASE ClickLock  BY <2>3 DEF ClickLock, Lock, DropVault, vault
  <2> QED
    BY <1>2, <2>1, <2>2, <2>3 DEF Screens, ClickRow, ClickAdd, ClickEdit, ClickCopy,
       CopyField, CopyFieldFails, Untouched, vault
<1>3. CASE Dialog \/ Dismiss
  BY <1>3 DEF Dialog, EditDraft, CloseDialog, SaveInvalid, SaveRefused, SaveEditOfMissing,
              NothingToChange, Dismiss, Untouched, vault
<1>4. CASE UiRestart
  <2>1. dirty' = FALSE /\ st' # "Unlocked"  BY <1>4 DEF UiRestart, Restart, StateFor
  <2> QED BY <2>1
<1>5. CASE UNCHANGED uiVars  BY <1>5 DEF uiVars, vars, vault
<1> QED BY <1>1, <1>2, <1>3, <1>4, <1>5 DEF UiNext

\* A change that did not reach the file is announced at once (ui.rs:513,
\* 664-674).
THEOREM FailuresAnnounced == UiSpec => FailedSaveIsAnnounced
<1>1. ASSUME UiInv, [UiNext]_uiVars, mem' # mem, dirty' PROVE opError'
  <2>1. CASE ClickDelete
    BY <1>1, <2>1 DEF ClickDelete, SaveFailed, NothingToChange, Untouched, vault
  <2>2. CASE SaveEdit  BY <1>1, <2>2 DEF SaveEdit, SaveFailed
  <2>3. ASSUME NEW i \in Ids, SaveNew(i) PROVE opError'
    BY <1>1, <2>3 DEF SaveNew, SaveFailed
  <2> QED BY <1>1, <2>1, <2>2, <2>3, MemoryChanges
<1>2. UiInv /\ [UiNext]_uiVars => [mem' # mem /\ dirty' => opError']_uiVars
  BY <1>1
<1> QED BY <1>2, UiAlways, PTL DEF UiSpec, FailedSaveIsAnnounced

\* A dialog that Save closes has its text in memory and in the file
\* (ui.rs:661-674).
THEOREM SavedWhenClosed == UiSpec => ClosedMeansSaved
<1> DEFINE Stored == /\ \E i \in Ids : mem'[i] = draft.text /\ draft.id \in {i, NewId}
                     /\ disk' \in Files /\ disk'.data = mem'
<1>1. ASSUME UiInv, [UiNext]_uiVars,
             draft # NoDraft, draft' = NoDraft, mem' # mem, st' = "Unlocked"
      PROVE  Stored
  <2>1. mem \in Vaults /\ (st = "Unlocked" => key \in Passwords \ Short)
    BY <1>1 DEF UiInv, VaultInv, VaultTypes, OpenVault
  <2>2. draft.text \in Secrets /\ draft.id \in Ids \cup {NewId}
    BY <1>1 DEF UiInv, UiTypes, Drafts
  <2>3. ASSUME NEW i \in Ids, draft.id \in {i, NewId}, st = "Unlocked",
               Mutate([mem EXCEPT ![i] = draft.text]), ~SaveFailed
        PROVE  Stored
    <3> DEFINE m == [mem EXCEPT ![i] = draft.text]
    <3>1. m \in Vaults /\ m[i] = draft.text  BY <2>1, <2>2, <2>3 DEF Vaults
    <3>2. mem' = m /\ disk' = [pw |-> key, data |-> m]
      BY <2>3 DEF Mutate, Persist, SaveFailed
    <3> HIDE DEF m
    <3>3. disk' \in Files /\ disk'.data = m  BY <2>1, <2>3, <3>1, <3>2 DEF Files
    <3> QED BY <2>3, <3>1, <3>2, <3>3
  <2>4. CASE SaveEdit
    <3>1. UpdateEntry(draft.id, draft.text) /\ draft.id \in Ids /\ ~SaveFailed
      BY <1>1, <2>2, <2>4 DEF SaveEdit
    <3> QED BY <2>3, <3>1 DEF UpdateEntry
  <2>5. ASSUME NEW i \in Ids, SaveNew(i) PROVE Stored
    <3>1. AddEntry(i, draft.text) /\ draft.id = NewId /\ ~SaveFailed
      BY <1>1, <2>5 DEF SaveNew
    <3> QED BY <2>3, <3>1 DEF AddEntry
  <2>6. ~ClickDelete  BY <1>1 DEF ClickDelete
  <2> QED BY <1>1, <2>4, <2>5, <2>6, MemoryChanges
<1>2. UiInv /\ [UiNext]_uiVars =>
        [draft # NoDraft /\ draft' = NoDraft /\ mem' # mem /\ st' = "Unlocked" => Stored]_uiVars
  BY <1>1
<1> QED BY <1>2, UiAlways, PTL DEF UiSpec, ClosedMeansSaved

\* The toolbar's row exists, unless a deletion that failed to save took it
\* (ui.rs:501-517).
THEOREM SelectionKept == UiSpec => SelectionExists
<1>1. ASSUME UiInv, [UiNext]_uiVars, st = "Unlocked", ~Dangling, Dangling' PROVE opError'
  <2>1. mem \in Vaults /\ selected \in Ids \cup {NoRow}
    BY <1>1 DEF UiInv, UiTypes, VaultInv, VaultTypes
  <2>2. st' = "Unlocked" /\ selected' # NoRow /\ mem'[selected'] = Absent
    BY <1>1 DEF Dangling
  <2>3. selected = NoRow \/ mem[selected] # Absent  BY <1>1 DEF Dangling
  <2>4. draft # NoDraft => draft.text \in Secrets
    BY <1>1 DEF UiInv, UiTypes, Drafts
  <2>5. CASE ClickDelete
    <3>1. CASE RemoveEntry(selected) /\ SaveFailed
      BY <2>5, <3>1 DEF ClickDelete, NothingToChange, RemoveEntry
    <3> QED BY <2>2, <2>3, <2>5, <3>1 DEF ClickDelete, NothingToChange
  <2>6. CASE SaveEdit \/ \E i \in Ids : SaveNew(i)
    <3>1. PICK i : mem' = [mem EXCEPT ![i] = draft.text] /\ draft.text \in Secrets
                   /\ selected' = selected
      BY <2>4, <2>6 DEF SaveEdit, SaveNew, UpdateEntry, AddEntry, Mutate
    <3>2. selected \in Ids /\ mem'[selected] \in {mem[selected], draft.text}
      BY <2>1, <2>2, <3>1 DEF Vaults
    <3> QED BY <2>2, <2>3, <3>1, <3>2, AppAssumption
  <2>7. CASE mem' = mem
    <3>1. selected' # selected  BY <2>2, <2>3, <2>7
    <3>2. PICK i \in Ids : ClickRow(i)
      BY <1>1, <2>2, <2>7, <3>1
      DEF UiNext, Background, Screens, Dialog, ClickCreate, ClickUnlock, ClickAdd, ClickEdit,
          ClickDelete, ClickCopy, ClickLock, EditDraft, CloseDialog, SaveInvalid, SaveRefused,
          SaveNew, SaveEdit, SaveEditOfMissing, Dismiss, UiRestart, ui, uiVars
    <3> QED BY <2>2, <2>7, <3>2 DEF ClickRow
  <2>8. CASE mem' # mem /\ ~ClickDelete /\ ~SaveEdit /\ ~\E i \in Ids : SaveNew(i)
    <3>1. CASE Background
      BY <1>1, <2>2, <2>8, <3>1 DEF Background, BeginFrame, Poll, AutoLock, DropVault,
         NoOperation, OtherAppWrites, Tick, vault
    <3>2. CASE Screens
      <4>1. ASSUME NEW pw \in Passwords, NEW confirm \in Passwords,
                   ClickCreate(pw, confirm) \/ ClickUnlock(pw)
            PROVE  FALSE
        BY <1>1, <4>1 DEF ClickCreate, ClickUnlock
      <4> QED
        BY <2>2, <2>8, <3>2, <4>1 DEF Screens, ClickRow, ClickAdd, ClickEdit, ClickCopy,
           CopyField, CopyFieldFails, Untouched, vault, ClickLock
    <3>3. CASE Dialog \/ Dismiss
      BY <2>8, <3>3 DEF Dialog, EditDraft, CloseDialog, SaveInvalid, SaveRefused,
         SaveEditOfMissing, NothingToChange, Dismiss, Untouched, vault
    <3>4. CASE UiRestart  BY <2>2, <3>4 DEF UiRestart
    <3>5. CASE UNCHANGED uiVars  BY <2>8, <3>5 DEF uiVars, vars, vault
    <3> QED BY <1>1, <3>1, <3>2, <3>3, <3>4, <3>5 DEF UiNext
  <2> QED BY <2>5, <2>6, <2>7, <2>8
<1>2. UiInv /\ [UiNext]_uiVars =>
        [st = "Unlocked" /\ ~Dangling /\ Dangling' => opError']_uiVars
  BY <1>1
<1> QED BY <1>2, UiAlways, PTL DEF UiSpec, SelectionExists

\* The window's own fields keep their types, and App's beneath them.
THEOREM UiTypesCorrect == UiSpec => []UiTypeOK
<1>1. UiSpec => Spec  BY UiRefinesApp DEF UiImplementsApp
<1>2. UiInv /\ TypeOK => UiTypeOK  BY DEF UiInv, UiTypes, UiTypeOK
<1> QED BY <1>1, <1>2, UiAlways, TypeCorrect, PTL

--------------------------------------------------------------------------
(* What App promises holds behind the window, because every click is one   *)
(* of App's steps.                                                         *)

\* Whatever is clicked: memory and file agree but for a failed save, a saved
\* file opens again, and only its own vault replaces a file (ui.rs:253-680).
THEOREM VaultSafeBehindWindow ==
    UiSpec => /\ [](UnsavedOnlyAfterFailure /\ SavedFileFits /\ StateMatchesFile)
              /\ OnlyOwnerRewrites
BY UiRefinesApp, VaultSafe, OwnerOnly, PTL DEF UiImplementsApp

\* And the clipboard is left alone, or cleared, as the guard promises; a frame
\* that looks at the timers after they ran out locks and clears, whatever is
\* on the screen.
THEOREM TimersBehindWindow ==
    UiSpec => [](/\ Guard!OursIsGuarded /\ Guard!SecretOnlyWhilePending
                 /\ LocksOnTime /\ ClearsOnTime)
BY UiRefinesApp, CopiesStayGuarded, LocksInTime, ClearsInTime, PTL DEF UiImplementsApp
==========================================================================
