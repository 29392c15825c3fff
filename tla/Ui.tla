------------------------------- MODULE Ui --------------------------------
(*************************************************************************)
(* src/src/ui.rs: VaultApp, the egui front-end over App.  A frame is     *)
(* App's tick, then the screen for the resulting state, then the entry   *)
(* dialog, which is drawn over whichever screen is up and is not modal,  *)
(* then the operation error.  Each frame applies at most one click.      *)
(*************************************************************************)
EXTENDS App

CONSTANTS
    NewId,      \* EntryDraft.is_new: no id yet
    NoDraft,    \* draft: None
    NoRow       \* selected_id: None

VARIABLES
    selected,   \* selected_id
    draft,      \* the open entry dialog
    opError,    \* op_error is set
    used        \* history: ids of entries that ever were in this vault

ui     == <<selected, draft, opError, used>>
uiVars == <<vars, ui>>

Drafts == [id : Ids \cup {NewId}, text : Secrets, failed : BOOLEAN]

ASSUME UiAssumption == NewId \notin Ids /\ NoRow \notin Ids /\ NoDraft \notin Drafts

UiInit ==
    /\ Init
    /\ selected = NoRow
    /\ draft = NoDraft
    /\ opError = FALSE
    /\ used = IF disk \in Files THEN Present(disk.data) ELSE {}

\* The answer of an operation that has just tried to save.
SaveFailed == dirty'

--------------------------------------------------------------------------
(* The screens *)

\* show_no_vault and show_unlock ignore the Result: App.error is the message.
ClickCreate(pw, confirm) ==
    /\ st = "NoVault"
    /\ CreateRejected(pw, confirm) \/ (pw = confirm /\ CreateVault(pw))
    /\ UNCHANGED ui

ClickUnlock(pw) ==
    /\ st = "Locked"
    /\ Unlock(pw) \/ UnlockFails(pw)
    /\ UNCHANGED ui

ClickRow(i) ==
    /\ st = "Unlocked" /\ mem[i] # Absent
    /\ Untouched
    /\ selected' = i
    /\ UNCHANGED <<draft, opError, used>>

\* A blank draft, together with what the user types into it at first.
ClickAdd(text) ==
    /\ st = "Unlocked"
    /\ Untouched
    /\ draft' = [id |-> NewId, text |-> text, failed |-> FALSE]
    /\ UNCHANGED <<selected, opError, used>>

\* Mutant: the message of the dialog that Edit replaces stays on the screen
ClickEdit_KeepsError ==
    /\ st = "Unlocked" /\ selected # NoRow
    /\ Untouched
    /\ draft' = IF mem[selected] # Absent
                THEN [id |-> selected, text |-> mem[selected],
                      failed |-> draft # NoDraft /\ draft.failed]
                ELSE NoDraft
    /\ UNCHANGED <<selected, opError, used>>

ClickEdit ==
    /\ st = "Unlocked" /\ selected # NoRow
    /\ Untouched
    /\ draft' = IF mem[selected] # Absent
                THEN [id |-> selected, text |-> mem[selected], failed |-> FALSE]
                ELSE NoDraft
    /\ UNCHANGED <<selected, opError, used>>

\* Mutant: the row stays selected after its entry was deleted
ClickDelete_KeepsSelection ==
    /\ st = "Unlocked" /\ selected # NoRow
    /\ \/ RemoveEntry(selected) /\ opError' = (opError \/ SaveFailed)
       \/ NothingToChange(selected) /\ UNCHANGED opError
    /\ UNCHANGED <<selected, draft, used>>

ClickDelete ==
    /\ st = "Unlocked" /\ selected # NoRow
    /\ \/ /\ RemoveEntry(selected)
          /\ selected' = IF SaveFailed THEN selected ELSE NoRow
          /\ opError' = (opError \/ SaveFailed)
       \/ /\ NothingToChange(selected)
          /\ selected' = NoRow
          /\ UNCHANGED opError
    /\ UNCHANGED <<draft, used>>

ClickCopy ==
    /\ st = "Unlocked" /\ selected # NoRow
    /\ \/ CopyField(selected) /\ UNCHANGED opError
       \/ CopyFieldFails(selected) /\ opError' = TRUE
       \/ mem[selected] = Absent /\ Untouched /\ opError' = TRUE
    /\ UNCHANGED <<selected, draft, used>>

\* Mutant: Lock in the toolbar only changes the screen
ClickLock_ScreenOnly ==
    /\ st = "Unlocked"
    /\ st' = "Locked"
    /\ Acting
    /\ selected' = NoRow /\ draft' = NoDraft /\ opError' = FALSE
    /\ UNCHANGED <<mem, key, disk, dirty, error, lastActivity, clipboard, used>>

ClickLock ==
    /\ st = "Unlocked"
    /\ Lock
    /\ selected' = NoRow
    /\ draft' = NoDraft
    /\ opError' = FALSE
    /\ UNCHANGED used

--------------------------------------------------------------------------
(* The entry dialog, whatever the state of App *)

\* Typing, or taking a generated password.
EditDraft(text) ==
    /\ draft # NoDraft
    /\ Untouched
    /\ draft' = [draft EXCEPT !.text = text]
    /\ UNCHANGED <<selected, opError, used>>

CloseDialog ==
    /\ draft # NoDraft
    /\ Untouched
    /\ draft' = NoDraft
    /\ UNCHANGED <<selected, opError, used>>

\* to_entry of a new draft fails: no random id, or a field too long.
SaveInvalid ==
    /\ draft # NoDraft /\ draft.id = NewId
    /\ Untouched
    /\ draft' = [draft EXCEPT !.failed = TRUE]
    /\ UNCHANGED <<selected, opError, used>>

\* add_entry or update_entry answers Err before it changes anything.
SaveRefused ==
    /\ draft # NoDraft
    /\ Untouched
    /\ opError' = TRUE
    /\ UNCHANGED <<selected, draft, used>>

\* Mutant: the Result of add_entry is ignored
SaveNew_IgnoresError(i) ==
    /\ draft # NoDraft /\ draft.id = NewId
    /\ i \notin used
    /\ AddEntry(i, draft.text)
    /\ used' = used \cup {i}
    /\ draft' = NoDraft
    /\ UNCHANGED <<selected, opError>>

SaveNew(i) ==
    /\ draft # NoDraft /\ draft.id = NewId
    /\ i \notin used
    /\ AddEntry(i, draft.text)
    /\ used' = used \cup {i}
    /\ draft' = IF SaveFailed THEN draft ELSE NoDraft
    /\ opError' = (opError \/ SaveFailed)
    /\ UNCHANGED selected

\* Mutant: a failed save closes the dialog all the same
SaveEdit_DropsDraft ==
    /\ draft # NoDraft /\ draft.id # NewId
    /\ UpdateEntry(draft.id, draft.text)
    /\ draft' = NoDraft
    /\ opError' = (opError \/ SaveFailed)
    /\ UNCHANGED <<selected, used>>

SaveEdit ==
    /\ draft # NoDraft /\ draft.id # NewId
    /\ UpdateEntry(draft.id, draft.text)
    /\ draft' = IF SaveFailed THEN draft ELSE NoDraft
    /\ opError' = (opError \/ SaveFailed)
    /\ UNCHANGED <<selected, used>>

\* update_entry answers Ok(false) and `.map(|_| ())` makes it a success.
SaveEditOfMissing ==
    /\ draft # NoDraft /\ draft.id # NewId
    /\ NothingToChange(draft.id)
    /\ draft' = NoDraft
    /\ UNCHANGED <<selected, opError, used>>

Dismiss ==
    /\ opError
    /\ Untouched
    /\ opError' = FALSE
    /\ UNCHANGED <<selected, draft, used>>

--------------------------------------------------------------------------

UiRestart ==
    /\ Restart
    /\ selected' = NoRow
    /\ draft' = NoDraft
    /\ opError' = FALSE
    /\ UNCHANGED used

\* tick and everything outside the program leave VaultApp's own fields alone.
Background ==
    /\ \/ \E a \in BOOLEAN : BeginFrame(a)
       \/ Poll
       \/ AutoLock
       \/ NoOperation
       \/ \E t \in Guard!Texts : OtherAppWrites(t)
       \/ Tick
    /\ UNCHANGED ui

Screens ==
    \/ \E pw \in Passwords :
          \/ \E confirm \in Passwords : ClickCreate(pw, confirm)
          \/ ClickUnlock(pw)
    \/ \E i \in Ids : ClickRow(i)
    \/ \E text \in Secrets : ClickAdd(text)
    \/ ClickEdit
    \/ ClickDelete
    \/ ClickCopy
    \/ ClickLock

Dialog ==
    \/ \E text \in Secrets : EditDraft(text)
    \/ CloseDialog
    \/ SaveInvalid
    \/ SaveRefused
    \/ \E i \in Ids : SaveNew(i)
    \/ SaveEdit
    \/ SaveEditOfMissing

UiNext == Background \/ Screens \/ Dialog \/ Dismiss \/ UiRestart

UiSpec == UiInit /\ [][UiNext]_uiVars

--------------------------------------------------------------------------
(* Properties *)

\* Only a new entry can be refused inside the dialog (ui.rs:198-221); the text
\* of an existing one is judged by update_entry, and the answer is opError.
ErrorIsOfNewEntry == draft # NoDraft /\ draft.failed => draft.id = NewId

UiTypeOK ==
    /\ TypeOK
    /\ selected \in Ids \cup {NoRow}
    /\ draft \in Drafts \cup {NoDraft}
    /\ ErrorIsOfNewEntry
    /\ opError \in BOOLEAN
    /\ used \subseteq Ids

Dangling == st = "Unlocked" /\ selected # NoRow /\ mem[selected] = Absent

\* VaultApp implements App: each of its clicks is one call App's state
\* machine allows, and its own fields never reach into App's state.
UiImplementsApp == Spec

\* While the vault stays unlocked the selection never comes to dangle without
\* an error on the screen, so a toolbar button acts on the row it shows; only
\* a deletion that failed to save leaves one behind (ui.rs:501-517).
SelectionExists ==
    [][st = "Unlocked" /\ ~Dangling /\ Dangling' => opError']_uiVars

\* A change that did not reach the file is announced in the very frame that
\* made it, also when an earlier change is still unsaved (ui.rs:513, 664-674).
FailedSaveIsAnnounced == [][mem' # mem /\ dirty' => opError']_uiVars

\* A dialog that closes by itself on Save has its text in memory and in the
\* file, unless the entry it edited was gone.
ClosedMeansSaved ==
    [][draft # NoDraft /\ draft' = NoDraft /\ mem' # mem /\ st' = "Unlocked" =>
          /\ \E i \in Ids : mem'[i] = draft.text /\ draft.id \in {i, NewId}
          /\ disk' \in Files /\ disk'.data = mem']_uiVars

\* ui.rs:669: a dialog that Save closes was a success, so its text is stored.
SavedEditIsStored ==
    [][(SaveEdit \/ SaveEditOfMissing) /\ draft' = NoDraft
          => mem'[draft.id] = draft.text]_uiVars
==========================================================================
