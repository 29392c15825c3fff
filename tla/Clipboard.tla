---------------------------- MODULE Clipboard ----------------------------
(*************************************************************************)
(* src/src/clipboard.rs: ClipboardGuard, the system clipboard behind it, *)
(* and the other applications that write to that clipboard.  try_clear   *)
(* reads the clipboard and clears it in two calls, so another            *)
(* application can write in between.  The system clipboard is external:  *)
(* it holds one text, and each of its three calls may fail.              *)
(*************************************************************************)
EXTENDS Naturals

CONSTANTS
    Secrets,      \* non-empty field values that get copied
    Foreign,      \* texts only other applications put on the clipboard
    Empty,        \* the empty text
    NoDeadline,   \* deadline: None
    ClearAfter,   \* CLEAR_AFTER, in clock ticks
    MaxTime,      \* bound: the last tick of the clock
    Failures,     \* backend calls that may fail, from {"set", "get", "clear"}
    CallsCancel   \* whether anyone calls `cancel`; the program does not

Texts == Secrets \cup Foreign \cup {Empty}

ASSUME ClipboardAssumption ==
    /\ ClearAfter \in Nat \ {0}
    /\ MaxTime \in Nat
    /\ NoDeadline \notin Nat
    /\ Empty \notin Secrets \cup Foreign
    /\ Secrets \cap Foreign = {}
    /\ CallsCancel \in BOOLEAN

VARIABLES
    clip,       \* the text on the system clipboard
    secret,     \* ClipboardGuard.secret; wiped is Empty
    deadline,   \* ClipboardGuard.deadline
    step,       \* {"idle", "read", "clear"}: where try_clear is
    phase,      \* {"running", "dropping", "gone"}: life of the guard
    now,        \* Instant::now()
    ours,       \* history: clip was put there by copy and not touched since
    placedAt,   \* history: when it was
    gaveUp,     \* history: the guard was prevented from clearing that text
    raced       \* history: someone wrote between the last read and its clear

guard   == <<secret, deadline, step, phase>>
history == <<ours, placedAt, gaveUp, raced>>
vars    == <<clip, guard, now, history>>

Init ==
    /\ clip \in Foreign \cup {Empty}
    /\ secret = Empty
    /\ deadline = NoDeadline
    /\ step = "idle"
    /\ phase = "running"
    /\ now = 0
    /\ ours = FALSE
    /\ placedAt = 0
    /\ gaveUp = FALSE
    /\ raced = FALSE

--------------------------------------------------------------------------
(* copy: the retained secret is wiped first, then set_text may fail. *)

\* Mutant: a second copy keeps the first one's deadline
Copy_KeepsDeadline(v) ==
    /\ phase = "running" /\ step = "idle"
    /\ now + ClearAfter <= MaxTime
    /\ clip' = v
    /\ secret' = v
    /\ deadline' = IF deadline = NoDeadline THEN now + ClearAfter ELSE deadline
    /\ ours' = (v # Empty)
    /\ placedAt' = now
    /\ gaveUp' = FALSE
    /\ UNCHANGED <<step, phase, now, raced>>

\* Mutant: the wipe of the previous secret comes after the new one is kept
Copy_WipesLast(v) ==
    /\ phase = "running" /\ step = "idle"
    /\ now + ClearAfter <= MaxTime
    /\ clip' = v
    /\ secret' = Empty
    /\ deadline' = now + ClearAfter
    /\ ours' = (v # Empty)
    /\ placedAt' = now
    /\ gaveUp' = FALSE
    /\ UNCHANGED <<step, phase, now, raced>>

\* Mutant: the interval is counted from the next tick
Copy_LateDeadline(v) ==
    /\ phase = "running" /\ step = "idle"
    /\ now + ClearAfter <= MaxTime
    /\ clip' = v
    /\ secret' = v
    /\ deadline' = now + ClearAfter + 1
    /\ ours' = (v # Empty)
    /\ placedAt' = now
    /\ gaveUp' = FALSE
    /\ UNCHANGED <<step, phase, now, raced>>

Copy(v) ==
    /\ phase = "running" /\ step = "idle"
    /\ now + ClearAfter <= MaxTime
    /\ clip' = v
    /\ secret' = v
    /\ deadline' = now + ClearAfter
    /\ ours' = (v # Empty)
    /\ placedAt' = now
    /\ gaveUp' = FALSE
    /\ UNCHANGED <<step, phase, now, raced>>

CopyFails ==
    /\ "set" \in Failures
    /\ phase = "running" /\ step = "idle"
    /\ secret' = Empty
    /\ gaveUp' = (gaveUp \/ ours)
    /\ UNCHANGED <<clip, deadline, step, phase, now, ours, placedAt, raced>>

Cancel ==
    /\ CallsCancel
    /\ phase = "running" /\ step = "idle"
    /\ secret' = Empty
    /\ deadline' = NoDeadline
    /\ gaveUp' = (gaveUp \/ ours)
    /\ UNCHANGED <<clip, step, phase, now, ours, placedAt, raced>>

--------------------------------------------------------------------------
(* poll and drop, both through try_clear *)

\* poll before the deadline, or with none, changes nothing.
PollDue ==
    /\ phase = "running" /\ step = "idle"
    /\ deadline # NoDeadline /\ now >= deadline
    /\ step' = "read"
    /\ UNCHANGED <<clip, secret, deadline, phase, now, history>>

\* Mutant: drop leaves the clipboard as it is
Drop_NoClear ==
    /\ phase = "running" /\ step = "idle"
    /\ phase' = "gone"
    /\ UNCHANGED <<clip, secret, deadline, step, now, history>>

Drop ==
    /\ phase = "running" /\ step = "idle"
    /\ IF deadline # NoDeadline
       THEN phase' = "dropping" /\ step' = "read"
       ELSE phase' = "gone" /\ UNCHANGED step
    /\ UNCHANGED <<clip, secret, deadline, now, history>>

\* try_clear returns: the secret is wiped, and poll resets the deadline.
Finish ==
    /\ secret' = Empty
    /\ deadline' = NoDeadline
    /\ step' = "idle"
    /\ phase' = IF phase = "dropping" THEN "gone" ELSE phase

ReadSame ==
    /\ step = "read"
    /\ clip = secret
    /\ step' = "clear"
    /\ raced' = FALSE
    /\ UNCHANGED <<clip, secret, deadline, phase, now, ours, placedAt, gaveUp>>

ReadOther ==
    /\ step = "read"
    /\ clip # secret
    /\ Finish
    /\ UNCHANGED <<clip, now, history>>

\* Mutant: a failing get_text clears blind instead of leaving the clipboard alone
ReadFails_ClearsBlind ==
    /\ "get" \in Failures
    /\ step = "read"
    /\ step' = "clear"
    /\ UNCHANGED <<clip, secret, deadline, phase, now, history>>

\* Mutant: a failing get_text returns without wiping the retained copy
ReadFails_KeepsSecret ==
    /\ "get" \in Failures
    /\ step = "read"
    /\ deadline' = NoDeadline
    /\ step' = "idle"
    /\ phase' = IF phase = "dropping" THEN "gone" ELSE phase
    /\ gaveUp' = (gaveUp \/ ours)
    /\ UNCHANGED <<clip, secret, now, ours, placedAt, raced>>

ReadFails ==
    /\ "get" \in Failures
    /\ step = "read"
    /\ Finish
    /\ gaveUp' = (gaveUp \/ ours)
    /\ UNCHANGED <<clip, now, ours, placedAt, raced>>

Clear ==
    /\ step = "clear"
    /\ clip' = Empty
    /\ ours' = FALSE
    /\ Finish
    /\ UNCHANGED <<now, placedAt, gaveUp, raced>>

ClearFails ==
    /\ "clear" \in Failures
    /\ step = "clear"
    /\ Finish
    /\ gaveUp' = (gaveUp \/ ours)
    /\ UNCHANGED <<clip, now, ours, placedAt, raced>>

\* The process is killed, or panics (panic = "abort"): no destructor runs.
Crash ==
    /\ phase # "gone"
    /\ phase' = "gone"
    /\ step' = "idle"
    /\ secret' = Empty
    /\ deadline' = NoDeadline
    /\ gaveUp' = (gaveUp \/ ours)
    /\ UNCHANGED <<clip, now, ours, placedAt, raced>>

--------------------------------------------------------------------------
(* The environment *)

OtherAppWrites(v) ==
    /\ clip' = v
    /\ ours' = FALSE
    /\ raced' = (raced \/ step = "clear")
    /\ UNCHANGED <<guard, now, placedAt, gaveUp>>

Tick ==
    /\ now < MaxTime
    /\ now' = now + 1
    /\ UNCHANGED <<clip, guard, history>>

--------------------------------------------------------------------------

TryClear == ReadSame \/ ReadOther \/ ReadFails \/ Clear \/ ClearFails

Next ==
    \/ \E v \in Secrets \cup {Empty} : Copy(v)
    \/ CopyFails
    \/ Cancel
    \/ PollDue
    \/ Drop
    \/ TryClear
    \/ Crash
    \/ \E v \in Texts : OtherAppWrites(v)
    \/ Tick

\* try_clear is a synchronous call: once entered it runs to its end unless the
\* process dies.  Nothing makes frames, hence polls, keep coming, so PollDue
\* is not fair; nor are the clock, the user and the other applications.
Fairness == WF_vars(TryClear)

Spec     == Init /\ [][Next]_vars
FairSpec == Spec /\ Fairness

--------------------------------------------------------------------------
(* Properties *)

TypeOK ==
    /\ clip \in Texts
    /\ secret \in Secrets \cup {Empty}
    /\ deadline \in (0 .. MaxTime) \cup {NoDeadline}
    /\ step \in {"idle", "read", "clear"}
    /\ phase \in {"running", "dropping", "gone"}
    /\ now \in 0 .. MaxTime
    /\ ours \in BOOLEAN
    /\ placedAt \in 0 .. MaxTime
    /\ gaveUp \in BOOLEAN
    /\ raced \in BOOLEAN

\* A secret this program left on the clipboard always has a clear ahead of
\* it: a deadline is set and the retained copy is the very text to look for
\* (clipboard.rs:131-143 against 169-184).  Also at exit: the guard is gone
\* only when its secret is, unless the clipboard's calls failed it.
OursIsGuarded ==
    ours => \/ gaveUp
            \/ phase # "gone" /\ deadline # NoDeadline /\ secret = clip

\* The retained copy never outlives the pending clear: every way out of
\* try_clear wipes it (clipboard.rs:172-193).
SecretOnlyWhilePending ==
    deadline = NoDeadline => secret = Empty

\* What try_clear removes is the text it compared, or one that arrived after
\* its get_text: another application's text that was already there when it
\* looked is kept, also when get_text fails (clipboard.rs:183-190).  The code's
\* comment promises more, that no foreign text is ever cleared
\* (clipboard.rs:18-21): between the two calls it is.
ForeignKeptUnlessRaced ==
    [][step = "clear" /\ step' = "idle" /\ clip' # clip => clip = secret \/ raced]_vars

\* A running guard leaves a copied secret alone for the full interval, also
\* when an earlier copy's deadline falls within it (clipboard.rs:141).
NotEarly ==
    [][phase = "running" /\ ours /\ ~ours' /\ step = "clear" /\ step' = "idle"
         => now >= placedAt + ClearAfter]_vars

\* A clear that has begun, by a poll or by the drop at exit, comes to its end,
\* and then the copied secret is off the clipboard, unless the clipboard's own
\* calls or the death of the process prevented it (clipboard.rs:169-194).
BegunClearFinishes == step # "idle" ~> step = "idle" /\ (~ours \/ gaveUp)

\* README.md:43-44: a copied secret still on the clipboard is what the pending
\* clear will look for, also after a later copy that failed.
PendingClearKnowsItsText ==
    ours /\ phase = "running" /\ deadline # NoDeadline => secret = clip
==========================================================================
