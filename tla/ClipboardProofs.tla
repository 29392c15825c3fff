------------------------- MODULE ClipboardProofs -------------------------
(*************************************************************************)
(* Theorems about Clipboard for every set of texts, every interval and   *)
(* every choice of failing calls.                                        *)
(*************************************************************************)
EXTENDS Clipboard, TLAPS

(* What the guard knows between two calls: try_clear only runs in a live   *)
(* guard; it clears a text it has compared, unless someone wrote since;    *)
(* poll enters it when the interval is over; a deadline is always the one  *)
(* of the last copy that reached the clipboard.                            *)
Live     == step # "idle" => phase # "gone"
Compared == step = "clear" => clip = secret \/ raced
Due      == step # "idle" /\ phase = "running" => deadline # NoDeadline /\ now >= deadline
LastCopy == deadline # NoDeadline => deadline = placedAt + ClearAfter

GuardInv ==
    /\ TypeOK /\ OursIsGuarded /\ SecretOnlyWhilePending
    /\ Live /\ Compared /\ Due /\ LastCopy

\* A fresh guard knows all of it: nothing is pending and nothing was copied.
LEMMA GuardInit == Init => GuardInv
<1> SUFFICES ASSUME Init PROVE GuardInv
  OBVIOUS
<1>1. 0 \in 0 .. MaxTime
  BY ClipboardAssumption
<1>2. TypeOK
  BY <1>1 DEF Init, TypeOK, Texts
<1>3. OursIsGuarded /\ SecretOnlyWhilePending /\ Live /\ Compared /\ Due /\ LastCopy
  BY DEF Init, OursIsGuarded, SecretOnlyWhilePending, Live, Compared, Due, LastCopy
<1> QED BY <1>2, <1>3 DEF GuardInv

\* No step leaves the types.
LEMMA TypeNext == ASSUME TypeOK, [Next]_vars PROVE TypeOK'
<1> USE DEF TypeOK, Texts
<1>1. ASSUME NEW v \in Secrets \cup {Empty}, Copy(v) PROVE TypeOK'
  <2>1. now + ClearAfter \in 0 .. MaxTime
    BY <1>1, ClipboardAssumption DEF Copy
  <2> QED BY <1>1, <2>1 DEF Copy
<1>2. CASE CopyFails  BY <1>2 DEF CopyFails
<1>3. CASE Cancel     BY <1>3 DEF Cancel
<1>4. CASE PollDue    BY <1>4 DEF PollDue, history
<1>5. CASE Drop       BY <1>5 DEF Drop, history
<1>6. CASE TryClear
  BY <1>6 DEF TryClear, ReadSame, ReadOther, ReadFails, Clear, ClearFails, Finish, history
<1>7. CASE Crash      BY <1>7 DEF Crash
<1>8. ASSUME NEW v \in Texts, OtherAppWrites(v) PROVE TypeOK'
  BY <1>8 DEF OtherAppWrites, guard
<1>9. CASE Tick
  <2>1. now + 1 \in 0 .. MaxTime
    BY <1>9, ClipboardAssumption DEF Tick
  <2> QED BY <1>9, <2>1 DEF Tick, guard, history
<1>10. CASE UNCHANGED vars  BY <1>10 DEF vars, guard, history
<1> QED
  BY <1>1, <1>2, <1>3, <1>4, <1>5, <1>6, <1>7, <1>8, <1>9, <1>10 DEF Next

\* No step breaks what the guard knows.
LEMMA GuardNext == GuardInv /\ [Next]_vars => GuardInv'
<1> SUFFICES ASSUME GuardInv, [Next]_vars PROVE GuardInv'
  OBVIOUS
<1>0. TypeOK'  BY TypeNext DEF GuardInv
<1> USE DEF GuardInv, OursIsGuarded, SecretOnlyWhilePending, Live, Compared, Due, LastCopy
<1>1. ASSUME NEW v \in Secrets \cup {Empty}, Copy(v) PROVE GuardInv'
  <2>1. now + ClearAfter # NoDeadline
    BY <1>1, ClipboardAssumption DEF Copy, TypeOK
  <2> QED BY <1>0, <1>1, <2>1 DEF Copy
<1>2. CASE CopyFails  BY <1>0, <1>2 DEF CopyFails
<1>3. CASE Cancel     BY <1>0, <1>3 DEF Cancel
<1>4. CASE PollDue    BY <1>0, <1>4 DEF PollDue, history
<1>5. CASE Drop       BY <1>0, <1>5 DEF Drop, history
<1>6. CASE ReadSame   BY <1>0, <1>6 DEF ReadSame
<1>7. CASE ReadOther  BY <1>0, <1>7 DEF ReadOther, Finish, history
<1>8. CASE ReadFails  BY <1>0, <1>8 DEF ReadFails, Finish
<1>9. CASE Clear      BY <1>0, <1>9 DEF Clear, Finish
<1>10. CASE ClearFails  BY <1>0, <1>10 DEF ClearFails, Finish
<1>11. CASE Crash     BY <1>0, <1>11 DEF Crash
<1>12. ASSUME NEW v \in Texts, OtherAppWrites(v) PROVE GuardInv'
  BY <1>0, <1>12 DEF OtherAppWrites, guard
<1>13. CASE Tick
  <2>1. Due'
    BY <1>13, ClipboardAssumption DEF Tick, guard, history, TypeOK
  <2> QED BY <1>0, <1>13, <2>1 DEF Tick, guard, history
<1>14. CASE UNCHANGED vars  BY <1>0, <1>14 DEF vars, guard, history
<1> QED
  BY <1>1, <1>2, <1>3, <1>4, <1>5, <1>6, <1>7, <1>8, <1>9, <1>10, <1>11, <1>12, <1>13, <1>14
  DEF Next, TryClear

--------------------------------------------------------------------------

\* Every field of ClipboardGuard keeps its type (clipboard.rs:98-204).
THEOREM TypeCorrect == Spec => []TypeOK
<1>1. GuardInv => TypeOK  BY DEF GuardInv
<1> QED BY <1>1, GuardInit, GuardNext, PTL DEF Spec

\* A secret this program left on the clipboard has a clear ahead of it that
\* knows its text, or a failing call or a kill stood in the way; and once no
\* clear is pending the retained copy is wiped (clipboard.rs:131-194).
THEOREM GuardSafe == Spec => [](OursIsGuarded /\ SecretOnlyWhilePending)
<1>1. GuardInv => OursIsGuarded /\ SecretOnlyWhilePending  BY DEF GuardInv
<1> QED BY <1>1, GuardInit, GuardNext, PTL DEF Spec

\* try_clear removes the text it compared or, only when someone wrote between
\* its two calls, that text (clipboard.rs:183-190).
THEOREM ForeignKept == Spec => ForeignKeptUnlessRaced
<1>1. GuardInv => (step = "clear" /\ step' = "idle" /\ clip' # clip => clip = secret \/ raced)
  BY DEF GuardInv, Compared
<1> QED BY <1>1, GuardInit, GuardNext, PTL DEF Spec, ForeignKeptUnlessRaced

\* A running guard never takes a copied secret away before CLEAR_AFTER has
\* passed since the copy (clipboard.rs:141, 150-156).
THEOREM NeverEarly == Spec => NotEarly
<1>1. GuardInv => (phase = "running" /\ ours /\ ~ours' /\ step = "clear" /\ step' = "idle"
                     => now >= placedAt + ClearAfter)
  BY DEF GuardInv, Due, LastCopy
<1> QED BY <1>1, GuardInit, GuardNext, PTL DEF Spec, NotEarly
==========================================================================
