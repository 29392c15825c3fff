--------------------------- MODULE AtomicStore ---------------------------
(*************************************************************************)
(* What `write_vault_atomic` promises to its callers: the vault is one   *)
(* register.  A save takes effect at a single instant (Commit) between   *)
(* its call and its return; it returns Ok only after that instant and    *)
(* Err only when the instant never came.  Power loss may take the        *)
(* register back to a value it held since the last flush, and to         *)
(* nothing else.                                                         *)
(*************************************************************************)
CONSTANTS
    Clients,    \* concurrent callers of save
    Values,     \* vault images a caller may ask to store
    Absent      \* no vault: not a member of Values

VARIABLES
    value,      \* the vault a reader sees
    survivors,  \* what the vault may be after a power loss
    phase,      \* [Clients -> {"idle", "asked", "done"}]
    request,    \* [Clients -> Values \cup {Absent}]: the image being saved
    answer      \* [Clients -> {"none", "ok", "err"}]: last call's outcome

vars == <<value, survivors, phase, request, answer>>

Init ==
    /\ value \in Values \cup {Absent}
    /\ survivors = {value}
    /\ phase = [c \in Clients |-> "idle"]
    /\ request = [c \in Clients |-> Absent]
    /\ answer = [c \in Clients |-> "none"]

Ask(c, v) ==
    /\ phase[c] = "idle"
    /\ phase' = [phase EXCEPT ![c] = "asked"]
    /\ request' = [request EXCEPT ![c] = v]
    /\ answer' = [answer EXCEPT ![c] = "none"]
    /\ UNCHANGED <<value, survivors>>

Commit(c) ==
    /\ phase[c] = "asked"
    /\ value' = request[c]
    /\ survivors' = survivors \cup {request[c]}
    /\ phase' = [phase EXCEPT ![c] = "done"]
    /\ UNCHANGED <<request, answer>>

\* The acknowledgement; the device may or may not have been flushed.
Acknowledge(c) ==
    /\ phase[c] = "done"
    /\ survivors' \in {survivors, {value}}
    /\ phase' = [phase EXCEPT ![c] = "idle"]
    /\ answer' = [answer EXCEPT ![c] = "ok"]
    /\ UNCHANGED <<value, request>>

Refuse(c) ==
    /\ phase[c] = "asked"
    /\ phase' = [phase EXCEPT ![c] = "idle"]
    /\ answer' = [answer EXCEPT ![c] = "err"]
    /\ UNCHANGED <<value, survivors, request>>

\* The caller's process dies: no answer, and the save is left as it was.
Abandon(c) ==
    /\ phase[c] # "idle"
    /\ phase' = [phase EXCEPT ![c] = "idle"]
    /\ UNCHANGED <<value, survivors, request, answer>>

Remove ==
    /\ value # Absent
    /\ value' = Absent
    /\ survivors' = survivors \cup {Absent}
    /\ UNCHANGED <<phase, request, answer>>

LosePower ==
    /\ value' \in survivors
    /\ survivors' = {value'}
    /\ phase' = [c \in Clients |-> "idle"]
    /\ UNCHANGED <<request, answer>>

Next ==
    \/ \E c \in Clients :
          \/ \E v \in Values : Ask(c, v)
          \/ Commit(c)
          \/ Acknowledge(c)
          \/ Refuse(c)
          \/ Abandon(c)
    \/ Remove
    \/ LosePower

Spec == Init /\ [][Next]_vars
==========================================================================
