-------------------------- MODULE InstancesProofs --------------------------
(*************************************************************************)
(* Theorems about Instances for any number of copies, vaults and texts.  *)
(*************************************************************************)
EXTENDS Instances, TLAPS

\* Where a copy is tells what it carries.
Steps ==
    \A a \in Apps :
        /\ pc[a] # "idle" => image[a] \in Images
        /\ pc[a] = "creating" => st[a] = "NoVault" /\ image[a].rows = {}
        /\ pc[a] = "unlocking" => st[a] = "Locked"
        /\ pc[a] = "saving" => st[a] = "Unlocked" /\ image[a] = mem[a]

\* VaultsNeverMix holds of the file because it holds of every image a copy
\* has in memory, or is about to write, whatever the file has become since.
AtHome(img) ==
    img # NoFile => \A r \in img.rows : r \in 1 .. rows /\ homes[r] = img.vault

Homes ==
    /\ AtHome(file)
    /\ \A a \in Apps : AtHome(mem[a]) /\ AtHome(image[a])

\* LoneWriterLosesNothing: what a copy acknowledged is in the file it wrote,
\* in the bytes it unlocks from, and but for its own changes in its memory.
Authors ==
    /\ file = NoFile <=> writers = {}
    /\ \A a \in Apps :
          /\ st[a] = "NoVault" => a \notin writers
          /\ a \notin writers => acked[a] = {}

Lone ==
    \A a \in Apps : writers = {a} =>
        /\ acked[a] \subseteq file.rows
        /\ pc[a] = "unlocking" => acked[a] \subseteq image[a].rows
        /\ st[a] = "Unlocked" => acked[a] \ dropped[a] \subseteq mem[a].rows

CopiesInv == TypeOK /\ Steps /\ Homes /\ Authors /\ Lone

LEMMA CopiesInit == Init => CopiesInv
<1> SUFFICES ASSUME Init PROVE CopiesInv
  OBVIOUS
<1> USE DEF Init
<1>1. TypeOK  BY InstancesAssumption DEF TypeOK
<1>2. Steps /\ Homes  BY DEF Steps, Homes, AtHome
<1>3. Authors /\ Lone  BY DEF Authors, Lone
<1> QED BY <1>1, <1>2, <1>3 DEF CopiesInv

--------------------------------------------------------------------------
(* Creating, unlocking, locking, failing and restarting: no text changes *)

\* create_vault begins with an image of its own and nothing in it.
LEMMA CopiesBeginCreate ==
    ASSUME CopiesInv, NEW a \in Apps, BeginCreate(a) PROVE CopiesInv'
<1> USE DEF CopiesInv, BeginCreate, Enter, history
<1>1. [vault |-> vaults + 1, rows |-> {}] \in Images
  BY InstancesAssumption DEF TypeOK, Images
<1>2. TypeOK'  BY <1>1, InstancesAssumption DEF TypeOK
<1>3. Steps'  BY <1>1 DEF Steps, TypeOK
<1>4. Homes'  BY <1>1 DEF Homes, AtHome, TypeOK
<1>5. Authors' /\ Lone'  BY DEF Authors, Lone, TypeOK
<1> QED BY <1>2, <1>3, <1>4, <1>5

\* unlock begins with the bytes of the file, which hold what was acknowledged.
LEMMA CopiesBeginUnlock ==
    ASSUME CopiesInv, NEW a \in Apps, BeginUnlock(a) PROVE CopiesInv'
<1> USE DEF CopiesInv, BeginUnlock, Enter, history
<1>1. file \in Images  BY DEF TypeOK
<1>2. TypeOK'  BY <1>1 DEF TypeOK
<1>3. Steps'  BY <1>1 DEF Steps, TypeOK
<1>4. Homes'  BY DEF Homes, AtHome, TypeOK
<1>5. Authors' /\ Lone'  BY DEF Authors, Lone, TypeOK
<1> QED BY <1>2, <1>3, <1>4, <1>5

\* The first write of a copy that knows of no vault acknowledges nothing.
LEMMA CopiesFinishCreate ==
    ASSUME CopiesInv, NEW a \in Apps, FinishCreate(a) PROVE CopiesInv'
<1> USE DEF CopiesInv, FinishCreate, Leave, Open
<1>1. /\ image[a] \in Images /\ image[a] # NoFile /\ image[a].rows = {}
      /\ st[a] = "NoVault" /\ a \notin writers /\ acked[a] = {}
  BY InstancesAssumption DEF Steps, TypeOK, Authors
<1>2. TypeOK'  BY <1>1 DEF TypeOK
<1>3. Steps'  BY <1>1 DEF Steps, TypeOK
<1>4. Homes'  BY <1>1 DEF Homes, AtHome, TypeOK
<1>5. Authors'  BY <1>1 DEF Authors, TypeOK
<1>6. Lone'
  <2> SUFFICES ASSUME NEW c \in Apps, writers' = {c}
               PROVE  /\ acked'[c] \subseteq file'.rows
                      /\ pc'[c] = "unlocking" => acked'[c] \subseteq image'[c].rows
                      /\ st'[c] = "Unlocked" => acked'[c] \ dropped'[c] \subseteq mem'[c].rows
    BY DEF Lone
  <2>1. c = a  OBVIOUS
  <2> QED BY <1>1, <2>1
<1> QED BY <1>2, <1>3, <1>4, <1>5, <1>6

\* unlock ends with what was read when it began.
LEMMA CopiesFinishUnlock ==
    ASSUME CopiesInv, NEW a \in Apps, FinishUnlock(a) PROVE CopiesInv'
<1> USE DEF CopiesInv, FinishUnlock, Leave, Open, history
<1>1. image[a] \in Images /\ image[a] # NoFile /\ st[a] = "Locked"
  BY InstancesAssumption DEF Steps, TypeOK
<1>2. TypeOK'  BY <1>1 DEF TypeOK
<1>3. Steps'  BY <1>1 DEF Steps, TypeOK
<1>4. Homes'  BY <1>1 DEF Homes, AtHome, TypeOK
<1>5. Authors' /\ Lone'  BY <1>1 DEF Authors, Lone, TypeOK
<1> QED BY <1>2, <1>3, <1>4, <1>5

\* Failing, locking and restarting only take something away.
LEMMA CopiesStop ==
    ASSUME CopiesInv, NEW a \in Apps, Fail(a) \/ LockVault(a) \/ Restart(a)
    PROVE  CopiesInv'
<1> USE DEF CopiesInv, Fail, Leave, LockVault, Restart, StateFor, history
<1>1. TypeOK'
  <2>1. CASE Fail(a)  BY <2>1 DEF TypeOK
  <2>2. CASE LockVault(a)  BY <2>2 DEF TypeOK
  <2>3. CASE Restart(a)  BY <2>3 DEF TypeOK
  <2> QED BY <2>1, <2>2, <2>3
<1>2. Steps'
  <2>1. CASE Fail(a)  BY <2>1 DEF Steps, TypeOK
  <2>2. CASE LockVault(a)  BY <2>2 DEF Steps, TypeOK
  <2>3. CASE Restart(a)  BY <2>3 DEF Steps, TypeOK
  <2> QED BY <2>1, <2>2, <2>3
<1>3. Homes'
  <2>1. CASE Fail(a)  BY <2>1 DEF Homes, AtHome, TypeOK
  <2>2. CASE LockVault(a)  BY <2>2 DEF Homes, AtHome, TypeOK
  <2>3. CASE Restart(a)  BY <2>3 DEF Homes, AtHome, TypeOK
  <2> QED BY <2>1, <2>2, <2>3
<1>4. Authors'  BY DEF Authors, TypeOK
<1>5. Lone'
  <2>1. CASE Fail(a)  BY <2>1 DEF Lone, TypeOK
  <2>2. CASE LockVault(a)  BY <2>2 DEF Lone, TypeOK
  <2>3. CASE Restart(a)  BY <2>3 DEF Lone, TypeOK
  <2> QED BY <2>1, <2>2, <2>3
<1> QED BY <1>1, <1>2, <1>3, <1>4, <1>5

--------------------------------------------------------------------------
(* Changing and saving *)

\* A change to memory: what it takes out is dropped, what it puts in has its
\* home in the vault in memory.
LEMMA CopiesBeginSave ==
    ASSUME CopiesInv, NEW a \in Apps,
           NEW gone \in SUBSET (1 .. MaxRows), NEW new \in SUBSET (1 .. MaxRows),
           BeginSave(a, gone, new),
           rows' \in rows .. MaxRows, homes' \in [1 .. MaxRows -> 0 .. MaxVaults],
           \A r \in 1 .. rows : homes'[r] = homes[r],
           \A r \in new : r \in 1 .. rows' /\ homes'[r] = mem[a].vault
    PROVE  CopiesInv'
<1> USE DEF CopiesInv
<1> DEFINE m == [mem[a] EXCEPT !.rows = (@ \ gone) \cup new]
<1>1. mem[a] \in Images /\ mem[a] # NoFile  BY DEF BeginSave, TypeOK
<1>2. m \in Images /\ m # NoFile
  <2>1. (mem[a].rows \ gone) \cup new \in SUBSET (1 .. MaxRows)  BY <1>1 DEF Images
  <2>2. m \in Images  BY <1>1, <2>1 DEF Images
  <2> QED BY <2>2, InstancesAssumption
<1>3. /\ mem' = [mem EXCEPT ![a] = m] /\ mem'[a] = m
      /\ image' = [image EXCEPT ![a] = m] /\ pc' = [pc EXCEPT ![a] = "saving"]
      /\ dropped' = [dropped EXCEPT ![a] = @ \cup gone]
      /\ st[a] = "Unlocked" /\ UNCHANGED <<file, st, vaults, acked, writers>>
  <2>1. mem' = [mem EXCEPT ![a] = m]  BY DEF BeginSave
  <2>2. mem'[a] = m  BY <2>1 DEF TypeOK
  <2> HIDE DEF m
  <2> QED BY <2>1, <2>2 DEF BeginSave, Enter
<1>4. m.vault = mem[a].vault /\ m.rows = (mem[a].rows \ gone) \cup new
  BY <1>1 DEF Images
<1> HIDE DEF m
<1>5. rows \in Nat /\ MaxRows \in Nat /\ rows' \in 0 .. MaxRows
  BY InstancesAssumption DEF TypeOK
<1>6. TypeOK'  BY <1>2, <1>3, <1>5 DEF TypeOK
<1>7. Steps'  BY <1>2, <1>3 DEF Steps, TypeOK
<1>8. Homes'
  <2>1. ASSUME NEW img, AtHome(img) PROVE img # NoFile =>
          \A r \in img.rows : r \in 1 .. rows' /\ homes'[r] = img.vault
    BY <1>5, <2>1 DEF AtHome
  <2>2. \A r \in m.rows : r \in 1 .. rows' /\ homes'[r] = m.vault
    BY <1>1, <1>4, <2>1 DEF Homes
  <2> QED BY <1>2, <1>3, <2>1, <2>2 DEF Homes, AtHome, TypeOK
<1>9. Authors'  BY <1>3 DEF Authors
<1>10. Lone'
  <2> SUFFICES ASSUME NEW c \in Apps, writers' = {c}
               PROVE  /\ acked'[c] \subseteq file'.rows
                      /\ pc'[c] = "unlocking" => acked'[c] \subseteq image'[c].rows
                      /\ st'[c] = "Unlocked" => acked'[c] \ dropped'[c] \subseteq mem'[c].rows
    BY DEF Lone
  <2>1. CASE c # a  BY <1>3, <2>1 DEF Lone, TypeOK
  <2>2. CASE c = a
    <3>1. acked[a] \ dropped[a] \subseteq mem[a].rows  BY <1>3, <2>2 DEF Lone
    <3>2. dropped'[a] = dropped[a] \cup gone /\ pc'[a] = "saving"  BY <1>3 DEF TypeOK
    <3> QED BY <1>3, <1>4, <2>2, <3>1, <3>2 DEF Lone
  <2> QED BY <2>1, <2>2
<1> QED BY <1>6, <1>7, <1>8, <1>9, <1>10

\* A new text gets the next number and its home.
LEMMA NextRow ==
    ASSUME CopiesInv, NEW a \in Apps, mem[a] # NoFile, NewRow(a)
    PROVE  /\ {rows + 1} \in SUBSET (1 .. MaxRows) /\ rows' \in rows .. MaxRows
           /\ homes' \in [1 .. MaxRows -> 0 .. MaxVaults]
           /\ \A r \in 1 .. rows : homes'[r] = homes[r]
           /\ \A r \in {rows + 1} : r \in 1 .. rows' /\ homes'[r] = mem[a].vault
<1>1. rows \in Nat /\ rows + 1 \in 1 .. MaxRows
  BY InstancesAssumption DEF CopiesInv, TypeOK, NewRow
<1>2. mem[a].vault \in 0 .. MaxVaults
  BY InstancesAssumption DEF CopiesInv, TypeOK, Images
<1> QED BY <1>1, <1>2 DEF CopiesInv, TypeOK, NewRow

LEMMA CopiesChange ==
    ASSUME CopiesInv, NEW a \in Apps, BeginAdd(a) \/ BeginUpdate(a) \/ BeginRemove(a)
    PROVE  CopiesInv'
<1>1. mem[a] \in Images /\ mem[a] # NoFile
  BY DEF CopiesInv, TypeOK, BeginAdd, BeginUpdate, BeginRemove, BeginSave
<1>2. CASE BeginAdd(a)
  BY <1>1, <1>2, NextRow, CopiesBeginSave DEF BeginAdd
<1>3. CASE BeginUpdate(a)
  <2>1. PICK r \in mem[a].rows : BeginSave(a, {r}, {rows + 1})  BY <1>3 DEF BeginUpdate
  <2>2. {r} \in SUBSET (1 .. MaxRows)  BY <1>1 DEF Images
  <2>3. NewRow(a)  BY <1>3 DEF BeginUpdate
  <2> QED BY <1>1, <2>1, <2>2, <2>3, NextRow, CopiesBeginSave
<1>4. CASE BeginRemove(a)
  <2>1. PICK r \in mem[a].rows : BeginSave(a, {r}, {})  BY <1>4 DEF BeginRemove
  <2>2. {r} \in SUBSET (1 .. MaxRows) /\ {} \in SUBSET (1 .. MaxRows)  BY <1>1 DEF Images
  <2>3. rows' = rows /\ homes' = homes  BY <1>4 DEF BeginRemove
  <2>4. rows' \in rows .. MaxRows /\ homes' \in [1 .. MaxRows -> 0 .. MaxVaults]
    BY <2>3, InstancesAssumption DEF CopiesInv, TypeOK
  <2> QED BY <2>1, <2>2, <2>3, <2>4, CopiesBeginSave
<1> QED BY <1>2, <1>3, <1>4

\* What reaches the file is what the copy has in memory.
LEMMA CopiesFinishSave ==
    ASSUME CopiesInv, NEW a \in Apps, FinishSave(a) PROVE CopiesInv'
<1> USE DEF CopiesInv, FinishSave, Leave
<1>1. /\ image[a] = mem[a] /\ mem[a] \in Images /\ mem[a] # NoFile
      /\ st[a] = "Unlocked"
  BY DEF Steps, TypeOK
<1>2. TypeOK'
  <2>1. mem[a].rows \in SUBSET (1 .. MaxRows)  BY <1>1 DEF Images
  <2> QED BY <1>1, <2>1 DEF TypeOK
<1>3. Steps'  BY <1>1 DEF Steps, TypeOK
<1>4. Homes'  BY <1>1 DEF Homes, AtHome, TypeOK
<1>5. Authors'  BY <1>1 DEF Authors, TypeOK
<1>6. Lone'
  <2> SUFFICES ASSUME NEW c \in Apps, writers' = {c}
               PROVE  /\ acked'[c] \subseteq file'.rows
                      /\ pc'[c] = "unlocking" => acked'[c] \subseteq image'[c].rows
                      /\ st'[c] = "Unlocked" => acked'[c] \ dropped'[c] \subseteq mem'[c].rows
    BY DEF Lone
  <2>1. c = a /\ (writers = {a} \/ writers = {})  OBVIOUS
  <2>2. acked[a] \ dropped[a] \subseteq mem[a].rows
    BY <1>1, <2>1 DEF Lone, Authors
  <2>3. acked'[a] \subseteq mem[a].rows /\ pc'[a] = "idle"  BY <2>2 DEF TypeOK
  <2> QED BY <1>1, <2>1, <2>3
<1> QED BY <1>2, <1>3, <1>4, <1>5, <1>6

--------------------------------------------------------------------------

LEMMA CopiesNext == CopiesInv /\ [Next]_vars => CopiesInv'
<1> SUFFICES ASSUME CopiesInv, [Next]_vars PROVE CopiesInv'
  OBVIOUS
<1>1. CASE UNCHANGED vars
  BY <1>1 DEF vars, history, CopiesInv, TypeOK, Steps, Homes, AtHome, Authors, Lone
<1>2. CASE Next
  BY <1>2, CopiesBeginCreate, CopiesBeginUnlock, CopiesFinishCreate, CopiesFinishUnlock,
     CopiesStop, CopiesChange, CopiesFinishSave DEF Next
<1> QED BY <1>1, <1>2

\* Files, memories and steps of every copy stay in their types.
THEOREM TypeCorrect == Spec => []TypeOK
<1>1. Spec => []CopiesInv  BY CopiesInit, CopiesNext, PTL DEF Spec
<1>2. CopiesInv => TypeOK  BY DEF CopiesInv
<1> QED BY <1>1, <1>2, PTL

\* However many copies save over each other, a vault file holds only entries
\* written in the vault whose key seals it.
THEOREM NeverMixed == Spec => []VaultsNeverMix
<1>1. Spec => []CopiesInv  BY CopiesInit, CopiesNext, PTL DEF Spec
<1>2. CopiesInv => VaultsNeverMix  BY DEF CopiesInv, Homes, AtHome, VaultsNeverMix
<1> QED BY <1>1, <1>2, PTL

\* A copy that is the only one to write loses nothing it acknowledged, with
\* any number of others reading, failing and restarting.
THEOREM LoneWriterSafe == Spec => []LoneWriterLosesNothing
<1>1. Spec => []CopiesInv  BY CopiesInit, CopiesNext, PTL DEF Spec
<1>2. CopiesInv => LoneWriterLosesNothing
  BY DEF CopiesInv, Authors, Lone, LoneWriterLosesNothing
<1> QED BY <1>1, <1>2, PTL

--------------------------------------------------------------------------
(* Two copies in create_vault at once.  Nothing locks the file between the *)
(* check and the write (app.rs:170-179), and CreateNeverOverwrites fails.  *)

\* What create_vault does promise: a file it overwrites is never one that this
\* copy wrote itself, in this or an earlier run, but another copy's, which was
\* written while the keys were derived (app.rs:170-179).  The copy cannot have
\* written before: then it would have seen a file and be past "NoVault".
THEOREM OverwritesOnlyRivals ==
    Spec => [][\A a \in Apps : FinishCreate(a) /\ file # NoFile =>
                  a \notin writers /\ \E b \in Apps \ {a} : b \in writers]_vars
<1>1. CopiesInv => (\A a \in Apps : FinishCreate(a) /\ file # NoFile =>
                       a \notin writers /\ \E b \in Apps \ {a} : b \in writers)
  <2> SUFFICES ASSUME CopiesInv, NEW a \in Apps, FinishCreate(a), file # NoFile
               PROVE  a \notin writers /\ \E b \in Apps \ {a} : b \in writers
    OBVIOUS
  <2>1. a \notin writers
    BY DEF CopiesInv, Steps, Authors, FinishCreate, Leave
  <2>2. writers # {} /\ writers \subseteq Apps
    BY DEF CopiesInv, Authors, TypeOK
  <2> QED BY <2>1, <2>2
<1> QED BY <1>1, CopiesInit, CopiesNext, PTL DEF Spec

\* So a program that runs once never creates a vault over another one, whatever
\* fails and however often it is killed and started again.
THEOREM LoneCopyCreatesOnce ==
    ASSUME \A a, b \in Apps : a = b
    PROVE  Spec => CreateNeverOverwrites
<1>1. (\A a \in Apps : FinishCreate(a) /\ file # NoFile =>
          a \notin writers /\ \E b \in Apps \ {a} : b \in writers)
        => (\A a \in Apps : FinishCreate(a) => file = NoFile)
  OBVIOUS
<1> QED BY <1>1, OverwritesOnlyRivals, PTL DEF CreateNeverOverwrites
==========================================================================
