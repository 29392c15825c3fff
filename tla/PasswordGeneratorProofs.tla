---------------------- MODULE PasswordGeneratorProofs ----------------------
(*************************************************************************)
(* Theorems about SecureBuffer and PasswordGenerator for any number of   *)
(* buffers and pages, any lengths, chunk size and random bytes.          *)
(*************************************************************************)
EXTENDS PasswordGenerator, FiniteSetTheorems, TLAPS

(* The heap.  Every call changes one block, so that the invariant says of  *)
(* each block by itself what the properties need: a Vec that came out of   *)
(* a buffer carries no flag, and holds no secret once it is empty, for it  *)
(* may be put back into one.                                               *)
Sound(r) ==
    /\ r.page = NoPage => r.len = 0 /\ ~r.locked
    /\ r.locked => r.owner = "buffer"
    /\ r.owner = "free" \/ (r.owner # "gone" /\ r.len = 0) => r.bytes = "zero"

HeapInv ==
    /\ block \in [Buffers -> Blocks]
    /\ pinned \subseteq Pages /\ disturbed \subseteq Pages
    /\ \A b \in Buffers : Sound(block[b])
    /\ PinsMatchFlags

\* What the invariant says in terms of the checked properties.
LEMMA HeapInvImplies == HeapInv => BufferTypeOK /\ FreedMemoryIsWiped /\ PinsMatchFlags
<1> SUFFICES ASSUME HeapInv PROVE BufferTypeOK /\ FreedMemoryIsWiped /\ PinsMatchFlags
  OBVIOUS
<1>1. BufferTypeOK  BY DEF HeapInv, BufferTypeOK, Sound
<1>2. FreedMemoryIsWiped  BY DEF HeapInv, FreedMemoryIsWiped, Live, Sound
<1> QED BY <1>1, <1>2 DEF HeapInv

\* Nothing is allocated at the start.
LEMMA HeapInit == BufferInit => HeapInv
  BY DEF BufferInit, Freed, HeapInv, Blocks, Sound, PinsMatchFlags

\* A step that gives block b a new content keeps the types and the soundness.
LEMMA OneBlock ==
    ASSUME HeapInv, NEW b \in Buffers, NEW r \in Blocks, Sound(r),
           block' = [block EXCEPT ![b] = r]
    PROVE  /\ block' \in [Buffers -> Blocks]
           /\ block'[b] = r /\ \A c \in Buffers \ {b} : block'[c] = block[c]
           /\ \A c \in Buffers : Sound(block'[c])
<1>1. block' \in [Buffers -> Blocks]  BY DEF HeapInv
<1>2. block'[b] = r /\ \A c \in Buffers \ {b} : block'[c] = block[c]  BY DEF HeapInv
<1>3. \A c \in Buffers : Sound(block'[c])  BY <1>2 DEF HeapInv
<1> QED BY <1>1, <1>2, <1>3

\* If the step moves no flag either, pins and flags agree as before.
LEMMA SameFlags ==
    ASSUME HeapInv, NEW b \in Buffers, NEW r \in Blocks, Sound(r),
           block' = [block EXCEPT ![b] = r],
           r.locked = block[b].locked, block[b].locked => r.page = block[b].page,
           UNCHANGED <<pinned, disturbed>>
    PROVE  HeapInv'
<1>1. /\ block' \in [Buffers -> Blocks] /\ \A c \in Buffers : Sound(block'[c])
      /\ block'[b] = r /\ \A c \in Buffers \ {b} : block'[c] = block[c]
  BY OneBlock
<1>2. \A c \in Buffers, p \in Pages :
          block'[c].locked /\ block'[c].page = p <=> block[c].locked /\ block[c].page = p
  BY <1>1
<1>3. PinsMatchFlags'  BY <1>2 DEF HeapInv, PinsMatchFlags
<1> QED BY <1>1, <1>3 DEF HeapInv

\* A constructor gives a free allocation an unlocked buffer.
LEMMA MakeKeeps ==
    ASSUME HeapInv, NEW b \in Buffers, NEW len \in {0, 1}, NEW bytes \in {"zero", "secret"},
           NEW page \in Pages \cup {NoPage},
           len = 0 => bytes = "zero", page = NoPage => len = 0,
           Make(b, len, bytes, page)
    PROVE  HeapInv'
<1> DEFINE r == [owner |-> "buffer", page |-> page, len |-> len,
                 bytes |-> bytes, locked |-> FALSE]
<1>1. r \in Blocks /\ Sound(r)  BY DEF Blocks, Sound
<1>2. ~block[b].locked
  <2>1. Sound(block[b]) /\ block[b] \in Blocks  BY DEF HeapInv
  <2> QED BY <2>1 DEF Sound, Make, Blocks
<1>3. block' = [block EXCEPT ![b] = r] /\ UNCHANGED <<pinned, disturbed>>  BY DEF Make
<1>4. r.locked = block[b].locked
  <2>1. block[b].locked \in BOOLEAN  BY DEF HeapInv, Blocks
  <2> QED BY <1>2, <2>1
<1> HIDE DEF r
<1> QED BY <1>1, <1>2, <1>3, <1>4, SameFlags

\* Every other method that moves no flag, and what callers do with a Vec.
LEMMA MethodKeeps ==
    ASSUME HeapInv, NEW b \in Buffers,
           \/ Write(b) \/ Wipe(b) \/ FromVec(b)
           \/ ScratchUsed(b) \/ SliceWiped(b) \/ VecFreed(b)
    PROVE  HeapInv'
<1> DEFINE o == block[b]
<1>0. o \in Blocks /\ Sound(o) /\ block \in [Buffers -> Blocks]  BY DEF HeapInv
<1>00. o.owner = "vec" => o.locked = FALSE  BY <1>0 DEF Blocks, Sound
<1>1. CASE Write(b)
  <2> DEFINE r == [o EXCEPT !.bytes = "secret"]
  <2>1. block' = [block EXCEPT ![b] = r]  BY <1>0, <1>1 DEF Write
  <2>2. r \in Blocks /\ Sound(r) /\ r.locked = o.locked /\ r.page = o.page
    BY <1>0, <1>1 DEF Write, Live, Blocks, Sound
  <2>3. UNCHANGED <<pinned, disturbed>>  BY <1>1 DEF Write
  <2> HIDE DEF r
  <2> QED BY <2>1, <2>2, <2>3, SameFlags
<1>2. CASE Wipe(b) \/ ScratchUsed(b)
  <2> DEFINE r == [o EXCEPT !.bytes = "zero", !.len = 0]
  <2>1. block' = [block EXCEPT ![b] = r]  BY <1>0, <1>2 DEF Wipe, ScratchUsed
  <2>2. r \in Blocks /\ Sound(r) /\ r.locked = o.locked /\ r.page = o.page
    BY <1>0 DEF Blocks, Sound
  <2>3. UNCHANGED <<pinned, disturbed>>  BY <1>2 DEF Wipe, ScratchUsed
  <2> HIDE DEF r
  <2> QED BY <2>1, <2>2, <2>3, SameFlags
<1>3. CASE FromVec(b)
  <2> DEFINE r == [o EXCEPT !.owner = "buffer", !.locked = FALSE]
  <2>1. block' = [block EXCEPT ![b] = r]  BY <1>0, <1>3 DEF FromVec
  <2>2. r \in Blocks /\ Sound(r) /\ r.locked = o.locked /\ r.page = o.page
    BY <1>0, <1>00, <1>3 DEF FromVec, Blocks, Sound
  <2>3. UNCHANGED <<pinned, disturbed>>  BY <1>3 DEF FromVec
  <2> HIDE DEF r
  <2> QED BY <2>1, <2>2, <2>3, SameFlags
<1>4. CASE SliceWiped(b)
  <2> DEFINE r == [o EXCEPT !.bytes = "zero"]
  <2>1. block' = [block EXCEPT ![b] = r]  BY <1>0, <1>4 DEF SliceWiped
  <2>2. r \in Blocks /\ Sound(r) /\ r.locked = o.locked /\ r.page = o.page
    BY <1>0, <1>4 DEF SliceWiped, Blocks, Sound
  <2>3. UNCHANGED <<pinned, disturbed>>  BY <1>4 DEF SliceWiped
  <2> HIDE DEF r
  <2> QED BY <2>1, <2>2, <2>3, SameFlags
<1>5. CASE VecFreed(b)
  <2> DEFINE r == Freed("gone", o.bytes)
  <2>1. block' = [block EXCEPT ![b] = r]  BY <1>0, <1>5 DEF VecFreed
  <2>2. r \in Blocks /\ Sound(r) /\ r.locked = o.locked /\ ~o.locked
    BY <1>0, <1>00, <1>5 DEF VecFreed, Freed, Blocks, Sound
  <2>3. UNCHANGED <<pinned, disturbed>>  BY <1>5 DEF VecFreed
  <2> HIDE DEF r
  <2> QED BY <2>1, <2>2, <2>3, SameFlags
<1> QED BY <1>1, <1>2, <1>3, <1>4, <1>5

\* A page becomes locked together with the flag of the buffer on it.
LEMMA LockKeeps == ASSUME HeapInv, NEW b \in Buffers, TryLock(b) PROVE HeapInv'
<1> DEFINE o == block[b]
           r == [o EXCEPT !.locked = TRUE]
<1>0. o \in Blocks /\ Sound(o) /\ block \in [Buffers -> Blocks]  BY DEF HeapInv
<1>1. block' = [block EXCEPT ![b] = r]  BY <1>0 DEF TryLock
<1>2. r \in Blocks /\ Sound(r) /\ r.locked /\ r.page = o.page /\ o.page \in Pages
  <2>1. o.owner = "buffer" /\ o.len = 1  BY <1>0 DEF TryLock, Live, Blocks
  <2>2. o.page \in Pages  BY <1>0, <2>1 DEF Blocks, Sound
  <2>3. r \in Blocks /\ r.locked /\ r.page = o.page  BY <1>0 DEF Blocks
  <2>4. Sound(r)  BY <1>0, <2>1, <2>2, BufferAssumption DEF Blocks, Sound
  <2> QED BY <2>2, <2>3, <2>4
<1> HIDE DEF r
<1>3. /\ block' \in [Buffers -> Blocks] /\ \A c \in Buffers : Sound(block'[c])
      /\ block'[b] = r /\ \A c \in Buffers \ {b} : block'[c] = block[c]
  BY <1>1, <1>2, OneBlock
<1>4. pinned' = pinned \cup {o.page} /\ disturbed' = disturbed \ {o.page}
  BY DEF TryLock, SystemLocks
<1>5. PinsMatchFlags'
  <2> SUFFICES ASSUME NEW p \in Pages, p \notin disturbed'
               PROVE  p \in pinned' <=> \E c \in Buffers : block'[c].locked /\ block'[c].page = p
    BY DEF PinsMatchFlags
  <2>1. CASE p = o.page  BY <1>2, <1>3, <1>4, <2>1
  <2>2. CASE p # o.page
    <3>1. \A c \in Buffers : block'[c].locked /\ block'[c].page = p
                               <=> block[c].locked /\ block[c].page = p
      BY <1>2, <1>3, <2>2, <1>0 DEF TryLock
    <3>2. p \notin disturbed /\ (p \in pinned' <=> p \in pinned)  BY <1>4, <2>2
    <3> QED BY <3>1, <3>2 DEF HeapInv, PinsMatchFlags
  <2> QED BY <2>1, <2>2
<1> QED BY <1>2, <1>3, <1>4, <1>5 DEF HeapInv

\* The flag goes: with the page, with a neighbour still claiming it, or into
\* the history of pages where the two came apart.
LEMMA ReleaseKeeps ==
    ASSUME HeapInv, NEW b \in Buffers, IntoVec(b) \/ Drop(b) PROVE HeapInv'
<1> DEFINE o == block[b]
<1>0. o \in Blocks /\ Sound(o) /\ block \in [Buffers -> Blocks]  BY DEF HeapInv
<1>1. PICK r \in Blocks : block' = [block EXCEPT ![b] = r] /\ Sound(r) /\ ~r.locked
  <2>1. CASE IntoVec(b)
    <3> DEFINE v == [o EXCEPT !.owner = "vec", !.locked = FALSE]
    <3>1. block' = [block EXCEPT ![b] = v]  BY <1>0, <2>1 DEF IntoVec
    <3>2. v \in Blocks /\ Sound(v) /\ ~v.locked
      BY <1>0, <2>1 DEF IntoVec, Live, Blocks, Sound
    <3> HIDE DEF v
    <3> QED BY <3>1, <3>2
  <2>2. CASE Drop(b)
    <3>1. block' = [block EXCEPT ![b] = Freed("free", "zero")]  BY <2>2 DEF Drop
    <3>2. /\ Freed("free", "zero") \in Blocks /\ Sound(Freed("free", "zero"))
          /\ ~Freed("free", "zero").locked
      BY DEF Freed, Blocks, Sound
    <3> QED BY <3>1, <3>2
  <2> QED BY <2>1, <2>2
<1>2. /\ block' \in [Buffers -> Blocks] /\ \A c \in Buffers : Sound(block'[c])
      /\ ~block'[b].locked /\ \A c \in Buffers \ {b} : block'[c] = block[c]
  BY <1>1, OneBlock
<1>3. o.locked => o.page \in Pages  BY <1>0 DEF Blocks, Sound
<1>4. pinned' \subseteq Pages /\ disturbed' \subseteq Pages
  BY <1>3 DEF HeapInv, IntoVec, Drop, SystemUnlocks, Unlocks
<1>5. PinsMatchFlags'
  <2> SUFFICES ASSUME NEW p \in Pages, p \notin disturbed'
               PROVE  p \in pinned' <=> \E c \in Buffers : block'[c].locked /\ block'[c].page = p
    BY DEF PinsMatchFlags
  <2>1. CASE ~o.locked \/ o.page # p
    <3>1. p \notin disturbed /\ (p \in pinned' <=> p \in pinned)
      BY <2>1 DEF IntoVec, Drop, SystemUnlocks, Unlocks
    <3>2. \A c \in Buffers : block'[c].locked /\ block'[c].page = p
                               <=> block[c].locked /\ block[c].page = p
      BY <1>2, <2>1
    <3> QED BY <3>1, <3>2 DEF HeapInv, PinsMatchFlags
  <2>2. CASE o.locked /\ o.page = p
    <3>1. \A c \in Buffers : block'[c].locked /\ block'[c].page = p
                               <=> c \in LockedNeighbours(b)
      BY <1>2, <2>2 DEF LockedNeighbours
    <3>2. CASE Drop(b) /\ Unlocks(b) /\ LockedNeighbours(b) = {}
      <4>1. p \notin pinned'  BY <2>2, <3>2 DEF Drop, SystemUnlocks
      <4> QED BY <3>1, <3>2, <4>1
    <3>3. CASE LockedNeighbours(b) # {} /\ ~(Drop(b) /\ Unlocks(b))
      <4>1. p \notin disturbed /\ pinned' = pinned
        BY <2>2, <3>3 DEF IntoVec, Drop
      <4>2. p \in pinned  BY <2>2, <4>1 DEF HeapInv, PinsMatchFlags
      <4> QED BY <3>1, <3>3, <4>1, <4>2 DEF LockedNeighbours
    <3>4. CASE LockedNeighbours(b) = {} /\ ~(Drop(b) /\ Unlocks(b))
      BY <2>2, <3>4 DEF IntoVec, Drop
    <3>5. CASE LockedNeighbours(b) # {} /\ Drop(b) /\ Unlocks(b)
      BY <2>2, <3>5 DEF Drop
    <3> QED BY <3>2, <3>3, <3>4, <3>5
  <2> QED BY <2>1, <2>2
<1> QED BY <1>2, <1>4, <1>5 DEF HeapInv

\* Every call on a buffer keeps the heap in order.
LEMMA HeapNext == ASSUME HeapInv, BufferNext \/ UNCHANGED heap PROVE HeapInv'
<1>1. ASSUME NEW b \in Buffers, New(b) \/ Zeroed(b) \/ FromSlice(b) PROVE HeapInv'
  <2>1. CASE New(b)  BY <2>1, MakeKeeps DEF New
  <2>2. CASE Zeroed(b)
    <3> PICK page \in Pages : Make(b, 1, "zero", page)  BY <2>2 DEF Zeroed
    <3> QED BY MakeKeeps, BufferAssumption
  <2>3. CASE FromSlice(b)
    <3> PICK page \in Pages : Make(b, 1, "secret", page)  BY <2>3 DEF FromSlice
    <3> QED BY MakeKeeps, BufferAssumption
  <2> QED BY <1>1, <2>1, <2>2, <2>3
<1>2. ASSUME NEW b \in Buffers, NEW c \in Buffers, Duplicate(b, c) PROVE HeapInv'
  <2> PICK page \in IF block[b].len = 0 THEN {NoPage} ELSE Pages :
         Make(c, block[b].len, block[b].bytes, page)
    BY <1>2 DEF Duplicate
  <2>1. /\ block[b].len \in {0, 1} /\ block[b].bytes \in {"zero", "secret"}
        /\ block[b].len = 0 => block[b].bytes = "zero"
    BY <1>2 DEF Duplicate, HeapInv, Blocks, Sound, Live
  <2>2. page \in Pages \cup {NoPage} /\ (page = NoPage => block[b].len = 0)
    BY BufferAssumption
  <2> QED BY <2>1, <2>2, MakeKeeps
<1>3. CASE UNCHANGED heap
  BY <1>3 DEF heap, HeapInv, PinsMatchFlags
<1> QED BY <1>1, <1>2, <1>3, MethodKeeps, LockKeeps, ReleaseKeeps DEF BufferNext

--------------------------------------------------------------------------
(* The generator.  While a call runs, its buffer is live and has room for  *)
(* the characters still to come, and what was written so far comes from    *)
(* the classes asked for.                                                  *)

GeneratorTypes ==
    /\ pc \in {"idle", "drawing"}
    /\ filled \in Nat /\ chunk \in 0 .. ChunkBytes
    /\ drawn \subseteq Classes
    /\ shown \in BOOLEAN /\ error \in BOOLEAN
    /\ result \in {"empty", "generated", "typed"}

AtRest == pc = "idle" => out = NoBuffer /\ filled = 0 /\ drawn = {} /\ chunk = 0

Running ==
    pc = "drawing" =>
        /\ out \in Buffers /\ Live(out) /\ block[out].len = 1
        /\ asked.classes \subseteq Classes /\ asked.classes # {}
        /\ asked.length \in Nat /\ InBounds(asked.length)
        /\ filled <= asked.length
        /\ drawn \subseteq asked.classes
        /\ filled > 0 => drawn # {} /\ block[out].bytes = "secret"

GeneratorInv ==
    /\ HeapInv /\ GeneratorTypes
    /\ AtRest /\ Running /\ FailureLeavesNoPassword

LEMMA GeneratorInvImplies == GeneratorInv => TypeOK /\ GeneratedAsAsked
<1> SUFFICES ASSUME GeneratorInv PROVE TypeOK /\ GeneratedAsAsked
  OBVIOUS
<1> USE DEF GeneratorInv, GeneratorTypes, AtRest, Running
<1>1. TypeOK  BY HeapInvImplies, GeneratorAssumption DEF TypeOK
<1>2. GeneratedAsAsked  BY DEF GeneratedAsAsked
<1> QED BY <1>1, <1>2

\* What each class adds to the alphabet.
LEMMA Shares ==
    ASSUME NEW classes
    PROVE  /\ Share(classes, "lowercase") = IF "lowercase" \in classes THEN 26 ELSE 0
           /\ Share(classes, "uppercase") = IF "uppercase" \in classes THEN 26 ELSE 0
           /\ Share(classes, "digits") = IF "digits" \in classes THEN 10 ELSE 0
           /\ Share(classes, "symbols") = IF "symbols" \in classes THEN 26 ELSE 0
  BY DEF Share, Width

\* Any index into the alphabet falls into one of the chosen classes: their
\* intervals follow each other without a gap.
LEMMA ClassAtIsChosen ==
    ASSUME NEW classes \in SUBSET Classes, NEW i \in 0 .. Size(classes) - 1
    PROVE  ClassAt(classes, i) \in classes
<1>1. \E class \in classes :
          i \in Start(classes, class) .. Start(classes, class) + Width[class] - 1
  <2> DEFINE l == Share(classes, "lowercase")
             u == Share(classes, "uppercase")
             d == Share(classes, "digits")
             s == Share(classes, "symbols")
  <2>1. /\ l = IF "lowercase" \in classes THEN 26 ELSE 0
        /\ u = IF "uppercase" \in classes THEN 26 ELSE 0
        /\ d = IF "digits" \in classes THEN 10 ELSE 0
        /\ s = IF "symbols" \in classes THEN 26 ELSE 0
    BY Shares
  <2>2. Size(classes) = l + u + d + s  BY DEF Size
  <2>3. /\ Start(classes, "lowercase") = 0
        /\ Start(classes, "uppercase") = l
        /\ Start(classes, "digits") = l + u
        /\ Start(classes, "symbols") = l + u + d
    BY DEF Start, Size, Share, Before, Width
  <2>4. /\ Width["lowercase"] = 26 /\ Width["uppercase"] = 26
        /\ Width["digits"] = 10 /\ Width["symbols"] = 26
    BY DEF Width
  <2> HIDE DEF l, u, d, s
  <2>5. CASE i < l  BY <2>1, <2>3, <2>4, <2>5
  <2>6. CASE l <= i /\ i < l + u  BY <2>1, <2>3, <2>4, <2>6
  <2>7. CASE l + u <= i /\ i < l + u + d  BY <2>1, <2>3, <2>4, <2>7
  <2>8. CASE l + u + d <= i  BY <2>1, <2>2, <2>3, <2>4, <2>8
  <2> QED BY <2>1, <2>5, <2>6, <2>7, <2>8
<1> QED BY <1>1 DEF ClassAt

\* The remainder of an accepted byte is such an index.
LEMMA RemainderIsIndex ==
    ASSUME NEW classes \in SUBSET Classes, classes # {}, NEW byte \in 0 .. 255
    PROVE  byte % Size(classes) \in 0 .. Size(classes) - 1
<1>1. Size(classes) \in Nat \ {0}
  <2>1. PICK class \in Classes : class \in classes  OBVIOUS
  <2>2. /\ Share(classes, "lowercase") \in Nat /\ Share(classes, "uppercase") \in Nat
        /\ Share(classes, "digits") \in Nat /\ Share(classes, "symbols") \in Nat
    BY Shares
  <2>3. Share(classes, class) > 0  BY <2>1, Shares DEF Classes
  <2> QED BY <2>1, <2>2, <2>3 DEF Size, Classes
<1>2. \A n \in Nat \ {0} : byte % n \in 0 .. n - 1  OBVIOUS
<1> QED BY <1>1, <1>2

LEMMA GeneratorInit == Init => GeneratorInv
<1> SUFFICES ASSUME Init PROVE GeneratorInv
  OBVIOUS
<1>1. HeapInv  BY HeapInit DEF Init
<1>2. GeneratorTypes /\ AtRest /\ Running
  <2>1. shown \in BOOLEAN /\ error \in BOOLEAN  BY DEF Init
  <2> QED BY <2>1, GeneratorAssumption DEF Init, GeneratorTypes, AtRest, Running
<1>3. FailureLeavesNoPassword  BY DEF Init, FailureLeavesNoPassword
<1> QED BY <1>1, <1>2, <1>3 DEF GeneratorInv

\* The heap under the calls generate makes.
LEMMA HeapCalls ==
    ASSUME HeapInv, NEW b \in Buffers, Zeroed(b) \/ Write(b) \/ Drop(b)
    PROVE  HeapInv'
  BY HeapNext DEF BufferNext

LEMMA GeneratorNext == GeneratorInv /\ [Next]_vars => GeneratorInv'
<1> SUFFICES ASSUME GeneratorInv, [Next]_vars PROVE GeneratorInv'
  OBVIOUS
<1> USE DEF GeneratorInv
<1>1. ASSUME NEW classes \in Asked, NEW n \in Lengths, Refuse(classes, n) PROVE GeneratorInv'
  <2>1. HeapInv'  BY <1>1, HeapNext DEF Refuse
  <2> QED BY <1>1, <2>1
      DEF Refuse, Failed, heap, call, GeneratorTypes, AtRest, Running,
          FailureLeavesNoPassword
<1>2. ASSUME NEW classes \in Asked, NEW n \in Lengths, Begin(classes, n) PROVE GeneratorInv'
  <2>1. PICK b \in Buffers : Zeroed(b) /\ out' = b  BY <1>2 DEF Begin
  <2>2. HeapInv'  BY <2>1, HeapCalls
  <2>3. block'[b].owner = "buffer" /\ block'[b].len = 1
    BY <2>1 DEF Zeroed, Make, HeapInv
  <2>4. asked'.classes = classes /\ asked'.length = n /\ pc' = "drawing"  BY <1>2 DEF Begin
  <2>5. filled' = 0 /\ drawn' = {} /\ chunk' = chunk /\ window' = window
    BY <1>2 DEF Begin, AtRest
  <2>6. Running'
    BY <1>2, <2>1, <2>3, <2>4, <2>5, GeneratorAssumption
    DEF Running, Begin, Live, InBounds
  <2>7. GeneratorTypes' /\ AtRest' /\ FailureLeavesNoPassword'
    BY <2>4, <2>5 DEF GeneratorTypes, AtRest, FailureLeavesNoPassword, window
  <2> QED BY <2>2, <2>6, <2>7
<1>3. CASE DrawChunk
  <2>1. HeapInv'  BY <1>3, HeapNext DEF DrawChunk
  <2>2. chunk' \in 0 .. ChunkBytes  BY <1>3, GeneratorAssumption DEF DrawChunk
  <2> QED BY <1>3, <2>1, <2>2
      DEF DrawChunk, Drawing, heap, window, GeneratorTypes, AtRest, Running,
          FailureLeavesNoPassword, Live, InBounds
<1>4. CASE RngFails \/ Return
  <2>1. pc = "drawing" /\ Drop(out) /\ Reset  BY <1>4 DEF RngFails, Return, Drawing
  <2>2. HeapInv'  BY <2>1, HeapCalls DEF Running
  <2>3. FailureLeavesNoPassword'
    <3>1. CASE RngFails
      BY <3>1 DEF RngFails, Failed, FailureLeavesNoPassword
    <3>2. CASE Return
      <4>1. error' = FALSE  BY <3>2 DEF Return
      <4> QED BY <4>1 DEF FailureLeavesNoPassword
    <3> QED BY <1>4, <3>1, <3>2
  <2>4. GeneratorTypes'
    <3>1. error' \in BOOLEAN
      <4>1. error' = TRUE \/ error' = FALSE  BY <1>4 DEF RngFails, Return, Failed
      <4> QED BY <4>1
    <3>2. shown' = shown /\ result' \in {"empty", "generated"}
      BY <1>4 DEF RngFails, Return, Failed
    <3> QED BY <2>1, <3>1, <3>2, GeneratorAssumption DEF Reset, GeneratorTypes
  <2> QED BY <2>1, <2>2, <2>3, <2>4 DEF Reset, AtRest, Running
<1>5. ASSUME NEW byte \in Samples, RejectByte(byte) PROVE GeneratorInv'
  <2>1. HeapInv'  BY <1>5, HeapNext DEF RejectByte
  <2>2. chunk' \in 0 .. ChunkBytes
    BY <1>5, GeneratorAssumption DEF RejectByte, GeneratorTypes
  <2> QED BY <1>5, <2>1, <2>2
      DEF RejectByte, Drawing, heap, window, GeneratorTypes, AtRest, Running,
          FailureLeavesNoPassword, Live, InBounds
<1>6. ASSUME NEW byte \in Samples, AcceptByte(byte) PROVE GeneratorInv'
  <2> DEFINE class == ClassAt(asked.classes, byte % Size(asked.classes))
  <2>1. pc = "drawing" /\ filled < asked.length /\ Write(out)
    BY <1>6 DEF AcceptByte, Drawing
  <2>2. HeapInv'  BY <2>1, HeapCalls DEF Running
  <2>3. class \in asked.classes
    <3>1. byte \in 0 .. 255  BY GeneratorAssumption
    <3>2. asked.classes \in SUBSET Classes /\ asked.classes # {}  BY <2>1 DEF Running
    <3> QED BY <3>1, <3>2, RemainderIsIndex, ClassAtIsChosen
  <2>4. /\ filled' = filled + 1 /\ drawn' = drawn \cup {class}
        /\ UNCHANGED <<pc, asked, out, window>> /\ chunk' = chunk - 1 /\ chunk > 0
    BY <1>6 DEF AcceptByte
  <2> HIDE DEF class
  <2>5. Live(out)' /\ block'[out].len = 1 /\ block'[out].bytes = "secret"
    BY <2>1, <2>4 DEF Write, Live, Running, HeapInv, Blocks
  <2>6. Running'
    BY <2>1, <2>3, <2>4, <2>5 DEF Running, GeneratorTypes, InBounds
  <2>7. GeneratorTypes'
    BY <2>1, <2>3, <2>4, GeneratorAssumption DEF GeneratorTypes, Running, window
  <2>8. AtRest' /\ FailureLeavesNoPassword'
    BY <2>1, <2>4 DEF AtRest, FailureLeavesNoPassword, window
  <2> QED BY <2>2, <2>6, <2>7, <2>8
<1>7. CASE Open \/ Close \/ Type \/ Use \/ DropDraft
  <2>1. pc = "idle" /\ UNCHANGED <<heap, call>>
    BY <1>7 DEF Open, Close, Type, Use, DropDraft, Set
  <2>2. HeapInv'  BY <2>1, HeapNext
  <2>3. \/ error' = error /\ result' = result
        \/ result' \in {"empty", "typed"} /\ error' \in BOOLEAN
    BY <1>7 DEF Open, Close, Type, Use, DropDraft, Set, GeneratorTypes
  <2>4. shown' \in BOOLEAN
    BY <1>7 DEF Open, Close, Type, Use, DropDraft, Set, GeneratorTypes
  <2>5. FailureLeavesNoPassword'
    <3>1. CASE error' = error /\ result' = result  BY <3>1 DEF FailureLeavesNoPassword
    <3>2. CASE result' \in {"empty", "typed"}  BY <3>2 DEF FailureLeavesNoPassword
    <3> QED BY <2>3, <3>1, <3>2
  <2>6. GeneratorTypes'  BY <2>1, <2>3, <2>4 DEF call, GeneratorTypes
  <2> QED BY <2>1, <2>2, <2>5, <2>6 DEF call, AtRest, Running
<1>8. CASE Elsewhere
  <2>1. HeapInv'  BY <1>8, HeapNext DEF Elsewhere
  <2> QED BY <1>8, <2>1
      DEF Elsewhere, call, window, GeneratorTypes, AtRest, Running,
          FailureLeavesNoPassword
<1>9. CASE UNCHANGED vars
  <2>1. HeapInv'  BY <1>9, HeapNext DEF vars
  <2> QED BY <1>9, <2>1
      DEF vars, heap, call, window, GeneratorTypes, AtRest, Running, Live,
          FailureLeavesNoPassword, InBounds
<1> QED BY <1>1, <1>2, <1>3, <1>4, <1>5, <1>6, <1>7, <1>8, <1>9 DEF Next, Generate, Draw

\* The state of heap, call and window stays in its type.
THEOREM TypeCorrect == Spec => []TypeOK
<1>1. Spec => []GeneratorInv  BY GeneratorInit, GeneratorNext, PTL DEF Spec
<1> QED BY <1>1, GeneratorInvImplies, PTL

\* Whatever the program does with its buffers, what the allocator gets back
\* holds no secret.
THEOREM NothingLeftBehind == Spec => []FreedMemoryIsWiped
<1>1. Spec => []GeneratorInv  BY GeneratorInit, GeneratorNext, PTL DEF Spec
<1>2. GeneratorInv => FreedMemoryIsWiped  BY HeapInvImplies DEF GeneratorInv
<1> QED BY <1>1, <1>2, PTL

\* The pages locked are those of the buffers that claim it, but for the three
\* ways in which a sequence of legal calls parts them.
THEOREM PinsFollowFlags == Spec => []PinsMatchFlags
<1>1. Spec => []GeneratorInv  BY GeneratorInit, GeneratorNext, PTL DEF Spec
<1>2. GeneratorInv => PinsMatchFlags  BY HeapInvImplies DEF GeneratorInv
<1> QED BY <1>1, <1>2, PTL

\* A password has the length and the classes asked for, for every chunk size
\* and whatever bytes the random source gives.
THEOREM PasswordAsAsked == Spec => []GeneratedAsAsked
<1>1. Spec => []GeneratorInv  BY GeneratorInit, GeneratorNext, PTL DEF Spec
<1> QED BY <1>1, GeneratorInvImplies, PTL

\* An error and a generated password are never shown together.
THEOREM NoPasswordAfterFailure == Spec => []FailureLeavesNoPassword
<1>1. Spec => []GeneratorInv  BY GeneratorInit, GeneratorNext, PTL DEF Spec
<1> QED BY <1>1, PTL DEF GeneratorInv

--------------------------------------------------------------------------
(* The draw.  A byte is taken if it lies below the largest multiple k * n  *)
(* of the alphabet's size n in 255, and q -> q * n + i pairs the numbers   *)
(* below k with the taken bytes that give character i.                     *)

\* Quotient and remainder give the number back.
LEMMA Quotient ==
    ASSUME NEW n \in Nat \ {0}, NEW b \in Nat
    PROVE  (b \div n) * n + (b % n) = b
  BY SMT

\* Below a multiple k * n, each remainder of n turns up k times.
LEMMA EachRemainderEquallyOften ==
    ASSUME NEW n \in Nat \ {0}, NEW k \in Nat, NEW i \in 0 .. n - 1
    PROVE  Cardinality({b \in 0 .. k * n - 1 : b % n = i}) = k
<1> DEFINE T == {b \in 0 .. k * n - 1 : b % n = i}
           f == [q \in 0 .. k - 1 |-> q * n + i]
<1>1. ASSUME NEW q \in 0 .. k - 1
      PROVE  q * n + i \in T /\ (q * n + i) \div n = q
  <2>1. (q * n + i) % n = i /\ (q * n + i) \div n = q  OBVIOUS
  <2>2. q * n + i \in 0 .. k * n - 1  OBVIOUS
  <2> QED BY <2>1, <2>2
<1>2. ASSUME NEW b \in T
      PROVE  b \div n \in 0 .. k - 1 /\ (b \div n) * n + i = b
  <2>1. b \div n \in 0 .. k - 1  OBVIOUS
  <2>2. (b \div n) * n + i = b  BY Quotient
  <2> QED BY <2>1, <2>2
<1> HIDE DEF T
<1>3. f \in Bijection(0 .. k - 1, T)
  <2>1. f \in [0 .. k - 1 -> T]  BY <1>1
  <2>2. \A p, q \in 0 .. k - 1 : f[p] = f[q] => p = q
    <3> SUFFICES ASSUME NEW p \in 0 .. k - 1, NEW q \in 0 .. k - 1, f[p] = f[q] PROVE p = q
      OBVIOUS
    <3>1. p * n + i = q * n + i  OBVIOUS
    <3>2. (p * n + i) \div n = p /\ (q * n + i) \div n = q  BY <1>1
    <3> QED BY <3>1, <3>2
  <2>3. \A b \in T : \E q \in 0 .. k - 1 : f[q] = b
    <3> SUFFICES ASSUME NEW b \in T PROVE \E q \in 0 .. k - 1 : f[q] = b
      OBVIOUS
    <3>1. f[b \div n] = b  BY <1>2
    <3> QED BY <1>2, <3>1
  <2> QED BY <2>1, <2>2, <2>3 DEF Bijection, Injection, Surjection, IsInjective
<1>4. IsFiniteSet(0 .. k - 1) /\ Cardinality(0 .. k - 1) = k
  BY FS_Interval
<1>5. Cardinality(T) = k
  BY <1>3, <1>4, FS_Bijection DEF ExistsBijection
<1> QED BY <1>5 DEF T

\* The alphabet has one of seven sizes, and none of them divides 256.
LEMMA AlphabetSizes ==
    ASSUME NEW classes \in SUBSET Classes, classes # {}
    PROVE  Size(classes) \in {10, 26, 36, 52, 62, 78, 88}
<1>1. \E class \in Classes : class \in classes  OBVIOUS
<1> QED BY <1>1, Shares DEF Size, Classes

\* Every alphabet the program can put together is drawn from fairly.
LEMMA DrawIsFair ==
    ASSUME NEW classes \in SUBSET Classes, classes # {}
    PROVE  Fair(classes)
<1> DEFINE n == Size(classes)
           k == 255 \div n
           taken == {byte \in 0 .. 255 : Accepted(classes, byte)}
<1>1. n \in {10, 26, 36, 52, 62, 78, 88}  BY AlphabetSizes
<1> HIDE DEF n
<1>2. n \in Nat \ {0} /\ k \in Nat /\ k * n > 256 - n /\ k * n < 256
      /\ 256 \div n = k /\ ~(n > 255)
  BY <1>1, SMT
<1> HIDE DEF k
<1>3. Limit(n) = k * n  BY <1>2 DEF Limit, k
<1>4. taken = 0 .. k * n - 1
  <2>1. k * n \in Nat /\ k * n < 256  BY <1>2
  <2>2. \A byte \in 0 .. 255 : Accepted(classes, byte) <=> byte < k * n
    BY <1>3 DEF Accepted, n
  <2> DEFINE m == k * n
  <2> HIDE DEF m
  <2>3. {byte \in 0 .. 255 : byte < m} = 0 .. m - 1
    BY <2>1 DEF m
  <2> QED BY <2>2, <2>3 DEF m
<1> HIDE DEF taken
<1>5. Cardinality(taken) > 256 - n
  <2>1. Cardinality(0 .. k * n - 1) = k * n  BY <1>1, <1>2, FS_Interval
  <2> QED BY <1>2, <1>4, <2>1
<1>6. \A i \in 0 .. n - 1 : Cardinality({byte \in taken : byte % n = i}) = 256 \div n
  <2> SUFFICES ASSUME NEW i \in 0 .. n - 1
               PROVE  Cardinality({byte \in taken : byte % n = i}) = k
    BY <1>2
  <2>1. Cardinality({byte \in 0 .. k * n - 1 : byte % n = i}) = k
    BY <1>2, EachRemainderEquallyOften
  <2> QED BY <1>4, <2>1
<1> QED BY <1>5, <1>6 DEF Fair, n, taken

\* No character of a generated password is likelier than another, whichever
\* classes were chosen: of the bytes that are accepted, equally many give each
\* character, and fewer are rejected than the alphabet has characters
\* (password_generator.rs:130-133).
THEOREM DrawsAreUniform == Spec => []DrawIsUniform
<1>1. GeneratorInv => DrawIsUniform
  <2> SUFFICES ASSUME GeneratorInv, pc = "drawing" PROVE Fair(asked.classes)
    BY DEF DrawIsUniform
  <2>1. asked.classes \in SUBSET Classes /\ asked.classes # {}
    BY DEF GeneratorInv, Running
  <2> QED BY <2>1, DrawIsFair
<1> QED BY <1>1, GeneratorInit, GeneratorNext, PTL DEF Spec

--------------------------------------------------------------------------
(* generate as one more user of SecureBuffer *)

\* A step of the generator or its window touches the heap only by a call of
\* the type on a buffer that is generate's own.
LEMMA HeapSteps == GeneratorInv /\ [Next]_vars => [BufferNext]_heap
<1> SUFFICES ASSUME GeneratorInv, [Next]_vars PROVE [BufferNext]_heap
  OBVIOUS
<1>1. ASSUME NEW b \in Buffers, Zeroed(b) \/ Write(b) \/ Drop(b) PROVE BufferNext
  BY <1>1 DEF BufferNext
<1>2. CASE UNCHANGED heap
  BY <1>2
<1>3. ASSUME NEW classes \in Asked, NEW n \in Lengths, Generate(classes, n)
      PROVE  [BufferNext]_heap
  <2>1. CASE Refuse(classes, n)  BY <2>1, <1>2 DEF Refuse
  <2>2. CASE Begin(classes, n)  BY <2>2, <1>1 DEF Begin
  <2> QED BY <1>3, <2>1, <2>2 DEF Generate
<1>4. CASE Draw \/ Return
  <2>1. pc = "drawing"
    BY <1>4 DEF Draw, Return, DrawChunk, RngFails, RejectByte, AcceptByte, Drawing
  <2>2. out \in Buffers  BY <2>1 DEF GeneratorInv, Running
  <2>3. UNCHANGED heap \/ Write(out) \/ Drop(out)
    BY <1>4 DEF Draw, Return, DrawChunk, RngFails, RejectByte, AcceptByte
  <2> QED BY <1>1, <1>2, <2>2, <2>3
<1>5. CASE Open \/ Close \/ Type \/ Use \/ DropDraft
  <2>1. UNCHANGED heap  BY <1>5 DEF Open, Close, Type, Use, DropDraft, Set
  <2> QED BY <2>1, <1>2
<1>6. CASE Elsewhere
  BY <1>6 DEF Elsewhere
<1>7. CASE UNCHANGED vars
  BY <1>7, <1>2 DEF vars
<1> QED BY <1>3, <1>4, <1>5, <1>6, <1>7 DEF Next

\* generate is a lawful user of SecureBuffer.  While it runs it owns a live
\* buffer that is not empty, so the guards of the type's calls never cut off a
\* step the code would take; and each of its steps, the early return of `?`
\* included, is one call of the type or none (password_generator.rs:140-168
\* over security.rs).
THEOREM GeneratorUsesBuffers ==
    Spec => /\ [](pc = "drawing" => out \in Buffers /\ Live(out) /\ block[out].len > 0)
            /\ BufferInit /\ [][BufferNext]_heap
<1>1. Init => BufferInit  BY DEF Init
<1>2. GeneratorInv => (pc = "drawing" => out \in Buffers /\ Live(out) /\ block[out].len > 0)
  BY DEF GeneratorInv, Running
<1> QED BY <1>1, <1>2, GeneratorInit, GeneratorNext, HeapSteps, PTL DEF Spec
==========================================================================
