--------------------------- MODULE SecureBuffer ---------------------------
(*************************************************************************)
(* src/src/security.rs over src/src/memory_lock.rs: the buffers that own *)
(* secrets, the allocations behind them and the pages the operating      *)
(* system keeps in RAM.  Locking is per page and does not nest: munlock  *)
(* and VirtualUnlock release a page however often it was locked, and     *)
(* small allocations share one.  Any part of the program may own a       *)
(* buffer; the module allows every sequence of calls on the type.        *)
(*************************************************************************)
EXTENDS Naturals

CONSTANTS
    Buffers,    \* allocations, each behind at most one SecureBuffer or Vec
    Pages,
    NoPage      \* a Vec without capacity has no allocation

ASSUME BufferAssumption == NoPage \notin Pages

VARIABLES
    block,      \* [Buffers -> Blocks]
    pinned,     \* the pages the operating system has locked
    disturbed   \* history: pages whose pin and `locked` flags came apart

heap == <<block, pinned, disturbed>>

\* `len` is 0 or 1, empty or not; `bytes` is what the allocation holds.
\* "gone": freed by whoever took the Vec, not by the type.
Blocks == [owner  : {"free", "gone", "buffer", "vec"},
           page   : Pages \cup {NoPage},
           len    : {0, 1},
           bytes  : {"zero", "secret"},
           locked : BOOLEAN]

Freed(owner, bytes) ==
    [owner |-> owner, page |-> NoPage, len |-> 0, bytes |-> bytes, locked |-> FALSE]

BufferInit ==
    /\ block = [b \in Buffers |-> Freed("free", "zero")]
    /\ pinned = {}
    /\ disturbed = {}

Live(b) == block[b].owner = "buffer"

\* The other buffers on b's page that take it to be locked.
LockedNeighbours(b) ==
    {c \in Buffers \ {b} : block[c].locked /\ block[c].page = block[b].page}

--------------------------------------------------------------------------
(* Constructors *)

Make(b, len, bytes, page) ==
    /\ block[b].owner \in {"free", "gone"}
    /\ block' = [block EXCEPT ![b] = [owner |-> "buffer", page |-> page, len |-> len,
                                      bytes |-> bytes, locked |-> FALSE]]
    /\ UNCHANGED <<pinned, disturbed>>

New(b)       == Make(b, 0, "zero", NoPage)
Zeroed(b)    == \E page \in Pages : Make(b, 1, "zero", page)
\* Also from_vec of a Vec that a primitive has filled.
FromSlice(b) == \E page \in Pages : Make(b, 1, "secret", page)

\* Duplicate: a fresh allocation, never a locked one.
Duplicate(b, c) ==
    /\ Live(b)
    /\ \E page \in IF block[b].len = 0 THEN {NoPage} ELSE Pages :
          Make(c, block[b].len, block[b].bytes, page)

\* A Vec that came out of into_vec goes back in; the allocation is the same.
FromVec(b) ==
    /\ block[b].owner = "vec"
    /\ block' = [block EXCEPT ![b].owner = "buffer", ![b].locked = FALSE]
    /\ UNCHANGED <<pinned, disturbed>>

--------------------------------------------------------------------------
(* Methods *)

\* A write through as_mut_slice.
Write(b) ==
    /\ Live(b) /\ block[b].len > 0
    /\ block' = [block EXCEPT ![b].bytes = "secret"]
    /\ UNCHANGED <<pinned, disturbed>>

\* zeroize on a Vec zeroes its whole capacity and leaves it with length 0.
Wipe(b) ==
    /\ Live(b)
    /\ block' = [block EXCEPT ![b].bytes = "zero", ![b].len = 0]
    /\ UNCHANGED <<pinned, disturbed>>

\* mlock and VirtualLock, munlock and VirtualUnlock
SystemLocks(page)   == pinned' = pinned \cup {page}
SystemUnlocks(page) == pinned' = pinned \ {page}

\* Mutant: the flag is set whether or not the system locked the page
TryLock_Assumed(b) ==
    /\ Live(b) /\ ~block[b].locked /\ block[b].len > 0
    /\ block' = [block EXCEPT ![b].locked = TRUE]
    /\ UNCHANGED <<pinned, disturbed>>

\* The system agrees; when it refuses, or there is nothing to lock, or the
\* flag is set already, nothing changes.
TryLock(b) ==
    /\ Live(b) /\ ~block[b].locked /\ block[b].len > 0
    /\ block' = [block EXCEPT ![b].locked = TRUE]
    /\ SystemLocks(block[b].page)
    /\ disturbed' = disturbed \ {block[b].page}

\* The Vec leaves with its contents, and with its page still locked.
IntoVec(b) ==
    /\ Live(b)
    /\ block' = [block EXCEPT ![b].owner = "vec", ![b].locked = FALSE]
    /\ disturbed' = IF block[b].locked /\ LockedNeighbours(b) = {}
                    THEN disturbed \cup {block[b].page} ELSE disturbed
    /\ UNCHANGED pinned

\* unlock with the current length: nothing to unlock when it is 0.
Unlocks(b) == block[b].locked /\ block[b].len > 0

\* Mutant: drop forgets to wipe
Drop_KeepsBytes(b) ==
    /\ Live(b)
    /\ block' = [block EXCEPT ![b] = Freed("free", @.bytes)]
    /\ IF Unlocks(b) THEN SystemUnlocks(block[b].page) ELSE UNCHANGED pinned
    /\ UNCHANGED disturbed

\* Drop: unlock if the flag is set, then wipe, then the allocation is freed.
Drop(b) ==
    /\ Live(b)
    /\ block' = [block EXCEPT ![b] = Freed("free", "zero")]
    /\ IF Unlocks(b) THEN SystemUnlocks(block[b].page) ELSE UNCHANGED pinned
    /\ disturbed' =
          IF ~block[b].locked \/ (~Unlocks(b) /\ LockedNeighbours(b) # {}) THEN disturbed
          ELSE IF Unlocks(b) /\ LockedNeighbours(b) = {} THEN disturbed \ {block[b].page}
          ELSE disturbed \cup {block[b].page}

\* A Vec from into_vec, in the hands of a caller

\* with_wiped_scratch: whatever the closure returned, zeroize and clear.
ScratchUsed(b) ==
    /\ block[b].owner = "vec"
    /\ block' = [block EXCEPT ![b].bytes = "zero", ![b].len = 0]
    /\ UNCHANGED <<pinned, disturbed>>

\* wipe(&mut [u8]) keeps the length.
SliceWiped(b) ==
    /\ block[b].owner = "vec"
    /\ block' = [block EXCEPT ![b].bytes = "zero"]
    /\ UNCHANGED <<pinned, disturbed>>

VecFreed(b) ==
    /\ block[b].owner = "vec"
    /\ block' = [block EXCEPT ![b] = Freed("gone", @.bytes)]
    /\ UNCHANGED <<pinned, disturbed>>

BufferNext ==
    \E b \in Buffers :
        \/ New(b) \/ Zeroed(b) \/ FromSlice(b) \/ FromVec(b)
        \/ \E c \in Buffers : Duplicate(b, c)
        \/ Write(b) \/ Wipe(b) \/ TryLock(b)
        \/ IntoVec(b) \/ Drop(b)
        \/ ScratchUsed(b) \/ SliceWiped(b) \/ VecFreed(b)

--------------------------------------------------------------------------
(* Properties *)

BufferTypeOK ==
    /\ block \in [Buffers -> Blocks]
    /\ pinned \subseteq Pages /\ disturbed \subseteq Pages
    /\ \A b \in Buffers : block[b].page = NoPage => block[b].len = 0 /\ ~block[b].locked

\* Memory that a SecureBuffer, or with_wiped_scratch, gave back to the allocator
\* holds no secret, and neither does a buffer that is empty, whichever calls came
\* before, early returns included (security.rs:115-165, 184-197).  It says nothing
\* of a Vec that a caller of into_vec frees ("gone"), nor of a String, such as the
\* one ui.rs:725 replaces.
FreedMemoryIsWiped ==
    \A b \in Buffers :
        block[b].owner = "free" \/ (Live(b) /\ block[b].len = 0) => block[b].bytes = "zero"

\* The pages the system keeps locked are those of the buffers that say so.
\* The two come apart in three ways only: a locked buffer becomes a Vec, is
\* wiped before it is dropped, or is dropped while another one on its page is
\* still locked.
PinsMatchFlags ==
    \A p \in Pages \ disturbed :
        p \in pinned <=> \E b \in Buffers : block[b].locked /\ block[b].page = p
==========================================================================
