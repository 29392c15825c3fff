------------------------ MODULE PasswordGenerator ------------------------
(*************************************************************************)
(* src/src/password_generator.rs and the generator window of             *)
(* src/src/ui.rs.  generate is one call: it draws chunks of random bytes *)
(* until enough of them were accepted, in a SecureBuffer of its own.     *)
(* Between calls the rest of the program uses buffers as it likes.       *)
(*************************************************************************)
EXTENDS SecureBuffer, FiniteSets

CONSTANTS
    MinLength,  \* MIN_LENGTH
    MaxLength,  \* MAX_LENGTH
    Lengths,    \* the lengths asked for; the window's slider keeps to the bounds
    Asked,      \* the sets of character classes asked for
    ChunkBytes, \* bytes per call of getrandom
    Samples,    \* the byte values a chunk may hold
    NoBuffer

Classes == {"lowercase", "uppercase", "digits", "symbols"}

ASSUME GeneratorAssumption ==
    /\ MinLength \in Nat \ {0} /\ MaxLength \in Nat
    /\ Lengths \subseteq Nat /\ Asked \subseteq SUBSET Classes
    /\ ChunkBytes \in Nat \ {0}
    /\ Samples \subseteq 0 .. 255
    /\ NoBuffer \notin Buffers

VARIABLES
    pc,         \* {"idle", "drawing"}: where generate is
    asked,      \* the Options of the running call
    out,        \* the buffer being filled, or NoBuffer
    filled,     \* characters written to it
    drawn,      \* the classes of those characters
    chunk,      \* bytes of the current chunk not looked at yet
    shown,      \* draft.show_generator
    result,     \* draft.gen_result: {"empty", "generated", "typed"}
    error       \* draft.gen_error is set

call   == <<pc, asked, out, filled, drawn, chunk>>
window == <<shown, result, error>>
vars   == <<heap, call, window>>

--------------------------------------------------------------------------
(* The alphabet and the draw *)

Width  == [lowercase |-> 26, uppercase |-> 26, digits |-> 10, symbols |-> 26]
Before == [lowercase |-> {}, uppercase |-> {"lowercase"},
           digits |-> {"lowercase", "uppercase"},
           symbols |-> {"lowercase", "uppercase", "digits"}]

\* Options::alphabet: the chosen classes one after the other, so that the
\* characters of a class follow those of the chosen classes before it.
Share(classes, class) == IF class \in classes THEN Width[class] ELSE 0
Size(classes) == Share(classes, "lowercase") + Share(classes, "uppercase")
                 + Share(classes, "digits") + Share(classes, "symbols")
Start(classes, class) == Size(classes \cap Before[class])
ClassAt(classes, i) ==
    CHOOSE class \in classes :
        i \in Start(classes, class) .. Start(classes, class) + Width[class] - 1

\* Mutant: every byte is taken, modulo the size of the alphabet
Limit_Modulo(n) == 256

\* Mutant: the operands of the division are swapped
Limit_Swapped(n) == (n \div 255) * n

\* The largest multiple of n in a byte; 256 if there is none.
Limit(n) == IF n > 255 THEN 256 ELSE (255 \div n) * n

Accepted(classes, byte) == byte < Limit(Size(classes))

NothingAsked == [classes |-> {}, length |-> 0]
InBounds(n) == MinLength <= n /\ n <= MaxLength

Init ==
    /\ BufferInit
    /\ pc = "idle"
    /\ asked = NothingAsked
    /\ out = NoBuffer
    /\ filled = 0
    /\ drawn = {}
    /\ chunk = 0
    /\ shown = FALSE
    /\ result = "empty"
    /\ error = FALSE

--------------------------------------------------------------------------
(* generate, called by the Generate button *)

\* Mutant: the buffer outlives the call
Reset_KeepsBuffer ==
    /\ pc' = "idle"
    /\ asked' = NothingAsked
    /\ filled' = 0
    /\ drawn' = {}
    /\ chunk' = 0
    /\ UNCHANGED out

Reset ==
    /\ pc' = "idle"
    /\ asked' = NothingAsked
    /\ out' = NoBuffer
    /\ filled' = 0
    /\ drawn' = {}
    /\ chunk' = 0

\* The window's answer to Err: whatever was shown is wiped.
Failed ==
    /\ result' = "empty"
    /\ error' = TRUE
    /\ UNCHANGED shown

Refuse(classes, n) ==
    /\ shown /\ pc = "idle"
    /\ classes = {} \/ ~InBounds(n)
    /\ Failed
    /\ UNCHANGED <<heap, call>>

Begin(classes, n) ==
    /\ shown /\ pc = "idle"
    /\ classes # {} /\ InBounds(n)
    /\ asked' = [classes |-> classes, length |-> n]
    /\ \E b \in Buffers : Zeroed(b) /\ out' = b
    /\ pc' = "drawing"
    /\ UNCHANGED <<filled, drawn, chunk, window>>

Drawing == pc = "drawing" /\ filled < asked.length

DrawChunk ==
    /\ Drawing /\ chunk = 0
    /\ chunk' = ChunkBytes
    /\ UNCHANGED <<heap, pc, asked, out, filled, drawn, window>>

\* Mutant: the window keeps what it showed before
RngFails_KeepsResult ==
    /\ Drawing /\ chunk = 0
    /\ Drop(out)
    /\ Reset
    /\ error' = TRUE
    /\ UNCHANGED <<shown, result>>

\* getrandom fails: `?` drops the half-filled buffer.
RngFails ==
    /\ Drawing /\ chunk = 0
    /\ Drop(out)
    /\ Reset
    /\ Failed

RejectByte(byte) ==
    /\ Drawing /\ chunk > 0
    /\ ~Accepted(asked.classes, byte)
    /\ chunk' = chunk - 1
    /\ UNCHANGED <<heap, pc, asked, out, filled, drawn, window>>

\* Mutant: the rest of the chunk is used up as well
AcceptByte_NoBreak(byte) ==
    /\ pc = "drawing" /\ chunk > 0
    /\ Accepted(asked.classes, byte)
    /\ Write(out)
    /\ filled' = filled + 1
    /\ drawn' = drawn \cup {ClassAt(asked.classes, byte % Size(asked.classes))}
    /\ chunk' = chunk - 1
    /\ UNCHANGED <<pc, asked, out, window>>

AcceptByte(byte) ==
    /\ Drawing /\ chunk > 0
    /\ Accepted(asked.classes, byte)
    /\ Write(out)
    /\ filled' = filled + 1
    /\ drawn' = drawn \cup {ClassAt(asked.classes, byte % Size(asked.classes))}
    /\ chunk' = chunk - 1
    /\ UNCHANGED <<pc, asked, out, window>>

\* The text is copied into a String, the buffer goes out of scope, and the
\* window takes the String over its old text.
Return ==
    /\ pc = "drawing" /\ filled = asked.length
    /\ Drop(out)
    /\ Reset
    /\ result' = "generated"
    /\ error' = FALSE
    /\ UNCHANGED shown

--------------------------------------------------------------------------
(* The rest of the window; generate is not running. *)

Set(s, r, e) ==
    /\ pc = "idle"
    /\ shown' = s /\ result' = r /\ error' = e
    /\ UNCHANGED <<heap, call>>

Open       == Set(TRUE, result, error)
Close      == shown /\ Set(FALSE, result, error)
Type       == shown /\ \E r \in {"empty", "typed"} : Set(TRUE, r, error)
Use        == shown /\ result # "empty" /\ Set(FALSE, "empty", FALSE)
DropDraft  == Set(FALSE, "empty", FALSE)

Generate(classes, n) == Refuse(classes, n) \/ Begin(classes, n)

Draw ==
    \/ DrawChunk \/ RngFails
    \/ \E byte \in Samples : RejectByte(byte) \/ AcceptByte(byte)

Elsewhere == pc = "idle" /\ BufferNext /\ UNCHANGED <<call, window>>

Next ==
    \/ \E classes \in Asked, n \in Lengths : Generate(classes, n)
    \/ Draw
    \/ Return
    \/ Open \/ Close \/ Type \/ Use \/ DropDraft
    \/ Elsewhere

\* generate runs to its end once called, and an accepted byte turns up again
\* and again: each byte is accepted with a chance of more than two in three.
Fairness ==
    /\ WF_vars(Draw) /\ WF_vars(Return)
    /\ SF_vars(\E byte \in Samples : AcceptByte(byte))

Spec == Init /\ [][Next]_vars /\ Fairness

--------------------------------------------------------------------------
(* Properties *)

TypeOK ==
    /\ BufferTypeOK
    /\ pc \in {"idle", "drawing"}
    /\ out \in Buffers \cup {NoBuffer}
    /\ out # NoBuffer <=> pc = "drawing"
    /\ drawn \subseteq Classes /\ chunk \in 0 .. ChunkBytes
    /\ shown \in BOOLEAN /\ error \in BOOLEAN
    /\ result \in {"empty", "generated", "typed"}

\* password_generator.rs:130-133: of the bytes that are accepted, equally many
\* give each character of the alphabet, and fewer are rejected than the
\* alphabet has characters.
Fair(classes) ==
    LET n     == Size(classes)
        taken == {byte \in 0 .. 255 : Accepted(classes, byte)}
    IN  /\ Cardinality(taken) > 256 - n
        /\ \A i \in 0 .. n - 1 : Cardinality({byte \in taken : byte % n = i}) = 256 \div n

DrawIsUniform == pc = "drawing" /\ filled = 0 /\ chunk = 0 => Fair(asked.classes)

\* What generate returns has the length that was asked for and characters of
\* the chosen classes only; no write goes past the end of the buffer, however
\* the accepted bytes fall into chunks.
GeneratedAsAsked ==
    pc = "drawing" =>
        /\ filled <= asked.length /\ InBounds(asked.length)
        /\ drawn \subseteq asked.classes
        /\ filled > 0 => drawn # {} /\ block[out].bytes = "secret"

\* After a failed call nothing of an earlier one is left to be used.
FailureLeavesNoPassword == error => result # "generated"

\* The loop ends: a call of generate returns.
GenerateReturns == pc = "drawing" ~> pc = "idle"
==========================================================================
