-------------------------- MODULE UtilStringBuffer --------------------------
(***************************************************************************)
(* UtilStringBuffer (sfcUtil/utilStringBuffer.c): a text of len characters *)
(* and a terminator, in a block that is enlarged by doubling.              *)
(*                                                                         *)
(* Of the text the model knows how long it is and where its first NUL is:  *)
(* a block that libcurl delivers may hold some.  There is one buffer: a    *)
(* clone takes the place of the buffer it is made of.                      *)
(***************************************************************************)
EXTENDS Integers

CONSTANTS
  Sizes,     \* what newStringBuffer may be asked for
  Appended,  \* lengths of what is appended
  IntMax     \* the greatest int: 2^31 - 1 in the code

ASSUME BufferAssumption ==
  /\ IntMax \in Nat /\ IntMax >= 16
  /\ Sizes \subseteq 0..IntMax
  /\ Appended \subseteq Nat

VARIABLES
  max, len,  \* of the structure
  room,      \* the bytes of the block hdl points to
  strlen,    \* where the first NUL is
  sl, nul,   \* what is being appended: its length and its first NUL
  at         \* "none", "idle", in the loop ("grow"), before memcpy ("copy"),
             \* "crash", or "torn": the clone of a text with a NUL inside

bufferVars == <<max, len, room, strlen, sl, nul, at>>

\* int arithmetic, as the builds do it.
Wrap(n) ==
  IF n > IntMax THEN n - 2 * (IntMax + 1)
  ELSE IF n < -IntMax - 1 THEN n + 2 * (IntMax + 1)
  ELSE n

newStringBuffer(s) ==
  LET size == IF s = 0 THEN 32 ELSE s
  IN /\ at = "none"
     /\ size <= IntMax
     /\ max' = size /\ room' = size
     /\ len' = 0 /\ strlen' = 0
     /\ at' = "idle"
     /\ UNCHANGED <<sl, nul>>

\* Mutant: the clone keeps max.
sbft_clone_KeepsMax ==
  /\ at = "idle"
  /\ room' = strlen + 1
  /\ at' = IF strlen < len THEN "torn" ELSE "idle"
  /\ UNCHANGED <<max, len, strlen, sl, nul>>

\* strdup() copies up to the first NUL, and max says what the whole text would
\* need.  If that is more, len and max are wrong of the clone, and what becomes
\* of it is not followed: nothing in the library clones a buffer.
sbft_clone ==
  /\ at = "idle"
  /\ max' = len
  /\ room' = strlen + 1
  /\ at' = IF strlen < len THEN "torn" ELSE "idle"
  /\ UNCHANGED <<len, strlen, sl, nul>>

sbft_release ==
  /\ at \in {"idle", "torn"}
  /\ max' = 0 /\ len' = 0 /\ room' = 0 /\ strlen' = 0
  /\ at' = "none"
  /\ UNCHANGED <<sl, nul>>

\* Mutant: a buffer without room is doubled like any other.
sbft_appendChars_FromNothing(n, z) ==
  /\ at = "idle"
  /\ n + len + 1 <= IntMax
  /\ sl' = n /\ nul' = z
  /\ at' = IF n + len + 1 >= max THEN "grow" ELSE "copy"
  /\ UNCHANGED <<max, len, room, strlen>>

\* sbft_appendChars, and sbft_appendBlock, whose data may begin with a NUL.  The
\* others append one after the other.  Bound: a text that an int can count.
sbft_appendChars(n, z) ==
  /\ at = "idle"
  /\ n + len + 1 <= IntMax
  /\ sl' = n /\ nul' = z
  /\ IF n + len + 1 >= max
     THEN at' = "grow" /\ max' = IF max = 0 THEN 8 ELSE max
     ELSE at' = "copy" /\ UNCHANGED max
  /\ UNCHANGED <<len, room, strlen>>

\* A round of the loop, or the realloc() behind it; one of a negative size fails.
Grow ==
  /\ at = "grow"
  /\ IF sl + len + 1 >= max THEN max' = Wrap(2 * max) /\ UNCHANGED <<room, at>>
     ELSE /\ room' = max + 2
          /\ at' = IF max + 2 > IntMax THEN "crash" ELSE "copy"
          /\ UNCHANGED max
  /\ UNCHANGED <<len, strlen, sl, nul>>

\* The text is copied behind what there is, and its terminator.
Copy ==
  /\ at = "copy"
  /\ len' = len + sl
  /\ strlen' = IF strlen < len THEN strlen ELSE len + nul
  /\ sl' = 0 /\ nul' = 0
  /\ at' = "idle"
  /\ UNCHANGED <<max, room>>

sbft_reset ==
  /\ at = "idle"
  /\ len' = 0
  /\ strlen' = 0
  /\ UNCHANGED <<max, room, sl, nul, at>>

BufferInit ==
  /\ max = 0 /\ len = 0 /\ room = 0 /\ strlen = 0 /\ sl = 0 /\ nul = 0
  /\ at = "none"

BufferNext ==
  \/ \E s \in Sizes : newStringBuffer(s)
  \/ \E n \in Appended : \E z \in {0, n} : sbft_appendChars(n, z)
  \/ Grow \/ Copy \/ sbft_clone \/ sbft_reset \/ sbft_release

BufferSpec == BufferInit /\ [][BufferNext]_bufferVars

----------------------------------------------------------------------------
(* Properties.                                                             *)

\* The text and its terminator are inside the block, at rest and when they are
\* about to be written, whatever the buffer is a clone of and however often it
\* was reset.
TextInBlock ==
  /\ at = "idle" => len + 1 <= room
  /\ at = "copy" => len + sl + 1 <= room

\* The loop ends: every round that is to come makes max greater, unless the text
\* is longer than half of what an int can count, when max becomes 0 and stays it.
LoopAdvances ==
  at = "grow" /\ sl + len + 1 >= max /\ 2 * (sl + len + 1) <= IntMax => Wrap(2 * max) > max

=============================================================================
