------------------------------- MODULE Source -------------------------------
(***************************************************************************)
(* read_source of src/tsugu/tools/tsugu.c: standard input is read in       *)
(* chunks into a buffer that is doubled when it is full, and a NUL is put  *)
(* behind what has been read.                                              *)
(*                                                                         *)
(* Addresses are offsets in a buffer, and a pointer is one with the number *)
(* of the allocation that it points into: realloc makes a new one and the  *)
(* pointers into the old are stale.                                        *)
(***************************************************************************)
EXTENDS Naturals

CONSTANTS
  Chunk,     \* 4096, the size of a read and of the first buffer
  Files      \* the sizes that standard input may have

ASSUME SourceAssumption == Chunk \in Nat \ {0} /\ Files \subseteq Nat

VARIABLES
  file,       \* how much there is to read
  at,         \* before a read, after a whole one, at the end, or done
  read_size,
  buf_size,
  buffer,     \* the number of the allocation
  buf_ptr,    \* ptr in the code
  buf_end

vars == <<file, at, read_size, buf_size, buffer, buf_ptr, buf_end>>

Pointer(b, o) == [base |-> b, offset |-> o]

Init ==
  /\ file \in Files
  /\ at = "read"
  /\ read_size = 0
  /\ buf_size = Chunk
  /\ buffer = 1
  /\ buf_ptr = Pointer(1, 0)
  /\ buf_end = Pointer(1, Chunk)

\* What fread returns: a short count only when there is no more.
fread == IF file - read_size < Chunk THEN file - read_size ELSE Chunk

ShortOrWhole(s) == s <= Chunk       \* mutant: a whole chunk ends the loop

EndsBelow(s) == s < 0               \* mutant: an error is expected, not a short count

LastRead(s) == s < Chunk

read ==
  /\ at = "read"
  /\ read_size' = read_size + fread
  /\ buf_ptr' = [buf_ptr EXCEPT !.offset = @ + fread]
  /\ at' = IF LastRead(fread) THEN "end" ELSE "full?"
  /\ UNCHANGED <<file, buf_size, buffer, buf_end>>

Grown(n) == n * 2

PtrKept(b) == buf_ptr                   \* mutant: ptr still points into the old buffer

PtrIn(b) == Pointer(b, read_size)

\* if (ptr >= buf_end)
grow ==
  /\ at = "full?"
  /\ at' = "read"
  /\ IF buf_ptr.offset >= buf_end.offset
       THEN /\ buf_size' = Grown(buf_size)
            /\ buffer' = buffer + 1
            /\ buf_end' = Pointer(buffer', buf_size')
            /\ buf_ptr' = PtrIn(buffer')
       ELSE UNCHANGED <<buf_size, buffer, buf_end, buf_ptr>>
  /\ UNCHANGED <<file, read_size>>

\* *ptr = '\0'
terminate ==
  /\ at = "end"
  /\ at' = "done"
  /\ UNCHANGED <<file, read_size, buf_size, buffer, buf_ptr, buf_end>>

Next == read \/ grow \/ terminate

Spec == Init /\ [][Next]_vars

FairSpec == Spec /\ WF_vars(Next)

----------------------------------------------------------------------------
\* A read has room for a whole chunk: the buffer is only doubled when it is full
\* to the byte, so the chunks have to divide it.
RoomForChunk == at = "read" => read_size + Chunk <= buf_size

\* The NUL is written inside the buffer, behind what was read.
NulInside == at \in {"end", "done"} => read_size < buf_size

\* The pointers go into the buffer that is there, to what has been read of it and
\* to its end, whatever realloc has moved.
PointersCurrent ==
  /\ buf_ptr = Pointer(buffer, read_size)
  /\ buf_end = Pointer(buffer, buf_size)

\* Every write goes into the buffer that is there, and inside it.
WritesInside == RoomForChunk /\ NulInside /\ PointersCurrent

\* All of the input is handed on, and the memory is at most twice what is needed.
WholeRead == at = "done" => read_size = file /\ (buf_size = Chunk \/ buf_size <= 2 * file)

\* The input, which ends, is read to its end.
ReadEnds == <>(at = "done")
=============================================================================
