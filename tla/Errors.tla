------------------------------- MODULE Errors -------------------------------
(***************************************************************************)
(* Error lists (src/tsugu/core/error.c): a report formats its message in a *)
(* buffer of fixed length, where the names of the program are put in whole *)
(* or cut, and is linked to the end of the list; a release frees the list. *)
(*                                                                         *)
(* A format is a sequence of pieces: a character, %I or %s with the length *)
(* of its argument, and a percent sign before any other character.  No     *)
(* caller has a format that ends in a bare percent sign, at which the      *)
(* loop would copy the NUL (line 97) and read on behind the format.        *)
(***************************************************************************)
EXTENDS Integers, Sequences

CONSTANTS
  MaxLen,      \* ERROR_MESSAGE_MAXLEN
  Formats,
  MaxErrors    \* bound on the errors that are reported

Piece == [kind : {"char", "arg", "percent"}, nbytes : Nat]

ASSUME ErrorsAssumption ==
  /\ MaxLen \in Nat /\ MaxLen >= 3
  /\ \A f \in Formats : f \in Seq(Piece)
  /\ MaxErrors \in Nat

NULL == 0

VARIABLES
  at,        \* idle, or in a report or a release
  format, src, out,
  asked,     \* the length of what the pieces before src stand for
  heap,      \* the tsg_error_t that were made, freed ones too
  head, tail,
  error,     \* the loop variable of tsg_errlist_release
  first      \* the first error since the list was last initialised

message == <<format, src, out, asked>>
list    == <<heap, head, tail, first>>
vars    == <<at, message, list, error>>

buffer_end == MaxLen - 1

Init ==
  /\ at = "idle"
  /\ format = << >> /\ src = 1 /\ out = 0 /\ asked = 0
  /\ heap = << >> /\ head = NULL /\ tail = NULL
  /\ error = NULL
  /\ first = 1

tsg_error ==
  /\ at = "idle" /\ Len(heap) < MaxErrors
  /\ at' = "format"
  /\ format' \in Formats
  /\ src' = 1 /\ out' = 0 /\ asked' = 0
  /\ UNCHANGED <<list, error>>

FitsOne == out <= buffer_end        \* mutant: room for one character, not for two

Fits == out <= buffer_end - 2

Puts(n, wanted) ==
  /\ out' = out + n
  /\ asked' = asked + wanted
  /\ src' = src + 1
  /\ UNCHANGED <<at, format, list, error>>

Next_is(kind) == at = "format" /\ src <= Len(format) /\ Fits /\ format[src].kind = kind

put_char == Next_is("char") /\ Puts(1, 1)

put_percent == Next_is("percent") /\ Puts(2, 2)

size_min(a, b) == IF a < b THEN a ELSE b

RoomEarly == buffer_end - 2 - out   \* mutant: a name is cut too early

Room == buffer_end - out

put_arg ==
  /\ Next_is("arg")
  /\ Puts(size_min(format[src].nbytes, Room), format[src].nbytes)

LinkedHead(new) == head             \* mutant: the tail stays where it is

NewTail(new) == new

\* The NUL, a copy of the message, and the end of tsg_errorv.
message_end ==
  /\ at = "format" /\ ~ (src <= Len(format) /\ Fits)
  /\ at' = "idle"
  /\ LET new  == Len(heap) + 1
         node == [size |-> out + 1, asked |-> asked, cut |-> src <= Len(format),
                  next |-> NULL, live |-> TRUE]
     IN  IF head = NULL
           THEN heap' = Append(heap, node) /\ head' = new /\ tail' = new
           ELSE /\ heap' = Append([heap EXCEPT ![tail].next = new], node)
                /\ head' = head /\ tail' = NewTail(new)
  /\ UNCHANGED <<message, error, first>>

tsg_errlist_release ==
  /\ at = "idle"
  /\ at' = "release"
  /\ error' = head
  /\ UNCHANGED <<message, list>>

release_one ==
  /\ at = "release" /\ error # NULL
  /\ error' = heap[error].next
  /\ heap' = [heap EXCEPT ![error].live = FALSE]
  /\ UNCHANGED <<at, message, head, tail, first>>

KeepList == head' = head /\ tail' = tail    \* mutant: freed errors stay in the list

tsg_errlist_init == head' = NULL /\ tail' = NULL

release_end ==
  /\ at = "release" /\ error = NULL
  /\ at' = "idle"
  /\ tsg_errlist_init
  /\ first' = Len(heap) + 1
  /\ UNCHANGED <<message, heap, error>>

Next ==
  \/ tsg_error \/ put_char \/ put_percent \/ put_arg \/ message_end
  \/ tsg_errlist_release \/ release_one \/ release_end

Spec == Init /\ [][Next]_vars

----------------------------------------------------------------------------
\* No piece is written past the buffer, and the NUL behind them is in it, however
\* long the names are.
InBuffer == out <= buffer_end

\* A message is whole, or cut where all of the buffer but one byte is used.
CutOnlyIfFull ==
  \A i \in DOMAIN heap :
    \/ heap[i].size = heap[i].asked + 1 /\ ~ heap[i].cut
    \/ heap[i].size >= buffer_end

\* The list holds the errors in the order of their reports, all of them since it
\* was initialised, and ends at tail.
ListInOrder ==
  at # "release" =>
    IF head = NULL THEN tail = NULL /\ first = Len(heap) + 1
    ELSE /\ head = first /\ tail = Len(heap)
         /\ \A i \in first .. Len(heap) :
              heap[i].live /\ heap[i].next = IF i = tail THEN NULL ELSE i + 1

\* An error is freed once, and its successor is read before.
FreedOnce == at = "release" /\ error # NULL => heap[error].live

\* A release leaves none of the errors that were reported.
AllFreed == at = "release" /\ error = NULL => \A i \in DOMAIN heap : ~ heap[i].live

Released == FreedOnce /\ AllFreed
=============================================================================
