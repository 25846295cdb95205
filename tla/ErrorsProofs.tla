---------------------------- MODULE ErrorsProofs ----------------------------
(***************************************************************************)
(* The error lists are right for every length of the buffer, every format  *)
(* and every number of errors.                                             *)
(***************************************************************************)
EXTENDS Errors, TLAPS

Error_ == [size : Nat, asked : Nat, cut : BOOLEAN, next : Nat, live : BOOLEAN]

TypeOK ==
  /\ at \in {"idle", "format", "release"}
  /\ format \in Seq(Piece) /\ src \in Nat /\ src >= 1
  /\ out \in Nat /\ asked \in Nat
  /\ heap \in Seq(Error_)
  /\ head \in Nat /\ tail \in Nat /\ error \in Nat /\ first \in Nat

\* What is in the buffer is what the pieces stand for, unless a name was cut at
\* its end.
Faithful == out = asked \/ (out = buffer_end /\ asked >= buffer_end)

\* The list is the errors from first on; before them everything is freed, and a
\* release frees them from the front.
Linked ==
  /\ 1 <= first /\ first <= Len(heap) + 1
  /\ head = IF first > Len(heap) THEN NULL ELSE first
  /\ tail = IF first > Len(heap) THEN NULL ELSE Len(heap)
  /\ \A i \in 1 .. Len(heap) :
       i >= first => heap[i].next = IF i = Len(heap) THEN NULL ELSE i + 1

Lives ==
  /\ at # "release" => \A i \in 1 .. Len(heap) : heap[i].live <=> i >= first
  /\ at = "release" /\ error # NULL =>
       /\ first <= error /\ error <= Len(heap)
       /\ \A i \in 1 .. Len(heap) : heap[i].live <=> i >= error
  /\ at = "release" /\ error = NULL => \A i \in 1 .. Len(heap) : ~ heap[i].live

IInv == TypeOK /\ InBuffer /\ Faithful /\ CutOnlyIfFull /\ Linked /\ Lives

LEMMA InitIInv == Init => IInv
  BY ErrorsAssumption
  DEF Init, IInv, TypeOK, InBuffer, Faithful, CutOnlyIfFull, Linked, Lives, buffer_end, NULL

\* A piece that fits keeps the buffer faithful and in bounds.
LEMMA PutIInv ==
  ASSUME IInv, put_char \/ put_percent \/ put_arg
  PROVE  IInv'
<1>1. MaxLen \in Nat /\ MaxLen >= 3
  BY ErrorsAssumption
<1>2. src <= Len(format) /\ out <= buffer_end - 2 /\ out = asked
  BY <1>1 DEF IInv, Faithful, put_char, put_percent, put_arg, Next_is, Fits, buffer_end
<1>3. format[src] \in Piece
  BY <1>2 DEF IInv, TypeOK
<1>4. PICK n \in Nat, wanted \in Nat :
        /\ Puts(n, wanted)
        /\ out + n <= buffer_end
        /\ n = wanted \/ (out + n = buffer_end /\ wanted >= n)
  <2>1. CASE put_char
    BY <1>1, <1>2, <2>1 DEF put_char, buffer_end, IInv, TypeOK
  <2>2. CASE put_percent
    BY <1>1, <1>2, <2>2 DEF put_percent, buffer_end, IInv, TypeOK
  <2>3. CASE put_arg
    <3>1. format[src].nbytes \in Nat /\ Room \in Nat
      BY <1>1, <1>2, <1>3 DEF Piece, Room, buffer_end, IInv, TypeOK
    <3>2. size_min(format[src].nbytes, Room) \in Nat
      BY <3>1 DEF size_min
    <3> QED
      BY <1>1, <1>2, <2>3, <3>1, <3>2 DEF put_arg, size_min, Room, buffer_end, IInv, TypeOK
  <2> QED
    BY <2>1, <2>2, <2>3
<1>5. out' = out + n /\ asked' = asked + wanted /\ src' = src + 1
  BY <1>4 DEF Puts
<1>6. UNCHANGED <<at, format, heap, head, tail, first, error>>
  BY <1>4 DEF Puts, list
<1>7. TypeOK'
  BY <1>5, <1>6 DEF IInv, TypeOK
<1>8. InBuffer' /\ Faithful'
  BY <1>1, <1>2, <1>4, <1>5 DEF IInv, TypeOK, InBuffer, Faithful, buffer_end
<1>9. CutOnlyIfFull' /\ Linked' /\ Lives'
  BY <1>6 DEF IInv, CutOnlyIfFull, Linked, Lives, buffer_end
<1> QED
  BY <1>7, <1>8, <1>9 DEF IInv

\* A new error is linked behind the others.
LEMMA EndIInv == ASSUME IInv, message_end PROVE IInv'
<1>1. MaxLen \in Nat /\ MaxLen >= 3
  BY ErrorsAssumption
<1> DEFINE new  == Len(heap) + 1
           node == [size |-> out + 1, asked |-> asked, cut |-> src <= Len(format),
                    next |-> NULL, live |-> TRUE]
           old  == IF head = NULL THEN heap ELSE [heap EXCEPT ![tail].next = new]
<1>2. heap' = Append(old, node) /\ tail' = new /\ first' = first /\ at' = "idle"
      /\ head' = (IF head = NULL THEN new ELSE head)
  BY DEF message_end, NewTail
<1>3. at = "format" /\ UNCHANGED <<format, src, out, asked, error>>
  BY DEF message_end, message
<1>4. node \in Error_
  BY DEF IInv, TypeOK, Error_, NULL
<1>5. head # NULL => tail = Len(heap) /\ tail \in 1 .. Len(heap) /\ head = first
  BY DEF IInv, TypeOK, Linked, NULL
<1>6. old \in Seq(Error_) /\ Len(old) = Len(heap)
  <2>1. CASE head = NULL
    BY <2>1 DEF IInv, TypeOK
  <2>2. CASE head # NULL
    <3>1. heap[tail] \in Error_ /\ new \in Nat
      BY <1>5, <2>2 DEF IInv, TypeOK
    <3>2. [heap[tail] EXCEPT !.next = new] \in Error_
      BY <3>1 DEF Error_
    <3> QED
      BY <1>5, <2>2, <3>2 DEF IInv, TypeOK
  <2> QED
    BY <2>1, <2>2
<1>7. heap' \in Seq(Error_) /\ Len(heap') = new
  BY <1>2, <1>4, <1>6 DEF IInv, TypeOK
<1>8. heap'[new] = node /\ \A i \in 1 .. Len(heap) : heap'[i] = old[i]
  BY <1>2, <1>4, <1>6 DEF IInv, TypeOK
<1>9. \A i \in 1 .. Len(heap) :
        /\ heap'[i].size = heap[i].size /\ heap'[i].asked = heap[i].asked
        /\ heap'[i].cut = heap[i].cut /\ (heap'[i].live <=> heap[i].live)
        /\ heap'[i].next = IF head # NULL /\ i = Len(heap) THEN new ELSE heap[i].next
  <2>1. CASE head = NULL
    BY <1>8, <2>1
  <2>2. CASE head # NULL
    <3> TAKE i \in 1 .. Len(heap)
    <3>1. heap[i] \in Error_ /\ DOMAIN heap = 1 .. Len(heap)
      BY DEF IInv, TypeOK
    <3>2. heap'[i] = IF i = tail THEN [heap[i] EXCEPT !.next = new] ELSE heap[i]
      BY <1>8, <2>2, <3>1
    <3> QED
      BY <1>5, <2>2, <3>1, <3>2 DEF Error_
  <2> QED
    BY <2>1, <2>2
<1>10. TypeOK'
  BY <1>2, <1>3, <1>7 DEF IInv, TypeOK
<1>11. InBuffer' /\ Faithful'
  BY <1>3 DEF IInv, InBuffer, Faithful, buffer_end
<1>12. CutOnlyIfFull'
  <2>1. (node.size = node.asked + 1 /\ ~ node.cut) \/ node.size >= buffer_end
    <3>1. node.size = out + 1 /\ node.asked = asked /\ node.cut = (src <= Len(format))
      OBVIOUS
    <3>2. ~ (src <= Len(format)) \/ out > buffer_end - 2
      BY <1>1 DEF message_end, Fits, IInv, TypeOK, buffer_end
    <3>3. out + 1 >= buffer_end \/ (out = asked /\ ~ (src <= Len(format)))
      BY <1>1, <3>2 DEF IInv, TypeOK, Faithful, buffer_end
    <3>4. CASE out + 1 >= buffer_end
      BY <3>1, <3>4
    <3>5. CASE out = asked /\ ~ (src <= Len(format))
      BY <3>1, <3>5
    <3> QED
      BY <3>3, <3>4, <3>5
  <2>2. \A i \in 1 .. Len(heap) :
          (heap'[i].size = heap'[i].asked + 1 /\ ~ heap'[i].cut)
          \/ heap'[i].size >= buffer_end
    BY <1>9 DEF IInv, TypeOK, CutOnlyIfFull
  <2>3. DOMAIN heap' = 1 .. new /\ Len(heap) \in Nat
    BY <1>7 DEF IInv, TypeOK
  <2>4. \A i \in DOMAIN heap' :
          (heap'[i].size = heap'[i].asked + 1 /\ ~ heap'[i].cut)
          \/ heap'[i].size >= buffer_end
    <3> TAKE i \in DOMAIN heap'
    <3>1. i = new \/ i \in 1 .. Len(heap)
      BY <2>3
    <3> QED
      BY <1>8, <2>1, <2>2, <3>1
  <2> QED
    BY <2>4 DEF CutOnlyIfFull, buffer_end
<1>13. Linked'
  <2>1. 1 <= first' /\ first' <= Len(heap') /\ head' = first' /\ tail' = Len(heap')
    BY <1>2, <1>5, <1>7 DEF IInv, TypeOK, Linked, NULL
  <2>2. \A i \in 1 .. Len(heap') :
          i >= first' => heap'[i].next = IF i = Len(heap') THEN NULL ELSE i + 1
    <3> TAKE i \in 1 .. Len(heap')
    <3>1. CASE i = new
      BY <1>7, <1>8, <3>1
    <3>2. CASE i \in 1 .. Len(heap)
      BY <1>2, <1>5, <1>7, <1>9, <3>2 DEF IInv, TypeOK, Linked, NULL
    <3> QED
      BY <1>7, <3>1, <3>2 DEF IInv, TypeOK
  <2>3. first' \in Nat /\ Len(heap') \in Nat
    BY <1>2, <1>7 DEF IInv, TypeOK
  <2>4. ~ (first' > Len(heap'))
    BY <2>1, <2>3
  <2>5. first' <= Len(heap') + 1
    BY <2>1, <2>3
  <2> HIDE DEF new, node, old
  <2> QED
    BY <2>1, <2>2, <2>4, <2>5 DEF Linked
<1>14. Lives'
  <2>1. \A i \in 1 .. Len(heap') : heap'[i].live <=> i >= first'
    <3> TAKE i \in 1 .. Len(heap')
    <3>1. CASE i = new
      BY <1>2, <1>7, <1>8, <3>1 DEF IInv, TypeOK, Linked
    <3>2. CASE i \in 1 .. Len(heap)
      BY <1>2, <1>3, <1>9, <3>2 DEF IInv, Lives
    <3> QED
      BY <1>7, <3>1, <3>2 DEF IInv, TypeOK
  <2> QED
    BY <1>2, <2>1 DEF Lives
<1> QED
  BY <1>10, <1>11, <1>12, <1>13, <1>14 DEF IInv

\* A release frees the error it has come to and goes on to the next.
LEMMA ReleaseIInv == ASSUME IInv, release_one PROVE IInv'
<1>1. at = "release" /\ error # NULL /\ error' = heap[error].next
      /\ heap' = [heap EXCEPT ![error].live = FALSE]
      /\ UNCHANGED <<at, format, src, out, asked, head, tail, first>>
  BY DEF release_one, message
<1>2. error \in 1 .. Len(heap) /\ error >= first
  BY <1>1 DEF IInv, TypeOK, Linked, Lives, NULL
<1>3. heap[error] \in Error_ /\ [heap[error] EXCEPT !.live = FALSE] \in Error_
  <2>1. heap[error] \in Error_
    BY <1>2 DEF IInv, TypeOK
  <2> QED
    BY <2>1 DEF Error_
<1>4. heap' \in Seq(Error_) /\ Len(heap') = Len(heap) /\ DOMAIN heap' = DOMAIN heap
  BY <1>1, <1>2, <1>3 DEF IInv, TypeOK
<1>5. \A i \in 1 .. Len(heap) :
        /\ heap'[i].size = heap[i].size /\ heap'[i].asked = heap[i].asked
        /\ heap'[i].cut = heap[i].cut /\ heap'[i].next = heap[i].next
        /\ heap'[i].live <=> heap[i].live /\ i # error
  <2> TAKE i \in 1 .. Len(heap)
  <2>1. heap[i] \in Error_ /\ DOMAIN heap = 1 .. Len(heap)
    BY DEF IInv, TypeOK
  <2>2. heap'[i] = IF i = error THEN [heap[i] EXCEPT !.live = FALSE] ELSE heap[i]
    BY <1>1, <2>1
  <2> QED
    BY <2>1, <2>2 DEF Error_
<1>6. error' = IF error = Len(heap) THEN NULL ELSE error + 1
  BY <1>1, <1>2 DEF IInv, Linked
<1>7. TypeOK'
  BY <1>1, <1>2, <1>4, <1>6 DEF IInv, TypeOK, NULL
<1>8. InBuffer' /\ Faithful' /\ CutOnlyIfFull'
  BY <1>1, <1>4, <1>5 DEF IInv, TypeOK, InBuffer, Faithful, CutOnlyIfFull, buffer_end
<1>9. Linked'
  BY <1>1, <1>4, <1>5 DEF IInv, TypeOK, Linked
<1>10. Lives'
  <2>1. \A i \in 1 .. Len(heap) : heap'[i].live <=> i > error
    BY <1>1, <1>2, <1>5 DEF IInv, Lives
  <2>2. CASE error = Len(heap)
    BY <1>1, <1>2, <1>4, <1>6, <2>1, <2>2 DEF Lives
  <2>3. CASE error # Len(heap)
    BY <1>1, <1>2, <1>4, <1>6, <2>1, <2>3 DEF Lives, NULL, IInv, TypeOK
  <2> QED
    BY <2>2, <2>3
<1> QED
  BY <1>7, <1>8, <1>9, <1>10 DEF IInv

LEMMA NextIInv == IInv /\ [Next]_vars => IInv'
<1> SUFFICES ASSUME IInv, [Next]_vars PROVE IInv'
  OBVIOUS
<1>1. CASE tsg_error
  <2>1. UNCHANGED <<heap, head, tail, first, error>> /\ at = "idle" /\ at' = "format"
        /\ format' \in Formats /\ src' = 1 /\ out' = 0 /\ asked' = 0
    BY <1>1 DEF tsg_error, list
  <2>2. TypeOK'
    BY <2>1, ErrorsAssumption DEF IInv, TypeOK
  <2>3. InBuffer' /\ Faithful' /\ CutOnlyIfFull'
    BY <2>1, ErrorsAssumption DEF IInv, TypeOK, InBuffer, Faithful, CutOnlyIfFull, buffer_end
  <2>4. Linked' /\ Lives'
    BY <2>1 DEF IInv, Linked, Lives
  <2> QED
    BY <2>2, <2>3, <2>4 DEF IInv
<1>2. CASE put_char \/ put_percent \/ put_arg
  BY <1>2, PutIInv
<1>3. CASE message_end
  BY <1>3, EndIInv
<1>4. CASE tsg_errlist_release
  <2>1. UNCHANGED <<format, src, out, asked, heap, head, tail, first>> /\ at = "idle"
        /\ at' = "release" /\ error' = head
    BY <1>4 DEF tsg_errlist_release, message, list
  <2>2. TypeOK' /\ InBuffer' /\ Faithful' /\ CutOnlyIfFull' /\ Linked'
    BY <2>1 DEF IInv, TypeOK, InBuffer, Faithful, CutOnlyIfFull, Linked, buffer_end
  <2>3. Lives'
    BY <2>1 DEF IInv, TypeOK, Linked, Lives, NULL
  <2> QED
    BY <2>2, <2>3 DEF IInv
<1>5. CASE release_one
  BY <1>5, ReleaseIInv
<1>6. CASE release_end
  <2>1. UNCHANGED <<format, src, out, asked, heap, error>> /\ at = "release" /\ error = NULL
        /\ at' = "idle" /\ head' = NULL /\ tail' = NULL /\ first' = Len(heap) + 1
    BY <1>6 DEF release_end, message, tsg_errlist_init
  <2>2. TypeOK' /\ InBuffer' /\ Faithful' /\ CutOnlyIfFull'
    BY <2>1 DEF IInv, TypeOK, InBuffer, Faithful, CutOnlyIfFull, buffer_end, NULL
  <2>3. Linked' /\ Lives'
    BY <2>1 DEF IInv, TypeOK, Linked, Lives, NULL
  <2> QED
    BY <2>2, <2>3 DEF IInv
<1>7. CASE UNCHANGED vars
  BY <1>7 DEF vars, message, list, IInv, TypeOK, InBuffer, Faithful, CutOnlyIfFull, Linked,
              Lives, buffer_end
<1> QED
  BY <1>1, <1>2, <1>3, <1>4, <1>5, <1>6, <1>7 DEF Next

LEMMA IInvAlways == Spec => []IInv
  BY InitIInv, NextIInv, PTL DEF Spec

\* create_error_message stays in its buffer (error.c:79), whatever the names.
THEOREM MessagesInBounds == Spec => []InBuffer
<1>1. IInv => InBuffer
  BY DEF IInv
<1> QED
  BY <1>1, IInvAlways, PTL

\* A message is whole, or cut where the buffer is full but for a byte (error.c:79-94).
THEOREM MessagesWhole == Spec => []CutOnlyIfFull
<1>1. IInv => CutOnlyIfFull
  BY DEF IInv
<1> QED
  BY <1>1, IInvAlways, PTL

\* The list holds the errors in their order (error.c:56-62).
THEOREM ErrorsInOrder == Spec => []ListInOrder
<1>1. IInv => ListInOrder
  BY DEF IInv, TypeOK, Linked, Lives, ListInOrder, NULL
<1> QED
  BY <1>1, IInvAlways, PTL

\* A release frees each error once, and all of them (error.c:22-32).
THEOREM ErrorsFreed == Spec => []Released
<1>1. IInv => Released
  BY DEF IInv, TypeOK, Linked, Lives, Released, FreedOnce, AllFreed, NULL
<1> QED
  BY <1>1, IInvAlways, PTL
=============================================================================
