---------------------------- MODULE ScannerProofs ----------------------------
(***************************************************************************)
(* Proofs about how the text comes in: the scanner, for every text, and    *)
(* below it read_source, for every size of chunk and of input.             *)
(*                                                                         *)
(* After the last token the stream stands at a character that begins no    *)
(* token, no loop of the scanner consumes it, and the token began there:   *)
(* so the next call returns the same one.  The line and the column are     *)
(* those of the index, except that a comment that the end of the text      *)
(* cuts off counts a column more.                                          *)
(***************************************************************************)
EXTENDS Scanner, Source, FiniteSetTheorems, SequenceTheorems, Induction, TLAPS

States == {"idle", "space", "start", "slash", "equal", "number", "identifier", "line"}

Kinds == Single \cup {"/", "=", "==", "number"}
                \cup {"def", "val", "if", "else", "identifier"} \cup Ends

token_t == [kind : Kinds, text : Seq(STRING), line : Nat, column : Nat]

Shapes ==
  /\ text \in Seq(STRING)
  /\ ptr \in 1 .. Len(text) + 1
  /\ line \in Nat \ {0} /\ column \in Nat \ {0}
  /\ state \in States
  /\ begin \in (Nat \ {0}) \X (Nat \ {0}) \X (Nat \ {0}) /\ begin[1] <= ptr
  /\ tokens \in Seq(token_t)
  /\ Len(tokens) <= MaxScans /\ (state # "idle" => Len(tokens) < MaxScans)

\* Characters that begin a token or are passed over.
Begins == Spaces \cup Single \cup {"/", "="} \cup Digits \cup Letters

\* At the last token: where the stream stands, and what was returned.
AtLast ==
  tokens # << >> /\ Last(tokens).kind \in Ends =>
    /\ state \in {"idle", "space", "start"}
    /\ begin = <<ptr, line, column>>
    /\ ch \notin Begins
    /\ Last(tokens) = [kind |-> IF ch = NUL THEN "EOF" ELSE "ERROR", text |-> << >>,
                       line |-> line, column |-> column]

\* The line of the index p begins after b.
LineAfter(p, b) ==
  /\ b \in 0 .. p - 1
  /\ b = 0 \/ text[b] = "\n"
  /\ \A k \in b + 1 .. p - 1 : text[k] # "\n"

\* The line l and the column c are those of the index p; at the end of the text
\* the column may be behind the line's last one.
At(p, l, c) ==
  /\ l = Cardinality(Newlines(p)) + 1
  /\ \E b \in 0 .. p - 1 : /\ LineAfter(p, b)
                           /\ c = p - b \/ (p = Len(text) + 1 /\ c > p - b)

SInv ==
  /\ Shapes
  /\ state = "start" => begin = <<ptr, line, column>> /\ ch \notin Spaces
  /\ AtLast
  /\ At(ptr, line, column)
  /\ At(begin[1], begin[2], begin[3])

----------------------------------------------------------------------------
\* The character under the pointer.
LEMMA Char ==
  ASSUME Shapes
  PROVE  /\ Len(text) \in Nat /\ ptr \in Nat /\ ptr >= 1
         /\ DOMAIN text = 1 .. Len(text)
         /\ ptr <= Len(text) => ptr \in DOMAIN text /\ ch = text[ptr]
         /\ ptr > Len(text) => ptr = Len(text) + 1 /\ ch = NUL
<1>1. /\ text \in Seq(STRING) /\ Len(text) \in Nat /\ DOMAIN text = 1 .. Len(text)
      /\ ptr \in 1 .. Len(text) + 1
  BY DEF Shapes
<1>2. ASSUME ptr <= Len(text) PROVE ptr \in DOMAIN text /\ ch = text[ptr]
  <2>1. ptr \in DOMAIN text
    BY <1>1, <1>2
  <2>2. ch = text[ptr]
    BY <1>2, Zenon DEF ch
  <2> QED
    BY <2>1, <2>2
<1>3. ASSUME ptr > Len(text) PROVE ptr = Len(text) + 1 /\ ch = NUL
  <2>1. ptr = Len(text) + 1 /\ ~ (ptr <= Len(text))
    BY <1>1, <1>3
  <2>2. ch = NUL
    BY <2>1, Zenon DEF ch
  <2> QED
    BY <2>1, <2>2
<1> QED
  BY <1>1, <1>2, <1>3

\* The newlines before an index can be counted, and the character at the index
\* is the next that may be one.
LEMMA NewlinesFinite ==
  ASSUME NEW p \in Nat, p >= 1
  PROVE  /\ IsFiniteSet(Newlines(p)) /\ Cardinality(Newlines(p)) \in Nat
         /\ text[p] = "\n" => Cardinality(Newlines(p + 1)) = Cardinality(Newlines(p)) + 1
         /\ text[p] # "\n" => Newlines(p + 1) = Newlines(p)
<1>1. IsFiniteSet(1 .. p - 1)
  BY FS_Interval
<1>2. Newlines(p) \subseteq 1 .. p - 1
  BY DEF Newlines
<1>3. IsFiniteSet(Newlines(p))
  BY <1>1, <1>2, FS_Subset
<1>4. Cardinality(Newlines(p)) \in Nat
  BY <1>3, FS_CardinalityType
<1>5. 1 .. (p + 1) - 1 = (1 .. p - 1) \cup {p}
  OBVIOUS
<1>6. ASSUME text[p] = "\n"
      PROVE  Cardinality(Newlines(p + 1)) = Cardinality(Newlines(p)) + 1
  <2>1. Newlines(p + 1) = Newlines(p) \cup {p} /\ p \notin Newlines(p)
    BY <1>5, <1>6 DEF Newlines
  <2> QED
    BY <1>3, <2>1, FS_AddElement
<1>7. ASSUME text[p] # "\n" PROVE Newlines(p + 1) = Newlines(p)
  BY <1>5, <1>7 DEF Newlines
<1> QED
  BY <1>3, <1>4, <1>6, <1>7

\* next keeps the line and the column in step with the pointer.
LEMMA NextPlaced ==
  ASSUME Shapes, At(ptr, line, column), next, text' = text
  PROVE  /\ At(ptr, line, column)'
         /\ ptr' \in ptr .. Len(text) + 1
         /\ line' \in Nat \ {0} /\ column' \in Nat \ {0}
<1>1. /\ Len(text) \in Nat /\ ptr \in Nat /\ ptr >= 1
      /\ ptr <= Len(text) => ch = text[ptr]
      /\ ptr > Len(text) => ptr = Len(text) + 1 /\ ch = NUL
  BY Char
<1>2. line \in Nat \ {0} /\ column \in Nat \ {0}
  BY DEF Shapes
<1>3. PICK b \in 0 .. ptr - 1 :
        LineAfter(ptr, b) /\ (column = ptr - b \/ (ptr = Len(text) + 1 /\ column > ptr - b))
  BY DEF At
<1>4. line = Cardinality(Newlines(ptr)) + 1
  BY DEF At
<1>5. \A p : Newlines(p)' = Newlines(p)
  BY DEF Newlines
<1>6. CASE ptr <= Len(text) /\ ch = "\n"
  <2>1. ptr' = ptr + 1 /\ line' = line + 1 /\ column' = 1 /\ text[ptr] = "\n"
    BY <1>1, <1>6 DEF next
  <2>2. Cardinality(Newlines(ptr + 1)) = Cardinality(Newlines(ptr)) + 1
        /\ Cardinality(Newlines(ptr)) \in Nat
    BY <1>1, <2>1, NewlinesFinite
  <2>3. line' = Cardinality(Newlines(ptr + 1)) + 1
    BY <1>4, <2>1, <2>2
  <2>5. /\ ptr \in 0 .. (ptr + 1) - 1 /\ text'[ptr] = "\n" /\ 1 = (ptr + 1) - ptr
        /\ \A k \in ptr + 1 .. (ptr + 1) - 1 : text'[k] # "\n"
    BY <1>1, <2>1
  <2>6. Newlines(ptr)' = Newlines(ptr + 1)
    BY <2>1 DEF Newlines
  <2>7. At(ptr, line, column)'
    BY <2>1, <2>3, <2>5, <2>6 DEF At, LineAfter
  <2> QED
    BY <1>1, <1>2, <1>6, <2>1, <2>7
<1>7. CASE ptr <= Len(text) /\ ch # "\n"
  <2>1. ptr' = ptr + 1 /\ line' = line /\ column' = column + 1 /\ text[ptr] # "\n"
    BY <1>1, <1>7 DEF next
  <2>2. Newlines(ptr + 1) = Newlines(ptr)
    BY <1>1, <2>1, NewlinesFinite
  <2>3. line' = Cardinality(Newlines(ptr + 1)) + 1
    BY <1>4, <2>1, <2>2
  <2>4. /\ b \in 0 .. (ptr + 1) - 1 /\ (b = 0 \/ text'[b] = "\n")
        /\ \A k \in b + 1 .. (ptr + 1) - 1 : text'[k] # "\n"
        /\ column + 1 = (ptr + 1) - b
    BY <1>1, <1>2, <1>3, <1>7, <2>1 DEF LineAfter
  <2>5. Newlines(ptr)' = Newlines(ptr + 1)
    BY <2>1 DEF Newlines
  <2>6. At(ptr, line, column)'
    BY <2>1, <2>3, <2>4, <2>5 DEF At, LineAfter
  <2> QED
    BY <1>1, <1>2, <1>7, <2>1, <2>6
<1>8. CASE ptr > Len(text)
  <2>1. ptr' = ptr /\ line' = line /\ column' = column + 1
    BY <1>1, <1>8 DEF next, NUL
  <2>2. /\ b \in 0 .. ptr - 1 /\ (b = 0 \/ text'[b] = "\n")
        /\ \A k \in b + 1 .. ptr - 1 : text'[k] # "\n"
        /\ ptr = Len(text) + 1 /\ column + 1 > ptr - b
    BY <1>1, <1>2, <1>3, <1>8 DEF LineAfter
  <2>3. Newlines(ptr)' = Newlines(ptr)
    BY <2>1 DEF Newlines
  <2>4. At(ptr, line, column)'
    BY <1>4, <2>1, <2>2, <2>3 DEF At, LineAfter
  <2> QED
    BY <1>1, <1>2, <2>1, <2>4
<1> QED
  BY <1>1, <1>6, <1>7, <1>8

\* A position does not depend on the state of the scanner.
LEMMA SamePlace ==
  ASSUME NEW p, NEW l, NEW c, At(p, l, c), text' = text
  PROVE  At(p, l, c)'
BY DEF At, LineAfter, Newlines

\* The classes of characters have none in common, and a word is no end.
LEMMA Classes ==
  /\ NUL \notin Begins
  /\ Single \subseteq Kinds /\ Single \cap Ends = {} /\ NUL \notin Single
  /\ {"/", "=", "==", "number", "EOF", "ERROR"} \subseteq Kinds
  /\ {"/", "=", "==", "number"} \cap Ends = {} /\ {"EOF", "ERROR"} \subseteq Ends
  /\ \A w : keywordOf(w) \in Kinds /\ keywordOf(w) \notin Ends
<1>1. NUL \notin Begins
  BY DEF NUL, Begins, Spaces, Single, Digits, Letters
<1>2. Single \subseteq Kinds /\ {"/", "=", "==", "number", "EOF", "ERROR"} \subseteq Kinds
  BY DEF Kinds, Ends
<1>3. Single \cap Ends = {} /\ NUL \notin Single
  BY DEF Single, Ends, NUL
<1>4. {"/", "=", "==", "number"} \cap Ends = {} /\ {"EOF", "ERROR"} \subseteq Ends
  BY DEF Ends
<1>5. \A w : keywordOf(w) \in {"def", "val", "if", "else", "identifier"}
  BY DEF keywordOf
<1>6. \A k \in {"def", "val", "if", "else", "identifier"} : k \in Kinds /\ k \notin Ends
  BY DEF Kinds, Ends
<1> QED
  BY <1>1, <1>2, <1>3, <1>4, <1>5, <1>6

----------------------------------------------------------------------------
\* What return leaves: one token more, that has the position at which it began.
LEMMA Returned ==
  ASSUME Shapes, state # "idle", NEW kind \in Kinds, NEW e \in begin[1] .. Len(text) + 1,
         return(kind, e)
  PROVE  /\ tokens' \in Seq(token_t) /\ Len(tokens') <= MaxScans /\ state' = "idle"
         /\ tokens' # << >> /\ Last(tokens') = Token(kind, e)
         /\ Token(kind, e).line = begin[2] /\ Token(kind, e).column = begin[3]
         /\ kind \notin Ends => Token(kind, e).kind \notin Ends
         /\ kind # "identifier" /\ e = begin[1] =>
              Token(kind, e) = [kind |-> kind, text |-> << >>,
                                line |-> begin[2], column |-> begin[3]]
<1> DEFINE word == SubSeq(text, begin[1], e - 1)
           k    == IF kind = "identifier" THEN keywordOf(word) ELSE kind
           t    == [kind |-> k, text |-> word, line |-> begin[2], column |-> begin[3]]
<1>1. Token(kind, e) = t
  BY DEF Token
<1>2. /\ begin[1] \in Nat /\ begin[1] >= 1 /\ begin[2] \in Nat /\ begin[3] \in Nat
      /\ text \in Seq(STRING) /\ Len(text) \in Nat
      /\ tokens \in Seq(token_t) /\ Len(tokens) \in Nat
      /\ Len(tokens) < MaxScans /\ MaxScans \in Nat
  BY MaxScansAssumption DEF Shapes
<1>3. word \in Seq(STRING)
  <2>1. e - 1 <= Len(text) /\ e \in Nat /\ e - 1 \in Nat
    BY <1>2
  <2>2. \A i \in begin[1] .. e - 1 : text[i] \in STRING
    BY <1>2, <2>1
  <2> QED
    BY <1>2, <2>1, <2>2
<1>4. k \in Kinds /\ (kind \notin Ends => k \notin Ends)
  BY Classes
<1> HIDE DEF word, k
<1>5. t \in token_t
  BY <1>2, <1>3, <1>4 DEF token_t
<1>6. t.line = begin[2] /\ t.column = begin[3] /\ t.kind = k
  OBVIOUS
<1>7. tokens' = Append(tokens, t) /\ state' = "idle"
  BY <1>1 DEF return
<1> HIDE DEF t
<1>8. /\ tokens' \in Seq(token_t) /\ Len(tokens') = Len(tokens) + 1
      /\ tokens'[Len(tokens) + 1] = t
  BY <1>2, <1>5, <1>7
<1>9. Len(tokens') <= MaxScans /\ tokens' # << >> /\ Last(tokens') = t
  BY <1>2, <1>8 DEF Last
<1>10. ASSUME kind # "identifier", e = begin[1]
       PROVE  t = [kind |-> kind, text |-> << >>, line |-> begin[2], column |-> begin[3]]
  <2>1. word = << >>
    BY <1>2, <1>10 DEF word
  <2>2. k = kind
    BY <1>10 DEF k
  <2> QED
    BY <2>1, <2>2 DEF t
<1> QED
  BY <1>1, <1>4, <1>6, <1>7, <1>8, <1>9, <1>10

\* Whatever a turn consumes, the positions stay those of their indices.
LEMMA Moved ==
  ASSUME SInv, text' = text, next \/ stay, begin' = begin
  PROVE  /\ At(ptr, line, column)' /\ At(begin[1], begin[2], begin[3])'
         /\ ptr' \in ptr .. Len(text) + 1 /\ ptr' \in 1 .. Len(text') + 1
         /\ begin[1] \in Nat /\ begin[1] <= ptr /\ begin'[1] <= ptr' /\ ptr \in Nat
         /\ line' \in Nat \ {0} /\ column' \in Nat \ {0}
         /\ begin' \in (Nat \ {0}) \X (Nat \ {0}) \X (Nat \ {0})
         /\ text' \in Seq(STRING)
<1>1. /\ Shapes /\ At(ptr, line, column) /\ At(begin[1], begin[2], begin[3])
  BY DEF SInv
<1>2. /\ text \in Seq(STRING) /\ ptr \in 1 .. Len(text) + 1 /\ Len(text) \in Nat
      /\ line \in Nat \ {0} /\ column \in Nat \ {0}
      /\ begin \in (Nat \ {0}) \X (Nat \ {0}) \X (Nat \ {0}) /\ begin[1] <= ptr
  BY <1>1 DEF Shapes
<1>3. /\ At(ptr, line, column)' /\ ptr' \in ptr .. Len(text) + 1
      /\ line' \in Nat \ {0} /\ column' \in Nat \ {0}
  <2>1. CASE next
    BY <1>1, <2>1, NextPlaced
  <2>2. CASE stay
    <3>1. ptr' = ptr /\ line' = line /\ column' = column
      BY <2>2 DEF stay
    <3>2. At(ptr, line, column)'
      BY <1>1, <3>1 DEF At, LineAfter, Newlines
    <3> QED
      BY <1>2, <3>1, <3>2
  <2> QED
    BY <2>1, <2>2
<1>4. At(begin[1], begin[2], begin[3])'
  BY <1>1 DEF At, LineAfter, Newlines
<1> QED
  BY <1>2, <1>3, <1>4

\* A turn within a token that returns none.
LEMMA TurnKeeps ==
  ASSUME SInv, state \notin {"idle", "space", "start"}, text' = text, next \/ stay,
         UNCHANGED <<begin, tokens>>, state' \in States \ {"idle", "start"}
  PROVE  SInv'
<1>1. /\ At(ptr, line, column)' /\ At(begin[1], begin[2], begin[3])'
      /\ ptr' \in 1 .. Len(text') + 1 /\ begin'[1] <= ptr'
      /\ line' \in Nat \ {0} /\ column' \in Nat \ {0}
      /\ begin' \in (Nat \ {0}) \X (Nat \ {0}) \X (Nat \ {0})
      /\ text' \in Seq(STRING)
  BY Moved
<1>2. /\ tokens' \in Seq(token_t) /\ Len(tokens') <= MaxScans
      /\ (state' # "idle" => Len(tokens') < MaxScans)
  BY DEF SInv, Shapes
<1>3. Shapes'
  BY <1>1, <1>2 DEF Shapes, States
<1>4. ~ (tokens # << >> /\ Last(tokens).kind \in Ends)
  BY DEF SInv, AtLast
<1>5. AtLast'
  BY <1>4 DEF AtLast
<1> QED
  BY <1>1, <1>3, <1>5 DEF SInv

\* A turn that returns a token that is not the last.
LEMMA ReturnKeeps ==
  ASSUME SInv, state # "idle", text' = text, next \/ stay, begin' = begin,
         NEW kind \in Kinds \ Ends, NEW e \in begin[1] .. Len(text) + 1, return(kind, e)
  PROVE  SInv'
<1>1. /\ At(ptr, line, column)' /\ At(begin[1], begin[2], begin[3])'
      /\ ptr' \in 1 .. Len(text') + 1 /\ begin'[1] <= ptr'
      /\ line' \in Nat \ {0} /\ column' \in Nat \ {0}
      /\ begin' \in (Nat \ {0}) \X (Nat \ {0}) \X (Nat \ {0})
      /\ text' \in Seq(STRING)
  BY Moved
<1>2. /\ tokens' \in Seq(token_t) /\ Len(tokens') <= MaxScans /\ state' = "idle"
      /\ Last(tokens') = Token(kind, e) /\ Token(kind, e).kind \notin Ends
  BY Returned DEF SInv
<1>3. Shapes'
  BY <1>1, <1>2 DEF Shapes, States
<1>4. AtLast'
  BY <1>2 DEF AtLast
<1> QED
  BY <1>1, <1>2, <1>3, <1>4 DEF SInv

----------------------------------------------------------------------------
\* What SInv says of the index and of the character under it.
LEMMA Under ==
  ASSUME SInv
  PROVE  /\ Len(text) \in Nat /\ ptr \in Nat /\ ptr >= 1 /\ ptr <= Len(text) + 1
         /\ begin[1] \in Nat /\ begin[1] >= 1 /\ begin[1] <= ptr
         /\ next => ptr' \in ptr .. Len(text) + 1
         /\ tokens # << >> /\ Last(tokens).kind \in Ends =>
              state \in {"idle", "space", "start"} /\ ch \notin Begins
<1>1. Len(text) \in Nat /\ ptr \in Nat /\ ptr >= 1 /\ ptr <= Len(text) + 1
  BY DEF SInv, Shapes
<1>2. begin[1] \in Nat /\ begin[1] >= 1 /\ begin[1] <= ptr
  BY DEF SInv, Shapes
<1>3. ASSUME next PROVE ptr' \in ptr .. Len(text) + 1
  BY <1>1, <1>3 DEF next
<1> QED
  BY <1>1, <1>2, <1>3 DEF SInv, AtLast

LEMMA SInvInit == SInit => SInv
<1> SUFFICES ASSUME SInit PROVE SInv
  OBVIOUS
<1>1. /\ text \in Seq(STRING) /\ ptr = 1 /\ line = 1 /\ column = 1 /\ state = "idle"
      /\ begin = <<1, 1, 1>> /\ tokens = << >>
  BY TextsAssumption DEF SInit
<1>2. Shapes
  BY <1>1, MaxScansAssumption DEF Shapes, States
<1>3. At(1, 1, 1)
  <2>1. Newlines(1) = {}
    BY DEF Newlines
  <2>2. Cardinality(Newlines(1)) = 0
    BY <2>1, FS_EmptySet
  <2>3. LineAfter(1, 0) /\ 0 \in 0 .. 1 - 1 /\ 1 = 1 - 0
    BY DEF LineAfter
  <2> QED
    BY <2>2, <2>3 DEF At
<1>4. AtLast
  BY <1>1 DEF AtLast
<1> QED
  BY <1>1, <1>2, <1>3, <1>4 DEF SInv

LEMMA StepScan == SInv /\ scan => SInv'
<1> SUFFICES ASSUME SInv, scan PROVE SInv'
  OBVIOUS
<1>1. /\ state = "idle" /\ text' = text /\ Len(tokens) < MaxScans /\ state' = "space"
      /\ stay /\ begin' = begin /\ tokens' = tokens
  BY DEF scan, In
<1>2. ptr' = ptr /\ line' = line /\ column' = column
  BY <1>1 DEF stay
<1>3. Shapes'
  BY <1>1, <1>2 DEF SInv, Shapes, States
<1>4. At(ptr, line, column)' /\ At(begin[1], begin[2], begin[3])'
  BY <1>1, Moved
<1>5. AtLast'
  BY <1>1, <1>2 DEF SInv, AtLast, ch
<1> QED
  BY <1>1, <1>3, <1>4, <1>5 DEF SInv

LEMMA StepSkip == SInv /\ skip_whitespace => SInv'
<1> SUFFICES ASSUME SInv, skip_whitespace PROVE SInv'
  OBVIOUS
<1>1. state = "space" /\ text' = text /\ tokens' = tokens
  BY DEF skip_whitespace, In
<1>2. /\ tokens \in Seq(token_t) /\ Len(tokens) <= MaxScans /\ Len(tokens) < MaxScans
  BY <1>1 DEF SInv, Shapes
<1>3. CASE ch \in Spaces
  <2>1. next /\ state' = state /\ begin' = begin
    BY <1>3 DEF skip_whitespace
  <2>2. /\ At(ptr, line, column)' /\ At(begin[1], begin[2], begin[3])'
        /\ ptr' \in 1 .. Len(text') + 1 /\ begin'[1] <= ptr'
        /\ line' \in Nat \ {0} /\ column' \in Nat \ {0}
        /\ begin' \in (Nat \ {0}) \X (Nat \ {0}) \X (Nat \ {0})
        /\ text' \in Seq(STRING)
    BY <1>1, <2>1, Moved
  <2>3. Shapes'
    BY <1>1, <1>2, <2>1, <2>2 DEF Shapes, States
  <2>4. ~ (tokens # << >> /\ Last(tokens).kind \in Ends)
    BY <1>3, Under DEF Begins
  <2>5. AtLast'
    BY <1>1, <2>4 DEF AtLast
  <2> QED
    BY <1>1, <2>1, <2>2, <2>3, <2>5 DEF SInv
<1>4. CASE ch \notin Spaces
  <2>1. stay /\ state' = "start" /\ begin' = <<ptr, line, column>>
    BY <1>4 DEF skip_whitespace
  <2>2. ptr' = ptr /\ line' = line /\ column' = column
    BY <2>1 DEF stay
  <2>3. Shapes'
    BY <1>1, <1>2, <2>1, <2>2 DEF SInv, Shapes, States
  <2>4. begin' = <<ptr', line', column'>>
    BY <2>1, <2>2
  <2>5. At(ptr, line, column)'
    BY <1>1, <2>2 DEF SInv, At, LineAfter, Newlines
  <2>6. begin'[1] = ptr' /\ begin'[2] = line' /\ begin'[3] = column'
    BY <2>4
  <2>7. At(begin[1], begin[2], begin[3])'
    BY <2>5, <2>6
  <2>8. ch' = ch
    BY <1>1, <2>2 DEF ch
  <2>9. AtLast'
    BY <1>1, <2>1, <2>2, <2>4, <2>8 DEF SInv, AtLast
  <2> QED
    BY <1>4, <2>1, <2>3, <2>4, <2>5, <2>7, <2>8, <2>9 DEF SInv
<1> QED
  BY <1>3, <1>4

LEMMA StepFirst == SInv /\ first => SInv'
<1> SUFFICES ASSUME SInv, first PROVE SInv'
  OBVIOUS
<1>1. state = "start" /\ text' = text /\ begin' = begin
  BY DEF first, In
<1>2. /\ begin = <<ptr, line, column>> /\ begin[1] = ptr /\ ptr \in Nat
      /\ ptr \in begin[1] .. Len(text) + 1
      /\ begin[1] = ptr /\ begin[2] = line /\ begin[3] = column /\ Shapes
  BY <1>1, Under DEF SInv
<1>3. /\ NUL \notin Begins /\ Single \subseteq Begins /\ Single \subseteq Kinds
      /\ Single \cap Ends = {} /\ "EOF" \in Kinds /\ "ERROR" \in Kinds
  BY Classes DEF Begins
<1>4. ASSUME ch \in Begins PROVE ~ (tokens # << >> /\ Last(tokens).kind \in Ends)
  BY <1>4, Under
<1>5. ASSUME ch \notin Begins, stay,
             return(IF ch = NUL THEN "EOF" ELSE "ERROR", ptr)
      PROVE  SInv'
  <2> DEFINE kind == IF ch = NUL THEN "EOF" ELSE "ERROR"
  <2>1. kind \in Kinds /\ kind # "identifier"
    BY <1>3
  <2>2. return(kind, ptr)
    BY <1>5
  <2> HIDE DEF kind
  <2>3. /\ tokens' \in Seq(token_t) /\ Len(tokens') <= MaxScans /\ state' = "idle"
        /\ Last(tokens') = [kind |-> kind, text |-> << >>,
                            line |-> begin[2], column |-> begin[3]]
    BY <1>1, <1>2, <2>1, <2>2, Returned
  <2>4. ptr' = ptr /\ line' = line /\ column' = column /\ ch' = ch
    BY <1>1, <1>5 DEF stay, ch
  <2>5. Shapes'
    BY <1>1, <2>3, <2>4 DEF SInv, Shapes, States
  <2>6. At(ptr, line, column)' /\ At(begin[1], begin[2], begin[3])'
    BY <1>1, <1>5, Moved
  <2>7. AtLast'
    BY <1>1, <1>2, <1>5, <2>3, <2>4 DEF AtLast, kind
  <2> QED
    BY <2>3, <2>5, <2>6, <2>7 DEF SInv
<1>6. ASSUME NEW s \in States \ {"idle", "start", "space"}, ch \in Begins,
             next \/ stay, state' = s, UNCHANGED tokens
      PROVE  SInv'
  <2>1. /\ At(ptr, line, column)' /\ At(begin[1], begin[2], begin[3])'
        /\ ptr' \in 1 .. Len(text') + 1 /\ begin'[1] <= ptr'
        /\ line' \in Nat \ {0} /\ column' \in Nat \ {0}
        /\ begin' \in (Nat \ {0}) \X (Nat \ {0}) \X (Nat \ {0})
        /\ text' \in Seq(STRING)
    BY <1>1, <1>6, Moved
  <2>2. Shapes'
    BY <1>1, <1>6, <2>1 DEF SInv, Shapes
  <2>3. AtLast'
    BY <1>4, <1>6 DEF AtLast
  <2> QED
    BY <1>6, <2>1, <2>2, <2>3 DEF SInv
<1>7. \/ ch = NUL /\ stay /\ return("EOF", ptr)
      \/ ch \in Single /\ next /\ return(ch, ptr')
      \/ ch = "/" /\ next /\ state' = "slash" /\ UNCHANGED tokens
      \/ ch = "=" /\ next /\ state' = "equal" /\ UNCHANGED tokens
      \/ ch \in Digits /\ stay /\ state' = "number" /\ UNCHANGED tokens
      \/ ch \in Letters /\ stay /\ state' = "identifier" /\ UNCHANGED tokens
      \/ /\ ch # NUL /\ ch \notin Single \cup {"/", "="} \cup Digits \cup Letters
         /\ stay /\ return("ERROR", ptr)
  BY DEF first
<1>8. CASE ch = NUL /\ stay /\ return("EOF", ptr)
  BY <1>3, <1>5, <1>8
<1>9. CASE ch \in Single /\ next /\ return(ch, ptr')
  <2>1. ptr' \in begin[1] .. Len(text) + 1
    BY <1>2, <1>9, Under
  <2>2. ch \in Kinds \ Ends
    BY <1>3, <1>9
  <2> QED
    BY <1>1, <1>9, <2>1, <2>2, ReturnKeeps
<1>10. CASE \/ ch = "/" /\ next /\ state' = "slash" /\ UNCHANGED tokens
            \/ ch = "=" /\ next /\ state' = "equal" /\ UNCHANGED tokens
            \/ ch \in Digits /\ stay /\ state' = "number" /\ UNCHANGED tokens
            \/ ch \in Letters /\ stay /\ state' = "identifier" /\ UNCHANGED tokens
  <2>1. {"slash", "equal", "number", "identifier"} \subseteq States \ {"idle", "start", "space"}
    BY DEF States
  <2>2. {"/", "="} \cup Digits \cup Letters \subseteq Begins
    BY DEF Begins
  <2>3. state' \in States \ {"idle", "start", "space"} /\ ch \in Begins
    BY <1>10, <2>1, <2>2
  <2> QED
    BY <1>6, <1>10, <2>3
<1>11. CASE /\ ch # NUL /\ ch \notin Single \cup {"/", "="} \cup Digits \cup Letters
            /\ stay /\ return("ERROR", ptr)
  <2>1. ch \notin Spaces
    BY <1>1 DEF SInv
  <2> QED
    BY <1>5, <1>11, <2>1 DEF Begins
<1> QED
  BY <1>7, <1>8, <1>9, <1>10, <1>11

\* The turns within a token: it goes on, or it is returned up to the pointer.
LEMMA StepWithin ==
  SInv /\ (scan_slash \/ scan_equal \/ scan_number \/ scan_identifier \/ scan_line) => SInv'
<1> SUFFICES ASSUME SInv,
                    scan_slash \/ scan_equal \/ scan_number \/ scan_identifier \/ scan_line
             PROVE  SInv'
  OBVIOUS
<1>1. text' = text /\ begin' = begin
  BY DEF scan_slash, scan_equal, scan_number, scan_identifier, scan_line, In
<1>2. /\ state \notin {"idle", "space", "start"} /\ state \in States
      /\ {"line", "space"} \subseteq States
  BY DEF scan_slash, scan_equal, scan_number, scan_identifier, scan_line, In, States
<1>3. ptr \in begin[1] .. Len(text) + 1 /\ (next => ptr' \in begin[1] .. Len(text) + 1)
  <2>1. /\ Len(text) \in Nat /\ ptr \in Nat /\ ptr >= 1 /\ ptr <= Len(text) + 1
        /\ begin[1] \in Nat /\ begin[1] >= 1 /\ begin[1] <= ptr
        /\ next => ptr' \in ptr .. Len(text) + 1
    BY Under
  <2> HIDE DEF next
  <2> QED
    BY <2>1
<1>4. {"/", "=", "==", "number", "identifier"} \subseteq Kinds \ Ends
  BY DEF Kinds, Ends
<1>5. CASE scan_slash
  <2>1. stay /\ ((state' = "line" /\ UNCHANGED tokens) \/ return("/", ptr))
    BY <1>5 DEF scan_slash
  <2>2. CASE state' = "line" /\ UNCHANGED tokens
    BY <1>1, <1>2, <2>1, <2>2, TurnKeeps
  <2>3. CASE return("/", ptr)
    BY <1>1, <1>2, <1>3, <1>4, <2>1, <2>3, ReturnKeeps
  <2> QED
    BY <2>1, <2>2, <2>3
<1>6. CASE scan_equal
  <2>1. (next /\ return("==", ptr')) \/ (stay /\ return("=", ptr))
    BY <1>6 DEF scan_equal
  <2>2. CASE next /\ return("==", ptr')
    BY <1>1, <1>2, <1>3, <1>4, <2>2, ReturnKeeps
  <2>3. CASE stay /\ return("=", ptr)
    BY <1>1, <1>2, <1>3, <1>4, <2>3, ReturnKeeps
  <2> QED
    BY <2>1, <2>2, <2>3
<1>7. CASE scan_number \/ scan_identifier
  <2>1. \/ next /\ UNCHANGED <<state, tokens>>
        \/ stay /\ return("number", ptr)
        \/ stay /\ return("identifier", ptr)
    BY <1>7 DEF scan_number, scan_identifier
  <2>2. CASE next /\ UNCHANGED <<state, tokens>>
    <3>1. state' = state /\ tokens' = tokens /\ state' \in States \ {"idle", "start"}
      BY <1>2, <2>2
    <3> QED
      BY <1>1, <1>2, <2>2, <3>1, TurnKeeps
  <2>3. CASE stay /\ return("number", ptr)
    BY <1>1, <1>2, <1>3, <1>4, <2>3, ReturnKeeps
  <2>4. CASE stay /\ return("identifier", ptr)
    BY <1>1, <1>2, <1>3, <1>4, <2>4, ReturnKeeps
  <2> QED
    BY <2>1, <2>2, <2>3, <2>4
<1>8. CASE scan_line
  <2>1. next /\ tokens' = tokens /\ state' \in {"line", "space"}
    BY <1>8 DEF scan_line, In
  <2> QED
    BY <1>1, <1>2, <2>1, TurnKeeps
<1> QED
  BY <1>5, <1>6, <1>7, <1>8

LEMMA SInvStutters == SInv /\ UNCHANGED scvars => SInv'
BY DEF SInv, scvars, Shapes, AtLast, At, LineAfter, Newlines, ch

LEMMA SInvStep == SInv /\ [SNext]_scvars => SInv'
BY StepScan, StepSkip, StepFirst, StepWithin, SInvStutters DEF SNext, Scanning

\* The invariant that the theorems about the scanner rest on: after an end of
\* the text or an error the stream stands where the returned token began, and
\* the line and the column kept are those of the index kept.
THEOREM ScannerInvariance == SSpec => []SInv
<1>1. SInit => SInv
  BY SInvInit
<1>2. SInv /\ [SNext]_scvars => SInv'
  BY SInvStep
<1> QED
  BY <1>1, <1>2, PTL DEF SSpec

\* The pointer of the scanner never leaves the text and its end, and a token
\* never begins behind it (scanner.c, next and read).
THEOREM ScannerTypeOK == SSpec => []STypeOK
<1>1. SInv => STypeOK
  BY DEF SInv, Shapes, STypeOK, States
<1> QED
  BY <1>1, ScannerInvariance, PTL

\* Once tsg_scanner_scan has returned the end of the text or an error, every
\* further call returns the same token, of the same kind at the same position:
\* the parser may ask again as often as it likes.
THEOREM EndRepeats == SSpec => LastRepeats
<1>1. SInv /\ SInv' /\ [SNext]_scvars =>
        [tokens # << >> /\ Last(tokens).kind \in Ends => Last(tokens') = Last(tokens)]_scvars
  <2> SUFFICES ASSUME SInv, SInv', SNext, tokens # << >>, Last(tokens).kind \in Ends
               PROVE  Last(tokens') = Last(tokens)
    OBVIOUS
  <2>1. /\ state \in {"idle", "space", "start"} /\ begin = <<ptr, line, column>>
        /\ ch \notin Begins
        /\ Last(tokens) = [kind |-> IF ch = NUL THEN "EOF" ELSE "ERROR", text |-> << >>,
                           line |-> line, column |-> column]
    BY DEF SInv, AtLast
  <2>2. scan \/ skip_whitespace \/ first
    BY <2>1 DEF SNext, Scanning, scan_slash, scan_equal, scan_number, scan_identifier,
                scan_line, In
  <2>3. CASE scan \/ skip_whitespace
    BY <2>3 DEF scan, skip_whitespace
  <2>4. CASE first
    <3>1. stay /\ return(IF ch = NUL THEN "EOF" ELSE "ERROR", ptr) /\ text' = text
      BY <2>1, <2>4 DEF first, Begins, In
    <3>2. ptr' = ptr /\ line' = line /\ column' = column /\ ch' = ch
      BY <3>1 DEF stay, ch
    <3>3. tokens' # << >> /\ Last(tokens').kind \in Ends
      <4>1. state # "idle" /\ Shapes /\ ptr \in begin[1] .. Len(text) + 1 /\ begin[1] = ptr
        BY <2>1, <2>4, Under DEF first, In, SInv
      <4>2. (IF ch = NUL THEN "EOF" ELSE "ERROR") \in Kinds \cap Ends
        BY Classes
      <4>3. (IF ch = NUL THEN "EOF" ELSE "ERROR") # "identifier"
        OBVIOUS
      <4> DEFINE kind == IF ch = NUL THEN "EOF" ELSE "ERROR"
      <4>4. kind \in Kinds \cap Ends /\ kind # "identifier" /\ return(kind, ptr)
        BY <3>1, <4>2, <4>3
      <4> HIDE DEF kind
      <4>5. /\ tokens' # << >>
            /\ Last(tokens') = [kind |-> kind, text |-> << >>,
                                line |-> begin[2], column |-> begin[3]]
        BY <4>1, <4>4, Returned
      <4> QED
        BY <4>4, <4>5
    <3>4. Last(tokens') = [kind |-> IF ch' = NUL THEN "EOF" ELSE "ERROR", text |-> << >>,
                           line |-> line', column |-> column']
      BY <3>3 DEF SInv, AtLast
    <3> QED
      BY <2>1, <3>2, <3>4
  <2> QED
    BY <2>2, <2>3, <2>4
<1> QED
  BY <1>1, ScannerInvariance, PTL DEF SSpec, LastRepeats

\* Each token returned bears the line of the index where it began and, if the
\* text does not end there, the column counted from that line's first
\* character: no newline within spaces, comments or tokens is missed.
TokensPlaced ==
  [][tokens' # tokens =>
       /\ tokens' = Append(tokens, Last(tokens'))
       /\ Last(tokens').line = Cardinality(Newlines(begin[1])) + 1
       /\ begin[1] <= Len(text) =>
            \E b \in 0 .. begin[1] - 1 :
              LineAfter(begin[1], b) /\ Last(tokens').column = begin[1] - b]_scvars

\* The positions that the parser puts in its error lists are those of the
\* tokens in the text (scanner.c, the position kept by next).
THEOREM TokensArePlaced == SSpec => TokensPlaced
<1>1. SInv /\ [SNext]_scvars =>
       [tokens' # tokens =>
         /\ tokens' = Append(tokens, Last(tokens'))
         /\ Last(tokens').line = Cardinality(Newlines(begin[1])) + 1
         /\ begin[1] <= Len(text) =>
              \E b \in 0 .. begin[1] - 1 :
                LineAfter(begin[1], b) /\ Last(tokens').column = begin[1] - b]_scvars
  <2> SUFFICES ASSUME SInv, SNext, tokens' # tokens
               PROVE  /\ tokens' = Append(tokens, Last(tokens'))
                      /\ Last(tokens').line = Cardinality(Newlines(begin[1])) + 1
                      /\ begin[1] <= Len(text) =>
                           \E b \in 0 .. begin[1] - 1 :
                             LineAfter(begin[1], b) /\ Last(tokens').column = begin[1] - b
    OBVIOUS
  <2>1. state # "idle"
    BY DEF SNext, scan, Scanning, skip_whitespace, first, scan_slash, scan_equal,
           scan_number, scan_identifier, scan_line, In
  <2>2. PICK kind, e : return(kind, e)
    BY DEF SNext, scan, Scanning, skip_whitespace, first, scan_slash, scan_equal,
           scan_number, scan_identifier, scan_line
  <2>3. /\ Token(kind, e).line = begin[2] /\ Token(kind, e).column = begin[3]
        /\ tokens' = Append(tokens, Token(kind, e))
    BY <2>2 DEF return, Token
  <2>4. Last(tokens') = Token(kind, e)
    <3>1. tokens \in Seq(token_t)
      BY DEF SInv, Shapes
    <3> DEFINE t == Token(kind, e)
    <3>2. tokens' = Append(tokens, t)
      BY <2>3
    <3> HIDE DEF t
    <3>3. tokens'[Len(tokens')] = t
      BY <3>1, <3>2
    <3> QED
      BY <3>3 DEF Last, t
  <2>5. /\ begin[2] = Cardinality(Newlines(begin[1])) + 1
        /\ \E b \in 0 .. begin[1] - 1 :
             /\ LineAfter(begin[1], b)
             /\ \/ begin[3] = begin[1] - b
                \/ begin[1] = Len(text) + 1 /\ begin[3] > begin[1] - b
    BY DEF SInv, At
  <2>6. begin[1] \in Nat /\ Len(text) \in Nat
    BY Under
  <2>7. begin[1] <= Len(text) =>
          \E b \in 0 .. begin[1] - 1 :
            LineAfter(begin[1], b) /\ Last(tokens').column = begin[1] - b
    BY <2>3, <2>4, <2>5, <2>6
  <2> QED
    BY <2>3, <2>4, <2>5, <2>7
<1> QED
  BY <1>1, ScannerInvariance, PTL DEF SSpec, TokensPlaced

----------------------------------------------------------------------------
\* The least and the greatest index of a set.
LEMMA MinMax ==
  ASSUME NEW n \in Nat, NEW T \in SUBSET (0 .. n), T # {}
  PROVE  /\ Min(T) \in T /\ \A x \in T : Min(T) <= x
         /\ Max(T) \in T /\ \A x \in T : x <= Max(T)
<1>1. \E x \in T : \A y \in T : x <= y
  BY Least
<1>2. \E x \in T : \A y \in T : x >= y
  <2> DEFINE U == {n - x : x \in T}
  <2>1. U \in SUBSET Nat /\ U # {}
    <3>1. \A x \in T : n - x \in Nat
      OBVIOUS
    <3>2. \A u \in U : u \in Nat
      BY <3>1
    <3>3. PICK x \in T : TRUE
      OBVIOUS
    <3>4. n - x \in U
      OBVIOUS
    <3> QED
      BY <3>2, <3>4
  <2>2. PICK u \in U : \A v \in U : u <= v
    BY <2>1, Least
  <2>3. PICK x \in T : u = n - x
    OBVIOUS
  <2>4. ASSUME NEW y \in T PROVE x >= y
    <3>1. n - y \in U /\ x \in Nat /\ y \in Nat
      OBVIOUS
    <3> QED
      BY <2>2, <2>3, <3>1
  <2> QED
    BY <2>4
<1> QED
  BY <1>1, <1>2 DEF Min, Max

----------------------------------------------------------------------------
\* A comment ends behind the index where it starts.
LEMMA BehindRange ==
  ASSUME text \in Seq(STRING), NEW i \in 1 .. Len(text)
  PROVE  Behind(i) \in i + 1 .. Len(text) + 1
<1> DEFINE ends == {j \in i .. Len(text) : text[j] \in {"\n", NUL}}
<1>1. Len(text) \in Nat /\ ends \in SUBSET (0 .. Len(text))
  OBVIOUS
<1>2. CASE ends = {}
  BY <1>1, <1>2 DEF Behind
<1>3. CASE ends # {}
  <2>1. Min(ends) \in ends
    <3> HIDE DEF ends
    <3> QED
      BY <1>1, <1>3, MinMax
  <2>2. Behind(i) = Min(ends) + 1
    BY <1>3 DEF Behind
  <2> HIDE DEF Behind
  <2> QED
    BY <1>1, <2>1, <2>2
<1> QED
  BY <1>2, <1>3

IsComment(i) == text[i] = "/" /\ i < Len(text) /\ text[i + 1] = "/"

\* Begin is what its equation says: it goes only to later indices.
LEMMA BeginIs ==
  ASSUME text \in Seq(STRING), NEW i \in 1 .. Len(text) + 1
  PROVE  Begin[i] = IF i > Len(text) THEN i
                    ELSE IF text[i] \in Spaces THEN Begin[i + 1]
                    ELSE IF IsComment(i) THEN Begin[Behind(i)]
                    ELSE i
<1> DEFINE N == Len(text)
           B(f, j) == IF j > N THEN j
                      ELSE IF text[j] \in Spaces THEN f[j + 1]
                      ELSE IF IsComment(j) THEN f[Behind(j)]
                      ELSE j
           S == {m \in Nat : m <= N =>
                   \E f : f = [j \in N + 1 - m .. N + 1 |-> B(f, j)]}
<1>1. N \in Nat /\ \A j \in 1 .. N : Behind(j) \in j + 1 .. N + 1
  BY BehindRange
<1> HIDE DEF N
<1>2. 0 \in S
  <2> DEFINE f == [j \in N + 1 - 0 .. N + 1 |-> j]
  <2>1. \A j \in N + 1 - 0 .. N + 1 : B(f, j) = j
    BY <1>1
  <2>2. f = [j \in N + 1 - 0 .. N + 1 |-> B(f, j)]
    BY <2>1
  <2> HIDE DEF f
  <2> QED
    BY <2>2
<1>3. ASSUME NEW m \in S PROVE m + 1 \in S
  <2> SUFFICES ASSUME m + 1 <= N
               PROVE  \E g : g = [j \in N + 1 - (m + 1) .. N + 1 |-> B(g, j)]
    BY <1>1, SMTT(30)
  <2>1. PICK f : f = [j \in N + 1 - m .. N + 1 |-> B(f, j)]
    BY <1>1
  <2> DEFINE a == N + 1 - (m + 1)
             g == [j \in a .. N + 1 |-> IF j = a THEN B(f, a) ELSE f[j]]
  <2>2. a \in Nat /\ a >= 1 /\ N + 1 - m = a + 1 /\ a <= N
    BY <1>1
  <2> HIDE DEF a
  <2>3. \A j \in a + 1 .. N + 1 : g[j] = f[j] /\ f[j] = B(f, j)
    <3>1. \A j \in a + 1 .. N + 1 : f[j] = B(f, j)
      <4> HIDE DEF B
      <4> QED
        BY <2>1, <2>2
    <3>2. \A j \in a + 1 .. N + 1 : g[j] = f[j]
      BY <1>1, <2>2
    <3> QED
      BY <3>1, <3>2
  <2> HIDE DEF g
  <2>4. \A j \in a .. N + 1 : B(g, j) = B(f, j)
    <3> SUFFICES ASSUME NEW j \in a .. N + 1 PROVE B(g, j) = B(f, j)
      OBVIOUS
    <3>1. CASE j > N
      BY <3>1
    <3>2. CASE j <= N
      <4>1. j \in 1 .. N /\ j + 1 \in a + 1 .. N + 1 /\ Behind(j) \in a + 1 .. N + 1
        BY <1>1, <2>2, <3>2
      <4>2. g[j + 1] = f[j + 1] /\ g[Behind(j)] = f[Behind(j)]
        BY <2>3, <4>1
      <4> QED
        BY <4>2
    <3> QED
      BY <1>1, <2>2, <3>1, <3>2
  <2>5. g = [j \in a .. N + 1 |-> B(g, j)]
    <3> HIDE DEF B
    <3>1. g[a] = B(f, a) /\ a \in a .. N + 1
      BY <1>1, <2>2 DEF g
    <3>2. \A j \in a .. N + 1 : j # a => j \in a + 1 .. N + 1
      BY <1>1, <2>2
    <3>3. \A j \in a .. N + 1 : g[j] = B(g, j)
      BY <2>3, <2>4, <3>1, <3>2
    <3> QED
      BY <3>3 DEF g
  <2> QED
    BY <2>5 DEF a
<1>4. N \in S
  <2> HIDE DEF S
  <2>1. S = Nat
    <3>1. S \in SUBSET Nat
      BY DEF S
    <3> QED
      BY <1>2, <1>3, <3>1, SetInduction
  <2> QED
    BY <1>1, <2>1
<1>5. PICK f : f = [j \in 1 .. N + 1 |-> B(f, j)]
  <2>1. N + 1 - N = 1
    BY <1>1
  <2> HIDE DEF B
  <2> QED
    BY <1>1, <1>4, <2>1
<1>6. Begin = [j \in 1 .. N + 1 |-> B(Begin, j)]
  <2>1. Begin = CHOOSE g : g = [j \in 1 .. N + 1 |-> B(g, j)]
    BY DEF Begin, N, IsComment
  <2> HIDE DEF B
  <2> QED
    BY <1>5, <2>1
<1>7. Begin[i] = B(Begin, i)
  <2> HIDE DEF B
  <2> QED
    BY <1>6 DEF N
<1> QED
  BY <1>7 DEF N

LEMMA FromIs ==
  /\ From[0] = 1
  /\ \A n \in 0 .. MaxScans - 1 :
       From[n + 1] = IF WordEnds(Begin[From[n]]) = {} THEN From[n]
                     ELSE Max(WordEnds(Begin[From[n]])) + 1
<1> DEFINE F(f, n) == IF n = 0 THEN 1
                      ELSE IF WordEnds(Begin[f[n - 1]]) = {} THEN f[n - 1]
                      ELSE Max(WordEnds(Begin[f[n - 1]])) + 1
           S == {m \in Nat : \E f : f = [n \in 0 .. m |-> F(f, n)]}
<1>1. 0 \in S
  <2> DEFINE f == [n \in 0 .. 0 |-> 1]
  <2>1. \A n \in 0 .. 0 : F(f, n) = 1
    OBVIOUS
  <2>2. f = [n \in 0 .. 0 |-> F(f, n)]
    BY <2>1
  <2> HIDE DEF f
  <2> QED
    BY <2>2
<1>2. ASSUME NEW m \in S PROVE m + 1 \in S
  <2>1. PICK f : f = [n \in 0 .. m |-> F(f, n)]
    OBVIOUS
  <2> DEFINE g == [n \in 0 .. m + 1 |-> IF n = m + 1 THEN F(f, m + 1) ELSE f[n]]
  <2>2. \A n \in 0 .. m : g[n] = f[n] /\ f[n] = F(f, n)
    <3>1. \A n \in 0 .. m : f[n] = F(f, n)
      <4> HIDE DEF F
      <4> QED
        BY <2>1
    <3>2. \A n \in 0 .. m : g[n] = f[n]
      OBVIOUS
    <3> QED
      BY <3>1, <3>2
  <2> HIDE DEF g
  <2>3. \A n \in 0 .. m + 1 : F(g, n) = F(f, n)
    <3> SUFFICES ASSUME NEW n \in 0 .. m + 1, n # 0 PROVE F(g, n) = F(f, n)
      OBVIOUS
    <3>1. g[n - 1] = f[n - 1]
      BY <2>2
    <3> QED
      BY <3>1
  <2>4. g = [n \in 0 .. m + 1 |-> F(g, n)]
    <3> HIDE DEF F
    <3>1. \A n \in 0 .. m + 1 : g[n] = F(g, n)
      BY <2>2, <2>3 DEF g
    <3> QED
      BY <3>1 DEF g
  <2> HIDE DEF F
  <2> QED
    BY <2>4
<1>3. MaxScans \in S
  <2> HIDE DEF S
  <2>1. S = Nat
    <3>1. S \in SUBSET Nat
      BY DEF S
    <3> QED
      BY <1>1, <1>2, <3>1, SetInduction
  <2> QED
    BY <2>1, MaxScansAssumption
<1>4. PICK f : f = [n \in 0 .. MaxScans |-> F(f, n)]
  <2> HIDE DEF F
  <2> QED
    BY <1>3
<1>5. From = [n \in 0 .. MaxScans |-> F(From, n)]
  <2>1. From = CHOOSE g : g = [n \in 0 .. MaxScans |-> F(g, n)]
    BY DEF From
  <2> HIDE DEF F
  <2> QED
    BY <1>4, <2>1
<1>6. \A n \in 0 .. MaxScans : From[n] = F(From, n)
  <2> HIDE DEF F
  <2> QED
    BY <1>5
<1>7. From[0] = 1
  BY <1>6, MaxScansAssumption
<1>8. ASSUME NEW n \in 0 .. MaxScans - 1
      PROVE  From[n + 1] = IF WordEnds(Begin[From[n]]) = {} THEN From[n]
                           ELSE Max(WordEnds(Begin[From[n]])) + 1
  <2>1. n + 1 \in 0 .. MaxScans /\ n + 1 # 0 /\ (n + 1) - 1 = n
    BY MaxScansAssumption
  <2> QED
    BY <1>6, <2>1
<1> QED
  BY <1>7, <1>8

----------------------------------------------------------------------------
(***************************************************************************)
(* The words of the lexical grammar, by their first character.             *)
(***************************************************************************)
WordChars == Letters \cup Digits \cup {"_"}

\* The characters of a part of the text.
LEMMA Part ==
  ASSUME text \in Seq(STRING), NEW b \in 1 .. Len(text), NEW e \in b .. Len(text)
  PROVE  /\ SubSeq(text, b, e) \in Seq(STRING) /\ SubSeq(text, b, e) # << >>
         /\ Len(SubSeq(text, b, e)) = e - b + 1
         /\ \A i \in 1 .. e - b + 1 : SubSeq(text, b, e)[i] = text[b + i - 1]
         /\ SubSeq(text, b, e)[1] = text[b]
         /\ \A C : ToSet(SubSeq(text, b, e)) \subseteq C <=> \A i \in b .. e : text[i] \in C
<1> DEFINE w == SubSeq(text, b, e)
<1>1. Len(text) \in Nat /\ b \in Nat /\ e \in Nat /\ b >= 1 /\ e >= b /\ e <= Len(text)
  OBVIOUS
<1>2. /\ w \in Seq(STRING) /\ Len(w) = e - b + 1
      /\ \A i \in 1 .. e - b + 1 : w[i] = text[b + i - 1]
  BY <1>1
<1>3. w # << >> /\ w[1] = text[b]
  BY <1>1, <1>2
<1> HIDE DEF w
<1>4. ASSUME NEW C PROVE ToSet(w) \subseteq C <=> \A i \in b .. e : text[i] \in C
  <2>1. ToSet(w) = {w[i] : i \in 1 .. e - b + 1}
    BY <1>1, <1>2 DEF ToSet
  <2>2. ASSUME ToSet(w) \subseteq C, NEW i \in b .. e PROVE text[i] \in C
    <3>1. i - b + 1 \in 1 .. e - b + 1 /\ w[i - b + 1] = text[i]
      BY <1>1, <1>2
    <3> QED
      BY <2>1, <2>2, <3>1
  <2>3. ASSUME \A i \in b .. e : text[i] \in C PROVE ToSet(w) \subseteq C
    <3>1. ASSUME NEW i \in 1 .. e - b + 1 PROVE w[i] \in C
      <4>1. b + i - 1 \in b .. e
        BY <1>1
      <4> QED
        BY <1>2, <2>3, <4>1
    <3> QED
      BY <2>1, <3>1
  <2> QED
    BY <2>2, <2>3
<1> QED
  BY <1>2, <1>3, <1>4 DEF w

\* What the characters from b to e spell.
Spell(b, e) == Spelled(SubSeq(text, b, e))

LEMMA SpellCases ==
  ASSUME text \in Seq(STRING), NEW b \in 1 .. Len(text), NEW e \in b .. Len(text)
  PROVE  /\ text[b] \in Single \cup {"/"} => Spell(b, e) = IF e = b THEN {text[b]} ELSE {}
         /\ text[b] = "=" =>
              Spell(b, e) = IF e = b THEN {"="}
                            ELSE IF e = b + 1 /\ text[e] = "=" THEN {"=="} ELSE {}
         /\ text[b] \in Digits =>
              Spell(b, e) = IF \A i \in b .. e : text[i] \in Digits THEN {"number"} ELSE {}
         /\ text[b] \in Letters =>
              Spell(b, e) = IF \A i \in b .. e : text[i] \in WordChars
                            THEN {keywordOf(SubSeq(text, b, e))} ELSE {}
         /\ text[b] \notin Begins \ Spaces => Spell(b, e) = {}
<1> DEFINE w == SubSeq(text, b, e)
           signs == {k \in Single \cup {"/", "=", "=="} :
                       w = IF k = "==" THEN <<"=", "=">> ELSE <<k>>}
           numbers == {k \in {"number"} : w # << >> /\ ToSet(w) \subseteq Digits}
           words == {k \in {keywordOf(w)} :
                       /\ w # << >> /\ w[1] \in Letters
                       /\ ToSet(w) \subseteq Letters \cup Digits \cup {"_"}}
<1>1. /\ b \in Nat /\ e \in Nat /\ e >= b
      /\ Len(w) = e - b + 1 /\ w # << >> /\ w \in Seq(STRING)
      /\ \A i \in 1 .. e - b + 1 : w[i] = text[b + i - 1]
      /\ w[1] = text[b]
      /\ ToSet(w) \subseteq Digits <=> \A i \in b .. e : text[i] \in Digits
      /\ ToSet(w) \subseteq WordChars <=> \A i \in b .. e : text[i] \in WordChars
  <2>1. b \in Nat /\ e \in Nat /\ e >= b
    OBVIOUS
  <2>2. /\ w \in Seq(STRING) /\ w # << >> /\ Len(w) = e - b + 1
        /\ \A i \in 1 .. e - b + 1 : w[i] = text[b + i - 1]
        /\ w[1] = text[b]
        /\ \A C : ToSet(w) \subseteq C <=> \A i \in b .. e : text[i] \in C
    BY Part
  <2> HIDE DEF w
  <2>3. ToSet(w) \subseteq Digits <=> \A i \in b .. e : text[i] \in Digits
    BY <2>2, Zenon
  <2>4. ToSet(w) \subseteq WordChars <=> \A i \in b .. e : text[i] \in WordChars
    BY <2>2, Zenon
  <2> QED
    BY <2>1, <2>2, <2>3, <2>4
<1>2. Spell(b, e) = signs \cup numbers \cup words
  BY DEF Spell, Spelled
<1>3. numbers = IF \A i \in b .. e : text[i] \in Digits THEN {"number"} ELSE {}
  <2> HIDE DEF w
  <2> QED
    BY <1>1
<1>4. words = IF text[b] \in Letters /\ \A i \in b .. e : text[i] \in WordChars
              THEN {keywordOf(w)} ELSE {}
  <2> HIDE DEF w
  <2> QED
    BY <1>1 DEF WordChars
<1>5. text[b] \in Digits \/ numbers = {}
  <2>1. b \in b .. e
    OBVIOUS
  <2> QED
    BY <1>3, <2>1
<1> HIDE DEF numbers, words
<1>6. \A k \in Single \cup {"/", "="} : k \in signs <=> (e = b /\ text[b] = k)
  <2> SUFFICES ASSUME NEW k \in Single \cup {"/", "="}
               PROVE  w = <<k>> <=> (e = b /\ text[b] = k)
    BY DEF Single
  <2> HIDE DEF w
  <2>1. ASSUME w = <<k>> PROVE e = b /\ text[b] = k
    <3>1. Len(w) = 1 /\ w[1] = k
      BY <2>1
    <3>2. b \in Nat /\ e \in Nat /\ e - b + 1 = Len(w) /\ text[b] = w[1]
      BY <1>1, Zenon
    <3>3. e - b + 1 = 1
      BY <3>1, <3>2
    <3> QED
      BY <3>1, <3>2, <3>3
  <2>2. ASSUME e = b, text[b] = k PROVE w = <<k>>
    <3>1. Len(w) = 1 /\ w[1] = k
      BY <1>1, <2>2
    <3>2. DOMAIN w = {1} /\ DOMAIN <<k>> = {1} /\ <<k>>[1] = k
      BY <1>1, <3>1
    <3>3. <<k>> \in Seq({k}) /\ Len(<<k>>) = 1
      OBVIOUS
    <3>4. w \in Seq(STRING \cup {k}) /\ <<k>> \in Seq(STRING \cup {k})
      BY <1>1, SeqMonotonic
    <3> QED
      BY <3>1, <3>3, <3>4, SeqEqual
  <2> QED
    BY <2>1, <2>2
<1>7. "==" \in signs <=> (e = b + 1 /\ text[b] = "=" /\ text[e] = "=")
  <2> SUFFICES w = <<"=", "=">> <=> (e = b + 1 /\ text[b] = "=" /\ text[e] = "=")
    OBVIOUS
  <2> HIDE DEF w
  <2>1. ASSUME w = <<"=", "=">> PROVE e = b + 1 /\ text[b] = "=" /\ text[e] = "="
    <3>1. Len(w) = 2 /\ w[1] = "=" /\ w[2] = "="
      BY <2>1
    <3>2. /\ b \in Nat /\ e \in Nat /\ e - b + 1 = Len(w)
          /\ \A i \in 1 .. e - b + 1 : w[i] = text[b + i - 1]
      BY <1>1, Zenon
    <3>3. e - b + 1 = 2
      BY <3>1, <3>2
    <3>4. e = b + 1
      BY <3>2, <3>3
    <3>5. w[1] = text[b + 1 - 1] /\ w[2] = text[b + 2 - 1]
      BY <3>2, <3>3
    <3> QED
      BY <3>1, <3>2, <3>4, <3>5
  <2>2. ASSUME e = b + 1, text[b] = "=", text[e] = "=" PROVE w = <<"=", "=">>
    <3>1. Len(w) = 2 /\ w[1] = "=" /\ w[2] = "="
      BY <1>1, <2>2
    <3> QED
      BY <1>1, <3>1
  <2> QED
    BY <2>1, <2>2
<1>8. signs \subseteq Single \cup {"/", "=", "=="}
  OBVIOUS
<1> HIDE DEF signs
<1>9. "==" \notin Single \cup {"/", "="}
  BY DEF Single
<1>10. /\ \A c \in Single \cup {"/"} : c \notin Digits \cup Letters \cup {"="}
       /\ "=" \notin Digits \cup Letters \cup Single \cup {"/"}
       /\ \A c \in Digits : c \notin Letters \cup Single \cup {"/", "="}
       /\ \A c \in Letters : c \notin Digits \cup Single \cup {"/", "="}
       /\ \A c \in Begins \ Spaces : c \in Digits \cup Letters \cup Single \cup {"/", "="}
       /\ \A c \in Digits \cup Letters \cup Single \cup {"/", "="} : c \in Begins \ Spaces
  BY DEF Single, Digits, Letters, Begins, Spaces
<1>11. ASSUME text[b] \in Single \cup {"/"}
       PROVE  Spell(b, e) = IF e = b THEN {text[b]} ELSE {}
  BY <1>2, <1>4, <1>5, <1>6, <1>7, <1>8, <1>10, <1>11
<1>12. ASSUME text[b] = "="
       PROVE  Spell(b, e) = IF e = b THEN {"="}
                            ELSE IF e = b + 1 /\ text[e] = "=" THEN {"=="} ELSE {}
  <2>1. Spell(b, e) = signs
    BY <1>2, <1>4, <1>5, <1>10, <1>12
  <2>2. \A k \in signs : (k = "=" /\ e = b) \/ (k = "==" /\ e = b + 1 /\ text[e] = "=")
    BY <1>6, <1>7, <1>8, <1>9, <1>12
  <2>3. "=" \in signs <=> e = b
    BY <1>6, <1>12
  <2> QED
    BY <1>7, <1>12, <2>1, <2>2, <2>3
<1>13. ASSUME text[b] \in Digits
       PROVE  Spell(b, e) = IF \A i \in b .. e : text[i] \in Digits THEN {"number"} ELSE {}
  <2>1. signs = {}
    BY <1>6, <1>7, <1>8, <1>10, <1>13
  <2> QED
    BY <1>2, <1>3, <1>4, <1>10, <1>13, <2>1
<1>14. ASSUME text[b] \in Letters
       PROVE  Spell(b, e) = IF \A i \in b .. e : text[i] \in WordChars
                            THEN {keywordOf(w)} ELSE {}
  <2>1. signs = {}
    BY <1>6, <1>7, <1>8, <1>10, <1>14
  <2> QED
    BY <1>2, <1>4, <1>5, <1>10, <1>14, <2>1
<1>15. ASSUME text[b] \notin Begins \ Spaces PROVE Spell(b, e) = {}
  <2>1. signs = {}
    BY <1>6, <1>7, <1>8, <1>10, <1>15
  <2> QED
    BY <1>2, <1>4, <1>5, <1>10, <1>15, <2>1
<1> QED
  BY <1>11, <1>12, <1>13, <1>14, <1>15

\* Where the text spells nothing.
LEMMA NoWord ==
  ASSUME text \in Seq(STRING), NEW b \in 1 .. Len(text) + 1,
         b > Len(text) \/ text[b] \notin Begins \ Spaces
  PROVE  /\ WordEnds(b) = {}
         /\ TokenAt(b).kind = IF b > Len(text) \/ text[b] = NUL THEN "EOF" ELSE "ERROR"
         /\ TokenAt(b).text = << >>
<1>1. WordEnds(b) = {}
  <2> SUFFICES ASSUME NEW e \in b .. Len(text), Spelled(SubSeq(text, b, e)) # {}
               PROVE  FALSE
    BY DEF WordEnds
  <2>1. b \in 1 .. Len(text) /\ b <= Len(text)
    OBVIOUS
  <2>2. Spell(b, e) = {}
    BY <2>1, SpellCases
  <2> QED
    BY <2>2 DEF Spell
<1> QED
  BY <1>1 DEF TokenAt

\* The longest word at an index.
LEMMA LongestWord ==
  ASSUME text \in Seq(STRING), NEW b \in 1 .. Len(text), NEW m \in b .. Len(text), NEW k,
         Spell(b, m) = {k}, \A e \in m + 1 .. Len(text) : Spell(b, e) = {}
  PROVE  /\ WordEnds(b) # {} /\ Max(WordEnds(b)) = m
         /\ TokenAt(b).kind = k /\ TokenAt(b).text = SubSeq(text, b, m)
<1>1. /\ m \in WordEnds(b) /\ WordEnds(b) \in SUBSET (0 .. Len(text)) /\ Len(text) \in Nat
      /\ WordEnds(b) # {}
  BY DEF WordEnds, Spell
<1>2. \A e \in WordEnds(b) : e <= m
  BY DEF WordEnds, Spell
<1>3. Max(WordEnds(b)) = m
  <2>1. Max(WordEnds(b)) \in WordEnds(b) /\ m <= Max(WordEnds(b))
    BY <1>1, MinMax
  <2>2. Max(WordEnds(b)) \in Nat /\ Max(WordEnds(b)) <= m
    BY <1>1, <1>2, <2>1
  <2> QED
    BY <2>1, <2>2
<1>4. \E x : Spelled(SubSeq(text, b, m)) = {x} /\ x = k
  BY DEF Spell
<1>5. (CHOOSE x \in Spelled(SubSeq(text, b, m)) : TRUE) = k
  BY <1>4
<1> QED
  BY <1>1, <1>3, <1>5 DEF TokenAt

\* The text of the token at begin is spelled where begin says that it stands.
LEMMA PlacedAt ==
  ASSUME SInv, NEW kind, NEW e,
         Token(kind, e).kind = TokenAt(begin[1]).kind,
         Token(kind, e).text = TokenAt(begin[1]).text,
         begin[1] <= Len(text) \/ Token(kind, e).kind = "EOF"
  PROVE  Placed(Token(kind, e)) = Placed(TokenAt(begin[1]))
<1> DEFINE b == begin[1]
           s == Token(kind, e)
           t == TokenAt(b)
           K == Token(kind, e).kind
           W == Token(kind, e).text
<1>1. s = [kind |-> K, text |-> W, line |-> begin[2], column |-> begin[3]]
  BY DEF Token
<1>2. t = [kind |-> K, text |-> W, line |-> Cardinality(Newlines(b)) + 1,
           column |-> b - Max(Newlines(b) \cup {0})]
  <2>1. t = [kind |-> t.kind, text |-> t.text, line |-> Cardinality(Newlines(b)) + 1,
             column |-> b - Max(Newlines(b) \cup {0})]
    BY DEF TokenAt
  <2> HIDE DEF t
  <2> QED
    BY <2>1 DEF t
<1>3. /\ begin[2] = Cardinality(Newlines(b)) + 1
      /\ \E x \in 0 .. b - 1 :
           LineAfter(b, x) /\ (begin[3] = b - x \/ (b = Len(text) + 1 /\ begin[3] > b - x))
  BY DEF SInv, At
<1> HIDE DEF s, t, K, W
<1>4. CASE K = "EOF"
  BY <1>1, <1>2, <1>3, <1>4 DEF Placed, s, t
<1>5. CASE K # "EOF"
  <2>1. b <= Len(text) /\ b \in Nat /\ b >= 1 /\ Len(text) \in Nat
    BY <1>5, Under DEF K
  <2>2. PICK x \in 0 .. b - 1 : LineAfter(b, x) /\ begin[3] = b - x
    BY <1>3, <2>1
  <2>3. Max(Newlines(b) \cup {0}) = x
    <3> DEFINE T == Newlines(b) \cup {0}
    <3>1. T \in SUBSET (0 .. b) /\ T # {} /\ x \in T /\ \A y \in T : y <= x
      BY <2>1, <2>2 DEF Newlines, LineAfter
    <3> HIDE DEF T
    <3>2. Max(T) \in T /\ x <= Max(T)
      BY <2>1, <3>1, MinMax
    <3>3. Max(T) <= x /\ Max(T) \in 0 .. b
      BY <3>1, <3>2
    <3>4. Max(T) = x
      BY <2>1, <3>2, <3>3
    <3> QED
      BY <3>4 DEF T
  <2> QED
    BY <1>1, <1>2, <1>3, <1>5, <2>2, <2>3 DEF Placed, s, t
<1> QED
  BY <1>4, <1>5

----------------------------------------------------------------------------
(***************************************************************************)
(* The tokens returned are those of the lexical grammar.                   *)
(***************************************************************************)

\* From where the scan under way has nothing returned yet.
Here == IF state \in {"idle", "space", "start"} THEN ptr ELSE begin[1]

\* What the token under way has consumed.
Reading ==
  /\ state = "slash" => ptr = begin[1] + 1 /\ text[begin[1]] = "/"
  /\ state = "equal" => ptr = begin[1] + 1 /\ text[begin[1]] = "="
  /\ state = "number" =>
       /\ begin[1] <= Len(text) /\ text[begin[1]] \in Digits
       /\ \A i \in begin[1] .. ptr - 1 : text[i] \in Digits
  /\ state = "identifier" =>
       /\ begin[1] <= Len(text) /\ text[begin[1]] \in Letters
       /\ \A i \in begin[1] .. ptr - 1 : text[i] \in WordChars
  /\ state = "line" =>
       /\ IsComment(begin[1]) /\ begin[1] < ptr
       /\ \A i \in begin[1] .. ptr - 1 : text[i] \notin {"\n", NUL}

LexInv ==
  /\ SInv
  /\ Reading
  /\ Begin[Here] = Begin[From[Len(tokens)]]
  /\ TokensLexed

----------------------------------------------------------------------------
LEMMA SameText ==
  ASSUME text' = text
  PROVE  /\ Begin' = Begin /\ From' = From
         /\ \A b : TokenAt(b)' = TokenAt(b)
<1>1. Begin' = Begin
  BY DEF Begin, Behind
<1>2. From' = From
  BY <1>1 DEF From, WordEnds
<1>3. \A b : TokenAt(b)' = TokenAt(b)
  BY DEF TokenAt, WordEnds, Newlines
<1> QED
  BY <1>1, <1>2, <1>3

\* A turn that returns nothing and passes only what is passed over.
LEMMA LexKept ==
  ASSUME LexInv, SInv', text' = text, tokens' = tokens, Reading', Begin[Here'] = Begin[Here]
  PROVE  LexInv'
<1>1. Begin' = Begin /\ From' = From /\ \A b : TokenAt(b)' = TokenAt(b)
  BY SameText
<1>2. (Begin[Here])' = (Begin[From[Len(tokens)]])'
  BY <1>1 DEF LexInv
<1>3. TokensLexed'
  BY <1>1 DEF LexInv, TokensLexed, Placed
<1> QED
  BY <1>2, <1>3 DEF LexInv

\* A turn that returns the longest word from begin on, or what stands for none.
LEMMA LexReturned ==
  ASSUME LexInv, SInv', text' = text, state # "idle", Here = begin[1],
         Begin[begin[1]] = begin[1],
         NEW kind, NEW e, return(kind, e),
         Token(kind, e).kind = TokenAt(begin[1]).kind,
         Token(kind, e).text = TokenAt(begin[1]).text,
         begin[1] <= Len(text) \/ Token(kind, e).kind = "EOF",
         ptr' = IF WordEnds(begin[1]) = {} THEN begin[1] ELSE Max(WordEnds(begin[1])) + 1
  PROVE  LexInv'
<1> DEFINE n == Len(tokens)
           t == Token(kind, e)
<1>1. Begin' = Begin /\ From' = From /\ \A b : TokenAt(b)' = TokenAt(b)
  BY SameText
<1>2. n \in Nat /\ n \in 0 .. MaxScans - 1 /\ tokens \in Seq(token_t)
  <2>1. Shapes
    BY DEF LexInv, SInv
  <2>2. tokens \in Seq(token_t) /\ n < MaxScans
    BY <2>1 DEF Shapes
  <2>3. n \in Nat
    BY <2>2
  <2> HIDE DEF n
  <2> QED
    BY <2>2, <2>3, MaxScansAssumption
<1>3. begin[1] = Begin[From[n]]
  BY DEF LexInv
<1>4. tokens' = Append(tokens, t) /\ state' = "idle"
  BY DEF return
<1>5. Placed(t) = Placed(TokenAt(Begin[From[n]]))
  <2>1. SInv
    BY DEF LexInv
  <2>2. Placed(t) = Placed(TokenAt(begin[1]))
    BY <2>1, PlacedAt
  <2> QED
    BY <1>3, <2>2
<1> HIDE DEF t
<1>6. /\ Len(tokens') = n + 1 /\ DOMAIN tokens' = 1 .. n + 1
      /\ \A i \in 1 .. n : tokens'[i] = tokens[i]
      /\ tokens'[n + 1] = t /\ DOMAIN tokens = 1 .. n
  BY <1>2, <1>4
<1> HIDE DEF n
<1>7. \A i \in 1 .. n + 1 : Placed(tokens'[i]) = Placed(TokenAt(Begin[From[i - 1]]))
  <2> SUFFICES ASSUME NEW i \in 1 .. n + 1
               PROVE  Placed(tokens'[i]) = Placed(TokenAt(Begin[From[i - 1]]))
    OBVIOUS
  <2>1. CASE i = n + 1
    BY <1>2, <1>5, <1>6, <2>1
  <2>2. CASE i # n + 1
    <3>1. i \in 1 .. n
      BY <1>2, <2>2
    <3> QED
      BY <1>6, <3>1 DEF LexInv, TokensLexed
  <2> QED
    BY <2>1, <2>2
<1>8. TokensLexed'
  BY <1>1, <1>6, <1>7 DEF TokensLexed, Placed
<1>9. Begin[ptr'] = Begin[From[n + 1]]
  <2>1. From[n + 1] = IF WordEnds(Begin[From[n]]) = {} THEN From[n]
                      ELSE Max(WordEnds(Begin[From[n]])) + 1
    BY <1>2, FromIs
  <2>2. CASE WordEnds(begin[1]) = {}
    BY <1>3, <2>1, <2>2
  <2>3. CASE WordEnds(begin[1]) # {}
    BY <1>3, <2>1, <2>3
  <2> QED
    BY <2>2, <2>3
<1>10. (Begin[Here])' = (Begin[From[Len(tokens)]])'
  BY <1>1, <1>4, <1>6, <1>9 DEF Here
<1>11. Reading'
  BY <1>4 DEF Reading
<1> QED
  BY <1>8, <1>10, <1>11 DEF LexInv

\* Where a token begins there is nothing to pass.
LEMMA BeginHere ==
  ASSUME text \in Seq(STRING), NEW b \in 1 .. Len(text) + 1,
         b > Len(text) \/ (text[b] \notin Spaces /\ ~ IsComment(b))
  PROVE  Begin[b] = b
BY BeginIs

LEMMA LexSkips ==
  LexInv /\ (scan \/ skip_whitespace \/ scan_line) => LexInv'
<1> SUFFICES ASSUME LexInv, scan \/ skip_whitespace \/ scan_line PROVE LexInv'
  OBVIOUS
<1>1. SInv'
  BY SInvStep DEF LexInv, SNext, Scanning
<1>2. /\ text \in Seq(STRING) /\ text' = text /\ tokens' = tokens
      /\ Len(text) \in Nat /\ ptr \in Nat /\ ptr >= 1 /\ ptr <= Len(text) + 1
      /\ begin[1] \in Nat /\ begin[1] >= 1 /\ begin[1] <= ptr
  BY Under DEF LexInv, SInv, Shapes, scan, skip_whitespace, scan_line, In
<1>3. /\ ptr <= Len(text) => ch = text[ptr]
      /\ ptr > Len(text) => ch = NUL /\ ptr = Len(text) + 1
  BY Char DEF LexInv, SInv
<1>4. CASE scan
  <2>1. state = "idle" /\ state' = "space" /\ ptr' = ptr
    BY <1>4 DEF scan, In, stay
  <2>2. Here' = Here /\ Reading'
    BY <2>1 DEF Here, Reading
  <2> QED
    BY <1>1, <1>2, <2>2, LexKept
<1>5. CASE skip_whitespace /\ ch \in Spaces
  <2>1. state = "space" /\ state' = "space" /\ next
    BY <1>5 DEF skip_whitespace, In
  <2>2. ptr <= Len(text) /\ text[ptr] \in Spaces
    <3>1. NUL \notin Spaces
      BY DEF NUL, Spaces
    <3> QED
      BY <1>2, <1>3, <1>5, <3>1
  <2>3. ptr' = ptr + 1
    BY <2>1, <2>2 DEF next
  <2>4. Begin[ptr] = Begin[ptr + 1]
    BY <1>2, <2>2, BeginIs
  <2>5. Here = ptr /\ Here' = ptr + 1 /\ Reading'
    BY <2>1, <2>3 DEF Here, Reading
  <2> QED
    BY <1>1, <1>2, <2>4, <2>5, LexKept
<1>6. CASE skip_whitespace /\ ch \notin Spaces
  <2>1. state = "space" /\ state' = "start" /\ ptr' = ptr
    BY <1>6 DEF skip_whitespace, In, stay
  <2>2. Here' = Here /\ Reading'
    BY <2>1 DEF Here, Reading
  <2> QED
    BY <1>1, <1>2, <2>2, LexKept
<1>7. CASE scan_line
  <2> DEFINE b == begin[1]
             ends == {j \in b .. Len(text) : text[j] \in {"\n", NUL}}
  <2>1. /\ state = "line" /\ begin' = begin /\ next
        /\ state' = IF ch \in {NUL, "\n"} THEN "space" ELSE state
    BY <1>7 DEF scan_line, In
  <2>2. /\ IsComment(b) /\ b < ptr /\ \A i \in b .. ptr - 1 : text[i] \notin {"\n", NUL}
        /\ Here = b
    BY <2>1 DEF LexInv, Reading, Here
  <2>3. Begin[b] = Begin[Behind(b)]
    <3>1. b \in 1 .. Len(text) + 1 /\ b <= Len(text) /\ text[b] \notin Spaces
      BY <1>2, <2>2 DEF IsComment, Spaces
    <3> QED
      BY <1>2, <2>2, <3>1, BeginIs
  <2>4. CASE ch \notin {NUL, "\n"}
    <3>1. ptr <= Len(text) /\ ch = text[ptr]
      BY <1>2, <1>3, <2>4
    <3>2. ptr' = ptr + 1 /\ state' = "line"
      BY <2>1, <2>4, <3>1 DEF next
    <3>3. \A i \in b .. ptr : text[i] \notin {"\n", NUL}
      BY <1>2, <2>2, <2>4, <3>1
    <3>4. Reading'
      BY <1>2, <2>1, <2>2, <3>2, <3>3 DEF Reading, IsComment
    <3>5. Here' = Here
      BY <2>1, <3>2 DEF Here
    <3> QED
      BY <1>1, <1>2, <3>4, <3>5, LexKept
  <2>5. CASE ch \in {NUL, "\n"}
    <3>1. state' = "space" /\ Here' = ptr' /\ Reading'
      BY <2>1, <2>5 DEF Here, Reading
    <3>2. Behind(b) = ptr'
      <4>1. CASE ptr > Len(text)
        <5>1. ends = {}
          BY <1>2, <1>3, <2>2, <4>1
        <5>2. ptr' = ptr
          BY <2>1, <4>1, <1>2 DEF next
        <5> QED
          BY <1>3, <4>1, <5>1, <5>2 DEF Behind
      <4>2. CASE ptr <= Len(text)
        <5>1. ptr \in ends /\ ends \in SUBSET (0 .. Len(text))
          BY <1>2, <1>3, <2>5, <4>2
        <5>2. \A j \in ends : ptr <= j
          BY <1>2, <2>2
        <5> DEFINE T == ends
        <5> HIDE DEF T
        <5>3. Min(T) \in T /\ Min(T) <= ptr
          BY <1>2, <5>1, MinMax DEF T
        <5>4. Min(T) = ptr
          <6>1. ptr <= Min(T) /\ Min(T) \in Nat
            BY <5>1, <5>2, <5>3 DEF T
          <6> QED
            BY <1>2, <5>3, <6>1
        <5>5. ptr' = ptr + 1
          BY <2>1, <4>2 DEF next
        <5> QED
          BY <5>1, <5>4, <5>5 DEF Behind, T
      <4> QED
        BY <1>2, <4>1, <4>2
    <3> QED
      BY <1>1, <1>2, <2>2, <2>3, <3>1, <3>2, LexKept
  <2> QED
    BY <2>4, <2>5
<1> QED
  BY <1>4, <1>5, <1>6, <1>7

LEMMA LexFirst == LexInv /\ first => LexInv'
<1> SUFFICES ASSUME LexInv, first PROVE LexInv'
  OBVIOUS
<1> DEFINE b == begin[1]
<1>1. SInv' /\ SInv
  BY SInvStep DEF LexInv, SNext, Scanning
<1>2. /\ state = "start" /\ text' = text /\ begin' = begin
  BY DEF first, In
<1>3. /\ text \in Seq(STRING) /\ Len(text) \in Nat /\ b \in Nat /\ b >= 1 /\ b <= Len(text) + 1
      /\ b = ptr /\ ch \notin Spaces /\ Here = b
  BY <1>1, <1>2, Under DEF SInv, Shapes, Here
<1>4. /\ b <= Len(text) => ch = text[b]
      /\ b > Len(text) => ch = NUL
  BY <1>1, <1>3, Char DEF SInv
<1>5. /\ NUL \notin Begins /\ Single \subseteq Begins /\ NUL # "/"
      /\ \A c \in Single \cup Digits \cup Letters : c # "/" /\ c # "identifier"
      /\ {"/", "="} \cup Digits \cup Letters \subseteq Begins /\ "/" # "="
  BY Classes DEF Begins, Single, Digits, Letters, NUL
<1> HIDE DEF b
<1>6. ASSUME ch \notin Begins, stay, return(IF ch = NUL THEN "EOF" ELSE "ERROR", ptr)
      PROVE  LexInv'
  <2> DEFINE kind == IF ch = NUL THEN "EOF" ELSE "ERROR"
  <2>1. b > Len(text) \/ text[b] \notin Begins
    BY <1>4, <1>6, <1>3
  <2>2. b \in 1 .. Len(text) + 1
    BY <1>3
  <2>3. /\ WordEnds(b) = {} /\ TokenAt(b).text = << >>
        /\ TokenAt(b).kind = IF b > Len(text) \/ text[b] = NUL THEN "EOF" ELSE "ERROR"
    BY <1>3, <2>1, <2>2, NoWord
  <2>4. TokenAt(b).kind = kind
    BY <1>3, <1>4, <2>3
  <2>5. kind # "identifier" /\ return(kind, b) /\ (b <= Len(text) \/ kind = "EOF")
    BY <1>3, <1>4, <1>6
  <2> HIDE DEF kind
  <2>6. Token(kind, b).kind = kind /\ Token(kind, b).text = << >>
    BY <1>3, <2>5 DEF Token, b
  <2>7. Begin[b] = b
    <3>1. b > Len(text) \/ (text[b] \notin Spaces /\ ~ IsComment(b))
      BY <2>1, <1>5 DEF IsComment, Begins
    <3> QED
      BY <1>3, <2>2, <3>1, BeginHere
  <2>8. ptr' = b
    BY <1>3, <1>6 DEF stay
  <2> QED
    BY <1>1, <1>2, <1>3, <2>3, <2>4, <2>5, <2>6, <2>7, <2>8, LexReturned DEF b
<1>7. ASSUME ch \in Single, next, return(ch, ptr') PROVE LexInv'
  <2>1. b <= Len(text) /\ ch = text[b] /\ b \in 1 .. Len(text) /\ b \in b .. Len(text)
    BY <1>3, <1>4, <1>5, <1>7
  <2>2. ptr' = b + 1
    BY <1>3, <1>7, <2>1 DEF next
  <2>3. Spell(b, b) = {ch} /\ \A e \in b + 1 .. Len(text) : Spell(b, e) = {}
    <3>1. \A e \in b .. Len(text) : Spell(b, e) = IF e = b THEN {ch} ELSE {}
      BY <1>3, <1>7, <2>1, SpellCases
    <3> QED
      BY <1>3, <2>1, <3>1
  <2>4. /\ WordEnds(b) # {} /\ Max(WordEnds(b)) = b
        /\ TokenAt(b).kind = ch /\ TokenAt(b).text = SubSeq(text, b, b)
    BY <1>3, <2>1, <2>3, LongestWord, ZenonT(60)
  <2>5. Token(ch, ptr').kind = ch /\ Token(ch, ptr').text = SubSeq(text, b, b)
    <3>1. (b + 1) - 1 = b /\ ch # "identifier"
      BY <1>3, <1>5, <1>7
    <3> QED
      BY <2>2, <3>1 DEF Token, b
  <2>6. Begin[b] = b
    BY <1>3, <1>5, <1>7, <2>1, BeginHere DEF IsComment
  <2>7. ptr' = IF WordEnds(b) = {} THEN b ELSE Max(WordEnds(b)) + 1
    BY <2>2, <2>4
  <2> HIDE DEF ch
  <2> QED
    BY <1>1, <1>2, <1>3, <1>7, <2>1, <2>4, <2>5, <2>6, <2>7, LexReturned DEF b
<1>8. ASSUME ch \in {"/", "="}, next, tokens' = tokens,
             state' = IF ch = "/" THEN "slash" ELSE "equal"
      PROVE  LexInv'
  <2>1. b <= Len(text) /\ ch = text[b] /\ ptr' = b + 1
    BY <1>3, <1>4, <1>5, <1>8 DEF next
  <2>2. Reading' /\ Here' = Here
    BY <1>2, <1>3, <1>8, <2>1 DEF Reading, Here, b
  <2> QED
    BY <1>1, <1>2, <1>8, <2>2, LexKept
<1>9. ASSUME stay, tokens' = tokens,
             \/ ch \in Digits /\ state' = "number"
             \/ ch \in Letters /\ state' = "identifier"
      PROVE  LexInv'
  <2>1. b <= Len(text) /\ ch = text[b] /\ ptr' = b
    BY <1>3, <1>4, <1>5, <1>9 DEF stay
  <2>2. b .. b - 1 = {}
    BY <1>3
  <2>3. Reading' /\ Here' = Here
    BY <1>2, <1>3, <1>9, <2>1, <2>2 DEF Reading, Here, b
  <2> QED
    BY <1>1, <1>2, <1>9, <2>3, LexKept
<1>10. \/ ch = NUL /\ stay /\ return("EOF", ptr)
       \/ ch \in Single /\ next /\ return(ch, ptr')
       \/ ch = "/" /\ next /\ state' = "slash" /\ UNCHANGED tokens
       \/ ch = "=" /\ next /\ state' = "equal" /\ UNCHANGED tokens
       \/ ch \in Digits /\ stay /\ state' = "number" /\ UNCHANGED tokens
       \/ ch \in Letters /\ stay /\ state' = "identifier" /\ UNCHANGED tokens
       \/ /\ ch # NUL /\ ch \notin Single \cup {"/", "="} \cup Digits \cup Letters
          /\ stay /\ return("ERROR", ptr)
  BY DEF first
<1>11. CASE ch = NUL /\ stay /\ return("EOF", ptr)
  BY <1>5, <1>6, <1>11
<1>12. CASE ch \in Single /\ next /\ return(ch, ptr')
  BY <1>7, <1>12
<1>13. CASE \/ ch = "/" /\ next /\ state' = "slash" /\ UNCHANGED tokens
            \/ ch = "=" /\ next /\ state' = "equal" /\ UNCHANGED tokens
  <2> HIDE DEF ch, next
  <2> QED
    BY <1>5, <1>8, <1>13
<1>14. CASE \/ ch \in Digits /\ stay /\ state' = "number" /\ UNCHANGED tokens
            \/ ch \in Letters /\ stay /\ state' = "identifier" /\ UNCHANGED tokens
  BY <1>9, <1>14
<1>15. CASE /\ ch # NUL /\ ch \notin Single \cup {"/", "="} \cup Digits \cup Letters
            /\ stay /\ return("ERROR", ptr)
  <2>1. ch \notin Begins
    BY <1>3, <1>15 DEF Begins
  <2> QED
    BY <1>6, <1>15, <2>1
<1> QED
  BY <1>10, <1>11, <1>12, <1>13, <1>14, <1>15

LEMMA LexWithin ==
  LexInv /\ (scan_slash \/ scan_equal \/ scan_number \/ scan_identifier) => LexInv'
<1> SUFFICES ASSUME LexInv, scan_slash \/ scan_equal \/ scan_number \/ scan_identifier
             PROVE  LexInv'
  OBVIOUS
<1> DEFINE b == begin[1]
<1>1. SInv' /\ SInv
  BY SInvStep DEF LexInv, SNext, Scanning
<1>2. /\ text' = text /\ begin' = begin
      /\ state \in {"slash", "equal", "number", "identifier"} /\ Here = b
  BY DEF scan_slash, scan_equal, scan_number, scan_identifier, In, Here
<1>3. /\ text \in Seq(STRING) /\ Len(text) \in Nat /\ ptr \in Nat /\ ptr >= 1
      /\ ptr <= Len(text) + 1 /\ b \in Nat /\ b >= 1 /\ b <= ptr
  BY <1>1, Under DEF SInv, Shapes
<1>4. /\ ptr <= Len(text) => ch = text[ptr]
      /\ ptr > Len(text) => ch = NUL
  BY <1>1, Char DEF SInv
<1>5. Reading
  BY DEF LexInv
<1>6. /\ NUL \notin Digits \cup WordChars \cup {"/", "="}
      /\ \A c \in Digits \cup Letters : c \notin Spaces \cup {"/"}
      /\ {"/", "="} \cap Spaces = {} /\ "=" # "/"
  BY DEF Digits, Letters, Spaces, NUL, WordChars
<1>7. ASSUME b <= Len(text), text[b] \notin Spaces, ~ IsComment(b), NEW m \in b .. Len(text),
             NEW kind, NEW k, k = IF kind = "identifier" THEN keywordOf(SubSeq(text, b, m))
                                  ELSE kind,
             Spell(b, m) = {k}, \A e \in m + 1 .. Len(text) : Spell(b, e) = {},
             return(kind, m + 1), ptr' = m + 1
      PROVE  LexInv'
  <2>1. b \in 1 .. Len(text)
    BY <1>3, <1>7
  <2>2. /\ WordEnds(b) # {} /\ Max(WordEnds(b)) = m
        /\ TokenAt(b).kind = k /\ TokenAt(b).text = SubSeq(text, b, m)
    <3>1. /\ text \in Seq(STRING) /\ Spell(b, m) = {k}
          /\ \A e \in m + 1 .. Len(text) : Spell(b, e) = {}
      BY <1>3, <1>7, Zenon
    <3> HIDE DEF b
    <3> QED
      BY <2>1, <3>1, LongestWord
  <2>3. Begin[b] = b
    BY <1>3, <1>7, <2>1, BeginHere
  <2>4. Token(kind, m + 1).kind = k /\ Token(kind, m + 1).text = SubSeq(text, b, m)
    <3>1. (m + 1) - 1 = m
      OBVIOUS
    <3> QED
      BY <1>7, <3>1 DEF Token
  <2>5. ptr' = IF WordEnds(b) = {} THEN b ELSE Max(WordEnds(b)) + 1
    BY <1>7, <2>2
  <2>6. state # "idle"
    BY <1>2
  <2> QED
    BY <1>1, <1>2, <1>7, <2>2, <2>3, <2>4, <2>5, <2>6, LexReturned
<1>8. CASE scan_slash
  <2>1. state = "slash" /\ ptr = b + 1 /\ text[b] = "/" /\ stay
    BY <1>5, <1>8 DEF scan_slash, In, Reading
  <2>2. b <= Len(text) /\ b \in 1 .. Len(text) /\ b \in b .. Len(text) /\ ptr' = b + 1
    BY <1>3, <2>1 DEF stay
  <2>3. CASE ch = "/"
    <3>1. state' = "line" /\ tokens' = tokens /\ IsComment(b)
      BY <1>3, <1>4, <1>6, <1>8, <2>1, <2>3 DEF scan_slash, IsComment
    <3>2. \A i \in b .. b + 1 - 1 : text[i] \notin {"\n", NUL}
      BY <1>3, <2>1 DEF NUL
    <3>3. Reading' /\ Here' = Here
      BY <1>2, <1>3, <2>2, <3>1, <3>2 DEF Reading, Here, IsComment
    <3> QED
      BY <1>1, <1>2, <3>1, <3>3, LexKept
  <2>4. CASE ch # "/"
    <3>1. return("/", b + 1) /\ ~ IsComment(b)
      BY <1>3, <1>4, <1>8, <2>1, <2>4 DEF scan_slash, IsComment
    <3>2. \A e \in b .. Len(text) : Spell(b, e) = IF e = b THEN {"/"} ELSE {}
      BY <1>3, <2>1, <2>2, SpellCases
    <3>3. Spell(b, b) = {"/"} /\ \A e \in b + 1 .. Len(text) : Spell(b, e) = {}
      BY <1>3, <2>2, <3>2
    <3>4. "/" = IF "/" = "identifier" THEN keywordOf(SubSeq(text, b, b)) ELSE "/"
      OBVIOUS
    <3> QED
      BY <1>6, <1>7, <2>1, <2>2, <3>1, <3>3, <3>4
  <2> QED
    BY <2>3, <2>4
<1>9. CASE scan_equal
  <2>1. state = "equal" /\ ptr = b + 1 /\ text[b] = "="
    BY <1>5, <1>9 DEF scan_equal, In, Reading
  <2>2. b <= Len(text) /\ b \in 1 .. Len(text) /\ b \in b .. Len(text)
    BY <1>3, <2>1
  <2>3. \A e \in b .. Len(text) :
          Spell(b, e) = IF e = b THEN {"="}
                        ELSE IF e = b + 1 /\ text[e] = "=" THEN {"=="} ELSE {}
    BY <1>3, <2>1, <2>2, SpellCases
  <2>4. text[b] \notin Spaces /\ ~ IsComment(b)
    BY <1>6, <2>1 DEF IsComment
  <2>5. CASE ch = "="
    <3>1. b + 1 \in b .. Len(text) /\ text[b + 1] = "="
      BY <1>3, <1>4, <1>6, <2>1, <2>5
    <3>2. next /\ return("==", ptr')
      BY <1>9, <2>5 DEF scan_equal
    <3>3. ptr' = b + 1 + 1
      BY <1>3, <2>1, <3>1, <3>2 DEF next
    <3>4. Spell(b, b + 1) = {"=="} /\ \A e \in b + 1 + 1 .. Len(text) : Spell(b, e) = {}
      BY <1>3, <2>2, <2>3, <3>1, SMTT(30)
    <3>5. "==" = IF "==" = "identifier" THEN keywordOf(SubSeq(text, b, b + 1)) ELSE "=="
      OBVIOUS
    <3>6. return("==", b + 1 + 1)
      BY <3>2, <3>3
    <3> QED
      BY <1>7, <2>2, <2>4, <3>1, <3>3, <3>4, <3>5, <3>6
  <2>6. CASE ch # "="
    <3>1. stay /\ return("=", b + 1)
      BY <1>9, <2>1, <2>6 DEF scan_equal
    <3>2. ptr' = b + 1
      BY <2>1, <3>1 DEF stay
    <3>3. Spell(b, b) = {"="} /\ \A e \in b + 1 .. Len(text) : Spell(b, e) = {}
      BY <1>3, <1>4, <2>1, <2>2, <2>3, <2>6
    <3>4. "=" = IF "=" = "identifier" THEN keywordOf(SubSeq(text, b, b)) ELSE "="
      OBVIOUS
    <3> QED
      BY <1>7, <2>2, <2>4, <3>1, <3>2, <3>3, <3>4
  <2> QED
    BY <2>5, <2>6
<1>10. ASSUME NEW C, NUL \notin C, b <= Len(text), text[b] \in C,
              \A i \in b .. ptr - 1 : text[i] \in C
       PROVE  /\ ch \in C => /\ ptr <= Len(text)
                             /\ next => /\ ptr' = ptr + 1
                                        /\ \A i \in b .. ptr' - 1 : text[i] \in C
              /\ ch \notin C => /\ ptr - 1 \in b .. Len(text)
                                /\ \A e \in ptr .. Len(text) : \E i \in b .. e : text[i] \notin C
  <2>1. ASSUME ch \in C PROVE ptr <= Len(text)
    BY <1>3, <1>4, <1>10, <2>1
  <2>2. ASSUME ch \in C, next PROVE ptr' = ptr + 1
    BY <2>1, <2>2 DEF next
  <2>3. ASSUME ch \in C, next PROVE \A i \in b .. ptr' - 1 : text[i] \in C
    <3>1. ch = text[ptr] /\ ptr' - 1 = ptr
      BY <1>3, <1>4, <2>1, <2>2, <2>3
    <3> QED
      BY <1>3, <1>10, <2>3, <3>1
  <2>4. ASSUME ch \notin C PROVE ptr - 1 \in b .. Len(text)
    <3>1. ptr # b
      BY <1>4, <1>3, <1>10, <2>4
    <3> QED
      BY <1>3, <3>1
  <2>5. ASSUME ch \notin C, NEW e \in ptr .. Len(text)
        PROVE  \E i \in b .. e : text[i] \notin C
    BY <1>3, <1>4, <2>5
  <2> QED
    BY <2>1, <2>2, <2>3, <2>4, <2>5
<1>11. CASE scan_number
  <2>1. /\ state = "number" /\ b <= Len(text) /\ text[b] \in Digits
        /\ \A i \in b .. ptr - 1 : text[i] \in Digits
    BY <1>5, <1>11 DEF scan_number, In, Reading
  <2>2. NUL \notin Digits
    BY <1>6
  <2>3. CASE ch \in Digits
    <3>1. next /\ state' = state /\ tokens' = tokens
      BY <1>11, <2>3 DEF scan_number
    <3> HIDE DEF next
    <3>2. ptr' = ptr + 1 /\ \A i \in b .. ptr' - 1 : text[i] \in Digits
      BY <1>10, <2>1, <2>2, <2>3, <3>1
    <3>3. Reading' /\ Here' = Here
      BY <1>2, <2>1, <3>1, <3>2 DEF Reading, Here
    <3> QED
      BY <1>1, <1>2, <3>1, <3>3, LexKept
  <2>4. CASE ch \notin Digits
    <3>1. stay /\ return("number", ptr)
      BY <1>11, <2>4 DEF scan_number
    <3>2. /\ ptr - 1 \in b .. Len(text)
          /\ \A e \in ptr .. Len(text) : \E i \in b .. e : text[i] \notin Digits
      BY <1>10, <2>1, <2>2, <2>4
    <3>3. ptr' = (ptr - 1) + 1 /\ ptr = (ptr - 1) + 1 /\ return("number", (ptr - 1) + 1)
      BY <1>3, <3>1 DEF stay
    <3>4. \A e \in b .. Len(text) :
            Spell(b, e) = IF \A i \in b .. e : text[i] \in Digits THEN {"number"} ELSE {}
      <4>1. b \in 1 .. Len(text) /\ text \in Seq(STRING) /\ text[b] \in Digits
        BY <1>3, <2>1
      <4> HIDE DEF b
      <4> QED
        BY <4>1, SpellCases
    <3>5. Spell(b, ptr - 1) = {"number"} /\ \A e \in (ptr - 1) + 1 .. Len(text) : Spell(b, e) = {}
      <4>1. Spell(b, ptr - 1) = {"number"}
        BY <2>1, <3>2, <3>4
      <4>2. \A e \in ptr .. Len(text) : e \in b .. Len(text)
        BY <1>3
      <4>3. \A e \in ptr .. Len(text) : Spell(b, e) = {}
        BY <3>2, <3>4, <4>2
      <4> QED
        BY <3>3, <4>1, <4>3
    <3>6. text[b] \notin Spaces /\ ~ IsComment(b)
      BY <1>6, <2>1 DEF IsComment
    <3>7. "number" = IF "number" = "identifier" THEN keywordOf(SubSeq(text, b, ptr - 1))
                     ELSE "number"
      OBVIOUS
    <3> QED
      BY <1>7, <2>1, <3>2, <3>3, <3>5, <3>6, <3>7
  <2> QED
    BY <2>3, <2>4
<1>12. CASE scan_identifier
  <2>1. /\ state = "identifier" /\ b <= Len(text) /\ text[b] \in Letters
        /\ \A i \in b .. ptr - 1 : text[i] \in WordChars
    BY <1>5, <1>12 DEF scan_identifier, In, Reading
  <2>2. NUL \notin WordChars /\ text[b] \in WordChars
    BY <1>6, <2>1 DEF WordChars
  <2>3. CASE ch \in WordChars
    <3>1. next /\ state' = state /\ tokens' = tokens
      BY <1>12, <2>3 DEF scan_identifier, WordChars
    <3> HIDE DEF next
    <3>2. ptr' = ptr + 1 /\ \A i \in b .. ptr' - 1 : text[i] \in WordChars
      BY <1>10, <2>1, <2>2, <2>3, <3>1
    <3>3. Reading' /\ Here' = Here
      BY <1>2, <2>1, <3>1, <3>2 DEF Reading, Here
    <3> QED
      BY <1>1, <1>2, <3>1, <3>3, LexKept
  <2>4. CASE ch \notin WordChars
    <3>1. stay /\ return("identifier", ptr)
      BY <1>12, <2>4 DEF scan_identifier, WordChars
    <3>2. /\ ptr - 1 \in b .. Len(text)
          /\ \A e \in ptr .. Len(text) : \E i \in b .. e : text[i] \notin WordChars
      BY <1>10, <2>1, <2>2, <2>4
    <3>3. ptr' = (ptr - 1) + 1 /\ ptr = (ptr - 1) + 1 /\ return("identifier", (ptr - 1) + 1)
      BY <1>3, <3>1 DEF stay
    <3>4. \A e \in b .. Len(text) :
            Spell(b, e) = IF \A i \in b .. e : text[i] \in WordChars
                          THEN {keywordOf(SubSeq(text, b, e))} ELSE {}
      <4>1. b \in 1 .. Len(text) /\ text \in Seq(STRING) /\ text[b] \in Letters
        BY <1>3, <2>1
      <4> HIDE DEF b
      <4> QED
        BY <4>1, SpellCases
    <3>5. /\ Spell(b, ptr - 1) = {keywordOf(SubSeq(text, b, ptr - 1))}
          /\ \A e \in (ptr - 1) + 1 .. Len(text) : Spell(b, e) = {}
      <4>1. Spell(b, ptr - 1) = {keywordOf(SubSeq(text, b, ptr - 1))}
        BY <2>1, <3>2, <3>4
      <4>2. \A e \in ptr .. Len(text) : e \in b .. Len(text)
        BY <1>3
      <4>3. \A e \in ptr .. Len(text) : Spell(b, e) = {}
        BY <3>2, <3>4, <4>2
      <4> QED
        BY <3>3, <4>1, <4>3
    <3>6. text[b] \notin Spaces /\ ~ IsComment(b)
      BY <1>6, <2>1 DEF IsComment
    <3> QED
      BY <1>7, <2>1, <3>2, <3>3, <3>5, <3>6
  <2> QED
    BY <2>3, <2>4
<1> QED
  BY <1>8, <1>9, <1>11, <1>12

LEMMA LexStutters == LexInv /\ UNCHANGED scvars => LexInv'
<1> SUFFICES ASSUME LexInv, UNCHANGED scvars PROVE LexInv'
  OBVIOUS
<1>1. /\ text' = text /\ ptr' = ptr /\ state' = state /\ begin' = begin /\ tokens' = tokens
      /\ SInv'
  BY SInvStep DEF LexInv, scvars
<1>2. Here' = Here /\ Reading'
  BY <1>1 DEF LexInv, Here, Reading, IsComment
<1> QED
  BY <1>1, <1>2, LexKept

LEMMA LexInit == SInit => LexInv
<1> SUFFICES ASSUME SInit PROVE LexInv
  OBVIOUS
<1>1. SInv /\ ptr = 1 /\ state = "idle" /\ tokens = << >>
  BY SInvInit DEF SInit
<1>2. Here = 1 /\ Len(tokens) = 0 /\ DOMAIN tokens = {}
  BY <1>1 DEF Here
<1>3. From[0] = 1
  BY FromIs
<1> QED
  BY <1>1, <1>2, <1>3 DEF LexInv, Reading, TokensLexed

\* For every text, the tokens that the calls of tsg_scanner_scan return are the
\* ones of the lexical grammar, one after another, each the longest word that the
\* text spells there, with the line and the column where it stands; spaces and
\* comments are passed, and nothing else of the text is lost, split or taken
\* twice.
THEOREM TokensAreLexed == SSpec => []TokensLexed
<1>1. LexInv /\ [SNext]_scvars => LexInv'
  BY LexSkips, LexFirst, LexWithin, LexStutters DEF SNext, Scanning
<1>2. LexInv => TokensLexed
  BY DEF LexInv
<1> QED
  BY <1>1, <1>2, LexInit, PTL DEF SSpec

----------------------------------------------------------------------------
\* read_source stays in its buffer.  What keeps a read in bounds is that the buffer
\* and, as long as there is more to come, what has been read are whole numbers of
\* chunks: when the buffer is not full there is room for another.
Whole(n) == \E k \in 0 .. n : n = k * Chunk

IInv ==
  /\ file \in Files
  /\ at \in {"read", "full?", "end", "done"}
  /\ read_size \in Nat /\ buf_size \in Nat /\ buffer \in Nat
  /\ PointersCurrent
  /\ Whole(buf_size) /\ Chunk <= buf_size
  /\ read_size <= file
  /\ buf_size = Chunk \/ buf_size <= 2 * read_size
  /\ at \in {"read", "full?"} => Whole(read_size)
  /\ at = "read" => read_size < buf_size
  /\ at = "full?" => read_size <= buf_size
  /\ at \in {"end", "done"} => read_size < buf_size /\ read_size = file

\* Of two whole numbers of chunks the greater has room for another chunk.
LEMMA RoomLeft ==
  ASSUME NEW m \in Nat, NEW n \in Nat, Whole(m), Whole(n), m < n
  PROVE  m + Chunk <= n
<1>1. Chunk \in Nat /\ Chunk >= 1
  BY SourceAssumption
<1>2. PICK j \in 0 .. m : m = j * Chunk
  BY DEF Whole
<1>3. PICK k \in 0 .. n : n = k * Chunk
  BY DEF Whole
<1>4. j < k
  <2>1. SUFFICES ASSUME k <= j PROVE FALSE
    BY <1>2, <1>3
  <2>2. PICK d \in Nat : j = k + d
    BY <1>2, <1>3, <2>1, j = k + (j - k)
  <2>3. j * Chunk = k * Chunk + d * Chunk /\ d * Chunk \in Nat
    BY <1>1, <1>2, <1>3, <2>2
  <2> QED
    BY <1>1, <1>2, <1>3, <2>3
<1>5. PICK d \in Nat : k = j + 1 + d
  BY <1>2, <1>3, <1>4, k = j + 1 + (k - (j + 1))
<1>6. k * Chunk = j * Chunk + Chunk + d * Chunk /\ d * Chunk \in Nat
  BY <1>1, <1>2, <1>3, <1>5
<1> QED
  BY <1>1, <1>2, <1>3, <1>6

\* Whole numbers of chunks: one more chunk, and twice as many.
LEMMA WholeGrows ==
  ASSUME NEW n \in Nat, Whole(n)
  PROVE  Whole(n + Chunk) /\ Whole(2 * n)
<1>1. Chunk \in Nat /\ Chunk >= 1
  BY SourceAssumption
<1>2. PICK k \in 0 .. n : n = k * Chunk
  BY DEF Whole
<1>3. n + Chunk = (k + 1) * Chunk /\ k + 1 \in 0 .. n + Chunk
  BY <1>1, <1>2
<1>4. 2 * n = (2 * k) * Chunk /\ 2 * k \in 0 .. 2 * n
  BY <1>1, <1>2
<1> QED
  BY <1>3, <1>4 DEF Whole

LEMMA InitIInv == Init => IInv
<1>1. Chunk \in Nat /\ Chunk >= 1 /\ Files \subseteq Nat
  BY SourceAssumption
<1>2. Whole(0) /\ Whole(Chunk)
  <2>1. 0 = 0 * Chunk /\ 0 \in 0 .. 0
    BY <1>1
  <2>2. Chunk = 1 * Chunk /\ 1 \in 0 .. Chunk
    BY <1>1
  <2>3. Whole(0)
    BY <2>1 DEF Whole
  <2>4. Whole(Chunk)
    BY <2>2 DEF Whole
  <2> QED
    BY <2>3, <2>4
<1> QED
  BY <1>1, <1>2 DEF Init, IInv, PointersCurrent, Pointer

LEMMA NextIInv == IInv /\ [Next]_vars => IInv'
<1> SUFFICES ASSUME IInv, [Next]_vars PROVE IInv'
  OBVIOUS
<1>1. Chunk \in Nat /\ Chunk >= 1 /\ Files \subseteq Nat
  BY SourceAssumption
<1>2. CASE read
  <2>1. read_size + Chunk <= buf_size
    BY <1>2, RoomLeft DEF read, IInv
  <2>2. CASE LastRead(fread)
    <3>1. read_size' = file
      BY <1>1, <1>2, <2>2 DEF read, IInv, LastRead, fread
    <3>2. file < buf_size
      BY <1>1, <2>1, <2>2 DEF IInv, LastRead, fread
    <3>3. PointersCurrent'
      BY <1>1, <1>2, <2>2 DEF read, IInv, LastRead, fread, PointersCurrent, Pointer
    <3>4. Whole(buf_size)' /\ buf_size' = buf_size /\ at' = "end"
      BY <1>2, <2>2 DEF read, IInv, Whole
    <3>5. file' = file /\ buffer' = buffer
      BY <1>2 DEF read
    <3> QED
      BY <1>1, <3>1, <3>2, <3>3, <3>4, <3>5 DEF IInv
  <2>3. CASE ~ LastRead(fread)
    <3>1. read_size' = read_size + Chunk /\ read_size' <= file
      BY <1>1, <1>2, <2>3 DEF read, IInv, LastRead, fread
    <3>2. Whole(read_size')
      BY <1>2, <3>1, WholeGrows DEF read, IInv
    <3>3. PointersCurrent'
      BY <1>1, <1>2, <2>3 DEF read, IInv, LastRead, fread, PointersCurrent, Pointer
    <3>4. Whole(buf_size)' /\ buf_size' = buf_size /\ at' = "full?"
      BY <1>2, <2>3 DEF read, IInv, Whole
    <3>5. Whole(read_size)'
      BY <3>2 DEF Whole
    <3>6. file' = file /\ buffer' = buffer
      BY <1>2 DEF read
    <3> QED
      BY <1>1, <2>1, <3>1, <3>3, <3>4, <3>5, <3>6 DEF IInv
  <2> QED
    BY <2>2, <2>3
<1>3. CASE grow
  <2>1. Whole(2 * buf_size)
    BY WholeGrows DEF IInv
  <2>2. CASE buf_ptr.offset >= buf_end.offset
    <3>1. read_size = buf_size
      BY <1>3, <2>2 DEF grow, IInv, PointersCurrent, Pointer
    <3>2. PointersCurrent'
      BY <1>3, <2>2 DEF grow, PointersCurrent, PtrIn, Pointer
    <3>3. Whole(buf_size)' /\ buf_size' = 2 * buf_size /\ at' = "read"
      BY <1>3, <2>1, <2>2 DEF grow, Grown, IInv, Whole
    <3>4. Whole(read_size)' /\ read_size' = read_size
      BY <1>3 DEF grow, IInv, Whole
    <3>5. file' = file /\ buffer' = buffer + 1
      BY <1>3, <2>2 DEF grow
    <3> QED
      BY <1>1, <3>1, <3>2, <3>3, <3>4, <3>5 DEF IInv
  <2>3. CASE ~ (buf_ptr.offset >= buf_end.offset)
    <3>1. read_size < buf_size
      BY <2>3 DEF IInv, PointersCurrent, Pointer
    <3> QED
      BY <1>3, <2>3, <3>1 DEF grow, IInv, PointersCurrent, Pointer, Whole
  <2> QED
    BY <2>2, <2>3
<1>4. CASE terminate
  BY <1>4 DEF terminate, IInv, PointersCurrent, Pointer, Whole
<1>5. CASE UNCHANGED vars
  BY <1>5 DEF vars, IInv, PointersCurrent, Pointer, Whole
<1> QED
  BY <1>2, <1>3, <1>4, <1>5 DEF Next

LEMMA IInvAlways == Spec => []IInv
  BY InitIInv, NextIInv, PTL DEF Spec

\* A read has room for a whole chunk (tsugu.c:26), the NUL is written in the buffer
\* (tsugu.c:41), and no pointer outlives a realloc, whatever the input.
THEOREM BufferSafe == Spec => []WritesInside
<1>1. IInv => RoomForChunk
  BY RoomLeft DEF IInv, RoomForChunk
<1>2. IInv => NulInside /\ PointersCurrent
  BY DEF IInv, NulInside
<1>3. IInv => WritesInside
  BY <1>1, <1>2 DEF WritesInside
<1> QED
  BY <1>3, IInvAlways, PTL

\* Everything is read, into a buffer at most twice as long.
THEOREM AllIsRead == Spec => []WholeRead
<1>1. IInv => WholeRead
  BY SourceAssumption DEF IInv, WholeRead
<1> QED
  BY <1>1, IInvAlways, PTL
=============================================================================
