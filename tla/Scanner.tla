------------------------------ MODULE Scanner ------------------------------
(***************************************************************************)
(* The scanner (src/tsugu/core/scanner.c): one action for each turn of its *)
(* loops, which look at one character and consume at most one.  The parser *)
(* calls tsg_scanner_scan as often as it likes, also after the last token. *)
(***************************************************************************)
EXTENDS Naturals, SequencesExt, FiniteSets

CONSTANTS Texts,      \* the sources, sequences of characters
          MaxScans    \* bound on the calls of tsg_scanner_scan

ASSUME TextsAssumption == \A t \in Texts : t \in Seq(STRING)
ASSUME MaxScansAssumption == MaxScans \in Nat

Digits  == {"0", "1", "2", "3", "4", "5", "6", "7", "8", "9"}
Letters == {"a", "d", "e", "f", "i", "l", "s", "v", "x"}
Spaces  == {" ", "\t", "\r", "\n"}
Single  == {"+", "-", "*", "<", ">", "(", ")", "{", "}", ",", ";"}
NUL     == "NUL"

VARIABLES
  text,      \* the source
  ptr,       \* scanner->ptr, an index into it, one past it at the end
  line,      \* scanner->pos
  column,
  state,     \* where tsg_scanner_scan is, idle outside of it
  begin,     \* the index and the position where the token began
  tokens     \* the tokens returned

scvars == <<text, ptr, line, column, state, begin, tokens>>

----------------------------------------------------------------------------
\* read
ch == IF ptr <= Len(text) THEN text[ptr] ELSE NUL

nextFar ==  \* mutant: the end of the text is passed
  /\ line' = IF ch = "\n" THEN line + 1 ELSE line
  /\ column' = IF ch = "\n" THEN 1 ELSE column + 1
  /\ ptr' = ptr + 1

\* next
next ==
  /\ line' = IF ch = "\n" THEN line + 1 ELSE line
  /\ column' = IF ch = "\n" THEN 1 ELSE column + 1
  /\ ptr' = IF ptr <= Len(text) THEN ptr + 1 ELSE ptr

stay == UNCHANGED <<ptr, line, column>>

keywordOf(word) ==
  CASE word = <<"d", "e", "f">>      -> "def"
    [] word = <<"v", "a", "l">>      -> "val"
    [] word = <<"i", "f">>           -> "if"
    [] word = <<"e", "l", "s", "e">> -> "else"
    [] OTHER                         -> "identifier"

\* The token of this kind, whose text ends before the index e.
Token(kind, e) ==
  LET word == SubSeq(text, begin[1], e - 1) IN
  [kind |-> IF kind = "identifier" THEN keywordOf(word) ELSE kind,
   text |-> word, line |-> begin[2], column |-> begin[3]]

return(kind, e) == tokens' = Append(tokens, Token(kind, e)) /\ state' = "idle"

In(s) == state = s /\ UNCHANGED text

----------------------------------------------------------------------------
\* tsg_scanner_scan is called.
scan ==
  /\ In("idle")
  /\ Len(tokens) < MaxScans
  /\ state' = "space"
  /\ stay
  /\ UNCHANGED <<begin, tokens>>

skip_whitespaceDry ==  \* mutant: the position is not kept in step
  /\ In("space")
  /\ IF ch \in Spaces
     THEN ptr' = ptr + 1 /\ column' = column + 1 /\ UNCHANGED <<line, state, begin>>
     ELSE stay /\ state' = "start" /\ begin' = <<ptr, line, column>>
  /\ UNCHANGED tokens

skip_whitespace ==
  /\ In("space")
  /\ IF ch \in Spaces THEN next /\ UNCHANGED <<state, begin>>
     ELSE stay /\ state' = "start" /\ begin' = <<ptr, line, column>>
  /\ UNCHANGED tokens

firstTaken ==  \* mutant: an unknown character is consumed
  /\ In("start")
  /\ CASE ch \in {NUL, "?"}  -> next /\ return(IF ch = NUL THEN "EOF" ELSE "ERROR", ptr)
       [] ch \in Single       -> next /\ return(ch, ptr')
       [] OTHER               -> stay /\ return("identifier", ptr)
  /\ UNCHANGED begin

\* The first character decides; the end of the text and a character that begins
\* no token are not consumed.
first ==
  /\ In("start")
  /\ CASE ch = NUL         -> stay /\ return("EOF", ptr)
       [] ch \in Single    -> next /\ return(ch, ptr')
       [] ch = "/"         -> next /\ state' = "slash" /\ UNCHANGED tokens
       [] ch = "="         -> next /\ state' = "equal" /\ UNCHANGED tokens
       [] ch \in Digits    -> stay /\ state' = "number" /\ UNCHANGED tokens
       [] ch \in Letters   -> stay /\ state' = "identifier" /\ UNCHANGED tokens
       [] OTHER            -> stay /\ return("ERROR", ptr)
  /\ UNCHANGED begin

scan_slash ==
  /\ In("slash")
  /\ stay
  /\ IF ch = "/" THEN state' = "line" /\ UNCHANGED tokens ELSE return("/", ptr)
  /\ UNCHANGED begin

scan_equalShort ==  \* mutant: the second character is not consumed
  /\ In("equal")
  /\ stay
  /\ return(IF ch = "=" THEN "==" ELSE "=", ptr)
  /\ UNCHANGED begin

scan_equal ==
  /\ In("equal")
  /\ IF ch = "=" THEN next /\ return("==", ptr') ELSE stay /\ return("=", ptr)
  /\ UNCHANGED begin

scan_numberStuck ==  \* mutant: the loop does not read the next character
  /\ In("number")
  /\ stay
  /\ IF ch \in Digits THEN UNCHANGED <<state, tokens>> ELSE return("number", ptr)
  /\ UNCHANGED begin

scan_number ==
  /\ In("number")
  /\ IF ch \in Digits THEN next /\ UNCHANGED <<state, tokens>>
                      ELSE stay /\ return("number", ptr)
  /\ UNCHANGED begin

scan_identifier ==
  /\ In("identifier")
  /\ IF ch \in Letters \cup Digits \cup {"_"}
     THEN next /\ UNCHANGED <<state, tokens>>
     ELSE stay /\ return("identifier", ptr)
  /\ UNCHANGED begin

\* A comment goes on to a newline or a NUL, and takes it; then the scan starts
\* again.
scan_line ==
  /\ In("line")
  /\ next
  /\ state' = IF ch \in {NUL, "\n"} THEN "space" ELSE state
  /\ UNCHANGED <<begin, tokens>>

SInit ==
  /\ text \in Texts
  /\ ptr = 1 /\ line = 1 /\ column = 1
  /\ state = "idle"
  /\ begin = <<1, 1, 1>>
  /\ tokens = << >>

Scanning ==
  \/ skip_whitespace \/ first \/ scan_slash \/ scan_equal
  \/ scan_number \/ scan_identifier \/ scan_line

SNext == scan \/ Scanning

\* A call runs to its end; whether another is made is up to the parser.
SSpec == SInit /\ [][SNext]_scvars /\ WF_scvars(Scanning)

----------------------------------------------------------------------------
STypeOK ==
  /\ ptr \in 1 .. Len(text) + 1
  /\ line \in Nat \ {0} /\ column \in Nat \ {0}
  /\ state \in {"idle", "space", "start", "slash", "equal", "number", "identifier", "line"}
  /\ begin[1] \in 1 .. ptr
  /\ Len(tokens) <= MaxScans

\* The lexical grammar: the tokens that the characters w spell.
Spelled(w) ==
  {k \in Single \cup {"/", "=", "=="} :
     w = IF k = "==" THEN <<"=", "=">> ELSE <<k>>}
  \cup {k \in {"number"} : w # << >> /\ ToSet(w) \subseteq Digits}
  \cup {k \in {keywordOf(w)} :
          /\ w # << >> /\ w[1] \in Letters
          /\ ToSet(w) \subseteq Letters \cup Digits \cup {"_"}}

\* The index behind a comment that starts at i: it ends with a newline or a NUL.
Behind(i) ==
  LET ends == {j \in i .. Len(text) : text[j] \in {"\n", NUL}}
  IN  IF ends = {} THEN Len(text) + 1 ELSE Min(ends) + 1

\* Where the token at or after the index i begins: spaces and comments are passed.
Begin[i \in 1 .. Len(text) + 1] ==
  IF i > Len(text) THEN i
  ELSE IF text[i] \in Spaces THEN Begin[i + 1]
  ELSE IF text[i] = "/" /\ i < Len(text) /\ text[i + 1] = "/" THEN Begin[Behind(i)]
  ELSE i

\* Where the words that the text spells from the index b on end.
WordEnds(b) == {e \in b .. Len(text) : Spelled(SubSeq(text, b, e)) # {}}

\* The newlines before an index of the text.
Newlines(p) == {k \in 1 .. p - 1 : text[k] = "\n"}

\* The token at the index b, the longest word there, with the line and the column
\* where it stands; it is empty where the text spells none.
TokenAt(b) ==
  LET word == IF WordEnds(b) = {} THEN << >> ELSE SubSeq(text, b, Max(WordEnds(b)))
      kind == IF WordEnds(b) # {} THEN CHOOSE k \in Spelled(word) : TRUE
              ELSE IF b > Len(text) \/ text[b] = NUL THEN "EOF" ELSE "ERROR"
  IN  [kind |-> kind, text |-> word, line |-> Cardinality(Newlines(b)) + 1,
       column |-> b - Max(Newlines(b) \cup {0})]

\* Where the scan after n tokens starts: behind the last one, and where the text
\* spells no token it stays.
From[n \in 0 .. MaxScans] ==
  IF n = 0 THEN 1
  ELSE LET b == Begin[From[n - 1]]
       IN  IF WordEnds(b) = {} THEN From[n - 1] ELSE Max(WordEnds(b)) + 1

\* The column of the end of the text, after a comment that it ends, is counted
\* one too far: the comment takes a newline that is not there.
Placed(t) == IF t.kind = "EOF" THEN [t EXCEPT !.column = 0] ELSE t

\* The tokens are those of the lexical grammar, at the lines and columns where
\* they stand: nothing of the text is lost, split or taken twice.
TokensLexed ==
  \A i \in DOMAIN tokens : Placed(tokens[i]) = Placed(TokenAt(Begin[From[i - 1]]))

\* The parser stops at the end of the text or at an error, and may call again:
\* it gets the same token, and no other.
Ends == {"EOF", "ERROR"}

LastRepeats ==
  [][tokens # << >> /\ Last(tokens).kind \in Ends => Last(tokens') = Last(tokens)]_scvars

\* Every call returns.
ScanReturns == state # "idle" ~> state = "idle"
=============================================================================
