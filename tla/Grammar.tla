------------------------------ MODULE Grammar ------------------------------
(***************************************************************************)
(* The language that the parser is to accept, as an ambiguous grammar read *)
(* backwards: the trees that the tokens i .. j of s can stand for.         *)
(***************************************************************************)
EXTENDS Parser

CONSTANT MaxReference    \* bound on the sources that are read with the grammar

Is(s, i, kind) == i \in DOMAIN s /\ s[i].kind = kind

RECURSIVE ExprTrees(_, _, _, _), BlockTrees(_, _, _), ListTrees(_, _, _, _)

\* The non-empty lists of names or of expressions, separated by commas.
ListTrees(s, i, j, kind) ==
  LET Item(k) == IF kind = "expr" THEN ExprTrees(s, i, k, 0)
                 ELSE IF i = k /\ Is(s, i, "identifier") THEN {s[i].name} ELSE {}
  IN  {<<t>> : t \in Item(j)}
      \cup UNION {{<<t>> \o ts : t \in Item(k - 1), ts \in ListTrees(s, k + 1, j, kind)} :
                  k \in {x \in i + 1 .. j - 1 : Is(s, x, ",")}}

\* Expressions whose operators bind more tightly than prec.  Operators of one
\* precedence group to the left.
ExprTrees(s, i, j, prec) ==
  LET Operand ==
        {Num : x \in {x \in {i} : x = j /\ Is(s, x, "number")}}
        \cup {Id(s[x].name) : x \in {x \in {i} : x = j /\ Is(s, x, "identifier")}}
      Paren ==
        IF i < j /\ Is(s, i, "(") /\ Is(s, j, ")") THEN ExprTrees(s, i + 1, j - 1, 0)
        ELSE {}
      Ifelse ==
        IF ~ (Is(s, i, "if") /\ Is(s, i + 1, "(") /\ Is(s, j, "}")) THEN {}
        ELSE UNION {{If(c, t, e) : c \in ExprTrees(s, i + 2, k - 1, 0),
                     t \in BlockTrees(s, k + 2, m - 1),
                     e \in BlockTrees(s, m + 3, j - 1)} :
                    k \in {x \in i + 3 .. j : Is(s, x, ")") /\ Is(s, x + 1, "{")},
                    m \in {x \in i + 3 .. j : Is(s, x, "}") /\ Is(s, x + 1, "else")
                                               /\ Is(s, x + 2, "{")}}
      Call ==
        IF ~ Is(s, j, ")") THEN {}
        ELSE UNION {{App(c, args) :
                     c \in ExprTrees(s, i, k - 1, 3),
                     args \in IF k + 1 = j THEN {<< >>}
                              ELSE ListTrees(s, k + 1, j - 1, "expr")} :
                    k \in {x \in i + 1 .. j - 1 : Is(s, x, "(")}}
      Binary ==
        UNION {{Bin(s[k].kind, l, r) :
                l \in ExprTrees(s, i, k - 1, token_prec(s[k].kind) - 1),
                r \in ExprTrees(s, k + 1, j, token_prec(s[k].kind))} :
               k \in {x \in i + 1 .. j - 1 : token_prec(s[x].kind) > prec}}
  IN  IF i > j THEN {} ELSE
      Operand \cup Paren \cup Call \cup Binary
        \cup {t \in Ifelse : t[t[1].thn].stmts # << >> /\ t[t[1].els].stmts # << >>}

FuncTrees(s, i, j) ==
  IF ~ (Is(s, i, "def") /\ Is(s, i + 1, "identifier") /\ Is(s, i + 2, "(")
        /\ Is(s, j, "}")) THEN {}
  ELSE UNION {{Def(s[i + 1].name, ps, b) :
               ps \in IF k = i + 3 THEN {<< >>}
                      ELSE ListTrees(s, i + 3, k - 1, "name"),
               b \in BlockTrees(s, k + 2, j - 1)} :
              k \in {x \in i + 3 .. j : Is(s, x, ")") /\ Is(s, x + 1, "{")}}

StmtTrees(s, i, j) ==
  {Do(e) : e \in ExprTrees(s, i, j, 0)}
  \cup IF Is(s, i, "val") /\ Is(s, i + 1, "identifier") /\ Is(s, i + 2, "=")
       THEN {Val(s[i + 1].name, e) : e \in ExprTrees(s, i + 3, j, 0)} ELSE {}

\* A statement ends with a semicolon, at the end of the block, or at the end of
\* the line unless the next one goes on with a parenthesis.  A semicolon alone is
\* no statement: only a block may end with one.
BlockTrees(s, i, j) ==
  LET With(b, fs, ss) == <<fs \o b[1], ss \o b[2]>>
      rest[k \in i .. j + 1] ==   \* the functions and statements of k .. j
        (IF k > j \/ (k = j /\ Is(s, j, ";")) THEN {<< << >>, << >> >>} ELSE {})
        \cup UNION {{With(b, <<f>>, << >>) : f \in FuncTrees(s, k, m), b \in rest[m + 1]} :
                    m \in {x \in k .. j : Is(s, k, "def") /\ Is(s, x, "}")}}
        \cup UNION {{With(b, << >>, <<t>>) : t \in StmtTrees(s, k, m),
                     b \in IF Is(s, m + 1, ";") /\ m < j THEN rest[m + 2]
                           ELSE IF m = j \/ (s[m].line < s[m + 1].line
                                             /\ ~ Is(s, m + 1, "("))
                           THEN rest[m + 1] ELSE {}} :
                    m \in k .. j}
  IN  IF i > j + 1 THEN {} ELSE {Blk(b[1], b[2]) : b \in rest[i]}

Programs == {Def(main, << >>, b) : b \in BlockTrees(source, 1, Len(source) - 1)}

=============================================================================
