------------------------------- MODULE Parser -------------------------------
(***************************************************************************)
(* The recursive-descent parser (src/tsugu/core/parser.c), its errors and  *)
(* the tree it allocates (ast.c).                                          *)
(*                                                                         *)
(* The source is the sequence of tokens that the scanner returns; its last *)
(* one, <EOF> or <ERROR>, is returned again for ever (Scanner.tla).  The C *)
(* call stack is the sequence work of the steps left to do, and vals holds *)
(* what calls have returned and their callers not yet consumed, the last   *)
(* first: trees of AstBuilder, lists of names, or NULL.                    *)
(***************************************************************************)
EXTENDS AstBuilder, FiniteSets

CONSTANTS Sources,   \* the sequences of tokens to parse
          main       \* the name $main of the root function

Punctuation == Ops \cup {"=", "(", ")", "{", "}", ",", ";"}

Kinds == Punctuation \cup {"number", "identifier", "def", "val", "if", "else",
                           "EOF", "ERROR"}

\* tsg_token_t, of which the parser reads the kind, the line and the spelling.
\* Tokens do not span lines.
Tokens == [kind : Kinds, line : Nat \ {0}, name : Name]

ASSUME SourcesAssumption ==
  /\ main \in Name
  /\ \A s \in Sources :
       /\ s \in Seq(Tokens) /\ s # << >>
       /\ \A i \in DOMAIN s :
            /\ s[i].kind \in {"EOF", "ERROR"} <=> i = Len(s)
            /\ i > 1 => s[i - 1].line <= s[i].line

VARIABLES
  source,
  pos,            \* the index of parser->token
  lastLine,       \* parser->last_line
  lastErrorLine,  \* parser->last_error_line
  errors,         \* parser->errors
  work,           \* the rest of the calls
  vals,           \* their values not yet consumed, last first
  crashed         \* a NULL pointer has been dereferenced

vars == <<source, pos, lastLine, lastErrorLine, errors, work, vals, crashed>>

NULL == << >>

token == source[pos]

Running == work # << >> /\ ~ crashed

Now(op) == Running /\ work[1][1] = op
arg     == work[1][2]

\* The rest of the work, after the steps ss.
Then(ss) == work' = ss \o Tail(work)

\* The k last values are consumed and v is returned.
Give(k, x) == vals' = <<x>> \o SubSeq(vals, k + 1, Len(vals))

Top(k) == vals[k]

\* next, n times: the scanner returns the last token again for ever.
next(n) ==
  LET At(i) == IF i > Len(source) THEN Len(source) ELSE i IN
  /\ pos' = At(pos + n)
  /\ lastLine' = IF n = 0 THEN lastLine ELSE source[At(pos + n - 1)].line

\* error: at most one on a line.
error(what) ==
  IF token.line = lastErrorLine THEN UNCHANGED <<errors, lastErrorLine>>
  ELSE /\ errors' = Append(errors, [what |-> what, at |-> pos])
       /\ lastErrorLine' = token.line

\* error, unless ok.
check(ok, what) == IF ok THEN UNCHANGED <<errors, lastErrorLine>> ELSE error(what)

token_prec(kind) ==
  CASE kind \in {"==", "<", ">"} -> 1
    [] kind \in {"+", "-"}       -> 2
    [] kind \in {"*", "/"}       -> 3
    [] OTHER                     -> -1

----------------------------------------------------------------------------
Expr  == <<"binary", 0>>
Block == <<"block", <<NULL, NULL>>>>

expect ==
  /\ Now("expect")
  /\ check(token.kind = arg, arg)
  /\ next(IF token.kind = arg THEN 1 ELSE 0)
  /\ Then(<< >>)
  /\ UNCHANGED <<source, vals, crashed>>

\* A turn of the loop of parse_block, with the functions and the statements so far
\* in arg, reads a function or a statement.
parse_block ==
  /\ Now("block")
  /\ Then(<<<<IF token.kind = "def" THEN "func" ELSE "stmt", NULL>>,
            <<IF token.kind = "def" THEN "func_node" ELSE "stmt_node", arg>>>>)
  /\ UNCHANGED <<source, pos, lastLine, lastErrorLine, errors, vals, crashed>>

parse_func_node ==
  /\ Now("func_node")
  /\ Then(<<<<"block", <<Append(arg[1], Top(1)), arg[2]>>>>>>)
  /\ vals' = Tail(vals)
  /\ UNCHANGED <<source, pos, lastLine, lastErrorLine, errors, crashed>>

parse_stmt_nodeOn ==  \* mutant: the loop goes on after a missing statement
  /\ Now("stmt_node")
  /\ Then(<<<<"block", IF Top(1) = NULL THEN arg
                      ELSE <<arg[1], Append(arg[2], Top(1))>>>>>>)
  /\ vals' = Tail(vals)
  /\ UNCHANGED <<source, pos, lastLine, lastErrorLine, errors, crashed>>

\* parse_stmt_node: without a statement the block ends.
parse_stmt_node ==
  /\ Now("stmt_node")
  /\ IF Top(1) = NULL
     THEN Then(<< >>) /\ Give(1, Blk(arg[1], arg[2]))
     ELSE /\ Then(<<<<"block", <<arg[1], Append(arg[2], Top(1))>>>>>>)
          /\ vals' = Tail(vals)
  /\ UNCHANGED <<source, pos, lastLine, lastErrorLine, errors, crashed>>

\* parse_func, called at a def.
parse_func ==
  /\ Now("func")
  /\ next(1)
  /\ Then(<<<<"ident", "identifier">>, <<"expect", "(">>, <<"decls", NULL>>,
            <<"expect", ")">>, <<"expect", "{">>, Block, <<"expect", "}">>,
            <<"make", "func">>>>)
  /\ UNCHANGED <<source, lastErrorLine, errors, vals, crashed>>

\* parse_stmt with parse_stmt_val and parse_stmt_expr.
parse_stmt ==
  /\ Now("stmt")
  /\ IF token.kind = "val"
     THEN /\ next(1)
          /\ Then(<<<<"ident", "declare">>, <<"expect", "=">>, Expr,
                    <<"need", NULL>>, <<"make", "val">>, <<"semicolon", NULL>>>>)
     ELSE /\ next(0)
          /\ Then(<<Expr, <<"make", "expr">>, <<"semicolon", NULL>>>>)
  /\ UNCHANGED <<source, lastErrorLine, errors, vals, crashed>>

\* parse_stmt: the end of a line stands for the semicolon.
parse_semicolon ==
  /\ Now("semicolon")
  /\ check(token.kind \in {";", "EOF", "}"} \/ token.line # lastLine, ";")
  /\ next(IF token.kind = ";" THEN 1 ELSE 0)
  /\ Then(<< >>)
  /\ UNCHANGED <<source, vals, crashed>>

\* parse_ident where an identifier is required: parse_func, parse_stmt_val.
parse_ident ==
  /\ Now("ident")
  /\ LET found == token.kind = "identifier" IN
     /\ check(found, arg)
     /\ next(IF found THEN 1 ELSE 0)
     /\ Give(0, IF found THEN Dcl(token.name) ELSE NULL)
  /\ Then(<< >>)
  /\ UNCHANGED <<source, crashed>>

\* parse_decl_list, with the declarations read so far in arg.
parse_decl_list ==
  /\ Now("decls")
  /\ LET found == token.kind = "identifier"
         comma == found /\ source[pos + 1].kind = ","
         list  == IF found THEN Append(arg, token.name) ELSE arg
     IN  /\ check(found \/ arg = NULL, "declare")
         /\ next(IF comma THEN 2 ELSE IF found THEN 1 ELSE 0)
         /\ IF comma THEN Then(<<<<"decls", list>>>>) /\ UNCHANGED vals
                     ELSE Then(<< >>) /\ Give(0, list)
  /\ UNCHANGED <<source, crashed>>

\* parse_expr_binary(prec).
parse_expr_binary ==
  /\ Now("binary")
  /\ Then(<<<<"operand", NULL>>, <<"calls", NULL>>, <<"operators", arg>>>>)
  /\ UNCHANGED <<source, pos, lastLine, lastErrorLine, errors, vals, crashed>>


\* The loop of parse_expr_binary: a right operand takes the operators that bind
\* more tightly.
parse_operators ==
  /\ Now("operators")
  /\ LET prec == token_prec(token.kind) IN
     IF Top(1) = NULL \/ prec <= arg THEN Then(<< >>) /\ next(0)
     ELSE /\ next(1)
          /\ Then(<<<<"binary", prec>>, <<"rhs", token.kind>>, work[1]>>)
  /\ UNCHANGED <<source, lastErrorLine, errors, vals, crashed>>

parse_rhsQuiet ==  \* mutant: a missing right operand is not an error
  /\ Now("rhs")
  /\ Give(2, IF Top(1) = NULL THEN Top(2) ELSE Bin(arg, Top(2), Top(1)))
  /\ Then(<< >>)
  /\ UNCHANGED <<source, pos, lastLine, lastErrorLine, errors, crashed>>

\* Without a right operand the left one stands for the expression.
parse_rhs ==
  /\ Now("rhs")
  /\ check(Top(1) # NULL, "expression")
  /\ Give(2, IF Top(1) = NULL THEN Top(2) ELSE Bin(arg, Top(2), Top(1)))
  /\ Then(<< >>)
  /\ UNCHANGED <<source, pos, lastLine, crashed>>

\* The loop of parse_expr_primary, with parse_expr_call.
parse_expr_primary ==
  /\ Now("calls")
  /\ IF Top(1) # NULL /\ token.kind = "("
     THEN /\ next(1)
          /\ Then(<<Expr, <<"args", NULL>>, <<"calls", NULL>>>>)
     ELSE next(0) /\ Then(<< >>)
  /\ UNCHANGED <<source, lastErrorLine, errors, vals, crashed>>

\* parse_expr_list: an argument has been parsed, those before it are in arg.
parse_expr_list ==
  /\ Now("args")
  /\ LET comma == Top(1) # NULL /\ token.kind = ","
         list  == IF Top(1) = NULL THEN arg ELSE Append(arg, Top(1))
     IN  /\ check(Top(1) # NULL \/ arg = NULL, "expression")
         /\ IF comma
            THEN next(1) /\ Then(<<Expr, <<"args", list>>>>)
            ELSE next(0) /\ Then(<<<<"expect", ")">>, <<"call", list>>>>)
  /\ vals' = Tail(vals)
  /\ UNCHANGED <<source, crashed>>

\* The end of parse_expr_call.
make_call ==
  /\ Now("call")
  /\ Give(1, App(Top(1), arg))
  /\ Then(<< >>)
  /\ UNCHANGED <<source, pos, lastLine, lastErrorLine, errors, crashed>>

\* parse_expr_operand, with the functions it chooses from.
parse_expr_operand ==
  /\ Now("operand")
  /\ CASE token.kind = "(" ->
            next(1) /\ Then(<<Expr, <<"paren", NULL>>>>) /\ UNCHANGED vals
       [] token.kind = "if" ->
            /\ next(1)
            /\ Then(<<<<"expect", "(">>, Expr, <<"need", NULL>>, <<"expect", ")">>,
                      <<"expect", "{">>, Block, <<"filled", NULL>>, <<"expect", "}">>,
                      <<"expect", "else">>,
                      <<"expect", "{">>, Block, <<"filled", NULL>>, <<"expect", "}">>,
                      <<"make", "ifelse">>>>)
            /\ UNCHANGED vals
       [] token.kind = "identifier" -> next(1) /\ Then(<< >>) /\ Give(0, Id(token.name))
       [] token.kind = "number"     -> next(1) /\ Then(<< >>) /\ Give(0, Num)
       [] OTHER                     -> next(0) /\ Then(<< >>) /\ Give(0, NULL)
  /\ UNCHANGED <<source, lastErrorLine, errors, crashed>>

\* parse_expr_paren widens the location of what it has parsed, NULL or not.
parse_expr_paren ==
  /\ Now("paren")
  /\ IF Top(1) = NULL THEN crashed' = TRUE /\ UNCHANGED work
                      ELSE Then(<<<<"expect", ")">>>>) /\ UNCHANGED crashed
  /\ UNCHANGED <<source, pos, lastLine, lastErrorLine, errors, vals>>

\* An expression is required: parse_stmt_val, parse_expr_ifelse.
need_expr ==
  /\ Now("need")
  /\ check(Top(1) # NULL, "expression")
  /\ Then(<< >>)
  /\ UNCHANGED <<source, pos, lastLine, vals, crashed>>

\* parse_expr_ifelse: a branch has a statement.
need_stmt ==
  /\ Now("filled")
  /\ check(Top(1)[1].stmts # << >>, "block is empty")
  /\ Then(<< >>)
  /\ UNCHANGED <<source, pos, lastLine, vals, crashed>>

NameOf(decl) == IF decl = NULL THEN main ELSE decl[1].name

\* A node is allocated for the values parsed: what is missing stays NULL.
make ==
  /\ Now("make")
  /\ CASE arg = "func"   -> Give(3, Def(NameOf(Top(3)), Top(2), Top(1)))
       [] arg = "val"    -> Give(2, Val(NameOf(Top(2)), Top(1)))
       [] arg = "expr"   -> Give(1, IF Top(1) = NULL THEN NULL ELSE Do(Top(1)))
       [] arg = "ifelse" -> Give(3, If(Top(3), Top(2), Top(1)))
  /\ Then(<< >>)
  /\ UNCHANGED <<source, pos, lastLine, lastErrorLine, errors, crashed>>

\* tsg_parser_create reads the first token, and next takes last_line from a
\* token that was never written; tsg_parser_parse then parses the root block.
Init ==
  /\ source \in Sources
  /\ pos = 1
  /\ lastLine \in {0, source[1].line}
  /\ lastErrorLine = 0
  /\ errors = << >>
  /\ work = <<Block, <<"expect", "EOF">>>>
  /\ vals = << >>
  /\ crashed = FALSE

Next ==
  \/ expect \/ parse_block \/ parse_func_node \/ parse_stmt_node \/ parse_func
  \/ parse_stmt \/ parse_semicolon \/ parse_ident \/ parse_decl_list
  \/ parse_expr_binary \/ parse_operators \/ parse_rhs \/ parse_expr_primary
  \/ parse_expr_list \/ make_call \/ parse_expr_operand \/ parse_expr_paren
  \/ need_expr \/ need_stmt \/ make

PSpec == Init /\ [][Next]_vars

\* The parser is one call of one thread.
FairPSpec == PSpec /\ WF_vars(Next)

----------------------------------------------------------------------------
Done == work = << >>

\* The program of a finished parse.
Tree == Def(main, << >>, Top(1))

\* The reports come from the top of the file to its end, one for a line at most:
\* what follows from an error on its line is not reported again, and what comes
\* later is.
ErrorsByLine ==
  \A i, j \in DOMAIN errors :
    i < j => source[errors[i].at].line < source[errors[j].at].line

\* tools/tsugu.c resolves a program that was parsed without errors, and the
\* resolver expects every pointer of its nodes set: it is a tree of ast.h.
AcceptedIsAst == Done /\ errors = << >> => IsAst(Tree)

\* Error recovery neither loops nor waits: every source is parsed to its end.
PTerminates == <>(Done \/ crashed)

\* A rule of the parser does not use an expression it did not get.
NoNullUsed == ~ crashed
=============================================================================
