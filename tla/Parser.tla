------------------------------- MODULE Parser -------------------------------
(***************************************************************************)
(* The recursive-descent parser of parser/parser.go, over the tokens that  *)
(* the lexer finds one at a time.  What the calls of the parser have still *)
(* to do, innermost first, is a sequence of steps: match a token, call a   *)
(* method, or make a node of the nodes that were made last.  A method is   *)
(* the steps that its code takes, which it chooses by the current token.   *)
(*                                                                         *)
(* Positions are left out: a node is what Database evaluates.              *)
(***************************************************************************)
EXTENDS Tables

CONSTANT Input      \* what the lexer may find: tokens and how they end

(* How the lexer stops: at the end of its input, in an error, in a panic. *)
Endings == {"end", "error", "panic"}

(* The lexer finds tokens up to an ending and none after it; the token of  *)
(* an identifier has its text.  No token is of the kind "none", which      *)
(* stands for none here.                                                   *)
InputAssumption ==
    \A tokens \in Input :
        /\ IsSeq(tokens) /\ tokens # <<>>
        /\ \A i \in DOMAIN tokens :
              /\ tokens[i].kind \in Endings <=> i = Len(tokens)
              /\ tokens[i].kind # "none"
              /\ tokens[i].kind = "Ident" => tokens[i].lit \in STRING

ASSUME TokensAreLexed == InputAssumption

VARIABLES
    input,      \* the tokens; the last one is "end", "error" or "panic"
    pos,        \* the current token, 0 before the first call of Scan
    todo,       \* what is still to do
    built,      \* the nodes made and not used yet, the last one made last
    outcome     \* what Parse returned, or that it has not returned yet

vars == <<input, pos, todo, built, outcome>>

Pending == [status |-> "pending", nodes |-> <<>>]
Returned(nodes) == [status |-> "ok", nodes |-> nodes]
Failed(status) == [status |-> status, nodes |-> <<>>]

Init ==
    /\ input \in Input
    /\ pos = 0
    /\ todo = <<>>
    /\ built = <<>>
    /\ outcome = Pending

Kind == input[pos].kind

-----------------------------------------------------------------------------
(* The steps. *)

Match(kind) == [do |-> "match", kind |-> kind]
Call(method) == [do |-> "call", method |-> method]
Make(part, size) == [do |-> "make", part |-> part, size |-> size]
Part(name) == [node |-> name]
Push(value) == [do |-> "push", value |-> value]

(* parseBinaryExpr(min), and its loop once it has a left operand. *)
Binary(min) == [do |-> "binary", min |-> min]
Operators(min) == [do |-> "operators", min |-> min]

Expr == Binary(1)

(* What matches no token: a call of expected. *)
Expected == <<Match("none")>>

(* An item, and more of them after commas, make a list. *)
More(item) == [do |-> "more", item |-> item]
ListOf(item) == <<Push(<<>>), item, Make(Part("list"), 2), More(item)>>

-----------------------------------------------------------------------------
(* Statements. *)

dataTypeFromToken ==
    [BOOLEAN |-> "Boolean", INTEGER |-> "Integer", NUMBER |-> "Number",
     VARCHAR |-> "String", TIMESTAMP |-> "Timestamp"]

DataTypes == DOMAIN dataTypeFromToken

parseColumnDefinition ==
    <<Match("Ident"), Call("dataType"), Call("nullable"), Make(Part("column"), 3)>>

parseDataType ==
    IF Kind \in DataTypes
    THEN <<Match(Kind), Push(dataTypeFromToken[Kind])>> ELSE Expected

parseNullable ==
    CASE Kind = "NOT" -> <<Match("NOT"), Match("NULL"), Push(FALSE)>>
      [] Kind = "NULL" -> <<Match("NULL"), Push(TRUE)>>
      [] OTHER -> <<Push(TRUE)>>

parseCreateTableStmt ==
    <<Match("CREATE"), Match("TABLE"), Match("Ident"), Match("(")>>
        \o ListOf(Call("columnDefinition")) \o <<Match(")"), Make(Part("create"), 2)>>

parseWhere == IF Kind = "WHERE" THEN <<Match("WHERE"), Expr>> ELSE <<Push(NoWhere)>>

parseSelectStmt ==
    <<Match("SELECT")>> \o ListOf(Call("exprOrStar"))
        \o <<Match("FROM"), Match("Ident"), Call("where"), Make(Part("select"), 3)>>

parseInsertColumns ==
    IF Kind = "(" THEN <<Match("(")>> \o ListOf(Match("Ident")) \o <<Match(")")>>
    ELSE <<Push(<<>>)>>

parseInsertStmt ==
    <<Match("INSERT"), Match("INTO"), Match("Ident"), Call("insertColumns"),
      Match("VALUES"), Match("(")>>
        \o ListOf(Expr) \o <<Match(")"), Make(Part("insert"), 3)>>

(* A faulty parseSetClause, which leaves the parentheses open. *)
parseSetClauseOpen ==
    IF Kind = "(" THEN <<Match("(")>> \o ListOf(Call("assignment"))
    ELSE ListOf(Call("assignment"))

(* The SET clause may be in parentheses. *)
parseSetClause ==
    IF Kind = "(" THEN <<Match("(")>> \o ListOf(Call("assignment")) \o <<Match(")")>>
    ELSE ListOf(Call("assignment"))

parseAssignment == <<Match("Ident"), Match("="), Expr, Make(Part("assignment"), 2)>>

parseUpdateStmt ==
    <<Match("UPDATE"), Match("Ident"), Match("SET"), Call("setClause"),
      Call("where"), Make(Part("update"), 3)>>

parseDeleteStmt ==
    <<Match("DELETE"), Match("FROM"), Match("Ident"), Call("where"),
      Make(Part("delete"), 2)>>

parseStmt ==
    CASE Kind = "CREATE" -> parseCreateTableStmt
      [] Kind = "SELECT" -> parseSelectStmt
      [] Kind = "INSERT" -> parseInsertStmt
      [] Kind = "UPDATE" -> parseUpdateStmt
      [] Kind = "DELETE" -> parseDeleteStmt
      [] OTHER -> Expected

-----------------------------------------------------------------------------
(* Expressions. *)

Precedence(kind) ==
    CASE kind = "OR" -> 1
      [] kind = "AND" -> 2
      [] kind \in ComparisonOps -> 3
      [] kind \in {"+", "-", "||"} -> 4
      [] kind \in {"*", "/"} -> 5
      [] OTHER -> 0

parseExprOrStar ==
    IF Kind = "*" THEN <<Match("*"), Push(SelectStar)>> ELSE <<Expr>>

parseBinaryExpr(min) == <<Call("unaryExpr"), Operators(min)>>

(* A faulty parseOperators, of which operators associate to the right. *)
parseOperatorsRight(min) ==
    IF Precedence(Kind) < min THEN <<>>
    ELSE <<Match(Kind), Binary(Precedence(Kind)),
           Make(BinaryExpr(Kind, "lhs", "rhs"), 2), Operators(min)>>

(* The right operand holds tighter operators only: they associate to the left. *)
parseOperators(min) ==
    IF Precedence(Kind) < min THEN <<>>
    ELSE <<Match(Kind), Binary(Precedence(Kind) + 1),
           Make(BinaryExpr(Kind, "lhs", "rhs"), 2), Operators(min)>>

(* A sign takes a whole expression as its operand. *)
parseUnaryExpr ==
    CASE Kind = "(" -> <<Match("("), Expr, Match(")")>>
      [] Kind = "Ident" -> <<Match("Ident"), Call("arguments")>>
      [] Kind \in {"+", "-"} ->
            <<Match(Kind), Expr, Make(UnaryExpr(Kind, "expr"), 1)>>
      [] Kind \in {"NumberLiteral", "StringLiteral"} -> <<Match(Kind)>>
      [] Kind = "TRUE" -> <<Match("TRUE"), Push(Literal(BooleanValue(TRUE)))>>
      [] Kind = "FALSE" -> <<Match("FALSE"), Push(Literal(BooleanValue(FALSE)))>>
      [] Kind = "NULL" -> <<Match("NULL"), Push(Literal(Null))>>
      [] OTHER -> Expected

(* An identifier that a parenthesis follows is the name of a function. *)
parseArguments ==
    IF Kind = "("
    THEN <<Match("(")>> \o ListOf(Call("exprOrStar"))
            \o <<Match(")"), Make(Part("call"), 2)>>
    ELSE <<>>

(* What a step comes to that is not done at once. *)
Steps(step) ==
    CASE step.do = "binary" -> parseBinaryExpr(step.min)
      [] step.do = "operators" -> parseOperators(step.min)
      [] step.do = "more" ->
            IF Kind = ","
            THEN <<Match(","), step.item, Make(Part("list"), 2), step>> ELSE <<>>
      [] step.do = "call" ->
            CASE step.method = "stmt" -> parseStmt
              [] step.method = "columnDefinition" -> parseColumnDefinition
              [] step.method = "dataType" -> parseDataType
              [] step.method = "nullable" -> parseNullable
              [] step.method = "where" -> parseWhere
              [] step.method = "insertColumns" -> parseInsertColumns
              [] step.method = "setClause" -> parseSetClause
              [] step.method = "assignment" -> parseAssignment
              [] step.method = "exprOrStar" -> parseExprOrStar
              [] step.method = "unaryExpr" -> parseUnaryExpr
              [] step.method = "arguments" -> parseArguments

-----------------------------------------------------------------------------
(* Nodes. *)

(* An integer that leaves its range is clamped: ParseInt returns the       *)
(* greatest one with its error, which is dropped.                          *)
parseNumberLiteral(lit) ==
    CASE ~lit.digits -> NumberValue(lit.val)
      [] lit.digits /\ lit.val <= MaxInt -> IntegerValue(lit.val)
      [] OTHER -> IntegerValue(MaxInt)

(* What a token leaves behind: an identifier, a literal or nothing. *)
Leaf(token) ==
    CASE token.kind = "Ident" -> <<Ident(token.lit)>>
      [] token.kind = "NumberLiteral" -> <<Literal(parseNumberLiteral(token.lit))>>
      [] token.kind = "StringLiteral" -> <<Literal(StringValue(token.lit))>>
      [] OTHER -> <<>>

(* A faulty Targets, which gathers the columns in a set. *)
TargetsOnce(assignments) ==
    SetToSeq({assignments[k].column : k \in DOMAIN assignments})

(* The columns of a SET clause; its values are Assigned. *)
Targets(assignments) == [k \in DOMAIN assignments |-> assignments[k].column]
Assigned(assignments) == [k \in DOMAIN assignments |-> assignments[k].value]

NamesOf(idents) == [k \in DOMAIN idents |-> idents[k].name]

(* The node of the parts v, a statement as Database evaluates it. *)
Node(part, v) ==
    CASE part.node = "list" -> Append(v[1], v[2])
      [] part.node = "column" -> [name |-> v[1].name, type |-> v[2], nullable |-> v[3]]
      [] part.node = "assignment" -> [column |-> v[1].name, value |-> v[2]]
      [] part.node = "call" -> FunctionCall(v[1].name, v[2])
      [] part.node = "UnaryExpr" -> UnaryExpr(part.op, v[1])
      [] part.node = "BinaryExpr" -> BinaryExpr(part.op, v[1], v[2])
      [] part.node = "create" ->
            [kind |-> "create", table |-> v[1].name, columns |-> v[2]]
      [] part.node = "select" ->
            [kind |-> "select", table |-> v[2].name, exprs |-> v[1], where |-> v[3]]
      [] part.node = "insert" ->
            [kind |-> "insert", table |-> v[1].name, columns |-> NamesOf(v[2]),
             values |-> v[3]]
      [] part.node = "update" ->
            [kind |-> "update", table |-> v[1].name, columns |-> Targets(v[2]),
             values |-> Assigned(v[2]), where |-> v[3]]
      [] part.node = "delete" ->
            [kind |-> "delete", table |-> v[1].name, where |-> v[2]]

-----------------------------------------------------------------------------
(* The steps are taken. *)

(* Parse looks at the first token.  It takes a first Scan that fails for   *)
(* the end of the input, whether or not the lexer is in an error.          *)
ParseInput ==
    /\ pos = 0
    /\ pos' = 1
    /\ outcome' = CASE input[1].kind \in {"end", "error"} -> Returned(<<>>)
                     [] input[1].kind = "panic" -> Failed("panic")
                     [] OTHER -> Pending
    /\ UNCHANGED <<input, todo, built>>

Parsing == outcome = Pending /\ pos > 0
Doing(kinds) == Parsing /\ todo # <<>> /\ Head(todo).do \in kinds

(* A faulty parseStmtList, which waits for what begins a statement. *)
parseStmtListWaiting ==
    /\ Parsing /\ todo = <<>>
    /\ IF Kind = "end"
       THEN outcome' = Returned(built) /\ UNCHANGED todo
       ELSE /\ todo' = IF parseStmt = Expected THEN todo
                       ELSE <<Call("stmt"), Match(";")>>
            /\ UNCHANGED outcome
    /\ UNCHANGED <<input, pos, built>>

(* A faulty parseStmtList, which ends the list where no statement begins. *)
parseStmtListAtOther ==
    /\ Parsing /\ todo = <<>>
    /\ IF parseStmt = Expected
       THEN outcome' = Returned(built) /\ UNCHANGED todo
       ELSE todo' = <<Call("stmt"), Match(";")>> /\ UNCHANGED outcome
    /\ UNCHANGED <<input, pos, built>>

parseStmtList ==
    /\ Parsing /\ todo = <<>>
    /\ IF Kind = "end"
       THEN outcome' = Returned(built) /\ UNCHANGED todo
       ELSE todo' = <<Call("stmt"), Match(";")>> /\ UNCHANGED outcome
    /\ UNCHANGED <<input, pos, built>>

(* A method is called, or goes round its loop. *)
CallMethod ==
    /\ Doing({"call", "binary", "operators", "more"})
    /\ todo' = Steps(Head(todo)) \o Tail(todo)
    /\ UNCHANGED <<input, pos, built, outcome>>

MakeNode ==
    /\ Doing({"make", "push"})
    /\ LET step == Head(todo)
           size == IF step.do = "make" THEN step.size ELSE 0
           kept == Len(built) - size
           node == IF step.do = "push" THEN step.value
                   ELSE Node(step.part, SubSeq(built, kept + 1, Len(built)))
       IN  built' = Append(SubSeq(built, 1, kept), node)
    /\ todo' = Tail(todo)
    /\ UNCHANGED <<input, pos, outcome>>

(* match and skip: next has the lexer scan ahead, and panics with its      *)
(* error, which Parse recovers; what the lexer itself panics with is not   *)
(* an error, and Parse panics with it again.                               *)
MatchToken ==
    /\ Doing({"match"})
    /\ Kind = Head(todo).kind
    /\ pos' = pos + 1
    /\ built' = built \o Leaf(input[pos])
    /\ todo' = Tail(todo)
    /\ outcome' = CASE input[pos + 1].kind = "error" -> Failed("lexer error")
                     [] input[pos + 1].kind = "panic" -> Failed("panic")
                     [] OTHER -> outcome
    /\ UNCHANGED input

(* match finds another token and calls expected, as parseStmt does. *)
NoMatch ==
    /\ Doing({"match"})
    /\ Kind # Head(todo).kind
    /\ outcome' = Failed("parser error")
    /\ UNCHANGED <<input, pos, todo, built>>

Next == ParseInput \/ parseStmtList \/ CallMethod \/ MakeNode \/ MatchToken \/ NoMatch

(* The parser is one sequential goroutine that waits for nothing. *)
Spec == Init /\ [][Next]_vars /\ WF_vars(Next)

-----------------------------------------------------------------------------
(* What the evaluator takes for granted of a statement holds of every one  *)
(* that the parser returns: it checks no widths of its own in an UPDATE.   *)
StmtsAreOK ==
    \A n \in DOMAIN outcome.nodes : StmtOK(outcome.nodes[n], STRING, STRING)

(* What Parse returns without an error is all of its input: it has read    *)
(* every token, and has made one statement of what is before each          *)
(* semicolon, however the statements and their parts are nested.           *)
AllIsRead ==
    outcome.status = "ok" =>
        /\ pos = Len(input)
        /\ Len(outcome.nodes) = Cardinality({i \in DOMAIN input : input[i].kind = ";"})

=============================================================================
