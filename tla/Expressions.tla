---------------------------- MODULE Expressions ----------------------------
(***************************************************************************)
(* The expressions of @, IF, WHILE and ${}: next_unit() of alias.c, which  *)
(* evaluates a text by looking, one level of precedence after another, for *)
(* an operator of that level to split it at.                               *)
(*                                                                         *)
(* A text is a sequence of tokens: an operand, or one character of an      *)
(* operator.  There are no spaces; functions, [..], # and @ in front of a  *)
(* name are left out, and so are ? : & | ^ ~, whose levels lie past the    *)
(* last one that next_unit() comes to.                                     *)
(***************************************************************************)
EXTENDS Integers, Sequences, FiniteSetsExt

CONSTANTS
    Initial,           \* what the variables hold at first, a set of functions
    Trees,             \* the expressions that are evaluated
    MaxEvaluations     \* bound: expressions evaluated

Names == {"A", "B"}
Numerals == {"0", "1", "2", "3"}
OperatorChars == {"!", "=", "<", ">", "&", "^", "|", "#", "+", "/", "-", "*"}
SplitChars == (OperatorChars \ {"!"}) \cup {"%", ","}

\* A text by what the operators tell of it: a number, or a word that begins with one or not.
Number(i) == [word |-> FALSE, n |-> i]
AWord == [word |-> TRUE, n |-> 0]
ReadsAs(t) == CASE t = "0" -> 0 [] t = "1" -> 1 [] t = "2" -> 2 [] OTHER -> 3

ASSUME ExpressionsAssumption == MaxEvaluations \in Nat

VARIABLES
    holding,              \* alias_list[VAR_ALIAS]: what the variables hold
    before,            \* what they held before the last evaluation
    written,           \* the last expression evaluated, as a tree
    text,              \* as it was written
    value,             \* what it came to
    evaluations

expressionsVars == <<holding, before, written, text, value, evaluations>>

Value == [word: BOOLEAN, n: Int]

ExpressionsTypeOK ==
    /\ holding \in [Names -> Value] /\ before \in [Names -> Value]
    /\ value \in Value
    /\ evaluations \in 0 .. MaxEvaluations

----------------------------------------------------------------------------
(* What the operators do with two texts.                                   *)

\* isdigit() of the first character.
IsDigit(u) == ~u.word /\ u.n >= 0
Magnitude(i) == IF i < 0 THEN -i ELSE i
Sign(i) == IF i < 0 THEN -1 ELSE 1
Quotient(i, j) == Sign(i) * Sign(j) * (Magnitude(i) \div Magnitude(j))
Truth(b) == Number(IF b THEN 1 ELSE 0)

\* The digits of a number below a hundred, and their order as text.
Digits(i) == IF i < 10 THEN <<i, -1>> ELSE <<i \div 10, i % 10>>
DigitsLess(i, j) == \/ Digits(i)[1] < Digits(j)[1]
                    \/ Digits(i)[1] = Digits(j)[1] /\ Digits(i)[2] < Digits(j)[2]

\* my_stricmp(): a minus comes before the digits, and those before letters.
TextLess(u, v) ==
    CASE u.word -> FALSE
      [] ~u.word /\ v.word -> TRUE
      [] ~u.word /\ ~v.word /\ u.n < 0 -> v.n >= 0 \/ DigitsLess(-u.n, -v.n)
      [] OTHER -> v.n >= 0 /\ DigitsLess(u.n, v.n)

\* Numbers are compared as numbers only if both begin with a digit.
Less(u, v) == IF IsDigit(u) /\ IsDigit(v) THEN u.n < v.n ELSE TextLess(u, v)

\* One text after the other; what begins with a number still reads as it.
Concat(u, v) ==
    IF ~u.word /\ IsDigit(v)
    THEN Number(Sign(u.n) * (Magnitude(u.n) * (IF v.n < 10 THEN 10 ELSE 100) + v.n))
    ELSE [word |-> TRUE, n |-> u.n]

Arithmetic(op, u, v) ==
    CASE op = "+" -> Number(u.n + v.n)
      [] op = "-" -> Number(u.n - v.n)
      [] op = "*" -> Number(u.n * v.n)
      [] op = "/" -> Number(IF v.n = 0 THEN 0 ELSE Quotient(u.n, v.n))
      [] OTHER    -> Number(IF v.n = 0 THEN 0 ELSE u.n - v.n * Quotient(u.n, v.n))

Ordered(op, u, v) ==
    CASE op = "<" -> Truth(Less(u, v))   [] op = "<=" -> Truth(u = v \/ Less(u, v))
      [] op = ">" -> Truth(Less(v, u))   [] OTHER     -> Truth(u = v \/ Less(v, u))

Xor(u, v) == Truth((u.n # 0) # (v.n # 0))
Equals(u, v) == Truth(u = v)
NotEqual(u, v) == Truth(u # v)

Applied(op, u, v) ==
    CASE op \in {"+", "-", "*", "/", "%"} -> Arithmetic(op, u, v)
      [] op \in {"<", "<=", ">", ">="} -> Ordered(op, u, v)
      [] op = "##" -> Concat(u, v)
      [] op = "^^" -> Xor(u, v)
      [] op = "==" -> Equals(u, v)
      [] op = "!=" -> NotEqual(u, v)
      [] OTHER -> v                        \* ","

\* "!" of what begins with a digit, and of any other text: nothing of it is empty.
Not(u) == Truth(IsDigit(u) /\ u.n = 0)

----------------------------------------------------------------------------
(* The levels, and the search for an operator.                             *)

Expr == 0                            \* NU_EXPR, NU_CONJ
Assn == 1
Comp == 2
Add == 3
Mult == 4
Unit == 5

CharAt(s, p) == IF p \in DOMAIN s THEN s[p] ELSE "none"
Doubled(s, p) == CharAt(s, p + 1) = s[p]

\* The operator that begins at a character, and the level that splits at it.
OperatorAt(s, p) ==
    CASE s[p] \in {"&", "|", "^", "#"} /\ Doubled(s, p) -> s[p] \o s[p]
      [] s[p] = "=" /\ Doubled(s, p) -> "=="
      [] s[p] \in {"<", ">", "!"} /\ CharAt(s, p + 1) = "=" -> s[p] \o "="
      [] OTHER -> s[p]

LevelOf(op) ==
    CASE op \in {",", "&&", "||", "^^"} -> Expr
      [] op = "=" -> Assn
      [] op \in {"==", "!=", "<", "<=", ">", ">="} -> Comp
      [] op \in {"+", "-", "##"} -> Add
      [] op \in {"*", "/", "%"} -> Mult
      [] OTHER -> Unit + 1                 \* no level splits at it

\* A sign or a "!" that begins the text is none of these.
Splits(s, p, stage) ==
    /\ s[p] \in SplitChars \cup {"!"}
    /\ LevelOf(OperatorAt(s, p)) = stage
    /\ ~(p = 1 /\ s[p] \in {"+", "-", "!", ","})

RECURSIVE MatchingBracket(_, _, _)
MatchingBracket(s, p, depth) ==
    CASE p > Len(s) -> Len(s)
      [] p <= Len(s) /\ s[p] = "(" -> MatchingBracket(s, p + 1, depth + 1)
      [] p <= Len(s) /\ s[p] = ")" -> IF depth = 1 THEN p ELSE MatchingBracket(s, p + 1, depth - 1)
      [] OTHER -> MatchingBracket(s, p + 1, depth)

\* lastop(): the last character of the operators that stand together here.
LastOpNot(s, p) == p                       \* Mutant: only the first is passed

RECURSIVE LastOp(_, _)
LastOp(s, p) == IF CharAt(s, p + 1) \in OperatorChars THEN LastOp(s, p + 1) ELSE p

\* Where the search goes on after a character it does not split at.
Passed(s, p) ==
    CASE s[p] = "(" -> MatchingBracket(s, p + 1, 1)
      [] p = 1 /\ s[p] \in {"+", "-", "!", ","} -> p
      [] s[p] \in OperatorChars \cup SplitChars /\ ~(p = 1 /\ s[p] \in {"+", "-", "!", ","}) ->
            LastOp(s, p)
      [] OTHER -> p

IsStep(s, p) == s[p] \in {"+", "-"} /\ Doubled(s, p)

RECURSIVE FirstAt(_, _, _)
FirstAt(s, p, stage) ==
    IF p > Len(s) THEN 0
    ELSE IF IsStep(s, p) \/ Splits(s, p, stage) THEN p
    ELSE FirstAt(s, Passed(s, p) + 1, stage)

----------------------------------------------------------------------------
(* Variables.                                                              *)

\* find_alias(), of the variables.
Known(s) == Len(s) = 1 /\ s[1] \in Names

\* find_inline(): a name that is not set comes to nothing, which reads as a word does.
FindInline(vars, s) == IF Known(s) THEN vars[s[1]] ELSE AWord

\* add_alias(): a name with other characters in it is refused.
AddAlias(vars, s, v) == IF Known(s) THEN [vars EXCEPT ![s[1]] = v] ELSE vars

ResultOf(vars, v) == [vars |-> vars, value |-> v]

\* ++ and --, of all that comes before or after; the text is then written over: a prefix is
\* blanked, and a postfix takes back what was added.
Stepped(s, p, vars) ==
    LET operand == IF p = 1 THEN SubSeq(s, 3, Len(s)) ELSE SubSeq(s, 1, p - 1)
        v == Number(FindInline(vars, operand).n + (IF s[p] = "+" THEN 1 ELSE -1)) IN
    [vars |-> AddAlias(vars, operand, v),
     text |-> IF p = 1 THEN SubSeq(s, 3, Len(s))
              ELSE operand \o <<IF s[p] = "+" THEN "-" ELSE "+", "1">> \o SubSeq(s, p + 2, Len(s))]

\* A text with nothing left to split: a number, a name, or a name after a "!".
Operand(s, vars) ==
    IF s[1] \in Numerals \cup {"+", "-"}
    THEN Number(CASE s[1] = "-" /\ CharAt(s, 2) \in Numerals -> -ReadsAs(s[2])
                  [] s[1] \in Numerals -> ReadsAs(s[1])
                  [] OTHER -> 0)
    ELSE FindInline(vars, s)

RECURSIVE NextUnit(_, _, _)

\* The value is found first, and then given the name.
Assigned(left, right, vars) ==
    LET r == NextUnit(right, Assn, vars) IN ResultOf(AddAlias(r.vars, left, r.value), r.value)

\* && and || evaluate their right side only if it counts.
ShortCircuit(op, left, right, vars) ==
    LET l == NextUnit(left, Expr, vars) IN
    IF (l.value.n # 0) = (op = "||") THEN ResultOf(l.vars, Truth(op = "||"))
    ELSE LET r == NextUnit(right, Expr, l.vars) IN ResultOf(r.vars, Truth(r.value.n # 0))

\* The others evaluate both sides, the left one first, at the level they are split at.
BothSides(op, left, right, stage, vars) ==
    LET l == NextUnit(left, stage, vars)
        r == NextUnit(right, stage, l.vars) IN
    ResultOf(r.vars, Applied(op, l.value, r.value))

TwoChars == {"&&", "||", "^^", "##", "==", "!=", "<=", ">="}

Split(s, p, stage, vars) ==
    LET op == OperatorAt(s, p)
        left == SubSeq(s, 1, p - 1)
        right == SubSeq(s, p + (IF op \in TwoChars THEN 2 ELSE 1), Len(s)) IN
    CASE op = "=" -> Assigned(left, right, vars)
      [] op \in {"&&", "||"} -> ShortCircuit(op, left, right, vars)
      [] OTHER -> BothSides(op, left, right, stage, vars)

\* next_unit().
NextUnit(s, stage, vars) ==
    LET p == FirstAt(s, 1, stage) IN
    IF s = <<>> THEN ResultOf(vars, AWord)
    ELSE IF stage = Unit /\ s[1] = "(" /\ s[Len(s)] = ")"
    THEN NextUnit(SubSeq(s, 2, Len(s) - 1), Expr, vars)
    ELSE IF p # 0 /\ IsStep(s, p)
    THEN LET t == Stepped(s, p, vars) IN NextUnit(t.text, stage, t.vars)
    ELSE IF p # 0 THEN Split(s, p, stage, vars)
    ELSE IF stage = Unit /\ s[1] = "!"
    THEN LET r == NextUnit(Tail(s), stage, vars) IN ResultOf(r.vars, Not(r.value))
    ELSE IF stage # Unit THEN NextUnit(s, stage + 1, vars)
    ELSE ResultOf(vars, Operand(s, vars))

----------------------------------------------------------------------------
(* Expressions as trees: what the text of one stands for.                  *)

Leaf(t) == <<"leaf", t>>
IsLeaf(tree) == tree[1] = "leaf"
Binary == {"+", "-", "*", "/", "%", "##", "&&", "||", "^^", "==", "!=", "<", "<=", ">", ">=", ","}

Spelled(op) ==
    CASE op = "&&" -> <<"&", "&">> [] op = "||" -> <<"|", "|">> [] op = "^^" -> <<"^", "^">>
      [] op = "==" -> <<"=", "=">> [] op = "!=" -> <<"!", "=">> [] op = "<=" -> <<"<", "=">>
      [] op = ">=" -> <<">", "=">> [] op = "##" -> <<"#", "#">> [] OTHER -> <<op>>

\* Brackets may be left out of what the help page's levels and a grouping from the right give.
Loose(op, side, child) ==
    /\ child[1] \in Binary \cup {"="}
    /\ IF side = "left" THEN LevelOf(child[1]) > LevelOf(op) ELSE LevelOf(child[1]) >= LevelOf(op)

RECURSIVE Printed(_, _)
Part(op, side, child, loose) ==
    IF IsLeaf(child) \/ (loose /\ Loose(op, side, child)) THEN Printed(child, loose)
    ELSE <<"(">> \o Printed(child, loose) \o <<")">>

Printed(tree, loose) ==
    CASE IsLeaf(tree) -> <<tree[2]>>
      [] tree[1] = "!" -> <<"!">> \o Part("!", "right", tree[2], FALSE)
      [] tree[1] \in {"++x", "--x"} -> Spelled(IF tree[1] = "++x" THEN "+" ELSE "-")
                                       \o Spelled(IF tree[1] = "++x" THEN "+" ELSE "-") \o <<tree[2]>>
      [] tree[1] \in {"x++", "x--"} -> <<tree[2]>> \o Spelled(IF tree[1] = "x++" THEN "+" ELSE "-")
                                       \o Spelled(IF tree[1] = "x++" THEN "+" ELSE "-")
      [] tree[1] = "=" -> <<tree[2], "=">> \o Part("=", "right", tree[3], loose)
      [] OTHER -> Part(tree[1], "left", tree[2], loose) \o Spelled(tree[1])
                  \o Part(tree[1], "right", tree[3], loose)

\* What a tree means, as in C: sides from the left, && and || no further than needed.
RECURSIVE Meaning(_, _)
Meaning(tree, vars) ==
    CASE IsLeaf(tree) -> ResultOf(vars, Operand(<<tree[2]>>, vars))
      [] tree[1] = "!" -> LET m == Meaning(tree[2], vars) IN ResultOf(m.vars, Truth(~m.value.word /\ m.value.n = 0))
      [] tree[1] \in {"++x", "--x", "x++", "x--"} ->
            LET old == vars[tree[2]].n
                new == IF tree[1] \in {"++x", "x++"} THEN old + 1 ELSE old - 1 IN
            ResultOf([vars EXCEPT ![tree[2]] = Number(new)],
                   Number(IF tree[1] \in {"++x", "--x"} THEN new ELSE old))
      [] tree[1] = "=" ->
            LET m == Meaning(tree[3], vars) IN
            ResultOf([m.vars EXCEPT ![tree[2]] = m.value], m.value)
      [] OTHER ->
            LET l == Meaning(tree[2], vars)
                true == l.value.word \/ l.value.n # 0 IN
            IF tree[1] = "&&" /\ ~true THEN ResultOf(l.vars, Truth(FALSE))
            ELSE IF tree[1] = "||" /\ true THEN ResultOf(l.vars, Truth(TRUE))
            ELSE LET r == Meaning(tree[3], l.vars) IN
                 ResultOf(r.vars,
                        CASE tree[1] \in {"&&", "||"} -> Truth(r.value.word \/ r.value.n # 0)
                          [] tree[1] = "<" -> Truth(l.value.n < r.value.n)
                          [] tree[1] = "<=" -> Truth(l.value.n <= r.value.n)
                          [] tree[1] = ">" -> Truth(l.value.n > r.value.n)
                          [] tree[1] = ">=" -> Truth(l.value.n >= r.value.n)
                          [] OTHER -> Applied(tree[1], l.value, r.value))

----------------------------------------------------------------------------
(* The behaviour: expressions evaluated one after another.                 *)

ExpressionsInit ==
    /\ holding \in Initial /\ before = holding
    /\ written = Leaf("0") /\ text = <<"0">> /\ value = Number(0)
    /\ evaluations = 0

\* parse_inline().
ParseInline(tree, loose) ==
    /\ evaluations' = evaluations + 1
    /\ written' = tree /\ before' = holding
    /\ \E s \in {Printed(tree, loose)} : \E r \in {NextUnit(s, Expr, holding)} :
          text' = s /\ holding' = r.vars /\ value' = r.value

\* Bound: MaxEvaluations.
ExpressionsNext ==
    /\ evaluations < MaxEvaluations
    /\ \E tree \in Trees, loose \in BOOLEAN : ParseInline(tree, loose)

ExpressionsSpec == ExpressionsInit /\ [][ExpressionsNext]_expressionsVars

----------------------------------------------------------------------------
(* Properties.                                                             *)

\* A comparison with a number below zero is one of texts.
RECURSIVE NegativeCompared(_, _)
NegativeCompared(tree, vars) ==
    /\ tree[1] \in Binary \cup {"!", "="}
    /\ \/ tree[1] \in {"!", "="} /\ NegativeCompared(tree[Len(tree)], vars)
       \/ /\ tree[1] \in Binary
          /\ LET l == Meaning(tree[2], vars)
                 r == Meaning(tree[3], l.vars) IN
             \/ NegativeCompared(tree[2], vars)
             \/ NegativeCompared(tree[3], l.vars)
             \/ tree[1] \in {"<", "<=", ">", ">="} /\ (l.value.n < 0 \/ r.value.n < 0)

WordCompared(vars) == \E x \in Names : vars[x].word

\* An expression of numbers comes to what it means, and leaves the variables as it should,
\* with brackets around every part or with none where the levels of help/expressions, and a
\* grouping from the right, make them needless; no comparison is of a number below zero
\* (next_unit(), lastop()).
ValueAsMeant ==
    (~WordCompared(before) /\ ~NegativeCompared(written, before)) =>
       [vars |-> holding, value |-> value] = Meaning(written, before)

\* Not so: "E || (A > 3) is true, because E has a non empty value" (help/expressions:85).
TextIsTrue ==
    (written[1] = "||" /\ IsLeaf(written[2]) /\ IsLeaf(written[3])) =>
       [vars |-> holding, value |-> value] = Meaning(written, before)
=============================================================================
