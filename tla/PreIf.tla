------------------------------- MODULE PreIf -------------------------------
(***************************************************************************)
(* The condition of #if (pre.c, PreIfEval).  It is read once, object by    *)
(* object; what is to the left of an operator waits at the level of the    *)
(* operator (or, and, equality, comparison) until one that binds less      *)
(* comes by.  A condition is a record of its objects and of the operators  *)
(* between them; the closing parenthesis comes after the last.             *)
(***************************************************************************)
EXTENDS PreMeaning, Bitwise

Off == [type |-> "off"]
Strings(x, y) == x.type = "string" \/ y.type = "string"
PreCmp(x, op, y) ==
  LET a == IF Strings(x, y) THEN x.text ELSE x.val
      b == IF Strings(x, y) THEN y.text ELSE y.val
  IN Truth(CASE op = ">" -> a > b [] op = ">=" -> a >= b
             [] op = "<" -> a < b [] op = "<=" -> a <= b)
PreEq(x, op, y) ==
  Truth((op = "!=") # (IF Strings(x, y) THEN x.text = y.text ELSE x.val = y.val))

(***************************************************************************)
(* What waits at a level and the object x after it become one object.      *)
(***************************************************************************)
EndCmp(e, x) ==
  IF e.cmp = Off THEN x
  ELSE IF "logical" \in {x.type, e.cmp.type} THEN Illegal
  ELSE PreCmp(e.cmp, e.cmpop, x)

EndEq(e, x) ==
  IF e.eq = Off \/ x = Illegal THEN x ELSE PreEq(e.eq, e.eqop, x)

Bits(x, y, val) == IF {x.type, y.type} = {"logical"} THEN Logical(val) ELSE Illegal
EndAnd(e, x) ==
  IF e.and = Off \/ x = Illegal THEN x ELSE Bits(e.and, x, e.and.val & x.val)
EndOr(e, x) ==
  IF e.or = Off \/ x = Illegal THEN x ELSE Bits(e.or, x, e.or.val | x.val)

Levels == [or |-> Off, and |-> Off, eq |-> Off, eqop |-> "", cmp |-> Off, cmpop |-> "",
           value |-> Off]

\* One turn of the loop: the object x and the operator after it.
Turn(e, x, op) ==
  LET compared == EndCmp(e, x)
      equated == EndEq(e, compared)
      joined == EndAnd(e, equated)
      all == EndOr(e, joined)
      Waits(y, f) == IF y = Illegal THEN [e EXCEPT !.value = Illegal] ELSE f
  IN CASE e.value = Illegal -> e
       [] op = ")" -> [e EXCEPT !.value = all]
       [] op = "||" -> Waits(all, [Levels EXCEPT !.or = all])
       [] op = "&&" -> Waits(joined, [e EXCEPT !.eq = Off, !.cmp = Off, !.and = joined])
       [] op \in {"==", "!="} ->
            Waits(IF e.eq # Off THEN Illegal ELSE compared,
                  [e EXCEPT !.cmp = Off, !.eq = compared, !.eqop = op])
       [] op \in {">", ">=", "<", "<="} ->
            Waits(IF e.cmp # Off THEN Illegal ELSE x, [e EXCEPT !.cmp = x, !.cmpop = op])

RECURSIVE PreIfEval(_, _)
pParseObject(o, vars) ==
  IF o.is = "condition" THEN
    LET inside == PreIfEval(o, vars)
    IN IF inside = Illegal THEN Illegal ELSE Logical(inside.val)
  ELSE SimpleObject(o, vars)

PreIfEval(condition, vars) ==
  LET n == Len(condition.objects)
      Round(e, i) == LET x == pParseObject(condition.objects[i], vars)
                     IN IF x = Illegal THEN [e EXCEPT !.value = Illegal]
                        ELSE Turn(e, x, IF i = n THEN ")" ELSE condition.ops[i])
  IN FoldLeft(Round, Levels, [i \in 1..n |-> i]).value
=============================================================================
