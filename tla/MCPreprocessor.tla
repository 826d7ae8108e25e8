--------------------------- MODULE MCPreprocessor ---------------------------
EXTENDS Preprocessor

(***************************************************************************)
(* Programs of three constructions around one instruction.  Afterwards the *)
(* variable of each construction is shown, and at the end that of all.     *)
(***************************************************************************)
InMain(p, main) == [p EXCEPT !.main = main]
X(value) == Test("x", value)
LocalName(p) == <<"L1", "L2", "L3">>[Len(p.library) + 1]

Around(kind, p) ==
  LET body == p.main
      Sx == <<Show("x")>>
  IN CASE kind = "then" -> InMain(p, <<If(<<X(1)>>, <<body>>, Sx)>>)
       [] kind = "else" -> InMain(p, <<If(<<X(2)>>, <<Sx>>, body)>>)
       [] kind = "elseif" -> InMain(p, <<If(<<X(3), X(1)>>, <<Sx, body>>, Sx)>>)
       [] kind = "skip" -> InMain(p, <<If(<<X(9)>>, <<body>>, <<>>)>> \o Sx)
       [] kind = "case" ->
            InMain(p, <<Switch("x", <<1, 2>>, <<body \o <<Break>> \o Sx, Sx>>, Sx)>>)
       [] kind = "through" -> InMain(p, <<Switch("x", <<2, 1, 3>>, <<Sx, Sx, body>>, Sx)>>)
       [] kind = "default" -> InMain(p, <<Switch("x", <<9>>, <<body>>, Sx)>>)
       [] kind = "count" -> InMain(p, <<Do("i", 1, 2, 1, body \o <<Show("i")>>)>>)
       [] kind = "list" -> InMain(p, <<DoList("j", <<5, 6>>, body \o <<Show("j")>>)>>)
       [] kind = "include" -> InMain(p, <<Include(body)>> \o Sx)
       [] kind = "call" ->
            [main |-> <<Call(LocalName(p), <<7>>)>> \o Sx,
             library |-> Append(p.library, Procedure(LocalName(p), <<"a">>, body \o <<Show("a")>>))]

Kinds == {"then", "else", "elseif", "skip", "case", "through", "default", "count", "list",
          "include", "call"}

Inner ==
  {<<Show("i")>>, <<BreakDo(1)>>, <<BreakDo(2)>>, <<ContinueDo>>,
   <<Raise("i", 1)>>, <<Redefine("i", Word)>>, <<Define("j", 8), Define("y", 3)>>,
   <<Redefine("x", 2)>>, <<Call("P", <<4>>)>>, <<Call("P", <<>>)>>,
   <<Procedure("R", <<>>, <<Show("x")>>), Call("R", <<>>)>>,
   <<If(<<Test("i", 1)>>, <<<<BreakDo(1)>>>>, <<>>)>>,
   <<If(<<IfDef("i")>>, <<<<ContinueDo>>>>, <<Show("x")>>)>>,
   <<Do("k", 2, 0, -1, <<If(<<Test("k", 1)>>, <<<<BreakDo(2)>>>>, <<Show("k")>>)>>)>>,
   <<Do("k", 1, 0, 1, <<Show("k")>>), DoList("k", <<1>>, <<Show("k")>>)>>}

\* #continuedo closes the stream it is read from, so only programs in which
\* that is the stream of its loop are taken.
RECURSIVE ContinuesInItsLoop(_, _)
ContinuesInItsLoop(nodes, inLoop) ==
  \A i \in DOMAIN nodes :
    LET n == nodes[i]
    IN CASE n.op = "continuedo" -> inLoop
         [] n.op = "do" -> ContinuesInItsLoop(n.body, TRUE)
         [] n.op \in {"include", "procedure"} -> ContinuesInItsLoop(n.body, FALSE)
         [] n.op = "if" -> /\ \A j \in DOMAIN n.bodies : ContinuesInItsLoop(n.bodies[j], inLoop)
                           /\ ContinuesInItsLoop(n.otherwise, inLoop)
         [] n.op = "switch" -> /\ \A j \in DOMAIN n.bodies : ContinuesInItsLoop(n.bodies[j], inLoop)
                               /\ ContinuesInItsLoop(n.default, inLoop)
         [] OTHER -> TRUE
Sound(p) == ContinuesInItsLoop(p.main, FALSE) /\ ContinuesInItsLoop(p.library, FALSE)

Begin == <<Define("x", 1), Procedure("P", <<"b">>, <<Show("b"), Redefine("x", 2)>>)>>
Built ==
  {LET p == Around(k1, Around(k2, Around(k3, [main |-> inner, library |-> <<>>])))
   IN [p EXCEPT !.main = Begin \o @ \o <<Show("x")>>] :
     k1, k2, k3 \in Kinds, inner \in Inner}

(***************************************************************************)
(* Single programs: a procedure that calls itself, one that begins again   *)
(* with a loop, and those that have no meaning, by a line that is not in   *)
(* its place or a construction that does not end.                          *)
(***************************************************************************)
Misfit(op) == Stray([op |-> op])
Recursive ==
  <<Define("x", 1),
    Procedure("P", <<"b">>,
      <<If(<<Test("x", 1)>>,
           <<<<Redefine("x", 2), Procedure("Q", <<>>, <<Show("b")>>), Call("P", <<5>>), Call("Q", <<>>)>>>>,
           <<Show("b")>>)>>),
    Call("P", <<4>>), Undefine("x"), If(<<IfDef("x")>>, <<<<Show("x")>>>>, <<Call("P", <<1, 2>>)>>)>>
Round(body) == Do("i", 1, 2, 1, body)
Alone ==
  {<<ContinueDo>>, <<Misfit("endif")>>, <<Misfit("else")>>, <<Misfit("enddo")>>,
   <<Misfit("endprocedure")>>, <<Break>>, <<Misfit("endswitch")>>, <<Misfit("default")>>,
   <<Round(<<Misfit("endif")>>)>>,                          \* #if #do #endif #enddo
   <<If(<<X(1)>>, <<<<Misfit("endswitch")>>>>, <<>>)>>,
   <<Switch("x", <<1>>, <<<<If(<<X(1)>>, <<<<Break>>>>, <<>>)>>>>, <<>>)>>,
   <<Round(<<Procedure("R", <<>>, <<>>)>>)>>,              \* defined twice
   <<Round(<<Call("Q", <<>>)>>)>>,                         \* no such procedure
   <<Stray(Round(<<>>))>>, <<Stray(Procedure("R", <<>>, <<>>))>>}  \* do not end
SinglePrograms ==
  {[main |-> Begin \o main, library |-> <<>>] : main \in Alone} \cup {[main |-> Recursive, library |-> <<>>]}

(***************************************************************************)
(* Conditions of up to four objects, and of three comparisons, with both   *)
(* kinds of parentheses; a name may be unknown.                            *)
(***************************************************************************)
Sequences(S, n) == [1..n -> S]
Ops == {"||", "&&", "==", "!=", ">", "<="}
Yes == Condition(<<Number(1), Number(1)>>, <<"==">>)
No == Condition(<<Number(1), Name("x")>>, <<"!=">>)
Objects == {Number(0), Number(1), Number(2), Number(Word), Name("x"), Name("u"), Yes, No,
            IsDefined("x"), IsDefined("u")}
Conditions ==
  {Condition(<<o>>, <<>>) : o \in Objects}
  \cup {Condition(os, ops) : os \in Sequences(Objects, 2), ops \in Sequences(Ops \cup {"<", ">="}, 1)}
  \cup {Condition(os, ops) : os \in Sequences({Number(1), Number(2), Yes, No}, 3), ops \in Sequences(Ops, 2)}
  \cup {Condition(os, ops) : os \in Sequences({Number(1), Number(2), Yes}, 4),
                             ops \in Sequences({"||", "&&", "==", ">"}, 3)}
  \cup {Condition([i \in 1..6 |-> Number(vs[i])], <<c1, j1, c2, j2, c3>>) :
           vs \in Sequences({1, 2}, 6), c1, c2, c3 \in {"==", ">"}, j1, j2 \in {"||", "&&"}}
ConditionPrograms ==
  {[main |-> <<Define("x", 2), If(<<c, X(2)>>, <<<<Show("x")>>, <<>>>>, <<>>)>>, library |-> <<>>] :
     c \in Conditions}

StructuredPrograms == {p \in Built : Sound(p)} \cup SinglePrograms \cup ConditionPrograms
=============================================================================
