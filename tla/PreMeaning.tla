----------------------------- MODULE PreMeaning -----------------------------
(***************************************************************************)
(* What a program of preprocessor instructions means, by its structure:    *)
(* a program is a tree of instructions, Text gives its lines and Meaning   *)
(* what is executed, without levels, modes and streams.  The module        *)
(* Preprocessor reads the lines.                                           *)
(*                                                                         *)
(* Values are numbers; Word stands for a value that is not a number.       *)
(***************************************************************************)
EXTENDS Integers, FiniteSetsExt, SequencesExt

Word == 1000

(***************************************************************************)
(* Instructions.                                                           *)
(***************************************************************************)
Show(name) == [op |-> "statement", name |-> name, raise |-> 0]   \* a statement with `name'
Raise(name, by) == [op |-> "statement", name |-> name, raise |-> by] \* `name++' or `name--'
Define(name, value) == [op |-> "define", name |-> name, value |-> value]
Redefine(name, value) == [op |-> "redefine", name |-> name, value |-> value]
Undefine(name) == [op |-> "undefine", name |-> name]
Number(value) == [is |-> "number", value |-> value]
Name(name) == [is |-> "name", name |-> name]        \* `name' in a condition
IsDefined(name) == [is |-> "isdefined", name |-> name]
Condition(objects, ops) == [is |-> "condition", objects |-> objects, ops |-> ops]
Test(name, value) == Condition(<<Name(name), Number(value)>>, <<"==">>)
IfDef(name) == [is |-> "ifdef", name |-> name]
If(tests, bodies, otherwise) ==
  [op |-> "if", tests |-> tests, bodies |-> bodies, otherwise |-> otherwise]
Switch(name, values, bodies, default) ==
  [op |-> "switch", name |-> name, values |-> values, bodies |-> bodies, default |-> default]
Break == [op |-> "break"]
Do(name, from, to, by, body) ==
  [op |-> "do", name |-> name, type |-> "NUMERICALLOOP", values |-> <<>>,
   firstnum |-> from, lastnum |-> to, incnum |-> by, body |-> body]
DoList(name, values, body) ==
  [op |-> "do", name |-> name, type |-> "LISTEDLOOP", values |-> values,
   firstnum |-> 0, lastnum |-> Len(values), incnum |-> 1, body |-> body]
BreakDo(levels) == [op |-> "breakdo", levels |-> levels]
ContinueDo == [op |-> "continuedo"]
Procedure(name, args, body) ==
  [op |-> "procedure", name |-> name, args |-> args, body |-> body]
Call(name, values) == [op |-> "call", name |-> name, values |-> values]
Include(body) == [op |-> "include", body |-> body]
Stray(line) == [op |-> "stray", line |-> line]      \* a line that is not in its place

(***************************************************************************)
(* The lines of a program.                                                 *)
(***************************************************************************)
Line(op) == <<[op |-> op]>>

RECURSIVE Text(_)
Text(nodes) ==
  LET Clause(line, body) == <<line>> \o Text(body)
      Optional(op, body) == IF body = <<>> THEN <<>> ELSE Line(op) \o Text(body)
      LinesOf(n) ==
        CASE n.op = "if" ->
               FlattenSeq([i \in DOMAIN n.tests |->
                  Clause([op |-> IF i = 1 THEN "if" ELSE "elseif", test |-> n.tests[i]],
                         n.bodies[i])])
               \o Optional("else", n.otherwise) \o Line("endif")
          [] n.op = "switch" ->
               <<[op |-> "switch", name |-> n.name]>>
               \o FlattenSeq([i \in DOMAIN n.values |->
                     Clause([op |-> "case", value |-> n.values[i]], n.bodies[i])])
               \o Optional("default", n.default) \o Line("endswitch")
          [] n.op = "do" -> Clause([n EXCEPT !.body = <<>>], n.body) \o Line("enddo")
          [] n.op = "procedure" -> Clause([n EXCEPT !.body = <<>>], n.body) \o Line("endprocedure")
          [] n.op = "include" -> <<[op |-> "include", text |-> Text(n.body)]>>
          [] n.op = "stray" -> <<n.line>>
          [] OTHER -> <<n>>
  IN FlattenSeq([i \in DOMAIN nodes |-> LinesOf(nodes[i])])

(***************************************************************************)
(* Names.  The latest definition of a name counts.                         *)
(***************************************************************************)
LatestOf(list, name) == Max({i \in DOMAIN list : list[i].name = name} \cup {0})
Known(list, name) == LatestOf(list, name) # 0
ValueOf(vars, name) == vars[LatestOf(vars, name)].value
Added(vars, name, value) == Append(vars, [name |-> name, value |-> value])
Assigned(vars, name, value) ==
  IF Known(vars, name) THEN [vars EXCEPT ![LatestOf(vars, name)].value = value]
  ELSE Added(vars, name, value)
Raised(vars, name, by) ==
  IF by = 0 \/ ValueOf(vars, name) = Word THEN vars
  ELSE Assigned(vars, name, ValueOf(vars, name) + by)
Forgotten(vars, name) ==
  IF Known(vars, name) THEN RemoveAt(vars, LatestOf(vars, name)) ELSE vars

(***************************************************************************)
(* The value of a condition, by its grammar: of the operators in it those  *)
(* that bind least are looked at first.  An object is a number, a string   *)
(* or the logical value of a condition; the latter cannot be compared by   *)
(* size, and nothing else can be joined by && and ||.                      *)
(***************************************************************************)
Logical(val) == [type |-> "logical", val |-> val, text |-> val]
Truth(holds) == Logical(IF holds THEN 1 ELSE 0)
Illegal == [type |-> "illegal"]

\* A string alone is false; as texts numbers and words are ordered as here.
TextOf(value) == IF value = Word THEN [type |-> "string", val |-> 0, text |-> Word]
                 ELSE [type |-> "number", val |-> value, text |-> value]
SimpleObject(o, vars) ==
  CASE o.is = "number" -> TextOf(o.value)
    [] o.is = "name" -> TextOf(ValueOf(vars, o.name))
    [] o.is = "isdefined" -> [Truth(Known(vars, o.name)) EXCEPT !.type = "function"]

RECURSIVE NamesIn(_)
NamesIn(test) ==
  CASE test.is = "name" -> {test.name}
    [] test.is = "condition" -> UNION {NamesIn(o) : o \in ToSet(test.objects)}
    [] OTHER -> {}

Ranks == <<{"||"}, {"&&"}, {"==", "!="}, {">", ">=", "<", "<="}>>
Pieces(c, ops) ==
  LET cuts == SetToSortSeq({i \in DOMAIN c.ops : c.ops[i] \in ops}, <)
      first(k) == IF k = 1 THEN 1 ELSE cuts[k - 1] + 1
      last(k) == IF k > Len(cuts) THEN Len(c.objects) ELSE cuts[k]
  IN [k \in 1..Len(cuts) + 1 |-> Condition(SubSeq(c.objects, first(k), last(k)),
                                           SubSeq(c.ops, first(k), last(k) - 1))]
Relates(op, a, b) ==
  CASE op = "==" -> a = b [] op = "!=" -> a # b [] op = ">" -> a > b
    [] op = ">=" -> a >= b [] op = "<" -> a < b [] op = "<=" -> a <= b

\* The values of the pieces between operators of the same rank.
Joined(ops, op, values) ==
  LET types == {values[k].type : k \in DOMAIN values}
      true == {k \in DOMAIN values : values[k].val # 0}
      Key(v) == IF "string" \in types THEN v.text ELSE v.val
  IN IF \/ "illegal" \in types
        \/ ops \in {Ranks[1], Ranks[2]} /\ types # {"logical"}
        \/ ops \in {Ranks[3], Ranks[4]} /\ Len(values) > 2
        \/ ops = Ranks[4] /\ "logical" \in types
     THEN Illegal
     ELSE Truth(CASE ops = Ranks[1] -> true # {}
                  [] ops = Ranks[2] -> true = DOMAIN values
                  [] OTHER -> Relates(op, Key(values[1]), Key(values[2])))
Inside(v) == IF v = Illegal THEN v ELSE Logical(v.val)
Several(values, ops, op) == IF Len(values) = 1 THEN values[1] ELSE Joined(ops, op, values)

RECURSIVE Value(_, _, _)
Value(c, ranks, vars) ==
  LET Pieced(pieces) ==
        Several([k \in DOMAIN pieces |-> Value(pieces[k], Tail(ranks), vars)],
                Head(ranks), c.ops[Len(pieces[1].objects)])
      o == c.objects[1]
  IN IF ranks # <<>> THEN Pieced(Pieces(c, Head(ranks)))
     ELSE IF o.is = "condition" THEN Inside(Value(o, Ranks, vars)) ELSE SimpleObject(o, vars)

Readable(test, vars) == \A name \in NamesIn(test) : Known(vars, name)
Holds(test, vars) ==
  CASE test.is = "ifdef" -> Truth(Known(vars, test.name))
    [] test.is # "ifdef" /\ Readable(test, vars) -> Value(test, Ranks, vars)
    [] OTHER -> Illegal

(***************************************************************************)
(* The meaning.  m has the variables, the procedures, what was executed,   *)
(* and how the instructions so far ended: "on", or a jump that looks for   *)
(* its construction.  loops is the number of loops around that can be left *)
(* without leaving a procedure.                                            *)
(***************************************************************************)
Refused(m) == [m EXCEPT !.end = "refused"]
OnlyForward(m) == IF m.end = "break" THEN Refused(m) ELSE m

RECURSIVE Run(_, _, _, _), Rounds(_, _, _, _, _)
Run(library, nodes, m, loops) ==
  LET RunHere(body, start) == Run(library, body, start, loops)
      Decided(n, i, held) ==     \* the part of an #if whose test is the first not to fail
        LET r == OnlyForward(RunHere(IF i > Len(n.tests) THEN n.otherwise ELSE n.bodies[i], m))
        IN IF held = Illegal \/ (r.end = "on" /\ i < Len(n.tests)
                                 /\ ~Readable(n.tests[i + 1], r.vars))
           THEN Refused(m) ELSE r
      FirstThatHolds(n, values) ==
        LET i == Min({k \in DOMAIN values : values[k] = Illegal \/ values[k].val # 0}
                     \cup {Len(values) + 1})
        IN Decided(n, i, IF i > Len(values) THEN Truth(FALSE) ELSE values[i])
      Selected(n) ==    \* the cases from the one that matches on
        LET same == {i \in DOMAIN n.values : n.values[i] = ValueOf(m.vars, n.name)}
        IN IF same = {} THEN n.default
           ELSE FlattenSeq(SubSeq(n.bodies, Min(same), Len(n.bodies))) \o n.default
      Called(n) ==
        LET known == m.procs \o library
            p == known[Min({i \in DOMAIN known : known[i].name = n.name})]
            r == Run(library, p.body,
                     [m EXCEPT !.vars = @ \o [i \in DOMAIN n.values |->
                                               [name |-> p.args[i], value |-> n.values[i]]]], 0)
        IN IF ~Known(known, n.name) \/ Len(p.args) # Len(n.values) \/ r.end # "on"
           THEN Refused(m)
           ELSE [r EXCEPT !.vars = SubSeq(@, 1, Len(m.vars)), !.procs = m.procs]
      After(n) ==
        CASE n.op = "statement" ->
               IF Known(m.vars, n.name)
               THEN [m EXCEPT !.executed = Append(@, ValueOf(m.vars, n.name)),
                              !.vars = Raised(@, n.name, n.raise)]
               ELSE Refused(m)
          [] n.op = "define" -> [m EXCEPT !.vars = Added(@, n.name, n.value)]
          [] n.op = "redefine" -> [m EXCEPT !.vars = Assigned(@, n.name, n.value)]
          [] n.op = "undefine" -> [m EXCEPT !.vars = Forgotten(@, n.name)]
          [] n.op = "if" -> FirstThatHolds(n, [k \in DOMAIN n.tests |-> Holds(n.tests[k], m.vars)])
          [] n.op = "switch" ->
               IF ~Known(m.vars, n.name) THEN Refused(m)
               ELSE LET r == RunHere(Selected(n), m)
                    IN IF r.end = "break" THEN [r EXCEPT !.end = "on"] ELSE r
          [] n.op = "break" -> [m EXCEPT !.end = "break"]
          [] n.op = "do" ->
               Rounds(library, n, n.firstnum, [m EXCEPT !.vars = Added(@, n.name, 0)], loops)
          [] n.op = "breakdo" ->
               IF n.levels > loops THEN Refused(m)
               ELSE [m EXCEPT !.end = "breakdo", !.levels = n.levels]
          [] n.op = "continuedo" ->
               IF loops = 0 THEN Refused(m) ELSE [m EXCEPT !.end = "continuedo"]
          [] n.op = "procedure" ->
               IF Known(m.procs, n.name) THEN Refused(m) ELSE [m EXCEPT !.procs = Append(@, n)]
          [] n.op = "call" -> Called(n)
          [] n.op = "include" -> RunHere(n.body, m)
          [] n.op = "stray" -> Refused(m)
  IN IF nodes = <<>> \/ m.end # "on" THEN m
     ELSE Run(library, Tail(nodes), After(Head(nodes)), loops)

\* The rounds of loop n from number num on: a list gives its values one by
\* one, a number goes on from what the body made of the variable.
Rounds(library, n, num, m, loops) ==
  LET listed == n.type = "LISTEDLOOP"
      done == IF listed THEN num >= n.lastnum
              ELSE IF n.incnum > 0 THEN num > n.lastnum ELSE num < n.lastnum
      value == IF listed THEN n.values[num + 1] ELSE num
      r == Run(library, n.body, [m EXCEPT !.vars = Assigned(@, n.name, value)], loops + 1)
      from == IF listed \/ ~Known(r.vars, n.name) \/ ValueOf(r.vars, n.name) = Word
              THEN num ELSE ValueOf(r.vars, n.name)
  IN CASE done -> [m EXCEPT !.vars = Forgotten(@, n.name)]
       [] ~done /\ r.end \in {"on", "continuedo"} ->
            Rounds(library, n, from + n.incnum, [r EXCEPT !.end = "on"], loops)
       [] ~done /\ r.end = "breakdo" ->
            [r EXCEPT !.vars = Forgotten(@, n.name), !.levels = @ - 1,
                      !.end = IF r.levels = 1 THEN "on" ELSE "breakdo"]
       [] OTHER -> Refused(m)

Meaning(program) ==
  OnlyForward(Run(program.library, program.main,
                  [vars |-> <<>>, procs |-> <<>>, executed |-> <<>>, end |-> "on", levels |-> 0], 0))
=============================================================================
