---------------------------- MODULE Preprocessor ----------------------------
(***************************************************************************)
(* The control structures of the preprocessor (pre.c): #if, #switch, #do,  *)
(* #breakdo, #continuedo, #procedure, #call, #include and the variables.   *)
(* The input is read line by line from a stack of streams; what is nested  *)
(* in what is remembered by a list of types, the levels of #if and of      *)
(* #switch, the list of loops, the list of procedures and the number of    *)
(* variables a stream began with, all of which must stay in step.          *)
(*                                                                         *)
(* A line is the instruction it holds (see PreMeaning); a statement stands *)
(* for anything that is not for the preprocessor and refers to one of its  *)
(* variables.  The first error decides that nothing of the module will be  *)
(* executed; what is read after it is not modelled.                        *)
(***************************************************************************)
EXTENDS PreIf

CONSTANTS
  Programs,       \* the programs: main, and the procedures in files (library)
  PreSwitchRoom   \* AP.NumPreSwitchStrings at the start (10, StartPrepro)

ASSUME RoomAssumption == PreSwitchRoom \in Nat \ {0}

VARIABLES
  program,             \* the program that is read
  Streams,             \* AC.Streams, the last is AC.CurrentStream
  PreTypes,            \* AP.PreTypes[1..AP.NumPreTypes]
  PreIfStack,          \* AP.PreIfStack[0..AP.PreIfLevel]
  PreSwitchModes,      \* AP.PreSwitchModes[0..AP.PreSwitchLevel]
  PreSwitchStrings,    \* AP.PreSwitchStrings[1..AP.PreSwitchLevel]
  NumPreSwitchStrings, \* AP.NumPreSwitchStrings
  DoLoops,             \* DoLoops[0..NumDoLoops-1]
  Procedures,          \* Procedures[0..NumProcedures-1]
  PreVar,              \* PreVar[0..NumPre-1]
  executed,            \* the statements given to the compiler
  outcome              \* "reading", "executed", "refused", or "freed garbage"
levels == <<PreTypes, PreIfStack, PreSwitchModes, PreSwitchStrings, NumPreSwitchStrings>>
names == <<Procedures, PreVar>>
vars == <<program, Streams, levels, DoLoops, names, executed, outcome>>

Stream(type, text, prevars) == [type |-> type, text |-> text, next |-> 1, prevars |-> prevars]
NoPrevars == -1

Init ==
  /\ program \in Programs
  /\ Streams = <<Stream("FILESTREAM", Text(program.main), NoPrevars)>>
  /\ PreTypes = <<>>
  /\ PreIfStack = <<"EXECUTINGIF">>
  /\ PreSwitchModes = <<"EXECUTINGPRESWITCH">>
  /\ PreSwitchStrings = <<>> /\ NumPreSwitchStrings = PreSwitchRoom
  /\ DoLoops = <<>> /\ Procedures = <<>> /\ PreVar = <<>>
  /\ executed = <<>> /\ outcome = "reading"

(***************************************************************************)
(* Reading a line.                                                         *)
(***************************************************************************)
current == Last(Streams)
line == current.text[current.next]
Reading == outcome = "reading" /\ current.next <= Len(current.text)
At(op) == Reading /\ line.op = op

SetLast(list, value) == [list EXCEPT ![Len(list)] = value]
ReadTo(n) == SetLast(Streams, [current EXCEPT !.next = n])
NextLine == Streams' = ReadTo(current.next + 1)

ExecutingIf == Last(PreIfStack) = "EXECUTINGIF"
ExecutingSwitch == Last(PreSwitchModes) = "EXECUTINGPRESWITCH"
Executing == ExecutingIf /\ ExecutingSwitch
InnerType == IF PreTypes = <<>> THEN "NONE" ELSE Last(PreTypes)

\* The line that ends the construction whose first line was read last, by
\* counting lines that start and lines that stop one (PreLoad, PreSkip).
StopsAt(text, from, start, stop) ==
  LET Count(op, n) == Cardinality({i \in from..n : text[i].op = op})
      ends == {n \in from..Len(text) : Count(stop, n) > Count(start, n)}
  IN Min(ends \cup {Len(text) + 1})
StopLine(start, stop) == StopsAt(current.text, current.next + 1, start, stop)
Missing(stop) == stop > Len(current.text)
Between(stop) == SubSeq(current.text, current.next + 1, stop)

Refuse == /\ outcome' = "refused"
          /\ UNCHANGED <<program, Streams, levels, DoLoops, names, executed>>

(***************************************************************************)
(* What is skipped: an instruction that looks at the modes and returns, a  *)
(* statement, and whole loops and procedures.                              *)
(***************************************************************************)
Skips(op) == op \in {"statement", "define", "redefine", "undefine", "call", "include",
                     "enddo", "breakdo", "continuedo"}

SkipLine ==
  /\ Reading /\ ~Executing /\ Skips(line.op)
  /\ NextLine
  /\ UNCHANGED <<program, levels, DoLoops, names, executed, outcome>>

SkipSwitchLine ==
  /\ Reading /\ ~ExecutingIf
  /\ line.op \in {"switch", "case", "default", "break", "endswitch"}
  /\ NextLine
  /\ UNCHANGED <<program, levels, DoLoops, names, executed, outcome>>

PreSkip(start, stop) ==
  /\ At(start) /\ ~Executing
  /\ ~Missing(StopLine(start, stop))
  /\ Streams' = ReadTo(StopLine(start, stop) + 1)
  /\ UNCHANGED <<program, levels, DoLoops, names, executed, outcome>>

(***************************************************************************)
(* Statements and variables.                                               *)
(***************************************************************************)
DoDefine ==
  /\ Reading /\ Executing
  /\ \/ line.op = "define" /\ PreVar' = Added(PreVar, line.name, line.value)
     \/ line.op = "redefine" /\ PreVar' = Assigned(PreVar, line.name, line.value)
     \/ line.op = "undefine" /\ PreVar' = Forgotten(PreVar, line.name)
  /\ NextLine
  /\ UNCHANGED <<program, levels, DoLoops, Procedures, executed, outcome>>

\* Names are replaced before an instruction looks at what it is given, also
\* in an #elseif that comes after the part that was executed.
NamesRead ==
  CASE line.op \in {"statement", "switch"} /\ Executing -> {line.name}
    [] line.op = "if" /\ Executing -> NamesIn(line.test)
    [] line.op = "elseif" /\ ExecutingSwitch /\ Last(PreIfStack) # "LOOKINGFORENDIF" ->
         NamesIn(line.test)
    [] OTHER -> {}
NamesKnown == \A name \in NamesRead : Known(PreVar, name)

\* The stream of a variable in `x++' raises it when it is closed.
LoadStatement ==
  /\ At("statement") /\ Executing /\ NamesKnown
  /\ executed' = Append(executed, ValueOf(PreVar, line.name))
  /\ PreVar' = Raised(PreVar, line.name, line.raise)
  /\ NextLine
  /\ UNCHANGED <<program, levels, DoLoops, Procedures, outcome>>

UndefinedVariable ==
  Reading /\ ~NamesKnown /\ Refuse

(***************************************************************************)
(* #if.                                                                    *)
(***************************************************************************)
EvalPreIf == IF line.test.is = "ifdef" THEN Truth(Known(PreVar, line.test.name))
             ELSE PreIfEval(line.test, PreVar)
Evaluates == \/ line.op = "if" /\ Executing
             \/ line.op = "elseif" /\ ExecutingSwitch /\ Last(PreIfStack) = "LOOKINGFORELSE"
Sensible == NamesKnown /\ (Evaluates => EvalPreIf # Illegal)
IfMode == IF EvalPreIf.val # 0 THEN "EXECUTINGIF" ELSE "LOOKINGFORELSE"

IllegalCondition ==
  /\ Reading /\ Evaluates /\ NamesKnown /\ EvalPreIf = Illegal
  /\ line.op = "elseif" => InnerType = "IF"
  /\ Refuse

DoIf ==
  /\ At("if") /\ Sensible
  /\ PreTypes' = Append(PreTypes, "IF")
  /\ PreIfStack' = IF ~ExecutingSwitch THEN PreIfStack
                   ELSE Append(PreIfStack, IF ExecutingIf THEN IfMode ELSE "LOOKINGFORENDIF")
  /\ NextLine
  /\ UNCHANGED <<program, PreSwitchModes, PreSwitchStrings, NumPreSwitchStrings,
                 DoLoops, names, executed, outcome>>

AfterElse == CASE ExecutingIf -> "LOOKINGFORENDIF"
               [] Last(PreIfStack) = "LOOKINGFORELSE" ->
                    IF line.op = "else" THEN "EXECUTINGIF" ELSE IfMode
               [] OTHER -> Last(PreIfStack)

DoElse ==
  /\ Reading /\ line.op \in {"else", "elseif"}
  /\ InnerType = "IF" /\ Sensible
  /\ PreIfStack' = IF ExecutingSwitch THEN SetLast(PreIfStack, AfterElse) ELSE PreIfStack
  /\ NextLine
  /\ UNCHANGED <<program, PreTypes, PreSwitchModes, PreSwitchStrings, NumPreSwitchStrings,
                 DoLoops, names, executed, outcome>>

DoEndif ==
  /\ At("endif")
  /\ InnerType = "IF"
  /\ PreTypes' = Front(PreTypes)
  /\ PreIfStack' = IF ExecutingSwitch THEN Front(PreIfStack) ELSE PreIfStack
  /\ NextLine
  /\ UNCHANGED <<program, PreSwitchModes, PreSwitchStrings, NumPreSwitchStrings,
                 DoLoops, names, executed, outcome>>

(***************************************************************************)
(* #switch.  When the arrays grow, the string of the last level there was  *)
(* room for is not copied.                                                 *)
(***************************************************************************)
Garbage == -1
SwitchString == IF ExecutingSwitch THEN ValueOf(PreVar, line.name) ELSE 0
Grown(strings) == IF Len(strings) >= NumPreSwitchStrings
                  THEN [strings EXCEPT ![NumPreSwitchStrings] = Garbage] ELSE strings
SwitchMode == IF Len(PreSwitchModes) > 1 /\ ~ExecutingSwitch
              THEN "SEARCHINGPREENDSWITCH" ELSE "SEARCHINGPRECASE"

DoPreSwitch ==
  /\ At("switch") /\ ExecutingIf /\ NamesKnown
  /\ PreSwitchStrings' = Append(Grown(PreSwitchStrings), SwitchString)
  /\ NumPreSwitchStrings' = IF Len(PreSwitchStrings) >= NumPreSwitchStrings
                            THEN 2 * NumPreSwitchStrings ELSE NumPreSwitchStrings
  /\ PreSwitchModes' = Append(PreSwitchModes, SwitchMode)
  /\ PreTypes' = Append(PreTypes, "SWITCH")
  /\ NextLine
  /\ UNCHANGED <<program, PreIfStack, DoLoops, names, executed, outcome>>

Searching == Last(PreSwitchModes) = "SEARCHINGPRECASE"
AfterCase ==
  CASE line.op = "break" /\ ExecutingSwitch -> "SEARCHINGPREENDSWITCH"
    [] line.op = "default" /\ Searching -> "EXECUTINGPRESWITCH"
    [] line.op = "case" /\ Searching /\ Last(PreSwitchStrings) = line.value -> "EXECUTINGPRESWITCH"
    [] OTHER -> Last(PreSwitchModes)

DoPreCase ==
  /\ Reading /\ ExecutingIf /\ line.op \in {"case", "default", "break"}
  /\ InnerType = "SWITCH"
  /\ PreSwitchModes' = SetLast(PreSwitchModes, AfterCase)
  /\ NextLine
  /\ UNCHANGED <<program, PreTypes, PreIfStack, PreSwitchStrings, NumPreSwitchStrings,
                 DoLoops, names, executed, outcome>>

DoPreEndSwitch ==
  /\ At("endswitch") /\ ExecutingIf
  /\ InnerType = "SWITCH"
  /\ PreTypes' = Front(PreTypes)
  /\ PreSwitchModes' = Front(PreSwitchModes)
  /\ PreSwitchStrings' = Front(PreSwitchStrings)
  /\ outcome' = IF Last(PreSwitchStrings) = Garbage THEN "freed garbage" ELSE outcome
  /\ NextLine
  /\ UNCHANGED <<program, PreIfStack, NumPreSwitchStrings, DoLoops, names, executed>>

(***************************************************************************)
(* Streams and loops.  A context c holds what one instruction may change   *)
(* in several steps.                                                       *)
(***************************************************************************)
Context == [Streams |-> Streams, PreTypes |-> PreTypes, PreIfStack |-> PreIfStack,
            PreSwitchModes |-> PreSwitchModes, PreSwitchStrings |-> PreSwitchStrings,
            DoLoops |-> DoLoops, PreVar |-> PreVar, ok |-> TRUE]
Becomes(c) ==
  /\ Streams' = c.Streams /\ PreTypes' = c.PreTypes /\ PreIfStack' = c.PreIfStack
  /\ PreSwitchModes' = c.PreSwitchModes /\ PreSwitchStrings' = c.PreSwitchStrings
  /\ DoLoops' = c.DoLoops /\ PreVar' = c.PreVar

\* The variables defined since the stream was opened are popped if it says so.
CloseStream(c) ==
  LET prevars == Last(c.Streams).prevars
  IN [c EXCEPT !.Streams = Front(@),
               !.PreVar = IF prevars >= 0 /\ Len(@) > prevars THEN SubSeq(@, 1, prevars) ELSE @]

OpenStream(c, type, text, prevars) ==
  [c EXCEPT !.Streams = Append(@, Stream(type, text, prevars))]

\* To the levels at which a loop was started.
ToLevelsOf(c, loop) ==
  [c EXCEPT !.PreTypes = SubSeq(@, 1, loop.NumPreTypes),
            !.PreIfStack = SubSeq(@, 1, loop.PreIfLevel),
            !.PreSwitchModes = SubSeq(@, 1, loop.PreSwitchLevel),
            !.PreSwitchStrings = SubSeq(@, 1, loop.PreSwitchLevel - 1)]

RemoveLoop(c) ==
  [c EXCEPT !.DoLoops = Front(@), !.PreVar = Forgotten(@, Last(c.DoLoops).name)]

\* The number a numerical loop goes on with: the body may have changed it.
NumberAsStarted(c, loop) == loop.firstnum
NumberNow(c, loop) ==
  IF loop.type = "LISTEDLOOP" \/ loop.firstloopcall \/ ~Known(c.PreVar, loop.name)
     \/ ValueOf(c.PreVar, loop.name) = Word
  THEN loop.firstnum ELSE ValueOf(c.PreVar, loop.name) + loop.incnum
Exhausted(loop, num) ==
  IF loop.type = "LISTEDLOOP" THEN num >= loop.lastnum
  ELSE \/ loop.incnum > 0 /\ num > loop.lastnum
       \/ loop.incnum < 0 /\ num < loop.lastnum

\* DoEnddo: at the first call there is no stream yet.
NextRound(cc) ==
  LET loop == Last(cc.DoLoops)
      c == IF loop.firstloopcall THEN cc ELSE CloseStream(cc)
      num == NumberNow(c, loop)
      value == IF loop.type = "LISTEDLOOP" THEN loop.values[num + 1] ELSE num
  IN IF Exhausted(loop, num)
     THEN [RemoveLoop(c) EXCEPT !.PreTypes = Front(@)]
     ELSE OpenStream([c EXCEPT !.PreVar = Assigned(@, loop.name, value),
                               !.DoLoops = SetLast(@, [loop EXCEPT !.firstnum = num + loop.incnum,
                                                                   !.firstloopcall = FALSE])],
                     IF loop.firstloopcall THEN "PREREADSTREAM2" ELSE "PREREADSTREAM",
                     loop.contents, NoPrevars)

Loop(stop) ==
  [name |-> line.name, type |-> line.type, values |-> line.values, firstnum |-> line.firstnum,
   lastnum |-> line.lastnum, incnum |-> line.incnum, contents |-> Between(stop),
   NumPreTypes |-> Len(PreTypes), PreIfLevel |-> Len(PreIfStack),
   PreSwitchLevel |-> Len(PreSwitchModes), firstloopcall |-> TRUE]

DoDo ==
  /\ At("do") /\ Executing
  /\ LET stop == StopLine("do", "enddo")
     IN /\ ~Missing(stop)
        /\ Becomes(NextRound([Context EXCEPT
             !.Streams = ReadTo(stop + 1), !.PreTypes = Append(@, "DO"),
             !.DoLoops = Append(@, Loop(stop)), !.PreVar = Added(@, line.name, 0)]))
  /\ UNCHANGED <<program, NumPreSwitchStrings, Procedures, executed, outcome>>

DoEnddo ==
  /\ At("enddo") /\ Executing
  /\ InnerType = "DO"
  /\ Becomes(NextRound(Context))
  /\ UNCHANGED <<program, NumPreSwitchStrings, Procedures, executed, outcome>>

DoContinueDo ==
  /\ At("continuedo") /\ Executing /\ DoLoops # <<>>
  /\ LET loop == Last(DoLoops)
         c == [ToLevelsOf([Context EXCEPT !.Streams = ReadTo(current.next + 1)], loop)
                 EXCEPT !.PreTypes = SubSeq(PreTypes, 1, loop.NumPreTypes + 1)]
     IN Becomes(NextRound(c))
  /\ UNCHANGED <<program, NumPreSwitchStrings, Procedures, executed, outcome>>

(***************************************************************************)
(* #breakdo: the streams above the innermost loop or procedure are closed, *)
(* then the loop is left, unless that is a procedure.                      *)
(***************************************************************************)
LoopOrProcedure == {"PREREADSTREAM", "PREREADSTREAM2", "PREREADSTREAM3"}
CloseToPreread(c) ==
  LET keep == Max({i \in DOMAIN c.Streams : c.Streams[i].type \in LoopOrProcedure} \cup {1})
  IN FoldLeft(LAMBDA d, i : CloseStream(d), c, [i \in 1..(Len(c.Streams) - keep) |-> i])
LeaveLoop(c) ==
  LET d == CloseToPreread(c)
      inner == Max({i \in DOMAIN d.PreTypes : d.PreTypes[i] \in {"DO", "PROCEDURE"}} \cup {0})
      procedure == Last(d.Streams).type = "PREREADSTREAM3" \/ d.PreTypes[inner] = "PROCEDURE"
  IN IF ~c.ok \/ procedure THEN [c EXCEPT !.ok = FALSE]
     ELSE CloseStream(RemoveLoop(ToLevelsOf(d, Last(d.DoLoops))))

AfterBreaks == FoldLeft(LAMBDA c, i : LeaveLoop(c), Context, [i \in 1..line.levels |-> i])
CanBreak == line.levels <= Len(DoLoops) /\ AfterBreaks.ok

DoBreakDo ==
  /\ At("breakdo") /\ Executing /\ CanBreak
  /\ Becomes(AfterBreaks)
  /\ UNCHANGED <<program, NumPreSwitchStrings, Procedures, executed, outcome>>

BadBreak ==
  At("breakdo") /\ Executing /\ ~CanBreak /\ Refuse

(***************************************************************************)
(* Procedures.  loadmode is 2 for one that was defined in the text, 0 for  *)
(* the call of one in a file, 1 for the call of one that was found in the  *)
(* list.  A call is put on the list as well, and what comes after it on    *)
(* the list is local to it.                                                *)
(***************************************************************************)
Entry(p, loadmode) ==
  [name |-> p.name, args |-> p.args, text |-> p.text, loadmode |-> loadmode]
InFile(name) == {p \in ToSet(program.library) : p.name = name}
FromFile(name) == LET p == CHOOSE q \in InFile(name) : TRUE
                  IN [name |-> p.name, args |-> p.args, text |-> Text(p.body) \o Line("endprocedure")]

DoProcedure ==
  /\ At("procedure") /\ Executing
  /\ LET stop == StopLine("procedure", "endprocedure")
     IN /\ ~Missing(stop) /\ ~Known(Procedures, line.name)
        /\ Procedures' = Append(Procedures,
             Entry([name |-> line.name, args |-> line.args, text |-> Between(stop)], 2))
        /\ Streams' = ReadTo(stop + 1)
  /\ UNCHANGED <<program, levels, DoLoops, PreVar, executed, outcome>>

Found == Known(Procedures, line.name)
Called == IF Found THEN Entry(Procedures[LatestOf(Procedures, line.name)], 1)
          ELSE Entry(FromFile(line.name), 0)
CanCall == (Found \/ InFile(line.name) # {}) /\ Len(Called.args) = Len(line.values)

DoCall ==
  /\ At("call") /\ Executing /\ CanCall
  /\ PreVar' = PreVar \o [i \in DOMAIN line.values |->
                            [name |-> Called.args[i], value |-> line.values[i]]]
  /\ Streams' = Append(ReadTo(current.next + 1),
                       Stream("PREREADSTREAM3", Called.text, Len(PreVar)))
  /\ PreTypes' = Append(PreTypes, "PROCEDURE")
  /\ Procedures' = Append(Procedures, Called)
  /\ UNCHANGED <<program, PreIfStack, PreSwitchModes, PreSwitchStrings, NumPreSwitchStrings,
                 DoLoops, executed, outcome>>

BadCall ==
  At("call") /\ Executing /\ ~CanCall /\ Refuse

WithoutLast(procs) == Front(procs)
WithoutLocals(procs) ==
  SubSeq(procs, 1, Max({i \in DOMAIN procs : procs[i].loadmode <= 1}) - 1)

DoEndprocedure ==
  /\ At("endprocedure") /\ Executing
  /\ InnerType = "PROCEDURE"
  /\ Becomes([CloseStream(Context) EXCEPT !.PreTypes = Front(@)])
  /\ Procedures' = WithoutLocals(Procedures)
  /\ UNCHANGED <<program, NumPreSwitchStrings, executed, outcome>>

DoInclude ==
  /\ At("include") /\ Executing
  /\ Streams' = Append(ReadTo(current.next + 1), Stream("FILESTREAM", line.text, NoPrevars))
  /\ UNCHANGED <<program, levels, DoLoops, names, executed, outcome>>

(***************************************************************************)
(* Errors of nesting, and the end of a stream.                             *)
(***************************************************************************)
Misplaced ==
  \/ line.op \in {"else", "elseif", "endif"} /\ InnerType # "IF"
  \/ line.op = "enddo" /\ Executing /\ (DoLoops = <<>> \/ InnerType # "DO")
  \/ line.op = "continuedo" /\ Executing /\ DoLoops = <<>>
  \/ line.op = "endprocedure" /\ InnerType # "PROCEDURE"
  \/ line.op \in {"case", "default", "break", "endswitch"} /\ ExecutingIf /\ InnerType # "SWITCH"
  \/ line.op = "do" /\ Missing(StopLine("do", "enddo"))
  \/ line.op = "procedure" /\ Missing(StopLine("procedure", "endprocedure"))
  \/ line.op = "procedure" /\ Executing /\ Known(Procedures, line.name)

IllegalNesting == Reading /\ Misplaced /\ Refuse

\* The next stream goes on; after the last an .end instruction is generated.
EndOfStream ==
  /\ outcome = "reading" /\ ~Reading
  /\ LET c == CloseStream(Context)
     IN /\ Becomes(c)
        /\ outcome' = IF c.Streams = <<>> THEN "executed" ELSE outcome
  /\ UNCHANGED <<program, NumPreSwitchStrings, Procedures, executed>>

Stop == outcome # "reading" /\ UNCHANGED vars

Next ==
  \/ SkipLine \/ SkipSwitchLine \/ PreSkip("do", "enddo") \/ PreSkip("procedure", "endprocedure")
  \/ LoadStatement \/ DoDefine \/ UndefinedVariable
  \/ IllegalCondition \/ DoIf \/ DoElse \/ DoEndif
  \/ DoPreSwitch \/ DoPreCase \/ DoPreEndSwitch
  \/ DoDo \/ DoEnddo \/ DoContinueDo \/ DoBreakDo \/ BadBreak
  \/ DoProcedure \/ DoCall \/ BadCall \/ DoEndprocedure
  \/ DoInclude \/ IllegalNesting \/ EndOfStream \/ Stop

Spec == Init /\ [][Next]_vars

(***************************************************************************)
(* Properties.                                                             *)
(***************************************************************************)

\* Reading the lines executes what the structure of the program means: the
\* same statements with the same values, the same variables and procedures
\* are left, no level or loop is left open, and what is refused is what has
\* no meaning.  (A #breakdo or #continuedo out of #if and #switch, a call
\* in a loop, local procedures, a list of modes for what is skipped.)
DoesWhatItMeans ==
  outcome # "reading" =>
    LET m == Meaning(program)
    IN IF m.end # "on" THEN outcome = "refused"
       ELSE /\ outcome = "executed" /\ executed = m.executed /\ PreVar = m.vars
            /\ [i \in DOMAIN Procedures |-> Procedures[i].name]
                 = [i \in DOMAIN m.procs |-> m.procs[i].name]
            /\ PreTypes = <<>> /\ DoLoops = <<>>
            /\ Len(PreIfStack) = 1 /\ Len(PreSwitchModes) = 1

\* The five records of what is open agree at every line: loops with their
\* streams and types, calls with their streams, types and entries in the
\* list of procedures, switches with their strings, and, where no #switch
\* is skipped, the levels of #if.
HowMany(list, Is(_)) == Cardinality({i \in DOMAIN list : Is(list[i])})
StacksAgree ==
  outcome = "reading" =>
    LET Types(t) == HowMany(PreTypes, LAMBDA x : x = t)
        OfTypes(ts) == HowMany(Streams, LAMBDA x : x.type \in ts)
    IN /\ Types("DO") = Len(DoLoops)
       /\ OfTypes({"PREREADSTREAM", "PREREADSTREAM2"}) = Len(DoLoops)
       /\ Types("PROCEDURE") = OfTypes({"PREREADSTREAM3"})
       /\ Types("PROCEDURE") = HowMany(Procedures, LAMBDA p : p.loadmode <= 1)
       /\ Types("SWITCH") = Len(PreSwitchModes) - 1
       /\ Len(PreSwitchStrings) = Len(PreSwitchModes) - 1
       /\ ExecutingSwitch => Types("IF") = Len(PreIfStack) - 1
=============================================================================
