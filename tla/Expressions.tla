----------------------------- MODULE Expressions -----------------------------
(***************************************************************************)
(* The life of the expressions of FORM: definitions, the statements that   *)
(* skip, drop, hide and unhide them, and the ends of modules, at which     *)
(* Processor (proces.c) takes every expression from the file its status    *)
(* names and writes it to another.  An expression is known by its place in *)
(* the array Expressions, which shrinks when others are dropped; by its    *)
(* name; and by onfile, its position in a file that may be the input, the  *)
(* output, the hide file or the store.  The model asks whether the three   *)
(* agree and the expression found there is the one the user wrote.         *)
(*                                                                         *)
(* Files are in memory (handle < 0) and hold whole expressions, a          *)
(* prototype with its terms; a position counts them from 0.  The terms are *)
(* abstracted to the definition they come from and the number of modules   *)
(* whose statements were applied to them; each module has some.  A status  *)
(* that exists twice, as LOCALEXPRESSION and as GLOBALEXPRESSION, is one   *)
(* name, here ACTIVE, and the flag global.                                 *)
(***************************************************************************)
EXTENDS Integers, Sequences, FiniteSets, FiniteSetsExt

CONSTANTS Names,          \* names of expressions
          MaxExpressions, \* expressions at a time, those to be dropped among them
          MaxStatements,  \* statements in a program
          MaxModules      \* modules in a program

ASSUME ExpressionsAssumption ==
  MaxExpressions \in Nat /\ MaxStatements \in Nat /\ MaxModules \in Nat

VARIABLES
  Expressions,    \* the array; value is a history field: what the user wrote
  number,         \* AC.exprnames: the place of the expression of that name, or 0
  infile, outfile,
  hidefile,       \* AR.hidefile up to POfull
  hidefill,       \* ... and its POfill
  store,          \* the expressions in the storage file
  HideLevel,
  compiletype,    \* how far the module is compiled
  inparallelflag,
  CurExpr,        \* the expression Processor comes to; 0 in compilation
  todo,           \* expressions for InParallelProcessor that are not finished
  OldOnFile,
  statements, modules,
  old,            \* (history) the values at the start of the module
  trouble         \* (history) what went wrong; the program is not followed any further

filevars == <<infile, outfile, hidefile, hidefill, store>>
compilevars == <<HideLevel, compiletype, inparallelflag>>
runvars == <<CurExpr, todo, OldOnFile>>
vars == <<Expressions, number, filevars, compilevars, runvars, statements, modules, old,
          trouble>>

Terms(definition, times) == [slot |-> 0, definition |-> definition, times |-> times]
\* A right hand side that is the name of the expression in that place.
Reference(i) == [slot |-> i, definition |-> 0, times |-> 0]
Garbage == Terms(0, 0)

\* Values of replace that are not the number of an expression.
REGULAREXPRESSION == -1
REDEFINEDEXPRESSION == -2
NEWLYDEFINEDEXPRESSION == -3

Numbers == DOMAIN Expressions
Compiling == CurExpr = 0
InHideFile == {"HIDDEN", "DROPH", "UNHIDE"}
Executed == {"ACTIVE", "UNHIDE", "INTOHIDE"}

At(file, position) == file[position + 1]
IsIn(file, position) == position + 1 \in DOMAIN file

\* What is kept of the array moves to its front, and the names are told.
NewNumber(keep, i) == Cardinality({j \in keep : j <= i})

Nth(keep, k) == CHOOSE i \in keep : NewNumber(keep, i) = k

KeptOnly(array, keep) == [k \in 1..Cardinality(keep) |-> array[Nth(keep, k)]]

NotRenumbered(names, es, keep) == names   \* mutant

Renumbered(names, es, keep) ==
  [n \in Names |->
     LET moved == {i \in keep : es[i].name = n /\ NewNumber(keep, i) # i}
     IN IF moved = {} THEN names[n] ELSE NewNumber(keep, Max(moved))]

Init ==
  /\ Expressions = <<>> /\ number = [n \in Names |-> 0]
  /\ infile = <<>> /\ outfile = <<>> /\ hidefile = <<>> /\ hidefill = 0 /\ store = <<>>
  /\ HideLevel = 0 /\ compiletype = "SPECIFICATION" /\ inparallelflag = FALSE
  /\ CurExpr = 0 /\ todo = {} /\ OldOnFile = <<>>
  /\ statements = 0 /\ modules = 0 /\ old = <<>> /\ trouble = "none"

-----------------------------------------------------------------------------
(* Compilation *)

NextStatement ==
  /\ Compiling /\ trouble = "none"
  /\ statements < MaxStatements /\ statements' = statements + 1
  /\ UNCHANGED <<infile, hidefile, hidefill, runvars, modules>>

Statement == NextStatement /\ UNCHANGED <<store, old>>

\* Skip, NSkip, Drop, ... mark an expression; what they do not apply to they leave alone.
SetExprCases(par, status) ==
  CASE par = "SKIP" /\ status = "ACTIVE" -> "SKIP"
    [] par = "NSKIP" /\ status = "SKIP" -> "ACTIVE"
    [] par = "DROP" /\ status \in {"ACTIVE", "SKIP", "HIDE"} -> "DROP"
    [] par = "DROP" /\ status \in {"HIDDEN", "UNHIDE"} -> "DROPH"
    [] par = "NDROP" /\ status = "DROP" -> "ACTIVE"
    [] par = "NDROP" /\ status = "DROPH" -> "HIDDEN"
    [] par = "HIDE" /\ status \in {"ACTIVE", "SKIP", "DROP"} -> "HIDE"
    [] par = "NHIDE" /\ status = "HIDE" -> "ACTIVE"
    [] par = "UNHIDE" /\ status \in {"HIDDEN", "DROPH"} -> "UNHIDE"
    [] par = "NUNHIDE" /\ status = "UNHIDE" -> "HIDDEN"
    [] par = "INTOHIDE" /\ status \in {"ACTIVE", "SKIP", "DROP", "HIDE"} -> "INTOHIDE"
    [] OTHER -> status

Marks == {"SKIP", "NSKIP", "DROP", "NDROP", "HIDE", "NHIDE", "UNHIDE", "NUNHIDE", "INTOHIDE"}

\* The expressions of a statement without names, or with one.
Addressed == {Numbers} \cup {{number[n]} : n \in {m \in Names : number[m] # 0}}

\* IntoHide without names does nothing; with that of a hidden expression it is an error.
SetExpr(par, S) ==
  /\ compiletype = "SPECIFICATION"
  /\ par = "INTOHIDE" => /\ \E n \in Names : S = {number[n]}
                         /\ \A i \in S : Expressions[i].status \notin InHideFile
  /\ Expressions' = [i \in Numbers |->
       IF i \notin S THEN Expressions[i]
       ELSE [Expressions[i] EXCEPT
               !.status = SetExprCases(par, @),
               !.hidelevel = IF par \in {"HIDE", "INTOHIDE"} THEN HideLevel ELSE @]]
  /\ Expressions' # Expressions
  /\ Statement /\ UNCHANGED <<number, outfile, compilevars, trouble>>

CoPushHide ==
  /\ compiletype = "SPECIFICATION"
  /\ HideLevel' = HideLevel + 2
  /\ Expressions' = [i \in Numbers |->
       IF Expressions[i].status \in {"DROP", "SKIP", "ACTIVE"}
       THEN [Expressions[i] EXCEPT !.status = "HIDE", !.hidelevel = HideLevel + 1]
       ELSE Expressions[i]]
  /\ Statement /\ UNCHANGED <<number, outfile, compiletype, inparallelflag, trouble>>

CoPopHide ==
  /\ compiletype = "SPECIFICATION" /\ HideLevel > 0
  /\ HideLevel' = HideLevel - 2
  /\ Expressions' = [i \in Numbers |->
       IF Expressions[i].status = "HIDDEN" /\ Expressions[i].hidelevel > HideLevel - 2
       THEN [Expressions[i] EXCEPT !.status = "UNHIDE"]
       ELSE Expressions[i]]
  /\ Statement /\ UNCHANGED <<number, outfile, compiletype, inparallelflag, trouble>>

\* InParallel and NotInParallel, which are options of a module too and can come anywhere.
DoInParallel(par, S) ==
  /\ inparallelflag' = IF S = Numbers THEN par ELSE inparallelflag
  /\ Expressions' = [i \in Numbers |->
       IF i \in S /\ Expressions[i].status \in {"ACTIVE", "UNHIDE"}
       THEN [Expressions[i] EXCEPT !.partodo = par] ELSE Expressions[i]]
  /\ Expressions' # Expressions
  /\ Statement /\ UNCHANGED <<number, outfile, HideLevel, compiletype, trouble>>

\* Delete storage: there is no definition in the module yet.
DeleteStore ==
  LET keep == {i \in Numbers : Expressions[i].status # "STORED"}
      left == [n \in Names |-> IF number[n] \in keep THEN number[n] ELSE 0]
  IN /\ compiletype = "SPECIFICATION" /\ keep # Numbers
     /\ Expressions' = KeptOnly(Expressions, keep) /\ old' = KeptOnly(old, keep)
     /\ number' = Renumbered(left, Expressions, keep)
     /\ store' = <<>>
     /\ NextStatement /\ UNCHANGED <<outfile, compilevars, trouble>>

\* The old expression goes, if it is not in the middle of being hidden.
Replaced(status) ==
  CASE status \in {"ACTIVE", "SKIP"} -> "DROP"
    [] status = "HIDDEN" -> "DROPH"
    [] OTHER -> status

Replaceable(e) == e.replace < 0 /\ e.status \notin {"HIDE", "UNHIDE", "INTOHIDE"}

AddExpression(n, isglobal, rhs) ==
  [name |-> n, status |-> "ACTIVE", global |-> isglobal, onfile |-> Len(outfile),
   replace |-> IF number[n] = 0 THEN NEWLYDEFINEDEXPRESSION ELSE REDEFINEDEXPRESSION,
   hidelevel |-> 0, partodo |-> inparallelflag, value |-> rhs]

\* Local or Global n = rhs.  The name means the old expression till the end of the module.
DoExpr(n, isglobal, rhs) ==
  LET i == number[n]
      j == Len(Expressions) + 1
  IN /\ j <= MaxExpressions
     /\ i # 0 => Expressions[i].status # "STORED"
     /\ Expressions' = Append(
          IF i = 0 THEN Expressions
          ELSE [Expressions EXCEPT ![i].status = Replaced(@), ![i].replace = j],
          AddExpression(n, isglobal, rhs))
     /\ number' = IF i = 0 THEN [number EXCEPT ![n] = j] ELSE number
     /\ outfile' = Append(outfile, [name |-> n, terms |-> rhs])
     /\ compiletype' = "DEFINITION"
     /\ trouble' = IF i = 0 \/ Replaceable(Expressions[i]) THEN trouble ELSE "two of a name"
     /\ Statement /\ UNCHANGED <<HideLevel, inparallelflag>>

\* Local n or Global n: every status has its counterpart, but that of stored expressions.
ChangeProperty(n, isglobal) ==
  /\ number[n] # 0 /\ Expressions[number[n]].status # "STORED"
  /\ Expressions[number[n]].global # isglobal
  /\ Expressions' = [Expressions EXCEPT ![number[n]].global = isglobal]
  /\ compiletype' = "DEFINITION"
  /\ Statement /\ UNCHANGED <<number, outfile, HideLevel, inparallelflag, trouble>>

\* A right hand side is new, or an expression that was there before the module.
RightHandSides ==
  {Terms(statements + 1, 0)} \cup {Reference(i) : i \in {number[n] : n \in Names} \cap DOMAIN old}

-----------------------------------------------------------------------------
(* Execution *)

\* The end of the instructions of a module: DoExecute and the beginning of Processor.
StartExecution ==
  /\ Compiling /\ trouble = "none" /\ modules < MaxModules
  /\ modules' = modules + 1
  /\ infile' = outfile /\ outfile' = <<>>        \* RevertScratch
  /\ OldOnFile' = [i \in Numbers |-> Expressions[i].onfile]
  /\ todo' = {i \in Numbers : Expressions[i].partodo /\ Expressions[i].status \in Executed}
  /\ Expressions' = [i \in Numbers |-> [Expressions[i] EXCEPT !.partodo = i \in todo']]
  /\ CurExpr' = 1
  /\ UNCHANGED <<number, hidefile, hidefill, store, compilevars, statements, old, trouble>>

\* DoOnePow and GetFromStore: the terms of expression i for a right hand side that names it.
Substituted(i) ==
  LET e == Expressions[i]
      file == IF e.status \in InHideFile THEN hidefile ELSE infile
  IN IF e.status = "STORED" THEN Head(store[e.onfile].terms)
     ELSE IF IsIn(file, OldOnFile[i]) THEN At(file, OldOnFile[i]).terms ELSE Garbage

\* What the statements of the module make of terms.
Generator(terms) ==
  LET t == IF terms.slot = 0 THEN terms ELSE Substituted(terms.slot)
  IN [t EXCEPT !.times = @ + 1]

ReadWithoutSkipped == {"ACTIVE", "HIDE", "UNHIDE", "INTOHIDE"}   \* mutant

\* Next to active expressions, those that are copied have to be read from the input.
ReadLater == {"ACTIVE", "HIDE", "SKIP", "UNHIDE", "INTOHIDE"}

LastExpression(i) == \A j \in Numbers : j > i => Expressions[j].status \notin ReadLater

ToOutfile(i, terms) ==
  /\ outfile' = Append(outfile, [name |-> Expressions[i].name, terms |-> terms])
  /\ Expressions' = [Expressions EXCEPT ![i].onfile = Len(outfile)]

\* Processor, an expression whose terms go through the statements.  When those of the
\* last one are read the input is thrown away.
ProcessActive(i) ==
  LET e == Expressions[i]
      hidden == e.status = "UNHIDE"
      file == IF hidden THEN hidefile ELSE infile
      terms == Generator(At(file, e.onfile).terms)
  IN /\ e.status \in Executed /\ IsIn(file, e.onfile)
     /\ IF e.status = "INTOHIDE"
        THEN /\ hidefile' = Append(hidefile, [name |-> e.name, terms |-> terms])
             /\ hidefill' = Len(hidefile')
             /\ Expressions' = [Expressions EXCEPT ![i].onfile = Len(hidefile)]
             /\ UNCHANGED outfile
        ELSE /\ ToOutfile(i, terms)
             /\ hidefill' = IF hidden THEN e.onfile + 1 ELSE hidefill
             /\ UNCHANGED hidefile
     /\ infile' = IF LastExpression(i) THEN <<>> ELSE infile
     /\ UNCHANGED OldOnFile

ProcessSkipped(i) ==
  /\ Expressions[i].status = "SKIP" /\ IsIn(infile, Expressions[i].onfile)
  /\ ToOutfile(i, At(infile, Expressions[i].onfile).terms)
  /\ UNCHANGED <<infile, hidefile, hidefill, OldOnFile>>

HiddenWithOldStatus(e) == [e EXCEPT !.onfile = Len(hidefile)]   \* mutant

\* From here on the expression is read from the hide file, so its status changes at once.
Hidden(e) == [e EXCEPT !.status = "HIDDEN", !.onfile = Len(hidefile)]

ProcessHide(i) ==
  LET e == Expressions[i]
  IN /\ e.status = "HIDE" /\ IsIn(infile, e.onfile)
     /\ hidefile' = Append(hidefile, [name |-> e.name, terms |-> At(infile, e.onfile).terms])
     /\ hidefill' = Len(hidefile')
     /\ Expressions' = [Expressions EXCEPT ![i] = Hidden(e)]
     /\ OldOnFile' = [OldOnFile EXCEPT ![i] = Len(hidefile)]
     /\ UNCHANGED <<infile, outfile>>

ToBeRead(i) == Expressions[i].status \in ReadLater /\ ~ Expressions[i].partodo

\* "Expression has problems in scratchfile"
Missing(i) ==
  ToBeRead(i) /\ ~ IsIn(IF Expressions[i].status = "UNHIDE" THEN hidefile ELSE infile,
                       Expressions[i].onfile)

ProcessNothing(i) ==
  /\ ToBeRead(i) => Missing(i)
  /\ Expressions' = [Expressions EXCEPT ![i].partodo = FALSE]
  /\ UNCHANGED <<infile, outfile, hidefile, hidefill, OldOnFile>>

\* Processor in its loop, when InParallelProcessor is done.
Process ==
  /\ CurExpr \in Numbers /\ todo = {} /\ trouble = "none"
  /\ CurExpr' = CurExpr + 1
  /\ \/ ToBeRead(CurExpr) /\ ProcessActive(CurExpr)
     \/ ToBeRead(CurExpr) /\ ProcessSkipped(CurExpr)
     \/ ToBeRead(CurExpr) /\ ProcessHide(CurExpr)
     \/ ProcessNothing(CurExpr)
  /\ trouble' = IF Missing(CurExpr) THEN "missing" ELSE trouble
  /\ UNCHANGED <<number, store, compilevars, todo, statements, modules, old>>

\* A worker does expression i as a whole (DOONEEXPRESSION) and copies the result to the
\* output or hide file of the master.  It takes an expression that is to be unhidden from
\* the input; it expects the end of the hide file at its POfill, and afterwards sets it there.
DoOneExpression(i) ==
  LET e == Expressions[i]
      terms == IF e.status = "UNHIDE" THEN Garbage ELSE Generator(At(infile, OldOnFile[i]).terms)
  IN /\ trouble = "none" /\ i \in todo /\ todo' = todo \ {i}
     /\ e.status # "UNHIDE" => IsIn(infile, OldOnFile[i])
     /\ IF e.status = "INTOHIDE"
        THEN /\ hidefile' = Append(hidefile, [name |-> e.name, terms |-> terms])
             /\ hidefill' = Len(hidefile')
             /\ Expressions' = [Expressions EXCEPT ![i].onfile = hidefill]
             /\ UNCHANGED outfile
        ELSE /\ ToOutfile(i, terms)
             /\ hidefile' = SubSeq(hidefile, 1, hidefill)
             /\ UNCHANGED hidefill
     /\ trouble' = IF e.status = "UNHIDE" THEN "wrong file"
                   ELSE IF hidefill < Len(hidefile) THEN "hide file cut"
                   ELSE trouble
     /\ UNCHANGED <<number, infile, store, compilevars, CurExpr, OldOnFile, statements,
                    modules, old>>

-----------------------------------------------------------------------------
(* End of a module *)

\* (history) what the module should have made of the expressions
Value(i) ==
  LET e == Expressions[i]
      before == IF e.value.slot = 0 THEN e.value ELSE old[e.value.slot]
  IN IF e.status \in Executed THEN [before EXCEPT !.times = @ + 1] ELSE e.value

StatusAfter(status) ==
  CASE status \in {"SKIP", "UNHIDE"} -> "ACTIVE"
    [] status \in {"HIDE", "INTOHIDE"} -> "HIDDEN"
    [] status \in {"DROP", "DROPH"} -> "DROPPED"
    [] OTHER -> status

Dropped == {i \in Numbers : Expressions[i].status \in {"DROP", "DROPH"}}

ReplaceAfter(i) ==
  IF \/ i \in Dropped
     \/ Expressions[i].replace = NEWLYDEFINEDEXPRESSION
     \/ \E j \in Dropped : Expressions[j].replace = i
  THEN REGULAREXPRESSION ELSE Expressions[i].replace

TestDrop ==
  [i \in Numbers |-> [Expressions[i] EXCEPT !.status = StatusAfter(@),
                        !.replace = ReplaceAfter(i), !.value = Value(i), !.partodo = FALSE]]

\* A dropped expression leaves its name to the one that replaces it.
NamesAfterDrop ==
  [n \in Names |->
     LET D == {i \in Dropped : Expressions[i].name = n}
         r == Expressions[Max(D)].replace
     IN IF D = {} THEN number[n] ELSE IF r >= 0 THEN r ELSE 0]

\* CleanExpr moves the expressions that are kept, all but their field replace.
Compacted(es, keep) ==
  LET kept == KeptOnly(es, keep)
  IN [k \in DOMAIN kept |-> [kept[k] EXCEPT !.replace = es[k].replace]]

NextModule ==
  /\ CurExpr' = 0 /\ OldOnFile' = <<>>
  /\ compiletype' = "SPECIFICATION" /\ inparallelflag' = FALSE
  /\ old' = [i \in DOMAIN Expressions' |-> Expressions'[i].value]

EmptyScratch ==
  infile' = <<>> /\ outfile' = <<>> /\ hidefile' = <<>> /\ hidefill' = 0 /\ HideLevel' = 0

ModuleDone == CurExpr > Len(Expressions) /\ todo = {} /\ trouble = "none"

\* .sort.  When nothing is hidden any more the hide file starts from zero again.
DotSort ==
  LET es == TestDrop
      keep == {i \in Numbers : es[i].status # "DROPPED"}
      numhid == Cardinality({i \in Numbers : es[i].status = "HIDDEN"})
  IN /\ ModuleDone
     /\ Expressions' = Compacted(es, keep)
     /\ number' = Renumbered(NamesAfterDrop, es, keep)
     /\ IF numhid = 0 THEN hidefile' = <<>> /\ hidefill' = 0 ELSE UNCHANGED <<hidefile, hidefill>>
     /\ NextModule
     /\ UNCHANGED <<infile, outfile, store, HideLevel, todo, statements, modules, trouble>>

\* .store: CleanExpr takes as length of an expression the distance to the next one of the
\* array that is in the same file, or to the end of the file.
FileOf(e) == IF e.status = "HIDDEN" THEN hidefile ELSE outfile

NextInArray(es, i) == {j \in DOMAIN es : j = i + 1}   \* mutant

NextInFile(es, i) ==
  {j \in DOMAIN es : j > i /\ es[j].status = es[i].status}

LengthOf(es, i) ==
  IF NextInFile(es, i) = {} THEN Len(FileOf(es[i])) - es[i].onfile
  ELSE es[Min(NextInFile(es, i))].onfile - es[i].onfile

ToStorage(es, i) ==
  [name |-> es[i].name,
   terms |-> [k \in 1..LengthOf(es, i) |-> At(FileOf(es[i]), es[i].onfile + k - 1).terms]]

ToBeStored(es) == {i \in DOMAIN es : es[i].status \in {"ACTIVE", "HIDDEN"} /\ es[i].global}

\* A write of less than nothing to the storage file ends the program.
StoreFails ==
  LET es == TestDrop
  IN /\ ModuleDone
     /\ \E i \in ToBeStored(es) : LengthOf(es, i) <= 0
     /\ trouble' = "not stored"
     /\ UNCHANGED <<Expressions, number, filevars, compilevars, runvars, statements, modules, old>>

DotStore ==
  LET es == TestDrop
      stores == ToBeStored(es)
      keep == stores \cup {i \in Numbers : es[i].status = "STORED"}
      Stored(i) == IF i \in stores
                   THEN [es[i] EXCEPT !.status = "STORED",
                                      !.onfile = Len(store) + NewNumber(stores, i)]
                   ELSE es[i]
      kept == [i \in Numbers |-> Stored(i)]
      gone == {n \in Names : \E i \in Numbers \ keep : es[i].name = n /\ es[i].status # "DROPPED"}
  IN /\ ModuleDone
     /\ \A i \in stores : LengthOf(es, i) > 0
     /\ store' = store \o [k \in 1..Cardinality(stores) |-> ToStorage(es, Nth(stores, k))]
     /\ Expressions' = Compacted(kept, keep)
     /\ number' = Renumbered([n \in Names |-> IF n \in gone THEN 0 ELSE NamesAfterDrop[n]], kept, keep)
     /\ EmptyScratch /\ NextModule
     /\ UNCHANGED <<todo, statements, modules, trouble>>

\* .clear: nothing is left, the stored expressions included (FullCleanUp).
DotClear ==
  /\ ModuleDone
  /\ Expressions' = <<>> /\ number' = [n \in Names |-> 0] /\ store' = <<>>
  /\ EmptyScratch /\ NextModule
  /\ UNCHANGED <<todo, statements, modules, trouble>>

Compile ==
  \/ \E par \in Marks, S \in Addressed : SetExpr(par, S)
  \/ CoPushHide
  \/ CoPopHide
  \/ \E par \in BOOLEAN, S \in Addressed : DoInParallel(par, S)
  \/ DeleteStore
  \/ \E n \in Names, isglobal \in BOOLEAN, rhs \in RightHandSides : DoExpr(n, isglobal, rhs)
  \/ \E n \in Names, isglobal \in BOOLEAN : ChangeProperty(n, isglobal)

Next ==
  \/ Compile
  \/ StartExecution
  \/ \E i \in todo : DoOneExpression(i)
  \/ Process
  \/ DotSort
  \/ DotStore
  \/ DotClear
  \/ StoreFails

Spec == Init /\ [][Next]_vars

-----------------------------------------------------------------------------
(* Properties *)

Statuses == {"ACTIVE", "SKIP", "DROP", "HIDDEN", "HIDE", "DROPH", "UNHIDE", "INTOHIDE", "STORED"}

\* Every variable has its type.
TypeOK ==
  /\ Expressions \in Seq([name : Names, status : Statuses, global : BOOLEAN, onfile : Nat,
                          replace : Int, hidelevel : Nat, partodo : BOOLEAN,
                          value : [slot : Nat, definition : Nat, times : Nat]])
  /\ number \in [Names -> 0..Len(Expressions)]
  /\ hidefill \in 0..Len(hidefile)
  /\ CurExpr \in Nat /\ todo \subseteq Numbers /\ HideLevel \in Nat

\* Between modules every expression, active or hidden, new or old, is in the file that its
\* status says, at the position onfile, with the terms that the definitions and modules
\* up to then should have given it (Processor, proces.c:166-635; TestDrop and CleanExpr,
\* execute.c:47-197).  It is never missing in Processor.  What makes it go wrong is known:
\* an expression unhidden in parallel, an expression done in parallel while the hide file
\* was read half, and two expressions of a name.
EveryExpressionIsFound ==
  /\ trouble # "missing"
  /\ Compiling /\ trouble = "none" =>
       \A i \in Numbers :
         LET e == Expressions[i]
             file == IF e.status \in InHideFile THEN hidefile ELSE outfile
         IN e.status # "STORED" =>
              /\ IsIn(file, e.onfile)
              /\ At(file, e.onfile) = [name |-> e.name, terms |-> e.value]

\* While a module runs, a right hand side that names an expression of an earlier module
\* gives its terms from before the module: also when the expression has been done, is
\* hidden in this module, is on its way out of the hide file, or is dropped and defined
\* again (DoOnePow, proces.c:4661-4692, with AS.OldOnFile).
StillReading ==
  \/ todo # {}
  \/ \E i \in Numbers : i >= CurExpr /\ ~ Expressions[i].partodo /\ Expressions[i].status \in Executed

ReferencesSeeTheOldExpression ==
  ~ Compiling /\ trouble = "none" /\ StillReading =>
    \A i \in DOMAIN old : Substituted(i) = old[i]

\* A name leads to its expression, in compilation also to the one about to be replaced,
\* however many expressions were dropped before it in the array (CleanExpr,
\* execute.c:150-153; TestDrop, execute.c:519-527).
NamesFindTheirExpression ==
  Compiling /\ trouble = "none" =>
    /\ \A i \in Numbers :
         LET j == number[Expressions[i].name]
         IN j = i \/ (j \in Numbers /\ Expressions[j].replace = i)
    /\ \A n \in Names :
         number[n] # 0 => number[n] \in Numbers /\ Expressions[number[n]].name = n

\* What is stored is the expression (CleanExpr, execute.c:100-137; ToStorage, store.c:2017).
\* The storing fails only when two expressions are in a file in another order than in the
\* array: after InParallel, or when they were hidden in that order.
StoredIsWhole ==
  /\ \A i \in Numbers :
       LET e == Expressions[i]
       IN e.status = "STORED" =>
            /\ store[e.onfile].name = e.name
            /\ Head(store[e.onfile].terms) = e.value
  /\ trouble = "not stored" =>
       \E i, j \in Numbers : /\ i < j /\ Expressions[i].onfile > Expressions[j].onfile
                             /\ TestDrop[i].status = TestDrop[j].status

=============================================================================
