--------------------------- MODULE ExpressionsProofs ---------------------------
(***************************************************************************)
(* Expressions, for any names, any number of expressions, statements and   *)
(* modules: a name leads to its expression, an expression is in the file   *)
(* its status says with the terms it should have, and what is stored or    *)
(* substituted is what it was meant to be.                                 *)
(***************************************************************************)
EXTENDS Expressions, FiniteSetTheorems, SequenceTheorems, WellFoundedInduction, TLAPS

Contents == [slot : Nat, definition : Nat, times : Nat]
Replacements == Nat \cup {REGULAREXPRESSION, REDEFINEDEXPRESSION, NEWLYDEFINEDEXPRESSION}
Records == [name : Names, status : Statuses, global : BOOLEAN, onfile : Nat,
            replace : Replacements, hidelevel : Nat, partodo : BOOLEAN, value : Contents]
Entries == [name : Names, terms : Contents]
Troubles == {"none", "two of a name", "wrong file", "hide file cut", "missing", "not stored"}

Types ==
  /\ Expressions \in Seq(Records)
  /\ number \in [Names -> 0..Len(Expressions)]
  /\ infile \in Seq(Entries) /\ outfile \in Seq(Entries) /\ hidefile \in Seq(Entries)
  /\ hidefill \in 0..Len(hidefile)
  /\ store \in Seq([name : Names, terms : Seq(Contents)])
  /\ \E k \in Nat : HideLevel = 2 * k
  /\ compiletype \in {"SPECIFICATION", "DEFINITION"} /\ inparallelflag \in BOOLEAN
  /\ CurExpr \in Nat /\ todo \subseteq Numbers /\ (Compiling => todo = {})
  /\ OldOnFile \in Seq(Nat) /\ (~Compiling => Len(OldOnFile) = Len(Expressions))
  /\ statements \in Nat /\ modules \in Nat
  /\ old \in Seq(Contents) /\ Len(old) <= Len(Expressions)
  /\ trouble \in Troubles

Name(i) == Expressions[i].name
Status(i) == Expressions[i].status

\* A name leads to its expression, or to the one that the expression replaces.  That
\* one is on its way out; the other is new and stays.
NamesInStep ==
  /\ \A n \in Names : number[n] # 0 => Name(number[n]) = n
  /\ \A i \in Numbers :
       /\ number[Name(i)] # 0
       /\ number[Name(i)] # i => /\ Expressions[number[Name(i)]].replace = i
                                 /\ Status(i) = "ACTIVE"
       /\ Expressions[i].replace = REDEFINEDEXPRESSION => number[Name(i)] # i
       /\ Expressions[i].replace >= 0 =>
            /\ Expressions[i].replace \in Numbers \ {i}
            /\ Name(Expressions[i].replace) = Name(i)
            /\ number[Name(i)] = i
            /\ Status(i) \in {"DROP", "DROPH"}

\* The expressions of earlier modules come first, with the values they had; only those
\* defined since may refer to others.
OldInStep ==
  /\ \A i \in DOMAIN old : Expressions[i].value = old[i] /\ old[i].slot = 0
  /\ \A i \in Numbers : i > Len(old) => /\ Status(i) \in {"ACTIVE", "DROP"}
                                        /\ Expressions[i].value.slot \in 0..Len(old)
  /\ compiletype = "SPECIFICATION" =>
       Len(old) = Len(Expressions) /\ \A i \in Numbers : Expressions[i].replace = REGULAREXPRESSION

\* A stored expression is in the store, as a whole or with what is behind it.
StoreInStep ==
  \A i \in Numbers : Status(i) = "STORED" =>
    /\ Expressions[i].onfile \in DOMAIN store
    /\ store[Expressions[i].onfile].name = Name(i)
    /\ Len(store[Expressions[i].onfile].terms) > 0
    /\ store[Expressions[i].onfile].terms[1] = Expressions[i].value

Holds(file, position, name, terms) ==
  IsIn(file, position) /\ At(file, position) = [name |-> name, terms |-> terms]

\* Between modules each expression is in the file of its status.
CompiledInStep ==
  Compiling => \A i \in Numbers : Status(i) # "STORED" =>
    Holds(IF Status(i) \in InHideFile THEN hidefile ELSE outfile,
          Expressions[i].onfile, Name(i), Expressions[i].value)

\* In a module the expressions that are still to be done are where they were, as far as
\* they are needed, and the others are where they will be.
ToBeDone(i) == i \in todo \/ (i >= CurExpr /\ ~ Expressions[i].partodo)
Needed(i) == Status(i) \in ReadLater \cup {"HIDDEN"}
Source(i) == IF Status(i) \in InHideFile THEN hidefile ELSE infile
Target(i) == IF Status(i) \in {"HIDDEN", "INTOHIDE"} THEN hidefile ELSE outfile

RunInStep ==
  ~Compiling =>
    /\ todo # {} => CurExpr = 1
    /\ \A i \in todo : Expressions[i].partodo /\ Status(i) \in Executed
    /\ \A i \in Numbers :
         /\ ToBeDone(i) /\ Needed(i) =>
              /\ OldOnFile[i] = Expressions[i].onfile
              /\ Holds(Source(i), Expressions[i].onfile, Name(i), Expressions[i].value)
         /\ ~ToBeDone(i) /\ Status(i) \notin {"STORED", "DROP", "DROPH"} =>
              /\ Status(i) # "HIDE"
              /\ Holds(Target(i), Expressions[i].onfile, Name(i), Value(i))

\* As long as an expression is executed what a right hand side may name can be read.
OldCanBeRead ==
  ~Compiling /\ StillReading =>
    \A i \in DOMAIN old : Status(i) # "STORED" =>
      /\ IsIn(Source(i), OldOnFile[i])
      /\ At(Source(i), OldOnFile[i]).terms = old[i]

InStep == /\ NamesInStep /\ OldInStep /\ CompiledInStep /\ RunInStep /\ OldCanBeRead

\* When storing fails two expressions are in their file in another order.
OutOfOrder ==
  \E i, j \in Numbers : /\ i < j /\ Expressions[i].onfile > Expressions[j].onfile
                        /\ TestDrop[i].status = TestDrop[j].status

IInv == /\ Types /\ StoreInStep
        /\ trouble = "none" => InStep
        /\ trouble # "missing"
        /\ trouble = "not stored" => OutOfOrder

-----------------------------------------------------------------------------
(* Sequences and ranks *)

LEMMA IsSeqOf ==
  ASSUME NEW S, NEW n \in Nat, NEW f, f = [i \in 1..n |-> f[i]], \A i \in 1..n : f[i] \in S
  PROVE  f \in Seq(S) /\ Len(f) = n /\ DOMAIN f = 1..n
OBVIOUS

LEMMA HeadIsFirst ==
  ASSUME NEW S, NEW s \in Seq(S), Len(s) > 0
  PROVE  Head(s) = s[1]
OBVIOUS

\* The new numbers of what is kept are 1, 2, ... in the old order, and Nth is the way back.
LEMMA Ranks ==
  ASSUME NEW n \in Nat, NEW keep \in SUBSET (1..n)
  PROVE  /\ Cardinality(keep) \in 0..n
         /\ \A i \in keep : NewNumber(keep, i) \in 1..Cardinality(keep)
         /\ \A i, j \in keep : i < j => NewNumber(keep, i) < NewNumber(keep, j)
         /\ \A k \in 1..Cardinality(keep) : Nth(keep, k) \in keep /\ NewNumber(keep, Nth(keep, k)) = k
         /\ \A i \in keep : Nth(keep, NewNumber(keep, i)) = i
<1> DEFINE UpTo(i) == {j \in keep : j <= i}
           C == Cardinality(keep)
<1>1. IsFiniteSet(1..n) /\ Cardinality(1..n) = n
  BY FS_Interval
<1>2. IsFiniteSet(keep) /\ C \in Nat /\ C <= n
  BY <1>1, FS_Subset, FS_CardinalityType
<1>3. ASSUME NEW i \in keep
      PROVE  IsFiniteSet(UpTo(i)) /\ NewNumber(keep, i) = Cardinality(UpTo(i))
             /\ NewNumber(keep, i) \in Nat /\ 1 <= NewNumber(keep, i) /\ NewNumber(keep, i) <= C
  <2>1. UpTo(i) \subseteq keep /\ i \in UpTo(i)
    OBVIOUS
  <2>2. IsFiniteSet(UpTo(i)) /\ Cardinality(UpTo(i)) \in Nat /\ Cardinality(UpTo(i)) <= C
    BY <1>2, <2>1, FS_Subset, FS_CardinalityType
  <2>3. Cardinality(UpTo(i)) # 0
    BY <2>1, <2>2, FS_EmptySet
  <2>4. QED
    BY <1>2, <2>2, <2>3 DEF NewNumber
<1>4. ASSUME NEW i \in keep, NEW j \in keep, i < j
      PROVE  NewNumber(keep, i) < NewNumber(keep, j)
  <2>1. i \in Int /\ j \in Int /\ \A k \in keep : k \in Int
    OBVIOUS
  <2>2. UpTo(i) \in SUBSET UpTo(j) /\ j \in UpTo(j) /\ j \notin UpTo(i)
    <3>1. \A k \in keep : k <= i => k <= j
      BY <1>4, <2>1
    <3>2. j <= j /\ ~(j <= i)
      BY <1>4, <2>1
    <3>3. QED
      BY <3>1, <3>2
  <2>3. Cardinality(UpTo(i)) <= Cardinality(UpTo(j)) /\ Cardinality(UpTo(i)) # Cardinality(UpTo(j))
    BY <1>3, <2>2, FS_Subset
  <2>4. QED
    BY <1>3, <2>3
<1>5. \A i \in keep : NewNumber(keep, i) \in 1..C
  <2> HIDE DEF C, UpTo
  <2>1. ASSUME NEW i \in keep
        PROVE  NewNumber(keep, i) \in Nat /\ 1 <= NewNumber(keep, i) /\ NewNumber(keep, i) <= C
    BY <1>3
  <2>2. QED
    BY <1>2, <2>1
<1> HIDE DEF UpTo, C
<1>6. \A i, j \in keep : NewNumber(keep, i) = NewNumber(keep, j) => i = j
  <2> SUFFICES ASSUME NEW i \in keep, NEW j \in keep, i # j
               PROVE  NewNumber(keep, i) # NewNumber(keep, j)
    OBVIOUS
  <2>1. NewNumber(keep, i) \in Int /\ NewNumber(keep, j) \in Int
    BY <1>2, <1>5
  <2>2. i < j \/ j < i
    OBVIOUS
  <2>3. QED
    BY <1>4, <2>1, <2>2
<1>7. \A k \in 1..C : \E i \in keep : NewNumber(keep, i) = k
  <2> DEFINE f == [i \in keep |-> NewNumber(keep, i)]
  <2>1. f \in Injection(keep, 1..C)
    BY <1>5, <1>6 DEF Injection, IsInjective
  <2>2. IsFiniteSet(1..C) /\ Cardinality(1..C) = C
    BY <1>2, FS_Interval
  <2>3. f \in Surjection(keep, 1..C)
    BY <2>1, <2>2, FS_Injection DEF C
  <2>4. QED
    BY <2>3 DEF Surjection
<1>8. \A k \in 1..C : Nth(keep, k) \in keep /\ NewNumber(keep, Nth(keep, k)) = k
  BY <1>7 DEF Nth
<1>9. \A i \in keep : Nth(keep, NewNumber(keep, i)) = i
  BY <1>5, <1>6, <1>8
<1>10. C \in 0..n
  BY <1>2
<1>11. QED
  BY <1>4, <1>5, <1>8, <1>9, <1>10 DEF C

LEMMA KeptFacts ==
  ASSUME NEW S, NEW es \in Seq(S), NEW keep \in SUBSET DOMAIN es
  PROVE  /\ KeptOnly(es, keep) \in Seq(S)
         /\ Len(KeptOnly(es, keep)) = Cardinality(keep) /\ Cardinality(keep) \in 0..Len(es)
         /\ DOMAIN KeptOnly(es, keep) = 1..Cardinality(keep)
         /\ \A k \in 1..Cardinality(keep) : Nth(keep, k) \in keep /\ KeptOnly(es, keep)[k] = es[Nth(keep, k)]
<1>1. Len(es) \in Nat /\ DOMAIN es = 1..Len(es) /\ \A i \in DOMAIN es : es[i] \in S
  OBVIOUS
<1>2. Cardinality(keep) \in 0..Len(es) /\ \A k \in 1..Cardinality(keep) : Nth(keep, k) \in keep
  BY <1>1, Ranks
<1>3. KeptOnly(es, keep) = [k \in 1..Cardinality(keep) |-> es[Nth(keep, k)]]
  BY DEF KeptOnly
<1>4. \A k \in 1..Cardinality(keep) : KeptOnly(es, keep)[k] = es[Nth(keep, k)] /\ es[Nth(keep, k)] \in S
  BY <1>1, <1>2, <1>3
<1>5. KeptOnly(es, keep) \in Seq(S) /\ Len(KeptOnly(es, keep)) = Cardinality(keep)
      /\ DOMAIN KeptOnly(es, keep) = 1..Cardinality(keep)
  <2>1. KeptOnly(es, keep) = [k \in 1..Cardinality(keep) |-> KeptOnly(es, keep)[k]]
    BY <1>3
  <2>2. QED
    BY <1>2, <1>4, <2>1, IsSeqOf
<1>6. QED
  BY <1>2, <1>4, <1>5

LEMMA MaxOfOne ==
  ASSUME NEW i \in Int
  PROVE  Max({i}) = i
BY DEF Max

-----------------------------------------------------------------------------
(* Types *)

LEMMA Basics ==
  ASSUME Types
  PROVE  /\ Len(Expressions) \in Nat /\ Numbers = 1..Len(Expressions)
         /\ \A i \in Numbers : Expressions[i] \in Records
         /\ \A i \in Numbers :
              /\ i \in Nat /\ i > 0 /\ Name(i) \in Names /\ Status(i) \in Statuses
              /\ Expressions[i].onfile \in Nat /\ Expressions[i].replace \in Int
              /\ Expressions[i].replace >= 0 \/ Expressions[i].replace \in {-1, -2, -3}
              /\ Expressions[i].partodo \in BOOLEAN /\ Expressions[i].value \in Contents
         /\ \A n \in Names : number[n] \in 0..Len(Expressions)
         /\ Len(old) \in Nat /\ DOMAIN old = 1..Len(old) /\ DOMAIN old \subseteq Numbers
         /\ \A i \in DOMAIN old : old[i] \in Contents
<1>1. /\ Len(Expressions) \in Nat /\ Numbers = 1..Len(Expressions)
      /\ \A i \in Numbers : Expressions[i] \in Records
  BY DEF Types, Numbers
<1>2. \A i \in Numbers :
        /\ i \in Nat /\ i > 0 /\ Name(i) \in Names /\ Status(i) \in Statuses
        /\ Expressions[i].onfile \in Nat /\ Expressions[i].replace \in Int
        /\ Expressions[i].replace >= 0 \/ Expressions[i].replace \in {-1, -2, -3}
        /\ Expressions[i].partodo \in BOOLEAN /\ Expressions[i].value \in Contents
  <2> SUFFICES ASSUME NEW i \in Numbers
               PROVE  /\ i \in Nat /\ i > 0 /\ Name(i) \in Names /\ Status(i) \in Statuses
                      /\ Expressions[i].onfile \in Nat /\ Expressions[i].replace \in Int
                      /\ Expressions[i].replace >= 0 \/ Expressions[i].replace \in {-1, -2, -3}
                      /\ Expressions[i].partodo \in BOOLEAN /\ Expressions[i].value \in Contents
    OBVIOUS
  <2>1. i \in Nat /\ i > 0
    BY <1>1
  <2>2. Expressions[i] \in Records
    BY <1>1
  <2>3. /\ Name(i) \in Names /\ Status(i) \in Statuses
        /\ Expressions[i].onfile \in Nat /\ Expressions[i].replace \in Replacements
        /\ Expressions[i].partodo \in BOOLEAN /\ Expressions[i].value \in Contents
    BY <2>2 DEF Records, Name, Status
  <2>4. \A r \in Replacements : r \in Int /\ (r >= 0 \/ r \in {-1, -2, -3})
    BY DEF Replacements, REGULAREXPRESSION, REDEFINEDEXPRESSION, NEWLYDEFINEDEXPRESSION
  <2>5. QED
    BY <2>1, <2>3, <2>4
<1>3. /\ Len(old) \in Nat /\ DOMAIN old = 1..Len(old) /\ DOMAIN old \subseteq Numbers
      /\ \A i \in DOMAIN old : old[i] \in Contents
  BY <1>1 DEF Types
<1>4. \A n \in Names : number[n] \in 0..Len(Expressions)
  BY DEF Types
<1>5. QED
  BY <1>1, <1>2, <1>3, <1>4

LEMMA FileFacts ==
  ASSUME NEW file \in Seq(Entries)
  PROVE  /\ Len(file) \in Nat
         /\ \A p \in Nat : IsIn(file, p) <=> p < Len(file)
         /\ \A p \in Nat : IsIn(file, p) => At(file, p) \in Entries /\ At(file, p).terms \in Contents
         /\ \A e \in Entries : /\ Append(file, e) \in Seq(Entries)
                               /\ Len(Append(file, e)) = Len(file) + 1
                               /\ IsIn(Append(file, e), Len(file)) /\ At(Append(file, e), Len(file)) = e
                               /\ \A p \in Nat : IsIn(file, p) =>
                                    IsIn(Append(file, e), p) /\ At(Append(file, e), p) = At(file, p)
<1>1. /\ Len(file) \in Nat /\ DOMAIN file = 1..Len(file) /\ \A p \in 1..Len(file) : file[p] \in Entries
  OBVIOUS
<1>2. \A p \in Nat : IsIn(file, p) <=> p < Len(file)
  BY <1>1 DEF IsIn
<1>3. \A p \in Nat : IsIn(file, p) => At(file, p) \in Entries /\ At(file, p).terms \in Contents
  BY <1>1 DEF IsIn, At, Entries
<1>4. ASSUME NEW e \in Entries
      PROVE  /\ Append(file, e) \in Seq(Entries)
             /\ Len(Append(file, e)) = Len(file) + 1
             /\ IsIn(Append(file, e), Len(file)) /\ At(Append(file, e), Len(file)) = e
             /\ \A p \in Nat : IsIn(file, p) =>
                  IsIn(Append(file, e), p) /\ At(Append(file, e), p) = At(file, p)
  <2>1. /\ Append(file, e) \in Seq(Entries) /\ Len(Append(file, e)) = Len(file) + 1
        /\ DOMAIN Append(file, e) = 1..Len(file) + 1
        /\ Append(file, e)[Len(file) + 1] = e
        /\ \A p \in 1..Len(file) : Append(file, e)[p] = file[p]
    BY <1>1
  <2>2. QED
    BY <1>1, <2>1 DEF IsIn, At
<1>5. QED
  BY <1>1, <1>2, <1>3, <1>4

\* The marks move an expression neither out of its file nor out of the store.
LEMMA MarksStay ==
  /\ \A par \in Marks : \A status \in Statuses :
       /\ SetExprCases(par, status) \in Statuses
       /\ SetExprCases(par, status) \in InHideFile <=> status \in InHideFile
       /\ SetExprCases(par, status) = "STORED" <=> status = "STORED"
  /\ \A status \in Statuses :
       /\ Replaced(status) \in Statuses
       /\ Replaced(status) \in InHideFile <=> status \in InHideFile
       /\ Replaced(status) = "STORED" <=> status = "STORED"
       /\ status \notin {"HIDE", "UNHIDE", "INTOHIDE", "STORED"} => Replaced(status) \in {"DROP", "DROPH"}
       /\ status \in {"ACTIVE", "DROP"} => Replaced(status) = "DROP"
       /\ StatusAfter(status) \in {"ACTIVE", "HIDDEN", "DROPPED", "STORED"}
       /\ StatusAfter(status) = "STORED" <=> status = "STORED"
       /\ StatusAfter(status) = "DROPPED" <=> status \in {"DROP", "DROPH"}
       /\ StatusAfter(status) = "HIDDEN" <=> status \in {"HIDDEN", "HIDE", "INTOHIDE"}
<1>1. ASSUME NEW par \in Marks, NEW status \in Statuses
      PROVE  /\ SetExprCases(par, status) \in Statuses
             /\ SetExprCases(par, status) \in InHideFile <=> status \in InHideFile
             /\ SetExprCases(par, status) = "STORED" <=> status = "STORED"
  BY DEF SetExprCases, Marks, Statuses, InHideFile
<1>2. ASSUME NEW status \in Statuses
      PROVE  /\ Replaced(status) \in Statuses
             /\ Replaced(status) \in InHideFile <=> status \in InHideFile
             /\ Replaced(status) = "STORED" <=> status = "STORED"
             /\ status \notin {"HIDE", "UNHIDE", "INTOHIDE", "STORED"} => Replaced(status) \in {"DROP", "DROPH"}
             /\ status \in {"ACTIVE", "DROP"} => Replaced(status) = "DROP"
  BY DEF Replaced, Statuses, InHideFile
<1>3. ASSUME NEW status \in Statuses
      PROVE  /\ StatusAfter(status) \in {"ACTIVE", "HIDDEN", "DROPPED", "STORED"}
             /\ StatusAfter(status) = "STORED" <=> status = "STORED"
             /\ StatusAfter(status) = "DROPPED" <=> status \in {"DROP", "DROPH"}
             /\ StatusAfter(status) = "HIDDEN" <=> status \in {"HIDDEN", "HIDE", "INTOHIDE"}
  BY DEF StatusAfter, Statuses
<1>4. QED
  BY <1>1, <1>2, <1>3

LEMMA InitIInv == Init => IInv
<1> SUFFICES ASSUME Init PROVE IInv
  OBVIOUS
<1>1. Types
  <2>1. \E k \in Nat : HideLevel = 2 * k
    BY DEF Init
  <2>2. number \in [Names -> 0..Len(Expressions)]
    BY DEF Init
  <2>3. /\ \A T : <<>> \in Seq(T)
        /\ Len(<<>>) = 0
    OBVIOUS
  <2>4. /\ Expressions \in Seq(Records) /\ infile \in Seq(Entries) /\ outfile \in Seq(Entries)
        /\ hidefile \in Seq(Entries) /\ store \in Seq([name : Names, terms : Seq(Contents)])
        /\ OldOnFile \in Seq(Nat) /\ old \in Seq(Contents)
    BY <2>3 DEF Init
  <2>5. Len(old) <= Len(Expressions) /\ hidefill \in 0..Len(hidefile)
    BY <2>3 DEF Init
  <2>6. /\ compiletype \in {"SPECIFICATION", "DEFINITION"} /\ inparallelflag \in BOOLEAN
        /\ CurExpr \in Nat /\ todo \subseteq Numbers /\ Compiling /\ todo = {}
        /\ statements \in Nat /\ modules \in Nat /\ trouble \in Troubles
    BY DEF Init, Compiling, Troubles
  <2>7. QED
    BY <2>1, <2>2, <2>4, <2>5, <2>6 DEF Types
<1>2. StoreInStep /\ InStep
  BY DEF Init, StoreInStep, InStep, NamesInStep, OldInStep, CompiledInStep, RunInStep, OldCanBeRead,
     Numbers, Compiling
<1>3. trouble = "none"
  BY DEF Init
<1>4. QED
  BY <1>1, <1>2, <1>3 DEF IInv

-----------------------------------------------------------------------------
(* Statements *)

LEMMA StatementTypes ==
  ASSUME Types, NextStatement, Expressions' \in Seq(Records),
         number' \in [Names -> 0..Len(Expressions')], outfile' \in Seq(Entries),
         store' \in Seq([name : Names, terms : Seq(Contents)]),
         \E k \in Nat : HideLevel' = 2 * k,
         compiletype' \in {"SPECIFICATION", "DEFINITION"}, inparallelflag' \in BOOLEAN,
         old' \in Seq(Contents), Len(old') <= Len(Expressions'), trouble' \in Troubles
  PROVE  Types'
<1>1. /\ Compiling /\ statements' = statements + 1
      /\ UNCHANGED <<infile, hidefile, hidefill, CurExpr, todo, OldOnFile, modules>>
  BY DEF NextStatement, runvars
<1>2. Compiling' /\ todo' = {}
  BY <1>1 DEF Compiling, Types
<1>3. /\ infile' \in Seq(Entries) /\ hidefile' \in Seq(Entries) /\ hidefill' \in 0..Len(hidefile')
      /\ CurExpr' \in Nat /\ OldOnFile' \in Seq(Nat) /\ statements' \in Nat /\ modules' \in Nat
  BY <1>1 DEF Types
<1>4. todo' \subseteq Numbers'
  BY <1>2
<1>5. QED
  BY <1>2, <1>3, <1>4 DEF Types

\* A statement that only marks expressions.
MarksOnly ==
  /\ NextStatement /\ UNCHANGED <<number, outfile, store, old, trouble>>
  /\ Expressions' \in Seq(Records) /\ Len(Expressions') = Len(Expressions)
  /\ \A i \in Numbers :
       /\ Expressions'[i].name = Name(i)
       /\ Expressions'[i].onfile = Expressions[i].onfile
       /\ Expressions'[i].replace = Expressions[i].replace
       /\ Expressions'[i].value = Expressions[i].value
       /\ Expressions'[i].status \in InHideFile <=> Status(i) \in InHideFile
       /\ Expressions'[i].status = "STORED" <=> Status(i) = "STORED"
  /\ \/ compiletype = "SPECIFICATION"
     \/ compiletype' = "DEFINITION" /\ \A i \in Numbers : Expressions'[i].status = Status(i)

LEMMA MarksKeep ==
  ASSUME Types, StoreInStep, InStep, MarksOnly
  PROVE  StoreInStep' /\ InStep'
<1>1. Numbers' = Numbers /\ Len(Expressions') = Len(Expressions) /\ Numbers = 1..Len(Expressions)
  <2>1. Numbers' = 1..Len(Expressions')
    BY DEF MarksOnly, Numbers, Name, Status
  <2>2. QED
    BY <2>1, Basics DEF MarksOnly, Name, Status
<1>2. /\ Compiling /\ Compiling'
      /\ UNCHANGED <<number, outfile, store, old, trouble, hidefile, hidefill>>
  BY DEF MarksOnly, NextStatement, runvars, Compiling, Name, Status
<1>3. ASSUME NEW i \in Numbers
      PROVE  /\ Expressions'[i].name = Name(i) /\ Name(i) \in Names
             /\ Expressions'[i].onfile = Expressions[i].onfile
             /\ Expressions'[i].replace = Expressions[i].replace
             /\ Expressions'[i].value = Expressions[i].value
             /\ Expressions'[i].status \in InHideFile <=> Status(i) \in InHideFile
             /\ Expressions'[i].status = "STORED" <=> Status(i) = "STORED"
  BY <1>3, Basics DEF MarksOnly, Name, Status
<1>4. ASSUME compiletype = "SPECIFICATION"
      PROVE  NamesInStep' /\ OldInStep'
  <2>1. Len(old) = Len(Expressions) /\ \A i \in Numbers : Expressions[i].replace = -1
    BY <1>4 DEF InStep, OldInStep, REGULAREXPRESSION, Name, Status
  <2>2. \A i \in Numbers : number[Name(i)] = i
    <3>1. \A i \in Numbers : i \in Nat /\ i > 0 /\ Name(i) \in Names /\ number[Name(i)] \in 0..Len(Expressions)
      BY Basics
    <3>2. QED
      BY <1>1, <2>1, <3>1 DEF InStep, NamesInStep, Name, Status
  <2>3. NamesInStep'
    <3>1. \A n \in Names : number'[n] # 0 => Expressions'[number'[n]].name = n
      <4> SUFFICES ASSUME NEW n \in Names, number[n] # 0 PROVE Expressions'[number[n]].name = n
        BY <1>2
      <4>1. number[n] \in Numbers
        BY <1>1, Basics
      <4>2. QED
        BY <1>3, <4>1 DEF InStep, NamesInStep, Name, Status
    <3>2. ASSUME NEW i \in Numbers
          PROVE  number'[Expressions'[i].name] = i /\ i # 0 /\ Expressions'[i].replace = -1
      BY <1>2, <1>3, <2>1, <2>2, Basics
    <3>3. QED
      BY <1>1, <3>1, <3>2 DEF NamesInStep, REDEFINEDEXPRESSION, Name, Status
  <2>4. OldInStep'
    <3>1. DOMAIN old \subseteq Numbers
      BY Basics
    <3>2. \A i \in DOMAIN old : Expressions'[i].value = old[i] /\ old[i].slot = 0
      BY <1>3, <3>1 DEF InStep, OldInStep, Name, Status
    <3>3. \A i \in Numbers : ~(i > Len(old)) /\ Expressions'[i].replace = -1
      BY <1>1, <1>3, <2>1, Basics
    <3>4. QED
      BY <1>1, <1>2, <2>1, <3>2, <3>3 DEF OldInStep, REGULAREXPRESSION, Name, Status
  <2>5. QED
    BY <2>3, <2>4
<1>5. ASSUME compiletype' = "DEFINITION", \A i \in Numbers : Expressions'[i].status = Status(i)
      PROVE  NamesInStep' /\ OldInStep'
  <2>1. NamesInStep'
    <3>1. \A n \in Names : number'[n] # 0 => Expressions'[number'[n]].name = n
      <4> SUFFICES ASSUME NEW n \in Names, number[n] # 0 PROVE Expressions'[number[n]].name = n
        BY <1>2
      <4>1. number[n] \in Numbers
        BY <1>1, Basics
      <4>2. QED
        BY <1>3, <4>1 DEF InStep, NamesInStep, Name, Status
    <3>2. ASSUME NEW i \in Numbers
          PROVE  /\ number'[Expressions'[i].name] # 0
                 /\ number'[Expressions'[i].name] # i => /\ Expressions'[number'[Expressions'[i].name]].replace = i
                                             /\ Expressions'[i].status = "ACTIVE"
                 /\ Expressions'[i].replace = REDEFINEDEXPRESSION => number'[Expressions'[i].name] # i
                 /\ Expressions'[i].replace >= 0 =>
                      /\ Expressions'[i].replace \in Numbers \ {i}
                      /\ Expressions'[Expressions'[i].replace].name = Expressions'[i].name
                      /\ number'[Expressions'[i].name] = i
                      /\ Expressions'[i].status \in {"DROP", "DROPH"}
      <4>1. number'[Expressions'[i].name] = number[Name(i)] /\ number[Name(i)] \in Numbers /\ Expressions'[i].status = Status(i)
        BY <1>1, <1>2, <1>3, <1>5, Basics DEF InStep, NamesInStep, Name, Status
      <4>2. QED
        BY <1>3, <4>1 DEF InStep, NamesInStep, Name, Status
    <3>3. QED
      BY <1>1, <3>1, <3>2 DEF NamesInStep, Numbers, Name, Status
  <2>2. OldInStep'
    <3>1. DOMAIN old \subseteq Numbers
      BY Basics
    <3>2. \A i \in DOMAIN old : Expressions'[i].value = old[i] /\ old[i].slot = 0
      BY <1>3, <3>1 DEF InStep, OldInStep, Name, Status
    <3>3. \A i \in Numbers : i > Len(old) => /\ Expressions'[i].status \in {"ACTIVE", "DROP"}
                                             /\ Expressions'[i].value.slot \in 0..Len(old)
      BY <1>3, <1>5 DEF InStep, OldInStep, Name, Status
    <3>4. QED
      BY <1>1, <1>2, <1>5, <3>2, <3>3 DEF OldInStep, Name, Status
  <2>3. QED
    BY <2>1, <2>2
<1>6. CompiledInStep'
  <2> SUFFICES ASSUME NEW i \in Numbers, Expressions'[i].status # "STORED"
               PROVE  Holds(IF Expressions'[i].status \in InHideFile THEN hidefile ELSE outfile,
                            Expressions'[i].onfile, Expressions'[i].name, Expressions'[i].value)
    BY <1>1, <1>2 DEF CompiledInStep, Name, Status
  <2>1. QED
    BY <1>2, <1>3 DEF InStep, CompiledInStep, Name, Status
<1>7. StoreInStep'
  BY <1>1, <1>2, <1>3 DEF StoreInStep, Name, Status
<1>8. RunInStep' /\ OldCanBeRead'
  BY <1>2 DEF RunInStep, OldCanBeRead
<1>9. QED
  BY <1>4, <1>5, <1>6, <1>7, <1>8 DEF InStep, MarksOnly, Name, Status

LEMMA Rewritten ==
  ASSUME Types, Expressions' = [i \in Numbers |-> Expressions'[i]],
         \A i \in Numbers : Expressions'[i] \in Records
  PROVE  /\ Expressions' \in Seq(Records) /\ Len(Expressions') = Len(Expressions)
         /\ Numbers' = Numbers
<1>1. Len(Expressions) \in Nat /\ Numbers = 1..Len(Expressions)
  BY Basics
<1>2. Expressions' = [i \in 1..Len(Expressions) |-> Expressions'[i]]
  BY <1>1
<1>3. QED
  BY <1>1, <1>2, IsSeqOf DEF Numbers

LEMMA MarkedTypes ==
  ASSUME Types, MarksOnly,
         \E k \in Nat : HideLevel' = 2 * k,
         compiletype' \in {"SPECIFICATION", "DEFINITION"}, inparallelflag' \in BOOLEAN
  PROVE  Types'
<1>1. /\ number' \in [Names -> 0..Len(Expressions')] /\ outfile' \in Seq(Entries)
      /\ store' \in Seq([name : Names, terms : Seq(Contents)])
      /\ old' \in Seq(Contents) /\ Len(old') <= Len(Expressions') /\ trouble' \in Troubles
  BY DEF MarksOnly, Types
<1>2. QED
  BY <1>1, StatementTypes DEF MarksOnly

LEMMA AddressedAreNumbers ==
  ASSUME Types, NEW S \in Addressed
  PROVE  S \subseteq Numbers
<1>1. \A n \in Names : number[n] # 0 => number[n] \in Numbers
  BY Basics
<1>2. QED
  BY <1>1 DEF Addressed

\* The fields of an expression that a statement may change.
LEMMA SetExprMarks ==
  ASSUME Types, NEW par \in Marks, NEW S \in Addressed, SetExpr(par, S)
  PROVE  MarksOnly /\ Types'
<1>1. /\ NextStatement /\ UNCHANGED <<number, outfile, store, old, trouble>>
      /\ UNCHANGED <<HideLevel, compiletype, inparallelflag>> /\ compiletype = "SPECIFICATION"
  BY DEF SetExpr, Statement, compilevars
<1>2. HideLevel \in Nat
  BY DEF Types
<1>3. ASSUME NEW i \in Numbers
      PROVE  /\ Expressions'[i] \in Records
             /\ Expressions'[i].name = Name(i)
             /\ Expressions'[i].onfile = Expressions[i].onfile
             /\ Expressions'[i].replace = Expressions[i].replace
             /\ Expressions'[i].value = Expressions[i].value
             /\ Expressions'[i].status \in InHideFile <=> Status(i) \in InHideFile
             /\ Expressions'[i].status = "STORED" <=> Status(i) = "STORED"
  <2>1. Expressions[i] \in Records /\ Status(i) \in Statuses
    BY Basics
  <2>2. CASE i \notin S
    BY <2>1, <2>2 DEF SetExpr, Name, Status
  <2>3. CASE i \in S
    <3> DEFINE st == SetExprCases(par, Expressions[i].status)
               hl == IF par \in {"HIDE", "INTOHIDE"} THEN HideLevel ELSE Expressions[i].hidelevel
    <3>1. Expressions'[i] = [Expressions[i] EXCEPT !.status = st, !.hidelevel = hl]
      BY <2>3 DEF SetExpr
    <3>2. st \in Statuses /\ (st \in InHideFile <=> Status(i) \in InHideFile)
          /\ (st = "STORED" <=> Status(i) = "STORED")
      BY <2>1, MarksStay DEF Status
    <3>3. hl \in Nat
      BY <1>2, <2>1 DEF Records
    <3> HIDE DEF st, hl
    <3>4. QED
      BY <2>1, <3>1, <3>2, <3>3 DEF Records, Name, Status
  <2>4. QED
    BY <2>2, <2>3
<1>4. Expressions' = [i \in Numbers |-> Expressions'[i]]
  BY DEF SetExpr
<1>5. MarksOnly
  BY <1>1, <1>3, <1>4, Rewritten DEF MarksOnly, Name, Status
<1>6. QED
  BY <1>1, <1>5, MarkedTypes DEF Types

LEMMA HideStatementsMark ==
  ASSUME Types, CoPushHide \/ CoPopHide
  PROVE  MarksOnly /\ Types'
<1>1. /\ NextStatement /\ UNCHANGED <<number, outfile, store, old, trouble>>
      /\ UNCHANGED <<compiletype, inparallelflag>> /\ compiletype = "SPECIFICATION"
  BY DEF CoPushHide, CoPopHide, Statement
<1>2. PICK k \in Nat : HideLevel = 2 * k
  BY DEF Types
<1>3. \E l \in Nat : HideLevel' = 2 * l
  <2>1. CASE CoPushHide
    <3>1. HideLevel' = HideLevel + 2
      BY <2>1 DEF CoPushHide
    <3>2. HideLevel' = 2 * (k + 1) /\ k + 1 \in Nat
      BY <1>2, <3>1
    <3>3. QED
      BY <3>2
  <2>2. CASE CoPopHide
    <3>1. k - 1 \in Nat /\ HideLevel' = 2 * (k - 1)
      BY <1>2, <2>2 DEF CoPopHide
    <3>2. QED
      BY <3>1
  <2>3. QED
    BY <2>1, <2>2
<1>4. ASSUME NEW i \in Numbers
      PROVE  /\ Expressions'[i] \in Records
             /\ Expressions'[i].name = Name(i)
             /\ Expressions'[i].onfile = Expressions[i].onfile
             /\ Expressions'[i].replace = Expressions[i].replace
             /\ Expressions'[i].value = Expressions[i].value
             /\ Expressions'[i].status \in InHideFile <=> Status(i) \in InHideFile
             /\ Expressions'[i].status = "STORED" <=> Status(i) = "STORED"
  <2>1. Expressions[i] \in Records /\ HideLevel + 1 \in Nat
    BY <1>2, Basics
  <2>2. CASE CoPushHide
    <3>1. CASE Expressions[i].status \in {"DROP", "SKIP", "ACTIVE"}
      <4>1. Expressions'[i] = [Expressions[i] EXCEPT !.status = "HIDE", !.hidelevel = HideLevel + 1]
        BY <2>2, <3>1 DEF CoPushHide
      <4>2. QED
        BY <2>1, <3>1, <4>1 DEF Records, Name, Status, Statuses, InHideFile
    <3>2. CASE Expressions[i].status \notin {"DROP", "SKIP", "ACTIVE"}
      BY <2>1, <2>2, <3>2 DEF CoPushHide, Name, Status
    <3>3. QED
      BY <3>1, <3>2
  <2>3. CASE CoPopHide
    <3>1. Expressions'[i] = Expressions[i] \/ /\ Expressions[i].status = "HIDDEN"
                                              /\ Expressions'[i] = [Expressions[i] EXCEPT !.status = "UNHIDE"]
      BY <2>3 DEF CoPopHide
    <3>2. QED
      BY <2>1, <3>1 DEF Records, Name, Status, Statuses, InHideFile
  <2>4. QED
    BY <2>2, <2>3
<1>5. Expressions' = [i \in Numbers |-> Expressions'[i]]
  BY DEF CoPushHide, CoPopHide
<1>6. MarksOnly
  BY <1>1, <1>4, <1>5, Rewritten DEF MarksOnly, Name, Status
<1>7. QED
  BY <1>1, <1>3, <1>6, MarkedTypes DEF Types

LEMMA DoInParallelMarks ==
  ASSUME Types, NEW par \in BOOLEAN, NEW S \in Addressed, DoInParallel(par, S)
  PROVE  MarksOnly /\ Types'
<1>1. /\ NextStatement /\ UNCHANGED <<number, outfile, store, old, trouble>>
      /\ UNCHANGED <<HideLevel, compiletype>> /\ inparallelflag' \in BOOLEAN
  BY DEF DoInParallel, Statement, Types
<1>2. ASSUME NEW i \in Numbers
      PROVE  /\ Expressions'[i] \in Records
             /\ Expressions'[i].name = Name(i)
             /\ Expressions'[i].onfile = Expressions[i].onfile
             /\ Expressions'[i].replace = Expressions[i].replace
             /\ Expressions'[i].value = Expressions[i].value
             /\ Expressions'[i].status = Status(i)
  <2>1. Expressions'[i] = Expressions[i] \/ Expressions'[i] = [Expressions[i] EXCEPT !.partodo = par]
    BY DEF DoInParallel
  <2>2. Expressions[i] \in Records
    BY Basics
  <2>3. QED
    BY <2>1, <2>2 DEF Records, Name, Status
<1>3. Expressions' = [i \in Numbers |-> Expressions'[i]]
  BY DEF DoInParallel
<1>4. compiletype = "SPECIFICATION" \/ compiletype' = "DEFINITION"
  BY <1>1 DEF Types
<1>5. MarksOnly
  BY <1>1, <1>2, <1>3, <1>4, Rewritten DEF MarksOnly, Name, Status
<1>6. QED
  BY <1>1, <1>5, MarkedTypes DEF Types

LEMMA ChangePropertyMarks ==
  ASSUME Types, NEW n \in Names, NEW isglobal \in BOOLEAN, ChangeProperty(n, isglobal)
  PROVE  MarksOnly /\ Types'
<1>1. /\ NextStatement /\ UNCHANGED <<number, outfile, store, old, trouble>>
      /\ UNCHANGED <<HideLevel, inparallelflag>> /\ compiletype' = "DEFINITION"
      /\ number[n] # 0
  BY DEF ChangeProperty, Statement
<1>2. ASSUME NEW i \in Numbers
      PROVE  /\ Expressions'[i] \in Records
             /\ Expressions'[i].name = Name(i)
             /\ Expressions'[i].onfile = Expressions[i].onfile
             /\ Expressions'[i].replace = Expressions[i].replace
             /\ Expressions'[i].value = Expressions[i].value
             /\ Expressions'[i].status = Status(i)
  <2>1. Expressions'[i] = Expressions[i] \/ Expressions'[i] = [Expressions[i] EXCEPT !.global = isglobal]
    BY DEF ChangeProperty, Numbers
  <2>2. Expressions[i] \in Records
    BY Basics
  <2>3. QED
    BY <2>1, <2>2 DEF Records, Name, Status
<1>3. Expressions' = [i \in Numbers |-> Expressions'[i]]
  BY DEF ChangeProperty, Numbers
<1>4. MarksOnly
  BY <1>1, <1>2, <1>3, Rewritten DEF MarksOnly, Name, Status
<1>5. QED
  BY <1>1, <1>4, MarkedTypes DEF Types

-----------------------------------------------------------------------------
(* Names and ranks *)

\* When of each name at most one expression is kept, and names leads to it, then the
\* new names lead to the new numbers.
LEMMA NameNotMoved ==
  ASSUME NEW es, NEW m \in Nat, DOMAIN es = 1..m, NEW keep \in SUBSET (1..m),
         NEW names, NEW n \in Names, \A j \in keep : es[j].name # n
  PROVE  Renumbered(names, es, keep)[n] = names[n]
<1> DEFINE moved == {i \in keep : es[i].name = n /\ NewNumber(keep, i) # i}
<1>1. moved = {}
  OBVIOUS
<1>2. QED
  BY <1>1 DEF Renumbered

LEMMA NameMoved ==
  ASSUME NEW es, NEW m \in Nat, DOMAIN es = 1..m, NEW keep \in SUBSET (1..m),
         NEW names, NEW n \in Names, names[n] \in keep,
         \A j \in keep : es[j].name = n <=> j = names[n]
  PROVE  Renumbered(names, es, keep)[n] = NewNumber(keep, names[n])
<1> DEFINE i == names[n]
<1> DEFINE moved == {j \in keep : es[j].name = n /\ NewNumber(keep, j) # j}
<1>1. Renumbered(names, es, keep)[n] = IF moved = {} THEN names[n] ELSE NewNumber(keep, Max(moved))
  BY DEF Renumbered
<1>2. CASE NewNumber(keep, i) = i
  <2>1. moved = {}
    BY <1>2
  <2>2. QED
    BY <1>1, <1>2, <2>1
<1>3. CASE NewNumber(keep, i) # i
  <2>1. i \in Int /\ \A j \in keep : es[j].name = n /\ NewNumber(keep, j) # j <=> j = i
    BY <1>3
  <2> HIDE DEF moved
  <2>2. \A j : j \in moved <=> j \in {i}
    BY <2>1 DEF moved
  <2>3. moved = {i}
    BY <2>2
  <2>4. Max(moved) = i /\ moved # {}
    BY <2>1, <2>3, MaxOfOne
  <2>5. QED
    BY <1>1, <2>4 DEF moved
<1>4. QED
  BY <1>2, <1>3

\* After the renumbering a name leads to its expression, and nothing else.
NamesAgree(es, names) ==
  /\ \A n \in Names : names[n] # 0 => names[n] \in DOMAIN es /\ es[names[n]].name = n
  /\ \A i \in DOMAIN es : names[es[i].name] = i

LEMMA KeptNamesAgree ==
  ASSUME NEW es, NEW m \in Nat, DOMAIN es = 1..m, NEW keep \in SUBSET (1..m),
         NEW names, names \in [Names -> 0..m],
         \A i \in keep : es[i].name \in Names /\ names[es[i].name] = i,
         \A n \in Names : names[n] # 0 => names[n] \in keep /\ es[names[n]].name = n,
         NEW kept, DOMAIN kept = 1..Cardinality(keep),
         \A k \in 1..Cardinality(keep) : kept[k].name = es[Nth(keep, k)].name
  PROVE  /\ Renumbered(names, es, keep) \in [Names -> 0..Cardinality(keep)]
         /\ NamesAgree(kept, Renumbered(names, es, keep))
<1> DEFINE new == Renumbered(names, es, keep)
<1>1. new = [n \in Names |-> new[n]]
  BY DEF Renumbered
<1>2. /\ Cardinality(keep) \in Nat /\ names \in [Names -> Nat]
      /\ \A i \in keep : i \in Int /\ i # 0
  BY Ranks
<1>3. ASSUME NEW n \in Names, names[n] = 0
      PROVE  new[n] = 0
  <2>1. \A j \in keep : es[j].name # n
    BY <1>2, <1>3
  <2>2. QED
    BY <1>3, <2>1, NameNotMoved
<1>4. ASSUME NEW n \in Names, names[n] # 0
      PROVE  names[n] \in keep /\ es[names[n]].name = n /\ new[n] = NewNumber(keep, names[n])
  <2>1. names[n] \in keep /\ es[names[n]].name = n
    BY <1>4
  <2>2. \A j \in keep : es[j].name = n <=> j = names[n]
    BY <2>1
  <2>3. Renumbered(names, es, keep)[n] = NewNumber(keep, names[n])
    <3> HIDE DEF new
    <3>1. QED
      BY <2>1, <2>2, NameMoved
  <2>4. QED
    BY <2>1, <2>3
<1> HIDE DEF new
<1>5. ASSUME NEW n \in Names, new[n] # 0
      PROVE  new[n] \in 1..Cardinality(keep) /\ kept[new[n]].name = n
  <2>1. names[n] \in keep /\ es[names[n]].name = n /\ new[n] = NewNumber(keep, names[n])
    BY <1>3, <1>4, <1>5
  <2>2. new[n] \in 1..Cardinality(keep) /\ Nth(keep, new[n]) = names[n]
    BY <2>1, Ranks
  <2>3. QED
    BY <2>1, <2>2
<1>6. ASSUME NEW k \in 1..Cardinality(keep)
      PROVE  new[kept[k].name] = k
  <2>1. Nth(keep, k) \in keep /\ NewNumber(keep, Nth(keep, k)) = k
    BY Ranks
  <2>2. kept[k].name \in Names /\ names[kept[k].name] = Nth(keep, k)
    BY <2>1
  <2>3. names[kept[k].name] # 0
    BY <2>1, <2>2
  <2>4. QED
    BY <1>4, <2>1, <2>2, <2>3
<1>7. new \in [Names -> 0..Cardinality(keep)]
  <2>1. \A n \in Names : new[n] \in 0..Cardinality(keep)
    BY <1>2, <1>5
  <2>2. QED
    BY <1>1, <2>1
<1>8. NamesAgree(kept, new)
  BY <1>5, <1>6 DEF NamesAgree
<1>9. QED
  BY <1>7, <1>8 DEF new

-----------------------------------------------------------------------------
(* Deleting the storage *)

\* At the start of a module nothing is about to be replaced.
LEMMA NothingReplaced ==
  ASSUME Types, NamesInStep, OldInStep, compiletype = "SPECIFICATION"
  PROVE  /\ Len(old) = Len(Expressions)
         /\ \A i \in Numbers : Expressions[i].replace = -1 /\ number[Name(i)] = i
<1>1. Len(old) = Len(Expressions) /\ \A i \in Numbers : Expressions[i].replace = -1
  BY DEF OldInStep, REGULAREXPRESSION
<1>2. \A i \in Numbers : i \in Nat /\ i > 0 /\ Name(i) \in Names /\ number[Name(i)] \in Numbers
  BY Basics DEF NamesInStep
<1>3. QED
  BY <1>1, <1>2 DEF NamesInStep

LEMMA AgreeingNames ==
  ASSUME Types', NamesAgree(Expressions', number'),
         \A i \in Numbers' : Expressions'[i].replace = -1
  PROVE  NamesInStep'
<1>1. Numbers' = DOMAIN Expressions' /\ \A i \in Numbers' : i # 0
  BY DEF Numbers, Types
<1>2. QED
  BY <1>1 DEF NamesInStep, NamesAgree, Name, Status, REDEFINEDEXPRESSION

LEMMA DeleteStoreKeeps ==
  ASSUME Types, StoreInStep, InStep, DeleteStore
  PROVE  Types' /\ StoreInStep' /\ InStep'
<1> DEFINE keep == {i \in Numbers : Expressions[i].status # "STORED"}
           left == [n \in Names |-> IF number[n] \in keep THEN number[n] ELSE 0]
           C == Cardinality(keep)
<1>1. /\ compiletype = "SPECIFICATION" /\ Expressions' = KeptOnly(Expressions, keep)
      /\ old' = KeptOnly(old, keep) /\ number' = Renumbered(left, Expressions, keep)
      /\ store' = <<>> /\ NextStatement
      /\ UNCHANGED <<outfile, HideLevel, compiletype, inparallelflag, trouble>>
  BY DEF DeleteStore, compilevars
<1>2. Compiling /\ Compiling' /\ UNCHANGED hidefile
  BY <1>1 DEF NextStatement, Compiling, runvars
<1>3. /\ Len(old) = Len(Expressions) /\ Len(old) \in Nat
      /\ \A i \in Numbers : Expressions[i].replace = -1 /\ number[Name(i)] = i
  BY <1>1, NothingReplaced, Basics DEF InStep
<1>4. /\ Expressions \in Seq(Records) /\ old \in Seq(Contents)
      /\ keep \in SUBSET DOMAIN Expressions /\ keep \in SUBSET DOMAIN old
  BY <1>3 DEF Types, Numbers
<1>5. keep \in SUBSET (1..Len(Expressions)) /\ DOMAIN Expressions = 1..Len(Expressions)
  BY <1>4
<1>6. \A i \in keep : i \in Numbers /\ Status(i) # "STORED"
  BY DEF Status
<1>7. /\ \A i \in keep : Expressions[i].name \in Names /\ left[Expressions[i].name] = i
      /\ \A n \in Names : left[n] # 0 => left[n] \in keep /\ Expressions[left[n]].name = n
      /\ left \in [Names -> 0..Len(Expressions)]
  <2>1. \A i \in keep : Expressions[i].name \in Names /\ number[Expressions[i].name] = i
    BY <1>3, <1>6, Basics DEF Name
  <2>2. \A n \in Names : number[n] # 0 => Expressions[number[n]].name = n
    BY DEF InStep, NamesInStep, Name
  <2>3. \A i \in keep : i # 0
    BY <1>5
  <2>4. left \in [Names -> 0..Len(Expressions)]
    BY Basics
  <2>5. QED
    BY <2>1, <2>2, <2>3, <2>4
<1> HIDE DEF keep, left
<1>8. /\ Expressions' \in Seq(Records) /\ Len(Expressions') = C /\ C \in Nat
      /\ DOMAIN Expressions' = 1..C /\ Numbers' = 1..C
      /\ \A k \in 1..C : Nth(keep, k) \in keep /\ Expressions'[k] = Expressions[Nth(keep, k)]
  BY <1>1, <1>4, KeptFacts DEF Numbers
<1>9. /\ old' \in Seq(Contents) /\ Len(old') = C
      /\ DOMAIN old' = 1..C
      /\ \A k \in 1..C : old'[k] = old[Nth(keep, k)]
  BY <1>1, <1>4, KeptFacts
<1>10. number' \in [Names -> 0..C] /\ NamesAgree(Expressions', number')
  <2>1. \A k \in 1..C : Expressions'[k].name = Expressions[Nth(keep, k)].name
    BY <1>8
  <2>2. Len(Expressions) \in Nat
    BY <1>3
  <2>3. /\ Renumbered(left, Expressions, keep) \in [Names -> 0..C]
        /\ NamesAgree(Expressions', Renumbered(left, Expressions, keep))
    BY <1>5, <1>7, <1>8, <2>1, <2>2, KeptNamesAgree
  <2>4. QED
    BY <1>1, <2>3
<1>11. Types'
  <2>1. /\ outfile' \in Seq(Entries) /\ store' \in Seq([name : Names, terms : Seq(Contents)])
        /\ \E k \in Nat : HideLevel' = 2 * k
        /\ compiletype' \in {"SPECIFICATION", "DEFINITION"} /\ inparallelflag' \in BOOLEAN
        /\ trouble' \in Troubles
    <3>1. <<>> \in Seq([name : Names, terms : Seq(Contents)])
      OBVIOUS
    <3>2. \E k \in Nat : HideLevel' = 2 * k
      BY <1>1 DEF Types
    <3>3. QED
      BY <1>1, <3>1, <3>2 DEF Types
  <2>2. Len(old') <= Len(Expressions') /\ number' \in [Names -> 0..Len(Expressions')]
    BY <1>8, <1>9, <1>10
  <2>3. QED
    BY <1>1, <1>8, <1>9, <2>1, <2>2, StatementTypes
<1>12. ASSUME NEW k \in 1..C
       PROVE  /\ Expressions'[k].replace = -1 /\ Expressions'[k].status # "STORED"
              /\ Expressions'[k].value = old'[k] /\ old'[k].slot = 0
              /\ Holds(IF Expressions'[k].status \in InHideFile THEN hidefile' ELSE outfile',
                       Expressions'[k].onfile, Expressions'[k].name, Expressions'[k].value)
  <2>1. PICK i \in Numbers : i = Nth(keep, k) /\ Expressions'[k] = Expressions[i] /\ Status(i) # "STORED"
    BY <1>6, <1>8
  <2>2. Expressions[i].value = old[i] /\ old[i].slot = 0 /\ old'[k] = old[i]
    BY <1>4, <1>8, <1>9, <2>1 DEF InStep, OldInStep
  <2>3. Holds(IF Expressions[i].status \in InHideFile THEN hidefile ELSE outfile,
              Expressions[i].onfile, Expressions[i].name, Expressions[i].value)
    BY <1>2, <2>1 DEF InStep, CompiledInStep, Name, Status
  <2>4. QED
    BY <1>1, <1>2, <1>3, <2>1, <2>2, <2>3 DEF Status
<1>13. NamesInStep'
  BY <1>8, <1>10, <1>11, <1>12, AgreeingNames
<1>14. OldInStep'
  <2>1. \A i \in 1..C : ~(i > C)
    BY <1>8
  <2>2. QED
    BY <1>8, <1>9, <1>12, <2>1 DEF OldInStep, REGULAREXPRESSION
<1>15. CompiledInStep' /\ StoreInStep' /\ RunInStep' /\ OldCanBeRead'
  <2>1. CompiledInStep'
    BY <1>8, <1>12 DEF CompiledInStep, Name, Status
  <2>2. StoreInStep'
    BY <1>8, <1>12 DEF StoreInStep, Status
  <2>3. QED
    BY <1>2, <2>1, <2>2 DEF RunInStep, OldCanBeRead
<1>16. QED
  BY <1>11, <1>13, <1>14, <1>15 DEF InStep

-----------------------------------------------------------------------------
(* Definitions *)

LEMMA RightHandSideTypes ==
  ASSUME Types, NEW rhs \in RightHandSides
  PROVE  rhs \in Contents /\ rhs.slot \in 0..Len(old)
<1>1. statements \in Nat /\ DOMAIN old = 1..Len(old) /\ Len(old) \in Nat
  BY Basics DEF Types
<1>2. CASE rhs = Terms(statements + 1, 0)
  BY <1>1, <1>2 DEF Terms, Contents
<1>3. ASSUME NEW i \in DOMAIN old, rhs = Reference(i)
      PROVE  rhs \in Contents /\ rhs.slot \in 0..Len(old)
  BY <1>1, <1>3 DEF Reference, Contents
<1>4. QED
  BY <1>2, <1>3 DEF RightHandSides

\* What a definition does to the array: the old expression of the name is marked.
LEMMA DefinedArray ==
  ASSUME Types, NEW n \in Names, NEW isglobal \in BOOLEAN, NEW rhs \in RightHandSides,
         DoExpr(n, isglobal, rhs)
  PROVE  LET j == Len(Expressions) + 1
             e == Expressions'[j]
         IN /\ Expressions' \in Seq(Records) /\ Len(Expressions') = j /\ Numbers' = 1..j
            /\ Numbers' = Numbers \cup {j}
            /\ e.name = n /\ e.status = "ACTIVE" /\ e.onfile = Len(outfile) /\ e.value = rhs
            /\ e.replace = IF number[n] = 0 THEN -3 ELSE -2
            /\ \A k \in Numbers : k # number[n] => Expressions'[k] = Expressions[k]
            /\ number[n] # 0 =>
                 /\ number[n] \in Numbers
                 /\ Expressions'[number[n]].name = Name(number[n])
                 /\ Expressions'[number[n]].status = Replaced(Status(number[n]))
                 /\ Expressions'[number[n]].onfile = Expressions[number[n]].onfile
                 /\ Expressions'[number[n]].value = Expressions[number[n]].value
                 /\ Expressions'[number[n]].replace = j
<1> DEFINE i == number[n]
           j == Len(Expressions) + 1
           new == AddExpression(n, isglobal, rhs)
           marked == [Expressions EXCEPT ![i].status = Replaced(@), ![i].replace = j]
           base == IF i = 0 THEN Expressions ELSE marked
<1>1. /\ Len(Expressions) \in Nat /\ Numbers = 1..Len(Expressions) /\ i \in 0..Len(Expressions)
      /\ Expressions \in Seq(Records) /\ \A k \in Numbers : Expressions[k] \in Records
  BY Basics DEF Types
<1>2. rhs \in Contents /\ Len(outfile) \in Nat /\ inparallelflag \in BOOLEAN
  <2>1. rhs \in Contents
    BY RightHandSideTypes
  <2>2. QED
    BY <2>1 DEF Types
<1>3. /\ new.name = n /\ new.status = "ACTIVE" /\ new.onfile = Len(outfile) /\ new.value = rhs
      /\ new.replace = IF i = 0 THEN -3 ELSE -2
      /\ new \in Records
  <2>1. new = [name |-> n, status |-> "ACTIVE", global |-> isglobal, onfile |-> Len(outfile),
               replace |-> IF i = 0 THEN -3 ELSE -2,
               hidelevel |-> 0, partodo |-> inparallelflag, value |-> rhs]
    BY DEF AddExpression, NEWLYDEFINEDEXPRESSION, REDEFINEDEXPRESSION
  <2> HIDE DEF new, i
  <2>2. QED
    <3>1. new.replace \in Replacements
      BY <2>1 DEF Replacements, REDEFINEDEXPRESSION, NEWLYDEFINEDEXPRESSION
    <3>2. QED
      BY <1>2, <2>1, <3>1 DEF Records, Statuses
<1>4. /\ base \in Seq(Records) /\ Len(base) = Len(Expressions)
      /\ \A k \in Numbers : k # i => base[k] = Expressions[k]
      /\ i # 0 => /\ i \in Numbers
                  /\ base[i].name = Name(i) /\ base[i].status = Replaced(Status(i))
                  /\ base[i].onfile = Expressions[i].onfile
                  /\ base[i].value = Expressions[i].value /\ base[i].replace = j
  <2>1. CASE i = 0
    BY <1>1, <2>1
  <2>2. CASE i # 0
    <3>1. i \in Numbers /\ Expressions[i] \in Records /\ Status(i) \in Statuses
      BY <1>1, <2>2, Basics
    <3>2. Replaced(Status(i)) \in Statuses /\ j \in Replacements
      BY <1>1, <3>1, MarksStay DEF Replacements
    <3>3. /\ marked[i] = [Expressions[i] EXCEPT !.status = Replaced(Status(i)), !.replace = j]
          /\ \A k \in Numbers : k # i => marked[k] = Expressions[k]
          /\ marked = [k \in 1..Len(Expressions) |-> marked[k]]
      BY <1>1, <3>1 DEF Status, Numbers
    <3> HIDE DEF marked, j, i
    <3>4. /\ marked[i] \in Records
          /\ marked[i].name = Name(i) /\ marked[i].status = Replaced(Status(i))
          /\ marked[i].onfile = Expressions[i].onfile
          /\ marked[i].value = Expressions[i].value /\ marked[i].replace = j
      BY <3>1, <3>2, <3>3 DEF Records, Name
    <3>5. \A k \in 1..Len(Expressions) : marked[k] \in Records
      BY <1>1, <3>3, <3>4
    <3>6. marked \in Seq(Records) /\ Len(marked) = Len(Expressions)
      BY <1>1, <3>3, <3>5, IsSeqOf
    <3>7. QED
      BY <2>2, <3>1, <3>3, <3>4, <3>6
  <2>3. QED
    BY <2>1, <2>2
<1>5. Expressions' = Append(base, new)
  BY DEF DoExpr
<1> HIDE DEF base, new, i, marked
<1>6. /\ Expressions' \in Seq(Records) /\ Len(Expressions') = j /\ DOMAIN Expressions' = 1..j
      /\ Expressions'[j] = new /\ \A k \in 1..Len(Expressions) : Expressions'[k] = base[k]
  BY <1>1, <1>3, <1>4, <1>5
<1>7. Numbers' = 1..j /\ 1..j = Numbers \cup {j}
  BY <1>1, <1>6 DEF Numbers
<1>8. QED
  BY <1>1, <1>3, <1>4, <1>6, <1>7 DEF i

LEMMA DoExprTypes ==
  ASSUME Types, NEW n \in Names, NEW isglobal \in BOOLEAN, NEW rhs \in RightHandSides,
         DoExpr(n, isglobal, rhs), trouble = "none"
  PROVE  Types'
<1> DEFINE j == Len(Expressions) + 1
<1>1. /\ Expressions' \in Seq(Records) /\ Len(Expressions') = j
  BY DefinedArray
<1>2. Len(Expressions) \in Nat /\ rhs \in Contents
  BY Basics, RightHandSideTypes
<1>3. number' \in [Names -> 0..j]
  <2>1. number \in [Names -> 0..Len(Expressions)] /\ (number' = number \/ number' = [number EXCEPT ![n] = j])
    BY DEF DoExpr, Types
  <2>2. QED
    BY <1>2, <2>1
<1>4. outfile' \in Seq(Entries)
  <2>1. outfile' = Append(outfile, [name |-> n, terms |-> rhs]) /\ outfile \in Seq(Entries)
    BY DEF DoExpr, Types
  <2>2. [name |-> n, terms |-> rhs] \in Entries
    BY <1>2 DEF Entries
  <2>3. QED
    BY <2>1, <2>2
<1>5. /\ NextStatement /\ UNCHANGED <<store, old, HideLevel, inparallelflag>>
      /\ compiletype' = "DEFINITION" /\ trouble' \in {"none", "two of a name"}
  BY DEF DoExpr, Statement
<1>6. Len(old') <= Len(Expressions') /\ old' \in Seq(Contents)
  <2>1. Len(old) \in Nat /\ Len(old) <= Len(Expressions) /\ old' = old /\ old \in Seq(Contents)
    BY <1>5, Basics DEF Types
  <2>2. QED
    BY <1>1, <1>2, <2>1
<1>7. /\ store' \in Seq([name : Names, terms : Seq(Contents)])
      /\ inparallelflag' \in BOOLEAN /\ compiletype' \in {"SPECIFICATION", "DEFINITION"}
      /\ trouble' \in Troubles
  BY <1>5 DEF Types, Troubles
<1>8. \E k \in Nat : HideLevel' = 2 * k
  BY <1>5 DEF Types
<1>9. QED
  BY <1>1, <1>3, <1>4, <1>5, <1>6, <1>7, <1>8, StatementTypes

LEMMA DoExprStore ==
  ASSUME Types, StoreInStep, NEW n \in Names, NEW isglobal \in BOOLEAN, NEW rhs \in RightHandSides,
         DoExpr(n, isglobal, rhs)
  PROVE  StoreInStep'
<1> DEFINE j == Len(Expressions) + 1
<1>1. /\ Numbers' = Numbers \cup {j} /\ Expressions'[j].status = "ACTIVE"
      /\ \A k \in Numbers : k # number[n] => Expressions'[k] = Expressions[k]
      /\ number[n] # 0 => Expressions'[number[n]].status = Replaced(Status(number[n]))
  BY DefinedArray
<1>2. store' = store
  BY DEF DoExpr, Statement
<1>3. ASSUME NEW k \in Numbers', Expressions'[k].status = "STORED"
      PROVE  k \in Numbers /\ Expressions'[k] = Expressions[k]
  <2>1. k \in Numbers
    BY <1>1, <1>3
  <2>2. CASE k = number[n]
    <3>1. k # 0 /\ Status(k) \in Statuses
      BY <2>1, Basics
    <3>2. Status(k) = "STORED"
      BY <1>1, <1>3, <2>2, <3>1, MarksStay
    <3>3. FALSE
      BY <2>2, <3>1, <3>2 DEF DoExpr, Status
    <3>4. QED
      BY <3>3
  <2>3. QED
    BY <1>1, <2>1, <2>2
<1>4. QED
  BY <1>2, <1>3 DEF StoreInStep, Name, Status

LEMMA DoExprNames ==
  ASSUME Types, NamesInStep, NEW n \in Names, NEW isglobal \in BOOLEAN, NEW rhs \in RightHandSides,
         DoExpr(n, isglobal, rhs), trouble' = "none"
  PROVE  NamesInStep'
<1> DEFINE j == Len(Expressions) + 1
           i == number[n]
<1>1. /\ Numbers' = Numbers \cup {j}
      /\ Expressions'[j].name = n /\ Expressions'[j].status = "ACTIVE"
      /\ Expressions'[j].replace = IF i = 0 THEN -3 ELSE -2
      /\ \A k \in Numbers : k # i => Expressions'[k] = Expressions[k]
      /\ i # 0 => /\ i \in Numbers /\ Expressions'[i].name = Name(i)
                  /\ Expressions'[i].status = Replaced(Status(i)) /\ Expressions'[i].replace = j
  BY DefinedArray
<1>2. /\ j \notin Numbers /\ j \in Nat /\ j # 0
      /\ \A k \in Numbers : k \in Nat /\ k # 0 /\ Name(k) \in Names /\ Expressions[k].replace \in Int
                            /\ number[Name(k)] \in Numbers
      /\ \A m \in Names : number[m] # 0 => number[m] \in Numbers
      /\ number \in [Names -> 0..Len(Expressions)]
  <2>1. Len(Expressions) \in Nat /\ Numbers = 1..Len(Expressions)
    BY Basics
  <2>2. j \notin Numbers /\ j \in Nat /\ j # 0
    BY <2>1
  <2>3. number \in [Names -> 0..Len(Expressions)]
    BY DEF Types
  <2>4. \A m \in Names : number[m] # 0 => number[m] \in Numbers
    BY <2>1, <2>3
  <2>5. \A k \in Numbers : k \in Nat /\ k # 0 /\ Name(k) \in Names /\ Expressions[k].replace \in Int
    BY Basics
  <2>6. \A k \in Numbers : number[Name(k)] # 0
    BY DEF NamesInStep
  <2>7. QED
    BY <2>2, <2>3, <2>4, <2>5, <2>6
<1>3. CASE i = 0
  <2>1. number' = [number EXCEPT ![n] = j]
    BY <1>3 DEF DoExpr
  <2>2. \A k \in Numbers : k # i /\ Name(k) # n /\ Expressions'[k] = Expressions[k] /\ number'[Name(k)] = number[Name(k)]
    BY <1>1, <1>2, <1>3, <2>1
  <2>3. ASSUME NEW m \in Names, number'[m] # 0
        PROVE  Expressions'[number'[m]].name = m
    BY <1>1, <1>2, <2>1, <2>2, <2>3 DEF NamesInStep, Name
  <2>4. ASSUME NEW k \in Numbers
        PROVE  /\ number'[Expressions'[k].name] # 0
               /\ number'[Expressions'[k].name] # k =>
                    /\ Expressions'[number'[Expressions'[k].name]].replace = k
                    /\ Expressions'[k].status = "ACTIVE"
               /\ Expressions'[k].replace = REDEFINEDEXPRESSION => number'[Expressions'[k].name] # k
               /\ Expressions'[k].replace >= 0 =>
                    /\ Expressions'[k].replace \in Numbers \ {k}
                    /\ Expressions'[Expressions'[k].replace].name = Expressions'[k].name
                    /\ number'[Expressions'[k].name] = k
                    /\ Expressions'[k].status \in {"DROP", "DROPH"}
    BY <1>2, <2>2 DEF NamesInStep, Name, Status
  <2>5. number'[n] = j /\ Expressions'[j].replace = -3 /\ Expressions'[j].name = n
    BY <1>1, <1>2, <1>3, <2>1
  <2>6. QED
    BY <1>1, <1>2, <2>3, <2>4, <2>5 DEF NamesInStep, Name, Status, REDEFINEDEXPRESSION
<1>4. CASE i # 0
  <2>1. number' = number /\ i \in Numbers /\ Name(i) = n /\ j # i
    BY <1>1, <1>2, <1>4 DEF DoExpr, NamesInStep
  <2>2. Replaceable(Expressions[i]) /\ Status(i) # "STORED"
    BY <1>4 DEF DoExpr, Status
  <2>3. Expressions[i].replace < 0 /\ Expressions'[i].status \in {"DROP", "DROPH"}
    <3>1. Status(i) \in Statuses /\ Status(i) \notin {"HIDE", "UNHIDE", "INTOHIDE", "STORED"}
      BY <2>1, <2>2, Basics DEF Replaceable, Status
    <3>2. QED
      BY <1>1, <1>4, <2>2, <3>1, MarksStay DEF Replaceable
  <2>4. ASSUME NEW k \in Numbers, k # i
        PROVE  /\ Name(k) # n /\ Expressions'[k] = Expressions[k] /\ number[Name(k)] # i
               /\ Expressions[k].replace >= 0 => Expressions[k].replace # i
    <3>1. Name(k) # n
      <4>1. SUFFICES ASSUME Name(k) = n PROVE FALSE
        OBVIOUS
      <4>2. number[Name(k)] # k
        BY <2>4, <4>1
      <4>3. Expressions[i].replace = k
        BY <4>1, <4>2 DEF NamesInStep
      <4>4. k \in Nat
        BY <1>2
      <4>5. QED
        BY <2>3, <4>3, <4>4
    <3>2. number[Name(k)] # i
      BY <1>2, <2>1, <3>1 DEF NamesInStep
    <3>3. Expressions[k].replace >= 0 => Expressions[k].replace # i
      BY <2>1, <3>1 DEF NamesInStep
    <3>4. QED
      BY <1>1, <2>4, <3>1, <3>2, <3>3
  <2>5. ASSUME NEW m \in Names, number'[m] # 0
        PROVE  Expressions'[number'[m]].name = m
    BY <1>1, <1>2, <2>1, <2>4, <2>5 DEF NamesInStep, Name
  <2>6. ASSUME NEW k \in Numbers, k # i
        PROVE  /\ number'[Expressions'[k].name] # 0
               /\ number'[Expressions'[k].name] # k =>
                    /\ Expressions'[number'[Expressions'[k].name]].replace = k
                    /\ Expressions'[k].status = "ACTIVE"
               /\ Expressions'[k].replace = REDEFINEDEXPRESSION => number'[Expressions'[k].name] # k
               /\ Expressions'[k].replace >= 0 =>
                    /\ Expressions'[k].replace \in Numbers \ {k}
                    /\ Expressions'[Expressions'[k].replace].name = Expressions'[k].name
                    /\ number'[Expressions'[k].name] = k
                    /\ Expressions'[k].status \in {"DROP", "DROPH"}
    <3>1. /\ Expressions'[k] = Expressions[k] /\ number' = number
          /\ number[Name(k)] \in Numbers /\ number[Name(k)] # i
          /\ Expressions'[number[Name(k)]] = Expressions[number[Name(k)]]
      BY <1>2, <2>1, <2>4, <2>6
    <3>2. Expressions[k].replace >= 0 => /\ Expressions[k].replace \in Numbers \ {k, i}
                                         /\ Expressions'[Expressions[k].replace] = Expressions[Expressions[k].replace]
      BY <2>4, <2>6 DEF NamesInStep
    <3>3. QED
      BY <3>1, <3>2 DEF NamesInStep, Name, Status
  <2>7. /\ Expressions'[i].name = n /\ number'[n] = i /\ Expressions'[i].replace = j
        /\ Expressions'[j].name = n /\ Expressions'[j].replace = -2
    BY <1>1, <1>4, <2>1
  <2>8. QED
    BY <1>1, <1>2, <2>1, <2>3, <2>5, <2>6, <2>7 DEF NamesInStep, Name, Status, REDEFINEDEXPRESSION
<1>5. QED
  BY <1>3, <1>4

LEMMA DoExprKeeps ==
  ASSUME Types, InStep, NEW n \in Names, NEW isglobal \in BOOLEAN, NEW rhs \in RightHandSides,
         DoExpr(n, isglobal, rhs), trouble' = "none"
  PROVE  InStep'
<1> DEFINE j == Len(Expressions) + 1
<1>1. /\ Numbers' = Numbers \cup {j}
      /\ Expressions'[j].name = n /\ Expressions'[j].status = "ACTIVE"
      /\ Expressions'[j].onfile = Len(outfile) /\ Expressions'[j].value = rhs
  BY DefinedArray
<1>2. ASSUME NEW k \in Numbers
      PROVE  /\ Expressions'[k].name = Name(k) /\ Expressions'[k].onfile = Expressions[k].onfile
             /\ Expressions'[k].value = Expressions[k].value
             /\ Expressions'[k].status \in {Status(k), Replaced(Status(k))}
             /\ Status(k) \in Statuses /\ Expressions[k].onfile \in Nat
  <2>1. k # 0 /\ Status(k) \in Statuses /\ Expressions[k].onfile \in Nat
    BY Basics
  <2>2. QED
    BY <2>1, DefinedArray DEF Name, Status
<1>3. ASSUME NEW k \in Numbers
      PROVE  /\ Expressions'[k].status \in InHideFile <=> Status(k) \in InHideFile
             /\ Expressions'[k].status = "STORED" <=> Status(k) = "STORED"
             /\ Status(k) \in {"ACTIVE", "DROP"} => Expressions'[k].status \in {"ACTIVE", "DROP"}
  BY <1>2, MarksStay
<1>4. /\ Compiling' /\ UNCHANGED <<old, hidefile>> /\ compiletype' = "DEFINITION"
      /\ outfile' = Append(outfile, [name |-> n, terms |-> rhs])
      /\ outfile \in Seq(Entries) /\ [name |-> n, terms |-> rhs] \in Entries
  BY RightHandSideTypes DEF DoExpr, Statement, NextStatement, Compiling, runvars, Types, Entries
<1>5. OldInStep'
  <2>1. DOMAIN old \subseteq Numbers
    BY Basics
  <2>2. QED
    BY <1>1, <1>2, <1>3, <1>4, <2>1, RightHandSideTypes DEF InStep, OldInStep, Status
<1>6. CompiledInStep'
  <2>1. ASSUME NEW k \in Numbers, Expressions'[k].status # "STORED"
        PROVE  Holds(IF Expressions'[k].status \in InHideFile THEN hidefile' ELSE outfile',
                     Expressions'[k].onfile, Expressions'[k].name, Expressions'[k].value)
    <3>1. Holds(IF Status(k) \in InHideFile THEN hidefile ELSE outfile,
                Expressions[k].onfile, Name(k), Expressions[k].value)
      BY <1>3, <1>4, <2>1 DEF InStep, CompiledInStep, Compiling, DoExpr, Statement, NextStatement
    <3>2. Holds(outfile, Expressions[k].onfile, Name(k), Expressions[k].value) =>
            Holds(outfile', Expressions[k].onfile, Name(k), Expressions[k].value)
      BY <1>2, <1>4, FileFacts DEF Holds
    <3>3. QED
      BY <1>2, <1>3, <1>4, <3>1, <3>2
  <2>2. Holds(outfile', Expressions'[j].onfile, Expressions'[j].name, Expressions'[j].value)
    BY <1>1, <1>4, FileFacts DEF Holds
  <2>3. QED
    BY <1>1, <2>1, <2>2 DEF CompiledInStep, Name, Status, InHideFile
<1>7. NamesInStep'
  BY DoExprNames DEF InStep
<1>8. QED
  BY <1>4, <1>5, <1>6, <1>7 DEF InStep, RunInStep, OldCanBeRead

-----------------------------------------------------------------------------
(* Execution *)

\* The fields that Processor leaves alone: names, values, and every status but one.
RunOnly ==
  /\ ~Compiling' /\ UNCHANGED <<number, store, compiletype, old>>
  /\ Expressions' \in Seq(Records) /\ Len(Expressions') = Len(Expressions) /\ Numbers' = Numbers
  /\ \A i \in Numbers :
       /\ Expressions'[i].name = Name(i)
       /\ Expressions'[i].replace = Expressions[i].replace
       /\ Expressions'[i].value = Expressions[i].value
       /\ \/ Expressions'[i].status = Status(i)
          \/ Status(i) = "HIDE" /\ Expressions'[i].status = "HIDDEN"
       /\ Status(i) = "STORED" => Expressions'[i].onfile = Expressions[i].onfile

LEMMA RunOnlyKeeps ==
  ASSUME Types, StoreInStep, RunOnly
  PROVE  /\ StoreInStep' /\ (NamesInStep => NamesInStep') /\ (OldInStep => OldInStep')
         /\ CompiledInStep'
<1>1. ASSUME NEW i \in Numbers
      PROVE  /\ Expressions'[i].name = Name(i)
             /\ Expressions'[i].replace = Expressions[i].replace
             /\ Expressions'[i].value = Expressions[i].value
             /\ \/ Expressions'[i].status = Status(i)
                \/ Status(i) = "HIDE" /\ Expressions'[i].status = "HIDDEN"
             /\ Status(i) = "STORED" => Expressions'[i].onfile = Expressions[i].onfile
  BY DEF RunOnly
<1>2. /\ Numbers' = Numbers /\ Len(Expressions') = Len(Expressions)
      /\ ~Compiling' /\ UNCHANGED <<number, store, compiletype, old>>
  BY DEF RunOnly
<1>3. StoreInStep'
  BY <1>1, <1>2 DEF StoreInStep, Name, Status
<1>4. ASSUME NamesInStep
      PROVE  NamesInStep'
  <2>1. /\ \A n \in Names : number[n] # 0 => number[n] \in Numbers
        /\ \A i \in Numbers : Name(i) \in Names /\ number[Name(i)] \in Numbers
    <3>1. \A n \in Names : number[n] # 0 => number[n] \in Numbers
      BY Basics
    <3>2. \A i \in Numbers : Name(i) \in Names
      BY Basics
    <3>3. \A i \in Numbers : number[Name(i)] # 0
      BY <1>4 DEF NamesInStep
    <3>4. QED
      BY <3>1, <3>2, <3>3
  <2>2. \A n \in Names : number'[n] # 0 => Expressions'[number'[n]].name = n
    BY <1>1, <1>2, <1>4, <2>1 DEF NamesInStep
  <2>3. ASSUME NEW k \in Numbers
        PROVE  /\ number'[Expressions'[k].name] # 0
               /\ number'[Expressions'[k].name] # k =>
                    /\ Expressions'[number'[Expressions'[k].name]].replace = k
                    /\ Expressions'[k].status = "ACTIVE"
               /\ Expressions'[k].replace = REDEFINEDEXPRESSION => number'[Expressions'[k].name] # k
               /\ Expressions'[k].replace >= 0 =>
                    /\ Expressions'[k].replace \in Numbers \ {k}
                    /\ Expressions'[Expressions'[k].replace].name = Expressions'[k].name
                    /\ number'[Expressions'[k].name] = k
                    /\ Expressions'[k].status \in {"DROP", "DROPH"}
    BY <1>1, <1>2, <1>4, <2>1 DEF NamesInStep
  <2>4. QED
    BY <1>2, <2>2, <2>3 DEF NamesInStep, Name, Status
<1>5. ASSUME OldInStep
      PROVE  OldInStep'
  <2>1. DOMAIN old \subseteq Numbers
    BY Basics
  <2>2. QED
    BY <1>1, <1>2, <1>5, <2>1 DEF OldInStep, Status
<1>6. CompiledInStep'
  BY <1>2 DEF CompiledInStep
<1>7. QED
  BY <1>3, <1>4, <1>5, <1>6

LEMMA RunTypes ==
  ASSUME Types, RunOnly, UNCHANGED <<HideLevel, inparallelflag, statements>>,
         infile' \in Seq(Entries), outfile' \in Seq(Entries), hidefile' \in Seq(Entries),
         hidefill' \in 0..Len(hidefile'), CurExpr' \in Nat, todo' \subseteq Numbers,
         OldOnFile' \in Seq(Nat), Len(OldOnFile') = Len(Expressions),
         modules' \in Nat, trouble' \in Troubles
  PROVE  Types'
<1>1. /\ ~Compiling' /\ UNCHANGED <<number, store, compiletype, old>>
      /\ Expressions' \in Seq(Records) /\ Len(Expressions') = Len(Expressions) /\ Numbers' = Numbers
  BY DEF RunOnly
<1>2. /\ number' \in [Names -> 0..Len(Expressions')]
      /\ store' \in Seq([name : Names, terms : Seq(Contents)])
      /\ old' \in Seq(Contents) /\ Len(old') <= Len(Expressions')
      /\ compiletype' \in {"SPECIFICATION", "DEFINITION"} /\ inparallelflag' \in BOOLEAN
      /\ statements' \in Nat
  BY <1>1 DEF Types
<1>3. \E k \in Nat : HideLevel' = 2 * k
  BY DEF Types
<1>4. QED
  BY <1>1, <1>2, <1>3 DEF Types

LEMMA StartExecutionKeeps ==
  ASSUME Types, StoreInStep, InStep, StartExecution
  PROVE  Types' /\ StoreInStep' /\ InStep'
<1>1. /\ Compiling /\ modules' = modules + 1 /\ infile' = outfile /\ outfile' = <<>> /\ CurExpr' = 1
      /\ UNCHANGED <<number, hidefile, hidefill, store, HideLevel, compiletype, inparallelflag,
                     statements, old, trouble>>
      /\ todo' = {i \in Numbers : Expressions[i].partodo /\ Status(i) \in Executed}
  BY DEF StartExecution, compilevars, Status
<1>2. Numbers = 1..Len(Expressions) /\ Len(Expressions) \in Nat
  BY Basics
<1>3. ASSUME NEW i \in Numbers
      PROVE  /\ Expressions'[i] \in Records
             /\ Expressions'[i].name = Name(i) /\ Expressions'[i].status = Status(i)
             /\ Expressions'[i].onfile = Expressions[i].onfile
             /\ Expressions'[i].replace = Expressions[i].replace
             /\ Expressions'[i].value = Expressions[i].value
             /\ Expressions'[i].partodo = (i \in todo')
             /\ OldOnFile'[i] = Expressions[i].onfile /\ OldOnFile'[i] \in Nat
  <2>1. Expressions'[i] = [Expressions[i] EXCEPT !.partodo = i \in todo']
        /\ OldOnFile'[i] = Expressions[i].onfile
    BY DEF StartExecution
  <2>2. Expressions[i] \in Records /\ (i \in todo') \in BOOLEAN
    BY Basics
  <2>3. QED
    BY <2>1, <2>2 DEF Records, Name, Status
<1>4. /\ Expressions' \in Seq(Records) /\ Len(Expressions') = Len(Expressions) /\ Numbers' = Numbers
  <2>1. Expressions' = [i \in Numbers |-> Expressions'[i]]
    BY DEF StartExecution
  <2>2. QED
    BY <1>3, <2>1, Rewritten
<1>5. OldOnFile' \in Seq(Nat) /\ Len(OldOnFile') = Len(Expressions)
  <2>1. OldOnFile' = [i \in 1..Len(Expressions) |-> OldOnFile'[i]]
    BY <1>2 DEF StartExecution
  <2>2. QED
    BY <1>2, <1>3, <2>1, IsSeqOf
<1>6. RunOnly
  BY <1>1, <1>3, <1>4 DEF RunOnly, Compiling
<1>7. Types'
  <2>1. /\ infile' \in Seq(Entries) /\ hidefile' \in Seq(Entries) /\ hidefill' \in 0..Len(hidefile')
        /\ modules' \in Nat /\ trouble' \in Troubles
    BY <1>1 DEF Types
  <2>2. outfile' \in Seq(Entries) /\ CurExpr' \in Nat /\ todo' \subseteq Numbers
    BY <1>1
  <2>3. QED
    BY <1>1, <1>5, <1>6, <2>1, <2>2, RunTypes
<1>8. ASSUME NEW i \in Numbers, Status(i) # "STORED"
      PROVE  Holds(IF Status(i) \in InHideFile THEN hidefile' ELSE infile', OldOnFile'[i], Name(i), Expressions[i].value)
  BY <1>1, <1>3, <1>8 DEF InStep, CompiledInStep
<1>9. RunInStep'
  <2>1. /\ todo' # {} => CurExpr' = 1
        /\ \A i \in todo' : Expressions'[i].partodo /\ Expressions'[i].status \in Executed
    BY <1>1, <1>3
  <2>2. ASSUME NEW i \in Numbers
        PROVE  i \in todo' \/ (i >= CurExpr' /\ ~ Expressions'[i].partodo)
    <3>1. i >= 1
      BY <1>2
    <3>2. QED
      BY <1>1, <1>3, <3>1
  <2>3. ASSUME NEW i \in Numbers, Expressions'[i].status \in ReadLater \cup {"HIDDEN"}
        PROVE  /\ OldOnFile'[i] = Expressions'[i].onfile
               /\ Holds(IF Expressions'[i].status \in InHideFile THEN hidefile' ELSE infile',
                        Expressions'[i].onfile, Expressions'[i].name, Expressions'[i].value)
    <3>1. Status(i) # "STORED"
      BY <1>3, <2>3 DEF ReadLater
    <3>2. QED
      BY <1>3, <1>8, <3>1
  <2>4. QED
    BY <1>4, <2>1, <2>2, <2>3 DEF RunInStep, ToBeDone, Needed, Source, Name, Status
<1>10. OldCanBeRead'
  <2>1. ASSUME NEW i \in DOMAIN old, Expressions'[i].status # "STORED"
        PROVE  LET file == IF Expressions'[i].status \in InHideFile THEN hidefile' ELSE infile'
               IN IsIn(file, OldOnFile'[i]) /\ At(file, OldOnFile'[i]).terms = old[i]
    <3>1. i \in Numbers /\ Expressions[i].value = old[i]
      BY Basics DEF InStep, OldInStep
    <3>2. Expressions'[i].status = Status(i) /\ Status(i) # "STORED"
      BY <1>3, <2>1, <3>1
    <3>3. CASE Status(i) \in InHideFile
      <4>1. Holds(hidefile', OldOnFile'[i], Name(i), Expressions[i].value)
        BY <1>8, <3>1, <3>2, <3>3
      <4>2. QED
        BY <3>1, <3>2, <3>3, <4>1 DEF Holds
    <3>4. CASE Status(i) \notin InHideFile
      <4>1. Holds(infile', OldOnFile'[i], Name(i), Expressions[i].value)
        BY <1>8, <3>1, <3>2, <3>4
      <4>2. QED
        BY <3>1, <3>2, <3>4, <4>1 DEF Holds
    <3>5. QED
      BY <3>3, <3>4
  <2>2. QED
    BY <1>1, <2>1 DEF OldCanBeRead, Source, Status
<1>11. QED
  BY <1>6, <1>7, <1>9, <1>10, RunOnlyKeeps DEF InStep

LEMMA ValueTypes ==
  ASSUME Types, OldInStep, NEW i \in Numbers
  PROVE  /\ Value(i) \in Contents
         /\ Expressions[i].value.slot \in 0..Len(old)
         /\ i \in DOMAIN old => Expressions[i].value.slot = 0
         /\ Expressions[i].value.slot # 0 => Expressions[i].value.slot \in DOMAIN old
<1>1. /\ Len(old) \in Nat /\ DOMAIN old = 1..Len(old) /\ \A j \in DOMAIN old : old[j] \in Contents
      /\ i \in Nat /\ i > 0 /\ Expressions[i].value \in Contents
  BY Basics
<1>2. /\ i \in DOMAIN old => Expressions[i].value.slot = 0
      /\ i \notin DOMAIN old => Expressions[i].value.slot \in 0..Len(old)
  BY <1>1 DEF OldInStep
<1>3. Expressions[i].value.slot \in 0..Len(old)
  BY <1>1, <1>2
<1>4. Expressions[i].value.slot # 0 => Expressions[i].value.slot \in DOMAIN old
  BY <1>1, <1>3
<1>5. Value(i) \in Contents
  <2> DEFINE before == IF Expressions[i].value.slot = 0 THEN Expressions[i].value ELSE old[Expressions[i].value.slot]
  <2>1. before \in Contents
    BY <1>1, <1>4
  <2>2. Value(i) = [before EXCEPT !.times = @ + 1] \/ Value(i) = Expressions[i].value
    BY DEF Value
  <2> HIDE DEF before
  <2>3. [before EXCEPT !.times = @ + 1] \in Contents
    BY <2>1 DEF Contents
  <2>4. QED
    BY <1>1, <2>2, <2>3
<1>6. QED
  BY <1>2, <1>3, <1>4, <1>5

\* What a right hand side gets is the expression from before the module.
LEMMA ReferencesSeen ==
  ASSUME Types, StoreInStep, OldInStep, OldCanBeRead, ~Compiling, StillReading, NEW i \in DOMAIN old
  PROVE  Substituted(i) = old[i]
<1>1. i \in Numbers /\ Expressions[i].value = old[i]
  BY Basics DEF OldInStep
<1>2. CASE Status(i) = "STORED"
  <2> DEFINE s == store[Expressions[i].onfile]
  <2>1. Len(s.terms) > 0 /\ s.terms[1] = old[i] /\ Expressions[i].onfile \in DOMAIN store
    BY <1>1, <1>2 DEF StoreInStep
  <2>2. s.terms \in Seq(Contents)
    <3>1. \A k \in DOMAIN store : store[k] \in [name : Names, terms : Seq(Contents)]
      <4>1. store \in Seq([name : Names, terms : Seq(Contents)])
        BY DEF Types
      <4>2. QED
        BY <4>1, ElementOfSeq, LenProperties
    <3>2. s \in [name : Names, terms : Seq(Contents)]
      BY <2>1, <3>1
    <3> HIDE DEF s
    <3>3. QED
      BY <3>2
  <2>3. Head(s.terms) = old[i]
    BY <2>1, <2>2
  <2>4. QED
    BY <1>2, <2>3 DEF Substituted, Status
<1>3. CASE Status(i) # "STORED"
  <2>1. /\ IsIn(Source(i), OldOnFile[i])
        /\ At(Source(i), OldOnFile[i]).terms = old[i]
    BY <1>3 DEF OldCanBeRead
  <2>2. QED
    BY <1>3, <2>1 DEF Substituted, Source, Status
<1>4. QED
  BY <1>2, <1>3

LEMMA GeneratorIsRight ==
  ASSUME Types, StoreInStep, OldInStep, OldCanBeRead, ~Compiling,
         NEW i \in Numbers, ToBeDone(i), Status(i) \in Executed
  PROVE  Generator(Expressions[i].value) = Value(i)
<1> DEFINE v == Expressions[i].value
<1>1. CASE v.slot = 0
  BY <1>1 DEF Generator, Value, Status
<1>2. CASE v.slot # 0
  <2>1. v.slot \in DOMAIN old
    BY <1>2, ValueTypes
  <2>2. StillReading
    BY DEF ToBeDone, StillReading, Status
  <2>3. Substituted(v.slot) = old[v.slot]
    BY <2>1, <2>2, ReferencesSeen
  <2>4. QED
    BY <1>2, <2>3 DEF Generator, Value, Status
<1>3. QED
  BY <1>1, <1>2

\* Whatever is written behind what is there.
Grows(file, longer) ==
  \A p \in Nat : IsIn(file, p) => IsIn(longer, p) /\ At(longer, p) = At(file, p)

LEMMA AppendGrows ==
  ASSUME NEW file \in Seq(Entries), NEW name \in Names, NEW terms \in Contents
  PROVE  LET longer == Append(file, [name |-> name, terms |-> terms])
         IN /\ longer \in Seq(Entries) /\ Len(longer) = Len(file) + 1
            /\ Grows(file, longer) /\ Holds(longer, Len(file), name, terms)
<1>1. [name |-> name, terms |-> terms] \in Entries
  BY DEF Entries
<1>2. QED
  BY <1>1, FileFacts DEF Grows, Holds

LEMMA HoldsStays ==
  ASSUME NEW file, NEW longer, Grows(file, longer), NEW p \in Nat, NEW name, NEW terms,
         Holds(file, p, name, terms)
  PROVE  Holds(longer, p, name, terms)
BY DEF Grows, Holds

LEMMA ValueStays ==
  ASSUME NEW i \in Numbers, old' = old, Expressions'[i].value = Expressions[i].value,
         Expressions'[i].status = Status(i) \/ (Status(i) = "HIDE" /\ Expressions'[i].status = "HIDDEN")
  PROVE  Value(i)' = Value(i)
<1>1. Expressions'[i].status \in Executed <=> Expressions[i].status \in Executed
  BY DEF Executed, Status
<1>2. QED
  BY <1>1 DEF Value

\* An expression is done when its terms are in the file where they will be: Processor
\* goes on to the next, or a worker has finished it.
Written(i, p) ==
  /\ Expressions' = [Expressions EXCEPT ![i].onfile = p]
  /\ UNCHANGED <<number, store, compiletype, old, OldOnFile>>
  /\ Grows(outfile, outfile') /\ Grows(hidefile, hidefile')
  /\ Holds(IF Status(i) = "INTOHIDE" THEN hidefile' ELSE outfile', p, Name(i), Value(i))
  /\ \/ i \in todo /\ todo' = todo \ {i} /\ CurExpr' = CurExpr /\ infile' = infile
     \/ /\ i = CurExpr /\ todo = {} /\ todo' = {} /\ CurExpr' = CurExpr + 1
        /\ infile' = infile \/ LastExpression(i)

LEMMA WrittenKeeps ==
  ASSUME Types, StoreInStep, InStep, ~Compiling, NEW i \in Numbers, NEW p \in Nat,
         ToBeDone(i), Status(i) \in Executed \cup {"SKIP"}, Written(i, p)
  PROVE  RunOnly /\ StoreInStep' /\ InStep'
<1>1. /\ Numbers = 1..Len(Expressions) /\ Len(Expressions) \in Nat
      /\ \A k \in Numbers : /\ k \in Nat /\ k > 0 /\ Expressions[k] \in Records
                            /\ Expressions[k].onfile \in Nat /\ Expressions[k].partodo \in BOOLEAN
      /\ CurExpr \in Nat /\ CurExpr # 0 /\ OldOnFile \in Seq(Nat) /\ Len(OldOnFile) = Len(Expressions)
  BY Basics DEF Types, Compiling
<1>2. /\ Expressions'[i].name = Name(i) /\ Expressions'[i].replace = Expressions[i].replace
      /\ Expressions'[i].value = Expressions[i].value /\ Expressions'[i].status = Status(i)
      /\ Expressions'[i].partodo = Expressions[i].partodo
      /\ Expressions'[i].onfile = p /\ Expressions'[i] \in Records
      /\ \A k \in Numbers : k # i => Expressions'[k] = Expressions[k]
      /\ Expressions' = [k \in Numbers |-> Expressions'[k]]
  <2>1. /\ Expressions'[i] = [Expressions[i] EXCEPT !.onfile = p]
        /\ \A k \in Numbers : k # i => Expressions'[k] = Expressions[k]
        /\ Expressions' = [k \in Numbers |-> Expressions'[k]]
    BY DEF Written, Numbers
  <2>2. Expressions[i] \in Records
    BY <1>1
  <2>3. QED
    BY <2>1, <2>2 DEF Records, Name, Status
<1>3. /\ Expressions' \in Seq(Records) /\ Len(Expressions') = Len(Expressions) /\ Numbers' = Numbers
  BY <1>1, <1>2, Rewritten
<1>4. ~Compiling' /\ CurExpr' >= CurExpr /\ CurExpr' \in Nat
  BY <1>1 DEF Written, Compiling
<1>5. RunOnly
  BY <1>2, <1>3, <1>4 DEF RunOnly, Written, Name, Status, Executed
<1>6. StoreInStep' /\ NamesInStep' /\ OldInStep' /\ CompiledInStep'
  BY <1>5, RunOnlyKeeps DEF InStep
<1>7. \A k \in Numbers : /\ Expressions'[k].status = Status(k) /\ Expressions'[k].name = Name(k)
                         /\ Expressions'[k].value = Expressions[k].value
                         /\ Expressions'[k].partodo = Expressions[k].partodo
                         /\ Value(k)' = Value(k)
  <2>1. \A k \in Numbers : /\ Expressions'[k].status = Status(k) /\ Expressions'[k].name = Name(k)
                           /\ Expressions'[k].value = Expressions[k].value
                           /\ Expressions'[k].partodo = Expressions[k].partodo
    BY <1>2 DEF Name, Status
  <2>2. old' = old
    BY DEF Written
  <2>3. QED
    BY <2>1, <2>2, ValueStays
<1>8. /\ todo # {} => CurExpr = 1
      /\ \A k \in todo : Expressions[k].partodo /\ Status(k) \in Executed
  BY DEF InStep, RunInStep
<1>9. ASSUME NEW k \in Numbers
      PROVE  ToBeDone(k)' <=> ToBeDone(k) /\ k # i
  <2>1. Expressions'[k].partodo = Expressions[k].partodo /\ k \in Nat /\ CurExpr \in Nat
    BY <1>1, <1>7
  <2>2. CASE i \in todo /\ todo' = todo \ {i} /\ CurExpr' = CurExpr
    BY <1>8, <2>1, <2>2 DEF ToBeDone
  <2>3. CASE i = CurExpr /\ todo = {} /\ todo' = {} /\ CurExpr' = CurExpr + 1
    <3>1. k >= CurExpr + 1 <=> k >= CurExpr /\ k # CurExpr
      BY <2>1
    <3>2. QED
      BY <2>1, <2>3, <3>1 DEF ToBeDone
  <2>4. QED
    BY <2>2, <2>3 DEF Written
<1>10. ASSUME NEW k \in Numbers, ToBeDone(k), k # i, Status(k) \in ReadLater
       PROVE  infile' = infile
  <2>1. CASE i = CurExpr /\ todo = {} /\ LastExpression(i)
    <3>1. k > i
      BY <1>1, <1>10, <2>1 DEF ToBeDone
    <3>2. QED
      BY <1>10, <2>1, <3>1 DEF LastExpression, Status
  <2>2. QED
    BY <2>1 DEF Written
<1>11. RunInStep'
  <2>1. /\ todo' # {} => CurExpr' = 1
        /\ \A k \in todo' : Expressions'[k].partodo /\ Expressions'[k].status \in Executed
    <3>1. todo' \subseteq todo /\ (todo' # {} => CurExpr' = CurExpr) /\ todo \subseteq Numbers
      BY DEF Written, Types
    <3>2. QED
      BY <1>7, <1>8, <3>1
  <2>2. ASSUME NEW k \in Numbers, ToBeDone(k)', Expressions'[k].status \in ReadLater \cup {"HIDDEN"}
        PROVE  /\ OldOnFile'[k] = Expressions'[k].onfile
               /\ Holds(IF Expressions'[k].status \in InHideFile THEN hidefile' ELSE infile',
                        Expressions'[k].onfile, Expressions'[k].name, Expressions'[k].value)
    <3>1. k # i /\ ToBeDone(k) /\ Expressions'[k] = Expressions[k] /\ Status(k) \in ReadLater \cup {"HIDDEN"}
      BY <1>2, <1>7, <1>9, <2>2
    <3>2. /\ OldOnFile[k] = Expressions[k].onfile
          /\ Holds(Source(k), Expressions[k].onfile, Name(k), Expressions[k].value)
      BY <3>1 DEF InStep, RunInStep, Needed
    <3>3. CASE Status(k) \in InHideFile
      <4>1. Holds(hidefile, Expressions[k].onfile, Name(k), Expressions[k].value)
        BY <3>2, <3>3 DEF Source
      <4>2. Holds(hidefile', Expressions[k].onfile, Name(k), Expressions[k].value)
        BY <1>1, <4>1, HoldsStays DEF Written
      <4>3. QED
        BY <3>1, <3>2, <3>3, <4>2 DEF Name, Status, Written
    <3>4. CASE Status(k) \notin InHideFile
      <4>1. Holds(infile, Expressions[k].onfile, Name(k), Expressions[k].value)
        BY <3>2, <3>4 DEF Source
      <4>2. infile' = infile
        BY <1>10, <3>1, <3>4 DEF InHideFile
      <4>3. QED
        BY <3>1, <3>2, <3>4, <4>1, <4>2 DEF Name, Status, Written
    <3>5. QED
      BY <3>3, <3>4
  <2>3. ASSUME NEW k \in Numbers, ~ToBeDone(k)', Expressions'[k].status \notin {"STORED", "DROP", "DROPH"}
        PROVE  /\ Expressions'[k].status # "HIDE"
               /\ Holds(IF Expressions'[k].status \in {"HIDDEN", "INTOHIDE"} THEN hidefile' ELSE outfile',
                        Expressions'[k].onfile, Expressions'[k].name, Value(k)')
    <3>1. CASE k = i
      <4>1. /\ Status(i) \in Executed \cup {"SKIP"}
            /\ Holds(IF Status(i) = "INTOHIDE" THEN hidefile' ELSE outfile', p, Name(i), Value(i))
        BY DEF Written
      <4>2. Expressions'[i].name = Name(i) /\ Expressions'[i].status = Status(i) /\ Expressions'[i].onfile = p
            /\ Value(i)' = Value(i)
        BY <1>2, <1>7
      <4>3. Status(i) # "HIDE" /\ Status(i) # "HIDDEN"
        BY <4>1 DEF Executed
      <4>4. QED
        BY <3>1, <4>1, <4>2, <4>3
    <3>2. CASE k # i
      <4>1. ~ToBeDone(k) /\ Status(k) \notin {"STORED", "DROP", "DROPH"} /\ Expressions'[k] = Expressions[k]
        BY <1>2, <1>7, <1>9, <2>3, <3>2
      <4>2. /\ Status(k) # "HIDE"
            /\ Holds(Target(k), Expressions[k].onfile, Name(k), Value(k))
        BY <4>1 DEF InStep, RunInStep
      <4>3. CASE Status(k) \in {"HIDDEN", "INTOHIDE"}
        <5>1. Holds(hidefile, Expressions[k].onfile, Name(k), Value(k))
          BY <4>2, <4>3 DEF Target
        <5>2. Holds(hidefile', Expressions[k].onfile, Name(k), Value(k))
          BY <1>1, <5>1, HoldsStays DEF Written
        <5>3. QED
          BY <1>7, <4>1, <4>2, <4>3, <5>2 DEF Name, Status
      <4>4. CASE Status(k) \notin {"HIDDEN", "INTOHIDE"}
        <5>1. Holds(outfile, Expressions[k].onfile, Name(k), Value(k))
          BY <4>2, <4>4 DEF Target
        <5>2. Holds(outfile', Expressions[k].onfile, Name(k), Value(k))
          BY <1>1, <5>1, HoldsStays DEF Written
        <5>3. QED
          BY <1>7, <4>1, <4>2, <4>4, <5>2 DEF Name, Status
      <4>5. QED
        BY <4>3, <4>4
    <3>3. QED
      BY <3>1, <3>2
  <2>4. QED
    BY <1>3, <2>1, <2>2, <2>3 DEF RunInStep, Needed, Source, Target, Name, Status
<1>12. OldCanBeRead'
  <2> SUFFICES ASSUME StillReading', NEW j \in DOMAIN old, Expressions'[j].status # "STORED"
               PROVE  LET file == IF Expressions'[j].status \in InHideFile THEN hidefile' ELSE infile'
                      IN IsIn(file, OldOnFile'[j]) /\ At(file, OldOnFile'[j]).terms = old[j]
    BY DEF OldCanBeRead, Written, Source, Status
  <2>1. \E k \in Numbers : ToBeDone(k) /\ k # i /\ Status(k) \in Executed
    <3>1. \E k \in Numbers' : ToBeDone(k)' /\ Expressions'[k].status \in Executed
      <4>1. CASE todo' # {}
        <5>1. PICK k \in todo' : TRUE
          BY <4>1
        <5>2. k \in todo /\ k \in Numbers
          BY <5>1 DEF Written, Types
        <5>3. ToBeDone(k)' /\ Expressions'[k].status \in Executed
          BY <1>7, <1>8, <5>1, <5>2 DEF ToBeDone
        <5>4. QED
          BY <1>3, <5>2, <5>3
      <4>2. CASE \E k \in Numbers' : k >= CurExpr' /\ ~ Expressions'[k].partodo /\ Expressions'[k].status \in Executed
        BY <4>2 DEF ToBeDone
      <4>3. QED
        BY <4>1, <4>2 DEF StillReading
    <3>2. QED
      BY <1>3, <1>7, <1>9, <3>1
  <2>2. infile' = infile
    BY <1>10, <2>1 DEF Executed, ReadLater
  <2>3. StillReading
    BY <2>1 DEF StillReading, ToBeDone, Status
  <2>4. j \in Numbers /\ Expressions'[j].status = Status(j) /\ Status(j) # "STORED"
        /\ OldOnFile'[j] = OldOnFile[j] /\ OldOnFile[j] \in Nat
    <3>1. j \in Numbers
      BY Basics
    <3>2. OldOnFile[j] \in Nat
      BY <1>1, <3>1
    <3>3. QED
      BY <1>7, <3>1, <3>2 DEF Written
  <2>5. IsIn(Source(j), OldOnFile[j]) /\ At(Source(j), OldOnFile[j]).terms = old[j]
    BY <2>3, <2>4 DEF InStep, OldCanBeRead
  <2>6. CASE Status(j) \in InHideFile
    <3>1. IsIn(hidefile, OldOnFile[j]) /\ At(hidefile, OldOnFile[j]).terms = old[j]
      BY <2>5, <2>6 DEF Source
    <3>2. IsIn(hidefile', OldOnFile[j]) /\ At(hidefile', OldOnFile[j]).terms = old[j]
      BY <2>4, <3>1 DEF Written, Grows
    <3>3. QED
      BY <2>4, <2>6, <3>2
  <2>7. CASE Status(j) \notin InHideFile
    <3>1. IsIn(infile, OldOnFile[j]) /\ At(infile, OldOnFile[j]).terms = old[j]
      BY <2>5, <2>7 DEF Source
    <3>2. QED
      BY <2>2, <2>4, <2>7, <3>1
  <2>8. QED
    BY <2>6, <2>7
<1>13. QED
  BY <1>5, <1>6, <1>11, <1>12 DEF InStep

LEMMA Moved ==
  ASSUME Types, NEW i \in Numbers, NEW p \in Nat, Status(i) # "STORED", ~Compiling',
         Expressions' = [Expressions EXCEPT ![i].onfile = p],
         UNCHANGED <<number, store, compiletype, old>>
  PROVE  RunOnly
<1>1. /\ Expressions'[i] = [Expressions[i] EXCEPT !.onfile = p]
      /\ \A k \in Numbers : k # i => Expressions'[k] = Expressions[k]
      /\ Expressions' = [k \in Numbers |-> Expressions'[k]]
  BY DEF Numbers
<1>2. \A k \in Numbers : Expressions[k] \in Records
  BY Basics
<1>3. \A k \in Numbers : /\ Expressions'[k] \in Records
                         /\ Expressions'[k].name = Name(k)
                         /\ Expressions'[k].replace = Expressions[k].replace
                         /\ Expressions'[k].value = Expressions[k].value
                         /\ Expressions'[k].status = Status(k)
                         /\ k # i => Expressions'[k].onfile = Expressions[k].onfile
  <2>1. ASSUME NEW k \in Numbers, k # i
        PROVE  Expressions'[k] = Expressions[k] /\ Expressions[k] \in Records
    BY <1>1, <1>2, <2>1
  <2>2. Expressions[i] \in Records
    BY <1>2
  <2>3. QED
    BY <1>1, <2>1, <2>2 DEF Records, Name, Status
<1>4. /\ Expressions' \in Seq(Records) /\ Len(Expressions') = Len(Expressions) /\ Numbers' = Numbers
  BY <1>1, <1>3, Rewritten
<1>5. QED
  BY <1>3, <1>4 DEF RunOnly

\* An expression that is read is where it was, and what is made of it is right.
LEMMA ReadRight ==
  ASSUME Types, StoreInStep, InStep, ~Compiling, NEW i \in Numbers, ToBeDone(i), Needed(i)
  PROVE  /\ IsIn(Source(i), Expressions[i].onfile)
         /\ At(Source(i), Expressions[i].onfile).terms = Expressions[i].value
         /\ OldOnFile[i] = Expressions[i].onfile
         /\ Status(i) \in Executed => Generator(At(Source(i), Expressions[i].onfile).terms) = Value(i)
         /\ Status(i) \notin Executed => Expressions[i].value = Value(i)
         /\ Value(i) \in Contents /\ Expressions[i].value \in Contents
<1>1. /\ OldOnFile[i] = Expressions[i].onfile
      /\ Holds(Source(i), Expressions[i].onfile, Name(i), Expressions[i].value)
  BY DEF InStep, RunInStep
<1>2. /\ IsIn(Source(i), Expressions[i].onfile)
      /\ At(Source(i), Expressions[i].onfile).terms = Expressions[i].value
  BY <1>1 DEF Holds
<1>3. Status(i) \in Executed => Generator(At(Source(i), Expressions[i].onfile).terms) = Value(i)
  BY <1>2, GeneratorIsRight DEF InStep
<1>4. Status(i) \notin Executed => Expressions[i].value = Value(i)
  BY DEF Value, Status
<1>5. Value(i) \in Contents /\ Expressions[i].value \in Contents
  BY ValueTypes, Basics DEF InStep
<1>6. QED
  BY <1>1, <1>2, <1>3, <1>4, <1>5

LEMMA DoOneExpressionKeeps ==
  ASSUME Types, StoreInStep, InStep, trouble = "none", NEW i \in todo, DoOneExpression(i)
  PROVE  /\ Types' /\ StoreInStep' /\ (trouble' = "none" => InStep')
         /\ trouble' \in {"none", "wrong file", "hide file cut"}
<1> DEFINE e == Expressions[i]
           terms == IF e.status = "UNHIDE" THEN Garbage ELSE Generator(At(infile, OldOnFile[i]).terms)
<1>1. /\ i \in Numbers /\ ~Compiling /\ todo \subseteq Numbers
  BY DEF Types
<1>2. /\ ToBeDone(i) /\ Status(i) \in Executed /\ Needed(i)
  BY <1>1 DEF InStep, RunInStep, ToBeDone, Needed, Executed, ReadLater
<1>3. /\ UNCHANGED <<number, infile, store, HideLevel, compiletype, inparallelflag, CurExpr,
                     OldOnFile, statements, modules, old>>
      /\ todo' = todo \ {i} /\ ~Compiling'
      /\ trouble' \in {"none", "wrong file", "hide file cut"}
      /\ trouble' = "none" => Status(i) # "UNHIDE" /\ ~(hidefill < Len(hidefile))
  <2>1. /\ UNCHANGED <<number, infile, store, HideLevel, compiletype, inparallelflag, CurExpr,
                       OldOnFile, statements, modules, old>>
        /\ todo' = todo \ {i}
        /\ trouble' = IF Status(i) = "UNHIDE" THEN "wrong file"
                      ELSE IF hidefill < Len(hidefile) THEN "hide file cut" ELSE trouble
    BY DEF DoOneExpression, compilevars, Status
  <2>2. QED
    BY <1>1, <2>1 DEF Compiling
<1>4. terms \in Contents /\ (Status(i) # "UNHIDE" => terms = Value(i))
  <2>1. CASE Status(i) = "UNHIDE"
    BY <2>1 DEF Garbage, Terms, Contents, Status
  <2>2. CASE Status(i) # "UNHIDE"
    <3>1. Source(i) = infile
      BY <1>2, <2>2 DEF Source, InHideFile, Executed
    <3>2. At(infile, OldOnFile[i]) = At(Source(i), Expressions[i].onfile)
      BY <1>1, <1>2, <3>1, ReadRight
    <3>3. terms = Generator(At(Source(i), Expressions[i].onfile).terms)
      BY <2>2, <3>2 DEF Status
    <3> HIDE DEF terms
    <3>4. QED
      BY <1>1, <1>2, <3>3, ReadRight
  <2>3. QED
    BY <2>1, <2>2
<1>5. \/ /\ Status(i) = "INTOHIDE"
         /\ hidefile' = Append(hidefile, [name |-> Name(i), terms |-> terms])
         /\ hidefill' = Len(hidefile')
         /\ Expressions' = [Expressions EXCEPT ![i].onfile = hidefill]
         /\ UNCHANGED outfile
      \/ /\ Status(i) # "INTOHIDE"
         /\ outfile' = Append(outfile, [name |-> Name(i), terms |-> terms])
         /\ Expressions' = [Expressions EXCEPT ![i].onfile = Len(outfile)]
         /\ hidefile' = SubSeq(hidefile, 1, hidefill)
         /\ UNCHANGED hidefill
  BY DEF DoOneExpression, ToOutfile, Status, Name
<1> HIDE DEF terms, e
<1>6. /\ Name(i) \in Names /\ outfile \in Seq(Entries) /\ hidefile \in Seq(Entries)
      /\ hidefill \in 0..Len(hidefile) /\ Len(hidefile) \in Nat /\ Len(outfile) \in Nat
      /\ Status(i) # "STORED"
  <2>1. Name(i) \in Names
    BY <1>1, Basics
  <2>2. outfile \in Seq(Entries) /\ hidefile \in Seq(Entries) /\ hidefill \in 0..Len(hidefile)
    BY DEF Types
  <2>3. Len(hidefile) \in Nat /\ Len(outfile) \in Nat
    BY <2>2
  <2>4. QED
    BY <1>2, <2>1, <2>2, <2>3 DEF Executed
<1>7. /\ infile' \in Seq(Entries) /\ OldOnFile' \in Seq(Nat) /\ Len(OldOnFile') = Len(Expressions)
      /\ CurExpr' \in Nat /\ modules' \in Nat /\ trouble' \in Troubles /\ todo' \subseteq Numbers
  BY <1>1, <1>3 DEF Types, Troubles
<1>8. CASE Status(i) = "INTOHIDE"
  <2>1. /\ hidefile' \in Seq(Entries) /\ Len(hidefile') = Len(hidefile) + 1 /\ Grows(hidefile, hidefile')
        /\ Holds(hidefile', Len(hidefile), Name(i), terms)
        /\ outfile' = outfile /\ hidefill' = Len(hidefile')
        /\ Expressions' = [Expressions EXCEPT ![i].onfile = hidefill]
    BY <1>4, <1>5, <1>6, <1>8, AppendGrows
  <2>2. RunOnly
    <3>1. hidefill \in Nat
      BY <1>6
    <3>2. QED
      BY <1>1, <1>3, <1>6, <2>1, <3>1, Moved
  <2>3. Types'
    <3>1. hidefill' \in 0..Len(hidefile') /\ outfile' \in Seq(Entries)
      BY <1>6, <2>1
    <3>2. QED
      BY <1>3, <1>7, <2>1, <2>2, <3>1, RunTypes
  <2>4. ASSUME trouble' = "none"
        PROVE  Written(i, hidefill)
    <3>1. hidefill = Len(hidefile) /\ terms = Value(i)
      BY <1>3, <1>4, <1>6, <2>4
    <3>2. Grows(outfile, outfile')
      BY <2>1 DEF Grows
    <3>3. QED
      BY <1>3, <1>8, <2>1, <3>1, <3>2 DEF Written
  <2>5. trouble' = "none" => InStep'
    BY <1>1, <1>2, <1>6, <2>4, WrittenKeeps
  <2>6. QED
    BY <1>3, <2>2, <2>3, <2>5, RunOnlyKeeps
<1>9. CASE Status(i) # "INTOHIDE"
  <2>1. /\ outfile' \in Seq(Entries) /\ Grows(outfile, outfile')
        /\ Holds(outfile', Len(outfile), Name(i), terms)
        /\ hidefile' = SubSeq(hidefile, 1, hidefill) /\ hidefill' = hidefill
        /\ Expressions' = [Expressions EXCEPT ![i].onfile = Len(outfile)]
    BY <1>4, <1>5, <1>6, <1>9, AppendGrows
  <2>2. RunOnly
    BY <1>1, <1>3, <1>6, <2>1, Moved
  <2>3. hidefile' \in Seq(Entries) /\ Len(hidefile') = hidefill
    BY <1>6, <2>1
  <2>4. Types'
    <3>1. hidefill' \in 0..Len(hidefile')
      BY <1>6, <2>1, <2>3
    <3>2. QED
      BY <1>3, <1>7, <2>1, <2>2, <2>3, <3>1, RunTypes
  <2>5. ASSUME trouble' = "none"
        PROVE  Written(i, Len(outfile))
    <3>1. hidefill = Len(hidefile) /\ terms = Value(i)
      BY <1>3, <1>4, <1>6, <2>5
    <3>2. hidefile' = hidefile
      BY <1>6, <2>1, <3>1
    <3>3. Grows(hidefile, hidefile')
      BY <3>2 DEF Grows
    <3>4. QED
      BY <1>3, <1>9, <2>1, <3>1, <3>3 DEF Written
  <2>6. trouble' = "none" => InStep'
    BY <1>1, <1>2, <1>6, <2>5, WrittenKeeps
  <2>7. QED
    BY <1>3, <2>2, <2>4, <2>6, RunOnlyKeeps
<1>10. QED
  BY <1>8, <1>9

LEMMA ProcessActiveKeeps ==
  ASSUME Types, StoreInStep, InStep, Process, ~Compiling, ToBeDone(CurExpr), ProcessActive(CurExpr),
         trouble' = "none"
  PROVE  Types' /\ StoreInStep' /\ InStep'
<1> DEFINE i == CurExpr
           hidden == Status(i) = "UNHIDE"
           terms == Generator(At(Source(i), Expressions[i].onfile).terms)
<1>1. /\ i \in Numbers /\ todo = {} /\ CurExpr' = CurExpr + 1
      /\ UNCHANGED <<number, store, HideLevel, compiletype, inparallelflag, todo, statements,
                     modules, old>>
  BY DEF Process, compilevars
<1>2. Status(i) \in Executed /\ Needed(i) /\ Status(i) # "STORED"
      /\ Source(i) = IF hidden THEN hidefile ELSE infile
  BY DEF ProcessActive, Needed, Executed, ReadLater, Status, Source, InHideFile
<1>3. terms = Value(i) /\ terms \in Contents /\ IsIn(Source(i), Expressions[i].onfile)
  BY <1>1, <1>2, ReadRight
<1>4. /\ infile' = infile \/ (infile' = <<>> /\ LastExpression(i))
      /\ UNCHANGED OldOnFile
      /\ \/ /\ Status(i) = "INTOHIDE"
            /\ hidefile' = Append(hidefile, [name |-> Name(i), terms |-> terms])
            /\ hidefill' = Len(hidefile')
            /\ Expressions' = [Expressions EXCEPT ![i].onfile = Len(hidefile)]
            /\ UNCHANGED outfile
         \/ /\ Status(i) # "INTOHIDE"
            /\ outfile' = Append(outfile, [name |-> Name(i), terms |-> terms])
            /\ Expressions' = [Expressions EXCEPT ![i].onfile = Len(outfile)]
            /\ hidefill' = IF hidden THEN Expressions[i].onfile + 1 ELSE hidefill
            /\ UNCHANGED hidefile
  BY <1>2 DEF ProcessActive, ToOutfile, Status, Name
<1> HIDE DEF terms
<1>5. /\ Name(i) \in Names /\ Expressions[i].onfile \in Nat
      /\ outfile \in Seq(Entries) /\ hidefile \in Seq(Entries) /\ infile \in Seq(Entries)
      /\ hidefill \in 0..Len(hidefile) /\ Len(hidefile) \in Nat /\ Len(outfile) \in Nat
  <2>1. Name(i) \in Names /\ Expressions[i].onfile \in Nat
    BY <1>1, Basics
  <2>2. /\ outfile \in Seq(Entries) /\ hidefile \in Seq(Entries) /\ infile \in Seq(Entries)
        /\ hidefill \in 0..Len(hidefile)
    BY DEF Types
  <2>3. Len(hidefile) \in Nat /\ Len(outfile) \in Nat
    BY <2>2
  <2>4. QED
    BY <2>1, <2>2, <2>3
<1>6. /\ infile' \in Seq(Entries) /\ OldOnFile' \in Seq(Nat) /\ Len(OldOnFile') = Len(Expressions)
      /\ CurExpr' \in Nat /\ modules' \in Nat /\ trouble' \in Troubles /\ todo' \subseteq Numbers
  <2>1. CurExpr' \in Nat
    BY <1>1 DEF Types
  <2>2. infile' \in Seq(Entries)
    <3>1. <<>> \in Seq(Entries) /\ infile \in Seq(Entries)
      BY <1>5
    <3>2. infile' = infile \/ infile' = <<>>
      BY <1>4
    <3>3. QED
      BY <3>1, <3>2
  <2>3. OldOnFile' \in Seq(Nat) /\ Len(OldOnFile') = Len(Expressions)
    BY <1>4 DEF Types
  <2>4. QED
    BY <1>1, <2>1, <2>2, <2>3 DEF Types, Troubles
<1>7. ~Compiling'
  BY <1>1 DEF Compiling, Types
<1>8. \E p \in Nat : /\ Expressions' = [Expressions EXCEPT ![i].onfile = p]
                     /\ outfile' \in Seq(Entries) /\ hidefile' \in Seq(Entries)
                     /\ hidefill' \in 0..Len(hidefile')
                     /\ Grows(outfile, outfile') /\ Grows(hidefile, hidefile')
                     /\ Holds(IF Status(i) = "INTOHIDE" THEN hidefile' ELSE outfile', p, Name(i), terms)
  <2>1. CASE Status(i) = "INTOHIDE"
    <3>1. /\ hidefile' \in Seq(Entries) /\ Len(hidefile') = Len(hidefile) + 1 /\ Grows(hidefile, hidefile')
          /\ Holds(hidefile', Len(hidefile), Name(i), terms)
          /\ outfile' = outfile /\ hidefill' = Len(hidefile')
          /\ Expressions' = [Expressions EXCEPT ![i].onfile = Len(hidefile)]
      BY <1>3, <1>4, <1>5, <2>1, AppendGrows
    <3>2. Grows(outfile, outfile') /\ hidefill' \in 0..Len(hidefile')
      BY <1>5, <3>1 DEF Grows
    <3>3. QED
      BY <1>5, <2>1, <3>1, <3>2
  <2>2. CASE Status(i) # "INTOHIDE"
    <3>1. /\ outfile' \in Seq(Entries) /\ Grows(outfile, outfile')
          /\ Holds(outfile', Len(outfile), Name(i), terms)
          /\ hidefile' = hidefile /\ hidefill' = IF hidden THEN Expressions[i].onfile + 1 ELSE hidefill
          /\ Expressions' = [Expressions EXCEPT ![i].onfile = Len(outfile)]
      BY <1>3, <1>4, <1>5, <2>2, AppendGrows
    <3>2. Grows(hidefile, hidefile')
      BY <3>1 DEF Grows
    <3>3. hidefill' \in 0..Len(hidefile')
      <4>1. CASE hidden
        <5>1. Expressions[i].onfile < Len(hidefile)
          BY <1>2, <1>3, <1>5, <4>1, FileFacts
        <5>2. QED
          BY <1>5, <3>1, <4>1, <5>1
      <4>2. CASE ~hidden
        BY <1>5, <3>1, <4>2
      <4>3. QED
        BY <4>1, <4>2
    <3>4. QED
      BY <1>5, <2>2, <3>1, <3>2, <3>3
  <2>3. QED
    BY <2>1, <2>2
<1>9. PICK p \in Nat : /\ Expressions' = [Expressions EXCEPT ![i].onfile = p]
                       /\ outfile' \in Seq(Entries) /\ hidefile' \in Seq(Entries)
                       /\ hidefill' \in 0..Len(hidefile')
                       /\ Grows(outfile, outfile') /\ Grows(hidefile, hidefile')
                       /\ Holds(IF Status(i) = "INTOHIDE" THEN hidefile' ELSE outfile', p, Name(i), terms)
  BY <1>8
<1>10. Written(i, p)
  BY <1>1, <1>3, <1>4, <1>9 DEF Written
<1>11. RunOnly
  BY <1>1, <1>2, <1>7, <1>9, Moved
<1>12. Types'
  BY <1>1, <1>6, <1>9, <1>11, RunTypes
<1>13. QED
  BY <1>1, <1>2, <1>10, <1>12, WrittenKeeps

LEMMA ProcessSkippedKeeps ==
  ASSUME Types, StoreInStep, InStep, Process, ~Compiling, ToBeDone(CurExpr), ProcessSkipped(CurExpr),
         trouble' = "none"
  PROVE  Types' /\ StoreInStep' /\ InStep'
<1> DEFINE i == CurExpr
<1>1. /\ i \in Numbers /\ todo = {} /\ CurExpr' = CurExpr + 1
      /\ UNCHANGED <<number, store, HideLevel, compiletype, inparallelflag, todo, statements,
                     modules, old>>
      /\ UNCHANGED <<infile, hidefile, hidefill, OldOnFile>>
  BY DEF Process, ProcessSkipped, compilevars
<1>2. Status(i) = "SKIP" /\ Needed(i) /\ Source(i) = infile
  BY DEF ProcessSkipped, Needed, ReadLater, Status, Source, InHideFile
<1>3. /\ At(infile, Expressions[i].onfile).terms = Value(i) /\ Value(i) \in Contents
  BY <1>1, <1>2, ReadRight DEF Executed
<1>4. /\ outfile' = Append(outfile, [name |-> Name(i), terms |-> Value(i)])
      /\ Expressions' = [Expressions EXCEPT ![i].onfile = Len(outfile)]
  BY <1>3 DEF ProcessSkipped, ToOutfile, Name
<1>5. Name(i) \in Names /\ outfile \in Seq(Entries) /\ Len(outfile) \in Nat
  <2>1. outfile \in Seq(Entries)
    BY DEF Types
  <2>2. QED
    BY <1>1, <2>1, Basics
<1>6. /\ outfile' \in Seq(Entries) /\ Grows(outfile, outfile')
      /\ Holds(outfile', Len(outfile), Name(i), Value(i))
  BY <1>3, <1>4, <1>5, AppendGrows
<1>7. /\ infile' \in Seq(Entries) /\ OldOnFile' \in Seq(Nat) /\ Len(OldOnFile') = Len(Expressions)
      /\ hidefile' \in Seq(Entries) /\ hidefill' \in 0..Len(hidefile') /\ todo' \subseteq Numbers
      /\ CurExpr' \in Nat /\ modules' \in Nat /\ trouble' \in Troubles /\ ~Compiling'
  <2>1. CurExpr' \in Nat /\ ~Compiling'
    BY <1>1 DEF Types, Compiling
  <2>2. QED
    BY <1>1, <2>1 DEF Types, Troubles
<1>8. Written(i, Len(outfile))
  BY <1>1, <1>2, <1>4, <1>6 DEF Written, Grows
<1>9. RunOnly
  BY <1>1, <1>2, <1>4, <1>5, <1>7, Moved
<1>10. Types'
  BY <1>1, <1>6, <1>7, <1>9, RunTypes
<1>11. QED
  BY <1>1, <1>2, <1>5, <1>8, <1>10, WrittenKeeps

LEMMA ProcessHideKeeps ==
  ASSUME Types, StoreInStep, InStep, Process, ~Compiling, ToBeDone(CurExpr), ProcessHide(CurExpr),
         trouble' = "none"
  PROVE  Types' /\ StoreInStep' /\ InStep'
<1> DEFINE i == CurExpr
           p == Len(hidefile)
<1>1. /\ i \in Numbers /\ todo = {} /\ CurExpr' = CurExpr + 1
      /\ UNCHANGED <<number, store, HideLevel, compiletype, inparallelflag, todo, statements,
                     modules, old>>
      /\ UNCHANGED <<infile, outfile>>
  BY DEF Process, ProcessHide, compilevars
<1>2. Status(i) = "HIDE" /\ Needed(i) /\ Source(i) = infile
  BY DEF ProcessHide, Needed, ReadLater, Status, Source, InHideFile
<1>3. /\ At(infile, Expressions[i].onfile).terms = Expressions[i].value
      /\ Value(i) = Expressions[i].value /\ Value(i) \in Contents
  BY <1>1, <1>2, ReadRight DEF Executed
<1>4. /\ hidefile' = Append(hidefile, [name |-> Name(i), terms |-> Value(i)])
      /\ hidefill' = Len(hidefile')
      /\ Expressions' = [Expressions EXCEPT ![i] = [@ EXCEPT !.status = "HIDDEN", !.onfile = p]]
      /\ OldOnFile' = [OldOnFile EXCEPT ![i] = p]
  BY <1>3 DEF ProcessHide, Hidden, Name
<1>5. /\ Name(i) \in Names /\ hidefile \in Seq(Entries) /\ p \in Nat
      /\ Numbers = 1..Len(Expressions) /\ Len(Expressions) \in Nat
      /\ OldOnFile \in Seq(Nat) /\ Len(OldOnFile) = Len(Expressions)
      /\ \A k \in Numbers : /\ Expressions[k] \in Records /\ k \in Nat /\ Expressions[k].onfile \in Nat
      /\ CurExpr \in Nat
  <2>1. hidefile \in Seq(Entries) /\ OldOnFile \in Seq(Nat) /\ Len(OldOnFile) = Len(Expressions)
        /\ CurExpr \in Nat
    BY DEF Types
  <2>2. p \in Nat
    BY <2>1
  <2>3. QED
    BY <1>1, <2>1, <2>2, Basics
<1> HIDE DEF p
<1>6. /\ hidefile' \in Seq(Entries) /\ Len(hidefile') = p + 1 /\ Grows(hidefile, hidefile')
      /\ Holds(hidefile', p, Name(i), Value(i))
  BY <1>3, <1>4, <1>5, AppendGrows DEF p
<1>7. /\ \A k \in Numbers : k # i => Expressions'[k] = Expressions[k]
      /\ Expressions'[i] = [Expressions[i] EXCEPT !.status = "HIDDEN", !.onfile = p]
      /\ Expressions' = [k \in Numbers |-> Expressions'[k]]
  BY <1>1, <1>4 DEF Numbers
<1>8. /\ Expressions'[i] \in Records /\ Expressions'[i].name = Name(i)
      /\ Expressions'[i].replace = Expressions[i].replace
      /\ Expressions'[i].value = Expressions[i].value
      /\ Expressions'[i].status = "HIDDEN" /\ Expressions'[i].onfile = p
      /\ Expressions'[i].partodo = Expressions[i].partodo
  <2>1. Expressions[i] \in Records
    BY <1>1, <1>5
  <2>2. QED
    BY <1>5, <1>7, <2>1 DEF Records, Statuses, Name
<1>9. Expressions' \in Seq(Records) /\ Len(Expressions') = Len(Expressions) /\ Numbers' = Numbers
  <2>1. \A k \in Numbers : Expressions'[k] \in Records
    BY <1>5, <1>7, <1>8
  <2>2. QED
    BY <1>7, <2>1, Rewritten
<1>10. OldOnFile' \in Seq(Nat) /\ Len(OldOnFile') = Len(Expressions)
       /\ OldOnFile'[i] = p /\ \A k \in Numbers : k # i => OldOnFile'[k] = OldOnFile[k]
  <2>1. DOMAIN OldOnFile = Numbers
    BY <1>5
  <2>2. /\ OldOnFile' = [k \in 1..Len(Expressions) |-> OldOnFile'[k]]
        /\ OldOnFile'[i] = p /\ \A k \in Numbers : k # i => OldOnFile'[k] = OldOnFile[k]
    BY <1>1, <1>4, <1>5, <2>1
  <2>3. \A k \in 1..Len(Expressions) : OldOnFile'[k] \in Nat
    BY <1>5, <2>2
  <2>4. QED
    BY <1>5, <2>2, <2>3, IsSeqOf
<1>11. ~Compiling' /\ CurExpr' \in Nat
  BY <1>1, <1>5 DEF Compiling
<1>12. RunOnly
  <2>1. \A k \in Numbers :
          /\ Expressions'[k].name = Name(k)
          /\ Expressions'[k].replace = Expressions[k].replace
          /\ Expressions'[k].value = Expressions[k].value
          /\ \/ Expressions'[k].status = Status(k)
             \/ Status(k) = "HIDE" /\ Expressions'[k].status = "HIDDEN"
          /\ Status(k) = "STORED" => Expressions'[k].onfile = Expressions[k].onfile
    BY <1>2, <1>7, <1>8 DEF Name, Status
  <2>2. QED
    BY <1>1, <1>9, <1>11, <2>1 DEF RunOnly
<1>13. Types'
  <2>1. /\ infile' \in Seq(Entries) /\ outfile' \in Seq(Entries) /\ modules' \in Nat
        /\ trouble' \in Troubles /\ todo' \subseteq Numbers
    BY <1>1 DEF Types, Troubles
  <2>2. hidefill' \in 0..Len(hidefile')
    BY <1>4, <1>5, <1>6
  <2>3. QED
    BY <1>1, <1>6, <1>10, <1>11, <1>12, <2>1, <2>2, RunTypes
<1>14. StoreInStep' /\ NamesInStep' /\ OldInStep' /\ CompiledInStep'
  BY <1>12, RunOnlyKeeps DEF InStep
<1>15. ASSUME NEW k \in Numbers, k # i
       PROVE  ToBeDone(k)' <=> ToBeDone(k)
  <2>1. k >= CurExpr + 1 <=> k >= CurExpr
    BY <1>5, <1>15
  <2>2. QED
    BY <1>1, <1>7, <1>15, <2>1 DEF ToBeDone
<1>16. \A k \in Numbers : Value(k)' = Value(k)
  <2>1. \A k \in Numbers :
          /\ Expressions'[k].value = Expressions[k].value
          /\ Expressions'[k].status = Status(k) \/ (Status(k) = "HIDE" /\ Expressions'[k].status = "HIDDEN")
    BY <1>12 DEF RunOnly
  <2>2. QED
    BY <1>1, <2>1, ValueStays
<1>17. RunInStep'
  <2>1. todo' = {}
    BY <1>1
  <2>2. ASSUME NEW k \in Numbers, ToBeDone(k)', Expressions'[k].status \in ReadLater \cup {"HIDDEN"}
        PROVE  /\ OldOnFile'[k] = Expressions'[k].onfile
               /\ Holds(IF Expressions'[k].status \in InHideFile THEN hidefile' ELSE infile',
                        Expressions'[k].onfile, Expressions'[k].name, Expressions'[k].value)
    <3>1. k # i
      <4>1. k >= CurExpr + 1
        BY <1>1, <2>2 DEF ToBeDone
      <4>2. QED
        BY <1>5, <4>1
    <3>2. ToBeDone(k) /\ Expressions'[k] = Expressions[k] /\ Needed(k)
      BY <1>7, <1>15, <2>2, <3>1 DEF Needed, Status
    <3>3. /\ OldOnFile[k] = Expressions[k].onfile
          /\ Holds(Source(k), Expressions[k].onfile, Name(k), Expressions[k].value)
      BY <3>2 DEF InStep, RunInStep
    <3>4. OldOnFile'[k] = Expressions'[k].onfile
      BY <1>10, <3>1, <3>2, <3>3
    <3>5. CASE Status(k) \in InHideFile
      <4>1. Holds(hidefile, Expressions[k].onfile, Name(k), Expressions[k].value)
        BY <3>3, <3>5 DEF Source
      <4>2. Holds(hidefile', Expressions[k].onfile, Name(k), Expressions[k].value)
        BY <1>5, <1>6, <4>1, HoldsStays
      <4>3. QED
        BY <3>2, <3>4, <3>5, <4>2 DEF Name, Status
    <3>6. CASE Status(k) \notin InHideFile
      <4>1. Holds(infile, Expressions[k].onfile, Name(k), Expressions[k].value)
        BY <3>3, <3>6 DEF Source
      <4>2. QED
        BY <1>1, <3>2, <3>4, <3>6, <4>1 DEF Name, Status
    <3>7. QED
      BY <3>5, <3>6
  <2>3. ASSUME NEW k \in Numbers, ~ToBeDone(k)', Expressions'[k].status \notin {"STORED", "DROP", "DROPH"}
        PROVE  /\ Expressions'[k].status # "HIDE"
               /\ Holds(IF Expressions'[k].status \in {"HIDDEN", "INTOHIDE"} THEN hidefile' ELSE outfile',
                        Expressions'[k].onfile, Expressions'[k].name, Value(k)')
    <3>1. CASE k = i
      BY <1>6, <1>8, <1>16, <3>1
    <3>2. CASE k # i
      <4>1. ~ToBeDone(k) /\ Status(k) \notin {"STORED", "DROP", "DROPH"} /\ Expressions'[k] = Expressions[k]
        BY <1>7, <1>15, <2>3, <3>2 DEF Status
      <4>2. /\ Status(k) # "HIDE"
            /\ Holds(Target(k), Expressions[k].onfile, Name(k), Value(k))
        BY <4>1 DEF InStep, RunInStep
      <4>3. CASE Status(k) \in {"HIDDEN", "INTOHIDE"}
        <5>1. Holds(hidefile, Expressions[k].onfile, Name(k), Value(k))
          BY <4>2, <4>3 DEF Target
        <5>2. Holds(hidefile', Expressions[k].onfile, Name(k), Value(k))
          BY <1>5, <1>6, <5>1, HoldsStays
        <5>3. QED
          BY <1>16, <4>1, <4>2, <4>3, <5>2 DEF Name, Status
      <4>4. CASE Status(k) \notin {"HIDDEN", "INTOHIDE"}
        <5>1. Holds(outfile, Expressions[k].onfile, Name(k), Value(k))
          BY <4>2, <4>4 DEF Target
        <5>2. QED
          BY <1>1, <1>16, <4>1, <4>2, <4>4, <5>1 DEF Name, Status
      <4>5. QED
        BY <4>3, <4>4
    <3>3. QED
      BY <3>1, <3>2
  <2>4. QED
    BY <1>9, <2>1, <2>2, <2>3 DEF RunInStep, Needed, Source, Target, Name, Status
<1>18. OldCanBeRead'
  <2> SUFFICES ASSUME StillReading', NEW j \in DOMAIN old, Expressions'[j].status # "STORED"
               PROVE  LET file == IF Expressions'[j].status \in InHideFile THEN hidefile' ELSE infile'
                      IN IsIn(file, OldOnFile'[j]) /\ At(file, OldOnFile'[j]).terms = old[j]
    BY <1>1 DEF OldCanBeRead, Source, Status
  <2>1. StillReading
    <3>1. PICK k \in Numbers : k >= CurExpr + 1 /\ ~ Expressions'[k].partodo /\ Expressions'[k].status \in Executed
      BY <1>1, <1>9 DEF StillReading
    <3>2. k # i /\ k >= CurExpr
      BY <1>5, <3>1
    <3>3. QED
      BY <1>7, <3>1, <3>2 DEF StillReading
  <2>2. j \in Numbers
    BY Basics
  <2>3. CASE j = i
    <3>1. Expressions[i].value = old[i]
      BY <2>2, <2>3 DEF InStep, OldInStep
    <3>2. IsIn(hidefile', p) /\ At(hidefile', p).terms = old[i]
      BY <1>3, <1>6, <3>1 DEF Holds
    <3>3. "HIDDEN" \in InHideFile
      BY DEF InHideFile
    <3>4. QED
      BY <1>8, <1>10, <2>3, <3>2, <3>3
  <2>4. CASE j # i
    <3>1. Expressions'[j] = Expressions[j] /\ OldOnFile'[j] = OldOnFile[j] /\ OldOnFile[j] \in Nat
      BY <1>5, <1>7, <1>10, <2>2, <2>4
    <3>2. IsIn(Source(j), OldOnFile[j]) /\ At(Source(j), OldOnFile[j]).terms = old[j]
      BY <2>1, <3>1 DEF InStep, OldCanBeRead, Status
    <3>3. CASE Status(j) \in InHideFile
      <4>1. IsIn(hidefile, OldOnFile[j]) /\ At(hidefile, OldOnFile[j]).terms = old[j]
        BY <3>2, <3>3 DEF Source
      <4>2. IsIn(hidefile', OldOnFile[j]) /\ At(hidefile', OldOnFile[j]).terms = old[j]
        BY <1>6, <3>1, <4>1 DEF Grows
      <4>3. QED
        BY <3>1, <3>3, <4>2 DEF Status
    <3>4. CASE Status(j) \notin InHideFile
      <4>1. IsIn(infile, OldOnFile[j]) /\ At(infile, OldOnFile[j]).terms = old[j]
        BY <3>2, <3>4 DEF Source
      <4>2. QED
        BY <1>1, <3>1, <3>4, <4>1 DEF Status
    <3>5. QED
      BY <3>3, <3>4
  <2>5. QED
    BY <2>3, <2>4
<1>19. QED
  BY <1>13, <1>14, <1>17, <1>18 DEF InStep

\* An expression with nothing to be done is where it will be, or is not needed.
LEMMA ProcessNothingKeeps ==
  ASSUME Types, StoreInStep, InStep, Process, ~Compiling, ProcessNothing(CurExpr),
         ~ToBeRead(CurExpr), trouble' = "none"
  PROVE  Types' /\ StoreInStep' /\ InStep'
<1> DEFINE i == CurExpr
<1>1. /\ i \in Numbers /\ todo = {} /\ CurExpr' = CurExpr + 1
      /\ UNCHANGED <<number, store, HideLevel, compiletype, inparallelflag, todo, statements,
                     modules, old>>
      /\ UNCHANGED <<infile, outfile, hidefile, hidefill, OldOnFile>>
  BY DEF Process, ProcessNothing, compilevars
<1>2. /\ \A k \in Numbers : k # i => Expressions'[k] = Expressions[k]
      /\ Expressions'[i] = [Expressions[i] EXCEPT !.partodo = FALSE]
      /\ Expressions' = [k \in Numbers |-> Expressions'[k]]
  BY <1>1 DEF ProcessNothing, Numbers
<1>3. /\ \A k \in Numbers : Expressions[k] \in Records /\ k \in Nat /\ Expressions[k].partodo \in BOOLEAN
                            /\ Status(k) \in Statuses
      /\ CurExpr \in Nat
  BY Basics DEF Types
<1>4. \A k \in Numbers :
        /\ Expressions'[k] \in Records /\ Expressions'[k].name = Name(k)
        /\ Expressions'[k].replace = Expressions[k].replace
        /\ Expressions'[k].value = Expressions[k].value
        /\ Expressions'[k].status = Status(k) /\ Expressions'[k].onfile = Expressions[k].onfile
        /\ k # i => Expressions'[k].partodo = Expressions[k].partodo
  <2>1. Expressions[i] \in Records
    BY <1>1, <1>3
  <2>2. /\ Expressions'[i] \in Records /\ Expressions'[i].name = Name(i)
        /\ Expressions'[i].replace = Expressions[i].replace
        /\ Expressions'[i].value = Expressions[i].value
        /\ Expressions'[i].status = Status(i) /\ Expressions'[i].onfile = Expressions[i].onfile
    BY <1>2, <2>1 DEF Records, Name, Status
  <2>3. QED
    BY <1>2, <1>3, <2>2 DEF Name, Status
<1>5. Expressions' \in Seq(Records) /\ Len(Expressions') = Len(Expressions) /\ Numbers' = Numbers
  BY <1>2, <1>4, Rewritten
<1>6. ~Compiling' /\ CurExpr' \in Nat
  BY <1>1, <1>3 DEF Compiling
<1>7. RunOnly
  BY <1>1, <1>4, <1>5, <1>6 DEF RunOnly
<1>8. Types'
  <2>1. /\ infile' \in Seq(Entries) /\ outfile' \in Seq(Entries) /\ hidefile' \in Seq(Entries)
        /\ hidefill' \in 0..Len(hidefile') /\ modules' \in Nat /\ trouble' \in Troubles
        /\ todo' \subseteq Numbers
    BY <1>1 DEF Types, Troubles
  <2>2. OldOnFile' \in Seq(Nat) /\ Len(OldOnFile') = Len(Expressions)
    BY <1>1 DEF Types
  <2>3. QED
    BY <1>1, <1>6, <1>7, <2>1, <2>2, RunTypes
<1>9. StoreInStep' /\ NamesInStep' /\ OldInStep' /\ CompiledInStep'
  BY <1>7, RunOnlyKeeps DEF InStep
<1>10. \A k \in Numbers : Value(k)' = Value(k)
  BY <1>1, <1>4, ValueStays
<1>11. ASSUME NEW k \in Numbers
       PROVE  ToBeDone(k)' <=> ToBeDone(k) /\ k # i
  <2>1. k >= CurExpr + 1 <=> k >= CurExpr /\ k # CurExpr
    BY <1>3
  <2>2. QED
    BY <1>1, <1>4, <2>1 DEF ToBeDone
<1>12. ASSUME Status(i) \notin {"STORED", "DROP", "DROPH"}
       PROVE  Status(i) # "HIDE" /\ Holds(Target(i), Expressions[i].onfile, Name(i), Value(i))
  <2>1. CASE Expressions[i].partodo
    <3>1. ~ToBeDone(i)
      BY <1>1, <2>1 DEF ToBeDone
    <3>2. QED
      BY <1>1, <1>12, <3>1 DEF InStep, RunInStep
  <2>2. CASE ~Expressions[i].partodo
    <3>1. ToBeDone(i)
      BY <1>1, <1>3, <2>2 DEF ToBeDone
    <3>2. Status(i) = "HIDDEN"
      BY <1>1, <1>3, <1>12, <2>2 DEF ToBeRead, ReadLater, Statuses, Status
    <3>3. Holds(Source(i), Expressions[i].onfile, Name(i), Expressions[i].value)
      BY <1>1, <3>1, <3>2 DEF InStep, RunInStep, Needed
    <3>4. Value(i) = Expressions[i].value
      BY <3>2 DEF Value, Executed, Status
    <3>5. QED
      BY <3>2, <3>3, <3>4 DEF Source, Target, InHideFile
  <2>3. QED
    BY <1>1, <1>3, <2>1, <2>2
<1>13. RunInStep'
  <2>1. ASSUME NEW k \in Numbers, ToBeDone(k)', Status(k) \in ReadLater \cup {"HIDDEN"}
        PROVE  /\ OldOnFile[k] = Expressions[k].onfile
               /\ Holds(Source(k), Expressions[k].onfile, Name(k), Expressions[k].value)
    BY <1>11, <2>1 DEF InStep, RunInStep, Needed
  <2>2. ASSUME NEW k \in Numbers, ~ToBeDone(k)', Status(k) \notin {"STORED", "DROP", "DROPH"}
        PROVE  /\ Status(k) # "HIDE"
               /\ Holds(Target(k), Expressions[k].onfile, Name(k), Value(k))
    BY <1>11, <1>12, <2>2 DEF InStep, RunInStep
  <2>3. \A k \in Numbers : /\ Status(k)' = Status(k) /\ Name(k)' = Name(k) /\ Value(k)' = Value(k)
                           /\ Source(k)' = Source(k) /\ Target(k)' = Target(k)
                           /\ Expressions'[k].onfile = Expressions[k].onfile
                           /\ Expressions'[k].value = Expressions[k].value
    BY <1>1, <1>4, <1>10 DEF Source, Target, Status, Name
  <2>4. QED
    BY <1>1, <1>5, <2>1, <2>2, <2>3 DEF RunInStep, Needed
<1>14. OldCanBeRead'
  <2> SUFFICES ASSUME StillReading', NEW j \in DOMAIN old, Status(j) # "STORED"
               PROVE  /\ IsIn(Source(j), OldOnFile[j])
                      /\ At(Source(j), OldOnFile[j]).terms = old[j]
    <3>1. \A k \in Numbers : Status(k)' = Status(k) /\ Source(k)' = Source(k)
      BY <1>1, <1>4 DEF Source, Status
    <3>2. DOMAIN old \subseteq Numbers
      BY Basics
    <3>3. QED
      BY <1>1, <3>1, <3>2 DEF OldCanBeRead
  <2>1. StillReading
    <3>1. PICK k \in Numbers : k >= CurExpr + 1 /\ ~ Expressions'[k].partodo /\ Expressions'[k].status \in Executed
      BY <1>1, <1>5 DEF StillReading
    <3>2. k # i /\ k >= CurExpr
      BY <1>3, <3>1
    <3>3. QED
      BY <1>2, <3>1, <3>2 DEF StillReading
  <2>2. QED
    BY <2>1 DEF InStep, OldCanBeRead
<1>15. QED
  BY <1>8, <1>9, <1>13, <1>14 DEF InStep

\* No expression that Processor has to read is missing.
LEMMA NothingIsMissing ==
  ASSUME Types, StoreInStep, InStep, ~Compiling, todo = {}, CurExpr \in Numbers
  PROVE  ~Missing(CurExpr) /\ (ToBeRead(CurExpr) => ToBeDone(CurExpr))
<1>1. CurExpr \in Nat
  BY DEF Types
<1>2. ToBeRead(CurExpr) => ToBeDone(CurExpr) /\ Needed(CurExpr)
  BY <1>1 DEF ToBeRead, ToBeDone, Needed, Status
<1>3. ToBeRead(CurExpr) => Source(CurExpr) = IF Expressions[CurExpr].status = "UNHIDE" THEN hidefile ELSE infile
  BY DEF ToBeRead, Source, ReadLater, InHideFile, Status
<1>4. QED
  BY <1>2, <1>3, ReadRight DEF Missing

LEMMA ProcessKeeps ==
  ASSUME Types, StoreInStep, InStep, trouble = "none", Process
  PROVE  Types' /\ StoreInStep' /\ InStep' /\ trouble' = "none"
<1>1. CurExpr \in Numbers /\ todo = {} /\ ~Compiling
  <2>1. CurExpr \in Numbers /\ todo = {}
    BY DEF Process
  <2>2. QED
    BY <2>1, Basics DEF Compiling
<1>2. ~Missing(CurExpr) /\ (ToBeRead(CurExpr) => ToBeDone(CurExpr))
  BY <1>1, NothingIsMissing
<1>3. trouble' = "none"
  BY <1>2 DEF Process
<1>4. \/ ToBeRead(CurExpr) /\ ProcessActive(CurExpr)
      \/ ToBeRead(CurExpr) /\ ProcessSkipped(CurExpr)
      \/ ToBeRead(CurExpr) /\ ProcessHide(CurExpr)
      \/ ~ToBeRead(CurExpr) /\ ProcessNothing(CurExpr)
  BY <1>2 DEF Process, ProcessNothing
<1>5. QED
  BY <1>1, <1>2, <1>3, <1>4, ProcessActiveKeeps, ProcessSkippedKeeps, ProcessHideKeeps, ProcessNothingKeeps

-----------------------------------------------------------------------------
(* The end of a module *)

LEMMA LeastOf ==
  ASSUME NEW S \in SUBSET Nat, S # {}
  PROVE  Min(S) \in S /\ \A y \in S : Min(S) <= y
<1>1. IsWellFoundedOn(OpToRel(<, Nat), Nat)
  BY NatLessThanWellFounded
<1>2. \E x \in S : \A y \in S : <<y, x>> \notin OpToRel(<, Nat)
  BY <1>1, WFMin
<1>3. PICK x \in S : \A y \in S : ~(y < x)
  BY <1>2 DEF OpToRel
<1>4. \A y \in S : x <= y
  BY <1>3
<1>5. QED
  BY <1>4 DEF Min

\* Kept expressions that are consistent among themselves start the next module.
Consistent(kept, keep, names) ==
  /\ keep \in SUBSET Numbers /\ DOMAIN kept = Numbers
  /\ \A i \in Numbers : kept[i].replace = -1
  /\ \A i \in keep : kept[i] \in Records /\ kept[i].value.slot = 0
  /\ names \in [Names -> 0..Len(Expressions)]
  /\ \A i \in keep : names[kept[i].name] = i
  /\ \A n \in Names : names[n] # 0 => names[n] \in keep /\ kept[names[n]].name = n

LEMMA CompactedFacts ==
  ASSUME Types, NEW kept, NEW keep, NEW names, Consistent(kept, keep, names)
  PROVE  LET es == Compacted(kept, keep)
             C == Cardinality(keep)
         IN /\ C \in Nat /\ es \in Seq(Records) /\ Len(es) = C /\ DOMAIN es = 1..C
            /\ \A k \in 1..C : /\ Nth(keep, k) \in keep
                               /\ es[k].name = kept[Nth(keep, k)].name
                               /\ es[k].status = kept[Nth(keep, k)].status
                               /\ es[k].onfile = kept[Nth(keep, k)].onfile
                               /\ es[k].value = kept[Nth(keep, k)].value
                               /\ es[k].replace = -1
            /\ Renumbered(names, kept, keep) \in [Names -> 0..C]
            /\ NamesAgree(es, Renumbered(names, kept, keep))
<1> DEFINE C == Cardinality(keep)
           es == Compacted(kept, keep)
           m == Len(Expressions)
<1>1. m \in Nat /\ Numbers = 1..m /\ keep \in SUBSET (1..m) /\ DOMAIN kept = 1..m
  BY Basics DEF Consistent
<1>2. C \in 0..m /\ \A k \in 1..C : Nth(keep, k) \in keep
  BY <1>1, Ranks
<1>3. es = [k \in 1..C |-> [kept[Nth(keep, k)] EXCEPT !.replace = kept[k].replace]]
  BY DEF Compacted, KeptOnly
<1>4. \A i \in Numbers : kept[i].replace = -1
  BY DEF Consistent
<1> HIDE DEF es, C, m
<1>5. ASSUME NEW k \in 1..C
      PROVE  /\ es[k] \in Records /\ Nth(keep, k) \in keep
             /\ es[k].name = kept[Nth(keep, k)].name
             /\ es[k].status = kept[Nth(keep, k)].status
             /\ es[k].onfile = kept[Nth(keep, k)].onfile
             /\ es[k].value = kept[Nth(keep, k)].value
             /\ es[k].replace = -1
  <2>1. k \in Numbers
    BY <1>1, <1>2
  <2>2. es[k] = [kept[Nth(keep, k)] EXCEPT !.replace = -1]
    BY <1>3, <1>4, <2>1
  <2>3. Nth(keep, k) \in keep /\ kept[Nth(keep, k)] \in Records
    BY <1>2 DEF Consistent
  <2>4. -1 \in Replacements
    BY DEF Replacements, REGULAREXPRESSION
  <2>5. QED
    BY <2>2, <2>3, <2>4 DEF Records
<1>6. es \in Seq(Records) /\ Len(es) = C /\ DOMAIN es = 1..C
  <2>1. es = [k \in 1..C |-> es[k]]
    BY <1>3
  <2>2. C \in Nat
    BY <1>1, <1>2
  <2>3. QED
    BY <1>5, <2>1, <2>2, IsSeqOf
<1>7. /\ Renumbered(names, kept, keep) \in [Names -> 0..C]
      /\ NamesAgree(es, Renumbered(names, kept, keep))
  <2>1. /\ \A i \in keep : kept[i].name \in Names /\ names[kept[i].name] = i
        /\ \A n \in Names : names[n] # 0 => names[n] \in keep /\ kept[names[n]].name = n
    <3>1. \A i \in keep : kept[i] \in Records
      BY DEF Consistent
    <3>2. \A i \in keep : kept[i].name \in Names
      BY <3>1 DEF Records
    <3>3. QED
      BY <3>2 DEF Consistent
  <2>2. names \in [Names -> 0..m]
    BY DEF Consistent, m
  <2>3. DOMAIN es = 1..Cardinality(keep) /\ \A k \in 1..Cardinality(keep) : es[k].name = kept[Nth(keep, k)].name
    BY <1>5, <1>6 DEF C
  <2>4. QED
    BY <1>1, <2>1, <2>2, <2>3, KeptNamesAgree DEF C
<1>8. C \in Nat
  BY <1>1, <1>2
<1>9. QED
  BY <1>5, <1>6, <1>7, <1>8 DEF es, C

LEMMA NextModuleBegins ==
  ASSUME Types, NEW kept, NEW keep, NEW names, Consistent(kept, keep, names),
         Expressions' = Compacted(kept, keep), number' = Renumbered(names, kept, keep), NextModule,
         todo' = {}, UNCHANGED <<statements, modules>>, trouble' \in Troubles,
         infile' \in Seq(Entries), outfile' \in Seq(Entries), hidefile' \in Seq(Entries),
         hidefill' \in 0..Len(hidefile'), store' \in Seq([name : Names, terms : Seq(Contents)]),
         HideLevel' = HideLevel \/ HideLevel' = 0,
         \A i \in keep : kept[i].status # "STORED" =>
           Holds(IF kept[i].status \in InHideFile THEN hidefile' ELSE outfile',
                 kept[i].onfile, kept[i].name, kept[i].value),
         \A i \in keep : kept[i].status = "STORED" =>
           /\ kept[i].onfile \in DOMAIN store'
           /\ store'[kept[i].onfile].name = kept[i].name
           /\ Len(store'[kept[i].onfile].terms) > 0
           /\ store'[kept[i].onfile].terms[1] = kept[i].value
  PROVE  Types' /\ StoreInStep' /\ InStep'
<1> DEFINE C == Cardinality(keep)
<1>1. /\ C \in Nat /\ Expressions' \in Seq(Records) /\ Len(Expressions') = C
      /\ DOMAIN Expressions' = 1..C
      /\ \A k \in 1..C : /\ Nth(keep, k) \in keep
                         /\ Expressions'[k].name = kept[Nth(keep, k)].name
                         /\ Expressions'[k].status = kept[Nth(keep, k)].status
                         /\ Expressions'[k].onfile = kept[Nth(keep, k)].onfile
                         /\ Expressions'[k].value = kept[Nth(keep, k)].value
                         /\ Expressions'[k].replace = -1
      /\ number' \in [Names -> 0..C] /\ NamesAgree(Expressions', number')
  BY CompactedFacts
<1> HIDE DEF C
<1>2. Numbers' = 1..C
  BY <1>1 DEF Numbers
<1>3. /\ Compiling' /\ OldOnFile' = <<>> /\ compiletype' = "SPECIFICATION" /\ inparallelflag' = FALSE
      /\ CurExpr' = 0
      /\ old' = [k \in 1..C |-> Expressions'[k].value]
  BY <1>1 DEF NextModule, Compiling
<1>4. \A k \in 1..C : Expressions'[k].value \in Contents /\ Expressions'[k].value.slot = 0
  <2>1. \A i \in keep : kept[i] \in Records /\ kept[i].value.slot = 0
    BY DEF Consistent
  <2>2. \A i \in keep : kept[i].value \in Contents
    BY <2>1 DEF Records
  <2>3. QED
    BY <1>1, <2>1, <2>2
<1>5. old' \in Seq(Contents) /\ Len(old') = C /\ DOMAIN old' = 1..C
      /\ \A k \in 1..C : old'[k] = Expressions'[k].value
  <2>1. old' = [k \in 1..C |-> old'[k]] /\ \A k \in 1..C : old'[k] = Expressions'[k].value
    BY <1>3
  <2>2. \A k \in 1..C : old'[k] \in Contents
    BY <1>4, <2>1
  <2>3. QED
    BY <1>1, <2>1, <2>2, IsSeqOf
<1>6. Types'
  <2>1. \E k \in Nat : HideLevel' = 2 * k
    <3>1. HideLevel' = 0 => HideLevel' = 2 * 0
      OBVIOUS
    <3>2. HideLevel' = HideLevel => \E k \in Nat : HideLevel' = 2 * k
      BY DEF Types
    <3>3. QED
      BY <3>1, <3>2
  <2>2. statements' \in Nat /\ modules' \in Nat
    BY DEF Types
  <2>3. OldOnFile' \in Seq(Nat)
    BY <1>3
  <2>4. Len(old') <= Len(Expressions') /\ number' \in [Names -> 0..Len(Expressions')]
    BY <1>1, <1>5
  <2>5. QED
    BY <1>1, <1>3, <1>5, <2>1, <2>2, <2>3, <2>4 DEF Types
<1>7. NamesInStep'
  BY <1>1, <1>2, <1>6, AgreeingNames
<1>8. OldInStep'
  <2>1. \A k \in 1..C : ~(k > C)
    BY <1>1
  <2>2. QED
    BY <1>1, <1>2, <1>4, <1>5, <2>1 DEF OldInStep, REGULAREXPRESSION
<1>9. CompiledInStep'
  <2>1. ASSUME NEW k \in 1..C, Expressions'[k].status # "STORED"
        PROVE  Holds(IF Expressions'[k].status \in InHideFile THEN hidefile' ELSE outfile',
                     Expressions'[k].onfile, Expressions'[k].name, Expressions'[k].value)
    BY <1>1, <2>1
  <2>2. QED
    BY <1>2, <2>1 DEF CompiledInStep, Name, Status
<1>10. StoreInStep'
  <2>1. ASSUME NEW k \in 1..C, Expressions'[k].status = "STORED"
        PROVE  /\ Expressions'[k].onfile \in DOMAIN store'
               /\ store'[Expressions'[k].onfile].name = Expressions'[k].name
               /\ Len(store'[Expressions'[k].onfile].terms) > 0
               /\ store'[Expressions'[k].onfile].terms[1] = Expressions'[k].value
    BY <1>1, <2>1
  <2>2. QED
    BY <1>2, <2>1 DEF StoreInStep, Name, Status
<1>11. RunInStep' /\ OldCanBeRead'
  BY <1>3 DEF RunInStep, OldCanBeRead
<1>12. QED
  BY <1>6, <1>7, <1>8, <1>9, <1>10, <1>11 DEF InStep

LEMMA WhenDone ==
  ASSUME Types, InStep, ModuleDone
  PROVE  /\ ~Compiling /\ todo = {}
         /\ \A i \in Numbers : Status(i) \notin {"STORED", "DROP", "DROPH"} =>
              Status(i) # "HIDE" /\ Holds(Target(i), Expressions[i].onfile, Name(i), Value(i))
<1>1. Len(Expressions) \in Nat /\ Numbers = 1..Len(Expressions) /\ CurExpr > Len(Expressions)
      /\ CurExpr \in Nat /\ todo = {}
  BY Basics DEF ModuleDone, Types
<1>2. ~Compiling
  BY <1>1 DEF Compiling
<1>3. \A i \in Numbers : ~ToBeDone(i)
  BY <1>1 DEF ToBeDone
<1>4. QED
  BY <1>1, <1>2, <1>3 DEF InStep, RunInStep

\* The array at the end of a module, before what is dropped is taken out.
LEMMA TestDropFacts ==
  ASSUME Types, InStep, ModuleDone
  PROVE  /\ DOMAIN TestDrop = Numbers
         /\ \A i \in Numbers :
              /\ TestDrop[i].name = Name(i) /\ TestDrop[i].status = StatusAfter(Status(i))
              /\ TestDrop[i].onfile = Expressions[i].onfile /\ TestDrop[i].value = Value(i)
              /\ TestDrop[i].replace = -1
              /\ TestDrop[i].status = "DROPPED" <=> i \in Dropped
              /\ TestDrop[i].status # "DROPPED" => TestDrop[i] \in Records /\ TestDrop[i].value.slot = 0
<1>1. DOMAIN TestDrop = Numbers
  BY DEF TestDrop
<1> SUFFICES ASSUME NEW i \in Numbers
             PROVE  /\ TestDrop[i].name = Name(i) /\ TestDrop[i].status = StatusAfter(Status(i))
                    /\ TestDrop[i].onfile = Expressions[i].onfile /\ TestDrop[i].value = Value(i)
                    /\ TestDrop[i].replace = -1
                    /\ TestDrop[i].status = "DROPPED" <=> i \in Dropped
                    /\ TestDrop[i].status # "DROPPED" => TestDrop[i] \in Records /\ TestDrop[i].value.slot = 0
  BY <1>1
<1>2. Expressions[i] \in Records /\ Status(i) \in Statuses /\ Name(i) \in Names
      /\ (Expressions[i].replace >= 0 \/ Expressions[i].replace \in {-1, -2, -3})
  BY Basics
<1>3. TestDrop[i] = [Expressions[i] EXCEPT !.status = StatusAfter(Status(i)), !.replace = ReplaceAfter(i),
                                           !.value = Value(i), !.partodo = FALSE]
  BY DEF TestDrop, Status
<1>4. ReplaceAfter(i) = -1
  <2>1. CASE i \in Dropped \/ Expressions[i].replace \in {-1, -3}
    BY <2>1 DEF ReplaceAfter, REGULAREXPRESSION, NEWLYDEFINEDEXPRESSION
  <2>2. CASE i \notin Dropped /\ Expressions[i].replace = -2
    <3> DEFINE j == number[Name(i)]
    <3>1. j # i /\ j # 0
      BY <2>2 DEF InStep, NamesInStep, REDEFINEDEXPRESSION
    <3>2. j \in Numbers /\ i \in Nat
      BY <1>2, <3>1, Basics
    <3>3. Expressions[j].replace = i
      BY <3>1 DEF InStep, NamesInStep
    <3>4. Expressions[j].replace >= 0
      BY <3>2, <3>3
    <3>5. Status(j) \in {"DROP", "DROPH"}
      BY <3>2, <3>4 DEF InStep, NamesInStep
    <3>6. j \in Dropped
      BY <3>2, <3>5 DEF Dropped, Status
    <3>7. QED
      BY <3>3, <3>6 DEF ReplaceAfter, REGULAREXPRESSION
  <2>3. CASE i \notin Dropped /\ Expressions[i].replace >= 0
    <3>1. Status(i) \in {"DROP", "DROPH"}
      BY <2>3 DEF InStep, NamesInStep
    <3>2. QED
      BY <2>3, <3>1 DEF Dropped, Status
  <2>4. QED
    BY <1>2, <2>1, <2>2, <2>3
<1>5. /\ TestDrop[i].name = Name(i) /\ TestDrop[i].status = StatusAfter(Status(i))
      /\ TestDrop[i].onfile = Expressions[i].onfile /\ TestDrop[i].value = Value(i)
      /\ TestDrop[i].replace = -1
  BY <1>2, <1>3, <1>4 DEF Records, Name
<1>6. TestDrop[i].status = "DROPPED" <=> i \in Dropped
  BY <1>2, <1>5, MarksStay DEF Dropped, Status
<1>7. ASSUME TestDrop[i].status # "DROPPED"
      PROVE  TestDrop[i] \in Records /\ TestDrop[i].value.slot = 0
  <2>1. StatusAfter(Status(i)) \in Statuses /\ Status(i) \notin {"DROP", "DROPH"}
    BY <1>2, <1>5, <1>7, MarksStay DEF Statuses
  <2>2. Value(i) \in Contents /\ -1 \in Replacements
    BY ValueTypes DEF InStep, Replacements, REGULAREXPRESSION
  <2>3. TestDrop[i] \in Records
    BY <1>2, <1>3, <1>4, <2>1, <2>2 DEF Records
  <2>4. Value(i).slot = 0
    <3>1. CASE Status(i) \in Executed
      <4> DEFINE before == IF Expressions[i].value.slot = 0 THEN Expressions[i].value ELSE old[Expressions[i].value.slot]
      <4>1. before.slot = 0 /\ before \in Contents
        <5>1. CASE Expressions[i].value.slot = 0
          BY <1>2, <5>1 DEF Records
        <5>2. CASE Expressions[i].value.slot # 0
          <6>1. Expressions[i].value.slot \in DOMAIN old
            BY <5>2, ValueTypes DEF InStep
          <6>2. QED
            BY <5>2, <6>1, Basics DEF InStep, OldInStep
        <5>3. QED
          BY <5>1, <5>2
      <4>2. Value(i) = [before EXCEPT !.times = @ + 1]
        BY <3>1 DEF Value, Status
      <4> HIDE DEF before
      <4>3. QED
        BY <4>1, <4>2 DEF Contents
    <3>2. CASE Status(i) \notin Executed
      <4>1. Value(i) = Expressions[i].value
        BY <3>2 DEF Value, Status
      <4>2. ~(i > Len(old))
        BY <2>1, <3>2 DEF InStep, OldInStep, Executed
      <4>3. i \in DOMAIN old
        BY <4>2, Basics
      <4>4. QED
        BY <4>1, <4>3, ValueTypes DEF InStep
    <3>3. QED
      BY <3>1, <3>2
  <2>5. QED
    BY <1>5, <2>3, <2>4
<1>8. QED
  BY <1>5, <1>6, <1>7

\* A dropped expression leaves its name to its replacement, and the names lead to what is kept.
LEMMA NamesAfterDropFacts ==
  ASSUME Types, NamesInStep
  PROVE  /\ NamesAfterDrop \in [Names -> 0..Len(Expressions)]
         /\ \A i \in Numbers \ Dropped : NamesAfterDrop[Name(i)] = i
         /\ \A n \in Names : NamesAfterDrop[n] # 0 =>
              NamesAfterDrop[n] \in Numbers \ Dropped /\ Name(NamesAfterDrop[n]) = n
<1> DEFINE D(n) == {i \in Dropped : Expressions[i].name = n}
           After(n) == LET r == Expressions[Max(D(n))].replace
                       IN IF D(n) = {} THEN number[n] ELSE IF r >= 0 THEN r ELSE 0
<1>1. NamesAfterDrop = [n \in Names |-> After(n)]
  BY DEF NamesAfterDrop
<1>2. /\ Len(Expressions) \in Nat /\ Numbers = 1..Len(Expressions)
      /\ \A n \in Names : number[n] \in 0..Len(Expressions)
  BY Basics
<1>3. \A i \in Numbers : i \in Int /\ Expressions[i].replace \in Int /\ Name(i) \in Names
  BY Basics
<1>4. ASSUME NEW n \in Names, NEW i \in D(n)
      PROVE  i = number[n] /\ D(n) = {number[n]} /\ number[n] \in Numbers /\ Max(D(n)) = number[n]
  <2>1. \A j \in D(n) : j = number[n]
    BY DEF NamesInStep, Dropped, Name, Status
  <2>2. D(n) = {number[n]} /\ number[n] \in Int /\ i = number[n] /\ i \in Numbers
    BY <1>3, <2>1 DEF Dropped
  <2> HIDE DEF D
  <2>3. QED
    BY <2>2, MaxOfOne
<1>5. ASSUME NEW n \in Names
      PROVE  \/ D(n) = {} /\ After(n) = number[n]
             \/ /\ D(n) = {number[n]} /\ number[n] \in Numbers
                /\ After(n) = IF Expressions[number[n]].replace >= 0 THEN Expressions[number[n]].replace ELSE 0
  <2> HIDE DEF D
  <2>1. CASE D(n) = {}
    BY <2>1
  <2>2. CASE D(n) # {}
    <3>1. PICK i \in D(n) : TRUE
      BY <2>2
    <3>2. D(n) = {number[n]} /\ number[n] \in Numbers /\ Max(D(n)) = number[n]
      BY <1>4, <3>1
    <3>3. QED
      BY <2>2, <3>2
  <2>3. QED
    BY <2>1, <2>2
<1>6. \A n \in Names, i \in Numbers : i \in D(n) <=> i \in Dropped /\ Name(i) = n
  BY DEF Name
<1>7. Dropped \subseteq Numbers
  BY DEF Dropped
<1> HIDE DEF D, After
<1>8. ASSUME NEW i \in Numbers, i \notin Dropped
      PROVE  After(Name(i)) = i
  <2> DEFINE n == Name(i)
  <2>1. n \in Names /\ i \notin D(n) /\ number[n] # 0
    BY <1>3, <1>6, <1>8 DEF NamesInStep
  <2>2. CASE number[n] = i
    <3>1. D(n) # {number[n]}
      BY <2>1, <2>2
    <3>2. QED
      BY <1>5, <2>1, <2>2, <3>1
  <2>3. CASE number[n] # i
    <3>1. number[n] \in Numbers
      BY <1>2, <2>1
    <3>2. Expressions[number[n]].replace = i /\ i >= 0
      BY <1>2, <2>3 DEF NamesInStep
    <3>3. Status(number[n]) \in {"DROP", "DROPH"} /\ Name(number[n]) = n
      BY <2>1, <3>1, <3>2 DEF NamesInStep
    <3>4. number[n] \in D(n)
      BY <1>6, <2>1, <3>1, <3>3 DEF Dropped, Status
    <3>5. QED
      BY <1>5, <2>1, <3>2, <3>4
  <2>4. QED
    BY <2>2, <2>3
<1>9. ASSUME NEW n \in Names, After(n) # 0
      PROVE  After(n) \in Numbers \ Dropped /\ Name(After(n)) = n
  <2>1. CASE D(n) = {} /\ After(n) = number[n]
    <3>1. number[n] \in Numbers /\ Name(number[n]) = n
      BY <1>2, <1>9, <2>1 DEF NamesInStep
    <3>2. number[n] \notin Dropped
      BY <1>6, <2>1, <3>1
    <3>3. QED
      BY <2>1, <3>1, <3>2
  <2>2. CASE /\ D(n) = {number[n]} /\ number[n] \in Numbers
             /\ After(n) = IF Expressions[number[n]].replace >= 0 THEN Expressions[number[n]].replace ELSE 0
    <3> DEFINE r == Expressions[number[n]].replace
    <3>1. r >= 0 /\ After(n) = r
      BY <1>9, <2>2
    <3>2. number[n] \in D(n) /\ Name(number[n]) = n
      BY <1>6, <2>2
    <3>3. r \in Numbers /\ r # number[n] /\ Name(r) = n
      BY <2>2, <3>1, <3>2 DEF NamesInStep
    <3>4. r \notin Dropped
      BY <1>6, <2>2, <3>3
    <3>5. QED
      BY <3>1, <3>3, <3>4
  <2>3. QED
    BY <1>5, <2>1, <2>2
<1>10. NamesAfterDrop \in [Names -> 0..Len(Expressions)]
  <2>1. \A n \in Names : After(n) \in 0..Len(Expressions)
    BY <1>2, <1>9
  <2>2. QED
    BY <1>1, <2>1
<1>11. QED
  BY <1>1, <1>3, <1>8, <1>9, <1>10

LEMMA AfterDropConsistent ==
  ASSUME Types, InStep, ModuleDone
  PROVE  Consistent(TestDrop, {i \in Numbers : TestDrop[i].status # "DROPPED"}, NamesAfterDrop)
<1> DEFINE keep == {i \in Numbers : TestDrop[i].status # "DROPPED"}
<1>1. keep = Numbers \ Dropped
  BY TestDropFacts
<1>2. \A i \in keep : TestDrop[i] \in Records /\ TestDrop[i].value.slot = 0
  BY TestDropFacts
<1>3. DOMAIN TestDrop = Numbers /\ \A i \in Numbers : TestDrop[i].replace = -1 /\ TestDrop[i].name = Name(i)
  BY TestDropFacts
<1> HIDE DEF keep
<1>4. /\ NamesAfterDrop \in [Names -> 0..Len(Expressions)]
      /\ \A i \in keep : NamesAfterDrop[TestDrop[i].name] = i
      /\ \A n \in Names : NamesAfterDrop[n] # 0 =>
           NamesAfterDrop[n] \in keep /\ TestDrop[NamesAfterDrop[n]].name = n
  BY <1>1, <1>3, NamesAfterDropFacts DEF InStep
<1>5. keep \in SUBSET Numbers
  BY <1>1
<1>6. Consistent(TestDrop, keep, NamesAfterDrop)
  BY <1>2, <1>3, <1>4, <1>5 DEF Consistent
<1>7. QED
  BY <1>6 DEF keep

\* What is kept is where Processor left it.
LEMMA WhereLeft ==
  ASSUME Types, InStep, ModuleDone, NEW i \in Numbers, TestDrop[i].status \in {"ACTIVE", "HIDDEN"}
  PROVE  Holds(IF TestDrop[i].status = "HIDDEN" THEN hidefile ELSE outfile,
               TestDrop[i].onfile, TestDrop[i].name, TestDrop[i].value)
<1>1. /\ TestDrop[i].name = Name(i) /\ TestDrop[i].status = StatusAfter(Status(i))
      /\ TestDrop[i].onfile = Expressions[i].onfile /\ TestDrop[i].value = Value(i)
  BY TestDropFacts
<1>2. Status(i) \in Statuses
  BY Basics
<1>3. Status(i) \notin {"STORED", "DROP", "DROPH"}
  BY <1>1, <1>2, MarksStay
<1>4. Status(i) # "HIDE" /\ Holds(Target(i), Expressions[i].onfile, Name(i), Value(i))
  BY <1>3, WhenDone
<1>5. Status(i) \in {"HIDDEN", "INTOHIDE"} <=> TestDrop[i].status = "HIDDEN"
  BY <1>1, <1>2, <1>4, MarksStay
<1>6. QED
  BY <1>1, <1>4, <1>5 DEF Target

LEMMA StillStored ==
  ASSUME Types, StoreInStep, InStep, ModuleDone, NEW i \in Numbers, TestDrop[i].status = "STORED"
  PROVE  /\ TestDrop[i].onfile \in DOMAIN store
         /\ store[TestDrop[i].onfile].name = TestDrop[i].name
         /\ Len(store[TestDrop[i].onfile].terms) > 0
         /\ store[TestDrop[i].onfile].terms[1] = TestDrop[i].value
<1>1. /\ TestDrop[i].name = Name(i) /\ TestDrop[i].status = StatusAfter(Status(i))
      /\ TestDrop[i].onfile = Expressions[i].onfile /\ TestDrop[i].value = Value(i)
  BY TestDropFacts
<1>2. Status(i) = "STORED"
  BY <1>1, Basics, MarksStay
<1>3. Value(i) = Expressions[i].value
  BY <1>2 DEF Value, Executed, Status
<1>4. QED
  BY <1>1, <1>2, <1>3 DEF StoreInStep

LEMMA DotSortKeeps ==
  ASSUME Types, StoreInStep, InStep, DotSort
  PROVE  Types' /\ StoreInStep' /\ InStep'
<1> DEFINE keep == {i \in Numbers : TestDrop[i].status # "DROPPED"}
           hid == {i \in Numbers : TestDrop[i].status = "HIDDEN"}
<1>1. /\ ModuleDone /\ Expressions' = Compacted(TestDrop, keep)
      /\ number' = Renumbered(NamesAfterDrop, TestDrop, keep) /\ NextModule
      /\ UNCHANGED <<infile, outfile, store, HideLevel, todo, statements, modules, trouble>>
      /\ \/ Cardinality(hid) = 0 /\ hidefile' = <<>> /\ hidefill' = 0
         \/ UNCHANGED <<hidefile, hidefill>>
  BY DEF DotSort
<1>2. Consistent(TestDrop, keep, NamesAfterDrop)
  BY <1>1, AfterDropConsistent
<1>3. hid # {} => UNCHANGED <<hidefile, hidefill>>
  <2>1. IsFiniteSet(1..Len(Expressions)) /\ Numbers = 1..Len(Expressions)
    BY FS_Interval, Basics
  <2>2. IsFiniteSet(hid)
    BY <2>1, FS_Subset
  <2> HIDE DEF hid
  <2>3. hid # {} => Cardinality(hid) # 0
    BY <2>2, FS_EmptySet
  <2>4. QED
    BY <1>1, <2>3
<1>4. /\ infile' \in Seq(Entries) /\ outfile' \in Seq(Entries) /\ hidefile' \in Seq(Entries)
      /\ hidefill' \in 0..Len(hidefile') /\ store' \in Seq([name : Names, terms : Seq(Contents)])
      /\ trouble' \in Troubles /\ todo' = {}
  <2>1. hidefile' \in Seq(Entries) /\ hidefill' \in 0..Len(hidefile')
    <3>1. <<>> \in Seq(Entries) /\ 0 \in 0..Len(<<>>)
      OBVIOUS
    <3>2. hidefile \in Seq(Entries) /\ hidefill \in 0..Len(hidefile)
      BY DEF Types
    <3>3. (hidefile' = <<>> /\ hidefill' = 0) \/ (hidefile' = hidefile /\ hidefill' = hidefill)
      BY <1>1
    <3>4. QED
      BY <3>1, <3>2, <3>3
  <2>2. todo = {}
    BY <1>1, WhenDone
  <2>3. QED
    BY <1>1, <2>1, <2>2 DEF Types
<1>5. ASSUME NEW i \in keep, TestDrop[i].status # "STORED"
      PROVE  Holds(IF TestDrop[i].status \in InHideFile THEN hidefile' ELSE outfile',
                   TestDrop[i].onfile, TestDrop[i].name, TestDrop[i].value)
  <2>1. TestDrop[i].status \in {"ACTIVE", "HIDDEN"}
    BY <1>1, <1>5, TestDropFacts, MarksStay, Basics
  <2>2. Holds(IF TestDrop[i].status = "HIDDEN" THEN hidefile ELSE outfile,
              TestDrop[i].onfile, TestDrop[i].name, TestDrop[i].value)
    BY <1>1, <2>1, WhereLeft
  <2>3. CASE TestDrop[i].status = "HIDDEN"
    <3>1. hidefile' = hidefile
      BY <1>3, <2>3
    <3>2. QED
      BY <2>2, <2>3, <3>1 DEF InHideFile
  <2>4. CASE TestDrop[i].status = "ACTIVE"
    BY <1>1, <2>2, <2>4 DEF InHideFile
  <2>5. QED
    BY <2>1, <2>3, <2>4
<1>6. \A i \in keep : TestDrop[i].status = "STORED" =>
        /\ TestDrop[i].onfile \in DOMAIN store'
        /\ store'[TestDrop[i].onfile].name = TestDrop[i].name
        /\ Len(store'[TestDrop[i].onfile].terms) > 0
        /\ store'[TestDrop[i].onfile].terms[1] = TestDrop[i].value
  BY <1>1, StillStored
<1> HIDE DEF keep
<1>7. QED
  BY <1>1, <1>2, <1>4, <1>5, <1>6, NextModuleBegins

LEMMA DotClearKeeps ==
  ASSUME Types, StoreInStep, InStep, DotClear
  PROVE  Types' /\ StoreInStep' /\ InStep'
<1>1. /\ Expressions' = <<>> /\ number' = [n \in Names |-> 0] /\ store' = <<>>
      /\ infile' = <<>> /\ outfile' = <<>> /\ hidefile' = <<>> /\ hidefill' = 0 /\ HideLevel' = 0
      /\ CurExpr' = 0 /\ OldOnFile' = <<>> /\ compiletype' = "SPECIFICATION" /\ inparallelflag' = FALSE
      /\ old' = [i \in DOMAIN Expressions' |-> Expressions'[i].value]
      /\ UNCHANGED <<todo, statements, modules, trouble>> /\ todo = {}
  BY DEF DotClear, EmptyScratch, NextModule, ModuleDone
<1>2. Numbers' = {} /\ Compiling' /\ old' = <<>>
  BY <1>1 DEF Numbers, Compiling
<1>3. Types'
  <2>1. /\ \A T : <<>> \in Seq(T)
        /\ Len(<<>>) = 0
    OBVIOUS
  <2>2. number' \in [Names -> 0..Len(Expressions')] /\ \E k \in Nat : HideLevel' = 2 * k
    BY <1>1, <2>1
  <2>3. Len(old') <= Len(Expressions') /\ hidefill' \in 0..Len(hidefile')
    BY <1>1, <1>2, <2>1
  <2>4. statements' \in Nat /\ modules' \in Nat /\ trouble' \in Troubles
    BY <1>1 DEF Types
  <2>5. QED
    BY <1>1, <1>2, <2>1, <2>2, <2>3, <2>4 DEF Types
<1>4. StoreInStep' /\ InStep'
  <2>1. \A n \in Names : number'[n] = 0
    BY <1>1
  <2>2. DOMAIN old' = {} /\ Len(old') = Len(Expressions')
    BY <1>1, <1>2
  <2>3. QED
    BY <1>1, <1>2, <2>1, <2>2 DEF StoreInStep, InStep, NamesInStep, OldInStep, CompiledInStep, RunInStep, OldCanBeRead
<1>5. QED
  BY <1>3, <1>4

LEMMA StoreFailsKeeps ==
  ASSUME Types, StoreInStep, InStep, StoreFails
  PROVE  Types' /\ StoreInStep' /\ OutOfOrder' /\ trouble' = "not stored"
<1>1. /\ ModuleDone /\ trouble' = "not stored"
      /\ UNCHANGED <<Expressions, number, infile, outfile, hidefile, hidefill, store, HideLevel,
                     compiletype, inparallelflag, CurExpr, todo, OldOnFile, statements, modules, old>>
  BY DEF StoreFails, filevars, compilevars, runvars
<1>2. Types'
  BY <1>1 DEF Types, Troubles, Numbers, Compiling
<1>3. StoreInStep'
  BY <1>1 DEF StoreInStep, Numbers, Status, Name
<1>4. OutOfOrder
  <2>1. PICK i \in ToBeStored(TestDrop) : LengthOf(TestDrop, i) <= 0
    BY DEF StoreFails
  <2> DEFINE st == TestDrop[i].status
             next == NextInFile(TestDrop, i)
             j == Min(next)
             file == IF st = "HIDDEN" THEN hidefile ELSE outfile
  <2>2. i \in Numbers /\ st \in {"ACTIVE", "HIDDEN"} /\ DOMAIN TestDrop = Numbers
    BY <1>1, TestDropFacts DEF ToBeStored
  <2>3. Expressions[i].onfile \in Nat /\ TestDrop[i].onfile = Expressions[i].onfile /\ Numbers \subseteq Nat
    BY <1>1, <2>2, TestDropFacts, Basics
  <2>4. file \in Seq(Entries) /\ Len(file) \in Nat
    BY DEF Types
  <2>5. Holds(file, Expressions[i].onfile, Name(i), Value(i))
    BY <1>1, <2>2, WhereLeft, TestDropFacts
  <2>6. next # {}
    <3>1. Expressions[i].onfile < Len(file)
      BY <2>3, <2>4, <2>5, FileFacts DEF Holds
    <3>2. next = {} => LengthOf(TestDrop, i) = Len(file) - Expressions[i].onfile
      BY <2>3 DEF LengthOf, FileOf
    <3>3. QED
      BY <2>1, <2>3, <2>4, <3>1, <3>2
  <2>7. next \in SUBSET Nat /\ \A k \in next : k \in Numbers /\ k > i /\ TestDrop[k].status = st
    BY <2>2, <2>3 DEF NextInFile
  <2>8. j \in next /\ LengthOf(TestDrop, i) = TestDrop[j].onfile - Expressions[i].onfile
    <3>1. j \in next
      BY <2>6, <2>7, LeastOf
    <3>2. QED
      BY <2>3, <2>6, <3>1 DEF LengthOf
  <2> HIDE DEF next, j
  <2>9. j \in Numbers /\ j > i /\ TestDrop[j].status = st
    BY <2>7, <2>8
  <2>10. TestDrop[j].onfile = Expressions[j].onfile /\ Expressions[j].onfile \in Nat
    BY <1>1, <2>9, TestDropFacts, Basics
  <2>11. Holds(file, Expressions[j].onfile, Name(j), Value(j))
    BY <1>1, <2>2, <2>9, WhereLeft, TestDropFacts
  <2>12. Expressions[i].onfile # Expressions[j].onfile
    <3>1. SUFFICES ASSUME Expressions[i].onfile = Expressions[j].onfile PROVE FALSE
      OBVIOUS
    <3>2. Name(i) = Name(j)
      BY <2>5, <2>11, <3>1 DEF Holds
    <3>3. i \notin Dropped /\ j \notin Dropped
      BY <1>1, <2>2, <2>9, TestDropFacts
    <3>4. i = j
      BY <2>2, <2>9, <3>2, <3>3, NamesAfterDropFacts DEF InStep
    <3>5. QED
      BY <2>3, <2>2, <2>9, <3>4
  <2>13. Expressions[i].onfile > Expressions[j].onfile
    <3>1. Expressions[j].onfile - Expressions[i].onfile <= 0
      BY <2>1, <2>8, <2>10
    <3>2. QED
      BY <2>3, <2>10, <2>12, <3>1
  <2>14. i < j
    BY <2>2, <2>3, <2>9
  <2>15. QED
    BY <2>2, <2>9, <2>13, <2>14 DEF OutOfOrder
<1>5. TestDrop' = TestDrop
  BY <1>1 DEF TestDrop, ReplaceAfter, Dropped, Value, Numbers
<1>6. OutOfOrder'
  BY <1>1, <1>4, <1>5 DEF OutOfOrder, Numbers
<1>7. QED
  BY <1>1, <1>2, <1>3, <1>6

\* What is written to the storage file ends in the file it is read from, and begins with
\* the expression.
LEMMA StorageTypes ==
  ASSUME Types, InStep, ModuleDone, NEW i \in ToBeStored(TestDrop), LengthOf(TestDrop, i) > 0
  PROVE  LET s == ToStorage(TestDrop, i)
         IN /\ s \in [name : Names, terms : Seq(Contents)]
            /\ s.name = TestDrop[i].name /\ Len(s.terms) > 0 /\ s.terms[1] = TestDrop[i].value
<1> DEFINE st == TestDrop[i].status
           next == NextInFile(TestDrop, i)
           j == Min(next)
           file == IF st = "HIDDEN" THEN hidefile ELSE outfile
           length == LengthOf(TestDrop, i)
           position == TestDrop[i].onfile
<1>1. i \in Numbers /\ st \in {"ACTIVE", "HIDDEN"} /\ DOMAIN TestDrop = Numbers
  BY TestDropFacts DEF ToBeStored
<1>2. position \in Nat /\ TestDrop[i].name \in Names
  BY <1>1, TestDropFacts, Basics
<1>3. file \in Seq(Entries) /\ Len(file) \in Nat /\ FileOf(TestDrop[i]) = file
  BY DEF Types, FileOf
<1>4. Holds(file, position, TestDrop[i].name, TestDrop[i].value)
  BY <1>1, WhereLeft
<1>5. length \in Int /\ position + length <= Len(file)
  <2>1. CASE next = {}
    <3>1. length = Len(file) - position
      BY <1>3, <2>1 DEF LengthOf
    <3> HIDE DEF length, position, file
    <3>2. QED
      BY <1>2, <1>3, <3>1
  <2>2. CASE next # {}
    <3>1. next \in SUBSET Nat /\ \A k \in next : k \in Numbers /\ TestDrop[k].status = st
      BY <1>1, Basics DEF NextInFile
    <3>2. j \in next
      BY <2>2, <3>1, LeastOf
    <3>3. length = TestDrop[j].onfile - position
      BY <2>2 DEF LengthOf
    <3> HIDE DEF next, j
    <3>4. j \in Numbers /\ TestDrop[j].status = st
      BY <3>1, <3>2
    <3>5. TestDrop[j].onfile \in Nat
      BY <3>4, TestDropFacts, Basics
    <3>6. Holds(file, TestDrop[j].onfile, TestDrop[j].name, TestDrop[j].value)
      BY <1>1, <3>4, WhereLeft
    <3>7. TestDrop[j].onfile < Len(file)
      BY <1>3, <3>5, <3>6, FileFacts DEF Holds
    <3> HIDE DEF length, position, file
    <3>8. QED
      BY <1>2, <1>3, <3>3, <3>5, <3>7
  <2>3. QED
    BY <2>1, <2>2
<1> DEFINE terms == [k \in 1..length |-> At(file, position + k - 1).terms]
<1>6. ToStorage(TestDrop, i) = [name |-> TestDrop[i].name, terms |-> terms]
  BY <1>3 DEF ToStorage
<1>7. length \in Nat /\ length > 0
  BY <1>5
<1> HIDE DEF length, position, file
<1>8. ASSUME NEW k \in 1..length
      PROVE  terms[k] \in Contents
  <2>1. position + k - 1 \in Nat /\ position + k - 1 < Len(file)
    BY <1>2, <1>3, <1>5, <1>7
  <2>2. At(file, position + k - 1).terms \in Contents
    BY <1>3, <2>1, FileFacts
  <2>3. QED
    BY <2>2
<1>9. terms \in Seq(Contents) /\ Len(terms) = length
  <2>1. terms = [k \in 1..length |-> terms[k]]
    OBVIOUS
  <2> HIDE DEF terms
  <2>2. QED
    BY <1>7, <1>8, <2>1, IsSeqOf
<1>10. terms[1] = TestDrop[i].value
  <2>1. terms[1] = At(file, position + 1 - 1).terms
    BY <1>7
  <2>2. position + 1 - 1 = position
    BY <1>2
  <2>3. QED
    BY <1>4, <2>1, <2>2 DEF Holds
<1> HIDE DEF terms
<1>11. QED
  BY <1>2, <1>6, <1>7, <1>9, <1>10

\* The names of what .store keeps.
LEMMA DotStoreNames ==
  ASSUME Types, InStep, ModuleDone, NEW keep, NEW names,
         keep \in SUBSET {i \in Numbers : TestDrop[i].status # "DROPPED"},
         names = [n \in Names |->
           IF n \in {m \in Names : \E i \in Numbers \ keep :
                       TestDrop[i].name = m /\ TestDrop[i].status # "DROPPED"}
           THEN 0 ELSE NamesAfterDrop[n]]
  PROVE  /\ names \in [Names -> 0..Len(Expressions)]
         /\ \A i \in keep : names[TestDrop[i].name] = i
         /\ \A n \in Names : names[n] # 0 => names[n] \in keep /\ TestDrop[names[n]].name = n
<1> DEFINE left == {i \in Numbers : TestDrop[i].status # "DROPPED"}
           gone == {m \in Names : \E i \in Numbers \ keep :
                       TestDrop[i].name = m /\ TestDrop[i].status # "DROPPED"}
<1>1. Consistent(TestDrop, left, NamesAfterDrop)
  BY AfterDropConsistent
<1>2. /\ \A i \in left : NamesAfterDrop[TestDrop[i].name] = i
      /\ \A n \in Names : NamesAfterDrop[n] # 0 =>
           NamesAfterDrop[n] \in left /\ TestDrop[NamesAfterDrop[n]].name = n
      /\ NamesAfterDrop \in [Names -> 0..Len(Expressions)]
  BY <1>1 DEF Consistent
<1>3. \A i \in Numbers : TestDrop[i].name \in Names
  BY TestDropFacts, Basics
<1>4. /\ \A n \in Names : names[n] = IF n \in gone THEN 0 ELSE NamesAfterDrop[n]
      /\ names = [n \in Names |-> names[n]]
  OBVIOUS
<1>5. \A m \in Names : m \in gone <=> \E i \in left \ keep : TestDrop[i].name = m
  OBVIOUS
<1>6. keep \subseteq left /\ left \subseteq Numbers
  OBVIOUS
<1> HIDE DEF left, gone
<1>7. ASSUME NEW i \in keep
      PROVE  names[TestDrop[i].name] = i
  <2>1. TestDrop[i].name \in Names /\ NamesAfterDrop[TestDrop[i].name] = i
    BY <1>2, <1>3, <1>6
  <2>2. TestDrop[i].name \notin gone
    BY <1>2, <1>5, <2>1
  <2>3. QED
    BY <1>4, <2>1, <2>2
<1>8. ASSUME NEW n \in Names, names[n] # 0
      PROVE  names[n] \in keep /\ TestDrop[names[n]].name = n
  BY <1>2, <1>4, <1>5, <1>8
<1>9. names \in [Names -> 0..Len(Expressions)]
  <2>1. Len(Expressions) \in Nat
    BY Basics
  <2>2. \A n \in Names : names[n] \in 0..Len(Expressions)
    BY <1>2, <1>4, <2>1
  <2>3. QED
    BY <1>4, <2>2
<1>10. QED
  BY <1>7, <1>8, <1>9

LEMMA DotStoreKeeps ==
  ASSUME Types, StoreInStep, InStep, DotStore
  PROVE  Types' /\ StoreInStep' /\ InStep'
<1> DEFINE stores == ToBeStored(TestDrop)
           keep == stores \cup {i \in Numbers : TestDrop[i].status = "STORED"}
           Stored(i) == IF i \in stores
                        THEN [TestDrop[i] EXCEPT !.status = "STORED",
                                                 !.onfile = Len(store) + NewNumber(stores, i)]
                        ELSE TestDrop[i]
           kept == [i \in Numbers |-> Stored(i)]
           gone == {n \in Names : \E i \in Numbers \ keep :
                      TestDrop[i].name = n /\ TestDrop[i].status # "DROPPED"}
           names == [n \in Names |-> IF n \in gone THEN 0 ELSE NamesAfterDrop[n]]
           C == Cardinality(stores)
           new == [k \in 1..C |-> ToStorage(TestDrop, Nth(stores, k))]
<1>1. /\ ModuleDone /\ \A i \in stores : LengthOf(TestDrop, i) > 0
      /\ store' = store \o new
      /\ Expressions' = Compacted(kept, keep) /\ number' = Renumbered(names, kept, keep)
      /\ infile' = <<>> /\ outfile' = <<>> /\ hidefile' = <<>> /\ hidefill' = 0 /\ HideLevel' = 0
      /\ NextModule /\ UNCHANGED <<todo, statements, modules, trouble>>
  BY DEF DotStore, EmptyScratch
<1>2. /\ DOMAIN TestDrop = Numbers
      /\ \A i \in Numbers : TestDrop[i].replace = -1
      /\ \A i \in Numbers : TestDrop[i].status # "DROPPED" => TestDrop[i] \in Records /\ TestDrop[i].value.slot = 0
  BY <1>1, TestDropFacts
<1>3. /\ \A i \in stores : i \in Numbers /\ TestDrop[i].status \in {"ACTIVE", "HIDDEN"}
      /\ \A i \in keep : i \in Numbers /\ TestDrop[i].status # "DROPPED"
      /\ \A i \in keep \ stores : TestDrop[i].status = "STORED"
      /\ stores \subseteq keep
  BY <1>2 DEF ToBeStored
<1>4. /\ C \in Nat
      /\ \A i \in stores : NewNumber(stores, i) \in 1..C /\ Nth(stores, NewNumber(stores, i)) = i
      /\ \A k \in 1..C : Nth(stores, k) \in stores
  <2>1. Len(Expressions) \in Nat /\ Numbers = 1..Len(Expressions)
    BY Basics
  <2>2. stores \in SUBSET (1..Len(Expressions))
    BY <1>3, <2>1
  <2> HIDE DEF stores
  <2>3. QED
    BY <2>1, <2>2, Ranks
<1>5. /\ names \in [Names -> 0..Len(Expressions)]
      /\ \A i \in keep : names[TestDrop[i].name] = i
      /\ \A n \in Names : names[n] # 0 => names[n] \in keep /\ TestDrop[names[n]].name = n
  <2>1. keep \in SUBSET {i \in Numbers : TestDrop[i].status # "DROPPED"}
    BY <1>3
  <2> HIDE DEF keep
  <2>2. QED
    BY <1>1, <2>1, DotStoreNames
<1>6. /\ store \in Seq([name : Names, terms : Seq(Contents)]) /\ Len(store) \in Nat
      /\ new \in Seq([name : Names, terms : Seq(Contents)]) /\ Len(new) = C
      /\ \A k \in 1..C : new[k] = ToStorage(TestDrop, Nth(stores, k))
  <2>1. store \in Seq([name : Names, terms : Seq(Contents)]) /\ Len(store) \in Nat
    BY DEF Types
  <2>2. new = [k \in 1..C |-> new[k]] /\ \A k \in 1..C : new[k] = ToStorage(TestDrop, Nth(stores, k))
    OBVIOUS
  <2> HIDE DEF new, C, stores
  <2>3. \A k \in 1..C : new[k] \in [name : Names, terms : Seq(Contents)]
    BY <1>1, <1>4, <2>2, StorageTypes DEF stores
  <2> DEFINE T == [name : Names, terms : Seq(Contents)]
  <2>4. C \in Nat /\ \A k \in 1..C : new[k] \in T
    BY <1>4, <2>3
  <2> HIDE DEF T
  <2>5. new \in Seq(T) /\ Len(new) = C
    BY <2>2, <2>4, IsSeqOf
  <2>6. QED
    BY <2>1, <2>2, <2>5 DEF T
<1> HIDE DEF new, C
<1>7. /\ store' \in Seq([name : Names, terms : Seq(Contents)])
      /\ DOMAIN store' = 1..(Len(store) + C)
      /\ \A k \in 1..Len(store) : store'[k] = store[k]
      /\ \A k \in 1..C : store'[Len(store) + k] = new[k]
  <2> DEFINE T == [name : Names, terms : Seq(Contents)]
  <2>1. store' = store \o new /\ store \in Seq(T) /\ new \in Seq(T) /\ Len(new) = C /\ C \in Nat
    BY <1>1, <1>4, <1>6
  <2> HIDE DEF T
  <2>2. /\ store \o new \in Seq(T) /\ Len(store \o new) = Len(store) + C
        /\ DOMAIN store = 1..Len(store) /\ DOMAIN (store \o new) = 1..Len(store \o new)
        /\ Len(store) \in Nat
    <3>1. store \o new \in Seq(T)
      BY <2>1, ConcatProperties
    <3>2. Len(store \o new) = Len(store) + Len(new)
      BY <2>1, ConcatProperties
    <3>3. DOMAIN (store \o new) = 1..Len(store \o new)
      BY <3>1
    <3>4. DOMAIN store = 1..Len(store) /\ Len(store) \in Nat
      BY <2>1
    <3>5. QED
      BY <2>1, <3>1, <3>2, <3>3, <3>4
  <2>3. \A k \in 1..Len(store) + C : (store \o new)[k] = IF k <= Len(store) THEN store[k] ELSE new[k - Len(store)]
    BY <2>1, <2>2
  <2>4. ASSUME NEW k \in 1..Len(store)
        PROVE  store'[k] = store[k]
    <3>1. k \in 1..Len(store) + C /\ k <= Len(store)
      BY <2>1, <2>2
    <3>2. QED
      BY <2>1, <2>3, <3>1
  <2>5. ASSUME NEW k \in 1..C
        PROVE  store'[Len(store) + k] = new[k]
    <3>1. /\ Len(store) + k \in 1..Len(store) + C /\ ~(Len(store) + k <= Len(store))
          /\ Len(store) + k - Len(store) = k
      BY <2>1, <2>2
    <3>2. QED
      BY <2>1, <2>3, <3>1
  <2>6. QED
    BY <2>1, <2>2, <2>4, <2>5 DEF T
<1>8. ASSUME NEW i \in keep
      PROVE  /\ kept[i] \in Records /\ kept[i].value.slot = 0 /\ kept[i].status = "STORED"
             /\ kept[i].onfile \in DOMAIN store'
             /\ store'[kept[i].onfile].name = kept[i].name
             /\ Len(store'[kept[i].onfile].terms) > 0
             /\ store'[kept[i].onfile].terms[1] = kept[i].value
  <2>1. i \in Numbers /\ TestDrop[i] \in Records /\ TestDrop[i].value.slot = 0 /\ kept[i] = Stored(i)
    BY <1>2, <1>3
  <2>2. CASE i \in stores
    <3> DEFINE position == Len(store) + NewNumber(stores, i)
    <3>1. position \in 1..(Len(store) + C) /\ position \in Nat
      BY <1>4, <1>6, <2>2
    <3>2. kept[i] = [TestDrop[i] EXCEPT !.status = "STORED", !.onfile = position]
      BY <2>1, <2>2
    <3>3. store'[position] = ToStorage(TestDrop, i)
      BY <1>4, <1>6, <1>7, <2>2
    <3>4. LET s == ToStorage(TestDrop, i)
          IN s.name = TestDrop[i].name /\ Len(s.terms) > 0 /\ s.terms[1] = TestDrop[i].value
      BY <1>1, <2>2, StorageTypes
    <3> HIDE DEF position, kept, stores
    <3>5. /\ kept[i] \in Records /\ kept[i].status = "STORED" /\ kept[i].onfile = position
          /\ kept[i].name = TestDrop[i].name /\ kept[i].value = TestDrop[i].value
      BY <2>1, <3>1, <3>2 DEF Records, Statuses
    <3>6. QED
      BY <1>7, <2>1, <3>1, <3>3, <3>4, <3>5
  <2>3. CASE i \notin stores
    <3>1. kept[i] = TestDrop[i] /\ TestDrop[i].status = "STORED"
      BY <1>3, <2>1, <2>3
    <3> HIDE DEF kept, stores, keep
    <3>2. /\ TestDrop[i].onfile \in DOMAIN store
          /\ store[TestDrop[i].onfile].name = TestDrop[i].name
          /\ Len(store[TestDrop[i].onfile].terms) > 0
          /\ store[TestDrop[i].onfile].terms[1] = TestDrop[i].value
      BY <1>1, <2>1, <3>1, StillStored
    <3>3. DOMAIN store = 1..Len(store)
      BY <1>6
    <3>4. TestDrop[i].onfile \in DOMAIN store' /\ store'[TestDrop[i].onfile] = store[TestDrop[i].onfile]
      BY <1>4, <1>6, <1>7, <3>2, <3>3
    <3>5. QED
      BY <2>1, <3>1, <3>2, <3>4
  <2>4. QED
    BY <2>2, <2>3
<1>9. Consistent(kept, keep, names)
  <2>1. DOMAIN kept = Numbers /\ \A i \in Numbers : kept[i].replace = -1 /\ kept[i].name = TestDrop[i].name
    <3>1. DOMAIN kept = Numbers /\ \A i \in Numbers : kept[i] = Stored(i)
      OBVIOUS
    <3>2. ASSUME NEW i \in Numbers
          PROVE  kept[i].replace = -1 /\ kept[i].name = TestDrop[i].name
      <4>1. CASE i \in stores
        <5>1. TestDrop[i] \in Records
          BY <1>2, <1>3, <4>1
        <5>2. kept[i] = [TestDrop[i] EXCEPT !.status = "STORED",
                                            !.onfile = Len(store) + NewNumber(stores, i)]
          BY <3>1, <4>1
        <5>3. TestDrop[i].replace = -1
          BY <1>2
        <5> HIDE DEF kept, stores
        <5>4. QED
          BY <5>1, <5>2, <5>3 DEF Records
      <4>2. CASE i \notin stores
        BY <1>2, <3>1, <4>2
      <4>3. QED
        BY <4>1, <4>2
    <3>3. QED
      BY <3>1, <3>2
  <2>2. keep \in SUBSET Numbers
    BY <1>3
  <2> HIDE DEF kept, keep, names, stores
  <2>3. \A n \in Names : names[n] # 0 => kept[names[n]].name = n
    BY <1>5, <2>1, <2>2
  <2>4. \A i \in keep : names[kept[i].name] = i
    BY <1>5, <2>1, <2>2
  <2>5. QED
    BY <1>5, <1>8, <2>1, <2>2, <2>3, <2>4 DEF Consistent
<1> HIDE DEF kept, keep, names, stores
<1>10. /\ infile' \in Seq(Entries) /\ outfile' \in Seq(Entries) /\ hidefile' \in Seq(Entries)
       /\ hidefill' \in 0..Len(hidefile') /\ trouble' \in Troubles /\ todo' = {}
  <2>1. <<>> \in Seq(Entries) /\ 0 \in 0..Len(<<>>)
    OBVIOUS
  <2>2. todo = {}
    BY <1>1, WhenDone
  <2>3. QED
    BY <1>1, <2>1, <2>2 DEF Types
<1>11. /\ \A i \in keep : kept[i].status # "STORED" =>
             Holds(IF kept[i].status \in InHideFile THEN hidefile' ELSE outfile',
                   kept[i].onfile, kept[i].name, kept[i].value)
       /\ \A i \in keep : kept[i].status = "STORED" =>
             /\ kept[i].onfile \in DOMAIN store'
             /\ store'[kept[i].onfile].name = kept[i].name
             /\ Len(store'[kept[i].onfile].terms) > 0
             /\ store'[kept[i].onfile].terms[1] = kept[i].value
  BY <1>8
<1>12. /\ Expressions' = Compacted(kept, keep) /\ number' = Renumbered(names, kept, keep) /\ NextModule
       /\ UNCHANGED <<statements, modules>> /\ (HideLevel' = HideLevel \/ HideLevel' = 0)
       /\ store' \in Seq([name : Names, terms : Seq(Contents)])
  BY <1>1, <1>7
<1>13. QED
  BY <1>9, <1>10, <1>11, <1>12, NextModuleBegins

-----------------------------------------------------------------------------
(* The invariant and the properties *)

LEMMA CompileKeeps ==
  ASSUME Types, StoreInStep, InStep, trouble = "none", Compile
  PROVE  /\ Types' /\ StoreInStep' /\ (trouble' = "none" => InStep')
         /\ trouble' \in {"none", "two of a name"}
<1>1. ASSUME NEW par \in Marks, NEW S \in Addressed, SetExpr(par, S)
      PROVE  Types' /\ StoreInStep' /\ InStep' /\ trouble' = "none"
  <2>1. MarksOnly /\ Types'
    BY <1>1, SetExprMarks
  <2>2. QED
    BY <2>1, MarksKeep DEF MarksOnly
<1>2. ASSUME CoPushHide \/ CoPopHide
      PROVE  Types' /\ StoreInStep' /\ InStep' /\ trouble' = "none"
  <2>1. MarksOnly /\ Types'
    BY <1>2, HideStatementsMark
  <2>2. QED
    BY <2>1, MarksKeep DEF MarksOnly
<1>3. ASSUME NEW par \in BOOLEAN, NEW S \in Addressed, DoInParallel(par, S)
      PROVE  Types' /\ StoreInStep' /\ InStep' /\ trouble' = "none"
  <2>1. MarksOnly /\ Types'
    BY <1>3, DoInParallelMarks
  <2>2. QED
    BY <2>1, MarksKeep DEF MarksOnly
<1>4. ASSUME DeleteStore
      PROVE  Types' /\ StoreInStep' /\ InStep' /\ trouble' = "none"
  BY <1>4, DeleteStoreKeeps DEF DeleteStore
<1>5. ASSUME NEW n \in Names, NEW isglobal \in BOOLEAN, NEW rhs \in RightHandSides,
             DoExpr(n, isglobal, rhs)
      PROVE  /\ Types' /\ StoreInStep' /\ (trouble' = "none" => InStep')
             /\ trouble' \in {"none", "two of a name"}
  <2>1. Types'
    BY <1>5, DoExprTypes
  <2>2. StoreInStep'
    BY <1>5, DoExprStore
  <2>3. trouble' = "none" => InStep'
    BY <1>5, DoExprKeeps
  <2>4. trouble' \in {"none", "two of a name"}
    BY <1>5 DEF DoExpr
  <2>5. QED
    BY <2>1, <2>2, <2>3, <2>4
<1>6. ASSUME NEW n \in Names, NEW isglobal \in BOOLEAN, ChangeProperty(n, isglobal)
      PROVE  Types' /\ StoreInStep' /\ InStep' /\ trouble' = "none"
  <2>1. MarksOnly /\ Types'
    BY <1>6, ChangePropertyMarks
  <2>2. QED
    BY <2>1, MarksKeep DEF MarksOnly
<1>7. QED
  BY <1>1, <1>2, <1>3, <1>4, <1>5, <1>6 DEF Compile

LEMMA StepKeepsIInv == IInv /\ [Next]_vars => IInv'
<1> SUFFICES ASSUME IInv, [Next]_vars PROVE IInv'
  OBVIOUS
<1> USE DEF IInv
<1>1. CASE Compile
  <2>1. trouble = "none"
    BY <1>1 DEF Compile, SetExpr, CoPushHide, CoPopHide, DoInParallel, DeleteStore, DoExpr,
                ChangeProperty, Statement, NextStatement
  <2>2. QED
    BY <1>1, <2>1, CompileKeeps
<1>2. CASE StartExecution
  <2>1. trouble = "none" /\ trouble' = "none"
    BY <1>2 DEF StartExecution
  <2>2. QED
    BY <1>2, <2>1, StartExecutionKeeps
<1>3. ASSUME NEW i \in todo, DoOneExpression(i)
      PROVE  IInv'
  <2>1. trouble = "none"
    BY <1>3 DEF DoOneExpression
  <2>2. QED
    BY <1>3, <2>1, DoOneExpressionKeeps
<1>4. CASE Process
  <2>1. trouble = "none"
    BY <1>4 DEF Process
  <2>2. QED
    BY <1>4, <2>1, ProcessKeeps
<1>5. CASE DotSort
  <2>1. trouble = "none" /\ trouble' = "none"
    BY <1>5 DEF DotSort, ModuleDone
  <2>2. QED
    BY <1>5, <2>1, DotSortKeeps
<1>6. CASE DotStore
  <2>1. trouble = "none" /\ trouble' = "none"
    BY <1>6 DEF DotStore, ModuleDone
  <2>2. QED
    BY <1>6, <2>1, DotStoreKeeps
<1>7. CASE DotClear
  <2>1. trouble = "none" /\ trouble' = "none"
    BY <1>7 DEF DotClear, ModuleDone
  <2>2. QED
    BY <1>7, <2>1, DotClearKeeps
<1>8. CASE StoreFails
  <2>1. trouble = "none"
    BY <1>8 DEF StoreFails, ModuleDone
  <2>2. QED
    BY <1>8, <2>1, StoreFailsKeeps
<1>9. CASE UNCHANGED vars
  <2>1. UNCHANGED <<Expressions, number, infile, outfile, hidefile, hidefill, store, HideLevel,
                    compiletype, inparallelflag, CurExpr, todo, OldOnFile, statements, modules, old,
                    trouble>>
    BY <1>9 DEF vars, filevars, compilevars, runvars
  <2>2. Types'
    BY <2>1 DEF Types, Numbers, Compiling
  <2>3. StoreInStep'
    BY <2>1 DEF StoreInStep, Numbers, Name, Status
  <2>4. Numbers' = Numbers /\ Compiling' = Compiling
    BY <2>1 DEF Numbers, Compiling
  <2>5. ASSUME OutOfOrder
        PROVE  OutOfOrder'
    <3>1. TestDrop' = TestDrop
      BY <2>1 DEF TestDrop, ReplaceAfter, Dropped, Value, Numbers
    <3>2. QED
      BY <2>1, <2>4, <2>5, <3>1 DEF OutOfOrder
  <2>6. ASSUME InStep
        PROVE  InStep'
    <3>1. NamesInStep' /\ OldInStep'
      BY <2>1, <2>4, <2>6 DEF InStep, NamesInStep, OldInStep, Name, Status
    <3>2. CompiledInStep'
      BY <2>1, <2>4, <2>6 DEF InStep, CompiledInStep, Name, Status
    <3>3. /\ \A i : Value(i)' = Value(i) /\ Source(i)' = Source(i) /\ Target(i)' = Target(i)
          /\ \A i : Name(i)' = Name(i) /\ Status(i)' = Status(i)
      BY <2>1 DEF Value, Source, Target, Name, Status
    <3>4. \A i : (ToBeDone(i)' <=> ToBeDone(i)) /\ (Needed(i)' <=> Needed(i))
      BY <2>1 DEF ToBeDone, Needed, Status
    <3>5. RunInStep'
      BY <2>1, <2>4, <2>6, <3>3, <3>4 DEF InStep, RunInStep
    <3>6. StillReading' <=> StillReading
      BY <2>1, <2>4 DEF StillReading
    <3>7. OldCanBeRead'
      BY <2>1, <2>4, <2>6, <3>3, <3>6 DEF InStep, OldCanBeRead
    <3>8. QED
      BY <3>1, <3>2, <3>5, <3>7 DEF InStep
  <2>7. QED
    BY <2>1, <2>2, <2>3, <2>5, <2>6
<1>10. QED
  BY <1>1, <1>2, <1>3, <1>4, <1>5, <1>6, <1>7, <1>8, <1>9 DEF Next

\* The invariant of the modules: the names, the array, the files and the values agree
\* (Processor, proces.c; TestDrop and CleanExpr, execute.c; DoExpr, compexpr.c).
THEOREM ExpressionsInvariant == Spec => []IInv
<1>1. Init => IInv
  BY InitIInv
<1>2. IInv /\ [Next]_vars => IInv'
  BY StepKeepsIInv
<1>3. QED
  BY <1>1, <1>2, PTL DEF Spec

\* Every variable has its type, in every program.
THEOREM TypeCorrect == Spec => []TypeOK
<1>1. IInv => TypeOK
  <2> SUFFICES ASSUME Types PROVE TypeOK
    BY DEF IInv
  <2> DEFINE R == [name : Names, status : Statuses, global : BOOLEAN, onfile : Nat,
                   replace : Int, hidelevel : Nat, partodo : BOOLEAN,
                   value : [slot : Nat, definition : Nat, times : Nat]]
  <2>1. Len(Expressions) \in Nat /\ DOMAIN Expressions = 1..Len(Expressions)
        /\ \A i \in DOMAIN Expressions : Expressions[i] \in Records
    BY Basics DEF Numbers
  <2>2. \A e \in Records : e \in R
    <3>1. Replacements \subseteq Int
      BY DEF Replacements, REGULAREXPRESSION, REDEFINEDEXPRESSION, NEWLYDEFINEDEXPRESSION
    <3>2. QED
      BY <3>1 DEF Records, Contents
  <2>3. Expressions = [i \in 1..Len(Expressions) |-> Expressions[i]]
    BY <2>1 DEF Types
  <2> HIDE DEF R
  <2>4. \A i \in 1..Len(Expressions) : Expressions[i] \in R
    BY <2>1, <2>2
  <2>5. Expressions \in Seq(R)
    BY <2>1, <2>3, <2>4, IsSeqOf
  <2>6. HideLevel \in Nat
    BY DEF Types
  <2>7. QED
    BY <2>5, <2>6 DEF Types, TypeOK, R
<1>2. QED
  BY <1>1, ExpressionsInvariant, PTL

\* Between modules every expression is in the file its status says, at its position, with
\* the terms it should have, and Processor never misses one, for any number of expressions,
\* statements and modules (proces.c:166-635; execute.c:47-197).
THEOREM ExpressionsAreFound == Spec => []EveryExpressionIsFound
<1>1. IInv => EveryExpressionIsFound
  BY DEF IInv, InStep, CompiledInStep, EveryExpressionIsFound, Holds, Name, Status
<1>2. QED
  BY <1>1, ExpressionsInvariant, PTL

\* While expressions are done, a right hand side gets what the expression it names was
\* before the module (DoOnePow and GetFromStore, proces.c:4661-4692).
THEOREM ReferencesAreOld == Spec => []ReferencesSeeTheOldExpression
<1>1. IInv => ReferencesSeeTheOldExpression
  BY ReferencesSeen DEF IInv, InStep, ReferencesSeeTheOldExpression
<1>2. QED
  BY <1>1, ExpressionsInvariant, PTL

\* A name leads to its expression, however many were dropped before it (CleanExpr,
\* execute.c:150-153; TestDrop, execute.c:519-527).
THEOREM NamesLeadThere == Spec => []NamesFindTheirExpression
<1>1. IInv => NamesFindTheirExpression
  <2> SUFFICES ASSUME Types, NamesInStep PROVE NamesFindTheirExpression
    BY DEF IInv, InStep, NamesFindTheirExpression
  <2>1. \A n \in Names : number[n] # 0 => number[n] \in Numbers
    BY Basics
  <2>2. \A i \in Numbers : Name(i) \in Names
    BY Basics
  <2>3. ASSUME NEW i \in Numbers
        PROVE  \/ number[Name(i)] = i
               \/ number[Name(i)] \in Numbers /\ Expressions[number[Name(i)]].replace = i
    <3>1. number[Name(i)] \in Numbers
      BY <2>1, <2>2 DEF NamesInStep
    <3>2. QED
      BY <3>1 DEF NamesInStep
  <2>4. QED
    BY <2>1, <2>3 DEF NamesFindTheirExpression, NamesInStep, Name
<1>2. QED
  BY <1>1, ExpressionsInvariant, PTL

\* What is stored is the expression, and storing fails only when two expressions are in a
\* file in another order than in the array (CleanExpr, execute.c:100-137; ToStorage,
\* store.c:2017).
THEOREM WhatIsStoredIsWhole == Spec => []StoredIsWhole
<1>1. IInv => StoredIsWhole
  <2> SUFFICES ASSUME Types, StoreInStep, trouble = "not stored" => OutOfOrder PROVE StoredIsWhole
    BY DEF IInv
  <2>1. ASSUME NEW i \in Numbers, Status(i) = "STORED"
        PROVE  Head(store[Expressions[i].onfile].terms) = Expressions[i].value
    <3> DEFINE s == store[Expressions[i].onfile]
    <3>1. /\ Expressions[i].onfile \in DOMAIN store
          /\ Len(s.terms) > 0 /\ s.terms[1] = Expressions[i].value
      BY <2>1 DEF StoreInStep
    <3>2. \A k \in DOMAIN store : store[k] \in [name : Names, terms : Seq(Contents)]
      <4>1. store \in Seq([name : Names, terms : Seq(Contents)])
        BY DEF Types
      <4>2. QED
        BY <4>1, ElementOfSeq, LenProperties
    <3>3. s \in [name : Names, terms : Seq(Contents)]
      BY <3>1, <3>2
    <3> HIDE DEF s
    <3>4. s.terms \in Seq(Contents)
      BY <3>3
    <3>5. Head(s.terms) = Expressions[i].value
      BY <3>1, <3>4, HeadIsFirst
    <3>6. QED
      BY <3>5 DEF s
  <2>2. \A i \in Numbers : Status(i) = "STORED" => store[Expressions[i].onfile].name = Name(i)
    BY DEF StoreInStep
  <2>3. QED
    BY <2>1, <2>2 DEF StoredIsWhole, OutOfOrder, Name, Status
<1>2. QED
  BY <1>1, ExpressionsInvariant, PTL
=============================================================================
