----------------------------- MODULE MergeTerms -----------------------------
(***************************************************************************)
(* The two algorithms of sort.c that sort and merge terms: SplitMerge for  *)
(* the small buffer and the tree of MergePatches for patches.  A term is a *)
(* key, which stands for everything that CompareTerms looks at, and a      *)
(* coefficient.  A leap of SplitMerge over long runs (Timsort) that the    *)
(* sizes checked here do not reach is left out.                            *)
(***************************************************************************)
EXTENDS Integers, SequencesExt, FiniteSetsExt

CompareTerms(a, b) == b.key - a.key    \* > 0: a comes before b

\* AddCoef, AddRat: the sum of two terms, nothing when they cancel.
Added(a, b) == IF a.coef + b.coef = 0
               THEN <<>> ELSE <<[a EXCEPT !.coef = @ + b.coef]>>

RECURSIVE MergeTwo(_, _)
MergeTwo(l, r) ==
  IF l = <<>> THEN r
  ELSE IF r = <<>> THEN l
  ELSE LET c == CompareTerms(Head(l), Head(r)) IN
       IF c < 0 THEN <<Head(r)>> \o MergeTwo(l, Tail(r))
       ELSE IF c > 0 THEN <<Head(l)>> \o MergeTwo(Tail(l), r)
       ELSE Added(Head(l), Head(r)) \o MergeTwo(Tail(l), Tail(r))

\* Two halves whose ends are in order are put together without merging.
Adjoined(l, r) == IF Last(l).key = Head(r).key
                  THEN Front(l) \o Added(Last(l), Head(r)) \o Tail(r)
                  ELSE l \o r
InOrder(l, r) == l # <<>> /\ CompareTerms(Last(l), Head(r)) >= 0

RECURSIVE SplitMerge(_)
SplitMerge(s) ==
  IF Len(s) < 2 THEN s
  ELSE LET split == Len(s) \div 2
           l == SplitMerge(SubSeq(s, 1, split))
           r == SplitMerge(SubSeq(s, split + 1, Len(s)))
       IN IF r = <<>> THEN l
          ELSE IF InOrder(l, r) THEN Adjoined(l, r) ELSE MergeTwo(l, r)

(***************************************************************************)
(* MergePatches merges the streams through a tree of losers.  The record m *)
(* holds tree (0: nobody comes here any more, -1: waiting for the second   *)
(* of two, else the leaf that lost here), the stack used of leaves that    *)
(* must enter, the streams str by leaf, the output, and how many terms     *)
(* disappeared.                                                            *)
(***************************************************************************)
Leaves(m) == Len(m.tree) + 1                                    \* lpat
Above(m, k) == \* the nodes from leaf k to the root
  {j \in 1..Len(m.tree) : (k + Leaves(m) - 1) \div 2^j > 0}
Node(m, k, j) == (k + Leaves(m) - 1) \div 2^j

\* The number of terms that disappear when two cancel.
TermsCancelled == 2

\* The two streams of equal terms after the sum was made; node n.
Equal(m, t, k, n) ==
  LET sum == Added(Head(m.str[t]), Head(m.str[k])) IN
  IF sum # <<>>
  THEN [m EXCEPT !.str[t] = sum \o Tail(@), !.str[k] = Tail(@), !.less = @ + 1]
  ELSE [m EXCEPT !.str[t] = Tail(@), !.str[k] = Tail(@), !.tree[n] = -1,
                 !.used = Front(@) \o <<t, k>>, !.less = @ + TermsCancelled]

RECURSIVE OneTerm(_), MoveDown(_, _, _)
\* Leaf k, the top of used, goes on from node n towards the root.
MoveDown(m, k, n) ==
  LET i == n \div 2
      t == m.tree[i]
      c == CompareTerms(Head(m.str[t]), Head(m.str[k]))
  IN IF i = 0
     THEN OneTerm([m EXCEPT !.out = Append(@, Head(m.str[k])), !.str[k] = Tail(@)])
     ELSE IF t = 0 THEN MoveDown(m, k, i)
     ELSE IF t = -1 THEN OneTerm([m EXCEPT !.tree[i] = k, !.used = Front(@)])
     ELSE IF c > 0
          THEN MoveDown([m EXCEPT !.tree[i] = k, !.used[Len(m.used)] = t], t, i)
     ELSE IF c < 0 THEN MoveDown(m, k, i)
     ELSE OneTerm(Equal(m, t, k, i))

OneTerm(m) ==
  LET k == Last(m.used)
      up == {j \in Above(m, k) : m.tree[Node(m, k, j)] # 0}
      n == Node(m, k, Min(up))
      t == m.tree[n]
  IN IF m.str[k] # <<>> THEN MoveDown(m, k, k + Leaves(m) - 1)
     ELSE IF up = {} THEN m
     ELSE IF t = -1 THEN OneTerm([m EXCEPT !.tree[n] = 0, !.used = Front(@)])
     ELSE MoveDown([m EXCEPT !.tree[n] = 0, !.used[Len(m.used)] = t], t, n)

\* The tree for the streams s, at least two of them: the first ones have no
\* partner when their number is not a power of two.
Tree(s) ==
  LET lpat == CHOOSE p \in {2^j : j \in 1..Len(s)} : p >= Len(s) /\ p < 2 * Len(s)
      k == lpat - Len(s)
      leaf(i) == IF i <= k THEN 2 * i - 1 ELSE i + k
  IN [tree |-> [i \in 1..(lpat - 1) |->
                  IF i \in lpat \div 2 .. lpat \div 2 - 1 + k THEN 0 ELSE -1],
      used |-> [i \in 1..Len(s) |-> leaf(i)],
      str  |-> [l \in 1..lpat |->
                  IF \E i \in 1..Len(s) : leaf(i) = l
                  THEN s[CHOOSE i \in 1..Len(s) : leaf(i) = l] ELSE <<>>],
      out  |-> <<>>, less |-> 0]

\* A single patch is copied.
Merged(s) == IF Len(s) = 1 THEN [out |-> s[1], less |-> 0]
             ELSE OneTerm(Tree(s))
=============================================================================
