--------------------------- MODULE StructureProofs ----------------------------
(***************************************************************************)
(* The life of the structure tree, for every set of machines whose trees    *)
(* have the shape that add_node() gives them, every id width and every size *)
(* of release_node()'s stack that takes those trees; and the CPU files, for *)
(* every number of CPUs that cpumap has room for, and of cores.             *)
(***************************************************************************)
EXTENDS Structure, FiniteSetTheorems, TLAPS

-------------------------------------------------------------------------------
(* The inductive invariant.                                                 *)

TypeOK ==
  /\ machine \in Machines /\ phase \in {"none", "built", "releasing"}
  /\ nextId \in Nat /\ base \in Nat /\ given \in Nat
  /\ live \in SUBSET (1 .. Size(machine)) /\ stack \in Seq(1 .. Size(machine))

\* The counter is where the ids taken so far have brought it, and so it was when
\* the present tree was begun.
IdInv ==
  /\ nextId = (ROOT_ID + 1 + given) % IdBound
  /\ phase # "none" =>
       \E before \in Nat : /\ given = before + Size(machine) - 1
                           /\ base = (ROOT_ID + 1 + before) % IdBound

\* A node waits on the stack at the height that its place in the tree gives; it
\* is allocated, its parent is not; the descendants of an allocated node are
\* allocated, and every allocated node is on the stack or below one that is.
StackInv ==
  /\ \A k \in 1 .. Len(stack) :
       /\ Below[machine][stack[k]] = k - 1
       /\ stack[k] \in live /\ Parent[machine][stack[k]] \notin live
  /\ \A i \in 2 .. Size(machine) : Parent[machine][i] \in live => i \in live
  /\ \A i \in live : (\A k \in 1 .. Len(stack) : stack[k] # i) =>
                       i # 1 /\ Parent[machine][i] \in live

ReleaseInv ==
  /\ phase = "none" => live = {} /\ stack = <<>>
  /\ phase = "built" => live = 1 .. Size(machine) /\ stack = <<>>
  /\ phase = "releasing" => StackInv

IInv == TypeOK /\ IdInv /\ ReleaseInv

-------------------------------------------------------------------------------
(* Sequences, and what TreeShape says of one node.                          *)

(* The stack and the child lists are finite sequences: what is used of those.  *)
LEMMA SeqFacts ==
  ASSUME NEW S, NEW s \in Seq(S)
  PROVE  /\ Len(s) \in Nat /\ DOMAIN s = 1 .. Len(s)
         /\ \A k \in 1 .. Len(s) : s[k] \in S
         /\ s # <<>> => Len(s) > 0
         /\ SubSeq(s, 1, Len(s)) = s
OBVIOUS

(* The elements of a sequence that was put together from two.                  *)
LEMMA ConcatFacts ==
  ASSUME NEW S, NEW s \in Seq(S), NEW t \in Seq(S)
  PROVE  /\ s \o t \in Seq(S) /\ Len(s \o t) = Len(s) + Len(t)
         /\ \A k \in 1 .. Len(s) + Len(t) :
              (s \o t)[k] = IF k <= Len(s) THEN s[k] ELSE t[k - Len(s)]
OBVIOUS

(* The ssn_children list of a node: its children, each of them once.           *)
LEMMA ChildList ==
  ASSUME NEW m \in Machines, NEW p \in 1 .. Size(m)
  PROVE  LET kids == Children[m][p]
         IN  /\ kids \in Seq(2 .. Size(m)) /\ Len(kids) \in Nat
             /\ DOMAIN kids = 1 .. Len(kids)
             /\ \A k \in 1 .. Len(kids) :
                  kids[k] \in 2 .. Size(m) /\ Parent[m][kids[k]] = p
             /\ \A j, k \in 1 .. Len(kids) : kids[j] = kids[k] => j = k
<1> DEFINE kids == Children[m][p]
<1>1. /\ kids \in Seq(2 .. Size(m))
      /\ \A k \in DOMAIN kids : Parent[m][kids[k]] = p
      /\ \A j, k \in DOMAIN kids : kids[j] = kids[k] => j = k
  BY TreeShape, Zenon
<1> HIDE DEF kids
<1>2. /\ Len(kids) \in Nat /\ DOMAIN kids = 1 .. Len(kids)
      /\ \A k \in 1 .. Len(kids) : kids[k] \in 2 .. Size(m)
  BY <1>1, SeqFacts, Zenon
<1>3. /\ kids \in Seq(2 .. Size(m)) /\ Len(kids) \in Nat
      /\ DOMAIN kids = 1 .. Len(kids)
      /\ \A k \in 1 .. Len(kids) :
           kids[k] \in 2 .. Size(m) /\ Parent[m][kids[k]] = p
      /\ \A j, k \in 1 .. Len(kids) : kids[j] = kids[k] => j = k
  BY <1>1, <1>2, Zenon
<1> QED BY <1>3, Zenon DEF kids

(* The root was added first.                                                   *)
LEMMA RootFirst ==
  ASSUME NEW m \in Machines
  PROVE  Size(m) \in Nat /\ Size(m) > 0 /\ Parent[m][1] = 0
BY TreeShape DEF Size

(* Another node comes after its parent and is on the list of that.             *)
LEMMA ParentOf ==
  ASSUME NEW m \in Machines, NEW i \in 2 .. Size(m)
  PROVE  /\ Parent[m][i] \in 1 .. i - 1 /\ Parent[m][i] \in 1 .. Size(m)
         /\ \E k \in 1 .. Len(Children[m][Parent[m][i]]) :
              Children[m][Parent[m][i]][k] = i
<1> DEFINE kids == Children[m][Parent[m][i]]
<1>1. Parent[m][i] \in 1 .. i - 1 /\ i \in Range(kids)
  BY TreeShape, Zenon
<1>2. Parent[m][i] \in 1 .. Size(m)
  BY <1>1, RootFirst
<1>3. DOMAIN kids = 1 .. Len(kids)
  BY <1>2, ChildList, Zenon
<1>4. \E k \in 1 .. Len(kids) : kids[k] = i
  BY <1>1, <1>3, Zenon DEF Range
<1> QED BY <1>1, <1>2, <1>4, Zenon

-------------------------------------------------------------------------------
(* Induction over the natural numbers, and the heights on the stack.        *)

(* A set of natural numbers that is not empty has a least element; this is     *)
(* what the inductions below rest on, over sets and not over predicates.       *)
LEMMA LeastElement ==
  ASSUME NEW S \in SUBSET Nat, S # {}
  PROVE  \E x \in S : \A y \in S : x <= y
<1> DEFINE less == OpToRel(<, Nat)
<1>1. IsWellFoundedOn(less, Nat)
  BY NatLessThanWellFounded, Zenon
<1>2. \A x, y \in Nat : y < x => <<y, x>> \in less
  BY Zenon DEF OpToRel
<1> HIDE DEF less
<1>3. PICK x \in S : \A y \in S : ~ (<<y, x>> \in less)
  BY <1>1, WFMin, Zenon
<1>4. ASSUME NEW y \in S PROVE x <= y
  <2>1. x \in Nat /\ y \in Nat
    BY Zenon
  <2>2. ~ (y < x)
    BY <1>2, <1>3, <2>1, Zenon
  <2> QED BY <2>1, <2>2
<1> QED BY <1>4, Zenon

(* Induction: a set that has 0 and with a number its successor has them all.   *)
LEMMA SetInduction ==
  ASSUME NEW S, 0 \in S, \A n \in Nat : n \in S => n + 1 \in S
  PROVE  \A n \in Nat : n \in S
<1> SUFFICES ASSUME Nat \ S # {} PROVE FALSE
  BY Zenon
<1>1. PICK x \in Nat \ S : \A y \in Nat \ S : x <= y
  BY LeastElement, Zenon
<1> QED BY <1>1

\* The recursion over the parents that Below is defined by.
Solves(g, n, up, place) ==
  g = [i \in 1 .. n |-> IF i = 1 THEN 0 ELSE g[up[i]] + place[i] - 1]

(* That recursion has a solution: every parent is a smaller number.            *)
LEMMA UpwardRecursion ==
  ASSUME NEW n \in Nat, NEW up, NEW place,
         \A i \in 2 .. n : up[i] \in 1 .. i - 1
  PROVE  \E g : Solves(g, n, up, place)
<1> DEFINE F(g, k) == [i \in 1 .. k |-> IF i = 1 THEN 0 ELSE g[up[i]] + place[i] - 1]
           Solved == {k \in Nat : k <= n => \E g : g = F(g, k)}
<1>1. 0 \in Solved
  <2> DEFINE g == [i \in 1 .. 0 |-> 0]
  <2>1. g = F(g, 0)
    OBVIOUS
  <2> QED BY <2>1, Zenon
<1>2. ASSUME NEW k \in Nat, k \in Solved PROVE k + 1 \in Solved
  <2> SUFFICES ASSUME k + 1 <= n PROVE \E g : g = F(g, k + 1)
    OBVIOUS
  <2>1. PICK g : g = F(g, k)
    BY <1>2
  <2> DEFINE h == [i \in 1 .. k + 1 |->
                     IF i = 1 THEN 0 ELSE g[up[i]] + place[i] - 1]
  <2>2. ASSUME NEW i \in 1 .. k PROVE h[i] = g[i]
    <3>1. i \in 1 .. k + 1
      OBVIOUS
    <3>2. g[i] = IF i = 1 THEN 0 ELSE g[up[i]] + place[i] - 1
      BY <2>1, Zenon
    <3> QED BY <3>1, <3>2, Zenon
  <2>3. ASSUME NEW i \in 2 .. k + 1 PROVE h[up[i]] = g[up[i]]
    <3>1. up[i] \in 1 .. k
      OBVIOUS
    <3> HIDE DEF h
    <3> QED BY <2>2, <3>1, Zenon
  <2>4. h = F(h, k + 1)
    BY <2>3
  <2> QED BY <2>4, Zenon
<1>3. n \in Solved
  <2> HIDE DEF Solved
  <2> QED BY <1>1, <1>2, SetInduction, Zenon
<1> QED BY <1>3 DEF Solves

(* The height of a node on the stack: the root waits at the bottom, a child at *)
(* the height of its parent plus the number of its elder siblings.             *)
LEMMA BelowFacts ==
  ASSUME NEW m \in Machines
  PROVE  /\ Below[m][1] = 0
         /\ \A i \in 1 .. Size(m) : Below[m][i] \in Nat
         /\ \A p \in 1 .. Size(m) : \A k \in 1 .. Len(Children[m][p]) :
              Below[m][Children[m][p][k]] = Below[m][p] + k - 1
<1> DEFINE n == Size(m)
           up == Parent[m]
           place == [i \in 1 .. n |-> Place(m, i)]
           below == Below[m]
<1>1. n \in Nat /\ n > 0 /\ \A i \in 2 .. n : up[i] \in 1 .. i - 1
  BY RootFirst, ParentOf, Zenon
<1>2. below = [i \in 1 .. n |-> IF i = 1 THEN 0 ELSE below[up[i]] + place[i] - 1]
  <2> DEFINE f == CHOOSE f : f = [i \in 1 .. n |->
                    IF i = 1 THEN 0 ELSE f[up[i]] + place[i] - 1]
  <2>1. \E g : Solves(g, n, up, place)
    <3> HIDE DEF n, up, place
    <3> QED BY <1>1, UpwardRecursion, Zenon
  <2>2. below = f
    BY Zenon DEF Below
  <2> QED BY <2>1, <2>2, Zenon DEF Solves
<1>3. ASSUME NEW p \in 1 .. n, NEW k \in 1 .. Len(Children[m][p])
      PROVE  /\ Children[m][p][k] \in 2 .. n /\ up[Children[m][p][k]] = p
             /\ place[Children[m][p][k]] = k
  <2> DEFINE kids == Children[m][p]
  <2>1. /\ DOMAIN kids = 1 .. Len(kids)
        /\ \A j \in 1 .. Len(kids) : kids[j] \in 2 .. n /\ up[kids[j]] = p
        /\ \A i, j \in 1 .. Len(kids) : kids[i] = kids[j] => i = j
    BY ChildList, Zenon
  <2>2. Place(m, kids[k]) = k
    BY <2>1, Zenon DEF Place
  <2>3. kids[k] \in 1 .. n
    BY <1>1, <2>1
  <2> QED BY <2>1, <2>2, <2>3, Zenon
<1>4. ASSUME NEW i \in 2 .. n PROVE place[i] \in Nat \ {0}
  <2> DEFINE kids == Children[m][up[i]]
  <2>1. up[i] \in 1 .. n /\ \E k \in 1 .. Len(kids) : kids[k] = i
    BY ParentOf, Zenon
  <2>2. DOMAIN kids = 1 .. Len(kids) /\ Len(kids) \in Nat
    BY <2>1, ChildList, Zenon
  <2>3. Place(m, i) \in DOMAIN kids
    BY <2>1, <2>2, Zenon DEF Place
  <2> QED BY <2>2, <2>3
<1>5. ASSUME NEW i \in 1 .. n PROVE below[i] \in Nat
  <2> DEFINE Bad == {j \in 1 .. n : below[j] \notin Nat}
  <2>1. CASE Bad # {}
    <3>1. PICK j \in Bad : \A l \in Bad : j <= l
      <4>1. Bad \in SUBSET Nat
        BY <1>1
      <4> HIDE DEF Bad
      <4> QED BY <2>1, <4>1, LeastElement, Zenon
    <3> HIDE DEF below, n, up, place
    <3>2. below[1] = 0 /\ \A l \in 2 .. n : below[l] = below[up[l]] + place[l] - 1
      <4>1. 1 \in 1 .. n /\ \A l \in 2 .. n : l \in 1 .. n /\ l # 1
        BY <1>1
      <4> QED BY <1>2, <4>1, Zenon
    <3>3. j \in 2 .. n
      BY <1>1, <3>2
    <3>4. up[j] \in 1 .. n /\ up[j] < j
      BY <1>1, <3>3
    <3>5. below[up[j]] \in Nat
      BY <3>1, <3>4
    <3> QED BY <1>4, <3>2, <3>3, <3>5
  <2> QED BY <2>1, Zenon
<1>6. ASSUME NEW p \in 1 .. n, NEW k \in 1 .. Len(Children[m][p])
      PROVE  below[Children[m][p][k]] = below[p] + k - 1
  <2> DEFINE c == Children[m][p][k]
  <2>1. c \in 2 .. n /\ up[c] = p /\ place[c] = k
    BY <1>3, Zenon
  <2> HIDE DEF c, n, up, place, below
  <2>2. below[c] = below[up[c]] + place[c] - 1
    BY <1>1, <1>2, <2>1
  <2> QED BY <2>1, <2>2, Zenon DEF c
<1>7. below[1] = 0
  <2> HIDE DEF n, up, place, below
  <2> QED BY <1>1, <1>2
<1> QED BY <1>5, <1>6, <1>7, Zenon

-------------------------------------------------------------------------------
(* One round of release_node()'s loop.                                       *)

(* Distinct elements: a sequence without repetitions is as long as the set of  *)
(* its elements is large.                                                      *)
LEMMA NoRepetitions ==
  ASSUME NEW S, NEW s \in Seq(S),
         \A j, k \in 1 .. Len(s) : s[j] = s[k] => j = k
  PROVE  Cardinality(Range(s)) = Len(s)
<1>1. Len(s) \in Nat /\ DOMAIN s = 1 .. Len(s)
  OBVIOUS
<1>2. s \in [1 .. Len(s) -> Range(s)]
  BY <1>1 DEF Range
<1>3. s \in Bijection(1 .. Len(s), Range(s))
  BY <1>1, <1>2, Zenon DEF Bijection, Injection, Surjection, IsInjective, Range
<1>4. ExistsBijection(1 .. Len(s), Range(s))
  BY <1>3, Zenon DEF ExistsBijection
<1> QED BY <1>1, <1>4, FS_CountingElements, Zenon

(* Replacing the last element of a sequence by another sequence.               *)
LEMMA ReplaceLast ==
  ASSUME NEW S, NEW s \in Seq(S), NEW t \in Seq(S), s # <<>>,
         NEW r, r = SubSeq(s, 1, Len(s) - 1) \o t
  PROVE  /\ r \in Seq(S) /\ Len(r) = Len(s) - 1 + Len(t)
         /\ \A k \in 1 .. Len(r) :
              r[k] = IF k < Len(s) THEN s[k] ELSE t[k - Len(s) + 1]
<1> DEFINE low == SubSeq(s, 1, Len(s) - 1)
<1>1. Len(s) \in Nat /\ Len(s) > 0 /\ Len(t) \in Nat
  BY SeqFacts, Zenon
<1>2. /\ low \in Seq(S) /\ Len(low) = Len(s) - 1
      /\ \A k \in 1 .. Len(s) - 1 : low[k] = s[k]
  <2> DEFINE last == Len(s) - 1
  <2>1. last \in Nat /\ last <= Len(s)
    BY <1>1
  <2> HIDE DEF last
  <2>2. SubSeq(s, 1, last) \in Seq(S)
    BY <2>1
  <2>3. Len(SubSeq(s, 1, last)) = last
    BY <2>1
  <2>4. \A k \in 1 .. last : SubSeq(s, 1, last)[k] = s[k]
    BY <2>1
  <2> QED BY <2>2, <2>3, <2>4, Zenon DEF last
<1> HIDE DEF low
<1>3. /\ low \o t \in Seq(S) /\ Len(low \o t) = Len(low) + Len(t)
      /\ \A k \in 1 .. Len(low) + Len(t) :
           (low \o t)[k] = IF k <= Len(low) THEN low[k] ELSE t[k - Len(low)]
  BY <1>2, ConcatFacts, Zenon
<1>4. \A k \in 1 .. Len(s) - 1 + Len(t) :
        (low \o t)[k] = IF k < Len(s) THEN s[k] ELSE t[k - Len(s) + 1]
  BY <1>1, <1>2, <1>3
<1> QED BY <1>2, <1>3, <1>4, Zenon DEF low

(* What a round of release_node()'s loop does to its stack: all the children   *)
(* of the popped node find room, they take the place of that node, and what    *)
(* waits below it stays.                                                       *)
LEMMA PopEffect ==
  ASSUME TypeOK, StackInv, ReleasePop
  PROVE  LET h == Len(stack)
             node == stack[h]
             kids == Children[machine][node]
         IN  /\ h \in Nat /\ h > 0 /\ node \in 1 .. Size(machine)
             /\ live' = live \ {node} /\ machine' = machine /\ phase' = phase
             /\ stack' \in Seq(1 .. Size(machine)) /\ Len(stack') = h - 1 + Len(kids)
             /\ \A k \in 1 .. Len(stack') :
                  stack'[k] = IF k < h THEN stack[k] ELSE kids[k - h + 1]
<1> DEFINE h == Len(stack)
           node == stack[h]
           kids == Children[machine][node]
           n == Size(machine)
<1>1. h \in Nat /\ h > 0 /\ node \in 1 .. n /\ stack \in Seq(1 .. n) /\ stack # <<>>
  <2>1. stack \in Seq(1 .. n) /\ stack # <<>>
    BY Zenon DEF ReleasePop, TypeOK
  <2> HIDE DEF n
  <2>2. h \in Nat /\ h > 0 /\ \A k \in 1 .. h : stack[k] \in 1 .. n
    BY <2>1, SeqFacts, Zenon
  <2>3. h \in 1 .. h
    BY <2>2
  <2> QED BY <2>1, <2>2, <2>3, Zenon
<1>2. kids \in Seq(2 .. n) /\ Len(kids) \in Nat /\ n \in Nat
  <2>1. machine \in Machines
    BY Zenon DEF TypeOK
  <2> QED BY <1>1, <2>1, RootFirst, ChildList, Zenon
<1>3. Len(kids) <= RELEASE_STACK_MAX - (h - 1)
  <2>1. Below[machine][node] = h - 1
    BY <1>1 DEF StackInv
  <2>2. Below[machine][node] + Len(kids) <= RELEASE_STACK_MAX
    BY <1>1, TreeFits, Zenon DEF TypeOK
  <2> QED BY <1>1, <1>2, <2>1, <2>2, StructureAssumption
<1>4. Min({RELEASE_STACK_MAX - (h - 1), Len(kids)}) = Len(kids)
  <2>1. RELEASE_STACK_MAX - (h - 1) \in Int
    BY <1>1, StructureAssumption
  <2> HIDE DEF h, kids
  <2> QED BY <1>2, <1>3, <2>1 DEF Min
<1>5. Len(SubSeq(stack, 1, h - 1)) = h - 1
  <2>1. stack \in Seq(1 .. n) /\ 1 \in Int /\ h - 1 \in 0 .. Len(stack)
    BY <1>1
  <2> HIDE DEF n, h
  <2> QED BY <1>1, <2>1
<1>6. SubSeq(kids, 1, Len(kids)) = kids
  <2> HIDE DEF kids, n
  <2> QED BY <1>2, SeqFacts, Zenon
<1>7. stack' = SubSeq(stack, 1, h - 1) \o kids
  <2>1. stack' = SubSeq(stack, 1, h - 1)
                   \o SubSeq(kids, 1, Min({RELEASE_STACK_MAX - (h - 1), Len(kids)}))
    BY <1>5, Zenon DEF ReleasePop
  <2> QED BY <1>4, <1>6, <2>1, Zenon
<1>8. live' = live \ {node} /\ machine' = machine /\ phase' = phase
  BY <1>5, Zenon DEF ReleasePop
<1>9. kids \in Seq(1 .. n)
  <2>1. 2 .. n \subseteq 1 .. n
    OBVIOUS
  <2> HIDE DEF kids
  <2> QED BY <1>2, <2>1
<1>10. /\ stack' \in Seq(1 .. n) /\ Len(stack') = h - 1 + Len(kids)
       /\ \A k \in 1 .. Len(stack') :
            stack'[k] = IF k < h THEN stack[k] ELSE kids[k - h + 1]
  <2> DEFINE nodes == 1 .. n
             new == stack'
  <2>1. stack \in Seq(nodes) /\ kids \in Seq(nodes) /\ stack # <<>>
    BY <1>1, <1>9, Zenon
  <2>2. new = SubSeq(stack, 1, Len(stack) - 1) \o kids
    BY <1>7, Zenon
  <2> HIDE DEF kids, nodes, new
  <2>3. /\ new \in Seq(nodes) /\ Len(new) = Len(stack) - 1 + Len(kids)
        /\ \A k \in 1 .. Len(new) :
             new[k] = IF k < Len(stack) THEN stack[k] ELSE kids[k - Len(stack) + 1]
    BY <2>1, <2>2, ReplaceLast
  <2> QED BY <2>3, Zenon DEF nodes, new
<1> QED BY <1>1, <1>8, <1>10, Zenon

(* A round of release_node()'s loop keeps the stack in order.                  *)
LEMMA PopStack ==
  ASSUME TypeOK, StackInv, ReleasePop
  PROVE  StackInv' /\ TypeOK'
<1> DEFINE h == Len(stack)
           node == stack[h]
           kids == Children[machine][node]
           n == Size(machine)
           up == Parent[machine]
           below == Below[machine]
<1>1. /\ h \in Nat /\ h > 0 /\ node \in 1 .. n
      /\ live' = live \ {node} /\ machine' = machine /\ phase' = phase
      /\ stack' \in Seq(1 .. n) /\ Len(stack') = h - 1 + Len(kids)
      /\ \A k \in 1 .. Len(stack') :
           stack'[k] = IF k < h THEN stack[k] ELSE kids[k - h + 1]
  BY PopEffect, Zenon
<1>2. machine \in Machines /\ live \in SUBSET (1 .. n)
  BY Zenon DEF TypeOK
<1>3. /\ n \in Nat /\ kids \in Seq(2 .. n) /\ Len(kids) \in Nat
      /\ \A k \in 1 .. Len(kids) : kids[k] \in 2 .. n /\ up[kids[k]] = node
  BY <1>1, <1>2, RootFirst, ChildList, Zenon
<1>4. \A k \in 1 .. Len(kids) : below[kids[k]] = below[node] + k - 1
  BY <1>1, <1>2, BelowFacts, Zenon
<1>5. \A i \in 2 .. n : /\ up[i] \in 1 .. i - 1
                        /\ up[i] = node => \E k \in 1 .. Len(kids) : kids[k] = i
  <2>1. ASSUME NEW i \in 2 .. n
        PROVE  /\ up[i] \in 1 .. i - 1
               /\ \E k \in 1 .. Len(Children[machine][up[i]]) :
                    Children[machine][up[i]][k] = i
    BY <1>2, ParentOf, Zenon
  <2> QED BY <2>1, Zenon
<1>6. /\ \A k \in 1 .. h : /\ below[stack[k]] = k - 1
                           /\ stack[k] \in live /\ up[stack[k]] \notin live
      /\ \A i \in 2 .. n : up[i] \in live => i \in live
      /\ \A i \in live : (\A k \in 1 .. h : stack[k] # i) => i # 1 /\ up[i] \in live
  BY Zenon DEF StackInv
<1>7. TypeOK'
  <2>1. live' \in SUBSET (1 .. n)
    BY <1>1, <1>2, Zenon
  <2>2. /\ machine' = machine /\ phase' = phase /\ nextId' = nextId
        /\ base' = base /\ given' = given
    BY Zenon DEF ReleasePop
  <2> QED BY <1>1, <2>1, <2>2, Zenon DEF TypeOK
<1> HIDE DEF h, node, kids, n, up, below
<1>8. below[node] = h - 1 /\ node \in live /\ up[node] \notin live /\ node = stack[h]
  BY <1>1, <1>6 DEF node
<1>9. ASSUME NEW k \in 1 .. Len(stack')
      PROVE  /\ below[stack'[k]] = k - 1
             /\ stack'[k] \in live' /\ up[stack'[k]] \notin live'
  <2>1. CASE k < h
    <3>1. stack'[k] = stack[k] /\ k \in 1 .. h
      BY <1>1, <2>1
    <3>2. stack[k] # node
      BY <1>1, <1>6, <1>8, <2>1
    <3> QED BY <1>1, <1>6, <3>1, <3>2, Zenon
  <2>2. CASE ~ (k < h)
    <3> DEFINE j == k - h + 1
    <3>1. stack'[k] = kids[j] /\ j \in 1 .. Len(kids)
      BY <1>1, <1>3, <2>2
    <3>2. below[kids[j]] = k - 1
      <4>1. below[kids[j]] = below[node] + j - 1
        BY <1>4, <3>1, Zenon
      <4>2. below[node] = h - 1 /\ h \in Nat /\ k \in Int
        BY <1>1, <1>8
      <4> QED BY <4>1, <4>2
    <3>3. kids[j] \in 2 .. n /\ up[kids[j]] = node
      BY <1>3, <3>1, Zenon
    <3> HIDE DEF j
    <3>4. kids[j] \in live /\ kids[j] # node
      BY <1>5, <1>6, <1>8, <3>3
    <3> QED BY <1>1, <3>1, <3>2, <3>3, <3>4, Zenon
  <2> QED BY <2>1, <2>2, Zenon
<1>10. ASSUME NEW i \in 2 .. n, up[i] \in live' PROVE i \in live'
  BY <1>1, <1>6, <1>8, <1>10, Zenon
<1>11. ASSUME NEW i \in live', \A k \in 1 .. Len(stack') : stack'[k] # i
       PROVE  i # 1 /\ up[i] \in live'
  <2>1. i \in live /\ i # node /\ i \in 1 .. n
    BY <1>1, <1>2, Zenon
  <2>2. ASSUME NEW k \in 1 .. h PROVE stack[k] # i
    <3>1. CASE k = h
      BY <1>8, <2>1, <3>1, Zenon
    <3>2. CASE k # h
      <4>1. k \in 1 .. Len(stack') /\ k < h
        BY <1>1, <1>3, <3>2
      <4> QED BY <1>1, <1>11, <4>1, Zenon
    <3> QED BY <3>1, <3>2, Zenon
  <2>3. i # 1 /\ up[i] \in live
    BY <1>6, <2>1, <2>2, Zenon
  <2>4. ASSUME up[i] = node PROVE FALSE
    <3>1. PICK k \in 1 .. Len(kids) : kids[k] = i
      <4>1. i \in 2 .. n
        BY <1>3, <2>1, <2>3
      <4> QED BY <1>5, <2>4, <4>1, Zenon
    <3>2. /\ h - 1 + k \in 1 .. Len(stack')
          /\ ~ (h - 1 + k < h) /\ (h - 1 + k) - h + 1 = k
      <4>1. /\ h \in Nat /\ h > 0 /\ Len(kids) \in Nat
            /\ Len(stack') = h - 1 + Len(kids)
        BY <1>1, <1>3, Zenon
      <4> QED BY <4>1
    <3>3. stack'[h - 1 + k] = kids[k]
      BY <1>1, <3>2, Zenon
    <3> QED BY <1>11, <3>1, <3>2, <3>3, Zenon
  <2> QED BY <1>1, <2>3, <2>4, Zenon
<1>12. StackInv'
  BY <1>1, <1>9, <1>10, <1>11, Zenon DEF StackInv, n, up, below
<1> QED BY <1>7, <1>12, Zenon

-------------------------------------------------------------------------------
(* Remainders.                                                              *)

(* Division with remainder, by a number that is not fixed.                     *)
LEMMA DivMod ==
  ASSUME NEW x \in Nat, NEW d \in Nat \ {0}
  PROVE  /\ x \div d \in Nat /\ x % d \in 0 .. d - 1
         /\ x = (x \div d) * d + (x % d)
OBVIOUS

(* A larger quotient is at least one divisor more.                             *)
LEMMA ProductGrows ==
  ASSUME NEW a \in Nat, NEW b \in Nat, NEW d \in Nat, a < b
  PROVE  a * d + d <= b * d
<1>1. PICK c \in Nat : b = a + 1 + c
  <2>1. b - a - 1 \in Nat /\ b = a + 1 + (b - a - 1)
    OBVIOUS
  <2> QED BY <2>1, Zenon
<1>2. b * d = a * d + d + c * d
  BY <1>1
<1>3. c * d >= 0
  OBVIOUS
<1>4. a * d \in Int /\ c * d \in Int /\ b * d \in Int
  OBVIOUS
<1> QED BY <1>2, <1>3, <1>4

(* The quotient and the remainder of q * d + r are q and r.                    *)
LEMMA DivModUnique ==
  ASSUME NEW q \in Nat, NEW d \in Nat \ {0}, NEW r \in 0 .. d - 1
  PROVE  (q * d + r) \div d = q /\ (q * d + r) % d = r
<1> DEFINE x == q * d + r
           p == x \div d
<1>1. q * d \in Nat /\ x \in Nat
  OBVIOUS
<1>2. p \in Nat /\ x % d \in 0 .. d - 1 /\ x = p * d + (x % d)
  BY <1>1, DivMod, Zenon
<1>3. p * d \in Nat
  BY <1>2
<1>4. ~ (p < q)
  <2>1. p < q => p * d + d <= q * d
    BY <1>2, ProductGrows, Zenon
  <2> HIDE DEF p
  <2> QED BY <1>1, <1>2, <1>3, <2>1
<1>5. ~ (q < p)
  <2>1. q < p => q * d + d <= p * d
    BY <1>2, ProductGrows, Zenon
  <2> HIDE DEF p
  <2> QED BY <1>1, <1>2, <1>3, <2>1
<1>6. p = q
  <2> HIDE DEF p
  <2> QED BY <1>2, <1>4, <1>5
<1> QED BY <1>1, <1>2, <1>3, <1>6

(* Adding to a number or to its remainder leads to the same remainder.         *)
LEMMA ModSum ==
  ASSUME NEW x \in Nat, NEW y \in Nat, NEW d \in Nat \ {0}
  PROVE  ((x % d) + y) % d = (x + y) % d
<1> DEFINE z == (x % d) + y
           p == x \div d
           q == z \div d
           r == z % d
<1>1. p \in Nat /\ x % d \in Nat /\ x = p * d + (x % d)
  BY DivMod
<1>2. z \in Nat
  BY <1>1
<1>3. q \in Nat /\ r \in 0 .. d - 1 /\ z = q * d + r
  BY <1>2, DivMod, Zenon
<1>4. x + y = (p + q) * d + r
  <2>1. (p + q) * d = p * d + q * d
    BY <1>1, <1>3
  <2>2. p * d \in Nat /\ q * d \in Nat
    BY <1>1, <1>3
  <2>3. x + y = p * d + z
    BY <1>1, <2>2
  <2> HIDE DEF p, q, r, z
  <2> QED BY <1>1, <1>2, <1>3, <2>1, <2>2, <2>3
<1>5. p + q \in Nat
  BY <1>1, <1>3
<1> HIDE DEF p, q, r, z
<1>6. ((p + q) * d + r) % d = r
  BY <1>3, <1>5, DivModUnique, Zenon
<1> QED BY <1>4, <1>6, Zenon DEF r, z

(* Fewer than d numbers in a row have different remainders.                    *)
LEMMA ModInjective ==
  ASSUME NEW x \in Nat, NEW y \in Nat, NEW d \in Nat \ {0}, x < y, y < x + d
  PROVE  x % d # y % d
<1> SUFFICES ASSUME x % d = y % d PROVE FALSE
  BY Zenon
<1> DEFINE p == x \div d
           q == y \div d
           r == x % d
<1>1. /\ p \in Nat /\ q \in Nat /\ r \in 0 .. d - 1
      /\ x = p * d + r /\ y = q * d + r
  BY DivMod, Zenon
<1>2. p * d \in Nat /\ q * d \in Nat
  BY <1>1
<1>3. p < q => p * d + d <= q * d
  BY <1>1, ProductGrows, Zenon
<1>4. q < p => q * d + d <= p * d
  BY <1>1, ProductGrows, Zenon
<1> HIDE DEF p, q, r
<1>5. CASE p = q
  BY <1>1, <1>2, <1>5
<1> QED BY <1>1, <1>2, <1>3, <1>4, <1>5

-------------------------------------------------------------------------------
(* The steps keep the invariant.                                            *)

(* Loading the kext establishes the invariant.                                 *)
LEMMA InitInv == Init => IInv
<1> SUFFICES ASSUME Init PROVE IInv
  BY Zenon
<1>1. TypeOK
  BY DEF Init, TypeOK, ROOT_ID
<1>2. IdInv
  <2>1. (ROOT_ID + 1 + 0) % IdBound = ROOT_ID + 1
    BY StructureAssumption DEF ROOT_ID
  <2> QED BY <2>1, Zenon DEF Init, IdInv
<1>3. ReleaseInv
  BY Zenon DEF Init, ReleaseInv
<1> QED BY <1>1, <1>2, <1>3, Zenon DEF IInv

(* sysfs_structure_init() keeps it: the counter goes on from where it stands.  *)
LEMMA BuildInv ==
  ASSUME IInv, StructureInit
  PROVE  IInv'
<1> DEFINE n == Size(machine)
<1>1. /\ machine \in Machines /\ nextId \in Nat /\ given \in Nat /\ base \in Nat
      /\ live = {} /\ stack = <<>> /\ nextId = (ROOT_ID + 1 + given) % IdBound
  BY Zenon DEF IInv, TypeOK, IdInv, ReleaseInv, StructureInit
<1>2. n \in Nat /\ n > 0
  BY <1>1, RootFirst
<1>3. /\ machine' = machine /\ stack' = stack /\ phase' = "built" /\ base' = nextId
      /\ live' = live \cup 1 .. n /\ given' = given + n - 1
      /\ nextId' = (nextId + n - 1) % IdBound
  BY Zenon DEF StructureInit
<1> HIDE DEF n
<1>4. nextId' \in Nat /\ nextId' = (ROOT_ID + 1 + given') % IdBound
  <2> DEFINE taken == n - 1
             x == ROOT_ID + 1 + given
  <2>1. taken \in Nat /\ x \in Nat /\ IdBound \in Nat \ {0}
    BY <1>1, <1>2, StructureAssumption DEF ROOT_ID
  <2>2. nextId + n - 1 = nextId + taken /\ ROOT_ID + 1 + given' = x + taken
    BY <1>1, <1>2, <1>3 DEF ROOT_ID
  <2> HIDE DEF taken, x
  <2>3. ((x % IdBound) + taken) % IdBound = (x + taken) % IdBound
    BY <2>1, ModSum, Zenon
  <2>4. (x + taken) % IdBound \in Nat
    BY <2>1
  <2>5. nextId = x % IdBound
    BY <1>1, Zenon DEF x
  <2> QED BY <1>3, <2>2, <2>3, <2>4, <2>5, Zenon
<1>5. TypeOK'
  <2>1. <<>> \in Seq(1 .. n)
    OBVIOUS
  <2> QED BY <1>1, <1>2, <1>3, <1>4, <2>1 DEF TypeOK, n
<1>6. IdInv'
  <2>1. given' = given + Size(machine)' - 1 /\ base' = (ROOT_ID + 1 + given) % IdBound
    BY <1>1, <1>3, Zenon DEF n
  <2> QED BY <1>1, <1>4, <2>1, Zenon DEF IdInv
<1>7. ReleaseInv'
  BY <1>1, <1>3, Zenon DEF ReleaseInv, n
<1> QED BY <1>5, <1>6, <1>7, Zenon DEF IInv

(* sysfs_structure_free() puts the root on the stack: it has no parent and     *)
(* everything else is below it.                                                *)
LEMMA FreeInv ==
  ASSUME IInv, StructureFree
  PROVE  IInv'
<1> DEFINE n == Size(machine)
<1>1. machine \in Machines /\ live = 1 .. n /\ n \in Nat /\ n > 0
  <2>1. machine \in Machines /\ live = 1 .. n
    BY Zenon DEF IInv, TypeOK, ReleaseInv, StructureFree
  <2> QED BY <2>1, RootFirst, Zenon
<1>2. stack' = <<1>> /\ phase' = "releasing" /\ phase = "built"
      /\ UNCHANGED <<machine, nextId, base, live, given>>
  BY Zenon DEF StructureFree
<1>3. Len(stack') = 1 /\ stack'[1] = 1 /\ stack' \in Seq(1 .. n)
  BY <1>1, <1>2
<1>4. TypeOK'
  BY <1>2, <1>3, Zenon DEF IInv, TypeOK
<1>5. IdInv'
  BY <1>2, Zenon DEF IInv, IdInv, Size
<1>6. /\ Below[machine][1] = 0 /\ Parent[machine][1] = 0
      /\ \A i \in 2 .. n : Parent[machine][i] \in 1 .. i - 1
  BY <1>1, BelowFacts, RootFirst, ParentOf, Zenon
<1>7. StackInv'
  <2>1. \A k \in 1 .. Len(stack') : k = 1
    BY <1>3
  <2>2. ASSUME NEW i \in 1 .. n, \A k \in 1 .. Len(stack') : stack'[k] # i
        PROVE  i # 1 /\ Parent[machine][i] \in 1 .. n
    BY <1>1, <1>3, <1>6, <2>2
  <2> QED BY <1>1, <1>2, <1>3, <1>6, <2>1, <2>2 DEF StackInv
<1> QED BY <1>2, <1>4, <1>5, <1>7, Zenon DEF IInv, ReleaseInv

(* A round of release_node()'s loop keeps it.                                  *)
LEMMA PopInv ==
  ASSUME IInv, ReleasePop
  PROVE  IInv'
<1>1. TypeOK /\ StackInv /\ IdInv
  BY Zenon DEF IInv, ReleaseInv, ReleasePop
<1>2. StackInv' /\ TypeOK'
  BY <1>1, PopStack, Zenon
<1>3. /\ phase' = phase /\ phase = "releasing"
      /\ UNCHANGED <<machine, nextId, base, given>>
  BY Zenon DEF ReleasePop
<1>4. IdInv'
  BY <1>1, <1>3, Zenon DEF IdInv, Size
<1> QED BY <1>2, <1>3, <1>4, Zenon DEF IInv, ReleaseInv

(* The loop ends with nothing left: the first node that was still allocated    *)
(* would have an allocated parent, which comes before it.                      *)
LEMMA EndInv ==
  ASSUME IInv, ReleaseEnd
  PROVE  IInv'
<1> DEFINE n == Size(machine)
<1>1. TypeOK /\ StackInv /\ IdInv
  BY Zenon DEF IInv, ReleaseInv, ReleaseEnd
<1>2. stack = <<>> /\ phase' = "none"
      /\ UNCHANGED <<machine, nextId, base, live, stack, given>>
  BY Zenon DEF ReleaseEnd
<1>3. machine \in Machines /\ live \in SUBSET (1 .. n) /\ n \in Nat
  <2>1. machine \in Machines /\ live \in SUBSET (1 .. n)
    BY <1>1, Zenon DEF TypeOK
  <2> QED BY <2>1, RootFirst, Zenon
<1>4. live = {}
  <2> SUFFICES ASSUME live # {} PROVE FALSE
    BY Zenon
  <2>1. live \in SUBSET Nat
    BY <1>3
  <2>2. PICK i \in live : \A j \in live : i <= j
    BY <2>1, LeastElement, Zenon
  <2>3. i # 1 /\ Parent[machine][i] \in live
    BY <1>1, <1>2 DEF StackInv
  <2>4. i \in 2 .. n
    BY <1>3, <2>3
  <2>5. Parent[machine][i] \in 1 .. i - 1
    BY <1>3, <2>4, ParentOf, Zenon
  <2> QED BY <2>2, <2>3, <2>4, <2>5
<1>5. TypeOK'
  BY <1>1, <1>2, Zenon DEF TypeOK, Size
<1>6. IdInv'
  BY <1>1, <1>2, Zenon DEF IdInv
<1> QED BY <1>2, <1>4, <1>5, <1>6, Zenon DEF IInv, ReleaseInv

(* Every step keeps the invariant.                                             *)
LEMMA NextInv == IInv /\ [Next]_vars => IInv'
<1> SUFFICES ASSUME IInv, [Next]_vars PROVE IInv'
  BY Zenon
<1>1. CASE StructureInit
  BY <1>1, BuildInv, Zenon
<1>2. CASE StructureFree
  BY <1>2, FreeInv
<1>3. CASE ReleasePop
  BY <1>3, PopInv, Zenon
<1>4. CASE ReleaseEnd
  BY <1>4, EndInv, Zenon
<1>5. CASE UNCHANGED vars
  <2>1. UNCHANGED <<machine, nextId, phase, base, live, stack, given>>
    BY <1>5, Zenon DEF vars
  <2>2. TypeOK' /\ IdInv'
    BY <2>1, Zenon DEF IInv, TypeOK, IdInv, Size
  <2>3. ReleaseInv'
    BY <2>1 DEF IInv, ReleaseInv, StackInv, Size
  <2> QED BY <2>2, <2>3, Zenon DEF IInv
<1> QED BY <1>1, <1>2, <1>3, <1>4, <1>5, Zenon DEF Next

(* The inductive invariant holds throughout.                                   *)
THEOREM InvariantHolds == Spec => []IInv
BY InitInv, NextInv, PTL DEF Spec

-------------------------------------------------------------------------------
(* What follows about the nodes and their ids.                              *)

(* The invariant says what FreedOnce says: the heights make the elements of    *)
(* the stack different.                                                        *)
LEMMA FreedOnceFollows == IInv => FreedOnce
<1> SUFFICES ASSUME IInv PROVE FreedOnce
  BY Zenon
<1> DEFINE n == Size(machine)
<1>1. stack \in Seq(1 .. n) /\ Len(stack) \in Nat /\ DOMAIN stack = 1 .. Len(stack)
  BY SeqFacts, Zenon DEF IInv, TypeOK
<1>2. \A j, k \in 1 .. Len(stack) : stack[j] = stack[k] => j = k
  <2>1. CASE phase = "releasing"
    BY <1>1, <2>1 DEF IInv, ReleaseInv, StackInv
  <2>2. CASE phase # "releasing"
    <3>1. Len(stack) = 0
      BY <2>2 DEF IInv, TypeOK, ReleaseInv
    <3> QED BY <3>1
  <2> QED BY <2>1, <2>2
<1>3. Cardinality(Range(stack)) = Len(stack)
  <2> HIDE DEF n
  <2> QED BY <1>1, <1>2, NoRepetitions, Zenon
<1>4. \A k \in DOMAIN stack :
        stack[k] \in live /\ Parent[machine][stack[k]] \notin live
  <2>1. CASE phase = "releasing"
    BY <1>1, <2>1, Zenon DEF IInv, ReleaseInv, StackInv
  <2>2. CASE phase # "releasing"
    <3>1. Len(stack) = 0
      BY <2>2 DEF IInv, TypeOK, ReleaseInv
    <3> QED BY <1>1, <3>1
  <2> QED BY <2>1, <2>2, Zenon
<1>5. phase = "none" => live = {}
  BY Zenon DEF IInv, ReleaseInv
<1> QED BY <1>3, <1>4, <1>5, Zenon DEF FreedOnce, Range

(* sysfs_structure_free() frees every node of the tree and none of them twice, *)
(* whatever the shape of the tree, as long as the stack takes it.              *)
THEOREM EveryNodeFreedOnce == Spec => []FreedOnce
BY InvariantHolds, FreedOnceFollows, PTL

(* As many different ids as nodes: those of one tree follow each other and     *)
(* are fewer than 16 bits hold, so the counter may wrap on the way.            *)
LEMMA IdsDiffer ==
  ASSUME NEW b \in Nat, NEW n \in Nat, n > 0, n <= IdBound
  PROVE  Cardinality({NodeId(i, b) : i \in 2 .. n}) = n - 1
<1> DEFINE ids == {NodeId(i, b) : i \in 2 .. n}
           f == [k \in 1 .. n - 1 |-> (b + k - 1) % IdBound]
<1>1. IdBound \in Nat \ {0}
  BY StructureAssumption
<1>2. ASSUME NEW i \in 2 .. n PROVE i - 1 \in 1 .. n - 1 /\ f[i - 1] = NodeId(i, b)
  <2>1. i # 1 /\ i - 1 \in 1 .. n - 1 /\ b + (i - 1) - 1 = b + i - 2
    OBVIOUS
  <2> QED BY <2>1, Zenon DEF NodeId
<1>3. ASSUME NEW k \in 1 .. n - 1 PROVE k + 1 \in 2 .. n /\ f[k] = NodeId(k + 1, b)
  <2>1. k + 1 # 1 /\ k + 1 \in 2 .. n /\ b + (k + 1) - 2 = b + k - 1
    OBVIOUS
  <2> QED BY <2>1, Zenon DEF NodeId
<1>4. ASSUME NEW j \in 1 .. n - 1, NEW k \in 1 .. n - 1, j < k PROVE f[j] # f[k]
  <2> DEFINE x == b + j - 1
             y == b + k - 1
  <2>1. x \in Nat /\ y \in Nat /\ x < y /\ y < x + IdBound
    BY <1>1, <1>4
  <2> HIDE DEF x, y
  <2>2. x % IdBound # y % IdBound
    BY <1>1, <2>1, ModInjective, Zenon
  <2> QED BY <2>2, Zenon DEF x, y
<1>5. f \in [1 .. n - 1 -> ids] /\ \A id \in ids : \E k \in 1 .. n - 1 : f[k] = id
  <2>1. DOMAIN f = 1 .. n - 1 /\ f = [k \in 1 .. n - 1 |-> f[k]]
    BY Zenon
  <2>2. \A k \in 1 .. n - 1 : f[k] \in ids
    BY <1>3, Zenon
  <2>3. \A id \in ids : \E k \in 1 .. n - 1 : f[k] = id
    BY <1>2, Zenon
  <2> HIDE DEF f, ids
  <2> QED BY <2>1, <2>2, <2>3, Zenon
<1>6. \A j, k \in 1 .. n - 1 : f[j] = f[k] => j = k
  <2> HIDE DEF f
  <2> QED BY <1>4
<1> HIDE DEF f, ids
<1>7. f \in Bijection(1 .. n - 1, ids)
  BY <1>5, <1>6, Zenon DEF Bijection, Injection, Surjection, IsInjective
<1>8. ExistsBijection(1 .. n - 1, ids) /\ n - 1 \in Nat
  BY <1>7 DEF ExistsBijection
<1>9. Cardinality(ids) = n - 1
  BY <1>8, FS_CountingElements, Zenon
<1> QED BY <1>9, Zenon DEF ids

(* The invariant says where the ids of the present tree begin.                 *)
LEMMA NodeIdsFollow == IInv => OnlyRootIdRepeats
<1> SUFFICES ASSUME IInv, phase = "built"
             PROVE  /\ Cardinality({NodeId(i, base) : i \in 2 .. Size(machine)})
                         = Size(machine) - 1
                    /\ given <= IdBound - 2 =>
                         ROOT_ID \notin {NodeId(i, base) : i \in 2 .. Size(machine)}
  BY Zenon DEF OnlyRootIdRepeats, ChildIds
<1> DEFINE n == Size(machine)
<1>1. machine \in Machines /\ base \in Nat /\ given \in Nat
  BY Zenon DEF IInv, TypeOK
<1>2. n \in Nat /\ n > 0 /\ n <= IdBound
  <2>1. n \in Nat /\ n > 0
    BY <1>1, RootFirst, Zenon
  <2> QED BY <1>1, <2>1, TreeFits, Zenon
<1>3. PICK before \in Nat : /\ given = before + n - 1
                            /\ base = (ROOT_ID + 1 + before) % IdBound
  BY Zenon DEF IInv, IdInv
<1> HIDE DEF n
<1>4. Cardinality({NodeId(i, base) : i \in 2 .. n}) = n - 1
  BY <1>1, <1>2, IdsDiffer, Zenon
<1>5. ASSUME given <= IdBound - 2, NEW i \in 2 .. n PROVE NodeId(i, base) # ROOT_ID
  <2>1. ROOT_ID + 1 + before \in 0 .. IdBound - 1 /\ IdBound \in Nat
    BY <1>2, <1>3, <1>5, StructureAssumption DEF ROOT_ID
  <2>2. base = ROOT_ID + 1 + before
    BY <1>3, <2>1
  <2>3. base + i - 2 \in 0 .. IdBound - 1 /\ base + i - 2 # 1
    BY <1>2, <1>3, <1>5, <2>2, StructureAssumption DEF ROOT_ID
  <2>4. (base + i - 2) % IdBound = base + i - 2
    BY <2>1, <2>3
  <2> QED BY <2>3, <2>4 DEF NodeId, ROOT_ID
<1> QED BY <1>4, <1>5, Zenon DEF n

(* No two nodes of a tree but the root ever have the same ssn_base_node_id,    *)
(* and none has the root's until next_node_id has gone round: UniqueNodeIds    *)
(* fails in no other way.                                                      *)
THEOREM NodeIdsDiffer == Spec => []OnlyRootIdRepeats
BY InvariantHolds, NodeIdsFollow, PTL

-------------------------------------------------------------------------------
(* What follows about the CPU files.                                        *)

(* The sysctls of a machine are natural numbers.                               *)
LEMMA MachineType ==
  ASSUME NEW m \in Machines
  PROVE  m.logical \in Nat /\ m.physical \in Nat
<1>1. m.logical \in 0 .. MAP_CPUS /\ m.physical \in Nat
  BY StructureAssumption, Zenon
<1>2. MAP_CPUS \in Nat
  BY DEF MAP_CPUS
<1>3. \A n \in Nat : \A k \in 0 .. n : k \in Nat
  OBVIOUS
<1> QED BY <1>1, <1>2, <1>3, Zenon

(* A list names the CPUs from 0 on, one at least.                              *)
LEMMA CpuListIs ==
  ASSUME NEW m \in Machines
  PROVE  Ncpu(m) \in Nat \ {0} /\ CpuList(m) = 0 .. Ncpu(m) - 1
<1>1. m.logical \in Nat
  BY MachineType, Zenon
<1>2. Ncpu(m) \in Nat \ {0}
  BY <1>1 DEF Ncpu
<1>3. CASE Ncpu(m) = 1
  <2>1. 0 .. Ncpu(m) - 1 = {0}
    BY <1>3
  <2> QED BY <1>2, <1>3, <2>1, Zenon DEF CpuList
<1>4. CASE Ncpu(m) # 1
  BY <1>2, <1>4 DEF CpuList
<1> QED BY <1>2, <1>3, <1>4, Zenon

(* The groups of 32 bits of the mask name the CPUs of the list, none missing   *)
(* at a group boundary and none too many in the top group.                     *)
LEMMA MapDecodes ==
  ASSUME NEW m \in Machines
  PROVE  Decode(CpuMap(m)) = CpuList(m)
<1> DEFINE n == Ncpu(m)
           groups == (n + 31) \div 32
           bits(g) == IF g = groups THEN n - (groups - 1) * 32 ELSE 32
           map == CpuMap(m)
<1>1. n \in Nat \ {0} /\ CpuList(m) = 0 .. n - 1
  BY CpuListIs, Zenon
<1>2. groups \in Nat \ {0} /\ 32 * (groups - 1) < n /\ n <= 32 * groups
  <2> HIDE DEF n
  <2> QED BY <1>1
<1>3. map = [k \in 1 .. groups |-> 0 .. bits(groups + 1 - k) - 1]
  BY Zenon DEF CpuMap
<1> HIDE DEF map, groups, n
<1>4. Len(map) = groups /\ DOMAIN map = 1 .. groups
  BY <1>2, <1>3
<1>5. \A k \in 1 .. groups :
        map[k] = 0 .. (IF k = 1 THEN n - (groups - 1) * 32 ELSE 32) - 1
  BY <1>2, <1>3
<1>6. ASSUME NEW c \in Decode(map) PROVE c \in 0 .. n - 1
  <2>1. PICK k \in DOMAIN map : \E b \in map[k] : c = 32 * (Len(map) - k) + b
    BY Zenon DEF Decode
  <2>2. PICK b \in map[k] : c = 32 * (Len(map) - k) + b
    BY <2>1, Zenon
  <2>3. k \in 1 .. groups /\ c = 32 * (groups - k) + b
    BY <1>4, <2>2, Zenon
  <2>4. CASE k = 1
    <3>1. b \in 0 .. (n - (groups - 1) * 32) - 1
      BY <1>5, <2>2, <2>3, <2>4, Zenon
    <3> QED BY <1>1, <1>2, <2>3, <2>4, <3>1
  <2>5. CASE k # 1
    <3>1. k \in 2 .. groups
      BY <1>2, <2>3, <2>5
    <3>2. map[k] = 0 .. 32 - 1
      BY <1>5, <2>3, <2>5, Zenon
    <3>3. b \in 0 .. 31
      BY <2>2, <3>2
    <3> QED BY <1>1, <1>2, <2>3, <3>1, <3>3
  <2> QED BY <2>4, <2>5, Zenon
<1>7. ASSUME NEW c \in 0 .. n - 1 PROVE c \in Decode(map)
  <2> DEFINE k == groups - (c \div 32)
             b == c % 32
  <2>1. k \in 1 .. groups /\ b \in 0 .. 31 /\ c = 32 * (groups - k) + b
    BY <1>1, <1>2
  <2>2. b \in map[k]
    <3> HIDE DEF k, b
    <3>1. CASE k = 1
      BY <1>1, <1>2, <1>5, <2>1, <3>1
    <3>2. CASE k # 1
      BY <1>1, <1>2, <1>5, <2>1, <3>2
    <3> QED BY <3>1, <3>2, Zenon
  <2> HIDE DEF k, b
  <2>3. k \in DOMAIN map /\ c = 32 * (Len(map) - k) + b
    BY <1>4, <2>1, Zenon
  <2> QED BY <2>2, <2>3 DEF Decode
<1> QED BY <1>1, <1>6, <1>7, Zenon DEF map

(* The CPU files that CpuSetsAgree reads, by the handlers Layout gives them.   *)
LEMMA CpuSetsFollow == IInv => CpuSetsAgree
<1> SUFFICES ASSUME IInv PROVE CpuSetsAgree
  BY Zenon
<1> DEFINE m == machine
           cpus == CpuList(m)
<1>1. m \in Machines
  BY Zenon DEF IInv, TypeOK
<1>2. /\ ReadFile(Node0 \o <<"cpulist">>) = cpus
      /\ ReadFile(Node0 \o <<"cpumap">>) = CpuMap(m)
      /\ ReadFile(Cpu \o <<"kernel_max">>) = KernelMax(m)
      /\ \A f \in {"online", "possible", "present"} : ReadFile(Cpu \o <<f>>) = cpus
  <2> DEFINE handler(path) == Tree[m][NodeAt(m, path)].handler
  <2>1. /\ handler(Node0 \o <<"cpulist">>) = "cpulist"
        /\ handler(Node0 \o <<"cpumap">>) = "cpumap"
        /\ handler(Cpu \o <<"kernel_max">>) = "kernel_max"
        /\ \A f \in {"online", "possible", "present"} :
             handler(Cpu \o <<f>>) = "cpulist"
    BY <1>1, Layout, Zenon
  <2>2. \A path : /\ handler(path) = "cpulist" => ReadFile(path) = CpuList(m)
                  /\ handler(path) = "cpumap" => ReadFile(path) = CpuMap(m)
                  /\ handler(path) = "kernel_max" => ReadFile(path) = KernelMax(m)
    BY Zenon DEF ReadFile, Contents
  <2> HIDE DEF handler
  <2> QED BY <2>1, <2>2, Zenon
<1>3. Ncpu(m) \in Nat \ {0} /\ cpus = 0 .. Ncpu(m) - 1 /\ Decode(CpuMap(m)) = cpus
  BY <1>1, CpuListIs, MapDecodes, Zenon
<1>4. Max(cpus) = KernelMax(m)
  <2>1. KernelMax(m) \in cpus /\ \A c \in cpus : c <= KernelMax(m)
    BY <1>3 DEF KernelMax
  <2> QED BY <1>3, <2>1 DEF Max
<1>5. {c \in cpus : \E i \in DOMAIN Tree[m] : Tree[m][i].path = CpuPath(c)}
        = {c \in cpus : c < MAX_CPU_NODES}
  <2>1. \A c \in cpus : (\E i \in DOMAIN Tree[m] : Tree[m][i].path = CpuPath(c))
                          <=> c \in Shown(m)
    BY <1>1, <1>3, Layout
  <2>2. \A c \in cpus : c \in Shown(m) <=> c < MAX_CPU_NODES
    <3>1. Min({Ncpu(m), MAX_CPU_NODES})
            = IF Ncpu(m) <= MAX_CPU_NODES THEN Ncpu(m) ELSE MAX_CPU_NODES
      BY <1>3, TreeAssumption DEF Min
    <3> QED BY <1>3, <3>1, TreeAssumption DEF Shown
  <2> QED BY <2>1, <2>2, Zenon
<1> QED BY <1>2, <1>3, <1>4, <1>5, Zenon DEF CpuSetsAgree

(* Where the cores have the same number of threads, that number is at least    *)
(* one and the cores make up all the CPUs.                                     *)
LEMMA ThreadsDivide ==
  ASSUME NEW m \in Machines, m.physical \in 1 .. m.logical,
         m.logical % m.physical = 0
  PROVE  /\ ThreadsPerCore(m) \in Nat \ {0} /\ m.physical \in Nat
         /\ Ncpu(m) = m.physical * ThreadsPerCore(m)
<1> DEFINE p == m.physical
           n == m.logical
<1>1. n \in Nat /\ p \in Nat \ {0} /\ p <= n /\ n % p = 0 /\ Ncpu(m) = n
  <2>1. m.logical \in Nat /\ m.physical \in Nat
    BY MachineType, Zenon
  <2> QED BY <2>1 DEF Ncpu
<1>2. n \div p \in Nat /\ n = (n \div p) * p
  <2> HIDE DEF n, p
  <2>1. n \div p \in Nat /\ n = (n \div p) * p + (n % p)
    BY <1>1, DivMod, Zenon
  <2>2. (n \div p) * p \in Nat
    BY <1>1, <2>1
  <2> QED BY <1>1, <2>1, <2>2
<1>3. n \div p # 0
  BY <1>1, <1>2
<1>4. CASE p = n
  BY <1>1, <1>4 DEF ThreadsPerCore
<1>5. CASE p # n
  <2>1. ThreadsPerCore(m) = n \div p
    BY <1>1, <1>5 DEF ThreadsPerCore
  <2>2. (n \div p) * p = p * (n \div p)
    BY <1>1, <1>2
  <2> QED BY <1>1, <1>2, <1>3, <2>1, <2>2, Zenon
<1> QED BY <1>4, <1>5, Zenon

(* The CPUs that thread_siblings_list names are those that core_id gives the   *)
(* same number, and they are CPUs of the machine.                              *)
LEMMA SiblingsAreCore ==
  ASSUME NEW m \in Machines, m.physical \in 1 .. m.logical,
         m.logical % m.physical = 0, NEW c \in 0 .. Ncpu(m) - 1
  PROVE  /\ ThreadSiblings(m, c) \subseteq 0 .. Ncpu(m) - 1
         /\ \A d \in Nat : d \in ThreadSiblings(m, c) <=> CoreId(m, d) = CoreId(m, c)
<1> DEFINE t == ThreadsPerCore(m)
           n == Ncpu(m)
           p == m.physical
           q == c \div t
<1>1. t \in Nat \ {0} /\ p \in Nat /\ n = p * t /\ n \in Nat
  BY ThreadsDivide, CpuListIs, Zenon
<1> HIDE DEF t, n, p
<1>2. c \in Nat /\ c < n
  BY <1>1 DEF n
<1>3. q \in Nat /\ q * t \in Nat /\ q * t <= c /\ c < q * t + t
  <2>1. q \in Nat /\ c % t \in 0 .. t - 1 /\ c = q * t + (c % t)
    BY <1>1, <1>2, DivMod, Zenon
  <2>2. q * t \in Nat
    BY <1>1, <2>1
  <2> HIDE DEF q
  <2> QED BY <1>1, <2>1, <2>2
<1> HIDE DEF q
<1>4. ThreadSiblings(m, c) = q * t .. q * t + t - 1
  <2>1. CASE t = 1
    <3>1. q * t = c /\ q * t .. q * t + t - 1 = {c}
      BY <1>2, <1>3, <2>1
    <3> QED BY <2>1, <3>1 DEF ThreadSiblings, t
  <2>2. CASE t # 1
    <3>1. ~ (t <= 1)
      BY <1>1, <2>2
    <3> QED BY <3>1, Zenon DEF ThreadSiblings, t, q
  <2> QED BY <2>1, <2>2, Zenon
<1>5. q < p /\ q * t + t <= n
  <2>1. p * t \in Nat
    BY <1>1, Zenon
  <2>2. p < q => p * t + t <= q * t
    BY <1>1, <1>3, ProductGrows, Zenon
  <2>3. p = q => p * t = q * t
    BY Zenon
  <2>4. q < p
    BY <1>1, <1>2, <1>3, <2>1, <2>2, <2>3
  <2> QED BY <1>1, <1>3, <2>4, ProductGrows, Zenon
<1>6. ThreadSiblings(m, c) \subseteq 0 .. n - 1
  BY <1>1, <1>3, <1>4, <1>5
<1>7. ASSUME NEW d \in Nat
      PROVE  d \in q * t .. q * t + t - 1 <=> d \div t = q
  <2>1. ASSUME d \in q * t .. q * t + t - 1 PROVE d \div t = q
    <3> DEFINE r == d - q * t
    <3>1. r \in 0 .. t - 1 /\ d = q * t + r
      BY <1>1, <1>3, <2>1
    <3> HIDE DEF r
    <3>2. (q * t + r) \div t = q
      BY <1>1, <1>3, <3>1, DivModUnique, Zenon
    <3> QED BY <3>1, <3>2, Zenon
  <2>2. ASSUME d \div t = q PROVE d \in q * t .. q * t + t - 1
    <3>1. d % t \in 0 .. t - 1 /\ d = q * t + (d % t)
      BY <1>1, <2>2, DivMod, Zenon
    <3> QED BY <1>1, <1>3, <3>1
  <2> QED BY <2>1, <2>2, Zenon
<1> QED BY <1>4, <1>6, <1>7, Zenon DEF CoreId, n, t, q

(* The files of the cpuN directories, by the handlers Layout gives them.       *)
LEMMA SiblingsFollow == IInv => SiblingsPartition
<1> SUFFICES ASSUME IInv, machine.physical \in 1 .. machine.logical,
                    machine.logical % machine.physical = 0
             PROVE  SiblingsPartition
  BY Zenon DEF SiblingsPartition
<1> DEFINE m == machine
           shown == Shown(m)
           row(c) == [cpu |-> c, core |-> CpuFile(c, "core_id"),
                      siblings |-> CpuFile(c, "thread_siblings_list"),
                      package |-> CpuFile(c, "core_siblings_list")]
           rows == {row(c) : c \in shown}
<1>1. m \in Machines
  BY Zenon DEF IInv, TypeOK
<1>2. Ncpu(m) \in Nat \ {0} /\ CpuList(m) = 0 .. Ncpu(m) - 1
  BY <1>1, CpuListIs, Zenon
<1>3. shown \subseteq 0 .. Ncpu(m) - 1 /\ shown \subseteq Nat
  <2>1. Min({Ncpu(m), MAX_CPU_NODES})
          = IF Ncpu(m) <= MAX_CPU_NODES THEN Ncpu(m) ELSE MAX_CPU_NODES
    BY <1>2, TreeAssumption DEF Min
  <2> QED BY <1>2, <2>1, TreeAssumption DEF Shown
<1>4. ASSUME NEW c \in shown
      PROVE  /\ CpuFile(c, "core_id") = CoreId(m, c)
             /\ CpuFile(c, "thread_siblings_list") = ThreadSiblings(m, c)
             /\ CpuFile(c, "core_siblings_list") = CpuList(m)
  <2> DEFINE file(f) == Tree[m][NodeAt(m, CpuPath(c) \o <<"topology", f>>)]
  <2>1. /\ file("core_id").handler = "core_id" /\ file("core_id").instance = c
        /\ file("thread_siblings_list").handler = "thread_siblings"
        /\ file("thread_siblings_list").instance = c
        /\ file("core_siblings_list").handler = "core_siblings"
    BY <1>1, Layout
  <2>2. \A f : CpuFile(c, f) = Contents(file(f).handler, m, file(f).instance)
    BY Zenon DEF CpuFile, ReadFile
  <2> HIDE DEF file, m
  <2> QED BY <2>1, <2>2, Zenon DEF Contents
<1>5. ASSUME NEW c \in shown
      PROVE  /\ ThreadSiblings(m, c) \subseteq CpuList(m)
             /\ ThreadSiblings(m, c) \cap shown
                  = {d \in shown : CoreId(m, d) = CoreId(m, c)}
  <2>1. /\ ThreadSiblings(m, c) \subseteq 0 .. Ncpu(m) - 1
        /\ \A d \in Nat : d \in ThreadSiblings(m, c) <=> CoreId(m, d) = CoreId(m, c)
    BY <1>1, <1>3, SiblingsAreCore, Zenon
  <2> QED BY <1>2, <1>3, <2>1, Zenon
<1>6. ASSUME NEW x \in rows
      PROVE  /\ x.siblings \subseteq x.package
             /\ x.siblings \cap shown = {y.cpu : y \in {z \in rows : z.core = x.core}}
  <2>1. PICK c \in shown : x = row(c)
    BY Zenon
  <2>2. {y.cpu : y \in {z \in rows : z.core = x.core}}
          = {d \in shown : CoreId(m, d) = CoreId(m, c)}
    <3>1. \A d \in shown :
            row(d) \in rows /\ row(d).cpu = d /\ row(d).core = CoreId(m, d)
      BY <1>4, Zenon
    <3>2. \A z \in rows : \E d \in shown : z = row(d)
      BY Zenon
    <3>3. x.core = CoreId(m, c)
      BY <2>1, <3>1, Zenon
    <3> HIDE DEF rows, row, shown, m
    <3> QED BY <3>1, <3>2, <3>3
  <2>3. x.siblings = ThreadSiblings(m, c) /\ x.package = CpuList(m)
    BY <1>4, <2>1, Zenon
  <2>4. x.siblings \subseteq x.package
    BY <1>5, <2>3
  <2>5. x.siblings \cap shown = {d \in shown : CoreId(m, d) = CoreId(m, c)}
    BY <1>5, <2>3, Zenon
  <2> QED BY <2>2, <2>4, <2>5, Zenon
<1> QED BY <1>6, Zenon DEF SiblingsPartition

(* Whatever the number of CPUs, the files below /sys/devices/system that name  *)
(* CPUs name the same ones.                                                    *)
THEOREM CpuFilesAgree == Spec => []CpuSetsAgree
BY InvariantHolds, CpuSetsFollow, PTL

(* Whatever the number of cores and of threads per core, core_id and           *)
(* thread_siblings_list describe one partition of the CPUs.                    *)
THEOREM CoresPartitionCpus == Spec => []SiblingsPartition
BY InvariantHolds, SiblingsFollow, PTL
===============================================================================
