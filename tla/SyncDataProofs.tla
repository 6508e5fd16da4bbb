---------------------------- MODULE SyncDataProofs ----------------------------
(***************************************************************************)
(* What a slot of the synchronization store carries, for any number of     *)
(* solvers, any length of the solution arrays and any bound changes.  The  *)
(* two loops over solutions and over bound changes are recursive functions *)
(* of the module SyncData; a least counterexample stands for the induction *)
(* along them.                                                             *)
(***************************************************************************)
EXTENDS SyncData, FiniteSetTheorems, SequenceTheorems, WellFoundedInduction, TLAPS

\* Every non-empty set of natural numbers has a least element.
LEMMA LeastNat ==
    ASSUME NEW T, T \subseteq Nat, T # {}
    PROVE  \E x \in T : \A y \in T : x <= y
<1>1. PICK x \in T : \A y \in T : ~(<<y, x>> \in OpToRel(<, Nat))
  BY NatLessThanWellFounded, WFMin
<1>2. \A y \in T : ~(<<y, x>> \in OpToRel(<, Nat)) => ~(y < x)
  BY Zenon DEF OpToRel
<1>3. \A y \in T : ~(y < x)
  BY <1>1, <1>2, Zenon
<1> QED
  BY <1>3

-----------------------------------------------------------------------------
(* The loop over the solutions of a solver, one candidate after the other. *)

Candidates(i) == Least(MaxCandSols, Len(mysols[i]))
FirstState(d) == [d |-> d, shared |-> 0, ended |-> FALSE]
IsSharing(f, d, i, n) ==
    f = [k \in 0..n |-> IF k = 0 THEN FirstState(d) ELSE ShareSol(i, f[k - 1], mysols[i][k])]

\* The loop can be followed for any number of candidates.
LEMMA SharingExists ==
    ASSUME NEW d, NEW i, NEW n \in Nat
    PROVE  \E f : IsSharing(f, d, i, n)
<1> DEFINE bad == {m \in Nat : ~\E f : IsSharing(f, d, i, m)}
<1> SUFFICES ASSUME bad # {} PROVE FALSE
  OBVIOUS
<1>1. PICK m \in bad : \A k \in bad : m <= k
  BY LeastNat
<1>2. m # 0
  <2>1. IsSharing([k \in 0..0 |-> FirstState(d)], d, i, 0)
    BY DEF IsSharing
  <2> QED
    BY <2>1
<1>3. PICK g : IsSharing(g, d, i, m - 1)
  BY <1>1, <1>2
<1> DEFINE f == [k \in 0..m |-> IF k = 0 THEN FirstState(d) ELSE ShareSol(i, g[k - 1], mysols[i][k])]
<1>4. \A k \in 0..(m - 1) : f[k] = g[k]
  <2>1. g = [k \in 0..(m - 1) |-> IF k = 0 THEN FirstState(d) ELSE ShareSol(i, g[k - 1], mysols[i][k])]
    BY <1>3, Zenon DEF IsSharing
  <2>2. \A k \in 0..(m - 1) : g[k] = IF k = 0 THEN FirstState(d) ELSE ShareSol(i, g[k - 1], mysols[i][k])
    BY <2>1, Zenon
  <2>3. \A k \in 0..(m - 1) : k \in 0..m
    BY <1>1
  <2> QED
    BY <2>2, <2>3, Zenon
<1>5. ASSUME NEW k \in 0..m, k # 0
      PROVE  f[k - 1] = g[k - 1]
  <2>1. k - 1 \in 0..(m - 1)
    BY <1>5
  <2> QED
    BY <1>4, <2>1
<1>6. f = [k \in 0..m |-> IF k = 0 THEN FirstState(d) ELSE ShareSol(i, f[k - 1], mysols[i][k])]
  BY <1>5, Zenon
<1> QED
  BY <1>1, <1>6, Zenon DEF IsSharing

\* What SolsShared is: the first state, and each from the one before.
LEMMA SharingIs ==
    ASSUME NEW d, NEW i, Candidates(i) \in Nat
    PROVE  /\ SolsShared(d, i)[0] = FirstState(d)
           /\ \A k \in 1..Candidates(i) :
                SolsShared(d, i)[k] = ShareSol(i, SolsShared(d, i)[k - 1], mysols[i][k])
<1>1. IsSharing(SolsShared(d, i), d, i, Candidates(i))
  <2>1. PICK f : IsSharing(f, d, i, Candidates(i))
    BY SharingExists
  <2> QED
    BY <2>1, Zenon DEF IsSharing, SolsShared, Candidates, FirstState
<1> DEFINE f == SolsShared(d, i)
<1>2. f = [k \in 0..Candidates(i) |-> IF k = 0 THEN FirstState(d)
                                      ELSE ShareSol(i, f[k - 1], mysols[i][k])]
  BY <1>1, Zenon DEF IsSharing
<1> HIDE DEF f
<1>3. \A k \in 0..Candidates(i) : f[k] = IF k = 0 THEN FirstState(d)
                                         ELSE ShareSol(i, f[k - 1], mysols[i][k])
  BY <1>2, Zenon
<1>4. f[0] = FirstState(d)
  <2>1. 0 \in 0..Candidates(i)
    OBVIOUS
  <2> QED
    BY <1>3, <2>1, Zenon
<1>5. ASSUME NEW k \in 1..Candidates(i)
      PROVE  f[k] = ShareSol(i, f[k - 1], mysols[i][k])
  <2>1. k \in 0..Candidates(i) /\ k # 0
    OBVIOUS
  <2> QED
    BY <1>3, <2>1, Zenon
<1> QED
  BY <1>4, <1>5 DEF f


-----------------------------------------------------------------------------
(* The order of the array: a strict total order on the solutions offered.  *)

Triples == Int \X Int \X Int

LEMMA BeforeOrder ==
    ASSUME NEW a \in Triples, NEW b \in Triples
    PROVE  /\ ~Before(a, a)
           /\ Before(a, b) => ~Before(b, a)
           /\ a # b => Before(a, b) \/ Before(b, a)
<1>1. PICK a1 \in Int, a2 \in Int, a3 \in Int : a = <<a1, a2, a3>>
  BY SMT DEF Triples
<1>2. PICK b1 \in Int, b2 \in Int, b3 \in Int : b = <<b1, b2, b3>>
  BY SMT DEF Triples
<1> QED
  BY <1>1, <1>2, SMT DEF Before

LEMMA BeforeTransitive ==
    ASSUME NEW a \in Triples, NEW b \in Triples, NEW c \in Triples,
           Before(a, b), Before(b, c)
    PROVE  Before(a, c)
<1>1. PICK a1 \in Int, a2 \in Int, a3 \in Int : a = <<a1, a2, a3>>
  BY SMT DEF Triples
<1>2. PICK b1 \in Int, b2 \in Int, b3 \in Int : b = <<b1, b2, b3>>
  BY SMT DEF Triples
<1>3. PICK c1 \in Int, c2 \in Int, c3 \in Int : c = <<c1, c2, c3>>
  BY SMT DEF Triples
<1> QED
  BY <1>1, <1>2, <1>3, SMT DEF Before

-----------------------------------------------------------------------------
(* The solution array.                                                     *)

Entries == [obj : Int, source : Int]

\* Its buffers, and the entries of the positions in use.
ArrayOk(d) ==
    /\ d \in [nsols : 0..MaxNSols, entry : [Positions -> Entries],
              sols : [Positions -> Positions], values : [Positions -> Entries]]
    /\ \A p, q \in Positions : p # q => d.sols[p] # d.sols[q]
    /\ \A p \in 0..(d.nsols - 1) : d.values[d.sols[p]] = d.entry[p]

\* The array shows the best of the solutions offered, A: position p that of g[p].
Shows(d, g, A) ==
    /\ g \in [0..(d.nsols - 1) -> A]
    /\ \A p \in 0..(d.nsols - 1) : d.entry[p] = [obj |-> g[p][1], source |-> g[p][2]]
    /\ \A p, q \in 0..(d.nsols - 1) : p < q => Before(g[p], g[q])
    /\ \A a \in A : \/ \E p \in 0..(d.nsols - 1) : g[p] = a
                    \/ d.nsols = MaxNSols /\ \A p \in 0..(d.nsols - 1) : Before(a, g[p])

Stops(d, obj, owner, p) ==
    \/ d.entry[p].obj < obj
    \/ d.entry[p].obj = obj /\ owner < d.entry[p].source

\* A position in use describes the solution at it.
LEMMA ShownEntry ==
    ASSUME NEW d, NEW g, NEW A \in SUBSET Triples, Shows(d, g, A), NEW p \in 0..(d.nsols - 1)
    PROVE  \E a1 \in Int, a2 \in Int, a3 \in Int :
              g[p] = <<a1, a2, a3>> /\ d.entry[p].obj = a1 /\ d.entry[p].source = a2
<1>1. g[p] \in Triples /\ d.entry[p] = [obj |-> g[p][1], source |-> g[p][2]]
  BY DEF Shows
<1>2. PICK a1 \in Int, a2 \in Int, a3 \in Int : g[p] = <<a1, a2, a3>>
  BY <1>1, SMT DEF Triples
<1>3. d.entry[p].obj = a1 /\ d.entry[p].source = a2
  BY <1>1, <1>2
<1> QED
  BY <1>2, <1>3

\* The place of a new solution.
LEMMA InsertPosIs ==
    ASSUME NEW d, d.nsols \in Nat, NEW obj, NEW owner
    PROVE  /\ InsertPos(d, obj, owner) \in 0..d.nsols
           /\ InsertPos(d, obj, owner) < d.nsols
                => Stops(d, obj, owner, InsertPos(d, obj, owner))
           /\ \A p \in 0..(InsertPos(d, obj, owner) - 1) : ~Stops(d, obj, owner, p)
<1> DEFINE is(pos) == /\ pos < d.nsols => Stops(d, obj, owner, pos)
                      /\ \A p \in 0..(pos-1) : ~Stops(d, obj, owner, p)
           T == {p \in 0..d.nsols : p < d.nsols => Stops(d, obj, owner, p)}
<1>1. \E pos \in 0..d.nsols : is(pos)
  <2>1. T \subseteq Nat /\ d.nsols \in T
    OBVIOUS
  <2>2. PICK x \in T : \A y \in T : x <= y
    BY <2>1, LeastNat, Zenon
  <2>3. ASSUME NEW p \in 0..(x - 1) PROVE ~Stops(d, obj, owner, p)
    BY <2>1, <2>2
  <2>4. x \in 0..d.nsols /\ (x < d.nsols => Stops(d, obj, owner, x))
    OBVIOUS
  <2> QED
    BY <2>3, <2>4
<1>2. InsertPos(d, obj, owner) = CHOOSE pos \in 0..d.nsols : is(pos)
  BY DEF InsertPos, Stops
<1> HIDE DEF is
<1>3. (CHOOSE pos \in 0..d.nsols : is(pos)) \in 0..d.nsols /\ is(CHOOSE pos \in 0..d.nsols : is(pos))
  BY <1>1, Zenon
<1> QED
  BY <1>2, <1>3 DEF is

\* Where a new solution stops is where it comes before what is there.
LEMMA StopsBefore ==
    ASSUME NEW d, NEW g, NEW A \in SUBSET Triples, ArrayOk(d), Shows(d, g, A),
           NEW e \in Triples,
           \A a \in A : a[1] = e[1] /\ a[2] = e[2] => a[3] < e[3],
           NEW p \in 0..(d.nsols - 1)
    PROVE  /\ Stops(d, e[1], e[2], p) => Before(e, g[p])
           /\ ~Stops(d, e[1], e[2], p) => Before(g[p], e)
<1>1. g[p] \in A
  BY DEF Shows
<1>2. PICK a1 \in Int, a2 \in Int, a3 \in Int :
        g[p] = <<a1, a2, a3>> /\ d.entry[p].obj = a1 /\ d.entry[p].source = a2
  BY ShownEntry
<1>3. PICK e1 \in Int, e2 \in Int, e3 \in Int : e = <<e1, e2, e3>>
  BY SMT DEF Triples
<1>4. a1 = e1 /\ a2 = e2 => a3 < e3
  BY <1>1, <1>2, <1>3
<1> QED
  BY <1>2, <1>3, <1>4 DEF Stops, Before

\* The entries in use are a new one, e, at the position at, and earlier ones that
\* a permutation s of the positions has moved with their buffers.
MovedBy(d, n, e, at, entry1, sols1, s) ==
    /\ n \in 0..MaxNSols /\ e \in Entries /\ at \in Positions
    /\ s \in [Positions -> Positions] /\ \A p, q \in Positions : p # q => s[p] # s[q]
    /\ entry1 \in [Positions -> Entries] /\ entry1[at] = e
    /\ sols1 = [p \in Positions |-> d.sols[s[p]]]
    /\ \A p \in 0..(n - 1) : p # at => s[p] \in 0..(d.nsols - 1) /\ entry1[p] = d.entry[s[p]]

LEMMA MovedOk ==
    ASSUME NEW d, ArrayOk(d), NEW n, NEW e, NEW at, NEW entry1, NEW sols1, NEW s,
           MovedBy(d, n, e, at, entry1, sols1, s)
    PROVE  ArrayOk([nsols |-> n, entry |-> entry1, sols |-> sols1,
                    values |-> [d.values EXCEPT ![sols1[at]] = e]])
<1> DEFINE v1 == [d.values EXCEPT ![sols1[at]] = e]
<1>1. d.sols \in [Positions -> Positions] /\ d.values \in [Positions -> Entries] /\ d.nsols \in 0..MaxNSols
  BY DEF ArrayOk
<1> USE DEF MovedBy
<1>2. sols1 \in [Positions -> Positions] /\ v1 \in [Positions -> Entries]
  BY <1>1
<1>3. \A p, q \in Positions : p # q => sols1[p] # sols1[q]
  BY <1>1 DEF ArrayOk
<1>4. MaxNSols \in Nat
  BY SolversAssumption
<1>5. \A p \in 0..(n - 1) : p \in Positions
  BY <1>4 DEF Positions
<1>6. ASSUME NEW p \in 0..(n - 1) PROVE v1[sols1[p]] = entry1[p]
  <2>1. CASE p = at
    BY <2>1, <1>1, <1>2, <1>5
  <2>2. CASE p # at
    <3>1. sols1[p] # sols1[at]
      BY <2>2, <1>3, <1>5
    <3>2. v1[sols1[p]] = d.values[d.sols[s[p]]]
      BY <3>1, <1>1, <1>2, <1>5
    <3>3. d.values[d.sols[s[p]]] = d.entry[s[p]]
      BY <2>2 DEF ArrayOk
    <3> QED
      BY <3>2, <3>3, <2>2
  <2> QED
    BY <2>1, <2>2
<1> HIDE DEF v1
<1> QED
  BY <1>2, <1>3, <1>6 DEF ArrayOk, v1

-----------------------------------------------------------------------------
(* One solution more.                                                      *)

EntryOf(e) == [obj |-> e[1], source |-> e[2]]

\* What ShareSol does with the solution e, with and without a buffer for it.
Written(d, at, e) == [d EXCEPT !.values[d.sols[at]] = EntryOf(e)]

LEMMA EntryOfType ==
    ASSUME NEW e \in Triples
    PROVE  EntryOf(e) \in Entries
BY SMT DEF Triples, Entries, EntryOf

\* There is room: the solution is inserted where it belongs.
LEMMA InsertStep ==
    ASSUME NEW d, NEW g, NEW A \in SUBSET Triples, ArrayOk(d), Shows(d, g, A),
           NEW e \in Triples,
           \A a \in A : a[1] = e[1] /\ a[2] = e[2] => a[3] < e[3],
           d.nsols < MaxNSols, NEW pos, pos = InsertPos(d, e[1], e[2])
    PROVE  LET d1 == Written(Inserted(d, pos, EntryOf(e)), pos, e)
           IN ArrayOk(d1) /\ \E h : Shows(d1, h, A \cup {e})
<1> DEFINE d0 == Inserted(d, pos, EntryOf(e))
           d1 == Written(d0, pos, e)
           n  == d.nsols
           s  == [p \in Positions |-> IF p < pos THEN p ELSE IF p = pos THEN n
                                      ELSE IF p <= n THEN p - 1 ELSE p]
           h  == [p \in 0..n |-> IF p < pos THEN g[p] ELSE IF p = pos THEN e ELSE g[p-1]]
<1>1. /\ MaxNSols \in Nat /\ n \in 0..MaxNSols
      /\ d.entry \in [Positions -> Entries] /\ d.sols \in [Positions -> Positions]
      /\ d.values \in [Positions -> Entries]
      /\ d = [nsols |-> n, entry |-> d.entry, sols |-> d.sols, values |-> d.values]
  BY SolversAssumption DEF ArrayOk
<1>2. /\ pos \in 0..n
      /\ pos < n => Stops(d, e[1], e[2], pos)
      /\ \A p \in 0..(pos-1) : ~Stops(d, e[1], e[2], p)
  BY <1>1, InsertPosIs
<1>3. EntryOf(e) \in Entries
  BY EntryOfType
<1>4. pos \in Positions
  BY <1>1, <1>2 DEF Positions
<1>5. s \in [Positions -> Positions] /\ \A p, q \in Positions : p # q => s[p] # s[q]
  BY <1>1, <1>2 DEF Positions
<1>6. /\ d0.nsols = n + 1
      /\ d0.entry = [p \in Positions |-> IF p < pos THEN d.entry[p] ELSE IF p = pos THEN EntryOf(e)
                                             ELSE IF p <= n THEN d.entry[p-1] ELSE d.entry[p]]
      /\ d0.sols = [p \in Positions |-> IF p < pos THEN d.sols[p]
                                             ELSE IF p = pos THEN d.sols[n]
                                             ELSE IF p <= n THEN d.sols[p-1] ELSE d.sols[p]]
      /\ d0 = [nsols |-> n + 1, entry |-> d0.entry, sols |-> d0.sols, values |-> d.values]
  <2> DEFINE ent == [p \in Positions |-> IF p < pos THEN d.entry[p] ELSE IF p = pos THEN EntryOf(e)
                                         ELSE IF p <= n THEN d.entry[p-1] ELSE d.entry[p]]
             sol == [p \in Positions |-> IF p < pos THEN d.sols[p]
                                         ELSE IF p = pos THEN d.sols[n]
                                         ELSE IF p <= n THEN d.sols[p-1] ELSE d.sols[p]]
  <2>1. d0 = [[[d EXCEPT !.nsols = n + 1] EXCEPT !.entry = ent] EXCEPT !.sols = sol]
    BY Zenon DEF Inserted
  <2> HIDE DEF ent, sol, d0
  <2>2. d0 = [nsols |-> n + 1, entry |-> ent, sols |-> sol, values |-> d.values]
    BY <1>1, <2>1
  <2> QED
    BY <2>2 DEF ent, sol
<1>7. d0.sols = [p \in Positions |-> d.sols[s[p]]]
  BY <1>6, <1>2
<1>8. d0.entry \in [Positions -> Entries]
  <2>1. \A p \in Positions : p > pos /\ p <= n => p - 1 \in Positions
    BY <1>1, <1>2 DEF Positions
  <2>2. \A p \in Positions : p < pos \/ p = pos \/ p > pos
    BY <1>1, <1>2 DEF Positions
  <2> HIDE DEF d0
  <2>3. ASSUME NEW p \in Positions PROVE d0.entry[p] \in Entries
    BY <1>6, <1>3, <1>1, <2>1, <2>2
  <2> QED
    BY <1>6, <2>3
<1>9. d0.entry[pos] = EntryOf(e)
  <2> HIDE DEF d0
  <2> QED
    BY <1>6, <1>4, <1>1, <1>2
<1>10. \A p \in 0..n : p # pos => s[p] \in 0..(n - 1) /\ d0.entry[p] = d.entry[s[p]]
  BY <1>1, <1>2, <1>6 DEF Positions
<1>11. d1 = [nsols |-> n + 1, entry |-> d0.entry, sols |-> d0.sols,
             values |-> [d.values EXCEPT ![d0.sols[pos]] = EntryOf(e)]]
  BY <1>6 DEF Written
<1>12. ArrayOk(d1)
  <2> HIDE DEF s, d0
  <2> DEFINE m == n + 1
  <2>1. \A p \in 0..(m - 1) : p # pos => s[p] \in 0..(d.nsols - 1) /\ d0.entry[p] = d.entry[s[p]]
    BY <1>10, <1>1
  <2>2. m \in 0..MaxNSols
    BY <1>1
  <2> HIDE DEF m
  <2>3. MovedBy(d, m, EntryOf(e), pos, d0.entry, d0.sols, s)
    BY <1>3, <1>4, <1>5, <1>7, <1>8, <1>9, <2>1, <2>2 DEF MovedBy
  <2>4. ArrayOk([nsols |-> m, entry |-> d0.entry, sols |-> d0.sols,
                 values |-> [d.values EXCEPT ![d0.sols[pos]] = EntryOf(e)]])
    BY <2>3, MovedOk, Zenon
  <2> QED
    BY <1>11, <2>4 DEF m
<1>13. Shows(d1, h, A \cup {e})
  <2>1. d1.nsols = n + 1 /\ d1.entry = d0.entry /\ 0..(n + 1 - 1) = 0..n
    BY <1>11, <1>1
  <2>2. \A p \in 0..(n - 1) : g[p] \in A /\ g[p] \in Triples
    BY DEF Shows
  <2>3. h \in [0..n -> A \cup {e}]
    BY <1>1, <1>2, <2>2
  <2>4. ASSUME NEW p \in 0..n
        PROVE  d0.entry[p] = [obj |-> h[p][1], source |-> h[p][2]]
    <3>1. CASE p = pos
      BY <3>1, <1>9 DEF EntryOf
    <3>2. CASE p # pos
      <4>1. h[p] = g[s[p]]
        BY <3>2, <1>1, <1>2 DEF Positions
      <4>2. d.entry[s[p]] = [obj |-> g[s[p]][1], source |-> g[s[p]][2]]
        BY <3>2, <1>10 DEF Shows
      <4> QED
        BY <4>1, <4>2, <3>2, <1>10
    <3> QED
      BY <3>1, <3>2
  <2>5. ASSUME NEW p \in 0..(n-1)
        PROVE  /\ p < pos => Before(g[p], e)
               /\ p >= pos => Before(e, g[p])
    <3>1. CASE p < pos
      <4>1. ~Stops(d, e[1], e[2], p)
        BY <3>1, <1>2
      <4> QED
        BY <4>1, <3>1, <1>1, <1>2, StopsBefore
    <3>2. CASE p >= pos
      <4>1. Before(e, g[pos]) /\ pos \in 0..(n - 1)
        BY <3>2, <1>1, <1>2, StopsBefore
      <4>2. p = pos \/ Before(g[pos], g[p])
        BY <3>2, <4>1 DEF Shows
      <4> QED
        BY <4>1, <4>2, <2>2, <3>2, <1>2, <1>1, BeforeTransitive
    <3> QED
      BY <3>1, <3>2, <1>2, <1>1
  <2>6. \A p, q \in 0..(n - 1) : p < q => Before(g[p], g[q])
    BY DEF Shows
  <2>7. ASSUME NEW p \in 0..n, NEW q \in 0..n, p < q
        PROVE  Before(h[p], h[q])
    <3>1. CASE q < pos
      BY <3>1, <2>6, <2>7, <1>1, <1>2
    <3>2. CASE q = pos
      BY <3>2, <2>5, <2>7, <1>1, <1>2
    <3>3. CASE p = pos
      <4>1. h[p] = e /\ h[q] = g[q - 1] /\ q - 1 \in 0..(n-1) /\ q - 1 >= pos
        BY <3>3, <2>7, <1>1, <1>2
      <4> QED
        BY <4>1, <2>5
    <3>4. CASE p < pos /\ q > pos
      <4>1. h[p] = g[p] /\ h[q] = g[q - 1] /\ q - 1 \in 0..(n-1) /\ p \in 0..(n-1) /\ p < q - 1
        BY <3>4, <2>7, <1>1, <1>2
      <4> QED
        BY <4>1, <2>6
    <3>5. CASE p > pos
      <4>1. h[p] = g[p - 1] /\ h[q] = g[q - 1] /\ q - 1 \in 0..(n-1) /\ p - 1 \in 0..(n-1) /\ p - 1 < q - 1
        BY <3>5, <2>7, <1>1, <1>2
      <4> QED
        BY <4>1, <2>6
    <3> QED
      BY <3>1, <3>2, <3>3, <3>4, <3>5, <1>1, <1>2
  <2>8. ASSUME NEW a \in A \cup {e}
        PROVE  \E p \in 0..n : h[p] = a
    <3>1. CASE a = e
      BY <3>1, <1>2, <1>1
    <3>2. CASE a # e
      <4>1. PICK p \in 0..(n - 1) : g[p] = a
        BY <3>2, <1>1 DEF Shows
      <4>2. CASE p < pos
        BY <4>1, <4>2, <1>1
      <4>3. CASE p >= pos
        <5>1. p + 1 \in 0..n /\ h[p + 1] = g[p]
          BY <4>1, <4>3, <1>1, <1>2, SMTT(60)
        <5> QED
          BY <5>1, <4>1
      <4>4. p < pos \/ p >= pos
        BY <1>1, <1>2
      <4> HIDE DEF h
      <4> QED
        BY <4>2, <4>3, <4>4
    <3> QED
      BY <3>1, <3>2
  <2> HIDE DEF h, d0, d1
  <2>9. /\ h \in [0..(d1.nsols - 1) -> A \cup {e}]
        /\ \A p \in 0..(d1.nsols - 1) : d1.entry[p] = [obj |-> h[p][1], source |-> h[p][2]]
        /\ \A p, q \in 0..(d1.nsols - 1) : p < q => Before(h[p], h[q])
        /\ \A a \in A \cup {e} : \E p \in 0..(d1.nsols - 1) : h[p] = a
    <3>1. 0..(d1.nsols - 1) = 0..n
      BY <1>1, <2>1
    <3> QED
      BY <3>1, <2>1, <2>3, <2>4, <2>7, <2>8, Zenon
  <2> QED
    BY <2>9, Zenon DEF Shows
<1> QED
  BY <1>12, <1>13

\* The array is full: the worst solution makes room.
LEMMA ReplaceStep ==
    ASSUME NEW d, NEW g, NEW A \in SUBSET Triples, ArrayOk(d), Shows(d, g, A),
           NEW e \in Triples,
           \A a \in A : a[1] = e[1] /\ a[2] = e[2] => a[3] < e[3],
           d.nsols = MaxNSols, NEW pos, pos = InsertPos(d, e[1], e[2]), pos # 0
    PROVE  LET d1 == Written(Replaced(d, pos, EntryOf(e)), pos - 1, e)
           IN ArrayOk(d1) /\ \E h : Shows(d1, h, A \cup {e})
<1> DEFINE d0 == Replaced(d, pos, EntryOf(e))
           d1 == Written(d0, pos - 1, e)
           n  == d.nsols
           s  == [p \in Positions |-> IF p < pos - 1 THEN p + 1 ELSE IF p = pos - 1 THEN 0 ELSE p]
           h  == [p \in 0..(n - 1) |-> IF p < pos - 1 THEN g[p + 1] ELSE IF p = pos - 1 THEN e ELSE g[p]]
<1>1. /\ MaxNSols \in Nat /\ n \in 0..MaxNSols
      /\ d.entry \in [Positions -> Entries] /\ d.sols \in [Positions -> Positions]
      /\ d.values \in [Positions -> Entries]
      /\ d = [nsols |-> n, entry |-> d.entry, sols |-> d.sols, values |-> d.values]
  BY SolversAssumption DEF ArrayOk
<1>2. /\ pos \in 1..n
      /\ pos < n => Stops(d, e[1], e[2], pos)
      /\ \A p \in 0..(pos-1) : ~Stops(d, e[1], e[2], p)
  BY <1>1, InsertPosIs
<1>3. EntryOf(e) \in Entries
  BY EntryOfType
<1>4. pos - 1 \in Positions /\ 0 \in Positions /\ Positions = 0..(n - 1)
  BY <1>1, <1>2 DEF Positions
<1>5. s \in [Positions -> Positions] /\ \A p, q \in Positions : p # q => s[p] # s[q]
  BY <1>1, <1>2 DEF Positions
<1>6. /\ d0.nsols = n
      /\ d0.entry = [p \in Positions |-> IF p < pos - 1 THEN d.entry[p+1]
                                         ELSE IF p = pos - 1 THEN EntryOf(e) ELSE d.entry[p]]
      /\ d0.sols = [p \in Positions |-> IF p < pos - 1 THEN d.sols[p+1]
                                         ELSE IF p = pos - 1 THEN d.sols[0] ELSE d.sols[p]]
      /\ d0 = [nsols |-> n, entry |-> d0.entry, sols |-> d0.sols, values |-> d.values]
  BY <1>1 DEF Replaced
<1>7. d0.sols = [p \in Positions |-> d.sols[s[p]]]
  BY <1>6, <1>2
<1>8. d0.entry \in [Positions -> Entries]
  <2>1. \A p \in Positions : p < pos - 1 => p + 1 \in Positions
    BY <1>1, <1>2 DEF Positions
  <2> QED
    BY <1>6, <1>3, <1>1, <2>1
<1>9. d0.entry[pos - 1] = EntryOf(e)
  BY <1>6, <1>4
<1>10. \A p \in 0..(n - 1) : p # pos - 1 => s[p] \in 0..(n - 1) /\ d0.entry[p] = d.entry[s[p]]
  BY <1>1, <1>2, <1>6 DEF Positions
<1>11. d1 = [nsols |-> n, entry |-> d0.entry, sols |-> d0.sols,
             values |-> [d.values EXCEPT ![d0.sols[pos - 1]] = EntryOf(e)]]
  BY <1>6 DEF Written
<1>12. ArrayOk(d1)
  <2> HIDE DEF s, d0
  <2>1. MovedBy(d, n, EntryOf(e), pos - 1, d0.entry, d0.sols, s)
    BY <1>1, <1>3, <1>4, <1>5, <1>7, <1>8, <1>9, <1>10 DEF MovedBy
  <2>2. ArrayOk([nsols |-> n, entry |-> d0.entry, sols |-> d0.sols,
                 values |-> [d.values EXCEPT ![d0.sols[pos - 1]] = EntryOf(e)]])
    BY <2>1, MovedOk, Zenon
  <2> QED
    BY <1>11, <2>2
<1>13. Shows(d1, h, A \cup {e})
  <2>1. d1.nsols = n /\ d1.entry = d0.entry
    BY <1>11
  <2>2. \A p \in 0..(n - 1) : g[p] \in A /\ g[p] \in Triples
    BY DEF Shows
  <2>3. h \in [0..(n - 1) -> A \cup {e}]
    BY <1>1, <1>2, <2>2
  <2>4. ASSUME NEW p \in 0..(n - 1)
        PROVE  d0.entry[p] = [obj |-> h[p][1], source |-> h[p][2]]
    <3>1. CASE p = pos - 1
      BY <3>1, <1>9 DEF EntryOf
    <3>2. CASE p # pos - 1
      <4>1. h[p] = g[s[p]]
        BY <3>2, <1>1, <1>2 DEF Positions
      <4>2. d.entry[s[p]] = [obj |-> g[s[p]][1], source |-> g[s[p]][2]]
        BY <3>2, <1>10 DEF Shows
      <4> QED
        BY <4>1, <4>2, <3>2, <1>10
    <3> QED
      BY <3>1, <3>2
  <2>5. ASSUME NEW p \in 0..(n-1)
        PROVE  /\ p < pos => Before(g[p], e)
               /\ p >= pos => Before(e, g[p])
    <3>1. CASE p < pos
      <4>1. ~Stops(d, e[1], e[2], p)
        BY <3>1, <1>2
      <4> QED
        BY <4>1, <3>1, <1>1, <1>2, StopsBefore
    <3>2. CASE p >= pos
      <4>1. Before(e, g[pos]) /\ pos \in 0..(n - 1)
        BY <3>2, <1>1, <1>2, StopsBefore
      <4>2. p = pos \/ Before(g[pos], g[p])
        BY <3>2, <4>1 DEF Shows
      <4> QED
        BY <4>1, <4>2, <2>2, <3>2, <1>2, <1>1, BeforeTransitive
    <3> QED
      BY <3>1, <3>2, <1>2, <1>1
  <2>6. \A p, q \in 0..(n - 1) : p < q => Before(g[p], g[q])
    BY DEF Shows
  <2>7. ASSUME NEW p \in 0..(n - 1), NEW q \in 0..(n - 1), p < q
        PROVE  Before(h[p], h[q])
    <3>1. CASE q < pos - 1
      <4>1. h[p] = g[p + 1] /\ h[q] = g[q + 1] /\ p + 1 \in 0..(n-1) /\ q + 1 \in 0..(n-1) /\ p + 1 < q + 1
        BY <3>1, <2>7, <1>1, <1>2
      <4> QED
        BY <4>1, <2>6
    <3>2. CASE q = pos - 1
      <4>1. h[p] = g[p + 1] /\ h[q] = e /\ p + 1 \in 0..(n-1) /\ p + 1 < pos
        BY <3>2, <2>7, <1>1, <1>2
      <4> QED
        BY <4>1, <2>5
    <3>3. CASE p = pos - 1
      <4>1. h[p] = e /\ h[q] = g[q] /\ q >= pos
        BY <3>3, <2>7, <1>1, <1>2
      <4> QED
        BY <4>1, <2>5
    <3>4. CASE p < pos - 1 /\ q > pos - 1
      <4>1. h[p] = g[p + 1] /\ h[q] = g[q] /\ p + 1 \in 0..(n-1) /\ p + 1 < q
        BY <3>4, <2>7, <1>1, <1>2
      <4> QED
        BY <4>1, <2>6
    <3>5. CASE p > pos - 1
      <4>1. h[p] = g[p] /\ h[q] = g[q]
        BY <3>5, <2>7, <1>1, <1>2
      <4> QED
        BY <4>1, <2>6, <2>7
    <3> QED
      BY <3>1, <3>2, <3>3, <3>4, <3>5, <1>1, <1>2
  <2>8. 0 \in 0..(n - 1) /\ Before(g[0], e)
    BY <2>5, <1>1, <1>2
  <2>9. ASSUME NEW p \in 0..(n - 1)
        PROVE  Before(g[0], h[p])
    <3>1. CASE p = pos - 1
      BY <3>1, <2>8
    <3>2. CASE p < pos - 1
      <4>1. h[p] = g[p + 1] /\ p + 1 \in 0..(n-1) /\ 0 < p + 1
        BY <3>2, <1>1, <1>2
      <4> QED
        BY <4>1, <2>6, <2>8
    <3>3. CASE p > pos - 1
      <4>1. h[p] = g[p] /\ 0 < p
        BY <3>3, <1>1, <1>2
      <4> QED
        BY <4>1, <2>6, <2>8
    <3> QED
      BY <3>1, <3>2, <3>3, <1>1, <1>2
  <2>10. ASSUME NEW a \in A \cup {e}
         PROVE  \/ \E p \in 0..(n - 1) : h[p] = a
                \/ \A p \in 0..(n - 1) : Before(a, h[p])
    <3>1. CASE a = e
      BY <3>1, <1>2, <1>1
    <3>2. CASE a # e /\ \E p \in 0..(n - 1) : g[p] = a
      <4>1. PICK p \in 0..(n - 1) : g[p] = a
        BY <3>2
      <4>2. CASE p >= pos
        BY <4>1, <4>2, <1>1, <1>2
      <4>3. CASE p < pos /\ p # 0
        <5>1. p - 1 \in 0..(n - 1) /\ h[p - 1] = g[p]
          BY <4>1, <4>3, <1>1, <1>2
        <5> QED
          BY <5>1, <4>1
      <4>4. CASE p = 0
        BY <4>1, <4>4, <2>9
      <4> QED
        BY <4>2, <4>3, <4>4, <1>1, <1>2
    <3>3. CASE a # e /\ ~\E p \in 0..(n - 1) : g[p] = a
      <4>1. a \in A /\ a \in Triples /\ Before(a, g[0])
        BY <3>3, <2>8 DEF Shows
      <4>2. \A p \in 0..(n - 1) : h[p] \in Triples
        BY <2>3
      <4> HIDE DEF h
      <4> QED
        BY <4>1, <4>2, <2>2, <2>8, <2>9, BeforeTransitive
    <3> QED
      BY <3>1, <3>2, <3>3
  <2> HIDE DEF h, d0, d1
  <2> QED
    BY <2>1, <2>3, <2>4, <2>7, <2>10 DEF Shows
<1> QED
  BY <1>12, <1>13

-----------------------------------------------------------------------------
(* All solutions of a solver.                                              *)

\* A solution that is no better than those of a full array changes nothing.
Shut(d, obj, owner) ==
    d.nsols = MaxNSols /\ \A p \in 0..(d.nsols - 1) : Stops(d, obj, owner, p)

LEMMA ShutShows ==
    ASSUME NEW d, NEW g, NEW A \in SUBSET Triples, ArrayOk(d), Shows(d, g, A),
           NEW e \in Triples, Shut(d, e[1], e[2])
    PROVE  Shows(d, g, A \cup {e})
<1>1. PICK e1 \in Int, e2 \in Int, e3 \in Int : e = <<e1, e2, e3>>
  BY SMT DEF Triples
<1>2. ASSUME NEW p \in 0..(d.nsols - 1) PROVE Before(e, g[p])
  <2>1. PICK a1 \in Int, a2 \in Int, a3 \in Int :
          g[p] = <<a1, a2, a3>> /\ d.entry[p].obj = a1 /\ d.entry[p].source = a2
    BY ShownEntry
  <2> QED
    BY <1>1, <2>1 DEF Shut, Stops, Before
<1>3. g \in [0..(d.nsols - 1) -> A \cup {e}]
  BY DEF Shows
<1> QED
  BY <1>2, <1>3 DEF Shows, Shut

\* A worse one changes nothing either.
LEMMA ShutStays ==
    ASSUME NEW d, ArrayOk(d), NEW owner, NEW x \in Int, NEW y \in Int, x <= y,
           Shut(d, x, owner)
    PROVE  Shut(d, y, owner)
<1>1. \A p \in 0..(d.nsols - 1) : d.entry[p].obj \in Int
  <2>1. \A p \in 0..(d.nsols - 1) : p \in Positions
    BY SolversAssumption DEF ArrayOk, Positions
  <2> QED
    BY <2>1 DEF ArrayOk, Entries
<1> QED
  BY <1>1 DEF Shut, Stops

\* An array without room in which the place of the solution would be the first.
LEMMA ShutAtFirst ==
    ASSUME NEW d, NEW g, NEW A \in SUBSET Triples, ArrayOk(d), Shows(d, g, A),
           NEW e \in Triples, d.nsols = MaxNSols, InsertPos(d, e[1], e[2]) = 0
    PROVE  Shut(d, e[1], e[2])
<1>1. PICK e1 \in Int, e2 \in Int, e3 \in Int : e = <<e1, e2, e3>>
  BY SMT DEF Triples
<1>2. d.nsols \in Nat
  BY SolversAssumption
<1>3. ASSUME NEW p \in 0..(d.nsols - 1) PROVE Stops(d, e[1], e[2], p)
  <2>1. 0 \in 0..(d.nsols - 1) /\ Stops(d, e[1], e[2], 0)
    BY <1>2, InsertPosIs
  <2>2. p = 0 \/ Before(g[0], g[p])
    BY <2>1 DEF Shows
  <2>3. PICK a1 \in Int, a2 \in Int, a3 \in Int :
          g[p] = <<a1, a2, a3>> /\ d.entry[p].obj = a1 /\ d.entry[p].source = a2
    BY ShownEntry
  <2>4. PICK b1 \in Int, b2 \in Int, b3 \in Int :
          g[0] = <<b1, b2, b3>> /\ d.entry[0].obj = b1 /\ d.entry[0].source = b2
    BY <2>1, ShownEntry
  <2> QED
    BY <1>1, <2>1, <2>2, <2>3, <2>4 DEF Stops, Before
<1> QED
  BY <1>3 DEF Shut

Offer(i, k) == <<mysols[i][k], i, k>>
OfferedUpTo(i, k) == {Offer(i, j) : j \in 1..Least(k, MaxNSols)}

\* The loop's state w after k solutions, when the solvers before had offered A.
LoopOk(w, i, k, A) ==
    /\ w = [d |-> w.d, shared |-> w.shared, ended |-> w.ended] /\ w.ended \in BOOLEAN
    /\ ArrayOk(w.d)
    /\ \E g : Shows(w.d, g, A \cup OfferedUpTo(i, k))
    /\ w.ended => k >= MaxNSols \/ (k > 0 /\ Shut(w.d, mysols[i][k], i))
    /\ ~w.ended => w.shared = k /\ (k < MaxNSols \/ k = 0)

LEMMA ShareStep ==
    ASSUME NEW i \in Solvers, NEW A \in SUBSET Triples, \A a \in A : a[2] # i,
           mysols[i] \in SolLists, NEW k \in 1..Len(mysols[i]),
           NEW w, LoopOk(w, i, k - 1, A)
    PROVE  LoopOk(ShareSol(i, w, mysols[i][k]), i, k, A)
<1> DEFINE obj == mysols[i][k]
           e == Offer(i, k)
           B == A \cup OfferedUpTo(i, k - 1)
           v == ShareSol(i, w, obj)
<1>1. /\ MaxNSols \in Nat /\ i \in Nat /\ k \in Nat /\ mysols[i] \in Seq(Int)
      /\ \A j \in 1..Len(mysols[i]) : mysols[i][j] \in Int
      /\ \A j \in 1..Len(mysols[i]) : j <= k => mysols[i][j] <= obj
      /\ obj \in Int
  BY SolversAssumption, SolListsAssumption
<1>2. e \in Triples /\ e[1] = obj /\ e[2] = i /\ e[3] = k /\ EntryOf(e) = [obj |-> obj, source |-> i]
  BY <1>1, SMT DEF Offer, Triples, EntryOf
<1>3. B \in SUBSET Triples
  <2>1. \A j \in 1..Least(k - 1, MaxNSols) : j \in 1..Len(mysols[i]) /\ j \in Int
    BY <1>1 DEF Least
  <2>2. \A j \in 1..Least(k - 1, MaxNSols) : Offer(i, j) \in Triples
    BY <2>1, <1>1, SMT DEF Offer, Triples
  <2> QED
    BY <2>2 DEF OfferedUpTo
<1>4. \A a \in B : a[1] = e[1] /\ a[2] = e[2] => a[3] < e[3]
  <2>1. ASSUME NEW j \in 1..Least(k - 1, MaxNSols) PROVE Offer(i, j)[3] < e[3]
    BY <1>1, <1>2 DEF Least, Offer
  <2> QED
    BY <2>1, <1>2 DEF OfferedUpTo
<1>5. PICK g : Shows(w.d, g, B)
  BY DEF LoopOk
<1>6. ArrayOk(w.d) /\ w.d.nsols \in 0..MaxNSols
      /\ w = [d |-> w.d, shared |-> w.shared, ended |-> w.ended]
  BY DEF LoopOk, ArrayOk
<1>7. A \cup OfferedUpTo(i, k) = IF k <= MaxNSols THEN B \cup {e} ELSE B
  <2>1. CASE k <= MaxNSols
    <3>1. 1..Least(k, MaxNSols) = 1..Least(k - 1, MaxNSols) \cup {k}
      BY <1>1, <2>1 DEF Least
    <3> QED
      BY <3>1, <2>1, Zenon DEF OfferedUpTo
  <2>2. CASE k > MaxNSols
    <3>1. Least(k, MaxNSols) = Least(k - 1, MaxNSols) /\ ~(k <= MaxNSols)
      BY <1>1, <2>2 DEF Least
    <3> QED
      BY <3>1, Zenon DEF OfferedUpTo
  <2> QED
    BY <2>1, <2>2, <1>1
<1>8. v = ShareSol(i, w, obj)
  OBVIOUS
<1> SUFFICES LoopOk(v, i, k, A)
  BY DEF v
<1> HIDE DEF e, B, obj, v
<1>9. ASSUME w.ended
      PROVE  LoopOk(v, i, k, A)
  <2>1. v = w
    BY <1>8, <1>9 DEF ShareSol
  <2>2. CASE k - 1 >= MaxNSols
    <3>1. k >= MaxNSols /\ ~(k <= MaxNSols)
      BY <2>2, <1>1
    <3>2. \E h : Shows(v.d, h, A \cup OfferedUpTo(i, k))
      BY <3>1, <1>5, <1>7, <2>1, Zenon
    <3> QED
      BY <3>1, <3>2, <1>9, <2>1, Zenon DEF LoopOk
  <2>3. CASE k - 1 > 0 /\ Shut(w.d, mysols[i][k-1], i)
    <3>1. Shut(w.d, obj, i)
      <4>1. k - 1 \in 1..Len(mysols[i]) /\ k - 1 <= k
        BY <1>1, <2>3
      <4> QED
        BY <4>1, <1>1, <1>6, <2>3, ShutStays
    <3>2. Shows(w.d, g, B \cup {e})
      BY <3>1, <1>2, <1>3, <1>5, <1>6, ShutShows
    <3>3. \E h : Shows(v.d, h, A \cup OfferedUpTo(i, k))
      BY <3>2, <1>5, <1>7, <2>1, Zenon
    <3>4. k > 0
      BY <1>1
    <3> QED
      BY <1>9, <2>1, <3>1, <3>3, <3>4, Zenon DEF LoopOk, obj
  <2> QED
    BY <1>9, <2>2, <2>3 DEF LoopOk
<1>10. ASSUME ~w.ended
       PROVE  LoopOk(v, i, k, A)
  <2> DEFINE pos  == InsertPos(w.d, obj, i)
             full == w.d.nsols >= MaxNSols
             d    == IF full THEN Replaced(w.d, pos, EntryOf(e)) ELSE Inserted(w.d, pos, EntryOf(e))
             at   == IF full THEN pos - 1 ELSE pos
  <2>1. v = IF at < 0 THEN [w EXCEPT !.ended = TRUE]
            ELSE [d |-> Written(d, at, e), shared |-> w.shared + 1,
                  ended |-> w.shared + 1 = MaxNSols]
    BY <1>8, <1>10, <1>2, Zenon DEF ShareSol, Written
  <2>2. pos \in 0..w.d.nsols /\ pos = InsertPos(w.d, e[1], e[2])
    BY <1>2, <1>6, <1>1, InsertPosIs
  <2>3. w.shared = k - 1 /\ (k - 1 < MaxNSols \/ k = 1)
    BY <1>10, <1>1 DEF LoopOk
  <2> HIDE DEF pos
  <2>4. CASE full /\ pos = 0
    <3>1. v = [d |-> w.d, shared |-> w.shared, ended |-> TRUE]
      <4>1. v = [w EXCEPT !.ended = TRUE]
        BY <2>1, <2>4
      <4> QED
        BY <4>1, <1>6
    <3>2. w.d.nsols = MaxNSols
      BY <2>4, <1>6, <1>1
    <3>3. Shut(w.d, obj, i)
      BY <3>2, <2>2, <2>4, <1>2, <1>3, <1>5, <1>6, ShutAtFirst
    <3>4. Shows(w.d, g, B \cup {e})
      BY <3>3, <1>2, <1>3, <1>5, <1>6, ShutShows
    <3>5. v.d = w.d /\ v.ended = TRUE /\ v = [d |-> v.d, shared |-> v.shared, ended |-> v.ended]
      BY <3>1
    <3>6. \E h : Shows(v.d, h, A \cup OfferedUpTo(i, k))
      BY <3>4, <1>5, <1>7, <3>5, Zenon
    <3>7. k > 0
      BY <1>1
    <3> QED
      BY <1>6, <3>3, <3>5, <3>6, <3>7 DEF LoopOk, obj
  <2>5. CASE ~(full /\ pos = 0)
    <3>1. ~(at < 0)
      BY <2>2, <2>5, <1>6, <1>1
    <3>2. k <= MaxNSols
      <4>1. CASE k = 1
        <5>1. MaxNSols # 0
          BY <2>2, <2>5, <1>6, <1>1
        <5> QED
          BY <4>1, <5>1, <1>1
      <4> QED
        BY <4>1, <2>3, <1>1
    <3>3. v = [d |-> Written(d, at, e), shared |-> k, ended |-> k = MaxNSols]
      <4>1. w.shared + 1 = k
        BY <2>3, <1>1
      <4> QED
        BY <2>1, <3>1, <4>1, Zenon
    <3>4. ArrayOk(Written(d, at, e)) /\ \E h : Shows(Written(d, at, e), h, B \cup {e})
      <4>1. CASE full
        <5>1. w.d.nsols = MaxNSols /\ pos # 0
          BY <4>1, <2>5, <1>6, <1>1
        <5>2. ArrayOk(Written(Replaced(w.d, pos, EntryOf(e)), pos - 1, e))
              /\ \E h : Shows(Written(Replaced(w.d, pos, EntryOf(e)), pos - 1, e), h, B \cup {e})
          BY <5>1, <2>2, <1>2, <1>3, <1>4, <1>5, <1>6, ReplaceStep
        <5> QED
          BY <4>1, <5>2
      <4>2. CASE ~full
        <5>1. w.d.nsols < MaxNSols
          BY <4>2, <1>6, <1>1
        <5>2. ArrayOk(Written(Inserted(w.d, pos, EntryOf(e)), pos, e))
              /\ \E h : Shows(Written(Inserted(w.d, pos, EntryOf(e)), pos, e), h, B \cup {e})
          BY <5>1, <2>2, <1>2, <1>3, <1>4, <1>5, <1>6, InsertStep
        <5> QED
          BY <4>2, <5>2
      <4> QED
        BY <4>1, <4>2
    <3> DEFINE d1 == Written(d, at, e)
    <3> HIDE DEF d1
    <3>5. v.d = d1 /\ v.shared = k /\ v.ended = (k = MaxNSols)
          /\ v = [d |-> v.d, shared |-> v.shared, ended |-> v.ended] /\ v.ended \in BOOLEAN
      BY <3>3 DEF d1
    <3>6. ArrayOk(v.d) /\ \E h : Shows(v.d, h, A \cup OfferedUpTo(i, k))
      BY <3>2, <3>4, <3>5, <1>7, Zenon DEF d1
    <3>7. (k = MaxNSols => k >= MaxNSols) /\ (k # MaxNSols => k < MaxNSols)
      BY <1>1, <3>2
    <3>8. v.ended => k >= MaxNSols
      BY <3>5, <3>7, Zenon
    <3>9. ~v.ended => v.shared = k /\ k < MaxNSols
      BY <3>5, <3>7, Zenon
    <3> QED
      BY <3>5, <3>6, <3>8, <3>9, Zenon DEF LoopOk
  <2> QED
    BY <2>4, <2>5
<1> QED
  BY <1>9, <1>10

\* The slot's solutions after a solver has written.
LEMMA SolsWrittenOk ==
    ASSUME NEW i \in Solvers, NEW A \in SUBSET Triples, \A a \in A : a[2] # i,
           mysols[i] \in SolLists, NEW d, ArrayOk(d), \E g : Shows(d, g, A)
    PROVE  ArrayOk(SolsWritten(d, i)) /\ \E g : Shows(SolsWritten(d, i), g, A \cup Offers(i))
<1> DEFINE n == Candidates(i)
           w == SolsShared(d, i)
<1>1. /\ MaxNSols \in Nat /\ MaxCandSols \in Nat /\ mysols[i] \in Seq(Int)
      /\ Len(mysols[i]) \in Nat
  BY SolversAssumption, SolListsAssumption
<1>2. n \in Nat /\ n <= Len(mysols[i])
  BY <1>1 DEF Candidates, Least
<1>3. w[0] = FirstState(d) /\ \A k \in 1..n : w[k] = ShareSol(i, w[k - 1], mysols[i][k])
  BY <1>2, SharingIs
<1> HIDE DEF n, w
<1>4. LoopOk(w[0], i, 0, A)
  <2>1. OfferedUpTo(i, 0) = {}
    BY <1>1 DEF OfferedUpTo, Least
  <2>2. \E g : Shows(d, g, A \cup OfferedUpTo(i, 0))
    <3>1. A \cup OfferedUpTo(i, 0) = A
      BY <2>1
    <3> QED
      BY <3>1, Zenon
  <2>3. w[0] = [d |-> d, shared |-> 0, ended |-> FALSE]
    BY <1>3 DEF FirstState
  <2>4. w[0].d = d /\ w[0].shared = 0 /\ w[0].ended = FALSE
        /\ w[0] = [d |-> w[0].d, shared |-> w[0].shared, ended |-> w[0].ended]
    BY <2>3
  <2> QED
    BY <2>2, <2>4 DEF LoopOk
<1> DEFINE bad == {k \in 0..n : ~LoopOk(w[k], i, k, A)}
<1>5. bad = {}
  <2> SUFFICES ASSUME bad # {} PROVE FALSE
    OBVIOUS
  <2>1. bad \subseteq Nat
    OBVIOUS
  <2>2. PICK k \in bad : \A l \in bad : k <= l
    BY <2>1, LeastNat
  <2>3. k # 0
    BY <1>4
  <2>4. k \in 1..n /\ k - 1 \in 0..n /\ k - 1 \notin bad /\ k \in 1..Len(mysols[i])
    BY <1>1, <1>2, <2>2, <2>3
  <2>5. LoopOk(w[k - 1], i, k - 1, A)
    BY <2>4
  <2>6. LoopOk(w[k], i, k, A)
    <3>1. LoopOk(ShareSol(i, w[k - 1], mysols[i][k]), i, k, A)
      BY <2>4, <2>5, ShareStep
    <3> QED
      BY <1>3, <2>4, <3>1
  <2> QED
    BY <2>2, <2>6
<1>6. LoopOk(w[n], i, n, A)
  BY <1>2, <1>5
<1>7. SolsWritten(d, i) = w[n].d
  BY DEF SolsWritten, w, n, Candidates
<1>8. OfferedUpTo(i, n) = Offers(i)
  <2>1. 1..Least(n, MaxNSols) = 1..Least(Least(MaxCandSols, MaxNSols), Len(mysols[i]))
    BY <1>1 DEF n, Candidates, Least
  <2> QED
    BY <2>1, Zenon DEF OfferedUpTo, Offers, Offer
<1>9. ArrayOk(w[n].d) /\ \E g : Shows(w[n].d, g, A \cup OfferedUpTo(i, n))
  BY <1>6, Zenon DEF LoopOk
<1> QED
  BY <1>7, <1>8, <1>9, Zenon

-----------------------------------------------------------------------------
(* How many solutions the array shows, and which.                          *)

Rank(a, A)  == Cardinality({b \in A : Before(b, a)})
Dropped(A)  == Cardinality(A) - Least(MaxNSols, Cardinality(A))

LEMMA OffersFinite ==
    ASSUME NEW i \in Solvers, mysols[i] \in SolLists
    PROVE  /\ IsFiniteSet(Offers(i)) /\ Offers(i) \subseteq Triples
           /\ \A a \in Offers(i) : a[2] = i
<1> DEFINE n == Least(Least(MaxCandSols, MaxNSols), Len(mysols[i]))
<1>1. /\ MaxNSols \in Nat /\ MaxCandSols \in Nat /\ i \in Int
      /\ Len(mysols[i]) \in Nat /\ \A k \in 1..Len(mysols[i]) : mysols[i][k] \in Int
  BY SolversAssumption, SolListsAssumption
<1>2. n \in Nat /\ n <= Len(mysols[i])
  BY <1>1 DEF Least
<1> HIDE DEF n
<1>3. Offers(i) = {Offer(i, k) : k \in 1..n}
  BY DEF Offers, Offer, n
<1>4. \A k \in 1..n : Offer(i, k) \in Triples /\ Offer(i, k)[2] = i
  BY <1>1, <1>2, SMT DEF Offer, Triples
<1>5. IsFiniteSet(Offers(i))
  <2> DEFINE f == [k \in 1..n |-> Offer(i, k)]
  <2>1. f \in Surjection(1..n, Offers(i))
    BY <1>3, Zenon DEF Surjection
  <2>2. IsFiniteSet(1..n)
    BY <1>2, FS_Interval
  <2> QED
    BY <2>1, <2>2, FS_Surjection, Zenon
<1> QED
  BY <1>3, <1>4, <1>5

LEMMA ShownAreBest ==
    ASSUME NEW d, NEW g, NEW A \in SUBSET Triples, IsFiniteSet(A), ArrayOk(d), Shows(d, g, A)
    PROVE  /\ d.nsols = Least(MaxNSols, Cardinality(A))
           /\ \A p \in 0..(d.nsols - 1) : Rank(g[p], A) = Dropped(A) + p
           /\ \A a \in A : Rank(a, A) >= Dropped(A) =>
                 \E p \in 0..(d.nsols - 1) : g[p] = a
<1> DEFINE n == d.nsols
           R == {g[p] : p \in 0..(n - 1)}
           O == A \ R
<1>1. /\ MaxNSols \in Nat /\ n \in 0..MaxNSols /\ n \in Nat
      /\ g \in [0..(n - 1) -> A]
      /\ \A p, q \in 0..(n - 1) : p < q => Before(g[p], g[q])
  BY SolversAssumption DEF ArrayOk, Shows
<1>2. \A a \in O : n = MaxNSols /\ \A p \in 0..(n - 1) : Before(a, g[p])
  BY DEF Shows
<1>3. \A p \in 0..(n - 1) : g[p] \in A /\ g[p] \in Triples
  BY <1>1
<1>4. \A p, q \in 0..(n - 1) : Before(g[p], g[q]) <=> p < q
  <2> SUFFICES ASSUME NEW p \in 0..(n - 1), NEW q \in 0..(n - 1), ~(p < q), Before(g[p], g[q])
               PROVE  FALSE
    BY <1>1
  <2>1. CASE p = q
    BY <2>1, <1>3, BeforeOrder
  <2>2. CASE q < p
    BY <2>2, <1>1, <1>3, BeforeOrder
  <2> QED
    BY <2>1, <2>2, <1>1
<1>5. \A p, q \in 0..(n - 1) : g[p] = g[q] => p = q
  <2> SUFFICES ASSUME NEW p \in 0..(n - 1), NEW q \in 0..(n - 1), g[p] = g[q], p # q PROVE FALSE
    OBVIOUS
  <2>1. p < q \/ q < p
    BY <1>1
  <2>2. Before(g[p], g[p])
    BY <2>1, <1>4
  <2> QED
    BY <2>2, <1>3, BeforeOrder
<1>6. IsFiniteSet(O) /\ IsFiniteSet(R) /\ A = O \cup R /\ O \cap R = {}
      /\ Cardinality(O) \in Nat /\ Cardinality(A) \in Nat
  <2>1. R \subseteq A
    BY <1>3
  <2>2. IsFiniteSet(O) /\ IsFiniteSet(R)
    BY <2>1, FS_Subset
  <2> QED
    BY <2>1, <2>2, FS_CardinalityType
<1>7. \A m \in 0..n : LET S == {g[p] : p \in 0..(m - 1)}
                      IN IsFiniteSet(S) /\ Cardinality(S) = m
  <2> TAKE m \in 0..n
  <2> DEFINE S == {g[p] : p \in 0..(m - 1)}
             f == [p \in 0..(m - 1) |-> g[p]]
  <2>1. f \in Bijection(0..(m - 1), S)
    <3>1. \A p \in 0..(m - 1) : p \in 0..(n - 1)
      BY <1>1
    <3>2. f \in [0..(m - 1) -> S]
      OBVIOUS
    <3>3. \A p, q \in 0..(m - 1) : f[p] = f[q] => p = q
      BY <1>5, <3>1
    <3>4. \A s \in S : \E p \in 0..(m - 1) : f[p] = s
      OBVIOUS
    <3> QED
      BY <3>2, <3>3, <3>4, Zenon DEF Bijection, Injection, Surjection, IsInjective
  <2>2. IsFiniteSet(0..(m - 1)) /\ Cardinality(0..(m - 1)) = m
    <3>1. 0 \in Int /\ m - 1 \in Int /\ m \in Nat
      BY <1>1
    <3>2. /\ IsFiniteSet(0..(m - 1))
          /\ Cardinality(0..(m - 1)) = IF 0 > m - 1 THEN 0 ELSE m - 1 - 0 + 1
      BY <3>1, FS_Interval, Zenon
    <3> QED
      BY <3>1, <3>2
  <2>3. IsFiniteSet(S) /\ Cardinality(S) = Cardinality(0..(m - 1))
    BY <2>1, <2>2, FS_Bijection, ZenonT(60) DEF ExistsBijection
  <2> QED
    BY <2>2, <2>3
<1>8. Cardinality(R) = n
  <2>1. n \in 0..n
    BY <1>1
  <2> QED
    BY <1>7, <2>1
<1>9. Cardinality(A) = Cardinality(O) + n
  <2> HIDE DEF O, R
  <2>1. Cardinality(O \cup R) = Cardinality(O) + Cardinality(R) - Cardinality(O \cap R)
    BY <1>6, FS_Union, Zenon
  <2>2. Cardinality(O \cap R) = 0 /\ Cardinality(A) = Cardinality(O \cup R)
    BY <1>6, FS_EmptySet, Zenon
  <2> QED
    BY <2>1, <2>2, <1>1, <1>6, <1>8
<1>10. n = Least(MaxNSols, Cardinality(A)) /\ Dropped(A) = Cardinality(O)
  <2>1. CASE O = {}
    <3>1. Cardinality(O) = 0
      BY <2>1, FS_EmptySet
    <3> QED
      BY <1>1, <1>9, <3>1 DEF Least, Dropped
  <2>2. CASE O # {}
    <3>1. n = MaxNSols
      BY <2>2, <1>2
    <3> QED
      BY <1>1, <1>6, <1>9, <3>1 DEF Least, Dropped
  <2> QED
    BY <2>1, <2>2
<1>11. ASSUME NEW p \in 0..(n - 1) PROVE Rank(g[p], A) = Dropped(A) + p
  <2> DEFINE S == {g[q] : q \in 0..(p - 1)}
  <2>1. {b \in A : Before(b, g[p])} = O \cup S
    <3>1. ASSUME NEW q \in 0..(n - 1) PROVE Before(g[q], g[p]) <=> q \in 0..(p - 1)
      BY <1>1, <1>4
    <3>2. S \subseteq R /\ \A q \in 0..(p - 1) : q \in 0..(n - 1)
      BY <1>1
    <3>3. \A q \in 0..(n - 1) : g[q] \in S <=> q \in 0..(p - 1)
      BY <1>5, <3>2
    <3>4. \A b \in R : Before(b, g[p]) <=> b \in S
      BY <3>1, <3>3
    <3>5. \A b \in O : Before(b, g[p])
      BY <1>2
    <3> QED
      BY <3>2, <3>4, <3>5, <1>6
  <2>2. IsFiniteSet(S) /\ Cardinality(S) = p
    <3>1. p \in 0..n
      BY <1>1
    <3> QED
      BY <3>1, <1>7
  <2>3. O \cap S = {}
    <3>1. S \subseteq R
      BY <1>1
    <3> QED
      BY <3>1
  <2>4. Cardinality(O \cup S) = Cardinality(O) + p
    <3> HIDE DEF O, S
    <3>1. Cardinality(O \cup S) = Cardinality(O) + Cardinality(S) - Cardinality(O \cap S)
      BY <2>2, <1>6, FS_Union, Zenon
    <3>2. Cardinality(O \cap S) = 0
      BY <2>3, FS_EmptySet, Zenon
    <3> QED
      BY <3>1, <3>2, <2>2, <1>1, <1>6
  <2> QED
    BY <2>1, <2>4, <1>10 DEF Rank
<1>12. ASSUME NEW a \in A, Rank(a, A) >= Dropped(A), a \notin R PROVE FALSE
  <2> DEFINE S == {b \in A : Before(b, a)}
  <2>1. a \in O /\ a \in Triples
    BY <1>12
  <2>2. \A p \in 0..(n - 1) : ~Before(g[p], a)
    BY <2>1, <1>2, <1>3, BeforeOrder
  <2>3. S \subseteq O \ {a}
    BY <2>1, <2>2, BeforeOrder
  <2>4. Cardinality(O \ {a}) = Cardinality(O) - 1 /\ IsFiniteSet(O \ {a})
    <3>1. /\ IsFiniteSet(O \ {a})
          /\ Cardinality(O \ {a}) = IF a \in O THEN Cardinality(O) - 1 ELSE Cardinality(O)
      BY <1>6, FS_RemoveElement, Zenon
    <3> QED
      BY <2>1, <3>1, Zenon
  <2>5. Cardinality(S) <= Cardinality(O \ {a})
    BY <2>3, <2>4, FS_Subset
  <2>6. Cardinality(S) \in Nat
    BY <2>3, <2>4, FS_Subset, FS_CardinalityType
  <2> QED
    BY <2>4, <2>5, <2>6, <1>6, <1>10, <1>12 DEF Rank
<1> QED
  BY <1>10, <1>11, <1>12

-----------------------------------------------------------------------------
(* The slot's solutions.                                                   *)

Array       == [nsols |-> nsols, entry |-> entry, sols |-> sols, values |-> values]
Offered(S)  == UNION {Offers(i) : i \in S}

\* The array shows what the solvers that have written offered; nobody reads
\* before all have written, and what was read is what the array still shows.
SolInv ==
    /\ written \subseteq Solvers /\ read \subseteq Solvers
    /\ mysols \in [Solvers -> SolLists]
    /\ ArrayOk(Array)
    /\ \E g : Shows(Array, g, Offered(written))
    /\ read # {} => written = Solvers
    /\ DOMAIN received = Solvers
    /\ \A i \in read : received[i] = SolsRead(i)

LEMMA OfferedFinite ==
    ASSUME SolInv, NEW S \in SUBSET Solvers
    PROVE  /\ IsFiniteSet(Offered(S)) /\ Offered(S) \in SUBSET Triples
           /\ \A a \in Offered(S) : a[2] \in S
<1>1. \A i \in S : IsFiniteSet(Offers(i)) /\ Offers(i) \subseteq Triples /\ \A a \in Offers(i) : a[2] = i
  BY OffersFinite DEF SolInv
<1>2. IsFiniteSet(S)
  BY SolversAssumption, FS_Subset
<1> DEFINE f == [i \in S |-> Offers(i)]
           T == {Offers(i) : i \in S}
<1>3. f \in Surjection(S, T)
  BY Zenon DEF Surjection
<1>4. IsFiniteSet(T)
  BY <1>2, <1>3, FS_Surjection, Zenon
<1>5. IsFiniteSet(UNION T)
  <2>1. \A U \in T : IsFiniteSet(U)
    BY <1>1
  <2> HIDE DEF T
  <2> QED
    BY <1>4, <2>1, FS_UNION, Zenon
<1> QED
  BY <1>1, <1>5 DEF Offered

LEMMA EmptyShows ==
    ASSUME NEW d, d.nsols = 0
    PROVE  \E g : Shows(d, g, {})
<1> DEFINE g == [p \in {} |-> p]
<1>1. 0..(d.nsols - 1) = {}
  OBVIOUS
<1>2. g \in [0..(d.nsols - 1) -> {}]
  BY <1>1
<1> QED
  BY <1>1, <1>2, Zenon DEF Shows

LEMMA SolInitOk == Init => SolInv
<1> SUFFICES ASSUME Init PROVE SolInv
  OBVIOUS
<1> USE DEF Init
<1>1. ArrayOk(Array)
  <2>1. MaxNSols \in Nat /\ NoEntry \in Entries
    BY SolversAssumption DEF NoEntry, Entries
  <2> QED
    BY <2>1 DEF ArrayOk, Array, Positions
<1>2. Offered(written) = {}
  BY DEF Offered
<1>3. \E g : Shows(Array, g, {})
  <2>1. Array.nsols = 0
    BY DEF Array
  <2> QED
    BY <2>1, EmptyShows, Zenon
<1> QED
  BY <1>1, <1>2, <1>3 DEF SolInv

LEMMA SolStep == SolInv /\ [Next]_vars => SolInv'
<1> SUFFICES ASSUME SolInv, [Next]_vars PROVE SolInv'
  OBVIOUS
<1> USE DEF SolInv
<1>1. ASSUME UNCHANGED <<solutions, mysols, received, written, read>>
      PROVE  SolInv'
  <2>1. UNCHANGED <<nsols, entry, sols, values, mysols, received, written, read>>
    BY <1>1 DEF solutions
  <2>2. UNCHANGED Array
    BY <2>1 DEF Array
  <2>3. \A i : UNCHANGED <<Offers(i), SolsRead(i)>>
    BY <2>1, Zenon DEF Offers, SolsRead
  <2>4. UNCHANGED Offered(written)
    BY <2>1, <2>3, Zenon DEF Offered
  <2>5. (\E g : Shows(Array, g, Offered(written)))'
    BY <2>2, <2>4, Zenon
  <2>6. ArrayOk(Array)'
    BY <2>2, Zenon
  <2>7. (\A i \in read : received[i] = SolsRead(i))'
    BY <2>1, <2>3, Zenon
  <2> QED
    BY <2>1, <2>5, <2>6, <2>7
<1>2. ASSUME NEW i \in Solvers, SyncWrite(i) PROVE SolInv'
  <2> USE <1>2 DEF SyncWrite
  <2> DEFINE d == SolsWritten(Array, i)
  <2>1. UNCHANGED <<mysols, received, read>> /\ written' = written \cup {i} /\ i \notin written
    OBVIOUS
  <2>2. nsols' = d.nsols /\ entry' = d.entry /\ sols' = d.sols /\ values' = d.values
    BY Zenon DEF Array
  <2>3. ArrayOk(d) /\ \E g : Shows(d, g, Offered(written) \cup Offers(i))
    <3>1. Offered(written) \in SUBSET Triples /\ \A a \in Offered(written) : a[2] # i
      BY OfferedFinite
    <3> QED
      BY <3>1, SolsWrittenOk
  <2> HIDE DEF d
  <2>4. Array' = d
    BY <2>2, <2>3 DEF Array, ArrayOk
  <2>5. Offered(written)' = Offered(written) \cup Offers(i)
    <3>1. \A j : UNCHANGED Offers(j)
      BY <2>1, Zenon DEF Offers
    <3>2. Offered(written)' = UNION {Offers(j) : j \in written \cup {i}}
      BY <2>1, <3>1, Zenon DEF Offered
    <3> QED
      BY <3>2 DEF Offered
  <2>6. read = {}
    BY <2>1
  <2>7. ArrayOk(Array)' /\ (\E g : Shows(Array, g, Offered(written)))'
    BY <2>3, <2>4, <2>5, Zenon
  <2> HIDE DEF SyncWrite
  <2> QED
    BY <2>1, <2>6, <2>7
<1>3. ASSUME NEW i \in Solvers, SyncRead(i) PROVE SolInv'
  <2>1. /\ UNCHANGED <<nsols, entry, sols, values, mysols, written>>
        /\ written = Solvers /\ i \notin read /\ read' = read \cup {i}
        /\ received' = [received EXCEPT ![i] = SolsRead(i)]
    BY <1>3 DEF SyncRead, solutions
  <2>2. UNCHANGED Array
    BY <2>1 DEF Array
  <2>3. \A j : UNCHANGED <<Offers(j), SolsRead(j)>>
    BY <2>1, Zenon DEF Offers, SolsRead
  <2>4. UNCHANGED Offered(written)
    BY <2>1, <2>3, Zenon DEF Offered
  <2>5. ArrayOk(Array)' /\ (\E g : Shows(Array, g, Offered(written)))'
    BY <2>2, <2>4, Zenon
  <2>6. \A j \in read' : received'[j] = SolsRead(j)
    BY <2>1
  <2>7. (\A j \in read : received[j] = SolsRead(j))'
    BY <2>3, <2>6, Zenon
  <2> QED
    BY <2>1, <2>5, <2>7
<1>4. ASSUME Reset PROVE SolInv'
  <2>1. /\ nsols' = 0 /\ UNCHANGED <<entry, sols, values>> /\ mysols' \in [Solvers -> SolLists]
        /\ received' = [i \in Solvers |-> {}] /\ written' = {} /\ read' = {}
    BY <1>4 DEF Reset
  <2>2. ArrayOk(Array)'
    BY <2>1, SolversAssumption DEF Array, ArrayOk
  <2>3. Offered(written)' = {}
    BY <2>1 DEF Offered
  <2>4. \E g : Shows(Array', g, {})
    <3>1. Array'.nsols = 0
      BY <2>1 DEF Array
    <3> QED
      BY <3>1, EmptyShows
  <2>5. (\E g : Shows(Array, g, Offered(written)))'
    BY <2>3, <2>4, Zenon
  <2> QED
    BY <2>1, <2>2, <2>5
<1>5. ASSUME NEW i \in Solvers, NEW chgs \in BoundLists, FindBounds(i, chgs) PROVE SolInv'
  BY <1>1, <1>5 DEF FindBounds
<1>6. CASE UNCHANGED vars
  <2>1. UNCHANGED <<solutions, mysols, received, written, read>>
    BY <1>6, Zenon DEF vars, local
  <2> QED
    BY <1>1, <2>1
<1> QED
  BY <1>2, <1>3, <1>4, <1>5, <1>6 DEF Next

THEOREM SlotSolutions == Spec => []SolInv
BY SolInitOk, SolStep, PTL DEF Spec

\* No two positions share a buffer, and each buffer in use holds the solution
\* its position describes.
THEOREM SolutionBuffersMatch == Spec => []BuffersMatch
<1>1. SolInv => BuffersMatch
  BY DEF SolInv, ArrayOk, Array, BuffersMatch
<1> QED
  BY <1>1, SlotSolutions, PTL

\* The array holds the best of all solutions offered, whatever the order in
\* which the solvers wrote.
THEOREM SlotKeepsBest == Spec => []SolutionsAreBest
<1>1. SolInv => SolutionsAreBest
  <2> SUFFICES ASSUME SolInv PROVE SolutionsAreBest
    OBVIOUS
  <2> DEFINE all == Offered(written)
  <2>1. IsFiniteSet(all) /\ all \in SUBSET Triples
    BY OfferedFinite DEF SolInv
  <2>2. PICK g : Shows(Array, g, all)
    BY DEF SolInv
  <2>3. Array.nsols = nsols /\ Array.entry = entry
    BY DEF Array
  <2>4. ArrayOk(Array)
    BY DEF SolInv
  <2> HIDE DEF all
  <2>5. /\ nsols = Least(MaxNSols, Cardinality(all))
        /\ \A p \in 0..(nsols - 1) : Rank(g[p], all) = Dropped(all) + p
        /\ \A a \in all : Rank(a, all) >= Dropped(all) => \E p \in 0..(nsols - 1) : g[p] = a
    BY <2>1, <2>2, <2>3, <2>4, ShownAreBest
  <2>6. nsols \in Nat /\ Dropped(all) \in Int
    <3>1. Cardinality(all) \in Nat
      BY <2>1, FS_CardinalityType
    <3> QED
      BY <2>5, <3>1, SolversAssumption DEF Dropped, Least
  <2>7. ASSUME NEW a \in all, Rank(a, all) >= Dropped(all)
        PROVE  /\ entry[Rank(a, all) - Dropped(all)].obj = a[1]
               /\ entry[Rank(a, all) - Dropped(all)].source = a[2]
    <3>1. PICK p \in 0..(nsols - 1) : g[p] = a
      BY <2>5, <2>7
    <3>2. Rank(a, all) - Dropped(all) = p
      BY <2>5, <2>6, <3>1
    <3>3. entry[p] = [obj |-> a[1], source |-> a[2]]
      BY <2>2, <2>3, <3>1 DEF Shows
    <3> QED
      BY <3>2, <3>3
  <2> QED
    BY <2>5, <2>7, Zenon DEF SolutionsAreBest, Rank, Dropped, Offered, all
<1> QED
  BY <1>1, SlotSolutions, PTL

\* A solver that has read was given the best solutions of the others.
THEOREM ReadersGetBestOfOthers == Spec => []OthersReceived
<1>1. SolInv => OthersReceived
  <2> SUFFICES ASSUME SolInv, NEW i \in read
               PROVE  LET all  == Offered(Solvers)
                          best == {a \in all : Rank(a, all) >= Dropped(all)}
                      IN received[i] = {[obj |-> a[1], source |-> a[2]] : a \in {b \in best : b[2] # i}}
    BY Zenon DEF OthersReceived, Rank, Dropped, Offered
  <2> DEFINE all  == Offered(Solvers)
             best == {a \in all : Rank(a, all) >= Dropped(all)}
  <2>1. IsFiniteSet(all) /\ all \in SUBSET Triples
    BY OfferedFinite
  <2>2. written = Solvers /\ received[i] = SolsRead(i) /\ ArrayOk(Array)
    BY DEF SolInv
  <2>3. PICK g : Shows(Array, g, all)
    BY <2>2 DEF SolInv
  <2>4. Array.nsols = nsols /\ Array.entry = entry /\ Array.values = values /\ Array.sols = sols
    BY DEF Array
  <2> HIDE DEF all
  <2>5. /\ nsols = Least(MaxNSols, Cardinality(all))
        /\ \A p \in 0..(nsols - 1) : Rank(g[p], all) = Dropped(all) + p
        /\ \A a \in all : Rank(a, all) >= Dropped(all) => \E p \in 0..(nsols - 1) : g[p] = a
    BY <2>1, <2>2, <2>3, <2>4, ShownAreBest
  <2>6. Dropped(all) \in Int
    <3>1. Cardinality(all) \in Nat
      BY <2>1, FS_CardinalityType
    <3> QED
      BY <3>1, SolversAssumption DEF Dropped, Least
  <2>7. \A p \in 0..(nsols - 1) : g[p] \in best
    <3>1. ASSUME NEW p \in 0..(nsols - 1) PROVE g[p] \in all /\ Rank(g[p], all) >= Dropped(all)
      BY <2>3, <2>4, <2>5, <2>6 DEF Shows
    <3> QED
      BY <3>1
  <2>8. \A a \in best : \E p \in 0..(nsols - 1) : g[p] = a
    BY <2>5
  <2>9. \A p \in 0..(nsols - 1) : /\ values[sols[p]] = [obj |-> g[p][1], source |-> g[p][2]]
                                  /\ entry[p].source = g[p][2]
    <3>1. \A p \in 0..(nsols - 1) : /\ values[sols[p]] = entry[p]
                                    /\ entry[p] = [obj |-> g[p][1], source |-> g[p][2]]
      BY <2>2, <2>3, <2>4 DEF ArrayOk, Shows
    <3> QED
      BY <3>1
  <2> HIDE DEF best
  <2>10. SolsRead(i) = {[obj |-> a[1], source |-> a[2]] : a \in {b \in best : b[2] # i}}
    <3> DEFINE others == {b \in best : b[2] # i}
               at     == {q \in 0..(nsols-1) : entry[q].source # i}
               Z      == {[obj |-> a[1], source |-> a[2]] : a \in others}
    <3>1. \A p \in at : values[sols[p]] \in Z
      BY <2>7, <2>9
    <3>2. ASSUME NEW z \in Z PROVE \E p \in at : values[sols[p]] = z
      <4>1. PICK a \in others : z = [obj |-> a[1], source |-> a[2]]
        OBVIOUS
      <4>2. PICK p \in 0..(nsols - 1) : g[p] = a
        BY <2>8
      <4>3. p \in at /\ values[sols[p]] = z
        BY <2>9, <4>1, <4>2
      <4> QED
        BY <4>3, Zenon
    <3> HIDE DEF others, at, Z
    <3>3. {values[sols[p]] : p \in at} = Z
      BY <3>1, <3>2
    <3> QED
      BY <3>3, Zenon DEF SolsRead, others, at, Z
  <2> QED
    BY <2>2, <2>10 DEF best, all
<1> QED
  BY <1>1, SlotSolutions, PTL

-----------------------------------------------------------------------------
(* The store of bound changes.                                             *)

Sides == Vars \X BoundTypes
Changes(O, v, t) == {c \in O : c.varidx = v /\ c.boundtype = t}

\* The tightest bound of the changes O for a variable and side is b.
Tightest(b, O, v, t) ==
    /\ \E c \in Changes(O, v, t) : c.newbound = b
    /\ \A c \in Changes(O, v, t) : ~Tighter(t, c.newbound, b)

\* The first n changes of bc, at which bp points, are the tightest of the
\* changes O, one of each variable and side.
HoldsTightest(bc, n, bp, O) ==
    /\ n \in 0..Cardinality(Sides)
    /\ bc \in [Lengths -> BoundChanges]
    /\ bp \in [Vars -> [BoundTypes -> 0..n]]
    /\ \A k \in 0..(n - 1) : bp[bc[k].varidx][bc[k].boundtype] = k + 1
    /\ \A v \in Vars, t \in BoundTypes :
          IF bp[v][t] = 0 THEN Changes(O, v, t) = {}
          ELSE /\ bc[bp[v][t] - 1].varidx = v
               /\ bc[bp[v][t] - 1].boundtype = t
               /\ Tightest(bc[bp[v][t] - 1].newbound, O, v, t)

StoreOk(s, O) ==
    /\ s = [bndchg |-> s.bndchg, nbndchg |-> s.nbndchg, bndpos |-> s.bndpos]
    /\ HoldsTightest(s.bndchg, s.nbndchg, s.bndpos, O)

LEMMA SidesFinite == IsFiniteSet(Sides) /\ Cardinality(Sides) \in Nat
<1>1. IsFiniteSet(Vars) /\ IsFiniteSet(BoundTypes)
  <2>1. BoundTypes = {LOWER} \cup {UPPER}
    BY DEF BoundTypes
  <2> QED
    BY <2>1, BoundListsAssumption, FS_Singleton, FS_Union, Zenon
<1>2. IsFiniteSet(Vars \X BoundTypes)
  BY <1>1, FS_Product
<1> QED
  BY <1>2, FS_CardinalityType DEF Sides

\* There is room for a change of a variable and side that is not stored.
LEMMA RoomForBound ==
    ASSUME NEW s, NEW O, StoreOk(s, O), NEW v \in Vars, NEW t \in BoundTypes, s.bndpos[v][t] = 0
    PROVE  s.nbndchg < Cardinality(Sides)
<1> DEFINE n == s.nbndchg
           S == 0..(n - 1)
           T == Sides \ {<<v, t>>}
           f == [k \in S |-> <<s.bndchg[k].varidx, s.bndchg[k].boundtype>>]
<1>1. n \in Nat /\ n <= Cardinality(Sides) /\ IsFiniteSet(Sides) /\ Cardinality(Sides) \in Nat
  BY SidesFinite DEF StoreOk, HoldsTightest
<1>2. \A k \in S : k \in Lengths
  BY <1>1 DEF Lengths, Sides
<1>3. \A k \in S : /\ s.bndchg[k].varidx \in Vars /\ s.bndchg[k].boundtype \in BoundTypes
                   /\ s.bndpos[s.bndchg[k].varidx][s.bndchg[k].boundtype] = k + 1
  BY <1>2 DEF StoreOk, HoldsTightest, BoundChanges
<1>4. f \in [S -> T]
  <2>1. \A k \in S : k + 1 # 0
    BY <1>1
  <2>2. \A k \in S : <<s.bndchg[k].varidx, s.bndchg[k].boundtype>> \in T
    BY <1>3, <2>1 DEF Sides
  <2> QED
    BY <2>2
<1>5. \A j, k \in S : f[j] = f[k] => j = k
  <2> SUFFICES ASSUME NEW j \in S, NEW k \in S, f[j] = f[k] PROVE j = k
    OBVIOUS
  <2>1. s.bndchg[j].varidx = s.bndchg[k].varidx /\ s.bndchg[j].boundtype = s.bndchg[k].boundtype
    OBVIOUS
  <2>2. j + 1 = k + 1
    BY <1>3, <2>1
  <2> QED
    BY <2>2, <1>1
<1>6. f \in Injection(S, T)
  BY <1>4, <1>5, ZenonT(60) DEF Injection, IsInjective
<1>7. IsFiniteSet(T) /\ Cardinality(T) = Cardinality(Sides) - 1
  <2>1. <<v, t>> \in Sides
    BY DEF Sides
  <2>2. /\ IsFiniteSet(T)
        /\ Cardinality(T) = IF <<v, t>> \in Sides THEN Cardinality(Sides) - 1 ELSE Cardinality(Sides)
    BY <1>1, FS_RemoveElement, Zenon
  <2> QED
    BY <2>1, <2>2, Zenon
<1>8. Cardinality(S) <= Cardinality(T)
  BY <1>6, <1>7, FS_Injection, Zenon
<1>9. Cardinality(S) = n
  <2>1. 0 \in Int /\ n - 1 \in Int
    BY <1>1
  <2>2. Cardinality(0..(n - 1)) = IF 0 > n - 1 THEN 0 ELSE n - 1 - 0 + 1
    BY <2>1, FS_Interval, Zenon
  <2> QED
    BY <2>2, <1>1
<1> QED
  BY <1>1, <1>7, <1>8, <1>9

Overwritten(bc, k, b) == [bc EXCEPT ![k].newbound = b]

LEMMA BoundOverwritten ==
    ASSUME NEW bc \in [Lengths -> BoundChanges], NEW k \in Lengths, NEW c \in BoundChanges,
           bc[k].varidx = c.varidx, bc[k].boundtype = c.boundtype
    PROVE  Overwritten(bc, k, c.newbound) = [bc EXCEPT ![k] = c]
<1>1. PICK r \in BoundChanges : r = bc[k]
  OBVIOUS
<1>2. [r EXCEPT !.newbound = c.newbound] = c
  BY <1>1 DEF BoundChanges
<1> QED
  BY <1>1, <1>2 DEF Overwritten

LEMMA TighterThanAll ==
    ASSUME NEW t, NEW a \in Int, NEW b \in Int, NEW c \in Int,
           ~Tighter(t, a, b), Tighter(t, c, b)
    PROVE  ~Tighter(t, a, c)
BY DEF Tighter

LEMMA BoundAddedOk ==
    ASSUME NEW s, NEW O \in SUBSET BoundChanges, StoreOk(s, O), NEW chg \in BoundChanges
    PROVE  StoreOk(BoundAdded(s, chg), O \cup {chg})
<1> DEFINE n   == s.nbndchg
           v   == chg.varidx
           t   == chg.boundtype
           pos == s.bndpos[v][t]
           s1  == BoundAdded(s, chg)
           P   == O \cup {chg}
<1>1. v \in Vars /\ t \in BoundTypes /\ chg.newbound \in Int
      /\ chg = [varidx |-> v, boundtype |-> t, newbound |-> chg.newbound]
  BY DEF BoundChanges
<1>2. /\ n \in Nat /\ n <= Cardinality(Sides) /\ Cardinality(Sides) \in Nat
      /\ s.bndchg \in [Lengths -> BoundChanges]
      /\ s.bndpos \in [Vars -> [BoundTypes -> 0..n]] /\ pos \in 0..n
      /\ s = [bndchg |-> s.bndchg, nbndchg |-> n, bndpos |-> s.bndpos]
      /\ Lengths = 0..(Cardinality(Sides) - 1)
  <2>1. Lengths = 0..(Cardinality(Sides) - 1)
    BY DEF Lengths, Sides
  <2>2. n \in 0..Cardinality(Sides) /\ Cardinality(Sides) \in Nat
    BY SidesFinite DEF StoreOk, HoldsTightest
  <2>3. /\ s.bndchg \in [Lengths -> BoundChanges] /\ s.bndpos \in [Vars -> [BoundTypes -> 0..n]]
        /\ s = [bndchg |-> s.bndchg, nbndchg |-> n, bndpos |-> s.bndpos]
    BY DEF StoreOk, HoldsTightest
  <2>4. pos \in 0..n
    BY <1>1, <2>3
  <2> QED
    BY <2>1, <2>2, <2>3, <2>4
<1>3. /\ \A k \in 0..(n - 1) : s.bndpos[s.bndchg[k].varidx][s.bndchg[k].boundtype] = k + 1
      /\ \A v1 \in Vars, t1 \in BoundTypes :
          IF s.bndpos[v1][t1] = 0 THEN Changes(O, v1, t1) = {}
          ELSE /\ s.bndchg[s.bndpos[v1][t1] - 1].varidx = v1
               /\ s.bndchg[s.bndpos[v1][t1] - 1].boundtype = t1
               /\ Tightest(s.bndchg[s.bndpos[v1][t1] - 1].newbound, O, v1, t1)
  BY DEF StoreOk, HoldsTightest
<1>4. \A v1, t1 : Changes(P, v1, t1) = IF v1 = v /\ t1 = t THEN Changes(O, v, t) \cup {chg}
                                       ELSE Changes(O, v1, t1)
  BY DEF Changes
<1>5. \A b, v1, t1 : ~(v1 = v /\ t1 = t) => (Tightest(b, P, v1, t1) <=> Tightest(b, O, v1, t1))
  BY <1>4, Zenon DEF Tightest
<1>6. \A k \in 0..(n - 1) : k \in Lengths
  BY <1>2
<1>7. \A c \in Changes(O, v, t) : c.newbound \in Int
  BY DEF Changes, BoundChanges
<1> HIDE DEF P
<1>8. ASSUME pos = 0 PROVE StoreOk(s1, P)
  <2> DEFINE bc == [s.bndchg EXCEPT ![n] = chg]
             bp == [s.bndpos EXCEPT ![v][t] = n + 1]
  <2>1. s1 = [bndchg |-> bc, nbndchg |-> n + 1, bndpos |-> bp]
    BY <1>8, Zenon DEF BoundAdded
  <2>2. n < Cardinality(Sides) /\ n \in Lengths
    BY <1>1, <1>2, <1>8, RoomForBound
  <2>3. bc \in [Lengths -> BoundChanges] /\ bc[n] = chg /\ \A k \in 0..(n - 1) : bc[k] = s.bndchg[k]
    BY <1>2, <1>6, <2>2
  <2>4. /\ bp \in [Vars -> [BoundTypes -> 0..(n + 1)]] /\ bp[v][t] = n + 1
        /\ \A v1 \in Vars, t1 \in BoundTypes : ~(v1 = v /\ t1 = t) => bp[v1][t1] = s.bndpos[v1][t1]
    BY <1>1, <1>2
  <2> HIDE DEF bc, bp
  <2>5. ASSUME NEW k \in 0..(n + 1 - 1) PROVE bp[bc[k].varidx][bc[k].boundtype] = k + 1
    <3>1. CASE k = n
      BY <3>1, <2>3, <2>4
    <3>2. CASE k # n
      <4>1. k \in 0..(n - 1) /\ k + 1 # 0
        BY <3>2, <1>2
      <4>2. bc[k] = s.bndchg[k] /\ bc[k].varidx \in Vars /\ bc[k].boundtype \in BoundTypes
        BY <4>1, <1>2, <1>6, <2>3 DEF BoundChanges
      <4>3. s.bndpos[bc[k].varidx][bc[k].boundtype] = k + 1
        BY <4>1, <4>2, <1>3
      <4>4. ~(bc[k].varidx = v /\ bc[k].boundtype = t)
        BY <4>1, <4>3, <1>8
      <4> QED
        BY <4>2, <4>3, <4>4, <2>4
    <3> QED
      BY <3>1, <3>2
  <2>6. ASSUME NEW v1 \in Vars, NEW t1 \in BoundTypes
        PROVE  IF bp[v1][t1] = 0 THEN Changes(P, v1, t1) = {}
               ELSE /\ bc[bp[v1][t1] - 1].varidx = v1
                    /\ bc[bp[v1][t1] - 1].boundtype = t1
                    /\ Tightest(bc[bp[v1][t1] - 1].newbound, P, v1, t1)
    <3>1. CASE v1 = v /\ t1 = t
      <4>1. bp[v1][t1] = n + 1 /\ n + 1 # 0 /\ n + 1 - 1 = n /\ bc[n] = chg
        BY <3>1, <2>3, <2>4, <1>2
      <4>2. Changes(O, v, t) = {}
        BY <1>1, <1>3, <1>8
      <4>3. Changes(P, v, t) = {chg}
        BY <1>4, <4>2
      <4>4. Tightest(chg.newbound, P, v, t)
        BY <4>3, <1>1 DEF Tightest, Tighter
      <4>5. bp[v1][t1] # 0 /\ bc[bp[v1][t1] - 1] = chg
        BY <4>1, <1>2
      <4> QED
        BY <3>1, <4>4, <4>5, Zenon
    <3>2. CASE ~(v1 = v /\ t1 = t)
      <4>1. bp[v1][t1] = s.bndpos[v1][t1] /\ s.bndpos[v1][t1] \in 0..n
        BY <3>2, <2>4, <1>2
      <4>2. CASE bp[v1][t1] = 0
        <5>1. Changes(O, v1, t1) = {}
          BY <4>1, <4>2, <1>3
        <5> QED
          BY <4>2, <5>1, <1>4, <3>2, Zenon
      <4>3. CASE bp[v1][t1] # 0
        <5>1. bp[v1][t1] - 1 \in 0..(n - 1)
          BY <4>1, <4>3, <1>2
        <5>2. bc[bp[v1][t1] - 1] = s.bndchg[s.bndpos[v1][t1] - 1]
          BY <5>1, <4>1, <2>3
        <5>3. /\ s.bndchg[s.bndpos[v1][t1] - 1].varidx = v1
              /\ s.bndchg[s.bndpos[v1][t1] - 1].boundtype = t1
              /\ Tightest(s.bndchg[s.bndpos[v1][t1] - 1].newbound, O, v1, t1)
          BY <4>1, <4>3, <1>3
        <5>4. Tightest(bc[bp[v1][t1] - 1].newbound, P, v1, t1)
          BY <5>2, <5>3, <3>2, <1>5, Zenon
        <5> QED
          BY <4>3, <5>2, <5>3, <5>4, Zenon
      <4> QED
        BY <4>2, <4>3
    <3> QED
      BY <3>1, <3>2
  <2>7. n + 1 \in 0..Cardinality(Sides)
    BY <1>2, <2>2
  <2>8. HoldsTightest(bc, n + 1, bp, P)
    <3> DEFINE m == n + 1
    <3>1. m \in 0..Cardinality(Sides)
      BY <2>7, Zenon
    <3>2. bp \in [Vars -> [BoundTypes -> 0..m]]
      BY <2>4, Zenon
    <3>3. \A k \in 0..(m - 1) : bp[bc[k].varidx][bc[k].boundtype] = k + 1
      <4>1. \A k \in 0..(m - 1) : k \in 0..(n + 1 - 1)
        BY <1>2
      <4> HIDE DEF m
      <4> QED
        BY <2>5, <4>1, Zenon
    <3> HIDE DEF m
    <3>4. HoldsTightest(bc, m, bp, P)
      BY <2>3, <2>6, <3>1, <3>2, <3>3, Zenon DEF HoldsTightest
    <3> QED
      BY <3>4 DEF m
  <2>9. StoreOk([bndchg |-> bc, nbndchg |-> n + 1, bndpos |-> bp], P)
    BY <2>8 DEF StoreOk
  <2> HIDE DEF s1
  <2> QED
    BY <2>1, <2>9, Zenon
<1>9. ASSUME pos # 0
      PROVE  /\ pos - 1 \in 0..(n - 1) /\ pos - 1 \in Lengths
             /\ s.bndchg[pos - 1].varidx = v /\ s.bndchg[pos - 1].boundtype = t
             /\ s.bndchg[pos - 1].newbound \in Int
             /\ Tightest(s.bndchg[pos - 1].newbound, O, v, t)
  <2>1. pos - 1 \in 0..(n - 1) /\ pos - 1 \in Lengths
    BY <1>2, <1>9
  <2>2. s.bndchg[pos - 1] \in BoundChanges
    BY <1>2, <2>1
  <2>3. /\ s.bndchg[pos - 1].varidx = v /\ s.bndchg[pos - 1].boundtype = t
        /\ Tightest(s.bndchg[pos - 1].newbound, O, v, t)
    BY <1>1, <1>3, <1>9
  <2> QED
    BY <2>1, <2>2, <2>3 DEF BoundChanges
<1>10. ASSUME pos # 0, Tighter(t, chg.newbound, s.bndchg[pos - 1].newbound)
       PROVE  StoreOk(s1, P)
  <2> DEFINE bc == [s.bndchg EXCEPT ![pos - 1] = chg]
  <2>1. s1 = [bndchg |-> bc, nbndchg |-> n, bndpos |-> s.bndpos]
    <3>2. s1 = [s EXCEPT !.bndchg[pos - 1].newbound = chg.newbound]
      BY <1>10, Zenon DEF BoundAdded
    <3>3. Overwritten(s.bndchg, pos - 1, chg.newbound) = bc
      <4>1. /\ pos - 1 \in Lengths
            /\ s.bndchg[pos - 1].varidx = v /\ s.bndchg[pos - 1].boundtype = t
        <5>1. pos - 1 \in Lengths
          BY <1>9, <1>10, Zenon
        <5>2. s.bndchg[pos - 1].varidx = v /\ s.bndchg[pos - 1].boundtype = t
          BY <1>9, <1>10, Zenon
        <5> QED
          BY <5>1, <5>2
      <4>2. s.bndchg \in [Lengths -> BoundChanges]
        BY <1>2
      <4> HIDE DEF pos
      <4> QED
        BY <4>1, <4>2, BoundOverwritten
    <3>4. s1 = [s EXCEPT !.bndchg = Overwritten(s.bndchg, pos - 1, chg.newbound)]
      BY <3>2 DEF Overwritten
    <3>5. s1 = [s EXCEPT !.bndchg = bc]
      BY <3>3, <3>4
    <3> HIDE DEF bc, s1
    <3> QED
      BY <3>5, <1>2
  <2>2. /\ bc \in [Lengths -> BoundChanges] /\ bc[pos - 1] = chg
        /\ \A k \in Lengths : bc[k].varidx = s.bndchg[k].varidx /\ bc[k].boundtype = s.bndchg[k].boundtype
        /\ \A k \in Lengths : k # pos - 1 => bc[k] = s.bndchg[k]
    <3>1. s.bndchg[pos - 1].varidx = v /\ s.bndchg[pos - 1].boundtype = t
      BY <1>1, <1>3, <1>10
    <3> QED
      BY <3>1, <1>2, <1>9, <1>10
  <2> HIDE DEF bc
  <2>3. \A k \in 0..(n - 1) : s.bndpos[bc[k].varidx][bc[k].boundtype] = k + 1
    BY <1>3, <1>6, <2>2
  <2>4. ASSUME NEW v1 \in Vars, NEW t1 \in BoundTypes
        PROVE  IF s.bndpos[v1][t1] = 0 THEN Changes(P, v1, t1) = {}
               ELSE /\ bc[s.bndpos[v1][t1] - 1].varidx = v1
                    /\ bc[s.bndpos[v1][t1] - 1].boundtype = t1
                    /\ Tightest(bc[s.bndpos[v1][t1] - 1].newbound, P, v1, t1)
    <3>1. CASE v1 = v /\ t1 = t
      <4>1. Tightest(s.bndchg[pos - 1].newbound, O, v, t) /\ s.bndchg[pos - 1].newbound \in Int
        BY <1>9, <1>10
      <4>2. ASSUME NEW c \in Changes(O, v, t) PROVE ~Tighter(t, c.newbound, chg.newbound)
        <5>1. ~Tighter(t, c.newbound, s.bndchg[pos - 1].newbound)
          BY <4>1, Zenon DEF Tightest
        <5>2. c.newbound \in Int /\ chg.newbound \in Int
          BY <1>1, <1>7
        <5> QED
          BY <4>1, <5>1, <5>2, <1>10, TighterThanAll, Zenon
      <4>3. ~Tighter(t, chg.newbound, chg.newbound)
        BY <1>1 DEF Tighter
      <4>4. Changes(P, v, t) = Changes(O, v, t) \cup {chg}
        BY <1>4
      <4>5. Tightest(chg.newbound, P, v, t)
        BY <4>2, <4>3, <4>4, Zenon DEF Tightest
      <4> QED
        BY <3>1, <4>5, <2>2, <1>10
    <3>2. CASE ~(v1 = v /\ t1 = t)
      <4>1. CASE s.bndpos[v1][t1] = 0
        BY <4>1, <1>3, <1>4, <3>2
      <4>2. CASE s.bndpos[v1][t1] # 0
        <5>1. /\ s.bndchg[s.bndpos[v1][t1] - 1].varidx = v1
              /\ s.bndchg[s.bndpos[v1][t1] - 1].boundtype = t1
              /\ Tightest(s.bndchg[s.bndpos[v1][t1] - 1].newbound, O, v1, t1)
          BY <4>2, <1>3
        <5>2. s.bndpos[v1][t1] - 1 \in Lengths
          <6>1. s.bndpos[v1][t1] \in 0..n
            BY <1>2
          <6> QED
            BY <6>1, <4>2, <1>2
        <5>3. s.bndpos[v1][t1] - 1 # pos - 1
          <6>1. s.bndchg[pos - 1].varidx = v /\ s.bndchg[pos - 1].boundtype = t
            BY <1>1, <1>3, <1>10
          <6> QED
            BY <5>1, <6>1, <3>2, Zenon
        <5>4. bc[s.bndpos[v1][t1] - 1] = s.bndchg[s.bndpos[v1][t1] - 1]
          BY <5>2, <5>3, <2>2
        <5>5. Tightest(bc[s.bndpos[v1][t1] - 1].newbound, P, v1, t1)
          BY <5>1, <5>4, <3>2, <1>5, Zenon
        <5> QED
          BY <4>2, <5>1, <5>4, <5>5
      <4> QED
        BY <4>1, <4>2
    <3> QED
      BY <3>1, <3>2
  <2>5. n \in 0..Cardinality(Sides)
    BY <1>2
  <2>6. HoldsTightest(bc, n, s.bndpos, P)
    BY <1>2, <2>2, <2>3, <2>4, <2>5, Zenon DEF HoldsTightest
  <2>7. StoreOk([bndchg |-> bc, nbndchg |-> n, bndpos |-> s.bndpos], P)
    BY <2>6 DEF StoreOk
  <2> HIDE DEF s1
  <2> QED
    BY <2>1, <2>7, Zenon
<1>11. ASSUME pos # 0, ~Tighter(t, chg.newbound, s.bndchg[pos - 1].newbound)
       PROVE  StoreOk(s1, P)
  <2>1. s1 = s
    BY <1>11, Zenon DEF BoundAdded
  <2>2. ASSUME NEW v1 \in Vars, NEW t1 \in BoundTypes
        PROVE  IF s.bndpos[v1][t1] = 0 THEN Changes(P, v1, t1) = {}
               ELSE /\ s.bndchg[s.bndpos[v1][t1] - 1].varidx = v1
                    /\ s.bndchg[s.bndpos[v1][t1] - 1].boundtype = t1
                    /\ Tightest(s.bndchg[s.bndpos[v1][t1] - 1].newbound, P, v1, t1)
    <3>1. CASE v1 = v /\ t1 = t
      <4>1. Changes(P, v, t) = Changes(O, v, t) \cup {chg}
        BY <1>4
      <4>2. Tightest(s.bndchg[pos - 1].newbound, O, v, t)
        BY <1>9, <1>11
      <4>3. Tightest(s.bndchg[pos - 1].newbound, P, v, t)
        BY <4>1, <4>2, <1>11, Zenon DEF Tightest
      <4> QED
        BY <3>1, <4>3, <1>3, <1>11
    <3>2. CASE ~(v1 = v /\ t1 = t)
      BY <3>2, <1>3, <1>4, <1>5
    <3> QED
      BY <3>1, <3>2
  <2> HIDE DEF s1
  <2> QED
    <3>1. HoldsTightest(s.bndchg, n, s.bndpos, O)
      BY Zenon DEF StoreOk
    <3>2. HoldsTightest(s.bndchg, n, s.bndpos, P)
      BY <3>1, <2>2, Zenon DEF HoldsTightest
    <3> QED
      BY <2>1, <3>2, Zenon DEF StoreOk
<1> HIDE DEF s1, pos
<1>12. StoreOk(s1, P)
  BY <1>8, <1>10, <1>11, Zenon
<1> QED
  BY <1>12 DEF s1, P

-----------------------------------------------------------------------------
(* The loops over bound changes.                                           *)

IsMerging(f, s, chgs, n) ==
    f = [k \in 0..n |-> IF k = 0 THEN s ELSE BoundAdded(f[k - 1], chgs[k])]

LEMMA MergingExists ==
    ASSUME NEW s, NEW chgs, NEW n \in Nat
    PROVE  \E f : IsMerging(f, s, chgs, n)
<1> DEFINE bad == {m \in Nat : ~\E f : IsMerging(f, s, chgs, m)}
<1> SUFFICES ASSUME bad # {} PROVE FALSE
  OBVIOUS
<1>1. PICK m \in bad : \A k \in bad : m <= k
  BY LeastNat
<1>2. m # 0
  <2>1. IsMerging([k \in 0..0 |-> s], s, chgs, 0)
    BY DEF IsMerging
  <2> QED
    BY <2>1
<1>3. PICK g : IsMerging(g, s, chgs, m - 1)
  BY <1>1, <1>2
<1> DEFINE f == [k \in 0..m |-> IF k = 0 THEN s ELSE BoundAdded(g[k - 1], chgs[k])]
<1>4. \A k \in 0..(m - 1) : f[k] = g[k]
  <2>1. g = [k \in 0..(m - 1) |-> IF k = 0 THEN s ELSE BoundAdded(g[k - 1], chgs[k])]
    BY <1>3, Zenon DEF IsMerging
  <2>2. \A k \in 0..(m - 1) : g[k] = IF k = 0 THEN s ELSE BoundAdded(g[k - 1], chgs[k])
    BY <2>1, Zenon
  <2>3. \A k \in 0..(m - 1) : k \in 0..m
    BY <1>1
  <2> QED
    BY <2>2, <2>3, Zenon
<1>5. ASSUME NEW k \in 0..m, k # 0
      PROVE  f[k - 1] = g[k - 1]
  <2>1. k - 1 \in 0..(m - 1)
    BY <1>5
  <2> QED
    BY <1>4, <2>1
<1>6. f = [k \in 0..m |-> IF k = 0 THEN s ELSE BoundAdded(f[k - 1], chgs[k])]
  BY <1>5, Zenon
<1> QED
  BY <1>1, <1>6, Zenon DEF IsMerging

LEMMA MergingIs ==
    ASSUME NEW s, NEW chgs, Len(chgs) \in Nat
    PROVE  /\ MergedUpTo(s, chgs)[0] = s
           /\ \A k \in 1..Len(chgs) :
                MergedUpTo(s, chgs)[k] = BoundAdded(MergedUpTo(s, chgs)[k - 1], chgs[k])
<1>1. IsMerging(MergedUpTo(s, chgs), s, chgs, Len(chgs))
  <2>1. PICK f : IsMerging(f, s, chgs, Len(chgs))
    BY MergingExists
  <2> QED
    BY <2>1, Zenon DEF IsMerging, MergedUpTo
<1> DEFINE f == MergedUpTo(s, chgs)
<1>2. f = [k \in 0..Len(chgs) |-> IF k = 0 THEN s ELSE BoundAdded(f[k - 1], chgs[k])]
  BY <1>1, Zenon DEF IsMerging
<1> HIDE DEF f
<1>3. \A k \in 0..Len(chgs) : f[k] = IF k = 0 THEN s ELSE BoundAdded(f[k - 1], chgs[k])
  BY <1>2, Zenon
<1>4. f[0] = s
  <2>1. 0 \in 0..Len(chgs)
    OBVIOUS
  <2> QED
    BY <1>3, <2>1, Zenon
<1>5. ASSUME NEW k \in 1..Len(chgs)
      PROVE  f[k] = BoundAdded(f[k - 1], chgs[k])
  <2>1. k \in 0..Len(chgs) /\ k # 0
    OBVIOUS
  <2> QED
    BY <1>3, <2>1, Zenon
<1> QED
  BY <1>4, <1>5 DEF f

\* Merging adds every change of a sequence to what a store holds the tightest of.
LEMMA BoundsMergedOk ==
    ASSUME NEW s, NEW O \in SUBSET BoundChanges, StoreOk(s, O), NEW chgs \in Seq(BoundChanges)
    PROVE  StoreOk(BoundsMerged(s, chgs), O \cup {chgs[k] : k \in DOMAIN chgs})
<1> DEFINE n    == Len(chgs)
           w    == MergedUpTo(s, chgs)
           P(k) == O \cup {chgs[j] : j \in 1..k}
           bad  == {k \in 0..n : ~StoreOk(w[k], P(k))}
<1>1. n \in Nat /\ DOMAIN chgs = 1..n /\ \A k \in 1..n : chgs[k] \in BoundChanges
  OBVIOUS
<1>2. w[0] = s /\ \A k \in 1..n : w[k] = BoundAdded(w[k - 1], chgs[k])
  BY <1>1, MergingIs
<1> HIDE DEF w
<1>3. bad = {}
  <2> SUFFICES ASSUME bad # {} PROVE FALSE
    OBVIOUS
  <2>1. bad \subseteq Nat
    OBVIOUS
  <2>2. PICK k \in bad : \A l \in bad : k <= l
    BY <2>1, LeastNat
  <2>3. P(0) = O
    OBVIOUS
  <2>4. k # 0
    BY <1>2, <2>3, Zenon
  <2>5. k \in 1..n /\ k - 1 \in 0..n /\ ~(k <= k - 1)
    BY <1>1, <2>2, <2>4
  <2>6. StoreOk(w[k - 1], P(k - 1))
    BY <2>2, <2>5
  <2>7. P(k - 1) \in SUBSET BoundChanges
    <3>1. \A j \in 1..(k - 1) : j \in 1..n
      BY <2>5
    <3> QED
      BY <3>1, <1>1
  <2>8. P(k) = P(k - 1) \cup {chgs[k]}
    <3>1. 1..k = 1..(k - 1) \cup {k}
      BY <2>5
    <3> QED
      BY <3>1, Zenon
  <2> HIDE DEF P
  <2>9. StoreOk(BoundAdded(w[k - 1], chgs[k]), P(k - 1) \cup {chgs[k]})
    BY <2>5, <2>6, <2>7, <1>1, BoundAddedOk
  <2>10. StoreOk(w[k], P(k))
    BY <2>5, <2>8, <2>9, <1>2, Zenon
  <2> QED
    BY <2>2, <2>10
<1>4. StoreOk(w[n], P(n))
  <2>1. n \in 0..n
    BY <1>1
  <2> HIDE DEF P, n
  <2> QED
    BY <2>1, <1>3
<1> QED
  BY <1>1, <1>4, Zenon DEF BoundsMerged, w

LEMMA EmptyStoreOk ==
    ASSUME NEW bc \in [Lengths -> BoundChanges]
    PROVE  StoreOk([bndchg |-> bc, nbndchg |-> 0, bndpos |-> NoBounds], {})
<1>1. NoBounds \in [Vars -> [BoundTypes -> 0..0]]
      /\ \A v \in Vars, t \in BoundTypes : NoBounds[v][t] = 0
  BY DEF NoBounds
<1>2. 0 \in 0..Cardinality(Sides) /\ 0..(0 - 1) = {}
  BY SidesFinite
<1>3. \A v, t : Changes({}, v, t) = {}
  BY DEF Changes
<1> QED
  BY <1>1, <1>2, <1>3 DEF StoreOk, HoldsTightest

LEMMA EmptyStoreType == EmptyStore.bndchg \in [Lengths -> BoundChanges]
<1> DEFINE v == CHOOSE x \in Vars : TRUE
<1>1. EmptyStore.bndchg = [k \in Lengths |-> Bound(v, LOWER, 0)]
  BY DEF EmptyStore
<1>2. CASE Vars = {}
  <2>1. Vars \X BoundTypes = {}
    BY <1>2
  <2>2. Cardinality(Vars \X BoundTypes) = 0
    BY <2>1, FS_EmptySet, Zenon
  <2>3. Lengths = {}
    BY <2>2 DEF Lengths
  <2> QED
    BY <1>1, <2>3
<1>3. CASE Vars # {}
  <2>1. v \in Vars
    BY <1>3
  <2> HIDE DEF v
  <2>2. Bound(v, LOWER, 0) \in BoundChanges
    BY <2>1 DEF Bound, BoundChanges, BoundTypes
  <2> QED
    BY <1>1, <2>2
<1> QED
  BY <1>2, <1>3

\* What a store holds stands for all changes it was given.
Stored(s) == {s.bndchg[k] : k \in 0..(s.nbndchg - 1)}

LEMMA StoredStands ==
    ASSUME NEW own, NEW F \in SUBSET BoundChanges, StoreOk(own, F),
           NEW O \in SUBSET BoundChanges, NEW s, StoreOk(s, O \cup Stored(own))
    PROVE  StoreOk(s, O \cup F)
<1> DEFINE R == Stored(own)
<1>1. /\ own.nbndchg \in Nat /\ own.nbndchg <= Cardinality(Sides) /\ Cardinality(Sides) \in Nat
      /\ own.bndchg \in [Lengths -> BoundChanges] /\ Lengths = 0..(Cardinality(Sides) - 1)
      /\ own.bndpos \in [Vars -> [BoundTypes -> 0..own.nbndchg]]
  <2>1. Lengths = 0..(Cardinality(Sides) - 1)
    BY DEF Lengths, Sides
  <2> QED
    BY <2>1, SidesFinite DEF StoreOk, HoldsTightest
<1>2. \A k \in 0..(own.nbndchg - 1) : /\ own.bndchg[k] \in BoundChanges /\ own.bndchg[k] \in R
                                      /\ own.bndchg[k].varidx \in Vars /\ own.bndchg[k].boundtype \in BoundTypes
  BY <1>1 DEF BoundChanges, Stored
<1>3. ASSUME NEW v \in Vars, NEW t \in BoundTypes
      PROVE  IF s.bndpos[v][t] = 0 THEN Changes(O \cup F, v, t) = {}
             ELSE /\ s.bndchg[s.bndpos[v][t] - 1].varidx = v
                  /\ s.bndchg[s.bndpos[v][t] - 1].boundtype = t
                  /\ Tightest(s.bndchg[s.bndpos[v][t] - 1].newbound, O \cup F, v, t)
  <2> DEFINE at == own.bndpos[v][t] - 1
             c0 == own.bndchg[at]
  <2>1. IF own.bndpos[v][t] = 0 THEN Changes(F, v, t) = {}
        ELSE /\ c0.varidx = v /\ c0.boundtype = t /\ Tightest(c0.newbound, F, v, t)
    BY DEF StoreOk, HoldsTightest
  <2>2. own.bndpos[v][t] # 0 => at \in 0..(own.nbndchg - 1) /\ c0 \in R /\ c0.newbound \in Int
    <3>1. own.bndpos[v][t] # 0 => at \in 0..(own.nbndchg - 1)
      BY <1>1
    <3> QED
      BY <3>1, <1>2 DEF BoundChanges
  <2>3. own.bndpos[v][t] # 0 => c0 \in Changes(R, v, t)
    BY <2>1, <2>2 DEF Changes
  <2>4. \A c \in Changes(R, v, t) : own.bndpos[v][t] # 0 /\ c = c0
    <3>1. ASSUME NEW c \in Changes(R, v, t) PROVE own.bndpos[v][t] # 0 /\ c = c0
      <4>1. PICK k \in 0..(own.nbndchg - 1) : c = own.bndchg[k]
        BY <3>1 DEF Changes, Stored
      <4>2. own.bndpos[v][t] = k + 1
        <5>1. own.bndpos[own.bndchg[k].varidx][own.bndchg[k].boundtype] = k + 1
          BY DEF StoreOk, HoldsTightest
        <5>2. c.varidx = v /\ c.boundtype = t
          BY <3>1 DEF Changes
        <5> QED
          BY <4>1, <5>1, <5>2, Zenon
      <4>3. at = k /\ k + 1 # 0
        BY <1>1, <4>2
      <4> QED
        BY <4>1, <4>2, <4>3
    <3> QED
      BY <3>1
  <2>5. /\ Changes(O \cup F, v, t) = Changes(O, v, t) \cup Changes(F, v, t)
        /\ Changes(O \cup R, v, t) = Changes(O, v, t) \cup Changes(R, v, t)
    BY DEF Changes
  <2>6. IF s.bndpos[v][t] = 0 THEN Changes(O \cup R, v, t) = {}
        ELSE /\ s.bndchg[s.bndpos[v][t] - 1].varidx = v
             /\ s.bndchg[s.bndpos[v][t] - 1].boundtype = t
             /\ Tightest(s.bndchg[s.bndpos[v][t] - 1].newbound, O \cup R, v, t)
    BY DEF StoreOk, HoldsTightest
  <2> HIDE DEF at, c0, R
  <2>7. CASE s.bndpos[v][t] = 0
    <3>1. Changes(O, v, t) = {} /\ Changes(R, v, t) = {}
      BY <2>5, <2>6, <2>7
    <3>2. own.bndpos[v][t] = 0
      BY <3>1, <2>3
    <3> QED
      BY <2>1, <2>5, <2>7, <3>1, <3>2
  <2>8. CASE s.bndpos[v][t] # 0
    <3> DEFINE b == s.bndchg[s.bndpos[v][t] - 1].newbound
    <3>1. Tightest(b, O \cup R, v, t)
      BY <2>6, <2>8
    <3> HIDE DEF b
    <3>2. PICK c \in Changes(O \cup R, v, t) : c.newbound = b
      BY <3>1 DEF Tightest
    <3>3. \A x \in Changes(O \cup F, v, t) : x.newbound \in Int
      BY DEF Changes, BoundChanges
    <3>4. \E x \in Changes(O \cup F, v, t) : x.newbound = b
      <4>1. CASE c \in Changes(O, v, t)
        BY <4>1, <3>2, <2>5
      <4>2. CASE c \in Changes(R, v, t)
        <5>1. own.bndpos[v][t] # 0 /\ c = c0
          BY <4>2, <2>4
        <5>2. \E x \in Changes(F, v, t) : x.newbound = c0.newbound
          BY <5>1, <2>1 DEF Tightest
        <5> QED
          BY <5>1, <5>2, <3>2, <2>5
      <4> QED
        BY <4>1, <4>2, <3>2, <2>5
    <3>5. b \in Int
      BY <3>3, <3>4
    <3>6. ASSUME NEW x \in Changes(O \cup F, v, t) PROVE ~Tighter(t, x.newbound, b)
      <4>1. CASE x \in Changes(O, v, t)
        BY <4>1, <3>1, <2>5 DEF Tightest
      <4>2. CASE x \in Changes(F, v, t)
        <5>1. own.bndpos[v][t] # 0 /\ ~Tighter(t, x.newbound, c0.newbound)
          BY <4>2, <2>1 DEF Tightest
        <5>2. ~Tighter(t, c0.newbound, b)
          BY <5>1, <2>3, <2>5, <3>1 DEF Tightest
        <5>3. x.newbound \in Int /\ c0.newbound \in Int
          BY <5>1, <3>3, <2>2
        <5> QED
          BY <5>1, <5>2, <5>3, <3>5 DEF Tighter
      <4> QED
        BY <4>1, <4>2, <2>5
    <3>7. Tightest(b, O \cup F, v, t)
      BY <3>4, <3>6, Zenon DEF Tightest
    <3> QED
      BY <2>6, <2>8, <3>7, Zenon DEF b
  <2> QED
    BY <2>7, <2>8
<1> QED
  BY <1>3, Zenon DEF StoreOk, HoldsTightest

\* A solver's own store, merged into the slot's.
LEMMA OwnStoreMerged ==
    ASSUME NEW chgs \in Seq(BoundChanges), NEW O \in SUBSET BoundChanges, NEW s, StoreOk(s, O),
           NEW own, own = BoundsMerged(EmptyStore, chgs)
    PROVE  StoreOk(BoundsMerged(s, [k \in 1..own.nbndchg |-> own.bndchg[k - 1]]),
                   O \cup {chgs[k] : k \in DOMAIN chgs})
<1> DEFINE F  == {chgs[k] : k \in DOMAIN chgs}
           cs == [k \in 1..own.nbndchg |-> own.bndchg[k - 1]]
<1>1. F \in SUBSET BoundChanges
  OBVIOUS
<1>2. StoreOk(own, F)
  <2>1. StoreOk(EmptyStore, {})
    <3>1. EmptyStore = [bndchg |-> EmptyStore.bndchg, nbndchg |-> 0, bndpos |-> NoBounds]
      BY DEF EmptyStore
    <3> QED
      BY <3>1, EmptyStoreType, EmptyStoreOk, Zenon
  <2>2. StoreOk(BoundsMerged(EmptyStore, chgs), {} \cup F)
    BY <2>1, BoundsMergedOk
  <2>3. {} \cup F = F
    OBVIOUS
  <2> QED
    BY <2>2, <2>3, Zenon
<1> HIDE DEF F
<1>3. own.nbndchg \in Nat /\ \A k \in 1..own.nbndchg : own.bndchg[k - 1] \in BoundChanges
  <2>1. Lengths = 0..(Cardinality(Sides) - 1)
    BY DEF Lengths, Sides
  <2>2. /\ own.nbndchg \in 0..Cardinality(Sides) /\ Cardinality(Sides) \in Nat
        /\ own.bndchg \in [Lengths -> BoundChanges]
    BY <1>2, SidesFinite DEF StoreOk, HoldsTightest
  <2>3. \A k \in 1..own.nbndchg : k - 1 \in Lengths
    BY <2>1, <2>2
  <2> QED
    BY <2>2, <2>3
<1>4. cs \in Seq(BoundChanges) /\ DOMAIN cs = 1..own.nbndchg
  BY <1>3
<1>5. {cs[k] : k \in DOMAIN cs} = Stored(own)
  <2>1. \A k \in 1..own.nbndchg : k - 1 \in 0..(own.nbndchg - 1) /\ cs[k] = own.bndchg[k - 1]
    BY <1>3
  <2>2. \A k \in 0..(own.nbndchg - 1) : k + 1 \in 1..own.nbndchg /\ cs[k + 1] = own.bndchg[k]
    BY <1>3
  <2> HIDE DEF cs
  <2> QED
    BY <1>4, <2>1, <2>2, SMTT(60) DEF Stored
<1> HIDE DEF cs
<1>6. StoreOk(BoundsMerged(s, cs), O \cup Stored(own))
  <2>1. StoreOk(BoundsMerged(s, cs), O \cup {cs[k] : k \in DOMAIN cs})
    BY <1>4, BoundsMergedOk
  <2> QED
    BY <1>5, <2>1, Zenon
<1>7. StoreOk(BoundsMerged(s, cs), O \cup F)
  BY <1>1, <1>2, <1>6, StoredStands
<1> QED
  BY <1>7 DEF F, cs

-----------------------------------------------------------------------------
(* The slot's bound changes.                                               *)

Store         == [bndchg |-> bndchg, nbndchg |-> nbndchg, bndpos |-> bndpos]
FoundBy(S)    == UNION {Found(i) : i \in S}

BoundInv ==
    /\ written \subseteq Solvers
    /\ mybounds \in [Solvers -> BoundLists \cup {<<>>}]
    /\ StoreOk(Store, FoundBy(written))

LEMMA FoundType ==
    ASSUME BoundInv, NEW S \in SUBSET Solvers
    PROVE  FoundBy(S) \in SUBSET BoundChanges /\ \A i \in Solvers : mybounds[i] \in Seq(BoundChanges)
<1>1. \A i \in Solvers : mybounds[i] \in Seq(BoundChanges)
  <2>1. <<>> \in Seq(BoundChanges)
    OBVIOUS
  <2> QED
    BY <2>1, BoundListsAssumption DEF BoundInv
<1>2. \A i \in Solvers : Found(i) \subseteq BoundChanges
  <2> TAKE i \in Solvers
  <2>1. mybounds[i] \in Seq(BoundChanges)
    BY <1>1
  <2> QED
    BY <2>1 DEF Found
<1> QED
  BY <1>1, <1>2 DEF FoundBy

LEMMA BoundInitOk == Init => BoundInv
<1> SUFFICES ASSUME Init PROVE BoundInv
  OBVIOUS
<1> USE DEF Init
<1>1. Store = [bndchg |-> EmptyStore.bndchg, nbndchg |-> 0, bndpos |-> NoBounds]
  BY DEF Store
<1>2. StoreOk(Store, {})
  BY <1>1, EmptyStoreType, EmptyStoreOk, Zenon
<1>3. FoundBy(written) = {}
  BY DEF FoundBy
<1> QED
  BY <1>2, <1>3 DEF BoundInv

LEMMA BoundStep == BoundInv /\ [Next]_vars => BoundInv'
<1> SUFFICES ASSUME BoundInv, [Next]_vars PROVE BoundInv'
  OBVIOUS
<1>1. ASSUME UNCHANGED <<bounds, mybounds, written>>
      PROVE  BoundInv'
  <2>1. UNCHANGED <<bndchg, nbndchg, bndpos, mybounds, written>>
    BY <1>1 DEF bounds
  <2>2. UNCHANGED Store
    BY <2>1 DEF Store
  <2>3. UNCHANGED FoundBy(written)
    <3>1. \A i : UNCHANGED Found(i)
      BY <2>1, Zenon DEF Found
    <3> QED
      BY <2>1, <3>1, Zenon DEF FoundBy
  <2>4. StoreOk(Store, FoundBy(written))'
    BY <2>2, <2>3, Zenon DEF BoundInv
  <2> QED
    BY <2>1, <2>4 DEF BoundInv
<1>2. ASSUME NEW i \in Solvers, SyncWrite(i) PROVE BoundInv'
  <2> DEFINE own == OwnStore(i)
             s   == BoundsMerged(Store, [k \in 1..own.nbndchg |-> own.bndchg[k-1]])
  <2>1. UNCHANGED mybounds /\ written' = written \cup {i} /\ i \notin written
        /\ bndchg' = s.bndchg /\ nbndchg' = s.nbndchg /\ bndpos' = s.bndpos
    BY <1>2, Zenon DEF SyncWrite, Store
  <2>2. FoundBy(written) \in SUBSET BoundChanges /\ mybounds[i] \in Seq(BoundChanges)
        /\ StoreOk(Store, FoundBy(written))
    BY FoundType DEF BoundInv
  <2>3. StoreOk(s, FoundBy(written) \cup Found(i))
    BY <2>2, OwnStoreMerged, Zenon DEF OwnStore, Found
  <2> HIDE DEF s
  <2>4. Store' = s
    BY <2>1, <2>3 DEF Store, StoreOk
  <2>5. FoundBy(written)' = FoundBy(written) \cup Found(i)
    <3>1. \A j : UNCHANGED Found(j)
      BY <2>1, Zenon DEF Found
    <3>2. FoundBy(written)' = UNION {Found(j) : j \in written \cup {i}}
      BY <2>1, <3>1, Zenon DEF FoundBy
    <3> QED
      BY <3>2 DEF FoundBy
  <2>6. StoreOk(Store, FoundBy(written))'
    BY <2>3, <2>4, <2>5, Zenon
  <2> QED
    BY <2>1, <2>6 DEF BoundInv
<1>3. ASSUME NEW i \in Solvers, SyncRead(i) PROVE BoundInv'
  BY <1>1, <1>3, Zenon DEF SyncRead
<1>4. ASSUME NEW i \in Solvers, NEW chgs \in BoundLists, FindBounds(i, chgs) PROVE BoundInv'
  <2>1. UNCHANGED <<bndchg, nbndchg, bndpos, written>> /\ i \notin written
        /\ mybounds' = [mybounds EXCEPT ![i] = chgs]
    BY <1>4 DEF FindBounds, bounds
  <2>2. UNCHANGED Store
    BY <2>1 DEF Store
  <2>3. \A j \in written : UNCHANGED Found(j)
    <3> TAKE j \in written
    <3>1. mybounds'[j] = mybounds[j]
      BY <2>1 DEF BoundInv
    <3> QED
      BY <3>1 DEF Found
  <2>4. FoundBy(written)' = UNION {Found(j)' : j \in written}
    BY <2>1, Zenon DEF FoundBy
  <2>5. {Found(j)' : j \in written} = {Found(j) : j \in written}
    BY <2>3
  <2>6. UNCHANGED FoundBy(written)
    BY <2>4, <2>5, Zenon DEF FoundBy
  <2>7. StoreOk(Store, FoundBy(written))'
    BY <2>2, <2>6, Zenon DEF BoundInv
  <2> QED
    BY <2>1, <2>7 DEF BoundInv
<1>5. ASSUME Reset PROVE BoundInv'
  <2>1. /\ nbndchg' = 0 /\ UNCHANGED bndchg /\ written' = {}
        /\ bndpos' = IF nbndchg > 0 THEN NoBounds ELSE bndpos
        /\ mybounds' = [i \in Solvers |-> <<>>]
    BY <1>5 DEF Reset, ClearedPositions
  <2>2. /\ bndchg \in [Lengths -> BoundChanges] /\ nbndchg \in 0..Cardinality(Sides)
        /\ bndpos \in [Vars -> [BoundTypes -> 0..nbndchg]]
    BY DEF BoundInv, StoreOk, HoldsTightest, Store
  <2>3. bndpos' = NoBounds
    <3>1. CASE nbndchg > 0
      BY <3>1, <2>1
    <3>2. CASE ~(nbndchg > 0)
      <4>1. nbndchg = 0
        BY <3>2, <2>2, SidesFinite
      <4>2. bndpos \in [Vars -> [BoundTypes -> {0}]]
        <5>1. 0..0 = {0}
          OBVIOUS
        <5> QED
          BY <4>1, <5>1, <2>2, Zenon
      <4>3. bndpos = NoBounds
        BY <4>2 DEF NoBounds
      <4> QED
        BY <3>2, <4>3, <2>1
    <3> QED
      BY <3>1, <3>2
  <2>4. Store' = [bndchg |-> bndchg, nbndchg |-> 0, bndpos |-> NoBounds]
    BY <2>1, <2>3 DEF Store
  <2>5. StoreOk(Store', {})
    BY <2>2, <2>4, EmptyStoreOk, Zenon
  <2>6. FoundBy(written)' = {}
    BY <2>1 DEF FoundBy
  <2>7. StoreOk(Store, FoundBy(written))'
    BY <2>5, <2>6, Zenon
  <2> QED
    BY <2>1, <2>7 DEF BoundInv
<1>6. CASE UNCHANGED vars
  <2>1. UNCHANGED <<bounds, mybounds, written>>
    BY <1>6, Zenon DEF vars, local
  <2> QED
    BY <1>1, <2>1
<1> QED
  BY <1>2, <1>3, <1>4, <1>5, <1>6 DEF Next

THEOREM SlotBounds == Spec => []BoundInv
BY BoundInitOk, BoundStep, PTL DEF Spec

\* The slot's store holds exactly the tightest change of each variable and side,
\* whatever the order of the merges, and nothing of the number written before.
THEOREM SlotKeepsTightest == Spec => []BoundsAreTightest
<1>1. BoundInv => BoundsAreTightest
  <2> SUFFICES ASSUME BoundInv, NEW v \in Vars, NEW t \in BoundTypes
               PROVE  LET offered == Changes(FoundBy(written), v, t)
                          stored  == {k \in 0..(nbndchg - 1) : bndchg[k].varidx = v /\ bndchg[k].boundtype = t}
                      IN IF offered = {} THEN stored = {} /\ bndpos[v][t] = 0
                         ELSE /\ stored = {bndpos[v][t] - 1}
                              /\ LET b == bndchg[bndpos[v][t] - 1].newbound
                                 IN /\ \E chg \in offered : chg.newbound = b
                                    /\ \A chg \in offered : IF t = LOWER THEN chg.newbound <= b
                                                             ELSE chg.newbound >= b
    BY Zenon DEF BoundsAreTightest, Changes, FoundBy
  <2> DEFINE offered == Changes(FoundBy(written), v, t)
             stored  == {k \in 0..(nbndchg - 1) : bndchg[k].varidx = v /\ bndchg[k].boundtype = t}
             pos     == bndpos[v][t]
             b       == bndchg[pos - 1].newbound
  <2>1. /\ nbndchg \in Nat /\ bndpos \in [Vars -> [BoundTypes -> 0..nbndchg]]
        /\ \A k \in 0..(nbndchg - 1) : bndpos[bndchg[k].varidx][bndchg[k].boundtype] = k + 1
        /\ IF pos = 0 THEN offered = {}
           ELSE bndchg[pos - 1].varidx = v /\ bndchg[pos - 1].boundtype = t
                /\ Tightest(b, FoundBy(written), v, t)
    <3>1. Store.nbndchg = nbndchg /\ Store.bndchg = bndchg /\ Store.bndpos = bndpos
      BY DEF Store
    <3>2. StoreOk(Store, FoundBy(written)) /\ Cardinality(Sides) \in Nat
      BY SidesFinite DEF BoundInv
    <3> HIDE DEF offered, b, pos
    <3>3. /\ nbndchg \in 0..Cardinality(Sides) /\ bndpos \in [Vars -> [BoundTypes -> 0..nbndchg]]
          /\ \A k \in 0..(nbndchg - 1) : bndpos[bndchg[k].varidx][bndchg[k].boundtype] = k + 1
      BY <3>1, <3>2 DEF StoreOk, HoldsTightest
    <3>4. IF pos = 0 THEN offered = {}
          ELSE bndchg[pos - 1].varidx = v /\ bndchg[pos - 1].boundtype = t
               /\ Tightest(b, FoundBy(written), v, t)
      BY <3>1, <3>2, Zenon DEF StoreOk, HoldsTightest, offered, b, pos
    <3> QED
      BY <3>2, <3>3, <3>4
  <2>2. FoundBy(written) \in SUBSET BoundChanges
    BY FoundType DEF BoundInv
  <2>3. pos \in 0..nbndchg
    BY <2>1
  <2>4. \A k \in stored : k \in 0..(nbndchg - 1) /\ pos = k + 1
    BY <2>1
  <2>5. CASE pos = 0
    <3>1. stored = {}
      BY <2>4, <2>5, <2>1
    <3> QED
      BY <2>1, <2>5, <3>1
  <2>6. CASE pos # 0
    <3>1. pos - 1 \in stored
      BY <2>1, <2>3, <2>6
    <3>2. stored = {pos - 1}
      BY <2>3, <2>4, <3>1
    <3> HIDE DEF stored
    <3>3. \E chg \in offered : chg.newbound = b
      BY <2>1, <2>6 DEF Tightest
    <3>4. \A chg \in offered : chg.newbound \in Int /\ ~Tighter(t, chg.newbound, b)
      <4>1. \A chg \in offered : chg.newbound \in Int
        BY <2>2 DEF Changes, BoundChanges
      <4> QED
        BY <4>1, <2>1, <2>6 DEF Tightest
    <3> HIDE DEF offered, b
    <3>5. \A chg \in offered : IF t = LOWER THEN chg.newbound <= b ELSE chg.newbound >= b
      BY <3>3, <3>4 DEF Tighter
    <3>6. offered # {}
      BY <3>3
    <3> QED
      BY <3>2, <3>3, <3>5, <3>6 DEF offered, b, stored
  <2> QED
    BY <2>5, <2>6
<1> QED
  BY <1>1, SlotBounds, PTL
=============================================================================
