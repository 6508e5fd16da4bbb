-------------------------- MODULE ConsArraysProofs --------------------------
(***************************************************************************)
(* What is proved of the constraint arrays, for any set of constraints,    *)
(* any depth of callbacks and any number of waiting requests.              *)
(***************************************************************************)
EXTENDS ConsArrays, SequenceTheorems, TLAPS

AnyArray == Array \union MarkedArray

\* A change of an array a into b keeps its fields.
SameKind(a, b) ==
  /\ a \in Array => b \in Array
  /\ a \in MarkedArray => b \in MarkedArray

\* Where c is in a list of distinct members.
LEMMA PosFound ==
  ASSUME NEW a, NEW c, \E i \in DOMAIN a.list : a.list[i] = c
  PROVE  Pos(a, c) \in DOMAIN a.list /\ a.list[Pos(a, c)] = c
BY DEF Pos

\* Switched exchanges two members.
LEMMA SwitchedList ==
  ASSUME NEW a \in AnyArray,
         NEW i \in 1 .. Len(a.list), NEW j \in 1 .. Len(a.list)
  PROVE  LET b == Switched(a, i, j)
         IN  /\ SameKind(a, b)
             /\ b.useful = a.useful
             /\ a \in MarkedArray => b.marked = a.marked
             /\ Len(b.list) = Len(a.list)
             /\ \A k \in 1 .. Len(a.list) :
                  b.list[k] = IF k = i THEN a.list[j]
                              ELSE IF k = j THEN a.list[i] ELSE a.list[k]
<1>. DEFINE s == [a.list EXCEPT ![i] = a.list[j]]
            t == [s EXCEPT ![j] = a.list[i]]
<1>1. a.list \in Seq(Conss) /\ a.list[i] \in Conss /\ a.list[j] \in Conss
  BY DEF AnyArray, Array, MarkedArray
<1>2. /\ s \in Seq(Conss)
      /\ Len(s) = Len(a.list)
      /\ \A k \in 1 .. Len(a.list) : s[k] = IF k = i THEN a.list[j] ELSE a.list[k]
  BY <1>1, ExceptSeq
<1>. HIDE DEF s
<1>3. /\ t \in Seq(Conss)
      /\ Len(t) = Len(a.list)
      /\ \A k \in 1 .. Len(a.list) : t[k] = IF k = j THEN a.list[i] ELSE s[k]
  BY <1>1, <1>2, ExceptSeq
<1>4. Switched(a, i, j) = [a EXCEPT !.list = t]
  BY DEF Switched, s
<1>. HIDE DEF t
<1>5. /\ SameKind(a, [a EXCEPT !.list = t])
      /\ [a EXCEPT !.list = t].list = t
      /\ [a EXCEPT !.list = t].useful = a.useful
      /\ a \in MarkedArray => [a EXCEPT !.list = t].marked = a.marked
  BY <1>3 DEF SameKind, AnyArray, Array, MarkedArray
<1>. QED
  BY <1>2, <1>3, <1>4, <1>5

\* Switching two members keeps the membership.
LEMMA SwitchedMembers ==
  ASSUME NEW a \in AnyArray,
         NEW i \in 1 .. Len(a.list), NEW j \in 1 .. Len(a.list),
         \A k, l \in DOMAIN a.list : a.list[k] = a.list[l] => k = l
  PROVE  LET b == Switched(a, i, j)
         IN  /\ \A k, l \in DOMAIN b.list : b.list[k] = b.list[l] => k = l
             /\ \A c \in Conss : (\E k \in DOMAIN b.list : b.list[k] = c)
                                   <=> (\E k \in DOMAIN a.list : a.list[k] = c)
<1>. DEFINE b == Switched(a, i, j)
<1>1. /\ DOMAIN a.list = 1 .. Len(a.list)
      /\ DOMAIN b.list = 1 .. Len(a.list)
      /\ \A k \in 1 .. Len(a.list) :
           b.list[k] = IF k = i THEN a.list[j]
                       ELSE IF k = j THEN a.list[i] ELSE a.list[k]
  <2>1. a.list \in Seq(Conss) /\ b.list \in Seq(Conss)
    BY SwitchedList DEF SameKind, AnyArray, Array, MarkedArray
  <2>. QED
    BY <2>1, SwitchedList, LenProperties
<1>. HIDE DEF b
<1>2. \A k, l \in DOMAIN b.list : b.list[k] = b.list[l] => k = l
  BY <1>1
<1>3. ASSUME NEW c \in Conss
      PROVE  (\E k \in DOMAIN b.list : b.list[k] = c)
               <=> (\E k \in DOMAIN a.list : a.list[k] = c)
  <2>1. ASSUME NEW k \in DOMAIN a.list, a.list[k] = c
        PROVE  \E l \in DOMAIN b.list : b.list[l] = c
    <3>1. CASE k = i
      BY <1>1, <2>1, <3>1
    <3>2. CASE k = j
      BY <1>1, <2>1, <3>2
    <3>3. CASE k # i /\ k # j
      BY <1>1, <2>1, <3>3
    <3>. QED
      BY <3>1, <3>2, <3>3
  <2>2. ASSUME NEW k \in DOMAIN b.list, b.list[k] = c
        PROVE  \E l \in DOMAIN a.list : a.list[l] = c
    BY <1>1, <2>2
  <2>. QED
    BY <2>1, <2>2
<1>. QED
  BY <1>2, <1>3 DEF b

\* The marked members are the first ones of the array.
Front(a, marked) ==
  /\ a.marked \in 0 .. a.useful
  /\ \A i \in DOMAIN a.list : i <= a.marked <=> a.list[i] \in marked

\* All members are in a set, but for the useful ones behind a position.
Known(a, last, set) ==
  \A i \in DOMAIN a.list : a.list[i] \in set \/ i \in last + 1 .. a.useful

\* What is kept of each of these solutions.
KnownOn(solutions, a, last, sets) == \A s \in solutions : Known(a, last, sets[s])

\* Switched in terms of Parted: what is switched on the same side of a border
\* does not cross it.
LEMMA SwitchedParted ==
  ASSUME NEW a \in AnyArray, NEW members, NEW obsolete,
         Parted(a, members, obsolete),
         NEW i \in 1 .. Len(a.list), NEW j \in 1 .. Len(a.list),
         i <= a.useful <=> j <= a.useful
  PROVE  Parted(Switched(a, i, j), members, obsolete)
<1>. DEFINE b == Switched(a, i, j)
<1>1. /\ a.list \in Seq(Conss) /\ b.list \in Seq(Conss)
      /\ b.useful = a.useful /\ Len(b.list) = Len(a.list)
  <2>1. SameKind(a, b) /\ b.useful = a.useful /\ Len(b.list) = Len(a.list)
    BY SwitchedList
  <2>. HIDE DEF b
  <2>. QED
    BY <2>1 DEF SameKind, AnyArray, Array, MarkedArray
<1>2. /\ \A k, l \in DOMAIN b.list : b.list[k] = b.list[l] => k = l
      /\ \A c \in Conss : c \in members <=> \E k \in DOMAIN b.list : b.list[k] = c
  BY SwitchedMembers DEF Parted
<1>3. ASSUME NEW k \in DOMAIN b.list
      PROVE  k <= b.useful <=> b.list[k] \notin obsolete
  <2>1. /\ k \in 1 .. Len(a.list) /\ DOMAIN a.list = 1 .. Len(a.list)
        /\ \A l \in 1 .. Len(a.list) : l <= a.useful <=> a.list[l] \notin obsolete
        /\ b.list[k] = IF k = i THEN a.list[j]
                       ELSE IF k = j THEN a.list[i] ELSE a.list[k]
    BY <1>1, SwitchedList, LenProperties DEF Parted
  <2>. QED
    BY <1>1, <2>1
<1>. QED
  BY <1>1, <1>2, <1>3 DEF Parted

LEMMA SwitchedFront ==
  ASSUME NEW a \in MarkedArray, NEW marked, Front(a, marked),
         NEW i \in 1 .. Len(a.list), NEW j \in 1 .. Len(a.list),
         i <= a.marked <=> j <= a.marked
  PROVE  Front(Switched(a, i, j), marked)
<1>. DEFINE b == Switched(a, i, j)
<1>1. /\ a.list \in Seq(Conss) /\ b.list \in Seq(Conss)
      /\ b.useful = a.useful /\ b.marked = a.marked /\ Len(b.list) = Len(a.list)
  BY SwitchedList DEF SameKind, AnyArray, MarkedArray
<1>2. ASSUME NEW k \in DOMAIN b.list
      PROVE  k <= b.marked <=> b.list[k] \in marked
  <2>1. /\ k \in 1 .. Len(a.list)
        /\ \A l \in 1 .. Len(a.list) : l <= a.marked <=> a.list[l] \in marked
    BY <1>1, LenProperties DEF Front
  <2>2. b.list[k] = IF k = i THEN a.list[j]
                    ELSE IF k = j THEN a.list[i] ELSE a.list[k]
    BY <2>1, SwitchedList DEF AnyArray
  <2>. QED
    BY <1>1, <2>1, <2>2
<1>. QED
  BY <1>1, <1>2 DEF Front

LEMMA ToObsoleteParted ==
  ASSUME NEW a \in AnyArray, NEW members, NEW obsolete,
         Parted(a, members, obsolete),
         NEW c \in Conss, c \in members \ obsolete
  PROVE  LET b == ToObsolete(a, c)
         IN  /\ SameKind(a, b)
             /\ Parted(b, members, obsolete \union {c})
             /\ \A marked : (a \in MarkedArray /\ Front(a, marked) /\ c \notin marked)
                              => Front(b, marked)
             /\ b.useful = a.useful - 1
             /\ \A set : Known(a, a.useful, set) => Known(b, b.useful, set)
<1>. DEFINE p == Pos(a, c)
            s == Switched(a, p, a.useful)
            b == ToObsolete(a, c)
<1>1. /\ a.list \in Seq(Conss) /\ Len(a.list) \in Nat
      /\ DOMAIN a.list = 1 .. Len(a.list)
      /\ p \in 1 .. Len(a.list) /\ a.list[p] = c
      /\ a.useful \in 1 .. Len(a.list) /\ p <= a.useful
  BY PosFound, LenProperties DEF Parted
<1>2. /\ SameKind(a, s) /\ s.useful = a.useful
      /\ a \in MarkedArray => s.marked = a.marked
      /\ Len(s.list) = Len(a.list)
      /\ \A k \in 1 .. Len(a.list) :
           s.list[k] = IF k = p THEN a.list[a.useful]
                       ELSE IF k = a.useful THEN a.list[p] ELSE a.list[k]
  <2>. HIDE DEF p
  <2>. QED
    BY <1>1, SwitchedList, SMTT(60)
<1>3. Parted(s, members, obsolete)
  <2>. HIDE DEF p
  <2>. QED
    BY <1>1, SwitchedParted
<1>4. b = [s EXCEPT !.useful = s.useful - 1]
  BY DEF ToObsolete
<1>. HIDE DEF p, s, b
<1>5. /\ SameKind(a, b) /\ b.list = s.list /\ b.useful = a.useful - 1
      /\ a \in MarkedArray => b.marked = a.marked
  BY <1>1, <1>2, <1>4 DEF SameKind, AnyArray, Array, MarkedArray
<1>6. Parted(b, members, obsolete \union {c})
  <2>1. DOMAIN s.list = 1 .. Len(a.list)
    BY <1>2, <1>3, LenProperties DEF Parted
  <2>2. ASSUME NEW k \in 1 .. Len(a.list)
        PROVE  k <= a.useful - 1 <=> s.list[k] \notin obsolete \union {c}
    <3>0. s.list[a.useful] = c
      BY <1>1, <1>2
    <3>1. s.list[k] = c => k = a.useful
      BY <1>1, <1>3, <2>1, <2>2, <3>0 DEF Parted
    <3>2. k <= a.useful <=> s.list[k] \notin obsolete
      BY <1>2, <1>3, <2>1, <2>2 DEF Parted
    <3>. QED
      BY <1>1, <2>2, <3>0, <3>1, <3>2
  <2>. QED
    BY <1>1, <1>2, <1>3, <1>5, <2>1, <2>2 DEF Parted
<1>7. ASSUME NEW marked, a \in MarkedArray, Front(a, marked), c \notin marked
      PROVE  Front(b, marked)
  <2>1. a.marked \in Nat /\ a.marked < p
    BY <1>1, <1>7 DEF Front, MarkedArray
  <2>2. Front(s, marked)
    BY <1>1, <1>7, <2>1, SwitchedFront DEF s
  <2>. QED
    BY <1>1, <1>2, <1>5, <1>7, <2>1, <2>2 DEF Front
<1>8. ASSUME NEW set, Known(a, a.useful, set)
      PROVE  Known(b, b.useful, set)
  <2>1. DOMAIN b.list = 1 .. Len(a.list)
    BY <1>2, <1>5, <1>6, LenProperties DEF Parted
  <2>2. \A k \in 1 .. Len(a.list) : a.list[k] \in set
    BY <1>1, <1>8 DEF Known
  <2>. QED
    BY <1>1, <1>2, <1>5, <2>1, <2>2 DEF Known
<1>. QED
  BY <1>5, <1>6, <1>7, <1>8 DEF b

LEMMA ToUsefulParted ==
  ASSUME NEW a \in AnyArray, NEW members, NEW obsolete,
         Parted(a, members, obsolete),
         NEW c \in Conss, c \in members \intersect obsolete
  PROVE  LET b == ToUseful(a, c)
         IN  /\ SameKind(a, b)
             /\ Parted(b, members, obsolete \ {c})
             /\ \A marked : (a \in MarkedArray /\ Front(a, marked) /\ c \notin marked)
                              => Front(b, marked)
             /\ b.useful = a.useful + 1
             /\ \A last \in 0 .. a.useful : \A set :
                  Known(a, last, set) => Known(b, last, set)
<1>. DEFINE p == Pos(a, c)
            s == Switched(a, p, a.useful + 1)
            b == ToUseful(a, c)
<1>1. /\ a.list \in Seq(Conss) /\ Len(a.list) \in Nat
      /\ DOMAIN a.list = 1 .. Len(a.list)
      /\ p \in 1 .. Len(a.list) /\ a.list[p] = c
      /\ a.useful \in Nat /\ a.useful + 1 \in 1 .. Len(a.list) /\ p >= a.useful + 1
  BY PosFound, LenProperties DEF Parted
<1>2. /\ SameKind(a, s) /\ s.useful = a.useful
      /\ a \in MarkedArray => s.marked = a.marked
      /\ Len(s.list) = Len(a.list)
      /\ \A k \in 1 .. Len(a.list) :
           s.list[k] = IF k = p THEN a.list[a.useful + 1]
                       ELSE IF k = a.useful + 1 THEN a.list[p] ELSE a.list[k]
  <2>. HIDE DEF p
  <2>. QED
    BY <1>1, SwitchedList, SMTT(60)
<1>3. Parted(s, members, obsolete)
  <2>. HIDE DEF p
  <2>. QED
    BY <1>1, SwitchedParted
<1>4. b = [s EXCEPT !.useful = s.useful + 1]
  BY DEF ToUseful
<1>. HIDE DEF p, s, b
<1>5. /\ SameKind(a, b) /\ b.list = s.list /\ b.useful = a.useful + 1
      /\ a \in MarkedArray => b.marked = a.marked
  BY <1>1, <1>2, <1>4 DEF SameKind, AnyArray, Array, MarkedArray
<1>6. Parted(b, members, obsolete \ {c})
  <2>1. DOMAIN s.list = 1 .. Len(a.list)
    BY <1>2, <1>3, LenProperties DEF Parted
  <2>2. ASSUME NEW k \in 1 .. Len(a.list)
        PROVE  k <= a.useful + 1 <=> s.list[k] \notin obsolete \ {c}
    <3>0. s.list[a.useful + 1] = c /\ a.useful + 1 \in DOMAIN s.list
      BY <1>1, <1>2, <2>1
    <3>1. s.list[k] = c => k = a.useful + 1
      BY <1>3, <2>1, <2>2, <3>0 DEF Parted
    <3>2. k <= a.useful <=> s.list[k] \notin obsolete
      BY <1>2, <1>3, <2>1, <2>2 DEF Parted
    <3>. QED
      BY <1>1, <2>2, <3>0, <3>1, <3>2
  <2>. QED
    BY <1>1, <1>2, <1>3, <1>5, <2>1, <2>2 DEF Parted
<1>7. ASSUME NEW marked, a \in MarkedArray, Front(a, marked), c \notin marked
      PROVE  Front(b, marked)
  <2>1. a.marked \in Nat /\ a.marked <= a.useful
    BY <1>1, <1>7 DEF Front, MarkedArray
  <2>2. Front(s, marked)
    BY <1>1, <1>7, <2>1, SwitchedFront DEF s
  <2>. QED
    BY <1>1, <1>2, <1>5, <1>7, <2>1, <2>2 DEF Front
<1>8. ASSUME NEW last \in 0 .. a.useful, NEW set, Known(a, last, set)
      PROVE  Known(b, last, set)
  <2>1. DOMAIN b.list = 1 .. Len(a.list)
    BY <1>2, <1>5, <1>6, LenProperties DEF Parted
  <2>2. \A k \in 1 .. Len(a.list) :
          a.list[k] \in set \/ k \in last + 1 .. a.useful
    BY <1>1, <1>8 DEF Known
  <2>3. \A k \in 1 .. Len(a.list) :
          s.list[k] \in set \/ k \in last + 1 .. a.useful + 1
    BY <1>1, <1>2, <2>2
  <2>. QED
    BY <1>5, <2>1, <2>3 DEF Known
<1>. QED
  BY <1>5, <1>6, <1>7, <1>8 DEF b
\* A list and a number of useful constraints put into an array.
Changed(a, list, useful) == [a EXCEPT !.list = list, !.useful = useful]

LEMMA ChangedArray ==
  ASSUME NEW a \in AnyArray, NEW w \in Seq(Conss), NEW m \in Nat
  PROVE  LET b == Changed(a, w, m)
         IN  /\ SameKind(a, b) /\ b.list = w /\ b.useful = m
             /\ a \in MarkedArray => b.marked = a.marked
<1>1. CASE a \in Array
  BY <1>1 DEF Changed, SameKind, Array, MarkedArray
<1>2. CASE a \in MarkedArray
  BY <1>2 DEF Changed, SameKind, Array, MarkedArray
<1>. QED
  BY <1>1, <1>2 DEF AnyArray

LEMMA AddedParted ==
  ASSUME NEW a \in AnyArray, NEW members, NEW obsolete,
         Parted(a, members, obsolete),
         NEW c \in Conss, c \notin members
  PROVE  LET b == Added(a, c, c \in obsolete)
         IN  /\ SameKind(a, b)
             /\ Parted(b, members \union {c}, obsolete)
             /\ \A marked : (a \in MarkedArray /\ Front(a, marked) /\ c \notin marked)
                              => Front(b, marked)
             /\ a.useful <= b.useful
             /\ \A last \in 0 .. a.useful : \A set :
                  Known(a, last, set) /\ c \notin obsolete => Known(b, last, set)
<1>. DEFINE u == a.useful
            n == Len(a.list)
            b == Added(a, c, c \in obsolete)
            t == b.list
            first == IF c \notin obsolete /\ u < n THEN u + 1 ELSE n + 1
<1>1. /\ a.list \in Seq(Conss) /\ n \in Nat /\ DOMAIN a.list = 1 .. n
      /\ u \in 0 .. n
      /\ \A k, l \in 1 .. n : a.list[k] = a.list[l] => k = l
      /\ \A d \in Conss : d \in members <=> \E k \in 1 .. n : a.list[k] = d
      /\ \A k \in 1 .. n : k <= u <=> a.list[k] \notin obsolete
      /\ \A k \in 1 .. n : a.list[k] \in Conss
  BY LenProperties DEF Parted
<1>. HIDE DEF u, n
<1>2. /\ SameKind(a, b)
      /\ t \in Seq(Conss)
      /\ b.useful = IF c \in obsolete THEN u ELSE u + 1
      /\ a \in MarkedArray => b.marked = a.marked
      /\ Len(t) = n + 1
      /\ \A k \in 1 .. n : t[k] = IF k = first THEN c ELSE a.list[k]
      /\ t[n + 1] = IF first = n + 1 THEN c ELSE a.list[u + 1]
  <2>1. CASE c \in obsolete \/ u = n
    <3>1. b = [a EXCEPT !.list = Append(a.list, c),
                        !.useful = IF c \in obsolete THEN a.useful ELSE a.useful + 1]
      BY <2>1 DEF Added, u, n
    <3>2. /\ Append(a.list, c) \in Seq(Conss)
          /\ Len(Append(a.list, c)) = n + 1
          /\ \A k \in 1 .. n : Append(a.list, c)[k] = a.list[k]
          /\ Append(a.list, c)[n + 1] = c
      BY <1>1, AppendProperties DEF n
    <3>3. first = n + 1
      BY <1>1, <2>1
    <3>. DEFINE w == Append(a.list, c)
                m == IF c \in obsolete THEN u ELSE u + 1
    <3>. HIDE DEF b, w, first
    <3>4. w \in Seq(Conss) /\ m \in Nat /\ b = Changed(a, w, m)
      BY <1>1, <3>1, <3>2 DEF w, u, Changed
    <3>. HIDE DEF m
    <3>5. /\ SameKind(a, b) /\ b.list = w /\ b.useful = m
          /\ a \in MarkedArray => b.marked = a.marked
      BY <3>4, ChangedArray
    <3>. QED
      BY <1>1, <3>2, <3>3, <3>5 DEF w, m
  <2>2. CASE c \notin obsolete /\ u # n
    <3>. DEFINE v == [a.list EXCEPT ![u + 1] = c]
                w == Append(v, a.list[u + 1])
    <3>1. b = [a EXCEPT !.list = w, !.useful = a.useful + 1]
      BY <2>2 DEF Added, u, n
    <3>2. u + 1 \in 1 .. n /\ first = u + 1
      BY <1>1, <2>2
    <3>3. /\ v \in Seq(Conss) /\ Len(v) = n
          /\ \A k \in 1 .. n : v[k] = IF k = u + 1 THEN c ELSE a.list[k]
      BY <1>1, <3>2, ExceptSeq DEF n
    <3>. HIDE DEF b, v, first
    <3>4. /\ w \in Seq(Conss) /\ Len(w) = n + 1
          /\ \A k \in 1 .. n : w[k] = v[k]
          /\ w[n + 1] = a.list[u + 1]
      BY <1>1, <3>2, <3>3, AppendProperties
    <3>. HIDE DEF w
    <3>5. /\ SameKind(a, b) /\ b.list = w /\ b.useful = u + 1
          /\ a \in MarkedArray => b.marked = a.marked
      <4>1. u + 1 \in Nat /\ b = Changed(a, w, u + 1)
        BY <1>1, <3>1 DEF u, Changed
      <4>. QED
        BY <3>4, <4>1, ChangedArray
    <3>. QED
      BY <1>1, <2>2, <3>2, <3>3, <3>4, <3>5
  <2>. QED
    BY <2>1, <2>2
<1>3. DOMAIN t = 1 .. n + 1 /\ first \in 1 .. n + 1
  BY <1>1, <1>2, LenProperties
<1>. HIDE DEF t, b
<1>4. \A k, l \in 1 .. n + 1 : t[k] = t[l] => k = l
  <2>1. \A k \in 1 .. n : a.list[k] # c
    BY <1>1
  <2>. QED
    BY <1>1, <1>2, <1>3, <2>1
<1>5. ASSUME NEW d \in Conss
      PROVE  d \in members \union {c} <=> \E k \in 1 .. n + 1 : t[k] = d
  <2>1. ASSUME NEW k \in 1 .. n, a.list[k] = d
        PROVE  \E l \in 1 .. n + 1 : t[l] = d
    <3>1. CASE k = first
      BY <1>1, <1>2, <2>1, <3>1
    <3>2. CASE k # first
      BY <1>1, <1>2, <2>1, <3>2
    <3>. QED
      BY <3>1, <3>2
  <2>2. t[first] = c
    BY <1>1, <1>2, <1>3
  <2>3. ASSUME NEW k \in 1 .. n + 1, t[k] = d
        PROVE  d \in members \union {c}
    BY <1>1, <1>2, <2>3
  <2>. QED
    BY <1>1, <1>3, <2>1, <2>2, <2>3
<1>6. \A k \in 1 .. n + 1 : k <= b.useful <=> t[k] \notin obsolete
  BY <1>1, <1>2
<1>7. Parted(b, members \union {c}, obsolete)
  <2>1. b.useful \in 0 .. Len(t)
    BY <1>1, <1>2
  <2>. QED
    BY <1>2, <1>3, <1>4, <1>5, <1>6, <2>1, SMTT(60) DEF Parted, t
<1>8. ASSUME NEW marked, a \in MarkedArray, Front(a, marked), c \notin marked
      PROVE  Front(b, marked)
  <2>1. /\ a.marked \in 0 .. u
        /\ \A k \in 1 .. n : k <= a.marked <=> a.list[k] \in marked
    BY <1>1, <1>8 DEF Front, u
  <2>2. \A k \in 1 .. n + 1 : k <= a.marked <=> t[k] \in marked
    BY <1>1, <1>2, <1>8, <2>1
  <2>. QED
    BY <1>1, <1>2, <1>3, <1>8, <2>1, <2>2 DEF Front, t
<1>9. ASSUME NEW last \in 0 .. u, NEW set, Known(a, last, set), c \notin obsolete
      PROVE  Known(b, last, set)
  <2>1. \A k \in 1 .. n : a.list[k] \in set \/ k \in last + 1 .. u
    BY <1>1, <1>9 DEF Known, u
  <2>2. \A k \in 1 .. n + 1 : t[k] \in set \/ k \in last + 1 .. u + 1
    BY <1>1, <1>2, <1>9, <2>1
  <2>. QED
    BY <1>2, <1>3, <1>9, <2>2 DEF Known, t
<1>. QED
  BY <1>1, <1>2, <1>7, <1>8, <1>9 DEF b, u

LEMMA DeletedParted ==
  ASSUME NEW a \in AnyArray, NEW members, NEW obsolete,
         Parted(a, members, obsolete),
         NEW c \in Conss, c \in members
  PROVE  LET b == Deleted(a, c, c \in obsolete)
         IN  /\ SameKind(a, b)
             /\ Parted(b, members \ {c}, obsolete)
             /\ \A marked : (a \in MarkedArray /\ Front(a, marked) /\ c \notin marked)
                              => Front(b, marked)
             /\ c \in obsolete => b.useful = a.useful
             /\ c \notin obsolete => b.useful = a.useful - 1
             /\ c \notin obsolete => Pos(a, c) \in 1 .. a.useful
             /\ \A last \in 0 .. a.useful : \A set :
                  Known(a, last, set) /\ c \in obsolete => Known(b, last, set)
             /\ \A last \in 0 .. a.useful : \A set :
                  Known(a, last, set) /\ c \notin obsolete /\ Pos(a, c) <= last + 1
                    => Known(b, Pos(a, c) - 1, set)
<1>. DEFINE u == a.useful
            n == Len(a.list)
            p == Pos(a, c)
            gap == IF c \in obsolete THEN p ELSE u
            filled == IF c \in obsolete THEN a.list ELSE [a.list EXCEPT ![p] = a.list[u]]
            closed == [filled EXCEPT ![gap] = filled[Len(filled)]]
            w == SubSeq(closed, 1, Len(closed) - 1)
            b == Deleted(a, c, c \in obsolete)
            t == b.list
<1>1. /\ a.list \in Seq(Conss) /\ n \in Nat /\ DOMAIN a.list = 1 .. n
      /\ u \in 0 .. n
      /\ \A k, l \in 1 .. n : a.list[k] = a.list[l] => k = l
      /\ \A d \in Conss : d \in members <=> \E k \in 1 .. n : a.list[k] = d
      /\ \A k \in 1 .. n : k <= u <=> a.list[k] \notin obsolete
      /\ \A k \in 1 .. n : a.list[k] \in Conss
  BY LenProperties DEF Parted
<1>2. p \in 1 .. n /\ a.list[p] = c
  <2>1. \E k \in DOMAIN a.list : a.list[k] = c
    BY <1>1
  <2>. QED
    BY <1>1, <2>1, PosFound
<1>3. b = [a EXCEPT !.list = w, !.useful = IF c \in obsolete THEN a.useful ELSE a.useful - 1]
  BY DEF Deleted
<1>. HIDE DEF u, n, p, b
<1>4. gap \in 1 .. n /\ (c \notin obsolete => p <= u) /\ (c \in obsolete => p > u)
  BY <1>1, <1>2
<1>5. /\ filled \in Seq(Conss) /\ Len(filled) = n
      /\ \A k \in 1 .. n : filled[k] = IF c \notin obsolete /\ k = p THEN a.list[u] ELSE a.list[k]
  <2>1. CASE c \in obsolete
    BY <1>1, <2>1 DEF n
  <2>2. CASE c \notin obsolete
    <3>1. u \in 1 .. n
      BY <1>4, <2>2
    <3>. QED
      BY <1>1, <1>2, <2>2, <3>1, ExceptSeq DEF n
  <2>. QED
    BY <2>1, <2>2
<1>. HIDE DEF gap, filled
<1>6. /\ closed \in Seq(Conss) /\ Len(closed) = n
      /\ \A k \in 1 .. n : closed[k] = IF k = gap THEN filled[n] ELSE filled[k]
  <2>1. n \in 1 .. n /\ filled[n] \in Conss
    BY <1>1, <1>2, <1>5, ElementOfSeq
  <2>. QED
    BY <1>4, <1>5, <2>1, ExceptSeq
<1>. HIDE DEF closed
<1>7. /\ w \in Seq(Conss) /\ Len(w) = n - 1
      /\ \A k \in 1 .. n - 1 : w[k] = closed[k]
  <2>1. /\ \A k \in 1 .. n - 1 : closed[k] \in Conss
        /\ n - 1 \in Nat
    BY <1>1, <1>2, <1>6, ElementOfSeq
  <2>2. /\ w \in Seq(Conss)
        /\ Len(w) = IF 1 <= n - 1 THEN n - 1 - 1 + 1 ELSE 0
        /\ \A k \in 1 .. n - 1 - 1 + 1 : w[k] = closed[1 + k - 1]
    BY <1>6, <2>1, SubSeqProperties
  <2>. QED
    BY <2>1, <2>2
<1>. HIDE DEF w
<1>8. /\ SameKind(a, b)
      /\ t = w
      /\ b.useful = IF c \in obsolete THEN u ELSE u - 1
      /\ a \in MarkedArray => b.marked = a.marked
  <2>. DEFINE m == IF c \in obsolete THEN u ELSE u - 1
  <2>1. m \in Nat /\ b = Changed(a, w, m)
    BY <1>1, <1>3, <1>4 DEF gap, u, Changed
  <2>. HIDE DEF m
  <2>2. /\ SameKind(a, b) /\ b.list = w /\ b.useful = m
        /\ a \in MarkedArray => b.marked = a.marked
    BY <1>7, <2>1, ChangedArray
  <2>. QED
    BY <2>2 DEF m, t
<1>9. \A k \in 1 .. n - 1 :
        t[k] = IF c \in obsolete THEN (IF k = p THEN a.list[n] ELSE a.list[k])
               ELSE IF k = u THEN a.list[n]
               ELSE IF k = p THEN a.list[u] ELSE a.list[k]
  BY <1>1, <1>2, <1>4, <1>5, <1>6, <1>7, <1>8 DEF gap
<1>10. t \in Seq(Conss) /\ DOMAIN t = 1 .. n - 1 /\ n - 1 \in Nat
  BY <1>1, <1>2, <1>7, <1>8, LenProperties
<1>. HIDE DEF t
<1>11. \A k, l \in 1 .. n - 1 : t[k] = t[l] => k = l
  BY <1>1, <1>2, <1>4, <1>9
<1>12. ASSUME NEW d \in Conss
       PROVE  d \in members \ {c} <=> \E k \in 1 .. n - 1 : t[k] = d
  <2>1. ASSUME NEW k \in 1 .. n, a.list[k] = d, k # p
        PROVE  \E l \in 1 .. n - 1 : t[l] = d
    <3>1. CASE c \in obsolete /\ k = n
      <4>1. p \in 1 .. n - 1 /\ t[p] = d
        BY <1>1, <1>2, <1>9, <2>1, <3>1
      <4>. QED
        BY <4>1
    <3>2. CASE c \in obsolete /\ k # n
      <4>1. k \in 1 .. n - 1 /\ t[k] = d
        BY <1>1, <1>9, <2>1, <3>2
      <4>. QED
        BY <4>1
    <3>3. CASE c \notin obsolete /\ k = u
      <4>1. p \in 1 .. n - 1 /\ t[p] = d
        BY <1>1, <1>2, <1>4, <1>9, <2>1, <3>3
      <4>. QED
        BY <4>1
    <3>4. CASE c \notin obsolete /\ k # u /\ k = n
      <4>1. u \in 1 .. n - 1 /\ t[u] = d
        BY <1>1, <1>2, <1>4, <1>9, <2>1, <3>4
      <4>. QED
        BY <4>1
    <3>5. CASE c \notin obsolete /\ k # u /\ k # n
      <4>1. k \in 1 .. n - 1 /\ t[k] = d
        BY <1>1, <1>9, <2>1, <3>5
      <4>. QED
        BY <4>1
    <3>. QED
      BY <3>1, <3>2, <3>3, <3>4, <3>5
  <2>2. ASSUME NEW k \in 1 .. n - 1, t[k] = d
        PROVE  \E l \in 1 .. n : a.list[l] = d /\ l # p
    BY <1>1, <1>2, <1>4, <1>9, <2>2
  <2>3. ASSUME NEW k \in 1 .. n, a.list[k] = d
        PROVE  k # p <=> d # c
    BY <1>1, <1>2, <2>3
  <2>. QED
    BY <1>1, <2>1, <2>2, <2>3
<1>13. \A k \in 1 .. n - 1 : k <= b.useful <=> t[k] \notin obsolete
  BY <1>1, <1>2, <1>4, <1>8, <1>9
<1>14. b.useful \in 0 .. n - 1 /\ Len(t) = n - 1
  BY <1>1, <1>4, <1>7, <1>8 DEF gap
<1>15. Parted(b, members \ {c}, obsolete)
  BY <1>10, <1>11, <1>12, <1>13, <1>14 DEF Parted, t
<1>16. ASSUME NEW marked, a \in MarkedArray, Front(a, marked), c \notin marked
       PROVE  Front(b, marked)
  <2>1. /\ a.marked \in 0 .. u
        /\ \A k \in 1 .. n : k <= a.marked <=> a.list[k] \in marked
    BY <1>1, <1>16 DEF Front, u
  <2>2. a.marked < p
    BY <1>1, <1>2, <1>16, <2>1
  <2>3. \A k \in 1 .. n - 1 : k <= a.marked <=> t[k] \in marked
    BY <1>1, <1>2, <1>4, <1>9, <1>16, <2>1, <2>2
  <2>. QED
    BY <1>1, <1>4, <1>8, <1>10, <1>16, <2>1, <2>2, <2>3, SMTT(60) DEF Front, t
<1>17. ASSUME NEW last \in 0 .. u, NEW set, Known(a, last, set)
       PROVE  IF c \in obsolete THEN Known(b, last, set)
              ELSE p <= last + 1 => Known(b, p - 1, set)
  <2>1. \A k \in 1 .. n : a.list[k] \in set \/ k \in last + 1 .. u
    BY <1>1, <1>17 DEF Known, u
  <2>2. CASE c \in obsolete
    <3>1. \A k \in 1 .. n - 1 : t[k] \in set \/ k \in last + 1 .. u
      BY <1>1, <1>2, <1>4, <1>9, <2>1, <2>2, SMTT(60)
    <3>. QED
      BY <1>8, <1>10, <2>2, <3>1 DEF Known, t
  <2>3. CASE c \notin obsolete /\ p <= last + 1
    <3>1. \A k \in 1 .. n - 1 : t[k] \in set \/ k \in p - 1 + 1 .. u - 1
      BY <1>1, <1>2, <1>4, <1>9, <2>1, <2>3
    <3>. QED
      BY <1>8, <1>10, <2>3, <3>1 DEF Known, t
  <2>. QED
    BY <2>2, <2>3
<1>18. c \notin obsolete => p \in 1 .. u
  BY <1>1, <1>2, <1>4
<1>. QED
  BY <1>8, <1>15, <1>16, <1>17, <1>18 DEF b, u, p

LEMMA ToMarkedParted ==
  ASSUME NEW a \in MarkedArray, NEW members, NEW obsolete, NEW marked,
         Parted(a, members, obsolete), Front(a, marked),
         NEW c \in Conss, c \in members, c \notin obsolete, c \notin marked
  PROVE  LET b == ToMarked(a, c)
         IN  /\ b \in MarkedArray
             /\ Parted(b, members, obsolete)
             /\ Front(b, marked \union {c})
<1>. DEFINE p == Pos(a, c)
            s == Switched(a, p, a.marked + 1)
            b == ToMarked(a, c)
<1>1. /\ a \in AnyArray /\ a.list \in Seq(Conss) /\ Len(a.list) \in Nat
      /\ DOMAIN a.list = 1 .. Len(a.list)
      /\ p \in 1 .. Len(a.list) /\ a.list[p] = c
      /\ a.marked \in Nat /\ a.marked < p /\ p <= a.useful
      /\ a.useful \in 0 .. Len(a.list)
  BY PosFound, LenProperties DEF Parted, Front, AnyArray
<1>2. a.marked + 1 \in 1 .. Len(a.list) /\ a.marked + 1 <= a.useful
  BY <1>1
<1>3. b = [s EXCEPT !.marked = s.marked + 1]
  BY DEF ToMarked
<1>. HIDE DEF p, b
<1>4. Parted(s, members, obsolete)
  BY <1>1, <1>2, SwitchedParted
<1>5. Front(s, marked)
  BY <1>1, <1>2, SwitchedFront
<1>6. /\ s \in MarkedArray /\ s.useful = a.useful /\ s.marked = a.marked
      /\ Len(s.list) = Len(a.list) /\ s.list[a.marked + 1] = c
  BY <1>1, <1>2, SwitchedList DEF SameKind
<1>. HIDE DEF s
<1>7. /\ b \in MarkedArray /\ b.list = s.list
      /\ b.useful = s.useful /\ b.marked = a.marked + 1
  BY <1>1, <1>3, <1>6, SMTT(60) DEF MarkedArray
<1>8. Parted(b, members, obsolete)
  BY <1>4, <1>7 DEF Parted
<1>9. Front(b, marked \union {c})
  <2>1. DOMAIN s.list = 1 .. Len(a.list)
    BY <1>4, <1>6, LenProperties DEF Parted
  <2>2. ASSUME NEW k \in 1 .. Len(a.list)
        PROVE  k <= a.marked + 1 <=> s.list[k] \in marked \union {c}
    <3>1. s.list[k] = c => k = a.marked + 1
      BY <1>2, <1>4, <1>6, <2>1 DEF Parted
    <3>2. k <= a.marked <=> s.list[k] \in marked
      BY <1>5, <1>6, <2>1 DEF Front
    <3>. QED
      BY <1>1, <1>6, <3>1, <3>2
  <2>. QED
    BY <1>1, <1>2, <1>6, <1>7, <2>1, <2>2 DEF Front
<1>. QED
  BY <1>7, <1>8, <1>9 DEF b

LEMMA ToUnmarkedParted ==
  ASSUME NEW a \in MarkedArray, NEW members, NEW obsolete, NEW marked,
         Parted(a, members, obsolete), Front(a, marked),
         NEW c \in Conss, c \in members, c \in marked
  PROVE  LET b == ToUnmarked(a, c)
         IN  /\ b \in MarkedArray
             /\ Parted(b, members, obsolete)
             /\ Front(b, marked \ {c})
<1>. DEFINE p == Pos(a, c)
            s == Switched(a, p, a.marked)
            b == ToUnmarked(a, c)
<1>1. /\ a \in AnyArray /\ a.list \in Seq(Conss) /\ Len(a.list) \in Nat
      /\ DOMAIN a.list = 1 .. Len(a.list)
      /\ p \in 1 .. Len(a.list) /\ a.list[p] = c
      /\ a.marked \in 1 .. a.useful /\ p <= a.marked
      /\ a.useful \in 0 .. Len(a.list)
  BY PosFound, LenProperties DEF Parted, Front, AnyArray
<1>2. a.marked \in 1 .. Len(a.list) /\ a.marked <= a.useful
  BY <1>1
<1>3. b = [s EXCEPT !.marked = s.marked - 1]
  BY DEF ToUnmarked
<1>. HIDE DEF p, b
<1>4. Parted(s, members, obsolete)
  BY <1>1, <1>2, SwitchedParted
<1>5. Front(s, marked)
  BY <1>1, <1>2, SwitchedFront
<1>6. /\ s \in MarkedArray /\ s.useful = a.useful /\ s.marked = a.marked
      /\ Len(s.list) = Len(a.list) /\ s.list[a.marked] = c
  BY <1>1, <1>2, SwitchedList DEF SameKind
<1>. HIDE DEF s
<1>7. /\ b \in MarkedArray /\ b.list = s.list
      /\ b.useful = s.useful /\ b.marked = a.marked - 1
  BY <1>1, <1>3, <1>6, SMTT(60) DEF MarkedArray
<1>8. Parted(b, members, obsolete)
  BY <1>4, <1>7 DEF Parted
<1>9. Front(b, marked \ {c})
  <2>1. DOMAIN s.list = 1 .. Len(a.list)
    BY <1>4, <1>6, LenProperties DEF Parted
  <2>2. ASSUME NEW k \in 1 .. Len(a.list)
        PROVE  k <= a.marked - 1 <=> s.list[k] \in marked \ {c}
    <3>1. s.list[k] = c => k = a.marked
      BY <1>2, <1>4, <1>6, <2>1, SMTT(60) DEF Parted
    <3>2. k <= a.marked <=> s.list[k] \in marked
      BY <1>5, <1>6, <2>1 DEF Front
    <3>. QED
      BY <1>1, <1>6, <3>1, <3>2
  <2>. QED
    BY <1>1, <1>2, <1>6, <1>7, <2>1, <2>2 DEF Front
<1>. QED
  BY <1>7, <1>8, <1>9 DEF b
\* The same four changes, for the array with marks.
LEMMA ToObsoleteMarked ==
  ASSUME NEW a \in MarkedArray, NEW members, NEW obsolete, NEW marked,
         Parted(a, members, obsolete), Front(a, marked),
         NEW c \in Conss, c \in members \ obsolete, c \notin marked
  PROVE  LET b == ToObsolete(a, c)
         IN  b \in MarkedArray /\ Parted(b, members, obsolete \union {c}) /\ Front(b, marked)
<1>. DEFINE b == ToObsolete(a, c)
<1>1. a \in AnyArray
  BY DEF AnyArray
<1>2. /\ SameKind(a, b)
      /\ Parted(b, members, obsolete \union {c})
      /\ (a \in MarkedArray /\ Front(a, marked) /\ c \notin marked) => Front(b, marked)
  BY <1>1, ToObsoleteParted
<1>. QED
  BY <1>2 DEF SameKind

LEMMA ToUsefulMarked ==
  ASSUME NEW a \in MarkedArray, NEW members, NEW obsolete, NEW marked,
         Parted(a, members, obsolete), Front(a, marked),
         NEW c \in Conss, c \in members \intersect obsolete, c \notin marked
  PROVE  LET b == ToUseful(a, c)
         IN  b \in MarkedArray /\ Parted(b, members, obsolete \ {c}) /\ Front(b, marked)
<1>. DEFINE b == ToUseful(a, c)
<1>1. a \in AnyArray
  BY DEF AnyArray
<1>2. /\ SameKind(a, b)
      /\ Parted(b, members, obsolete \ {c})
      /\ (a \in MarkedArray /\ Front(a, marked) /\ c \notin marked) => Front(b, marked)
  BY <1>1, ToUsefulParted
<1>. QED
  BY <1>2 DEF SameKind

LEMMA AddedMarked ==
  ASSUME NEW a \in MarkedArray, NEW members, NEW obsolete, NEW marked,
         Parted(a, members, obsolete), Front(a, marked),
         NEW c \in Conss, c \notin members, c \notin marked
  PROVE  LET b == Added(a, c, c \in obsolete)
         IN  b \in MarkedArray /\ Parted(b, members \union {c}, obsolete) /\ Front(b, marked)
<1>. DEFINE b == Added(a, c, c \in obsolete)
<1>1. a \in AnyArray
  BY DEF AnyArray
<1>2. /\ SameKind(a, b)
      /\ Parted(b, members \union {c}, obsolete)
      /\ (a \in MarkedArray /\ Front(a, marked) /\ c \notin marked) => Front(b, marked)
  BY <1>1, AddedParted
<1>. QED
  BY <1>2 DEF SameKind

LEMMA DeletedMarked ==
  ASSUME NEW a \in MarkedArray, NEW members, NEW obsolete, NEW marked,
         Parted(a, members, obsolete), Front(a, marked),
         NEW c \in Conss, c \in members, c \notin marked
  PROVE  LET b == Deleted(a, c, c \in obsolete)
         IN  b \in MarkedArray /\ Parted(b, members \ {c}, obsolete) /\ Front(b, marked)
<1>. DEFINE b == Deleted(a, c, c \in obsolete)
<1>1. a \in AnyArray
  BY DEF AnyArray
<1>2. /\ SameKind(a, b)
      /\ Parted(b, members \ {c}, obsolete)
      /\ (a \in MarkedArray /\ Front(a, marked) /\ c \notin marked) => Front(b, marked)
  BY <1>1, DeletedParted
<1>. QED
  BY <1>2 DEF SameKind

\* The same, for an array without marks.
LEMMA ToObsoletePlain ==
  ASSUME NEW a \in Array, NEW members, NEW obsolete, Parted(a, members, obsolete),
         NEW c \in Conss, c \in members \ obsolete
  PROVE  LET b == ToObsolete(a, c)
         IN  b \in Array /\ Parted(b, members, obsolete \union {c})
<1>. DEFINE b == ToObsolete(a, c)
<1>1. a \in AnyArray
  BY DEF AnyArray
<1>2. SameKind(a, b) /\ Parted(b, members, obsolete \union {c})
  BY <1>1, ToObsoleteParted
<1>. QED
  BY <1>2 DEF SameKind

LEMMA AddedPlain ==
  ASSUME NEW a \in Array, NEW members, NEW obsolete, Parted(a, members, obsolete),
         NEW c \in Conss, c \notin members
  PROVE  LET b == Added(a, c, c \in obsolete)
         IN  b \in Array /\ Parted(b, members \union {c}, obsolete)
<1>. DEFINE b == Added(a, c, c \in obsolete)
<1>1. a \in AnyArray
  BY DEF AnyArray
<1>2. SameKind(a, b) /\ Parted(b, members \union {c}, obsolete)
  BY <1>1, AddedParted
<1>. QED
  BY <1>2 DEF SameKind

LEMMA DeletedPlain ==
  ASSUME NEW a \in Array, NEW members, NEW obsolete, Parted(a, members, obsolete),
         NEW c \in Conss, c \in members
  PROVE  LET b == Deleted(a, c, c \in obsolete)
         IN  b \in Array /\ Parted(b, members \ {c}, obsolete)
<1>. DEFINE b == Deleted(a, c, c \in obsolete)
<1>1. a \in AnyArray
  BY DEF AnyArray
<1>2. SameKind(a, b) /\ Parted(b, members \ {c}, obsolete)
  BY <1>1, DeletedParted
<1>. QED
  BY <1>2 DEF SameKind

LEMMA ToUsefulPlain ==
  ASSUME NEW a \in Array, NEW members, NEW obsolete, Parted(a, members, obsolete),
         NEW c \in Conss, c \in members \intersect obsolete,
         NEW last \in 0 .. a.useful, NEW set
  PROVE  LET b == ToUseful(a, c)
         IN  /\ b \in Array /\ Parted(b, members, obsolete \ {c})
             /\ last \in 0 .. b.useful
             /\ Known(a, last, set) => Known(b, last, set)
<1>. DEFINE b == ToUseful(a, c)
<1>1. a \in AnyArray /\ a.useful \in Nat
  BY DEF AnyArray, Array
<1>2. /\ SameKind(a, b) /\ Parted(b, members, obsolete \ {c})
      /\ b.useful = a.useful + 1
      /\ Known(a, last, set) => Known(b, last, set)
  BY <1>1, ToUsefulParted
<1>. QED
  BY <1>1, <1>2 DEF SameKind

\* Whether a constraint that is not in the array is obsolete does not matter.
LEMMA PartedElsewhere ==
  ASSUME NEW a, NEW members, NEW obsolete, Parted(a, members, obsolete),
         NEW c \in Conss, c \notin members, NEW others, others \ {c} = obsolete \ {c}
  PROVE  Parted(a, members, others)
<1>1. \A i \in DOMAIN a.list : a.list[i] # c
  BY DEF Parted
<1>2. \A i \in DOMAIN a.list : a.list[i] \in others <=> a.list[i] \in obsolete
  BY <1>1
<1>. QED
  BY <1>2 DEF Parted

-----------------------------------------------------------------------------
(* The parts of a handler g, and what the changes of it do to them.        *)

InPropOf(g) == g.enabled \intersect g.flags.propagate \intersect g.propenabled

PropOk(g, members) ==
  /\ Parted(g.prop, members, g.obsolete \ g.marked)
  /\ Front(g.prop, g.marked)

\* set: the constraints enforced on each current solution.
EnfoOk(g, members, set) ==
  /\ Parted(g.enfo, members, g.obsolete)
  /\ g.last \in 0 .. g.enfo.useful
  /\ KnownOn(g.counted \ g.unsettled, g.enfo, g.last, set)

\* The arrays of g are what its flags say.
ArraysOk(g, set) ==
  /\ g \in Handler
  /\ g.enabled \subseteq g.active
  /\ Parted(g.check, g.active \intersect g.flags.check, g.obsolete)
  /\ EnfoOk(g, g.enabled \intersect g.flags.enforce, set)
  /\ PropOk(g, InPropOf(g))

FlagsAre(g, r, active, enabled, propenabled, obsolete) ==
  /\ r.active = active
  /\ r.enabled = enabled
  /\ r.propenabled = propenabled
  /\ r.obsolete = obsolete
  /\ r.flags = g.flags
  /\ r.old = g.old

SameFlags(g, r) == FlagsAre(g, r, g.active, g.enabled, g.propenabled, g.obsolete)

SameEnfo(g, r) ==
  /\ r.enfo = g.enfo
  /\ r.last = g.last
  /\ r.counted = g.counted
  /\ r.unsettled = g.unsettled

SameProp(g, r) == r.prop = g.prop /\ r.marked = g.marked

\* Only the marks and the array of the propagation change.
OnlyProp(g, r) ==
  r \in Handler /\ SameFlags(g, r) /\ r.check = g.check /\ SameEnfo(g, r)

\* Only the array of the enforcement, and what is kept about it, changes.
OnlyEnfo(g, r) ==
  r \in Handler /\ SameFlags(g, r) /\ r.check = g.check /\ SameProp(g, r)

\* Put a marked array and marks into a handler.
WithProp(g, prop, marked) == [g EXCEPT !.prop = prop, !.marked = marked]

LEMMA WithPropFields ==
  ASSUME NEW g \in Handler, NEW a \in MarkedArray, NEW m \in SUBSET Conss
  PROVE  LET r == WithProp(g, a, m)
         IN  OnlyProp(g, r) /\ r.prop = a /\ r.marked = m
BY DEF WithProp, OnlyProp, SameFlags, FlagsAre, SameEnfo, Handler

LEMMA MarkConsPropagateOk ==
  ASSUME NEW g \in Handler, NEW c \in Conss, PropOk(g, InPropOf(g))
  PROVE  LET r == MarkConsPropagate(g, c)
         IN  OnlyProp(g, r) /\ PropOk(r, InPropOf(g))
<1>. DEFINE r == MarkConsPropagate(g, c)
            a == IF c \in g.obsolete THEN ToUseful(g.prop, c) ELSE g.prop
            m == g.marked \union {c}
<1>1. CASE c \notin g.enabled \/ c \in g.marked
  BY <1>1 DEF MarkConsPropagate, OnlyProp, SameFlags, FlagsAre, SameEnfo
<1>2. CASE ~(c \notin g.enabled \/ c \in g.marked) /\ c \notin InPropOf(g)
  <2>1. r = WithProp(g, g.prop, m)
    BY <1>2 DEF MarkConsPropagate, WithProp, InPropOf, Handler
  <2>2. OnlyProp(g, r) /\ r.prop = g.prop /\ r.marked = m
    BY <2>1, WithPropFields DEF Handler
  <2>3. \A i \in DOMAIN g.prop.list : g.prop.list[i] # c
    BY <1>2 DEF PropOk, Parted
  <2>4. PropOk(r, InPropOf(g))
    BY <2>2, <2>3 DEF PropOk, Parted, Front, OnlyProp, SameFlags, FlagsAre
  <2>. QED
    BY <2>2, <2>4
<1>3. CASE ~(c \notin g.enabled \/ c \in g.marked) /\ c \in InPropOf(g)
  <2>1. r = WithProp(g, ToMarked(a, c), m)
    BY <1>3 DEF MarkConsPropagate, WithProp, InPropOf, Handler
  <2>2. /\ a \in MarkedArray
        /\ Parted(a, InPropOf(g), (g.obsolete \ g.marked) \ {c})
        /\ Front(a, g.marked)
    <3>1. CASE c \in g.obsolete
      <4>1. a = ToUseful(g.prop, c)
        BY <3>1
      <4>. HIDE DEF a
      <4>2. g.prop \in AnyArray /\ g.prop \in MarkedArray
        BY DEF AnyArray, Handler
      <4>. QED
        BY <1>3, <3>1, <4>1, <4>2, ToUsefulMarked, SMTT(60) DEF PropOk
    <3>2. CASE c \notin g.obsolete
      <4>1. (g.obsolete \ g.marked) \ {c} = g.obsolete \ g.marked
        BY <3>2
      <4>. QED
        BY <3>2, <4>1 DEF PropOk, Handler
    <3>. QED
      BY <3>1, <3>2
  <2>. HIDE DEF a
  <2>3. /\ ToMarked(a, c) \in MarkedArray
        /\ Parted(ToMarked(a, c), InPropOf(g), (g.obsolete \ g.marked) \ {c})
        /\ Front(ToMarked(a, c), m)
    BY <1>3, <2>2, ToMarkedParted
  <2>4. OnlyProp(g, r) /\ r.prop = ToMarked(a, c) /\ r.marked = m
    BY <2>1, <2>3, WithPropFields DEF Handler
  <2>5. (g.obsolete \ g.marked) \ {c} = g.obsolete \ m
    OBVIOUS
  <2>. QED
    BY <2>3, <2>4, <2>5 DEF PropOk, OnlyProp, SameFlags, FlagsAre, SameEnfo
<1>. QED
  BY <1>1, <1>2, <1>3

LEMMA UnmarkConsPropagateOk ==
  ASSUME NEW g \in Handler, NEW c \in Conss, PropOk(g, InPropOf(g))
  PROVE  LET r == UnmarkConsPropagate(g, c)
         IN  /\ OnlyProp(g, r) /\ PropOk(r, InPropOf(g))
             /\ c \in g.enabled => c \notin r.marked
<1>. DEFINE r == UnmarkConsPropagate(g, c)
            u == ToUnmarked(g.prop, c)
            a == IF c \in g.obsolete THEN ToObsolete(u, c) ELSE u
            m == g.marked \ {c}
<1>1. CASE c \notin g.enabled \intersect g.marked
  BY <1>1 DEF UnmarkConsPropagate, OnlyProp, SameFlags, FlagsAre, SameEnfo
<1>2. CASE c \in g.enabled \intersect g.marked /\ c \notin InPropOf(g)
  <2>1. r = WithProp(g, g.prop, m)
    BY <1>2 DEF UnmarkConsPropagate, WithProp, InPropOf, Handler
  <2>2. OnlyProp(g, r) /\ r.prop = g.prop /\ r.marked = m
    BY <2>1, WithPropFields DEF Handler
  <2>3. \A i \in DOMAIN g.prop.list : g.prop.list[i] # c
    BY <1>2 DEF PropOk, Parted
  <2>4. PropOk(r, InPropOf(g))
    BY <2>2, <2>3 DEF PropOk, Parted, Front, OnlyProp, SameFlags, FlagsAre
  <2>. QED
    BY <2>2, <2>4
<1>3. CASE c \in g.enabled \intersect g.marked /\ c \in InPropOf(g)
  <2>1. r = WithProp(g, a, m)
    BY <1>3 DEF UnmarkConsPropagate, WithProp, InPropOf, Handler
  <2>2. /\ u \in MarkedArray
        /\ Parted(u, InPropOf(g), g.obsolete \ g.marked)
        /\ Front(u, m)
    BY <1>3, ToUnmarkedParted DEF PropOk, Handler
  <2>. HIDE DEF u
  <2>3. /\ a \in MarkedArray
        /\ Parted(a, InPropOf(g), g.obsolete \ m)
        /\ Front(a, m)
    <3>1. CASE c \in g.obsolete
      <4>1. g.obsolete \ m = (g.obsolete \ g.marked) \union {c}
        BY <3>1
      <4>. QED
        BY <1>3, <2>2, <3>1, <4>1, ToObsoleteMarked
    <3>2. CASE c \notin g.obsolete
      <4>1. g.obsolete \ m = g.obsolete \ g.marked
        BY <3>2
      <4>. QED
        BY <2>2, <3>2, <4>1
    <3>. QED
      BY <3>1, <3>2
  <2>. HIDE DEF a
  <2>4. OnlyProp(g, r) /\ r.prop = a /\ r.marked = m
    BY <2>1, <2>3, WithPropFields DEF Handler
  <2>. QED
    BY <2>3, <2>4 DEF PropOk, OnlyProp, SameFlags, FlagsAre, SameEnfo
<1>. QED
  BY <1>1, <1>2, <1>3

LEMMA AddPropconsOk ==
  ASSUME NEW g \in Handler, NEW c \in Conss, NEW members,
         PropOk(g, members), c \notin members, c \in InPropOf(g)
  PROVE  LET r == AddPropcons(g, c)
         IN  OnlyProp(g, r) /\ PropOk(r, members \union {c})
<1>. DEFINE r == AddPropcons(g, c)
            a == Added(g.prop, c, c \in g.obsolete)
            b == IF c \in g.obsolete THEN ToUseful(a, c) ELSE a
<1>1. g.prop \in AnyArray /\ g.prop \in MarkedArray /\ g.marked \subseteq Conss
  BY DEF AnyArray, Handler
<1>2. CASE c \in g.marked
  <2>0. \A i \in DOMAIN g.prop.list : g.prop.list[i] # c
    BY DEF PropOk, Parted
  <2>1. /\ a \in MarkedArray
        /\ Parted(a, members \union {c}, g.obsolete \ (g.marked \ {c}))
        /\ Front(a, g.marked \ {c})
    <3>1. Parted(g.prop, members, g.obsolete \ (g.marked \ {c}))
      BY <2>0 DEF PropOk, Parted
    <3>2. Front(g.prop, g.marked \ {c})
      BY <2>0 DEF PropOk, Front
    <3>3. c \in g.obsolete <=> c \in g.obsolete \ (g.marked \ {c})
      OBVIOUS
    <3>4. a = Added(g.prop, c, c \in g.obsolete \ (g.marked \ {c}))
      BY <3>3 DEF Added
    <3>. HIDE DEF a
    <3>. QED
      BY <1>1, <3>1, <3>2, <3>4, AddedMarked
  <2>2. r = WithProp(g, ToMarked(b, c), g.marked)
    <3>. DEFINE on == [[g EXCEPT !.prop = a] EXCEPT !.marked = @ \ {c}]
    <3>1. r = MarkConsPropagate(on, c)
      BY <1>2 DEF AddPropcons
    <3>2. on = WithProp(g, a, g.marked \ {c})
      BY DEF WithProp, Handler
    <3>. HIDE DEF on, a, b
    <3>3. OnlyProp(g, on) /\ on.prop = a /\ on.marked = g.marked \ {c}
      BY <1>1, <2>1, <3>2, WithPropFields
    <3>4. /\ c \in on.enabled /\ c \notin on.marked
          /\ c \in on.flags.propagate \intersect on.propenabled
          /\ on.marked \union {c} = g.marked
          /\ on.obsolete = g.obsolete
      BY <1>2, <3>3 DEF OnlyProp, SameFlags, FlagsAre, InPropOf
    <3>5. r = WithProp(on, ToMarked(b, c), g.marked)
      BY <3>1, <3>3, <3>4 DEF MarkConsPropagate, WithProp, b, OnlyProp, Handler
    <3>. QED
      BY <3>2, <3>5 DEF WithProp, Handler
  <2>. HIDE DEF a
  <2>3. /\ b \in MarkedArray
        /\ Parted(b, members \union {c}, g.obsolete \ g.marked)
        /\ Front(b, g.marked \ {c})
    <3>1. CASE c \in g.obsolete
      <4>1. g.obsolete \ g.marked = (g.obsolete \ (g.marked \ {c})) \ {c}
        BY <1>2
      <4>. QED
        BY <1>2, <2>1, <3>1, <4>1, ToUsefulMarked
    <3>2. CASE c \notin g.obsolete
      <4>1. g.obsolete \ g.marked = g.obsolete \ (g.marked \ {c})
        BY <3>2
      <4>. QED
        BY <2>1, <3>2, <4>1
    <3>. QED
      BY <3>1, <3>2
  <2>. HIDE DEF b
  <2>4. /\ ToMarked(b, c) \in MarkedArray
        /\ Parted(ToMarked(b, c), members \union {c}, g.obsolete \ g.marked)
        /\ Front(ToMarked(b, c), (g.marked \ {c}) \union {c})
    BY <1>2, <2>3, ToMarkedParted
  <2>5. OnlyProp(g, r) /\ r.prop = ToMarked(b, c) /\ r.marked = g.marked
    BY <1>1, <2>2, <2>4, WithPropFields
  <2>6. (g.marked \ {c}) \union {c} = g.marked
    BY <1>2
  <2>. QED
    BY <2>4, <2>5, <2>6 DEF PropOk, OnlyProp, SameFlags, FlagsAre, SameEnfo
<1>3. CASE c \notin g.marked
  <2>1. r = WithProp(g, a, g.marked)
    BY <1>3 DEF AddPropcons, WithProp, Handler
  <2>2. a = Added(g.prop, c, c \in g.obsolete \ g.marked)
    BY <1>3 DEF Added
  <2>. HIDE DEF a
  <2>3. /\ a \in MarkedArray
        /\ Parted(a, members \union {c}, g.obsolete \ g.marked)
        /\ Front(a, g.marked)
    BY <1>1, <1>3, <2>2, AddedMarked DEF PropOk
  <2>4. OnlyProp(g, r) /\ r.prop = a /\ r.marked = g.marked
    BY <1>1, <2>1, <2>3, WithPropFields
  <2>. QED
    BY <2>3, <2>4 DEF PropOk, OnlyProp, SameFlags, FlagsAre, SameEnfo
<1>. QED
  BY <1>2, <1>3

LEMMA DelPropconsOk ==
  ASSUME NEW g \in Handler, NEW c \in Conss,
         PropOk(g, InPropOf(g)), c \in InPropOf(g)
  PROVE  LET r == DelPropcons(g, c)
         IN  OnlyProp(g, r) /\ PropOk(r, InPropOf(g) \ {c})
<1>. DEFINE r == DelPropcons(g, c)
            u == UnmarkConsPropagate(g, c)
            a == Deleted(u.prop, c, c \in g.obsolete)
<1>1. OnlyProp(g, u) /\ PropOk(u, InPropOf(g)) /\ c \notin u.marked
  BY UnmarkConsPropagateOk DEF InPropOf
<1>2. u \in Handler /\ u.obsolete = g.obsolete
  BY <1>1 DEF OnlyProp, SameFlags, FlagsAre
<1>3. r = [u EXCEPT !.prop = a]
  BY DEF DelPropcons
<1>. HIDE DEF u, r
<1>4. r = WithProp(u, a, u.marked)
  BY <1>2, <1>3 DEF WithProp, Handler
<1>5. /\ a \in MarkedArray
      /\ Parted(a, InPropOf(g) \ {c}, g.obsolete \ u.marked)
      /\ Front(a, u.marked)
  <2>1. a = Deleted(u.prop, c, c \in g.obsolete \ u.marked)
    BY <1>1 DEF Deleted
  <2>2. u.prop \in AnyArray /\ u.prop \in MarkedArray
    BY <1>2 DEF AnyArray, Handler
  <2>. HIDE DEF a
  <2>3. Parted(u.prop, InPropOf(g), g.obsolete \ u.marked) /\ Front(u.prop, u.marked)
    BY <1>1, <1>2 DEF PropOk
  <2>. QED
    BY <1>1, <2>1, <2>2, <2>3, DeletedMarked
<1>. HIDE DEF a
<1>6. OnlyProp(u, r) /\ r.prop = a /\ r.marked = u.marked
  BY <1>2, <1>4, <1>5, WithPropFields DEF Handler
<1>. QED
  BY <1>1, <1>5, <1>6 DEF PropOk, OnlyProp, SameFlags, FlagsAre, SameEnfo, r
\* Put an array of the enforcement, and what is kept about it, into a handler.
WithEnfo(g, enfo, last, counted, unsettled) ==
  [g EXCEPT !.enfo = enfo, !.last = last, !.counted = counted,
            !.unsettled = unsettled]

LEMMA WithEnfoFields ==
  ASSUME NEW g \in Handler, NEW a \in Array, NEW last \in Nat,
         NEW counted \in SUBSET Solutions, NEW unsettled \in SUBSET Solutions
  PROVE  LET r == WithEnfo(g, a, last, counted, unsettled)
         IN  /\ OnlyEnfo(g, r) /\ r.enfo = a /\ r.last = last
             /\ r.counted = counted /\ r.unsettled = unsettled
BY DEF WithEnfo, OnlyEnfo, SameFlags, FlagsAre, SameProp, Handler

LEMMA AddEnfoconsOk ==
  ASSUME NEW g \in Handler, NEW c \in Conss, NEW members, NEW set,
         EnfoOk(g, members, set), c \notin members
  PROVE  LET r == AddEnfocons(g, c)
         IN  OnlyEnfo(g, r) /\ EnfoOk(r, members \union {c}, set)
<1>. DEFINE r == AddEnfocons(g, c)
            a == Added(g.enfo, c, c \in g.obsolete)
            counted == IF c \in g.obsolete THEN {} ELSE g.counted
            unsettled == IF c \in g.obsolete THEN {} ELSE g.unsettled
<1>1. g.enfo \in AnyArray /\ g.enfo \in Array /\ g.last \in Nat
  BY DEF AnyArray, Handler
<1>2. /\ a \in Array
      /\ Parted(a, members \union {c}, g.obsolete)
      /\ g.enfo.useful <= a.useful
      /\ \A S : Known(g.enfo, g.last, S) /\ c \notin g.obsolete => Known(a, g.last, S)
  BY <1>1, AddedParted DEF EnfoOk, SameKind
<1>3. r = WithEnfo(g, a, g.last, counted, unsettled)
  BY DEF AddEnfocons, WithEnfo, Handler
<1>4. counted \in SUBSET Solutions /\ unsettled \in SUBSET Solutions
  BY DEF Handler
<1>5. ASSUME NEW s \in counted \ unsettled
      PROVE  Known(a, g.last, set[s])
  <2>1. c \notin g.obsolete /\ s \in g.counted \ g.unsettled
    BY <1>5
  <2>2. Known(g.enfo, g.last, set[s])
    BY <2>1 DEF EnfoOk, KnownOn
  <2>. QED
    BY <1>2, <2>1, <2>2
<1>. HIDE DEF a, r, counted, unsettled
<1>6. /\ OnlyEnfo(g, r) /\ r.enfo = a /\ r.last = g.last
      /\ r.counted = counted /\ r.unsettled = unsettled
  BY <1>1, <1>2, <1>3, <1>4, WithEnfoFields
<1>7. g.last \in 0 .. a.useful
  BY <1>1, <1>2 DEF EnfoOk, Array
<1>. QED
  BY <1>2, <1>5, <1>6, <1>7 DEF EnfoOk, KnownOn, OnlyEnfo, SameFlags, FlagsAre, r

LEMMA DelEnfoconsOk ==
  ASSUME NEW g \in Handler, NEW c \in Conss, NEW members, NEW set,
         EnfoOk(g, members, set), c \in members
  PROVE  LET r == DelEnfocons(g, c)
         IN  OnlyEnfo(g, r) /\ EnfoOk(r, members \ {c}, set)
<1>. DEFINE r == DelEnfocons(g, c)
            a == Deleted(g.enfo, c, c \in g.obsolete)
            p == Pos(g.enfo, c)
            last == IF c \in g.obsolete THEN g.last ELSE p - 1
            unsettled == IF c \notin g.obsolete /\ p > g.last + 1
                         THEN g.counted ELSE g.unsettled
<1>1. g.enfo \in AnyArray /\ g.enfo \in Array /\ g.last \in Nat /\ g.enfo.useful \in Nat
  BY DEF AnyArray, Handler, Array
<1>2. /\ a \in Array
      /\ Parted(a, members \ {c}, g.obsolete)
      /\ a.useful = IF c \in g.obsolete THEN g.enfo.useful ELSE g.enfo.useful - 1
      /\ c \notin g.obsolete => p \in 1 .. g.enfo.useful
      /\ \A S : Known(g.enfo, g.last, S) /\ c \in g.obsolete => Known(a, g.last, S)
      /\ \A S : Known(g.enfo, g.last, S) /\ c \notin g.obsolete /\ p <= g.last + 1
                 => Known(a, p - 1, S)
  <2>. DEFINE e == g.enfo
              l == g.last
  <2>1. e \in AnyArray /\ Parted(e, members, g.obsolete) /\ l \in 0 .. e.useful
    BY <1>1 DEF EnfoOk
  <2>2. a = Deleted(e, c, c \in g.obsolete) /\ p = Pos(e, c) /\ e \in Array
    BY <1>1
  <2>3. e = g.enfo /\ l = g.last
    OBVIOUS
  <2>. HIDE DEF a, p, e, l
  <2>4. SameKind(e, a) /\ Parted(a, members \ {c}, g.obsolete)
    BY <2>1, <2>2, DeletedParted
  <2>6. c \notin g.obsolete => p \in 1 .. e.useful
    BY <2>1, <2>2, DeletedParted
  <2>7. /\ c \in g.obsolete => a.useful = e.useful
        /\ c \notin g.obsolete => a.useful = e.useful - 1
    BY <2>2 DEF Deleted, Array
  <2>5. /\ \A S : Known(e, l, S) /\ c \in g.obsolete => Known(a, l, S)
        /\ \A S : Known(e, l, S) /\ c \notin g.obsolete /\ p <= l + 1
                   => Known(a, p - 1, S)
    BY <2>1, <2>2, DeletedParted
  <2>. QED
    BY <2>2, <2>3, <2>4, <2>5, <2>6, <2>7 DEF SameKind
<1>. HIDE DEF p
<1>3. c \notin g.obsolete => LastAfterDel(g, p) = p - 1
  BY <1>1, <1>2 DEF LastAfterDel, EnfoOk
<1>4. r = WithEnfo(g, a, last, g.counted, unsettled)
  BY <1>3 DEF DelEnfocons, WithEnfo, Handler, p
<1>5. last \in 0 .. a.useful /\ last \in Nat
  BY <1>1, <1>2 DEF EnfoOk
<1>6. g.counted \in SUBSET Solutions /\ unsettled \in SUBSET Solutions
  BY DEF Handler
<1>. HIDE DEF a, r, last, unsettled
<1>7. /\ OnlyEnfo(g, r) /\ r.enfo = a /\ r.last = last
      /\ r.counted = g.counted /\ r.unsettled = unsettled
  BY <1>2, <1>4, <1>5, <1>6, WithEnfoFields
<1>8. ASSUME NEW s \in g.counted \ unsettled
      PROVE  Known(a, last, set[s])
  <2>1. /\ s \in g.counted \ g.unsettled
        /\ c \in g.obsolete \/ ~(p > g.last + 1)
    BY <1>8 DEF unsettled
  <2>2. Known(g.enfo, g.last, set[s])
    BY <2>1 DEF EnfoOk, KnownOn
  <2>3. CASE c \in g.obsolete
    BY <1>2, <2>2, <2>3 DEF last
  <2>4. CASE c \notin g.obsolete
    <3>1. p <= g.last + 1
      BY <1>1, <1>2, <2>1, <2>4
    <3>. QED
      BY <1>2, <2>2, <2>4, <3>1 DEF last
  <2>. QED
    BY <2>3, <2>4
<1>. QED
  BY <1>2, <1>5, <1>7, <1>8 DEF EnfoOk, KnownOn, OnlyEnfo, SameFlags, FlagsAre, r

\* g holds the constraint c as obsolete, its array does not yet.
LEMMA EnfoObsoleteOk ==
  ASSUME NEW g \in Handler, NEW c \in Conss, NEW members, NEW set, NEW before,
         Parted(g.enfo, members, before), g.last \in 0 .. g.enfo.useful,
         KnownOn(g.counted \ g.unsettled, g.enfo, g.last, set),
         g.obsolete = before \union {c}, c \in members \ before
  PROVE  LET r == EnfoObsolete(g, c)
         IN  OnlyEnfo(g, r) /\ EnfoOk(r, members, set)
<1>. DEFINE r == EnfoObsolete(g, c)
            a == ToObsolete(g.enfo, c)
            p == Pos(g.enfo, c)
            last == IF p <= g.last THEN g.last - 1 ELSE g.last
            counted == IF p <= g.last THEN g.counted ELSE {}
            unsettled == IF p > g.last THEN {}
                         ELSE IF g.last < g.enfo.useful THEN g.counted ELSE g.unsettled
<1>1. g.enfo \in AnyArray /\ g.enfo \in Array /\ g.last \in Nat /\ g.enfo.useful \in Nat
  BY DEF AnyArray, Handler, Array
<1>2. /\ a \in Array
      /\ Parted(a, members, before \union {c})
      /\ a.useful = g.enfo.useful - 1
      /\ \A S : Known(g.enfo, g.enfo.useful, S) => Known(a, a.useful, S)
  BY <1>1, ToObsoleteParted DEF SameKind
<1>3. p \in 1 .. g.enfo.useful
  <2>1. /\ \E i \in DOMAIN g.enfo.list : g.enfo.list[i] = c
        /\ DOMAIN g.enfo.list = 1 .. Len(g.enfo.list)
        /\ Len(g.enfo.list) \in Nat
    BY LenProperties DEF Parted
  <2>. QED
    BY <1>1, <2>1, PosFound DEF Parted
<1>. HIDE DEF p
<1>4. r = WithEnfo(g, a, last, counted, unsettled)
  BY DEF EnfoObsolete, WithEnfo, Handler, p
<1>5. last \in 0 .. a.useful /\ last \in Nat
  BY <1>1, <1>2, <1>3
<1>6. counted \in SUBSET Solutions /\ unsettled \in SUBSET Solutions
  BY DEF Handler
<1>. HIDE DEF a, r, last, counted, unsettled
<1>7. /\ OnlyEnfo(g, r) /\ r.enfo = a /\ r.last = last
      /\ r.counted = counted /\ r.unsettled = unsettled
  BY <1>2, <1>4, <1>5, <1>6, WithEnfoFields
<1>8. ASSUME NEW s \in counted \ unsettled
      PROVE  Known(a, last, set[s])
  <2>1. p <= g.last /\ g.last = g.enfo.useful
    BY <1>1, <1>3, <1>8 DEF counted, unsettled
  <2>2. s \in g.counted \ g.unsettled
    BY <1>1, <1>3, <1>8, <2>1 DEF counted, unsettled
  <2>3. Known(g.enfo, g.enfo.useful, set[s])
    BY <2>1, <2>2 DEF KnownOn
  <2>4. last = a.useful
    BY <1>2, <2>1 DEF last
  <2>. QED
    BY <1>2, <2>3, <2>4
<1>. QED
  BY <1>2, <1>5, <1>7, <1>8 DEF EnfoOk, KnownOn, OnlyEnfo, SameFlags, FlagsAre, r
-----------------------------------------------------------------------------
(* The changes of a handler whose arrays are in order keep them in order,  *)
(* and change the flags as their names say.                                *)

WithFlags(g, active, enabled, propenabled, obsolete) ==
  [g EXCEPT !.active = active, !.enabled = enabled,
            !.propenabled = propenabled, !.obsolete = obsolete]

LEMMA WithFlagsFields ==
  ASSUME NEW g \in Handler, NEW active \in SUBSET Conss, NEW enabled \in SUBSET Conss,
         NEW propenabled \in SUBSET Conss, NEW obsolete \in SUBSET Conss
  PROVE  LET r == WithFlags(g, active, enabled, propenabled, obsolete)
         IN  /\ r \in Handler
             /\ FlagsAre(g, r, active, enabled, propenabled, obsolete)
             /\ r.check = g.check /\ SameEnfo(g, r) /\ SameProp(g, r)
BY DEF WithFlags, FlagsAre, SameEnfo, SameProp, Handler

WithCheck(g, check) == [g EXCEPT !.check = check]

LEMMA WithCheckFields ==
  ASSUME NEW g \in Handler, NEW a \in Array
  PROVE  LET r == WithCheck(g, a)
         IN  /\ r \in Handler /\ SameFlags(g, r)
             /\ r.check = a /\ SameEnfo(g, r) /\ SameProp(g, r)
BY DEF WithCheck, SameFlags, FlagsAre, SameEnfo, SameProp, Handler

LEMMA EnfoKept ==
  ASSUME NEW g, NEW r, NEW members, NEW set,
         EnfoOk(g, members, set), SameEnfo(g, r), r.obsolete = g.obsolete
  PROVE  EnfoOk(r, members, set)
BY DEF EnfoOk, SameEnfo

LEMMA PropKept ==
  ASSUME NEW g, NEW r, NEW members,
         PropOk(g, members), SameProp(g, r), r.obsolete = g.obsolete
  PROVE  PropOk(r, members)
BY DEF PropOk, SameProp

LEMMA EnableConsOk ==
  ASSUME NEW g, NEW c \in Conss, NEW set, ArraysOk(g, set), c \in g.active \ g.enabled
  PROVE  LET r == EnableCons(g, c)
         IN  /\ ArraysOk(r, set)
             /\ FlagsAre(g, r, g.active, g.enabled \union {c}, g.propenabled, g.obsolete)
<1>. DEFINE on == WithFlags(g, g.active, g.enabled \union {c}, g.propenabled, g.obsolete)
            enforced == IF c \in on.flags.enforce THEN AddEnfocons(on, c) ELSE on
            r == EnableCons(g, c)
<1>0. /\ g \in Handler /\ g.active \subseteq Conss /\ g.enabled \subseteq Conss
      /\ g.propenabled \subseteq Conss /\ g.obsolete \subseteq Conss
  BY DEF ArraysOk, Handler
<1>1. /\ on \in Handler
      /\ FlagsAre(g, on, g.active, g.enabled \union {c}, g.propenabled, g.obsolete)
      /\ on.check = g.check /\ SameEnfo(g, on) /\ SameProp(g, on)
  BY <1>0, WithFlagsFields
<1>2. r = IF c \in on.flags.propagate \intersect on.propenabled
          THEN AddPropcons(enforced, c) ELSE enforced
  <2>1. on = [g EXCEPT !.enabled = @ \union {c}]
    BY <1>0 DEF WithFlags, Handler
  <2>. HIDE DEF on
  <2>. QED
    BY <1>1, <2>1 DEF EnableCons, FlagsAre
<1>. HIDE DEF on
<1>3. EnfoOk(on, g.enabled \intersect g.flags.enforce, set) /\ PropOk(on, InPropOf(g))
  BY <1>1, EnfoKept, PropKept DEF ArraysOk, FlagsAre
<1>4. /\ enforced \in Handler /\ SameFlags(on, enforced)
      /\ enforced.check = g.check /\ SameProp(on, enforced)
      /\ EnfoOk(enforced, on.enabled \intersect on.flags.enforce, set)
  <2>1. CASE c \in on.flags.enforce
    <3>1. c \notin g.enabled \intersect g.flags.enforce
      OBVIOUS
    <3>2. /\ OnlyEnfo(on, enforced)
          /\ EnfoOk(enforced, (g.enabled \intersect g.flags.enforce) \union {c}, set)
      BY <1>1, <1>3, <2>1, <3>1, AddEnfoconsOk
    <3>3. (g.enabled \intersect g.flags.enforce) \union {c}
            = on.enabled \intersect on.flags.enforce
      BY <1>1, <2>1 DEF FlagsAre
    <3>. HIDE DEF enforced
    <3>. QED
      BY <1>1, <3>2, <3>3 DEF OnlyEnfo
  <2>2. CASE c \notin on.flags.enforce
    <3>1. g.enabled \intersect g.flags.enforce = on.enabled \intersect on.flags.enforce
      BY <1>1, <2>2 DEF FlagsAre
    <3>. QED
      BY <1>1, <1>3, <2>2, <3>1 DEF SameFlags, FlagsAre, SameProp
  <2>. QED
    BY <2>1, <2>2
<1>. HIDE DEF enforced
<1>5. PropOk(enforced, InPropOf(g))
  BY <1>3, <1>4, PropKept DEF SameFlags, FlagsAre
<1>6. /\ r \in Handler /\ SameFlags(on, r) /\ r.check = g.check
      /\ EnfoOk(r, on.enabled \intersect on.flags.enforce, set)
      /\ PropOk(r, InPropOf(on))
  <2>1. CASE c \in on.flags.propagate \intersect on.propenabled
    <3>1. c \in InPropOf(enforced) /\ c \notin InPropOf(g)
      BY <1>1, <1>4, <2>1 DEF InPropOf, SameFlags, FlagsAre
    <3>2. OnlyProp(enforced, r) /\ PropOk(r, InPropOf(g) \union {c})
      BY <1>2, <1>4, <1>5, <2>1, <3>1, AddPropconsOk
    <3>3. InPropOf(g) \union {c} = InPropOf(on)
      BY <1>1, <2>1 DEF InPropOf, FlagsAre
    <3>. HIDE DEF r
    <3>4. EnfoOk(r, on.enabled \intersect on.flags.enforce, set)
      BY <1>4, <3>2, EnfoKept DEF OnlyProp, SameFlags, FlagsAre
    <3>. QED
      BY <1>4, <3>2, <3>3, <3>4 DEF OnlyProp, SameFlags, FlagsAre
  <2>2. CASE c \notin on.flags.propagate \intersect on.propenabled
    <3>1. InPropOf(g) = InPropOf(on)
      BY <1>1, <2>2 DEF InPropOf, FlagsAre
    <3>. QED
      BY <1>2, <1>4, <1>5, <2>2, <3>1
  <2>. QED
    BY <2>1, <2>2
<1>. HIDE DEF r
<1>7. FlagsAre(g, r, g.active, g.enabled \union {c}, g.propenabled, g.obsolete)
  BY <1>1, <1>6 DEF SameFlags, FlagsAre
<1>8. ArraysOk(r, set)
  <2>1. InPropOf(on) = InPropOf(r) /\ on.enabled = r.enabled /\ on.flags = r.flags
    BY <1>6 DEF InPropOf, SameFlags, FlagsAre
  <2>. QED
    BY <1>6, <1>7, <2>1 DEF ArraysOk, FlagsAre
<1>. QED
  BY <1>7, <1>8 DEF r

LEMMA DisableConsOk ==
  ASSUME NEW g, NEW c \in Conss, NEW set, ArraysOk(g, set), c \in g.enabled
  PROVE  LET r == DisableCons(g, c)
         IN  /\ ArraysOk(r, set)
             /\ FlagsAre(g, r, g.active, g.enabled \ {c}, g.propenabled, g.obsolete)
<1>. DEFINE unenforced == IF c \in g.flags.enforce THEN DelEnfocons(g, c) ELSE g
            un == IF c \in g.flags.propagate \intersect g.propenabled
                  THEN DelPropcons(unenforced, c) ELSE unenforced
            r == DisableCons(g, c)
<1>0. /\ g \in Handler /\ g.active \subseteq Conss /\ g.enabled \subseteq Conss
      /\ g.propenabled \subseteq Conss /\ g.obsolete \subseteq Conss
  BY DEF ArraysOk, Handler
<1>1. r = [un EXCEPT !.enabled = @ \ {c}]
  BY DEF DisableCons
<1>. HIDE DEF r
<1>2. /\ unenforced \in Handler /\ SameFlags(g, unenforced)
      /\ unenforced.check = g.check /\ SameProp(g, unenforced)
      /\ EnfoOk(unenforced, (g.enabled \ {c}) \intersect g.flags.enforce, set)
  <2>1. CASE c \in g.flags.enforce
    <3>1. /\ OnlyEnfo(g, unenforced)
          /\ EnfoOk(unenforced, (g.enabled \intersect g.flags.enforce) \ {c}, set)
      BY <1>0, <2>1, DelEnfoconsOk DEF ArraysOk
    <3>2. (g.enabled \intersect g.flags.enforce) \ {c}
            = (g.enabled \ {c}) \intersect g.flags.enforce
      OBVIOUS
    <3>. HIDE DEF unenforced
    <3>. QED
      BY <3>1, <3>2 DEF OnlyEnfo
  <2>2. CASE c \notin g.flags.enforce
    <3>1. g.enabled \intersect g.flags.enforce = (g.enabled \ {c}) \intersect g.flags.enforce
      BY <2>2
    <3>. QED
      BY <1>0, <2>2, <3>1 DEF ArraysOk, SameFlags, FlagsAre, SameProp
  <2>. QED
    BY <2>1, <2>2
<1>. HIDE DEF unenforced
<1>3. PropOk(unenforced, InPropOf(g)) /\ InPropOf(unenforced) = InPropOf(g)
  BY <1>2, PropKept DEF ArraysOk, SameFlags, FlagsAre, InPropOf
<1>4. /\ un \in Handler /\ SameFlags(g, un) /\ un.check = g.check
      /\ EnfoOk(un, (g.enabled \ {c}) \intersect g.flags.enforce, set)
      /\ PropOk(un, InPropOf(g) \ {c})
  <2>1. CASE c \in g.flags.propagate \intersect g.propenabled
    <3>1. c \in InPropOf(g)
      BY <2>1 DEF InPropOf
    <3>2. OnlyProp(unenforced, un) /\ PropOk(un, InPropOf(g) \ {c})
      BY <1>2, <1>3, <2>1, <3>1, DelPropconsOk
    <3>. HIDE DEF un
    <3>3. EnfoOk(un, (g.enabled \ {c}) \intersect g.flags.enforce, set)
      BY <1>2, <3>2, EnfoKept DEF OnlyProp, SameFlags, FlagsAre
    <3>. QED
      BY <1>2, <3>2, <3>3 DEF OnlyProp, SameFlags, FlagsAre
  <2>2. CASE c \notin g.flags.propagate \intersect g.propenabled
    <3>1. InPropOf(g) \ {c} = InPropOf(g)
      BY <2>2 DEF InPropOf
    <3>. QED
      BY <1>2, <1>3, <2>2, <3>1
  <2>. QED
    BY <2>1, <2>2
<1>. HIDE DEF un
<1>5. r = WithFlags(un, un.active, un.enabled \ {c}, un.propenabled, un.obsolete)
  BY <1>1, <1>4 DEF WithFlags, Handler
<1>6. /\ r \in Handler
      /\ FlagsAre(un, r, un.active, un.enabled \ {c}, un.propenabled, un.obsolete)
      /\ r.check = un.check /\ SameEnfo(un, r) /\ SameProp(un, r)
  <2>1. /\ un.active \subseteq Conss /\ un.enabled \ {c} \subseteq Conss
        /\ un.propenabled \subseteq Conss /\ un.obsolete \subseteq Conss
    BY <1>0, <1>4 DEF SameFlags, FlagsAre
  <2>. QED
    BY <1>4, <1>5, <2>1, WithFlagsFields
<1>7. FlagsAre(g, r, g.active, g.enabled \ {c}, g.propenabled, g.obsolete)
  BY <1>4, <1>6 DEF SameFlags, FlagsAre
<1>8. ArraysOk(r, set)
  <2>1. InPropOf(g) \ {c} = InPropOf(r) /\ r.obsolete = un.obsolete
    BY <1>4, <1>7 DEF InPropOf, FlagsAre, SameFlags
  <2>2. EnfoOk(r, (g.enabled \ {c}) \intersect g.flags.enforce, set) /\ PropOk(r, InPropOf(r))
    BY <1>4, <1>6, <2>1, EnfoKept, PropKept
  <2>. QED
    BY <1>4, <1>6, <1>7, <2>1, <2>2 DEF ArraysOk, FlagsAre
<1>. QED
  BY <1>7, <1>8 DEF r
LEMMA ActivateConsOk ==
  ASSUME NEW g, NEW c \in Conss, NEW set, ArraysOk(g, set), c \notin g.active
  PROVE  LET r == ActivateCons(g, c)
         IN  /\ ArraysOk(r, set)
             /\ FlagsAre(g, r, g.active \union {c}, g.enabled \union {c},
                         g.propenabled, g.obsolete)
<1>. DEFINE on == WithFlags(g, g.active \union {c}, g.enabled, g.propenabled, g.obsolete)
            a == Added(on.check, c, c \in g.obsolete)
            checked == IF c \in g.flags.check THEN WithCheck(on, a) ELSE on
            r == ActivateCons(g, c)
<1>0. /\ g \in Handler /\ g.active \subseteq Conss /\ g.enabled \subseteq Conss
      /\ g.propenabled \subseteq Conss /\ g.obsolete \subseteq Conss
  BY DEF ArraysOk, Handler
<1>1. /\ on \in Handler
      /\ FlagsAre(g, on, g.active \union {c}, g.enabled, g.propenabled, g.obsolete)
      /\ on.check = g.check /\ SameEnfo(g, on) /\ SameProp(g, on)
  BY <1>0, WithFlagsFields
<1>2. on = [g EXCEPT !.active = @ \union {c}]
  BY <1>0 DEF WithFlags, Handler
<1>. HIDE DEF on
<1>3. r = EnableCons(checked, c)
  BY <1>2 DEF ActivateCons, WithCheck
<1>4. /\ checked \in Handler /\ SameFlags(on, checked)
      /\ SameEnfo(g, checked) /\ SameProp(g, checked)
      /\ Parted(checked.check, on.active \intersect on.flags.check, on.obsolete)
  <2>0. Parted(on.check, g.active \intersect g.flags.check, g.obsolete) /\ on.check \in Array
    BY <1>1 DEF ArraysOk, Handler
  <2>1. CASE c \in g.flags.check
    <3>1. a \in Array /\ Parted(a, (g.active \intersect g.flags.check) \union {c}, g.obsolete)
      BY <2>0, AddedPlain
    <3>. HIDE DEF a
    <3>2. /\ checked \in Handler /\ SameFlags(on, checked)
          /\ checked.check = a /\ SameEnfo(on, checked) /\ SameProp(on, checked)
      BY <1>1, <2>1, <3>1, WithCheckFields
    <3>3. (g.active \intersect g.flags.check) \union {c} = on.active \intersect on.flags.check
      BY <1>1, <2>1 DEF FlagsAre
    <3>. HIDE DEF checked
    <3>. QED
      BY <1>1, <3>1, <3>2, <3>3 DEF SameEnfo, SameProp, FlagsAre
  <2>2. CASE c \notin g.flags.check
    <3>1. g.active \intersect g.flags.check = on.active \intersect on.flags.check
      BY <1>1, <2>2 DEF FlagsAre
    <3>. QED
      BY <1>1, <2>0, <2>2, <3>1 DEF SameEnfo, SameProp, SameFlags, FlagsAre
  <2>. QED
    BY <2>1, <2>2
<1>. HIDE DEF checked
<1>5. ArraysOk(checked, set) /\ c \in checked.active \ checked.enabled
  <2>1. /\ FlagsAre(g, checked, g.active \union {c}, g.enabled, g.propenabled, g.obsolete)
        /\ on.active = checked.active /\ on.flags = checked.flags
        /\ on.obsolete = checked.obsolete
    BY <1>1, <1>4 DEF SameFlags, FlagsAre
  <2>2. InPropOf(checked) = InPropOf(g) /\ checked.obsolete = g.obsolete
    BY <2>1 DEF InPropOf, FlagsAre
  <2>3. /\ EnfoOk(checked, g.enabled \intersect g.flags.enforce, set)
        /\ PropOk(checked, InPropOf(g))
    BY <1>4, <2>2, EnfoKept, PropKept DEF ArraysOk
  <2>. QED
    BY <1>4, <2>1, <2>2, <2>3 DEF ArraysOk, FlagsAre
<1>. HIDE DEF r
<1>6. /\ ArraysOk(r, set)
      /\ FlagsAre(checked, r, checked.active, checked.enabled \union {c},
                  checked.propenabled, checked.obsolete)
  BY <1>3, <1>5, EnableConsOk
<1>. QED
  BY <1>1, <1>4, <1>6 DEF SameFlags, FlagsAre, r

LEMMA DeactivateConsOk ==
  ASSUME NEW g, NEW c \in Conss, NEW set, ArraysOk(g, set), c \in g.active
  PROVE  LET r == DeactivateCons(g, c)
         IN  /\ ArraysOk(r, set)
             /\ FlagsAre(g, r, g.active \ {c}, g.enabled \ {c}, g.propenabled, g.obsolete)
<1>. DEFINE off == IF c \in g.enabled THEN DisableCons(g, c) ELSE g
            a == Deleted(off.check, c, c \in g.obsolete)
            un == IF c \in g.flags.check THEN WithCheck(off, a) ELSE off
            r == DeactivateCons(g, c)
<1>1. /\ ArraysOk(off, set)
      /\ FlagsAre(g, off, g.active, g.enabled \ {c}, g.propenabled, g.obsolete)
  <2>1. CASE c \in g.enabled
    BY <2>1, DisableConsOk
  <2>2. CASE c \notin g.enabled
    <3>1. g.enabled \ {c} = g.enabled
      BY <2>2
    <3>. QED
      BY <2>2, <3>1 DEF FlagsAre
  <2>. QED
    BY <2>1, <2>2
<1>2. r = [un EXCEPT !.active = @ \ {c}]
  BY DEF DeactivateCons, WithCheck
<1>. HIDE DEF off, r
<1>3. /\ un \in Handler /\ SameFlags(off, un)
      /\ SameEnfo(off, un) /\ SameProp(off, un)
      /\ Parted(un.check, (g.active \ {c}) \intersect g.flags.check, g.obsolete)
  <2>0. /\ Parted(off.check, g.active \intersect g.flags.check, g.obsolete)
        /\ off \in Handler /\ off.check \in Array
    BY <1>1 DEF ArraysOk, Handler, FlagsAre
  <2>1. CASE c \in g.flags.check
    <3>1. a \in Array /\ Parted(a, (g.active \intersect g.flags.check) \ {c}, g.obsolete)
      BY <2>0, <2>1, DeletedPlain
    <3>. HIDE DEF a
    <3>2. /\ un \in Handler /\ SameFlags(off, un)
          /\ un.check = a /\ SameEnfo(off, un) /\ SameProp(off, un)
      BY <2>0, <2>1, <3>1, WithCheckFields
    <3>3. (g.active \intersect g.flags.check) \ {c} = (g.active \ {c}) \intersect g.flags.check
      OBVIOUS
    <3>. QED
      BY <3>1, <3>2, <3>3
  <2>2. CASE c \notin g.flags.check
    <3>1. g.active \intersect g.flags.check = (g.active \ {c}) \intersect g.flags.check
      BY <2>2
    <3>. QED
      BY <2>0, <2>2, <3>1 DEF SameEnfo, SameProp, SameFlags, FlagsAre
  <2>. QED
    BY <2>1, <2>2
<1>. HIDE DEF un
<1>4. /\ FlagsAre(g, un, g.active, g.enabled \ {c}, g.propenabled, g.obsolete)
      /\ un.active \ {c} \subseteq Conss /\ un.enabled \subseteq Conss
      /\ un.propenabled \subseteq Conss /\ un.obsolete \subseteq Conss
  BY <1>1, <1>3 DEF SameFlags, FlagsAre, Handler
<1>5. r = WithFlags(un, un.active \ {c}, un.enabled, un.propenabled, un.obsolete)
  BY <1>2, <1>3 DEF WithFlags, Handler
<1>6. /\ r \in Handler
      /\ FlagsAre(un, r, un.active \ {c}, un.enabled, un.propenabled, un.obsolete)
      /\ r.check = un.check /\ SameEnfo(un, r) /\ SameProp(un, r)
  BY <1>3, <1>4, <1>5, WithFlagsFields
<1>7. FlagsAre(g, r, g.active \ {c}, g.enabled \ {c}, g.propenabled, g.obsolete)
  BY <1>4, <1>6 DEF FlagsAre
<1>8. ArraysOk(r, set)
  <2>1. /\ InPropOf(off) = InPropOf(r) /\ off.enabled = r.enabled /\ off.flags = r.flags
        /\ r.obsolete = off.obsolete
    BY <1>1, <1>7 DEF InPropOf, FlagsAre
  <2>2. SameEnfo(off, r) /\ SameProp(off, r)
    BY <1>3, <1>6 DEF SameEnfo, SameProp
  <2>3. EnfoOk(r, r.enabled \intersect r.flags.enforce, set) /\ PropOk(r, InPropOf(r))
    BY <1>1, <2>1, <2>2, EnfoKept, PropKept DEF ArraysOk
  <2>4. r.enabled \subseteq r.active
    BY <1>7 DEF ArraysOk, FlagsAre
  <2>. QED
    BY <1>3, <1>6, <1>7, <2>3, <2>4 DEF ArraysOk, FlagsAre
<1>. QED
  BY <1>7, <1>8 DEF r

\* Whether a constraint that is not active is obsolete does not matter.
LEMMA ObsoleteSetOk ==
  ASSUME NEW g, NEW c \in Conss, NEW set, ArraysOk(g, set), c \notin g.active,
         NEW obsolete \in SUBSET Conss, obsolete \ {c} = g.obsolete \ {c}
  PROVE  LET r == WithFlags(g, g.active, g.enabled, g.propenabled, obsolete)
         IN  /\ ArraysOk(r, set)
             /\ FlagsAre(g, r, g.active, g.enabled, g.propenabled, obsolete)
<1>. DEFINE r == WithFlags(g, g.active, g.enabled, g.propenabled, obsolete)
<1>1. /\ r \in Handler
      /\ FlagsAre(g, r, g.active, g.enabled, g.propenabled, obsolete)
      /\ r.check = g.check /\ SameEnfo(g, r) /\ SameProp(g, r)
  <2>1. /\ g \in Handler /\ g.active \subseteq Conss /\ g.enabled \subseteq Conss
        /\ g.propenabled \subseteq Conss
    BY DEF ArraysOk, Handler
  <2>. QED
    BY <2>1, WithFlagsFields
<1>. HIDE DEF r
<1>2. /\ c \notin g.active \intersect g.flags.check
      /\ c \notin g.enabled \intersect g.flags.enforce
      /\ c \notin InPropOf(g)
  BY DEF ArraysOk, InPropOf
<1>3. Parted(g.check, g.active \intersect g.flags.check, obsolete)
  BY <1>2, PartedElsewhere DEF ArraysOk
<1>4. EnfoOk(r, g.enabled \intersect g.flags.enforce, set)
  <2>1. Parted(g.enfo, g.enabled \intersect g.flags.enforce, obsolete)
    BY <1>2, PartedElsewhere DEF ArraysOk, EnfoOk
  <2>. QED
    BY <1>1, <2>1 DEF ArraysOk, EnfoOk, SameEnfo, FlagsAre
<1>5. PropOk(r, InPropOf(g))
  <2>1. (obsolete \ g.marked) \ {c} = (g.obsolete \ g.marked) \ {c}
    OBVIOUS
  <2>2. Parted(g.prop, InPropOf(g), obsolete \ g.marked)
    BY <1>2, <2>1, PartedElsewhere DEF ArraysOk, PropOk
  <2>. QED
    BY <1>1, <2>2 DEF ArraysOk, PropOk, SameProp, FlagsAre
<1>6. InPropOf(r) = InPropOf(g)
  BY <1>1 DEF InPropOf, FlagsAre
<1>. QED
  BY <1>1, <1>3, <1>4, <1>5, <1>6 DEF ArraysOk, FlagsAre, r

\* A change of the marks and the array of the propagation only.
LEMMA OnlyPropOk ==
  ASSUME NEW g, NEW r, NEW set, ArraysOk(g, set),
         OnlyProp(g, r), PropOk(r, InPropOf(g))
  PROVE  ArraysOk(r, set)
<1>1. InPropOf(r) = InPropOf(g)
  BY DEF OnlyProp, SameFlags, FlagsAre, InPropOf
<1>2. EnfoOk(r, g.enabled \intersect g.flags.enforce, set)
  BY EnfoKept DEF ArraysOk, OnlyProp, SameFlags, FlagsAre
<1>. QED
  BY <1>1, <1>2 DEF ArraysOk, OnlyProp, SameFlags, FlagsAre

LEMMA EnableConsPropagationOk ==
  ASSUME NEW g, NEW c \in Conss, NEW set, ArraysOk(g, set), c \notin g.propenabled
  PROVE  LET r == EnableConsPropagation(g, c)
         IN  /\ ArraysOk(r, set)
             /\ FlagsAre(g, r, g.active, g.enabled, g.propenabled \union {c}, g.obsolete)
<1>. DEFINE on == WithFlags(g, g.active, g.enabled, g.propenabled \union {c}, g.obsolete)
            r == EnableConsPropagation(g, c)
<1>0. /\ g \in Handler /\ g.active \subseteq Conss /\ g.enabled \subseteq Conss
      /\ g.propenabled \subseteq Conss /\ g.obsolete \subseteq Conss
  BY DEF ArraysOk, Handler
<1>1. /\ on \in Handler
      /\ FlagsAre(g, on, g.active, g.enabled, g.propenabled \union {c}, g.obsolete)
      /\ on.check = g.check /\ SameEnfo(g, on) /\ SameProp(g, on)
  BY <1>0, WithFlagsFields
<1>2. on = [g EXCEPT !.propenabled = @ \union {c}]
  BY <1>0 DEF WithFlags, Handler
<1>. HIDE DEF on
<1>3. r = IF c \in g.enabled \intersect g.flags.propagate THEN AddPropcons(on, c) ELSE on
  BY <1>2 DEF EnableConsPropagation
<1>. HIDE DEF r
<1>4. PropOk(on, InPropOf(g)) /\ EnfoOk(on, on.enabled \intersect on.flags.enforce, set)
  BY <1>1, PropKept, EnfoKept DEF ArraysOk, FlagsAre
<1>5. CASE c \in g.enabled \intersect g.flags.propagate
  <2>1. /\ c \notin InPropOf(g) /\ c \in InPropOf(on)
        /\ InPropOf(g) \union {c} = InPropOf(on)
    BY <1>1, <1>5 DEF InPropOf, FlagsAre
  <2>2. OnlyProp(on, r) /\ PropOk(r, InPropOf(on))
    BY <1>1, <1>3, <1>4, <1>5, <2>1, AddPropconsOk
  <2>3. InPropOf(r) = InPropOf(on)
    BY <2>2 DEF OnlyProp, SameFlags, FlagsAre, InPropOf
  <2>4. EnfoOk(r, on.enabled \intersect on.flags.enforce, set)
    BY <1>4, <2>2, EnfoKept DEF OnlyProp, SameFlags, FlagsAre
  <2>5. FlagsAre(g, r, g.active, g.enabled, g.propenabled \union {c}, g.obsolete)
    BY <1>1, <2>2 DEF OnlyProp, SameFlags, FlagsAre
  <2>. QED
    BY <1>1, <2>2, <2>3, <2>4, <2>5 DEF ArraysOk, OnlyProp, FlagsAre, r
<1>6. CASE c \notin g.enabled \intersect g.flags.propagate
  <2>1. InPropOf(g) = InPropOf(on)
    BY <1>1, <1>6 DEF InPropOf, FlagsAre
  <2>. QED
    BY <1>1, <1>3, <1>4, <1>6, <2>1 DEF ArraysOk, FlagsAre, r
<1>. QED
  BY <1>5, <1>6

LEMMA DisableConsPropagationOk ==
  ASSUME NEW g, NEW c \in Conss, NEW set, ArraysOk(g, set), c \in g.propenabled
  PROVE  LET r == DisableConsPropagation(g, c)
         IN  /\ ArraysOk(r, set)
             /\ FlagsAre(g, r, g.active, g.enabled, g.propenabled \ {c}, g.obsolete)
<1>. DEFINE off == IF c \in g.enabled \intersect g.flags.propagate
                   THEN DelPropcons(g, c) ELSE g
            r == DisableConsPropagation(g, c)
<1>1. r = [off EXCEPT !.propenabled = @ \ {c}]
  BY DEF DisableConsPropagation
<1>. HIDE DEF r
<1>2. /\ off \in Handler /\ SameFlags(g, off) /\ off.check = g.check
      /\ SameEnfo(g, off) /\ PropOk(off, InPropOf(g) \ {c})
  <2>1. CASE c \in g.enabled \intersect g.flags.propagate
    <3>1. c \in InPropOf(g) /\ g \in Handler /\ PropOk(g, InPropOf(g))
      BY <2>1 DEF InPropOf, ArraysOk
    <3>2. OnlyProp(g, off) /\ PropOk(off, InPropOf(g) \ {c})
      BY <2>1, <3>1, DelPropconsOk
    <3>. HIDE DEF off
    <3>. QED
      BY <3>2 DEF OnlyProp
  <2>2. CASE c \notin g.enabled \intersect g.flags.propagate
    <3>1. InPropOf(g) \ {c} = InPropOf(g)
      BY <2>2 DEF InPropOf
    <3>. QED
      BY <2>2, <3>1 DEF ArraysOk, SameFlags, FlagsAre, SameEnfo
  <2>. QED
    BY <2>1, <2>2
<1>. HIDE DEF off
<1>3. r = WithFlags(off, off.active, off.enabled, off.propenabled \ {c}, off.obsolete)
  BY <1>1, <1>2 DEF WithFlags, Handler
<1>4. /\ off.active \subseteq Conss /\ off.enabled \subseteq Conss
      /\ off.propenabled \ {c} \subseteq Conss /\ off.obsolete \subseteq Conss
  BY <1>2 DEF Handler
<1>5. /\ r \in Handler
      /\ FlagsAre(off, r, off.active, off.enabled, off.propenabled \ {c}, off.obsolete)
      /\ r.check = off.check /\ SameEnfo(off, r) /\ SameProp(off, r)
  BY <1>2, <1>3, <1>4, WithFlagsFields
<1>6. FlagsAre(g, r, g.active, g.enabled, g.propenabled \ {c}, g.obsolete)
  BY <1>2, <1>5 DEF SameFlags, FlagsAre
<1>7. InPropOf(r) = InPropOf(g) \ {c} /\ r.obsolete = off.obsolete
  BY <1>5, <1>6 DEF InPropOf, FlagsAre
<1>8. PropOk(r, InPropOf(r)) /\ SameEnfo(g, r)
  BY <1>2, <1>5, <1>7, PropKept DEF SameEnfo
<1>9. EnfoOk(r, g.enabled \intersect g.flags.enforce, set)
  BY <1>6, <1>8, EnfoKept DEF ArraysOk, FlagsAre
<1>. QED
  BY <1>2, <1>5, <1>6, <1>8, <1>9 DEF ArraysOk, FlagsAre, r

LEMMA MarkConsObsoleteOk ==
  ASSUME NEW g, NEW c \in Conss, NEW set, ArraysOk(g, set), c \notin g.obsolete
  PROVE  LET r == MarkConsObsolete(g, c)
         IN  /\ ArraysOk(r, set)
             /\ FlagsAre(g, r, g.active, g.enabled, g.propenabled, g.obsolete \union {c})
<1>. DEFINE old == WithFlags(g, g.active, g.enabled, g.propenabled, g.obsolete \union {c})
            a == ToObsolete(old.check, c)
            checked == IF c \in g.active \intersect g.flags.check
                       THEN WithCheck(old, a) ELSE old
            enforced == IF c \in g.enabled \intersect g.flags.enforce
                        THEN EnfoObsolete(checked, c) ELSE checked
            b == ToObsolete(enforced.prop, c)
            r == MarkConsObsolete(g, c)
<1>0. /\ g \in Handler /\ g.active \subseteq Conss /\ g.enabled \subseteq Conss
      /\ g.propenabled \subseteq Conss /\ g.obsolete \union {c} \subseteq Conss
  BY DEF ArraysOk, Handler
<1>1. /\ old \in Handler
      /\ FlagsAre(g, old, g.active, g.enabled, g.propenabled, g.obsolete \union {c})
      /\ old.check = g.check /\ SameEnfo(g, old) /\ SameProp(g, old)
  BY <1>0, WithFlagsFields
<1>2. r = IF InSecondPart(g, c) THEN [enforced EXCEPT !.prop = b] ELSE enforced
  <2>1. old = [g EXCEPT !.obsolete = @ \union {c}]
    BY <1>0 DEF WithFlags, Handler
  <2>. HIDE DEF old
  <2>. QED
    BY <2>1 DEF MarkConsObsolete, WithCheck
<1>. HIDE DEF old, r
<1>3. /\ checked \in Handler /\ SameFlags(old, checked)
      /\ SameEnfo(g, checked) /\ SameProp(g, checked)
      /\ Parted(checked.check, g.active \intersect g.flags.check, g.obsolete \union {c})
  <2>0. Parted(old.check, g.active \intersect g.flags.check, g.obsolete) /\ old.check \in Array
    BY <1>1 DEF ArraysOk, Handler
  <2>1. CASE c \in g.active \intersect g.flags.check
    <3>1. a \in Array /\ Parted(a, g.active \intersect g.flags.check, g.obsolete \union {c})
      BY <2>0, <2>1, ToObsoletePlain
    <3>. HIDE DEF a
    <3>2. /\ checked \in Handler /\ SameFlags(old, checked)
          /\ checked.check = a /\ SameEnfo(old, checked) /\ SameProp(old, checked)
      BY <1>1, <2>1, <3>1, WithCheckFields
    <3>. HIDE DEF checked
    <3>. QED
      BY <1>1, <3>1, <3>2 DEF SameEnfo, SameProp
  <2>2. CASE c \notin g.active \intersect g.flags.check
    <3>1. (g.obsolete \union {c}) \ {c} = g.obsolete \ {c}
      OBVIOUS
    <3>2. Parted(old.check, g.active \intersect g.flags.check, g.obsolete \union {c})
      BY <2>0, <2>2, <3>1, PartedElsewhere
    <3>. QED
      BY <1>1, <2>2, <3>2 DEF SameEnfo, SameProp, SameFlags, FlagsAre
  <2>. QED
    BY <2>1, <2>2
<1>. HIDE DEF checked
<1>4. FlagsAre(g, checked, g.active, g.enabled, g.propenabled, g.obsolete \union {c})
  BY <1>1, <1>3 DEF SameFlags, FlagsAre
<1>5. /\ enforced \in Handler /\ SameFlags(checked, enforced)
      /\ enforced.check = checked.check /\ SameProp(g, enforced)
      /\ EnfoOk(enforced, g.enabled \intersect g.flags.enforce, set)
  <2>0. /\ Parted(checked.enfo, g.enabled \intersect g.flags.enforce, g.obsolete)
        /\ checked.last \in 0 .. checked.enfo.useful
        /\ KnownOn(checked.counted \ checked.unsettled, checked.enfo, checked.last, set)
        /\ checked.obsolete = g.obsolete \union {c}
    BY <1>3, <1>4 DEF ArraysOk, EnfoOk, SameEnfo, FlagsAre
  <2>1. CASE c \in g.enabled \intersect g.flags.enforce
    <3>1. /\ OnlyEnfo(checked, enforced)
          /\ EnfoOk(enforced, g.enabled \intersect g.flags.enforce, set)
      BY <1>3, <2>0, <2>1, EnfoObsoleteOk
    <3>. HIDE DEF enforced
    <3>. QED
      BY <1>3, <3>1 DEF OnlyEnfo, SameProp
  <2>2. CASE c \notin g.enabled \intersect g.flags.enforce
    <3>1. (g.obsolete \union {c}) \ {c} = g.obsolete \ {c}
      OBVIOUS
    <3>2. Parted(checked.enfo, g.enabled \intersect g.flags.enforce, g.obsolete \union {c})
      BY <2>0, <2>2, <3>1, PartedElsewhere
    <3>. QED
      BY <1>3, <2>0, <2>2, <3>2 DEF EnfoOk, SameFlags, FlagsAre
  <2>. QED
    BY <2>1, <2>2
<1>. HIDE DEF enforced
<1>6. FlagsAre(g, enforced, g.active, g.enabled, g.propenabled, g.obsolete \union {c})
  BY <1>4, <1>5 DEF SameFlags, FlagsAre
<1>7. /\ OnlyProp(enforced, r) /\ PropOk(r, InPropOf(g))
  <2>0. /\ Parted(enforced.prop, InPropOf(g), g.obsolete \ g.marked)
        /\ Front(enforced.prop, g.marked)
        /\ enforced.prop \in MarkedArray /\ enforced.marked = g.marked
        /\ enforced.marked \subseteq Conss
    BY <1>5 DEF ArraysOk, PropOk, SameProp, Handler
  <2>1. CASE InSecondPart(g, c)
    <3>1. /\ c \in InPropOf(g) \ (g.obsolete \ g.marked)
          /\ c \notin g.marked
      BY <2>1 DEF InSecondPart, InPropOf
    <3>2. /\ b \in MarkedArray
          /\ Parted(b, InPropOf(g), (g.obsolete \ g.marked) \union {c})
          /\ Front(b, g.marked)
      BY <2>0, <3>1, ToObsoleteMarked
    <3>3. r = WithProp(enforced, b, enforced.marked)
      BY <1>2, <1>5, <2>1 DEF WithProp, Handler
    <3>. HIDE DEF b
    <3>4. OnlyProp(enforced, r) /\ r.prop = b /\ r.marked = g.marked
      BY <1>5, <2>0, <3>2, <3>3, WithPropFields
    <3>5. (g.obsolete \ g.marked) \union {c} = r.obsolete \ g.marked
      BY <1>6, <3>1, <3>4 DEF OnlyProp, SameFlags, FlagsAre
    <3>. QED
      BY <3>2, <3>4, <3>5 DEF PropOk
  <2>2. CASE ~InSecondPart(g, c)
    <3>1. c \notin InPropOf(g) \/ c \in g.marked
      BY <2>2 DEF InSecondPart, InPropOf
    <3>2. Parted(enforced.prop, InPropOf(g), (g.obsolete \union {c}) \ g.marked)
      <4>1. CASE c \in g.marked
        <5>1. (g.obsolete \union {c}) \ g.marked = g.obsolete \ g.marked
          BY <4>1
        <5>. QED
          BY <2>0, <5>1
      <4>2. CASE c \notin InPropOf(g)
        <5>1. ((g.obsolete \union {c}) \ g.marked) \ {c} = (g.obsolete \ g.marked) \ {c}
          OBVIOUS
        <5>. QED
          BY <2>0, <4>2, <5>1, PartedElsewhere
      <4>. QED
        BY <3>1, <4>1, <4>2
    <3>. QED
      BY <1>2, <1>5, <1>6, <2>0, <2>2, <3>2
      DEF PropOk, OnlyProp, SameFlags, FlagsAre, SameEnfo
  <2>. QED
    BY <2>1, <2>2
<1>8. FlagsAre(g, r, g.active, g.enabled, g.propenabled, g.obsolete \union {c})
  BY <1>6, <1>7 DEF OnlyProp, SameFlags, FlagsAre
<1>9. ArraysOk(r, set)
  <2>1. InPropOf(r) = InPropOf(g) /\ r.check = checked.check /\ r \in Handler
    BY <1>5, <1>7, <1>8 DEF OnlyProp, InPropOf, FlagsAre
  <2>2. EnfoOk(r, g.enabled \intersect g.flags.enforce, set)
    BY <1>5, <1>7, EnfoKept DEF OnlyProp, SameFlags, FlagsAre
  <2>. QED
    BY <1>3, <1>7, <1>8, <2>1, <2>2 DEF ArraysOk, FlagsAre
<1>. QED
  BY <1>8, <1>9 DEF r
LEMMA MarkConsUsefulOk ==
  ASSUME NEW g, NEW c \in Conss, NEW set, ArraysOk(g, set), c \in g.obsolete
  PROVE  LET r == MarkConsUseful(g, c)
         IN  /\ ArraysOk(r, set)
             /\ FlagsAre(g, r, g.active, g.enabled, g.propenabled, g.obsolete \ {c})
<1>. DEFINE check == IF c \in g.active \intersect g.flags.check
                     THEN ToUseful(g.check, c) ELSE g.check
            enfo == IF c \in g.enabled \intersect g.flags.enforce
                    THEN ToUseful(g.enfo, c) ELSE g.enfo
            prop == IF InSecondPart(g, c) THEN ToUseful(g.prop, c) ELSE g.prop
            obsolete == g.obsolete \ {c}
            r == MarkConsUseful(g, c)
<1>0. g \in Handler /\ g.check \in Array /\ g.enfo \in Array /\ g.prop \in MarkedArray
  BY DEF ArraysOk, Handler
<1>1. check \in Array /\ Parted(check, g.active \intersect g.flags.check, obsolete)
  <2>0. Parted(g.check, g.active \intersect g.flags.check, g.obsolete)
    BY DEF ArraysOk
  <2>1. CASE c \in g.active \intersect g.flags.check
    <3>1. 0 \in 0 .. g.check.useful
      BY <1>0 DEF Array
    <3>. QED
      BY <1>0, <2>0, <2>1, <3>1, ToUsefulPlain
  <2>2. CASE c \notin g.active \intersect g.flags.check
    <3>1. obsolete \ {c} = g.obsolete \ {c}
      OBVIOUS
    <3>. QED
      BY <1>0, <2>0, <2>2, <3>1, PartedElsewhere
  <2>. QED
    BY <2>1, <2>2
<1>2. /\ enfo \in Array /\ Parted(enfo, g.enabled \intersect g.flags.enforce, obsolete)
      /\ g.last \in 0 .. enfo.useful
      /\ KnownOn(g.counted \ g.unsettled, enfo, g.last, set)
  <2>0. /\ Parted(g.enfo, g.enabled \intersect g.flags.enforce, g.obsolete)
        /\ g.last \in 0 .. g.enfo.useful
        /\ KnownOn(g.counted \ g.unsettled, g.enfo, g.last, set)
    BY DEF ArraysOk, EnfoOk
  <2>1. CASE c \in g.enabled \intersect g.flags.enforce
    <3>1. /\ enfo \in Array /\ Parted(enfo, g.enabled \intersect g.flags.enforce, obsolete)
          /\ g.last \in 0 .. enfo.useful
          /\ \A S : Known(g.enfo, g.last, S) => Known(enfo, g.last, S)
      BY <1>0, <2>0, <2>1, ToUsefulPlain
    <3>. HIDE DEF enfo
    <3>2. KnownOn(g.counted \ g.unsettled, enfo, g.last, set)
      BY <2>0, <3>1 DEF KnownOn
    <3>. QED
      BY <3>1, <3>2
  <2>2. CASE c \notin g.enabled \intersect g.flags.enforce
    <3>1. obsolete \ {c} = g.obsolete \ {c}
      OBVIOUS
    <3>. QED
      BY <1>0, <2>0, <2>2, <3>1, PartedElsewhere
  <2>. QED
    BY <2>1, <2>2
<1>3. /\ prop \in MarkedArray
      /\ Parted(prop, InPropOf(g), obsolete \ g.marked)
      /\ Front(prop, g.marked)
  <2>0. Parted(g.prop, InPropOf(g), g.obsolete \ g.marked) /\ Front(g.prop, g.marked)
    BY DEF ArraysOk, PropOk
  <2>1. CASE InSecondPart(g, c)
    <3>1. /\ c \in InPropOf(g) \intersect (g.obsolete \ g.marked)
          /\ c \notin g.marked
      BY <2>1 DEF InSecondPart, InPropOf
    <3>2. (g.obsolete \ g.marked) \ {c} = obsolete \ g.marked
      OBVIOUS
    <3>3. /\ prop \in MarkedArray
          /\ Parted(prop, InPropOf(g), (g.obsolete \ g.marked) \ {c})
          /\ Front(prop, g.marked)
      BY <1>0, <2>0, <2>1, <3>1, ToUsefulMarked
    <3>. QED
      BY <3>2, <3>3
  <2>2. CASE ~InSecondPart(g, c)
    <3>1. CASE c \in g.marked
      <4>1. obsolete \ g.marked = g.obsolete \ g.marked
        BY <3>1
      <4>. QED
        BY <1>0, <2>0, <2>2, <4>1
    <3>2. CASE c \notin InPropOf(g)
      <4>1. (obsolete \ g.marked) \ {c} = (g.obsolete \ g.marked) \ {c}
        OBVIOUS
      <4>. QED
        BY <1>0, <2>0, <2>2, <3>2, <4>1, PartedElsewhere
    <3>. QED
      BY <2>2, <3>1, <3>2 DEF InSecondPart, InPropOf
  <2>. QED
    BY <2>1, <2>2
<1>4. r = [g EXCEPT !.obsolete = obsolete, !.check = check, !.enfo = enfo, !.prop = prop]
  BY <1>0 DEF MarkConsUseful, Handler
<1>. HIDE DEF check, enfo, prop, obsolete, r
<1>5. /\ r \in Handler
      /\ FlagsAre(g, r, g.active, g.enabled, g.propenabled, obsolete)
      /\ r.check = check /\ r.enfo = enfo /\ r.prop = prop /\ r.marked = g.marked
      /\ r.last = g.last /\ r.counted = g.counted /\ r.unsettled = g.unsettled
  <2>1. obsolete \subseteq Conss
    BY <1>0 DEF obsolete, Handler
  <2>. QED
    BY <1>0, <1>1, <1>2, <1>3, <1>4, <2>1 DEF FlagsAre, Handler
<1>6. InPropOf(r) = InPropOf(g)
  BY <1>5 DEF FlagsAre, InPropOf
<1>7. EnfoOk(r, r.enabled \intersect r.flags.enforce, set) /\ PropOk(r, InPropOf(r))
  BY <1>2, <1>3, <1>5, <1>6 DEF EnfoOk, PropOk, FlagsAre
<1>. QED
  BY <1>1, <1>5, <1>7 DEF ArraysOk, FlagsAre, r, obsolete

LEMMA MarkConsPropagateArrays ==
  ASSUME NEW g, NEW c \in Conss, NEW set, ArraysOk(g, set)
  PROVE  LET r == MarkConsPropagate(g, c) IN ArraysOk(r, set) /\ SameFlags(g, r)
<1>. DEFINE r == MarkConsPropagate(g, c)
<1>1. OnlyProp(g, r) /\ PropOk(r, InPropOf(g))
  BY MarkConsPropagateOk DEF ArraysOk
<1>. HIDE DEF r
<1>. QED
  BY <1>1, OnlyPropOk DEF OnlyProp, r

LEMMA UnmarkConsPropagateArrays ==
  ASSUME NEW g, NEW c \in Conss, NEW set, ArraysOk(g, set)
  PROVE  LET r == UnmarkConsPropagate(g, c) IN ArraysOk(r, set) /\ SameFlags(g, r)
<1>. DEFINE r == UnmarkConsPropagate(g, c)
<1>1. OnlyProp(g, r) /\ PropOk(r, InPropOf(g))
  BY UnmarkConsPropagateOk DEF ArraysOk
<1>. HIDE DEF r
<1>. QED
  BY <1>1, OnlyPropOk DEF OnlyProp, r
-----------------------------------------------------------------------------
(* The inductive invariant.                                                *)

\* The queue holds the constraints with requests, each once.
Waiting(q, u) ==
  /\ q \in Seq(Conss)
  /\ \A i, j \in DOMAIN q : q[i] = q[j] => i = j
  /\ \A i \in DOMAIN q : \E k \in Kinds : q[i] \in u[k]
  /\ \A k \in Kinds : \A c \in u[k] : \E i \in DOMAIN q : q[i] = c

\* The requests u agree with each other and with g, unless both the enabling and
\* the disabling of a constraint wait.  Beyond UpdatesAgreeBut: only active
\* constraints are to be enabled or have aged, and an age on the other side of
\* the limit is noted.
Agree(g, u) ==
  /\ u["activate"] \intersect (g.active \union u["deactivate"] \union u["enable"]
                                  \union u["disable"] \union u["obsolete"]) = {}
  /\ u["deactivate"] \subseteq g.active
  /\ (u["enable"] \ u["deactivate"]) \intersect g.enabled \subseteq u["disable"]
  /\ u["disable"] \ u["deactivate"] \subseteq g.enabled \union u["enable"]
  /\ u["propenable"] \intersect u["propdisable"] = {}
  /\ u["enable"] \subseteq g.active
  /\ u["obsolete"] \subseteq g.active
  /\ g.obsolete \ u["obsolete"] = g.old \ u["obsolete"]

UpdType == [Kinds -> SUBSET Conss]

Inv ==
  /\ ArraysOk(h, seen)
  /\ upd \in UpdType
  /\ Waiting(queue, upd)
  /\ Agree(h, upd)
  /\ calls \in Seq(Solutions \union {"other"})
  /\ seen \in [Solutions -> SUBSET Conss]

LEMMA InvImplies ==
  ASSUME Inv
  PROVE  TypeOK /\ ArraysParted /\ UpdatesAgreeBut(Contradicted) /\ NoneOverlooked
<1>1. TypeOK
  BY DEF Inv, TypeOK, ArraysOk, UpdType, Waiting
<1>2. ArraysParted
  BY DEF Inv, ArraysOk, EnfoOk, PropOk, Front, InPropOf,
         ArraysParted, CheckParted, EnfoParted, PropParted, InProp
<1>3. UpdatesAgreeBut(Contradicted)
  BY DEF Inv, Waiting, Agree, UpdatesAgreeBut, Contradicted, Waits
<1>4. NoneOverlooked
  BY DEF Inv, ArraysOk, EnfoOk, KnownOn, Known, NoneOverlooked, Overlooked
<1>. QED
  BY <1>1, <1>2, <1>3, <1>4

LEMMA InvInit ==
  ASSUME Init
  PROVE  Inv
<1>1. PICK f \in Flags :
        h = [active |-> {}, enabled |-> {}, propenabled |-> f.propagate,
             obsolete |-> {}, flags |-> f, old |-> {}, marked |-> Conss,
             check |-> EmptyArray, enfo |-> EmptyArray,
             prop |-> [list |-> <<>>, useful |-> 0, marked |-> 0],
             last |-> 0, counted |-> {}, unsettled |-> {}]
  BY DEF Init
<1>2. f \in Flags /\ f.propagate \subseteq Conss
  BY <1>1, ConsArraysAssumption
<1>3. <<>> \in Seq(Conss) /\ Len(<<>>) = 0 /\ DOMAIN <<>> = {}
  <2>1. <<>> \in Seq(Conss) /\ Len(<<>>) = 0
    BY EmptySeq
  <2>. QED
    BY <2>1, LenProperties
<1>4. h \in Handler
  BY <1>1, <1>2, <1>3 DEF Handler, Array, MarkedArray, EmptyArray
<1>5. /\ h.active = {} /\ h.enabled = {} /\ h.obsolete = {} /\ h.old = {}
      /\ h.check.list = <<>> /\ h.check.useful = 0
      /\ h.enfo.list = <<>> /\ h.enfo.useful = 0 /\ h.last = 0 /\ h.counted = {}
      /\ h.prop.list = <<>> /\ h.prop.useful = 0 /\ h.prop.marked = 0
  BY <1>1 DEF EmptyArray
<1>6. ArraysOk(h, seen)
  <2>1. InPropOf(h) = {}
    BY <1>5 DEF InPropOf
  <2>. QED
    BY <1>3, <1>4, <1>5, <2>1 DEF ArraysOk, EnfoOk, KnownOn, PropOk, Parted, Front
<1>7. Waiting(queue, upd)
  BY <1>3 DEF Init, Waiting, Kinds
<1>8. Agree(h, upd)
  BY <1>5 DEF Init, Agree, Kinds
<1>9. <<>> \in Seq(Solutions \union {"other"})
  BY EmptySeq
<1>. QED
  BY <1>6, <1>7, <1>8, <1>9 DEF Init, Inv, UpdType

\* Nothing waits outside callbacks, but while the requests are carried out.
LEMMA NothingWaits ==
  ASSUME Inv, ~Processing, ~Delayed
  PROVE  queue = <<>> /\ \A k \in Kinds : upd[k] = {}
<1>1. queue = <<>>
  BY DEF Processing
<1>2. DOMAIN queue = {}
  BY <1>1
<1>. QED
  BY <1>1, <1>2 DEF Inv, Waiting

\* Only what was enforced on forgotten solutions is forgotten.
LEMMA SeenKept ==
  ASSUME Inv, ArraysOk(h', seen), KeepSeen
  PROVE  ArraysOk(h', seen') /\ seen' \in [Solutions -> SUBSET Conss]
<1>1. seen \in [Solutions -> SUBSET Conss] /\ (h').counted \subseteq Solutions
  BY DEF Inv, ArraysOk, Handler
<1>2. \A s \in Solutions : seen'[s] = IF s \in (h').counted THEN seen[s] ELSE {}
  BY DEF KeepSeen
<1>3. seen' \in [Solutions -> SUBSET Conss]
  BY <1>1 DEF KeepSeen
<1>4. KnownOn((h').counted \ (h').unsettled, (h').enfo, (h').last, seen')
  <2>1. ASSUME NEW s \in (h').counted \ (h').unsettled
        PROVE  Known((h').enfo, (h').last, seen'[s])
    <3>1. seen'[s] = seen[s]
      BY <1>1, <1>2, <2>1
    <3>. QED
      BY <2>1, <3>1 DEF ArraysOk, EnfoOk, KnownOn
  <2>. QED
    BY <2>1 DEF KnownOn
<1>. QED
  BY <1>3, <1>4 DEF ArraysOk, EnfoOk

\* A request that is carried out at once.
LEMMA AtOnceOk ==
  ASSUME Inv, ~Processing, ~Delayed, NEW r, ArraysOk(r, seen), r.obsolete = r.old,
         h' = r, KeepSeen, UNCHANGED <<upd, queue, calls>>
  PROVE  Inv'
<1>1. \A k \in Kinds : upd[k] = {}
  BY NothingWaits
<1>2. Agree(h', upd')
  BY <1>1 DEF Agree, Kinds
<1>3. ArraysOk(h', seen') /\ seen' \in [Solutions -> SUBSET Conss]
  BY SeenKept
<1>. QED
  BY <1>2, <1>3 DEF Inv

\* A request that is noted.
LEMMA NoteOk ==
  ASSUME Inv, NEW c \in Conss, NEW set \in Kinds, NEW cleared,
         set # cleared, Note(c, set, cleared)
  PROVE  /\ upd' \in UpdType
         /\ Waiting(queue', upd')
         /\ \A k \in Kinds : upd'[k] = IF k = set THEN upd[k] \union {c}
                                       ELSE IF k = cleared THEN upd[k] \ {c} ELSE upd[k]
<1>1. \A k \in Kinds : upd'[k] = IF k = set THEN upd[k] \union {c}
                                 ELSE IF k = cleared THEN upd[k] \ {c} ELSE upd[k]
  BY DEF Note
<1>2. upd' \in UpdType
  BY DEF Inv, Note, UpdType
<1>3. /\ queue \in Seq(Conss) /\ Len(queue) \in Nat /\ DOMAIN queue = 1 .. Len(queue)
      /\ \A i, j \in DOMAIN queue : queue[i] = queue[j] => i = j
      /\ \A i \in DOMAIN queue : \E k \in Kinds : queue[i] \in upd[k]
      /\ \A k \in Kinds : \A d \in upd[k] : \E i \in DOMAIN queue : queue[i] = d
  BY LenProperties DEF Inv, Waiting
<1>4. CASE Waits(c)
  <2>1. queue' = queue
    BY <1>4 DEF Note
  <2>2. \A i \in DOMAIN queue : \E k \in Kinds : queue[i] \in upd'[k]
    <3>1. ASSUME NEW i \in DOMAIN queue
          PROVE  \E k \in Kinds : queue[i] \in upd'[k]
      <4>1. CASE queue[i] = c
        BY <1>1, <4>1
      <4>2. CASE queue[i] # c
        BY <1>1, <1>3, <4>2, ZenonT(60)
      <4>. QED
        BY <4>1, <4>2
    <3>. QED
      BY <3>1
  <2>3. ASSUME NEW k \in Kinds, NEW d \in upd'[k]
        PROVE  \E i \in DOMAIN queue : queue[i] = d
    <3>1. d = c \/ d \in upd[k]
      BY <1>1, <2>3
    <3>. QED
      BY <1>3, <1>4, <3>1 DEF Waits
  <2>. QED
    BY <1>1, <1>2, <1>3, <2>1, <2>2, <2>3 DEF Waiting
<1>5. CASE ~Waits(c)
  <2>. DEFINE q == Append(queue, c)
  <2>1. queue' = q
    BY <1>5 DEF Note
  <2>2. /\ q \in Seq(Conss) /\ DOMAIN q = 1 .. Len(queue) + 1
        /\ \A i \in 1 .. Len(queue) : q[i] = queue[i]
        /\ q[Len(queue) + 1] = c
    BY <1>3, AppendProperties, LenProperties
  <2>. HIDE DEF q
  <2>3. \A i \in 1 .. Len(queue) : queue[i] # c
    BY <1>3, <1>5 DEF Waits
  <2>4. \A i, j \in DOMAIN q : q[i] = q[j] => i = j
    BY <1>3, <2>2, <2>3
  <2>5. ASSUME NEW i \in DOMAIN q
        PROVE  \E k \in Kinds : q[i] \in upd'[k]
    <3>1. CASE i = Len(queue) + 1
      BY <1>1, <2>2, <3>1
    <3>2. CASE i # Len(queue) + 1
      <4>1. i \in DOMAIN queue /\ q[i] = queue[i] /\ q[i] # c
        BY <1>3, <2>2, <2>3, <2>5, <3>2
      <4>2. PICK k \in Kinds : queue[i] \in upd[k]
        BY <1>3, <4>1
      <4>3. queue[i] \in upd'[k]
        BY <1>1, <4>1, <4>2
      <4>. QED
        BY <4>1, <4>3
    <3>. QED
      BY <3>1, <3>2
  <2>6. ASSUME NEW k \in Kinds, NEW d \in upd'[k]
        PROVE  \E i \in DOMAIN q : q[i] = d
    <3>1. CASE d = c
      BY <1>3, <2>2, <3>1
    <3>2. CASE d # c
      <4>0. d \in upd[k]
        BY <1>1, <2>6, <3>2
      <4>1. PICK i \in DOMAIN queue : queue[i] = d
        BY <1>3, <4>0
      <4>2. i \in DOMAIN q /\ q[i] = d
        BY <1>3, <2>2, <4>1
      <4>. QED
        BY <4>2
    <3>. QED
      BY <3>1, <3>2
  <2>. QED
    BY <1>1, <1>2, <2>1, <2>2, <2>4, <2>5, <2>6 DEF Waiting
<1>. QED
  BY <1>4, <1>5
-----------------------------------------------------------------------------
(* Every step keeps the invariant.                                         *)

LEMMA ObsoleteIsOld ==
  ASSUME Inv, ~Processing, ~Delayed
  PROVE  h.obsolete = h.old
<1>1. upd["obsolete"] = {}
  BY NothingWaits DEF Kinds
<1>. QED
  BY <1>1 DEF Inv, Agree

\* A noted request that leaves the handler as it is.
LEMMA NotedInv ==
  ASSUME Inv, KeepSeen, UNCHANGED <<h, calls>>,
         upd' \in UpdType, Waiting(queue', upd'), Agree(h, upd')
  PROVE  Inv'
<1>1. ArraysOk(h', seen') /\ seen' \in [Solutions -> SUBSET Conss]
  BY SeenKept DEF Inv
<1>. QED
  BY <1>1 DEF Inv

LEMMA ActivateInv ==
  ASSUME Inv, NEW c \in Conss, Activate(c)
  PROVE  Inv'
<1>1. CASE ~Delayed
  <2>. DEFINE r == ActivateCons(h, c)
  <2>1. ~Processing /\ h' = r /\ KeepSeen /\ UNCHANGED <<upd, queue, calls>>
    BY <1>1 DEF Activate, Request
  <2>2. c \notin h.active
    BY <1>1, <2>1, NothingWaits DEF Activate, Kinds
  <2>3. ArraysOk(r, seen) /\ r.obsolete = h.obsolete /\ r.old = h.old
    BY <2>2, ActivateConsOk DEF Inv, FlagsAre
  <2>. HIDE DEF r
  <2>. QED
    BY <1>1, <2>1, <2>3, ObsoleteIsOld, AtOnceOk
<1>2. CASE Delayed
  <2>1. Note(c, "activate", "none") /\ KeepSeen /\ UNCHANGED <<h, calls>>
    BY <1>2 DEF Activate, Request
  <2>2. /\ upd' \in UpdType /\ Waiting(queue', upd')
        /\ \A k \in Kinds : upd'[k] = IF k = "activate" THEN upd[k] \union {c}
                                      ELSE IF k = "none" THEN upd[k] \ {c} ELSE upd[k]
    BY <2>1, NoteOk DEF Kinds
  <2>3. Agree(h, upd')
    BY <2>2 DEF Inv, ArraysOk, Agree, Kinds, Activate
  <2>. QED
    BY <2>1, <2>2, <2>3, NotedInv
<1>. QED
  BY <1>1, <1>2

LEMMA DeactivateInv ==
  ASSUME Inv, NEW c \in Conss, Deactivate(c)
  PROVE  Inv'
<1>1. CASE ~Delayed
  <2>. DEFINE r == DeactivateCons(h, c)
  <2>1. ~Processing /\ h' = r /\ KeepSeen /\ UNCHANGED <<upd, queue, calls>>
    BY <1>1 DEF Deactivate, Request
  <2>2. c \in h.active
    BY <1>1, <2>1, NothingWaits DEF Deactivate, Kinds
  <2>3. ArraysOk(r, seen) /\ r.obsolete = h.obsolete /\ r.old = h.old
    BY <2>2, DeactivateConsOk DEF Inv, FlagsAre
  <2>. HIDE DEF r
  <2>. QED
    BY <1>1, <2>1, <2>3, ObsoleteIsOld, AtOnceOk
<1>2. CASE Delayed
  <2>1. Note(c, "deactivate", "none") /\ KeepSeen /\ UNCHANGED <<h, calls>>
    BY <1>2 DEF Deactivate, Request
  <2>2. /\ upd' \in UpdType /\ Waiting(queue', upd')
        /\ \A k \in Kinds : upd'[k] = IF k = "deactivate" THEN upd[k] \union {c}
                                      ELSE IF k = "none" THEN upd[k] \ {c} ELSE upd[k]
    BY <2>1, NoteOk DEF Kinds
  <2>3. Agree(h, upd')
    BY <2>2 DEF Inv, ArraysOk, Agree, Kinds, Deactivate
  <2>. QED
    BY <2>1, <2>2, <2>3, NotedInv
<1>. QED
  BY <1>1, <1>2

LEMMA EnableInv ==
  ASSUME Inv, NEW c \in Conss, Enable(c)
  PROVE  Inv'
<1>1. CASE ~Delayed
  <2>. DEFINE r == EnableCons(h, c)
  <2>1. ~Processing /\ h' = r /\ KeepSeen /\ UNCHANGED <<upd, queue, calls>>
    BY <1>1 DEF Enable, Request
  <2>2. c \in h.active \ h.enabled
    BY <1>1, <2>1, NothingWaits DEF Enable, Kinds
  <2>3. ArraysOk(r, seen) /\ r.obsolete = h.obsolete /\ r.old = h.old
    BY <2>2, EnableConsOk DEF Inv, FlagsAre
  <2>. HIDE DEF r
  <2>. QED
    BY <1>1, <2>1, <2>3, ObsoleteIsOld, AtOnceOk
<1>2. CASE Delayed
  <2>1. Note(c, "enable", "none") /\ KeepSeen /\ UNCHANGED <<h, calls>>
    BY <1>2 DEF Enable, Request
  <2>2. /\ upd' \in UpdType /\ Waiting(queue', upd')
        /\ \A k \in Kinds : upd'[k] = IF k = "enable" THEN upd[k] \union {c}
                                      ELSE IF k = "none" THEN upd[k] \ {c} ELSE upd[k]
    BY <2>1, NoteOk DEF Kinds
  <2>3. Agree(h, upd')
    BY <2>2 DEF Inv, ArraysOk, Agree, Kinds, Enable
  <2>. QED
    BY <2>1, <2>2, <2>3, NotedInv
<1>. QED
  BY <1>1, <1>2

LEMMA DisableInv ==
  ASSUME Inv, NEW c \in Conss, Disable(c)
  PROVE  Inv'
<1>1. CASE ~Delayed
  <2>. DEFINE r == DisableCons(h, c)
  <2>1. ~Processing /\ h' = r /\ KeepSeen /\ UNCHANGED <<upd, queue, calls>>
    BY <1>1 DEF Disable, Request
  <2>2. c \in h.enabled
    BY <1>1, <2>1, NothingWaits DEF Disable, Kinds
  <2>3. ArraysOk(r, seen) /\ r.obsolete = h.obsolete /\ r.old = h.old
    BY <2>2, DisableConsOk DEF Inv, FlagsAre
  <2>. HIDE DEF r
  <2>. QED
    BY <1>1, <2>1, <2>3, ObsoleteIsOld, AtOnceOk
<1>2. CASE Delayed
  <2>1. Note(c, "disable", "none") /\ KeepSeen /\ UNCHANGED <<h, calls>>
    BY <1>2 DEF Disable, Request
  <2>2. /\ upd' \in UpdType /\ Waiting(queue', upd')
        /\ \A k \in Kinds : upd'[k] = IF k = "disable" THEN upd[k] \union {c}
                                      ELSE IF k = "none" THEN upd[k] \ {c} ELSE upd[k]
    BY <2>1, NoteOk DEF Kinds
  <2>3. Agree(h, upd')
    BY <2>2 DEF Inv, ArraysOk, Agree, Kinds, Disable
  <2>. QED
    BY <2>1, <2>2, <2>3, NotedInv
<1>. QED
  BY <1>1, <1>2

LEMMA EnablePropagationInv ==
  ASSUME Inv, NEW c \in Conss, EnablePropagation(c)
  PROVE  Inv'
<1>1. CASE ~Delayed
  <2>. DEFINE r == EnableConsPropagation(h, c)
  <2>1. ~Processing /\ h' = r /\ KeepSeen /\ UNCHANGED <<upd, queue, calls>>
    BY <1>1 DEF EnablePropagation, Request
  <2>2. c \notin h.propenabled
    BY <1>1, <2>1, NothingWaits DEF EnablePropagation, Kinds
  <2>3. ArraysOk(r, seen) /\ r.obsolete = h.obsolete /\ r.old = h.old
    BY <2>2, EnableConsPropagationOk DEF Inv, FlagsAre
  <2>. HIDE DEF r
  <2>. QED
    BY <1>1, <2>1, <2>3, ObsoleteIsOld, AtOnceOk
<1>2. CASE Delayed
  <2>1. Note(c, "propenable", "propdisable") /\ KeepSeen /\ UNCHANGED <<h, calls>>
    BY <1>2 DEF EnablePropagation, Request
  <2>2. /\ upd' \in UpdType /\ Waiting(queue', upd')
        /\ \A k \in Kinds : upd'[k] = IF k = "propenable" THEN upd[k] \union {c}
                                      ELSE IF k = "propdisable" THEN upd[k] \ {c} ELSE upd[k]
    BY <2>1, NoteOk DEF Kinds
  <2>3. Agree(h, upd')
    BY <2>2 DEF Inv, ArraysOk, Agree, Kinds, EnablePropagation
  <2>. QED
    BY <2>1, <2>2, <2>3, NotedInv
<1>. QED
  BY <1>1, <1>2

LEMMA DisablePropagationInv ==
  ASSUME Inv, NEW c \in Conss, DisablePropagation(c)
  PROVE  Inv'
<1>1. CASE ~Delayed
  <2>. DEFINE r == DisableConsPropagation(h, c)
  <2>1. ~Processing /\ h' = r /\ KeepSeen /\ UNCHANGED <<upd, queue, calls>>
    BY <1>1 DEF DisablePropagation, Request
  <2>2. c \in h.propenabled
    BY <1>1, <2>1, NothingWaits DEF DisablePropagation, Kinds
  <2>3. ArraysOk(r, seen) /\ r.obsolete = h.obsolete /\ r.old = h.old
    BY <2>2, DisableConsPropagationOk DEF Inv, FlagsAre
  <2>. HIDE DEF r
  <2>. QED
    BY <1>1, <2>1, <2>3, ObsoleteIsOld, AtOnceOk
<1>2. CASE Delayed
  <2>1. Note(c, "propdisable", "propenable") /\ KeepSeen /\ UNCHANGED <<h, calls>>
    BY <1>2 DEF DisablePropagation, Request
  <2>2. /\ upd' \in UpdType /\ Waiting(queue', upd')
        /\ \A k \in Kinds : upd'[k] = IF k = "propdisable" THEN upd[k] \union {c}
                                      ELSE IF k = "propenable" THEN upd[k] \ {c} ELSE upd[k]
    BY <2>1, NoteOk DEF Kinds
  <2>3. Agree(h, upd')
    BY <2>2 DEF Inv, ArraysOk, Agree, Kinds, DisablePropagation
  <2>. QED
    BY <2>1, <2>2, <2>3, NotedInv
<1>. QED
  BY <1>1, <1>2

LEMMA MarkPropagateInv ==
  ASSUME Inv, NEW c \in Conss, MarkPropagate(c)
  PROVE  Inv'
<1>1. CASE ~Delayed
  <2>. DEFINE r == MarkConsPropagate(h, c)
  <2>1. ~Processing /\ h' = r /\ KeepSeen /\ UNCHANGED <<upd, queue, calls>>
    BY <1>1 DEF MarkPropagate, Request
  <2>3. ArraysOk(r, seen) /\ r.obsolete = h.obsolete /\ r.old = h.old
    BY MarkConsPropagateArrays DEF Inv, SameFlags, FlagsAre
  <2>. HIDE DEF r
  <2>. QED
    BY <1>1, <2>1, <2>3, ObsoleteIsOld, AtOnceOk
<1>2. CASE Delayed
  <2>1. Note(c, "mark", "unmark") /\ KeepSeen /\ UNCHANGED <<h, calls>>
    BY <1>2 DEF MarkPropagate, Request
  <2>2. /\ upd' \in UpdType /\ Waiting(queue', upd')
        /\ \A k \in Kinds : upd'[k] = IF k = "mark" THEN upd[k] \union {c}
                                      ELSE IF k = "unmark" THEN upd[k] \ {c} ELSE upd[k]
    BY <2>1, NoteOk DEF Kinds
  <2>3. Agree(h, upd')
    BY <2>2 DEF Inv, ArraysOk, Agree, Kinds, MarkPropagate
  <2>. QED
    BY <2>1, <2>2, <2>3, NotedInv
<1>. QED
  BY <1>1, <1>2

LEMMA UnmarkPropagateInv ==
  ASSUME Inv, NEW c \in Conss, UnmarkPropagate(c)
  PROVE  Inv'
<1>1. CASE ~Delayed
  <2>. DEFINE r == UnmarkConsPropagate(h, c)
  <2>1. ~Processing /\ h' = r /\ KeepSeen /\ UNCHANGED <<upd, queue, calls>>
    BY <1>1 DEF UnmarkPropagate, Request
  <2>3. ArraysOk(r, seen) /\ r.obsolete = h.obsolete /\ r.old = h.old
    BY UnmarkConsPropagateArrays DEF Inv, SameFlags, FlagsAre
  <2>. HIDE DEF r
  <2>. QED
    BY <1>1, <2>1, <2>3, ObsoleteIsOld, AtOnceOk
<1>2. CASE Delayed
  <2>1. Note(c, "unmark", "mark") /\ KeepSeen /\ UNCHANGED <<h, calls>>
    BY <1>2 DEF UnmarkPropagate, Request
  <2>2. /\ upd' \in UpdType /\ Waiting(queue', upd')
        /\ \A k \in Kinds : upd'[k] = IF k = "unmark" THEN upd[k] \union {c}
                                      ELSE IF k = "mark" THEN upd[k] \ {c} ELSE upd[k]
    BY <2>1, NoteOk DEF Kinds
  <2>3. Agree(h, upd')
    BY <2>2 DEF Inv, ArraysOk, Agree, Kinds, UnmarkPropagate
  <2>. QED
    BY <2>1, <2>2, <2>3, NotedInv
<1>. QED
  BY <1>1, <1>2

WithOld(g, old) == [g EXCEPT !.old = old]

\* The ages do not matter to the arrays.
LEMMA WithOldOk ==
  ASSUME NEW g, NEW set, ArraysOk(g, set), NEW old \in SUBSET Conss
  PROVE  LET r == WithOld(g, old)
         IN  /\ ArraysOk(r, set)
             /\ r.active = g.active /\ r.enabled = g.enabled
             /\ r.propenabled = g.propenabled /\ r.obsolete = g.obsolete /\ r.old = old
<1>. DEFINE r == WithOld(g, old)
<1>1. /\ r \in Handler
      /\ FlagsAre(r, r, g.active, g.enabled, g.propenabled, g.obsolete)
      /\ r.flags = g.flags /\ r.old = old
      /\ r.check = g.check /\ SameEnfo(g, r) /\ SameProp(g, r)
  BY DEF ArraysOk, WithOld, FlagsAre, SameEnfo, SameProp, Handler
<1>. HIDE DEF r
<1>2. InPropOf(r) = InPropOf(g) /\ r.obsolete = g.obsolete
  BY <1>1 DEF InPropOf, FlagsAre
<1>3. EnfoOk(r, g.enabled \intersect g.flags.enforce, set) /\ PropOk(r, InPropOf(g))
  BY <1>1, <1>2, EnfoKept, PropKept DEF ArraysOk
<1>. QED
  BY <1>1, <1>2, <1>3 DEF ArraysOk, FlagsAre, r

LEMMA AddAgeInv ==
  ASSUME Inv, NEW c \in Conss, AddAge(c)
  PROVE  Inv'
<1>. DEFINE aged == WithOld(h, h.old \union {c})
<1>0. ArraysOk(h, seen) /\ h.old \union {c} \in SUBSET Conss
  BY DEF Inv, ArraysOk, Handler
<1>1. /\ ArraysOk(aged, seen)
      /\ aged.active = h.active /\ aged.enabled = h.enabled
      /\ aged.propenabled = h.propenabled /\ aged.obsolete = h.obsolete
      /\ aged.old = h.old \union {c}
  BY <1>0, WithOldOk
<1>2. /\ ~Processing /\ c \in h.active /\ c \notin h.old /\ KeepSeen /\ UNCHANGED calls
      /\ \/ c \in h.obsolete /\ h' = aged /\ UNCHANGED <<upd, queue>>
         \/ c \notin h.obsolete /\ ~Delayed /\ h' = MarkConsObsolete(aged, c) /\ UNCHANGED <<upd, queue>>
         \/ c \notin h.obsolete /\ h' = aged /\ Note(c, "obsolete", "none")
  BY DEF AddAge, WithOld
<1>. HIDE DEF aged
<1>3. CASE c \in h.obsolete /\ h' = aged /\ UNCHANGED <<upd, queue>>
  <2>1. Agree(aged, upd)
    BY <1>1, <1>2, <1>3 DEF Inv, Agree
  <2>2. ArraysOk(h', seen') /\ seen' \in [Solutions -> SUBSET Conss]
    BY <1>1, <1>2, <1>3, SeenKept
  <2>. QED
    BY <1>1, <1>2, <1>3, <2>1, <2>2 DEF Inv
<1>4. CASE c \notin h.obsolete /\ ~Delayed /\ h' = MarkConsObsolete(aged, c) /\ UNCHANGED <<upd, queue>>
  <2>. DEFINE r == MarkConsObsolete(aged, c)
  <2>1. /\ ArraysOk(r, seen)
        /\ FlagsAre(aged, r, aged.active, aged.enabled, aged.propenabled, aged.obsolete \union {c})
    BY <1>1, <1>4, MarkConsObsoleteOk
  <2>. HIDE DEF r
  <2>2. r.obsolete = r.old
    BY <1>1, <1>2, <1>4, <2>1, ObsoleteIsOld DEF FlagsAre
  <2>. QED
    BY <1>2, <1>4, <2>1, <2>2, AtOnceOk DEF r
<1>5. CASE c \notin h.obsolete /\ h' = aged /\ Note(c, "obsolete", "none")
  <2>1. /\ upd' \in UpdType /\ Waiting(queue', upd')
        /\ \A k \in Kinds : upd'[k] = IF k = "obsolete" THEN upd[k] \union {c}
                                      ELSE IF k = "none" THEN upd[k] \ {c} ELSE upd[k]
    BY <1>5, NoteOk DEF Kinds
  <2>2. Agree(aged, upd')
    BY <1>1, <1>2, <2>1 DEF Inv, Agree, Kinds
  <2>3. ArraysOk(h', seen') /\ seen' \in [Solutions -> SUBSET Conss]
    BY <1>1, <1>2, <1>5, SeenKept
  <2>. QED
    BY <1>1, <1>2, <1>5, <2>1, <2>2, <2>3 DEF Inv
<1>. QED
  BY <1>2, <1>3, <1>4, <1>5

LEMMA ResetAgeInv ==
  ASSUME Inv, NEW c \in Conss, ResetAge(c)
  PROVE  Inv'
<1>. DEFINE fresh == WithOld(h, h.old \ {c})
<1>0. ArraysOk(h, seen) /\ h.old \ {c} \in SUBSET Conss
  BY DEF Inv, ArraysOk, Handler
<1>1. /\ ArraysOk(fresh, seen)
      /\ fresh.active = h.active /\ fresh.enabled = h.enabled
      /\ fresh.propenabled = h.propenabled /\ fresh.obsolete = h.obsolete
      /\ fresh.old = h.old \ {c}
  BY <1>0, WithOldOk
<1>2. /\ ~Processing /\ c \in h.active /\ c \in h.old /\ KeepSeen /\ UNCHANGED calls
      /\ \/ c \notin h.obsolete /\ h' = fresh /\ UNCHANGED <<upd, queue>>
         \/ c \in h.obsolete /\ ~Delayed /\ h' = MarkConsUseful(fresh, c) /\ UNCHANGED <<upd, queue>>
         \/ c \in h.obsolete /\ h' = fresh /\ Note(c, "obsolete", "none")
  BY DEF ResetAge, WithOld
<1>. HIDE DEF fresh
<1>3. CASE c \notin h.obsolete /\ h' = fresh /\ UNCHANGED <<upd, queue>>
  <2>1. Agree(fresh, upd)
    BY <1>1, <1>2, <1>3 DEF Inv, Agree
  <2>2. ArraysOk(h', seen') /\ seen' \in [Solutions -> SUBSET Conss]
    BY <1>1, <1>2, <1>3, SeenKept
  <2>. QED
    BY <1>1, <1>2, <1>3, <2>1, <2>2 DEF Inv
<1>4. CASE c \in h.obsolete /\ ~Delayed /\ h' = MarkConsUseful(fresh, c) /\ UNCHANGED <<upd, queue>>
  <2>. DEFINE r == MarkConsUseful(fresh, c)
  <2>1. /\ ArraysOk(r, seen)
        /\ FlagsAre(fresh, r, fresh.active, fresh.enabled, fresh.propenabled, fresh.obsolete \ {c})
    BY <1>1, <1>4, MarkConsUsefulOk
  <2>. HIDE DEF r
  <2>2. r.obsolete = r.old
    BY <1>1, <1>2, <1>4, <2>1, ObsoleteIsOld DEF FlagsAre
  <2>. QED
    BY <1>2, <1>4, <2>1, <2>2, AtOnceOk DEF r
<1>5. CASE c \in h.obsolete /\ h' = fresh /\ Note(c, "obsolete", "none")
  <2>1. /\ upd' \in UpdType /\ Waiting(queue', upd')
        /\ \A k \in Kinds : upd'[k] = IF k = "obsolete" THEN upd[k] \union {c}
                                      ELSE IF k = "none" THEN upd[k] \ {c} ELSE upd[k]
    BY <1>5, NoteOk DEF Kinds
  <2>2. Agree(fresh, upd')
    BY <1>1, <1>2, <2>1 DEF Inv, Agree, Kinds
  <2>3. ArraysOk(h', seen') /\ seen' \in [Solutions -> SUBSET Conss]
    BY <1>1, <1>2, <1>5, SeenKept
  <2>. QED
    BY <1>1, <1>2, <1>5, <2>1, <2>2, <2>3 DEF Inv
<1>. QED
  BY <1>2, <1>3, <1>4, <1>5

\* A step that changes only what is kept about the enforcement.
LEMMA EnfoStepInv ==
  ASSUME Inv, NEW last \in Nat,
         NEW counted \in SUBSET Solutions, NEW unsettled \in SUBSET Solutions,
         h' = WithEnfo(h, h.enfo, last, counted, unsettled),
         last \in 0 .. h.enfo.useful,
         KnownOn(counted \ unsettled, h.enfo, last, seen'),
         UNCHANGED <<upd, queue>>, calls' \in Seq(Solutions \union {"other"}),
         seen' \in [Solutions -> SUBSET Conss]
  PROVE  Inv'
<1>1. ArraysOk(h, seen) /\ h \in Handler /\ h.enfo \in Array
  BY DEF Inv, ArraysOk, Handler
<1>2. /\ OnlyEnfo(h, h') /\ (h').enfo = h.enfo /\ (h').last = last
      /\ (h').counted = counted /\ (h').unsettled = unsettled
  BY <1>1, WithEnfoFields
<1>3. EnfoOk(h', h.enabled \intersect h.flags.enforce, seen')
  BY <1>1, <1>2 DEF ArraysOk, EnfoOk, OnlyEnfo, SameFlags, FlagsAre
<1>4. InPropOf(h') = InPropOf(h) /\ (h').obsolete = h.obsolete
  BY <1>2 DEF OnlyEnfo, SameFlags, FlagsAre, InPropOf
<1>5. PropOk(h', InPropOf(h'))
  BY <1>1, <1>2, <1>4, PropKept DEF ArraysOk, OnlyEnfo
<1>6. ArraysOk(h', seen')
  BY <1>1, <1>2, <1>3, <1>5 DEF ArraysOk, OnlyEnfo, SameFlags, FlagsAre
<1>7. Agree(h', upd')
  BY <1>2 DEF Inv, Agree, OnlyEnfo, SameFlags, FlagsAre
<1>. QED
  BY <1>6, <1>7 DEF Inv

\* On the solution that is enforced no constraint is left out; on another one
\* that counts as enforced none is, unless new constraints are hidden from it.
LEMMA EnforceInv ==
  ASSUME Inv, NEW s \in Solutions, Enforce(s)
  PROVE  Inv'
<1>. DEFINE u == h.enfo.useful
            counted == h.counted \union {s}
<1>1. /\ h \in Handler /\ h.enfo.list \in Seq(Conss)
      /\ DOMAIN h.enfo.list = 1 .. Len(h.enfo.list)
      /\ u \in 0 .. Len(h.enfo.list) /\ Len(h.enfo.list) \in Nat /\ h.last \in 0 .. u
      /\ \A i \in 1 .. Len(h.enfo.list) : h.enfo.list[i] \in Conss
      /\ KnownOn(h.counted \ h.unsettled, h.enfo, h.last, seen)
      /\ seen \in [Solutions -> SUBSET Conss]
      /\ h.counted \subseteq Solutions /\ h.unsettled \subseteq Solutions
  BY LenProperties DEF Inv, ArraysOk, EnfoOk, Parted, Handler
<1>2. PICK again \in BOOLEAN :
        /\ again => s \in h.counted
        /\ seen' = [seen EXCEPT ![s] =
                      IF again THEN @ \union Members(h.enfo, h.last + 1, u)
                      ELSE Members(h.enfo, 1, Len(h.enfo.list))]
        /\ h' = [h EXCEPT !.last = u, !.counted = @ \union {s},
                          !.unsettled = IF again THEN @ \union HiddenFrom(s)
                                        ELSE (@ \ {s}) \union HiddenFrom(s)]
  BY DEF Enforce
<1>. DEFINE unsettled == IF again THEN h.unsettled \union HiddenFrom(s)
                         ELSE (h.unsettled \ {s}) \union HiddenFrom(s)
            passed == IF again THEN seen[s] \union Members(h.enfo, h.last + 1, u)
                      ELSE Members(h.enfo, 1, Len(h.enfo.list))
<1>3. h' = WithEnfo(h, h.enfo, u, counted, unsettled)
  BY <1>1, <1>2 DEF WithEnfo, Handler
<1>4. HiddenFrom(s) \subseteq Solutions
  BY <1>1 DEF HiddenFrom
<1>5. u \in Nat /\ u \in 0 .. h.enfo.useful
      /\ counted \in SUBSET Solutions /\ unsettled \in SUBSET Solutions
  BY <1>1, <1>4
<1>6. /\ Members(h.enfo, h.last + 1, u) = {h.enfo.list[i] : i \in h.last + 1 .. u}
      /\ Members(h.enfo, 1, Len(h.enfo.list))
           = {h.enfo.list[i] : i \in 1 .. Len(h.enfo.list)}
  BY DEF Members
<1>7. passed \subseteq Conss
  <2>1. CASE again
    BY <1>1, <1>6, <2>1
  <2>2. CASE ~again
    BY <1>1, <1>6, <2>2
  <2>. QED
    BY <2>1, <2>2
<1>8. seen' = [seen EXCEPT ![s] = passed]
  BY <1>2
<1>. HIDE DEF passed
<1>9. /\ seen' \in [Solutions -> SUBSET Conss]
      /\ seen'[s] = passed
      /\ \A t \in Solutions \ {s} : seen'[t] = seen[t]
  BY <1>1, <1>7, <1>8
<1>10. ASSUME NEW t \in counted \ unsettled
       PROVE  Known(h.enfo, u, seen'[t])
  <2>1. CASE t = s /\ ~again
    <3>1. \A i \in 1 .. Len(h.enfo.list) : h.enfo.list[i] \in passed
      BY <1>6, <2>1 DEF passed
    <3>. QED
      BY <1>1, <1>9, <2>1, <3>1 DEF Known
  <2>2. CASE t = s /\ again
    <3>1. s \in h.counted \ h.unsettled
      BY <1>2, <1>10, <2>2
    <3>2. \A i \in 1 .. Len(h.enfo.list) :
            h.enfo.list[i] \in seen[s] \/ i \in h.last + 1 .. u
      BY <1>1, <3>1 DEF Known, KnownOn
    <3>3. \A i \in 1 .. Len(h.enfo.list) : h.enfo.list[i] \in passed
      BY <1>6, <2>2, <3>2 DEF passed
    <3>. QED
      BY <1>1, <1>9, <2>2, <3>3 DEF Known
  <2>3. CASE t # s
    <3>1. t \in h.counted \ h.unsettled /\ t \notin HiddenFrom(s)
      BY <1>10, <2>3
    <3>2. h.last = u
      BY <1>1, <2>3, <3>1 DEF HiddenFrom
    <3>3. seen'[t] = seen[t]
      BY <1>1, <1>9, <2>3, <3>1
    <3>. QED
      BY <1>1, <3>1, <3>2, <3>3 DEF KnownOn
  <2>. QED
    BY <2>1, <2>2, <2>3
<1>11. calls' \in Seq(Solutions \union {"other"}) /\ UNCHANGED <<upd, queue>>
  BY DEF Enforce
<1>. HIDE DEF u, counted, unsettled
<1>12. KnownOn(counted \ unsettled, h.enfo, u, seen')
  BY <1>10 DEF KnownOn
<1>. QED
  BY <1>3, <1>5, <1>9, <1>11, <1>12, EnfoStepInv

LEMMA CallInv ==
  ASSUME Inv, Call
  PROVE  Inv'
<1>1. calls' \in Seq(Solutions \union {"other"})
  BY AppendProperties DEF Inv, Call
<1>. QED
  BY <1>1 DEF Inv, Call

\* Solutions that no longer count as enforced.
LEMMA ForgetInv ==
  ASSUME Inv, NEW kinds, Forget(kinds),
         UNCHANGED <<upd, queue>>, calls' \in Seq(Solutions \union {"other"})
  PROVE  Inv'
<1>. DEFINE counted == h.counted \ kinds
            unsettled == h.unsettled \ kinds
<1>1. /\ ArraysOk(h, seen)
      /\ h \in Handler /\ h.last \in Nat /\ h.last \in 0 .. h.enfo.useful
      /\ counted \in SUBSET Solutions /\ unsettled \in SUBSET Solutions
      /\ KnownOn(h.counted \ h.unsettled, h.enfo, h.last, seen)
      /\ seen \in [Solutions -> SUBSET Conss]
  BY DEF Inv, ArraysOk, EnfoOk, Handler
<1>2. h' = WithEnfo(h, h.enfo, h.last, counted, unsettled)
  BY <1>1 DEF Forget, WithEnfo, Handler
<1>3. (h').counted = counted
  BY <1>1, <1>2 DEF WithEnfo, Handler
<1>4. \A s \in Solutions : seen'[s] = IF s \in counted THEN seen[s] ELSE {}
  BY <1>3 DEF Forget, KeepSeen
<1>5. seen' \in [Solutions -> SUBSET Conss]
  BY <1>1 DEF Forget, KeepSeen
<1>6. ASSUME NEW s \in counted \ unsettled
      PROVE  Known(h.enfo, h.last, seen'[s])
  <2>1. s \in h.counted \ h.unsettled /\ seen'[s] = seen[s]
    BY <1>1, <1>4, <1>6
  <2>. QED
    BY <1>1, <2>1 DEF KnownOn
<1>. HIDE DEF counted, unsettled
<1>7. KnownOn(counted \ unsettled, h.enfo, h.last, seen')
  BY <1>6 DEF KnownOn
<1>. QED
  BY <1>1, <1>2, <1>5, <1>7, EnfoStepInv

LEMMA ReturnInv ==
  ASSUME Inv, Return
  PROVE  Inv'
<1>1. PICK again : Forget(again)
  BY DEF Return
<1>2. calls' \in Seq(Solutions \union {"other"})
  <2>1. /\ calls \in Seq(Solutions \union {"other"})
        /\ calls' = SubSeq(calls, 1, Len(calls) - 1)
    BY DEF Inv, Return
  <2>2. \A i \in 1 .. Len(calls) - 1 : calls[i] \in Solutions \union {"other"}
    BY <2>1, ElementOfSeq, LenProperties
  <2>3. Len(calls) - 1 \in Int
    BY <2>1, LenProperties
  <2>. QED
    BY <2>1, <2>2, <2>3, SubSeqProperties
<1>3. UNCHANGED <<upd, queue>>
  BY DEF Return
<1>. QED
  BY <1>1, <1>2, <1>3, ForgetInv

LEMMA NewSolutionInv ==
  ASSUME Inv, NewSolution
  PROVE  Inv'
<1>1. PICK new : Forget(new)
  BY DEF NewSolution
<1>2. UNCHANGED <<upd, queue>> /\ calls' \in Seq(Solutions \union {"other"})
  BY DEF NewSolution, Inv
<1>. QED
  BY <1>1, <1>2, ForgetInv
\* c is in the changed set if and only if inside.
Moved(set, c, inside) == IF inside THEN set \union {c} ELSE set \ {c}

\* What the requests u will have made of the flags of g.
ActiveSoon(g, u) == (g.active \union u["activate"]) \ u["deactivate"]

EnabledSoon(g, u) ==
  (g.enabled \union u["activate"] \union u["enable"])
    \ (u["deactivate"] \union u["disable"])

PropenabledSoon(g, u) == (g.propenabled \union u["propenable"]) \ u["propdisable"]

LEMMA SwitchedOnOffOk ==
  ASSUME Inv, NEW c \in Conss, c \notin Contradicted
  PROVE  LET r == SwitchedOnOff(h, c)
         IN  /\ ArraysOk(r, seen)
             /\ FlagsAre(h, r, Moved(h.active, c, c \in ActiveSoon(h, upd)),
                         Moved(h.enabled, c, c \in EnabledSoon(h, upd)), h.propenabled,
                         IF c \in upd["deactivate"] THEN Moved(h.obsolete, c, c \in h.old)
                         ELSE h.obsolete)
<1>. DEFINE r == SwitchedOnOff(h, c)
            active == Moved(h.active, c, c \in ActiveSoon(h, upd))
            enabled == Moved(h.enabled, c, c \in EnabledSoon(h, upd))
            obsolete == IF c \in upd["deactivate"] THEN Moved(h.obsolete, c, c \in h.old)
                        ELSE h.obsolete
<1>0. ArraysOk(h, seen) /\ Agree(h, upd) /\ h \in Handler /\ h.enabled \subseteq h.active
  BY DEF Inv, ArraysOk
<1>1. CASE c \in upd["activate"]
  <2>1. c \notin h.active /\ c \notin upd["deactivate"]
        /\ c \notin upd["disable"]
    BY <1>0, <1>1 DEF Agree
  <2>2. active = h.active \union {c} /\ enabled = h.enabled \union {c} /\ obsolete = h.obsolete
    BY <1>1, <2>1 DEF Moved, ActiveSoon, EnabledSoon
  <2>3. r = ActivateCons(h, c)
    BY <1>1 DEF SwitchedOnOff
  <2>. HIDE DEF active, enabled, obsolete, r
  <2>. QED
    BY <1>0, <2>1, <2>2, <2>3, ActivateConsOk, ZenonT(60) DEF active, enabled, obsolete, r
<1>2. CASE c \notin upd["activate"] /\ c \in upd["deactivate"]
  <2>. DEFINE off == DeactivateCons(h, c)
              settled == IF c \in h.old THEN off.obsolete \union {c} ELSE off.obsolete \ {c}
  <2>1. c \in h.active
    BY <1>0, <1>2 DEF Agree
  <2>2. /\ ArraysOk(off, seen)
        /\ FlagsAre(h, off, h.active \ {c}, h.enabled \ {c}, h.propenabled, h.obsolete)
    BY <1>0, <2>1, DeactivateConsOk
  <2>3. r = [off EXCEPT !.obsolete = IF c \in h.old THEN @ \union {c} ELSE @ \ {c}]
    BY <1>2 DEF SwitchedOnOff
  <2>4. active = h.active \ {c} /\ enabled = h.enabled \ {c}
    BY <1>2 DEF Moved, ActiveSoon, EnabledSoon
  <2>. HIDE DEF off, r
  <2>5. settled = obsolete /\ settled \in SUBSET Conss /\ settled \ {c} = off.obsolete \ {c}
    BY <1>2, <2>2 DEF FlagsAre, Moved, ArraysOk, Handler
  <2>. HIDE DEF active, enabled
  <2>6. r = WithFlags(off, off.active, off.enabled, off.propenabled, settled)
    BY <2>2, <2>3 DEF ArraysOk, WithFlags, Handler
  <2>. HIDE DEF settled
  <2>7. c \notin off.active
    BY <2>2 DEF FlagsAre
  <2>8. ArraysOk(r, seen) /\ FlagsAre(off, r, off.active, off.enabled, off.propenabled, settled)
    BY <2>2, <2>5, <2>6, <2>7, ObsoleteSetOk
  <2>9. FlagsAre(h, r, active, enabled, h.propenabled, obsolete)
    BY <2>2, <2>4, <2>5, <2>8 DEF FlagsAre
  <2>. QED
    BY <2>8, <2>9 DEF active, enabled, r
<1>3. CASE c \notin upd["activate"] /\ c \notin upd["deactivate"] /\ c \in upd["enable"]
  <2>1. c \in h.active \ h.enabled /\ c \notin upd["disable"]
    BY <1>0, <1>3 DEF Agree, Contradicted
  <2>2. active = h.active /\ enabled = h.enabled \union {c} /\ obsolete = h.obsolete
    BY <1>3, <2>1 DEF Moved, ActiveSoon, EnabledSoon
  <2>3. r = EnableCons(h, c)
    BY <1>3 DEF SwitchedOnOff
  <2>. HIDE DEF active, enabled, obsolete, r
  <2>. QED
    BY <1>0, <2>1, <2>2, <2>3, EnableConsOk DEF active, enabled, obsolete, r
<1>4. CASE /\ c \notin upd["activate"] /\ c \notin upd["deactivate"]
           /\ c \notin upd["enable"] /\ c \in upd["disable"]
  <2>1. c \in h.enabled
    BY <1>0, <1>4 DEF Agree
  <2>2. active = h.active /\ enabled = h.enabled \ {c} /\ obsolete = h.obsolete
    BY <1>0, <1>4, <2>1 DEF Moved, ActiveSoon, EnabledSoon
  <2>3. r = DisableCons(h, c)
    BY <1>4 DEF SwitchedOnOff
  <2>. HIDE DEF active, enabled, obsolete, r
  <2>. QED
    BY <1>0, <2>1, <2>2, <2>3, DisableConsOk DEF active, enabled, obsolete, r
<1>5. CASE /\ c \notin upd["activate"] /\ c \notin upd["deactivate"]
           /\ c \notin upd["enable"] /\ c \notin upd["disable"]
  <2>1. active = h.active
    BY <1>5 DEF Moved, ActiveSoon
  <2>2. enabled = h.enabled
    BY <1>5 DEF Moved, EnabledSoon
  <2>3. obsolete = h.obsolete /\ r = h
    BY <1>5 DEF SwitchedOnOff
  <2>. HIDE DEF active, enabled, obsolete, r
  <2>. QED
    BY <1>0, <2>1, <2>2, <2>3 DEF FlagsAre, active, enabled, obsolete, r
<1>. QED
  BY <1>1, <1>2, <1>3, <1>4, <1>5

LEMMA PropagationSwitchedOk ==
  ASSUME Inv, NEW c \in Conss, NEW g, ArraysOk(g, seen)
  PROVE  LET r == PropagationSwitched(g, c)
         IN  /\ ArraysOk(r, seen)
             /\ FlagsAre(g, r, g.active, g.enabled,
                         Moved(g.propenabled, c, c \in PropenabledSoon(g, upd)), g.obsolete)
<1>. DEFINE r == PropagationSwitched(g, c)
            propenabled == Moved(g.propenabled, c, c \in PropenabledSoon(g, upd))
<1>0. c \in upd["propenable"] => c \notin upd["propdisable"]
  BY DEF Inv, Agree
<1>1. CASE c \in upd["propenable"] \ g.propenabled
  <2>1. propenabled = g.propenabled \union {c} /\ r = EnableConsPropagation(g, c)
    BY <1>0, <1>1 DEF Moved, PropenabledSoon, PropagationSwitched
  <2>. HIDE DEF propenabled, r
  <2>. QED
    BY <1>1, <2>1, EnableConsPropagationOk DEF propenabled, r
<1>2. CASE c \in upd["propdisable"] \intersect g.propenabled
  <2>1. propenabled = g.propenabled \ {c} /\ r = DisableConsPropagation(g, c)
    BY <1>0, <1>2 DEF Moved, PropenabledSoon, PropagationSwitched
  <2>. HIDE DEF propenabled, r
  <2>. QED
    BY <1>2, <2>1, DisableConsPropagationOk DEF propenabled, r
<1>3. CASE /\ c \notin upd["propenable"] \ g.propenabled
           /\ c \notin upd["propdisable"] \intersect g.propenabled
  <2>1. r = g
    BY <1>3 DEF PropagationSwitched
  <2>2. propenabled = g.propenabled
    BY <1>3 DEF Moved, PropenabledSoon
  <2>. HIDE DEF propenabled, r
  <2>. QED
    BY <2>1, <2>2 DEF FlagsAre, propenabled, r
<1>. QED
  BY <1>1, <1>2, <1>3

LEMMA AgedOk ==
  ASSUME NEW c \in Conss, NEW g, ArraysOk(g, seen)
  PROVE  LET r == Aged(g, c)
         IN  /\ ArraysOk(r, seen)
             /\ FlagsAre(g, r, g.active, g.enabled, g.propenabled,
                         IF c \in upd["obsolete"] THEN Moved(g.obsolete, c, c \in g.old)
                         ELSE g.obsolete)
<1>. DEFINE r == Aged(g, c)
            obsolete == IF c \in upd["obsolete"] THEN Moved(g.obsolete, c, c \in g.old)
                        ELSE g.obsolete
<1>1. CASE c \in (upd["obsolete"] \intersect g.old) \ g.obsolete
  <2>1. obsolete = g.obsolete \union {c} /\ r = MarkConsObsolete(g, c)
    BY <1>1 DEF Moved, Aged
  <2>. HIDE DEF obsolete, r
  <2>. QED
    BY <1>1, <2>1, MarkConsObsoleteOk DEF obsolete, r
<1>2. CASE c \in (upd["obsolete"] \intersect g.obsolete) \ g.old
  <2>1. obsolete = g.obsolete \ {c} /\ r = MarkConsUseful(g, c)
    BY <1>2 DEF Moved, Aged
  <2>. HIDE DEF obsolete, r
  <2>. QED
    BY <1>2, <2>1, MarkConsUsefulOk DEF obsolete, r
<1>3. CASE /\ c \notin (upd["obsolete"] \intersect g.old) \ g.obsolete
           /\ c \notin (upd["obsolete"] \intersect g.obsolete) \ g.old
  <2>1. r = g
    BY <1>3 DEF Aged
  <2>2. obsolete = g.obsolete
    BY <1>3 DEF Moved
  <2>. HIDE DEF obsolete, r
  <2>. QED
    BY <2>1, <2>2 DEF FlagsAre, obsolete, r
<1>. QED
  BY <1>1, <1>2, <1>3

LEMMA MarkSwitchedOk ==
  ASSUME NEW c \in Conss, NEW g, ArraysOk(g, seen)
  PROVE  LET r == MarkSwitched(g, c) IN ArraysOk(r, seen) /\ SameFlags(g, r)
<1>. DEFINE r == MarkSwitched(g, c)
<1>1. CASE c \in upd["mark"]
  BY <1>1, MarkConsPropagateArrays DEF MarkSwitched
<1>2. CASE c \notin upd["mark"] /\ c \in upd["unmark"]
  BY <1>2, UnmarkConsPropagateArrays DEF MarkSwitched
<1>3. CASE c \notin upd["mark"] /\ c \notin upd["unmark"]
  <2>1. r = g
    BY <1>3 DEF MarkSwitched
  <2>. HIDE DEF r
  <2>. QED
    BY <2>1 DEF SameFlags, FlagsAre, r
<1>. QED
  BY <1>1, <1>2, <1>3

\* One pass of the loop: c gets the flags that were asked for.
LEMMA ProcessedOk ==
  ASSUME Inv, NEW c \in Conss, c \notin Contradicted
  PROVE  LET r == MarkSwitched(Aged(PropagationSwitched(SwitchedOnOff(h, c), c), c), c)
         IN  /\ ArraysOk(r, seen)
             /\ FlagsAre(h, r, Moved(h.active, c, c \in ActiveSoon(h, upd)),
                         Moved(h.enabled, c, c \in EnabledSoon(h, upd)),
                         Moved(h.propenabled, c, c \in PropenabledSoon(h, upd)),
                         Moved(h.obsolete, c, c \in h.old))
<1>. DEFINE on == SwitchedOnOff(h, c)
            prop == PropagationSwitched(on, c)
            aged == Aged(prop, c)
            r == MarkSwitched(aged, c)
            active == Moved(h.active, c, c \in ActiveSoon(h, upd))
            enabled == Moved(h.enabled, c, c \in EnabledSoon(h, upd))
            propenabled == Moved(h.propenabled, c, c \in PropenabledSoon(h, upd))
            obsolete == IF c \in upd["deactivate"] THEN Moved(h.obsolete, c, c \in h.old)
                        ELSE h.obsolete
            settled == IF c \in upd["obsolete"] THEN Moved(obsolete, c, c \in h.old)
                       ELSE obsolete
<1>1. ArraysOk(on, seen) /\ FlagsAre(h, on, active, enabled, h.propenabled, obsolete)
  BY SwitchedOnOffOk
<1>. HIDE DEF on, active, enabled, obsolete
<1>2. /\ ArraysOk(prop, seen)
      /\ FlagsAre(on, prop, on.active, on.enabled,
                  Moved(on.propenabled, c, c \in PropenabledSoon(on, upd)), on.obsolete)
  BY <1>1, PropagationSwitchedOk
<1>3. FlagsAre(h, prop, active, enabled, propenabled, obsolete)
  BY <1>1, <1>2 DEF FlagsAre, PropenabledSoon
<1>. HIDE DEF prop, propenabled
<1>4. /\ ArraysOk(aged, seen)
      /\ FlagsAre(prop, aged, prop.active, prop.enabled, prop.propenabled,
                  IF c \in upd["obsolete"] THEN Moved(prop.obsolete, c, c \in prop.old)
                  ELSE prop.obsolete)
  BY <1>2, AgedOk
<1>5. FlagsAre(h, aged, active, enabled, propenabled, settled)
  BY <1>3, <1>4 DEF FlagsAre
<1>. HIDE DEF aged
<1>6. settled = Moved(h.obsolete, c, c \in h.old)
  <2>1. c \notin upd["obsolete"] => (c \in h.obsolete <=> c \in h.old)
    BY DEF Inv, Agree
  <2>. QED
    BY <2>1 DEF obsolete, Moved
<1>. HIDE DEF settled
<1>7. ArraysOk(r, seen) /\ SameFlags(aged, r)
  BY <1>4, MarkSwitchedOk
<1>. HIDE DEF r
<1>8. FlagsAre(h, r, active, enabled, propenabled, settled)
  BY <1>5, <1>7 DEF SameFlags, FlagsAre
<1>. QED
  BY <1>6, <1>7, <1>8 DEF r, aged, prop, on, active, enabled, propenabled

\* The constraint that is served: the last one, and nowhere else in the queue.
LEMMA LastOfQueue ==
  ASSUME Inv, Processing
  PROVE  /\ Len(queue) \in Nat \ {0} /\ DOMAIN queue = 1 .. Len(queue)
         /\ \A i \in 1 .. Len(queue) : queue[i] \in Conss
         /\ \A i \in 1 .. Len(queue) - 1 : queue[i] # queue[Len(queue)]
<1>1. queue \in Seq(Conss) /\ queue # <<>>
      /\ \A i, j \in DOMAIN queue : queue[i] = queue[j] => i = j
  BY DEF Inv, Waiting, Processing
<1>2. Len(queue) \in Nat \ {0} /\ DOMAIN queue = 1 .. Len(queue)
  BY <1>1, LenProperties, EmptySeq
<1>3. \A i \in 1 .. Len(queue) : queue[i] \in Conss
  BY <1>1, <1>2, ElementOfSeq
<1>. QED
  BY <1>1, <1>2, <1>3

LEMMA ProcessUpdateInv ==
  ASSUME Inv, ServesSettled, ProcessUpdate
  PROVE  Inv'
<1>. DEFINE n == Len(queue)
            c == queue[n]
            r == MarkSwitched(Aged(PropagationSwitched(SwitchedOnOff(h, c), c), c), c)
<1>1. /\ n \in Nat \ {0} /\ DOMAIN queue = 1 .. n /\ c \in Conss
      /\ queue \in Seq(Conss)
      /\ \A i \in 1 .. n - 1 : queue[i] # c
      /\ c \notin Contradicted
  BY LastOfQueue DEF ProcessUpdate, ServesSettled, Inv, Waiting
<1>2. /\ h' = r /\ queue' = SubSeq(queue, 1, n - 1) /\ KeepSeen /\ UNCHANGED calls
      /\ upd' = [k \in Kinds |-> upd[k] \ {c}]
  BY DEF ProcessUpdate
<1>. HIDE DEF c
<1>3. /\ ArraysOk(r, seen)
      /\ FlagsAre(h, r, Moved(h.active, c, c \in ActiveSoon(h, upd)),
                  Moved(h.enabled, c, c \in EnabledSoon(h, upd)),
                  Moved(h.propenabled, c, c \in PropenabledSoon(h, upd)),
                  Moved(h.obsolete, c, c \in h.old))
  BY <1>1, ProcessedOk
<1>. HIDE DEF r
<1>7. ArraysOk(h', seen') /\ seen' \in [Solutions -> SUBSET Conss]
  BY <1>2, <1>3, SeenKept
<1>4. upd' \in UpdType
  BY <1>2 DEF Inv, UpdType
<1>5. Waiting(queue', upd')
  <2>. DEFINE q == SubSeq(queue, 1, n - 1)
  <2>1. /\ q \in Seq(Conss) /\ DOMAIN q = 1 .. n - 1
        /\ \A i \in 1 .. n - 1 : q[i] = queue[i]
    <3>1. \A i \in 1 .. n - 1 : queue[i] \in Conss
      BY <1>1, ElementOfSeq
    <3>2. q \in Seq(Conss) /\ Len(q) = n - 1 /\ \A i \in 1 .. n - 1 : q[i] = queue[i]
      BY <1>1, <3>1, SubSeqProperties
    <3>. QED
      BY <3>2, LenProperties
  <2>2. /\ \A i, j \in 1 .. n : queue[i] = queue[j] => i = j
        /\ \A i \in 1 .. n : \E k \in Kinds : queue[i] \in upd[k]
        /\ \A k \in Kinds : \A d \in upd[k] : \E i \in 1 .. n : queue[i] = d
    BY <1>1 DEF Inv, Waiting
  <2>. HIDE DEF q, n
  <2>3. \A i, j \in DOMAIN q : q[i] = q[j] => i = j
    BY <1>1, <2>1, <2>2
  <2>4. ASSUME NEW i \in DOMAIN q
        PROVE  \E k \in Kinds : q[i] \in upd'[k]
    <3>1. i \in 1 .. n /\ q[i] = queue[i] /\ q[i] # c
      BY <1>1, <2>1, <2>4
    <3>2. PICK k \in Kinds : queue[i] \in upd[k]
      BY <2>2, <3>1
    <3>. QED
      BY <1>2, <3>1, <3>2
  <2>5. ASSUME NEW k \in Kinds, NEW d \in upd'[k]
        PROVE  \E i \in DOMAIN q : q[i] = d
    <3>1. d \in upd[k] /\ d # c
      BY <1>2, <2>5
    <3>2. PICK i \in 1 .. n : queue[i] = d
      BY <2>2, <3>1
    <3>3. i # n
      BY <3>1, <3>2 DEF c
    <3>4. i \in DOMAIN q /\ q[i] = d
      BY <1>1, <2>1, <3>2, <3>3
    <3>. QED
      BY <3>4
  <2>. QED
    BY <1>2, <2>1, <2>3, <2>4, <2>5 DEF Waiting, q
<1>6. Agree(r, upd')
  <2>1. /\ \A d \in Conss \ {c} : d \in r.active <=> d \in h.active
        /\ \A d \in Conss \ {c} : d \in r.enabled <=> d \in h.enabled
        /\ \A d \in Conss \ {c} : d \in r.obsolete <=> d \in h.obsolete
        /\ c \in r.obsolete <=> c \in h.old
        /\ r.old = h.old
    <3>. DEFINE obsolete == Moved(h.obsolete, c, c \in h.old)
    <3>1. /\ r.active = Moved(h.active, c, c \in ActiveSoon(h, upd))
          /\ r.enabled = Moved(h.enabled, c, c \in EnabledSoon(h, upd))
          /\ r.obsolete = obsolete /\ r.old = h.old
      BY <1>3 DEF FlagsAre
    <3>2. \A d \in Conss \ {c} : d \in obsolete <=> d \in h.obsolete
      BY DEF Moved
    <3>3. c \in obsolete <=> c \in h.old
      BY DEF Moved
    <3>. QED
      BY <3>1, <3>2, <3>3 DEF Moved
  <2>2. \A k \in Kinds : upd'[k] = upd[k] \ {c} /\ upd[k] \subseteq Conss
    BY <1>2 DEF Inv, UpdType
  <2>3. r.obsolete \subseteq Conss /\ h.obsolete \subseteq Conss /\ h.old \subseteq Conss
    BY <1>3 DEF Inv, ArraysOk, Handler
  <2>4. Agree(h, upd)
    BY DEF Inv
  <2>. HIDE DEF n
  <2>5. /\ upd'["activate"] \intersect (r.active \union upd'["deactivate"] \union upd'["enable"]
                                  \union upd'["disable"] \union upd'["obsolete"]) = {}
        /\ upd'["deactivate"] \subseteq r.active
    BY <2>1, <2>2, <2>4 DEF Agree, Kinds
  <2>6. /\ (upd'["enable"] \ upd'["deactivate"]) \intersect r.enabled \subseteq upd'["disable"]
        /\ upd'["disable"] \ upd'["deactivate"] \subseteq r.enabled \union upd'["enable"]
        /\ upd'["propenable"] \intersect upd'["propdisable"] = {}
    BY <2>1, <2>2, <2>4 DEF Agree, Kinds
  <2>7. /\ upd'["enable"] \subseteq r.active
        /\ upd'["obsolete"] \subseteq r.active
    BY <2>1, <2>2, <2>4 DEF Agree, Kinds
  <2>8. r.obsolete \ upd'["obsolete"] = r.old \ upd'["obsolete"]
    BY <1>1, <2>1, <2>2, <2>3, <2>4 DEF Agree, Kinds
  <2>. QED
    BY <2>5, <2>6, <2>7, <2>8 DEF Agree
<1>. QED
  BY <1>2, <1>7, <1>4, <1>5, <1>6 DEF Inv

LEMMA InvNext ==
  ASSUME Inv, [Next]_vars, [ServesSettled]_vars
  PROVE  Inv'
<1>1. CASE UNCHANGED vars
  BY <1>1 DEF vars, Inv
<1>2. ASSUME NEW c \in Conss,
             \/ Activate(c) \/ Deactivate(c) \/ Enable(c) \/ Disable(c)
             \/ EnablePropagation(c) \/ DisablePropagation(c)
             \/ MarkPropagate(c) \/ UnmarkPropagate(c) \/ AddAge(c) \/ ResetAge(c)
      PROVE  Inv'
  BY <1>2, ActivateInv, DeactivateInv, EnableInv, DisableInv, EnablePropagationInv,
     DisablePropagationInv, MarkPropagateInv, UnmarkPropagateInv, AddAgeInv, ResetAgeInv
<1>3. CASE ProcessUpdate
  <2>1. CASE UNCHANGED vars
    BY <1>1, <2>1
  <2>2. CASE ServesSettled
    BY <1>3, <2>2, ProcessUpdateInv
  <2>. QED
    BY <2>1, <2>2
<1>4. ASSUME NEW s \in Solutions, Enforce(s)
      PROVE  Inv'
  BY <1>4, EnforceInv
<1>5. CASE Call \/ Return \/ NewSolution
  BY <1>5, CallInv, ReturnInv, NewSolutionInv
<1>. QED
  BY <1>1, <1>2, <1>3, <1>4, <1>5 DEF Next

-----------------------------------------------------------------------------
(* The invariants.                                                         *)

LEMMA AlwaysInv == Spec /\ [][ServesSettled]_vars => []Inv
<1>1. Init => Inv
  BY InvInit
<1>2. Inv /\ [Next]_vars /\ [ServesSettled]_vars => Inv'
  BY InvNext
<1>. QED
  BY <1>1, <1>2, PTL DEF Spec

\* Every variable has its type and only active constraints are enabled, in
\* every reachable state of conshdlr..., however large the handler is, until
\* contradictory requests are carried out.
THEOREM TypeCorrect == Spec /\ [][ServesSettled]_vars => []TypeOK
<1>1. Inv => TypeOK
  BY InvImplies
<1>. QED
  BY <1>1, AlwaysInv, PTL

\* The moves of conshdlrMarkConsObsolete, conshdlrDelEnfocons and their like
\* keep the useful constraints of every array before the obsolete ones, and
\* each constraint in the array once: what checkConssArrays tests.
THEOREM ArraysAreParted == Spec /\ [][ServesSettled]_vars => []ArraysParted
<1>1. Inv => ArraysParted
  BY InvImplies
<1>. QED
  BY <1>1, AlwaysInv, PTL

\* Whatever is requested during the callbacks and in whatever order, the
\* assertions at the head of the loop of conshdlrProcessUpdates can fail for no
\* constraint but one for which SCIPconsEnable and SCIPconsDisable both wait: in
\* every state, with the caller free to ask for both, up to the moment the loop
\* serves such a constraint.  While there is none, no assertion fails.
THEOREM UpdatesAlwaysAgree ==
  Spec /\ [][ServesSettled]_vars
    => [](UpdatesAgreeBut(Contradicted) /\ (Contradicted = {} => UpdatesAgree))
<1>1. Inv => UpdatesAgreeBut(Contradicted)
  BY InvImplies
<1>2. UpdatesAgreeBut(Contradicted) => (Contradicted = {} => UpdatesAgree)
  BY DEF UpdatesAgree
<1>. QED
  BY <1>1, <1>2, AlwaysInv, PTL

\* lastnusefulenfoconss, shared by the enforcement of LP, relaxation and pseudo
\* solutions, separates the enforced constraints from the new ones: unless one
\* of the exceptions noted in unsettled happened, the next enforcement of the
\* same solution passes every constraint that has not seen it.
THEOREM NoConstraintOverlooked == Spec /\ [][ServesSettled]_vars => []NoneOverlooked
<1>1. Inv => NoneOverlooked
  BY InvImplies
<1>. QED
  BY <1>1, AlwaysInv, PTL

-----------------------------------------------------------------------------
(* Callers that do not ask for both.                                       *)

LEMMA RequestSettled ==
  ASSUME NEW c, NEW set, NEW cleared, NEW done, Request(c, set, cleared, done),
         cleared # "deactivate",
         set = "enable" => c \notin upd["disable"],
         set = "disable" => c \notin upd["enable"],
         Contradicted = {}
  PROVE  Contradicted' = {}
<1>1. CASE UNCHANGED upd
  BY <1>1 DEF Contradicted
<1>2. CASE Note(c, set, cleared)
  <2>1. \A k \in Kinds : upd'[k] = IF k = set THEN upd[k] \union {c}
                                   ELSE IF k = cleared THEN upd[k] \ {c} ELSE upd[k]
    BY <1>2 DEF Note
  <2>. QED
    BY <2>1 DEF Contradicted, Kinds
<1>. QED
  BY <1>1, <1>2 DEF Request

LEMMA NoneContradicted ==
  ASSUME ~Reenables, Contradicted = {}, [Next]_vars
  PROVE  Contradicted' = {}
<1>1. CASE UNCHANGED vars
  BY <1>1 DEF vars, Contradicted
<1>2. ASSUME NEW c \in Conss,
             \/ Activate(c) \/ Deactivate(c) \/ EnablePropagation(c)
             \/ DisablePropagation(c) \/ MarkPropagate(c) \/ UnmarkPropagate(c)
      PROVE  Contradicted' = {}
  BY <1>2, RequestSettled DEF Activate, Deactivate, EnablePropagation,
     DisablePropagation, MarkPropagate, UnmarkPropagate
<1>3. ASSUME NEW c \in Conss, Enable(c) \/ Disable(c)
      PROVE  Contradicted' = {}
  BY <1>3, RequestSettled DEF Enable, Disable
<1>4. ASSUME NEW c \in Conss, AddAge(c) \/ ResetAge(c)
      PROVE  Contradicted' = {}
  <2>1. UNCHANGED upd \/ Note(c, "obsolete", "none")
    BY <1>4 DEF AddAge, ResetAge
  <2>2. CASE UNCHANGED upd
    BY <2>2 DEF Contradicted
  <2>3. CASE Note(c, "obsolete", "none")
    <3>1. \A k \in Kinds : upd'[k] = IF k = "obsolete" THEN upd[k] \union {c}
                                     ELSE IF k = "none" THEN upd[k] \ {c} ELSE upd[k]
      BY <2>3 DEF Note
    <3>. QED
      BY <3>1 DEF Contradicted, Kinds
  <2>. QED
    BY <2>1, <2>2, <2>3
<1>5. CASE ProcessUpdate
  <2>1. PICK c : upd' = [k \in Kinds |-> upd[k] \ {c}]
    BY <1>5 DEF ProcessUpdate
  <2>. QED
    BY <2>1 DEF Contradicted, Kinds
<1>6. ASSUME NEW s \in Solutions, Enforce(s)
      PROVE  Contradicted' = {}
  BY <1>6 DEF Enforce, Contradicted
<1>7. CASE Call \/ Return \/ NewSolution
  BY <1>7 DEF Call, Return, NewSolution, Contradicted
<1>. QED
  BY <1>1, <1>2, <1>3, <1>4, <1>5, <1>6, <1>7 DEF Next

\* A caller that never asks for the opposite of what waits contradicts nothing,
\* so the loop of conshdlrProcessUpdates serves settled constraints only.
THEOREM NothingContradicted ==
  ASSUME ~Reenables
  PROVE  Spec => [](Contradicted = {}) /\ [][ServesSettled]_vars
<1>1. Init => Contradicted = {}
  BY DEF Init, Contradicted, Kinds
<1>2. Contradicted = {} /\ [Next]_vars => (Contradicted = {})'
  BY NoneContradicted
<1>3. Contradicted = {} => ServesSettled
  BY DEF ServesSettled
<1>. QED
  BY <1>1, <1>2, <1>3, PTL DEF Spec

-----------------------------------------------------------------------------
(* During a callback.                                                      *)

LEMMA StillStep ==
  ASSUME Inv, [Next]_vars, Delayed
  PROVE  UNCHANGED <<h.check, h.enfo, h.prop>>
<1>1. h \in Handler
  BY DEF Inv, ArraysOk
<1>2. CASE UNCHANGED vars
  BY <1>2 DEF vars
<1>3. ASSUME NEW c \in Conss, NEW set, NEW cleared, NEW done, Request(c, set, cleared, done)
      PROVE  UNCHANGED h
  BY <1>3 DEF Request
<1>4. ASSUME NEW c \in Conss,
             \/ Activate(c) \/ Deactivate(c) \/ Enable(c) \/ Disable(c)
             \/ EnablePropagation(c) \/ DisablePropagation(c)
             \/ MarkPropagate(c) \/ UnmarkPropagate(c)
      PROVE  UNCHANGED h
  BY <1>3, <1>4 DEF Activate, Deactivate, Enable, Disable, EnablePropagation,
                    DisablePropagation, MarkPropagate, UnmarkPropagate
<1>5. ASSUME NEW c \in Conss, AddAge(c)
      PROVE  h' = [h EXCEPT !.old = @ \union {c}]
  BY <1>5 DEF AddAge
<1>6. ASSUME NEW c \in Conss, ResetAge(c)
      PROVE  h' = [h EXCEPT !.old = @ \ {c}]
  BY <1>6 DEF ResetAge
<1>7. ASSUME NEW c \in Conss, AddAge(c) \/ ResetAge(c)
      PROVE  UNCHANGED <<h.check, h.enfo, h.prop>>
  BY <1>1, <1>5, <1>6, <1>7 DEF Handler
<1>8. ~ProcessUpdate /\ (\A s : ~Enforce(s)) /\ ~NewSolution
  BY DEF ProcessUpdate, Processing, Enforce, NewSolution
<1>9. CASE Call
  BY <1>9 DEF Call
<1>10. CASE Return
  <2>1. PICK again : h' = [h EXCEPT !.counted = @ \ again, !.unsettled = @ \ again]
    BY <1>10 DEF Return, Forget
  <2>. QED
    BY <1>1, <2>1 DEF Handler
<1>. QED
  BY <1>2, <1>4, <1>7, <1>8, <1>9, <1>10 DEF Next

\* While delayupdatecount is positive no request moves a constraint in an array
\* a callback may be working on, whatever the depth of the callbacks.
THEOREM ArraysStayStill == Spec /\ [][ServesSettled]_vars => ArraysStill
<1>1. Inv /\ [Next]_vars => [Delayed => UNCHANGED <<h.check, h.enfo, h.prop>>]_vars
  BY StillStep
<1>. QED
  BY <1>1, AlwaysInv, PTL DEF Spec, ArraysStill
-----------------------------------------------------------------------------
(* The handler implements ConsStates.                                      *)

ObsoleteSoon(g, u) == (g.obsolete \ u["obsolete"]) \union (g.old \intersect u["obsolete"])

\* The state of ConsStates after a step; obsolete is what the ages say.
SoonAre(active, enabled, propenabled, obsolete) ==
  /\ ActiveSoon(h', upd') = active
  /\ EnabledSoon(h', upd') = enabled
  /\ PropenabledSoon(h', upd') = propenabled
  /\ (h').old = obsolete

LEMMA ObsoleteSoonIsOld ==
  ASSUME NEW g, NEW u, Agree(g, u)
  PROVE  ObsoleteSoon(g, u) = g.old
BY DEF Agree, ObsoleteSoon

LEMMA ActivateSoon ==
  ASSUME Inv, Inv', NEW c \in Conss, Activate(c)
  PROVE  /\ c \notin ActiveSoon(h, upd)
         /\ SoonAre(ActiveSoon(h, upd) \union {c}, EnabledSoon(h, upd) \union {c}, PropenabledSoon(h, upd), h.old)
<1>0. Agree(h, upd) /\ h.enabled \subseteq h.active /\ Agree(h', upd')
  BY DEF Inv, ArraysOk
<1>1. CASE ~Delayed
  <2>. DEFINE r == ActivateCons(h, c)
  <2>1. ~Processing /\ h' = r /\ UNCHANGED upd
    BY <1>1 DEF Activate, Request
  <2>2. \A k \in Kinds : upd[k] = {} /\ upd'[k] = {}
    BY <1>1, <2>1, NothingWaits
  <2>3. c \notin h.active
    BY <2>2 DEF Activate, Kinds
  <2>4. FlagsAre(h, r, h.active \union {c}, h.enabled \union {c}, h.propenabled, h.obsolete)
    BY <2>3, ActivateConsOk DEF Inv
  <2>. HIDE DEF r
  <2>. QED
    BY <2>1, <2>2, <2>3, <2>4 DEF FlagsAre, SoonAre, ActiveSoon, EnabledSoon, PropenabledSoon, Kinds
<1>2. CASE Delayed
  <2>1. UNCHANGED h /\ \A k \in Kinds : upd'[k] = IF k = "activate" THEN upd[k] \union {c}
                                      ELSE IF k = "none" THEN upd[k] \ {c} ELSE upd[k]
    BY <1>2 DEF Activate, Request, Note
  <2>2. c \notin h.active \union upd["activate"]
    BY DEF Activate
  <2>. QED
    BY <1>0, <2>1, <2>2 DEF Agree, SoonAre, ActiveSoon, EnabledSoon, PropenabledSoon, Kinds
<1>. QED
  BY <1>1, <1>2

LEMMA DeactivateSoon ==
  ASSUME Inv, Inv', NEW c \in Conss, Deactivate(c)
  PROVE  /\ c \in ActiveSoon(h, upd)
         /\ SoonAre(ActiveSoon(h, upd) \ {c}, EnabledSoon(h, upd) \ {c}, PropenabledSoon(h, upd), h.old)
<1>0. Agree(h, upd) /\ h.enabled \subseteq h.active /\ Agree(h', upd')
  BY DEF Inv, ArraysOk
<1>1. CASE ~Delayed
  <2>. DEFINE r == DeactivateCons(h, c)
  <2>1. ~Processing /\ h' = r /\ UNCHANGED upd
    BY <1>1 DEF Deactivate, Request
  <2>2. \A k \in Kinds : upd[k] = {} /\ upd'[k] = {}
    BY <1>1, <2>1, NothingWaits
  <2>3. c \in h.active
    BY <2>2 DEF Deactivate, Kinds
  <2>4. FlagsAre(h, r, h.active \ {c}, h.enabled \ {c}, h.propenabled, h.obsolete)
    BY <2>3, DeactivateConsOk DEF Inv
  <2>. HIDE DEF r
  <2>. QED
    BY <2>1, <2>2, <2>3, <2>4 DEF FlagsAre, SoonAre, ActiveSoon, EnabledSoon, PropenabledSoon, Kinds
<1>2. CASE Delayed
  <2>1. UNCHANGED h /\ \A k \in Kinds : upd'[k] = IF k = "deactivate" THEN upd[k] \union {c}
                                      ELSE IF k = "none" THEN upd[k] \ {c} ELSE upd[k]
    BY <1>2 DEF Deactivate, Request, Note
  <2>2. c \in h.active \ upd["deactivate"]
    BY DEF Deactivate
  <2>. QED
    BY <1>0, <2>1, <2>2 DEF Agree, SoonAre, ActiveSoon, EnabledSoon, PropenabledSoon, Kinds
<1>. QED
  BY <1>1, <1>2

LEMMA EnableSoon ==
  ASSUME ~Reenables, Inv, Inv', NEW c \in Conss, Enable(c)
  PROVE  /\ c \in ActiveSoon(h, upd)
         /\ SoonAre(ActiveSoon(h, upd), EnabledSoon(h, upd) \union {c}, PropenabledSoon(h, upd), h.old)
<1>0. Agree(h, upd) /\ h.enabled \subseteq h.active /\ Agree(h', upd')
  BY DEF Inv, ArraysOk
<1>1. CASE ~Delayed
  <2>. DEFINE r == EnableCons(h, c)
  <2>1. ~Processing /\ h' = r /\ UNCHANGED upd
    BY <1>1 DEF Enable, Request
  <2>2. \A k \in Kinds : upd[k] = {} /\ upd'[k] = {}
    BY <1>1, <2>1, NothingWaits
  <2>3. c \in h.active \ h.enabled
    BY <2>2 DEF Enable, Kinds
  <2>4. FlagsAre(h, r, h.active, h.enabled \union {c}, h.propenabled, h.obsolete)
    BY <2>3, EnableConsOk DEF Inv
  <2>. HIDE DEF r
  <2>. QED
    BY <2>1, <2>2, <2>3, <2>4 DEF FlagsAre, SoonAre, ActiveSoon, EnabledSoon, PropenabledSoon, Kinds
<1>2. CASE Delayed
  <2>1. UNCHANGED h /\ \A k \in Kinds : upd'[k] = IF k = "enable" THEN upd[k] \union {c}
                                      ELSE IF k = "none" THEN upd[k] \ {c} ELSE upd[k]
    BY <1>2 DEF Enable, Request, Note
  <2>2. c \in h.active \ upd["deactivate"] /\ c \notin upd["disable"]
    BY DEF Enable
  <2>. QED
    BY <1>0, <2>1, <2>2 DEF Agree, SoonAre, ActiveSoon, EnabledSoon, PropenabledSoon, Kinds
<1>. QED
  BY <1>1, <1>2

LEMMA DisableSoon ==
  ASSUME ~Reenables, Inv, Inv', NEW c \in Conss, Disable(c)
  PROVE  SoonAre(ActiveSoon(h, upd), EnabledSoon(h, upd) \ {c}, PropenabledSoon(h, upd), h.old)
<1>0. Agree(h, upd) /\ h.enabled \subseteq h.active /\ Agree(h', upd')
  BY DEF Inv, ArraysOk
<1>1. CASE ~Delayed
  <2>. DEFINE r == DisableCons(h, c)
  <2>1. ~Processing /\ h' = r /\ UNCHANGED upd
    BY <1>1 DEF Disable, Request
  <2>2. \A k \in Kinds : upd[k] = {} /\ upd'[k] = {}
    BY <1>1, <2>1, NothingWaits
  <2>3. c \in h.enabled
    BY <2>2 DEF Disable, Kinds
  <2>4. FlagsAre(h, r, h.active, h.enabled \ {c}, h.propenabled, h.obsolete)
    BY <2>3, DisableConsOk DEF Inv
  <2>. HIDE DEF r
  <2>. QED
    BY <2>1, <2>2, <2>3, <2>4 DEF FlagsAre, SoonAre, ActiveSoon, EnabledSoon, PropenabledSoon, Kinds
<1>2. CASE Delayed
  <2>1. UNCHANGED h /\ \A k \in Kinds : upd'[k] = IF k = "disable" THEN upd[k] \union {c}
                                      ELSE IF k = "none" THEN upd[k] \ {c} ELSE upd[k]
    BY <1>2 DEF Disable, Request, Note
  <2>2. c \notin upd["enable"]
    BY DEF Disable
  <2>. QED
    BY <1>0, <2>1, <2>2 DEF Agree, SoonAre, ActiveSoon, EnabledSoon, PropenabledSoon, Kinds
<1>. QED
  BY <1>1, <1>2

LEMMA EnablePropagationSoon ==
  ASSUME Inv, Inv', NEW c \in Conss, EnablePropagation(c)
  PROVE  SoonAre(ActiveSoon(h, upd), EnabledSoon(h, upd), PropenabledSoon(h, upd) \union {c}, h.old)
<1>0. Agree(h, upd) /\ h.enabled \subseteq h.active /\ Agree(h', upd')
  BY DEF Inv, ArraysOk
<1>1. CASE ~Delayed
  <2>. DEFINE r == EnableConsPropagation(h, c)
  <2>1. ~Processing /\ h' = r /\ UNCHANGED upd
    BY <1>1 DEF EnablePropagation, Request
  <2>2. \A k \in Kinds : upd[k] = {} /\ upd'[k] = {}
    BY <1>1, <2>1, NothingWaits
  <2>3. c \notin h.propenabled
    BY <2>2 DEF EnablePropagation, Kinds
  <2>4. FlagsAre(h, r, h.active, h.enabled, h.propenabled \union {c}, h.obsolete)
    BY <2>3, EnableConsPropagationOk DEF Inv
  <2>. HIDE DEF r
  <2>. QED
    BY <2>1, <2>2, <2>3, <2>4 DEF FlagsAre, SoonAre, ActiveSoon, EnabledSoon, PropenabledSoon, Kinds
<1>2. CASE Delayed
  <2>1. UNCHANGED h /\ \A k \in Kinds : upd'[k] = IF k = "propenable" THEN upd[k] \union {c}
                                      ELSE IF k = "propdisable" THEN upd[k] \ {c} ELSE upd[k]
    BY <1>2 DEF EnablePropagation, Request, Note
  <2>. QED
    BY <1>0, <2>1 DEF Agree, SoonAre, ActiveSoon, EnabledSoon, PropenabledSoon, Kinds
<1>. QED
  BY <1>1, <1>2

LEMMA DisablePropagationSoon ==
  ASSUME Inv, Inv', NEW c \in Conss, DisablePropagation(c)
  PROVE  SoonAre(ActiveSoon(h, upd), EnabledSoon(h, upd), PropenabledSoon(h, upd) \ {c}, h.old)
<1>0. Agree(h, upd) /\ h.enabled \subseteq h.active /\ Agree(h', upd')
  BY DEF Inv, ArraysOk
<1>1. CASE ~Delayed
  <2>. DEFINE r == DisableConsPropagation(h, c)
  <2>1. ~Processing /\ h' = r /\ UNCHANGED upd
    BY <1>1 DEF DisablePropagation, Request
  <2>2. \A k \in Kinds : upd[k] = {} /\ upd'[k] = {}
    BY <1>1, <2>1, NothingWaits
  <2>3. c \in h.propenabled
    BY <2>2 DEF DisablePropagation, Kinds
  <2>4. FlagsAre(h, r, h.active, h.enabled, h.propenabled \ {c}, h.obsolete)
    BY <2>3, DisableConsPropagationOk DEF Inv
  <2>. HIDE DEF r
  <2>. QED
    BY <2>1, <2>2, <2>3, <2>4 DEF FlagsAre, SoonAre, ActiveSoon, EnabledSoon, PropenabledSoon, Kinds
<1>2. CASE Delayed
  <2>1. UNCHANGED h /\ \A k \in Kinds : upd'[k] = IF k = "propdisable" THEN upd[k] \union {c}
                                      ELSE IF k = "propenable" THEN upd[k] \ {c} ELSE upd[k]
    BY <1>2 DEF DisablePropagation, Request, Note
  <2>. QED
    BY <1>0, <2>1 DEF Agree, SoonAre, ActiveSoon, EnabledSoon, PropenabledSoon, Kinds
<1>. QED
  BY <1>1, <1>2

LEMMA MarkPropagateSoon ==
  ASSUME Inv, Inv', NEW c \in Conss, MarkPropagate(c)
  PROVE  SoonAre(ActiveSoon(h, upd), EnabledSoon(h, upd), PropenabledSoon(h, upd), h.old)
<1>0. Agree(h, upd) /\ h.enabled \subseteq h.active /\ Agree(h', upd')
  BY DEF Inv, ArraysOk
<1>1. CASE ~Delayed
  <2>. DEFINE r == MarkConsPropagate(h, c)
  <2>1. ~Processing /\ h' = r /\ UNCHANGED upd
    BY <1>1 DEF MarkPropagate, Request
  <2>2. \A k \in Kinds : upd[k] = {} /\ upd'[k] = {}
    BY <1>1, <2>1, NothingWaits
  <2>4. SameFlags(h, r)
    BY MarkConsPropagateArrays DEF Inv
  <2>. HIDE DEF r
  <2>. QED
    BY <2>1, <2>2, <2>4 DEF SameFlags, FlagsAre, SoonAre, ActiveSoon, EnabledSoon, PropenabledSoon, Kinds
<1>2. CASE Delayed
  <2>1. UNCHANGED h /\ \A k \in Kinds : upd'[k] = IF k = "mark" THEN upd[k] \union {c}
                                      ELSE IF k = "unmark" THEN upd[k] \ {c} ELSE upd[k]
    BY <1>2 DEF MarkPropagate, Request, Note
  <2>. QED
    BY <1>0, <2>1 DEF Agree, SoonAre, ActiveSoon, EnabledSoon, PropenabledSoon, Kinds
<1>. QED
  BY <1>1, <1>2

LEMMA UnmarkPropagateSoon ==
  ASSUME Inv, Inv', NEW c \in Conss, UnmarkPropagate(c)
  PROVE  SoonAre(ActiveSoon(h, upd), EnabledSoon(h, upd), PropenabledSoon(h, upd), h.old)
<1>0. Agree(h, upd) /\ h.enabled \subseteq h.active /\ Agree(h', upd')
  BY DEF Inv, ArraysOk
<1>1. CASE ~Delayed
  <2>. DEFINE r == UnmarkConsPropagate(h, c)
  <2>1. ~Processing /\ h' = r /\ UNCHANGED upd
    BY <1>1 DEF UnmarkPropagate, Request
  <2>2. \A k \in Kinds : upd[k] = {} /\ upd'[k] = {}
    BY <1>1, <2>1, NothingWaits
  <2>4. SameFlags(h, r)
    BY UnmarkConsPropagateArrays DEF Inv
  <2>. HIDE DEF r
  <2>. QED
    BY <2>1, <2>2, <2>4 DEF SameFlags, FlagsAre, SoonAre, ActiveSoon, EnabledSoon, PropenabledSoon, Kinds
<1>2. CASE Delayed
  <2>1. UNCHANGED h /\ \A k \in Kinds : upd'[k] = IF k = "unmark" THEN upd[k] \union {c}
                                      ELSE IF k = "mark" THEN upd[k] \ {c} ELSE upd[k]
    BY <1>2 DEF UnmarkPropagate, Request, Note
  <2>. QED
    BY <1>0, <2>1 DEF Agree, SoonAre, ActiveSoon, EnabledSoon, PropenabledSoon, Kinds
<1>. QED
  BY <1>1, <1>2
LEMMA AddAgeSoon ==
  ASSUME Inv, Inv', NEW c \in Conss, AddAge(c)
  PROVE  SoonAre(ActiveSoon(h, upd), EnabledSoon(h, upd), PropenabledSoon(h, upd),
                 h.old \union {c})
<1>. DEFINE aged == WithOld(h, h.old \union {c})
<1>0. ArraysOk(h, seen) /\ h.old \union {c} \in SUBSET Conss
  BY DEF Inv, ArraysOk, Handler
<1>1. /\ ArraysOk(aged, seen)
      /\ aged.active = h.active /\ aged.enabled = h.enabled
      /\ aged.propenabled = h.propenabled /\ aged.obsolete = h.obsolete
      /\ aged.old = h.old \union {c}
  BY <1>0, WithOldOk
<1>2. /\ \/ h' = aged
         \/ c \notin h.obsolete /\ h' = MarkConsObsolete(aged, c)
      /\ \A k \in Kinds : k # "obsolete" => upd'[k] = upd[k]
  <2>1. \/ h' = aged
        \/ c \notin h.obsolete /\ h' = MarkConsObsolete(aged, c)
    BY DEF AddAge, WithOld
  <2>2. Note(c, "obsolete", "none") \/ UNCHANGED upd
    BY DEF AddAge
  <2>3. ASSUME Note(c, "obsolete", "none")
        PROVE  \A k \in Kinds : k # "obsolete" => upd'[k] = upd[k]
    BY <2>3 DEF Note, Kinds
  <2>. QED
    BY <2>1, <2>2, <2>3
<1>. HIDE DEF aged
<1>3. /\ (h').active = h.active /\ (h').enabled = h.enabled
      /\ (h').propenabled = h.propenabled /\ (h').old = h.old \union {c}
  <2>1. CASE h' = aged
    BY <1>1, <2>1
  <2>2. CASE c \notin h.obsolete /\ h' = MarkConsObsolete(aged, c)
    <3>. DEFINE r == MarkConsObsolete(aged, c)
    <3>1. FlagsAre(aged, r, aged.active, aged.enabled, aged.propenabled,
                   aged.obsolete \union {c})
      BY <1>1, <2>2, MarkConsObsoleteOk
    <3>. HIDE DEF r
    <3>. QED
      BY <1>1, <2>2, <3>1 DEF FlagsAre, r
  <2>. QED
    BY <1>2, <2>1, <2>2
<1>. QED
  BY <1>2, <1>3 DEF SoonAre, ActiveSoon, EnabledSoon, PropenabledSoon, Kinds

LEMMA ResetAgeSoon ==
  ASSUME Inv, Inv', NEW c \in Conss, ResetAge(c)
  PROVE  SoonAre(ActiveSoon(h, upd), EnabledSoon(h, upd), PropenabledSoon(h, upd),
                 h.old \ {c})
<1>. DEFINE fresh == WithOld(h, h.old \ {c})
<1>0. ArraysOk(h, seen) /\ h.old \ {c} \in SUBSET Conss
  BY DEF Inv, ArraysOk, Handler
<1>1. /\ ArraysOk(fresh, seen)
      /\ fresh.active = h.active /\ fresh.enabled = h.enabled
      /\ fresh.propenabled = h.propenabled /\ fresh.obsolete = h.obsolete
      /\ fresh.old = h.old \ {c}
  BY <1>0, WithOldOk
<1>2. /\ \/ h' = fresh
         \/ c \in h.obsolete /\ h' = MarkConsUseful(fresh, c)
      /\ \A k \in Kinds : k # "obsolete" => upd'[k] = upd[k]
  <2>1. \/ h' = fresh
        \/ c \in h.obsolete /\ h' = MarkConsUseful(fresh, c)
    BY DEF ResetAge, WithOld
  <2>2. Note(c, "obsolete", "none") \/ UNCHANGED upd
    BY DEF ResetAge
  <2>3. ASSUME Note(c, "obsolete", "none")
        PROVE  \A k \in Kinds : k # "obsolete" => upd'[k] = upd[k]
    BY <2>3 DEF Note, Kinds
  <2>. QED
    BY <2>1, <2>2, <2>3
<1>. HIDE DEF fresh
<1>3. /\ (h').active = h.active /\ (h').enabled = h.enabled
      /\ (h').propenabled = h.propenabled /\ (h').old = h.old \ {c}
  <2>1. CASE h' = fresh
    BY <1>1, <2>1
  <2>2. CASE c \in h.obsolete /\ h' = MarkConsUseful(fresh, c)
    <3>. DEFINE r == MarkConsUseful(fresh, c)
    <3>1. FlagsAre(fresh, r, fresh.active, fresh.enabled, fresh.propenabled,
                   fresh.obsolete \ {c})
      BY <1>1, <2>2, MarkConsUsefulOk
    <3>. HIDE DEF r
    <3>. QED
      BY <1>1, <2>2, <3>1 DEF FlagsAre, r
  <2>. QED
    BY <1>2, <2>1, <2>2
<1>. QED
  BY <1>2, <1>3 DEF SoonAre, ActiveSoon, EnabledSoon, PropenabledSoon, Kinds

SoonUnchanged ==
  SoonAre(ActiveSoon(h, upd), EnabledSoon(h, upd), PropenabledSoon(h, upd), h.old)

\* What was noted is carried out: nobody outside can tell.
LEMMA ProcessUpdateSoon ==
  ASSUME Inv, ServesSettled, ProcessUpdate
  PROVE  SoonUnchanged
<1>. DEFINE c == queue[Len(queue)]
            r == MarkSwitched(Aged(PropagationSwitched(SwitchedOnOff(h, c), c), c), c)
<1>1. c \in Conss /\ c \notin Contradicted
  BY LastOfQueue DEF ProcessUpdate, ServesSettled
<1>2. h' = r /\ upd' = [k \in Kinds |-> upd[k] \ {c}]
  BY DEF ProcessUpdate
<1>. HIDE DEF c
<1>3. FlagsAre(h, r, Moved(h.active, c, c \in ActiveSoon(h, upd)),
               Moved(h.enabled, c, c \in EnabledSoon(h, upd)),
               Moved(h.propenabled, c, c \in PropenabledSoon(h, upd)),
               Moved(h.obsolete, c, c \in h.old))
  BY <1>1, ProcessedOk
<1>. HIDE DEF r
<1>4. \A k \in Kinds : upd'[k] = upd[k] \ {c}
  BY <1>2
<1>5. ActiveSoon(h', upd') = ActiveSoon(h, upd)
  <2>. DEFINE active == Moved(h.active, c, c \in ActiveSoon(h, upd))
  <2>1. (active \union (upd["activate"] \ {c})) \ (upd["deactivate"] \ {c})
          = ActiveSoon(h, upd)
    BY DEF Moved, ActiveSoon
  <2>. QED
    BY <1>2, <1>3, <1>4, <2>1 DEF FlagsAre, ActiveSoon, Kinds
<1>6. EnabledSoon(h', upd') = EnabledSoon(h, upd)
  <2>. DEFINE enabled == Moved(h.enabled, c, c \in EnabledSoon(h, upd))
  <2>1. (enabled \union (upd["activate"] \ {c}) \union (upd["enable"] \ {c}))
          \ ((upd["deactivate"] \ {c}) \union (upd["disable"] \ {c}))
          = EnabledSoon(h, upd)
    BY DEF Moved, EnabledSoon
  <2>. QED
    BY <1>2, <1>3, <1>4, <2>1 DEF FlagsAre, EnabledSoon, Kinds
<1>7. PropenabledSoon(h', upd') = PropenabledSoon(h, upd)
  <2>. DEFINE propenabled == Moved(h.propenabled, c, c \in PropenabledSoon(h, upd))
  <2>1. (propenabled \union (upd["propenable"] \ {c})) \ (upd["propdisable"] \ {c})
          = PropenabledSoon(h, upd)
    BY DEF Moved, PropenabledSoon
  <2>. QED
    BY <1>2, <1>3, <1>4, <2>1 DEF FlagsAre, PropenabledSoon, Kinds
<1>. QED
  BY <1>2, <1>3, <1>5, <1>6, <1>7 DEF SoonUnchanged, SoonAre, FlagsAre

LEMMA CallbackSoon ==
  ASSUME Inv, (\E s \in Solutions : Enforce(s)) \/ Call \/ Return \/ NewSolution
  PROVE  SoonUnchanged
<1>1. h \in Handler
  BY DEF Inv, ArraysOk
<1>2. /\ (h').active = h.active /\ (h').enabled = h.enabled
      /\ (h').propenabled = h.propenabled /\ (h').old = h.old
  <2>1. CASE \E s \in Solutions : Enforce(s)
    BY <1>1, <2>1 DEF Enforce, Handler
  <2>2. CASE Call
    BY <2>2 DEF Call
  <2>3. CASE Return \/ NewSolution
    <3>1. PICK kinds : h' = [h EXCEPT !.counted = @ \ kinds, !.unsettled = @ \ kinds]
      BY <2>3 DEF Return, NewSolution, Forget
    <3>. QED
      BY <1>1, <3>1 DEF Handler
  <2>. QED
    BY <2>1, <2>2, <2>3
<1>3. upd' = upd
  BY DEF Enforce, Call, Return, NewSolution
<1>. QED
  BY <1>2, <1>3 DEF SoonUnchanged, SoonAre, ActiveSoon, EnabledSoon, PropenabledSoon

\* The variables of ConsStates, in this state and in the next.
LEMMA MappedState ==
  ASSUME Inv, Inv'
  PROVE  /\ States!vars = <<ActiveSoon(h, upd), EnabledSoon(h, upd),
                            PropenabledSoon(h, upd), h.old>>
         /\ States!vars' = <<ActiveSoon(h', upd'), EnabledSoon(h', upd'),
                             PropenabledSoon(h', upd'), (h').old>>
<1>1. ObsoleteSoon(h, upd) = h.old /\ ObsoleteSoon(h', upd') = (h').old
  BY ObsoleteSoonIsOld DEF Inv
<1>. QED
  BY <1>1 DEF States!vars, ActiveSoon, EnabledSoon, PropenabledSoon, ObsoleteSoon

LEMMA MappedInit ==
  ASSUME Init
  PROVE  States!Init
<1>1. PICK f \in Flags :
        h = [active |-> {}, enabled |-> {}, propenabled |-> f.propagate,
             obsolete |-> {}, flags |-> f, old |-> {}, marked |-> Conss,
             check |-> EmptyArray, enfo |-> EmptyArray,
             prop |-> [list |-> <<>>, useful |-> 0, marked |-> 0],
             last |-> 0, counted |-> {}, unsettled |-> {}]
  BY DEF Init
<1>2. f.propagate \subseteq Conss
  BY <1>1, ConsArraysAssumption
<1>3. /\ h.active = {} /\ h.enabled = {} /\ h.obsolete = {} /\ h.old = {}
      /\ h.propenabled = f.propagate
  BY <1>1
<1>4. \A k \in Kinds : upd[k] = {}
  BY DEF Init
<1>. QED
  BY <1>2, <1>3, <1>4 DEF States!Init, Kinds

LEMMA MappedStep ==
  ASSUME ~Reenables, Inv, Inv', [Next]_vars, [ServesSettled]_vars
  PROVE  [States!Next]_(States!vars)
<1>0. /\ ObsoleteSoon(h, upd) = h.old /\ ObsoleteSoon(h', upd') = (h').old
  BY ObsoleteSoonIsOld DEF Inv
<1>1. ASSUME SoonUnchanged
      PROVE  UNCHANGED States!vars
  BY <1>1, MappedState DEF SoonUnchanged, SoonAre
<1>2. CASE UNCHANGED vars
  BY <1>2 DEF vars, States!vars
<1>3. ASSUME NEW c \in Conss, MarkPropagate(c) \/ UnmarkPropagate(c)
      PROVE  UNCHANGED States!vars
  BY <1>1, <1>3, MarkPropagateSoon, UnmarkPropagateSoon DEF SoonUnchanged
<1>4. CASE \/ ProcessUpdate /\ ServesSettled
           \/ (\E s \in Solutions : Enforce(s)) \/ Call \/ Return \/ NewSolution
  BY <1>1, <1>4, ProcessUpdateSoon, CallbackSoon
<1>5. ASSUME NEW c \in Conss, Activate(c)
      PROVE  States!Next
  <2>1. States!Activate(c)
    BY <1>0, <1>5, ActivateSoon
       DEF SoonAre, States!Activate, ActiveSoon, EnabledSoon, PropenabledSoon, ObsoleteSoon
  <2>. QED
    BY <2>1 DEF States!Next
<1>6. ASSUME NEW c \in Conss, Deactivate(c)
      PROVE  States!Next
  <2>1. States!Deactivate(c)
    BY <1>0, <1>6, DeactivateSoon
       DEF SoonAre, States!Deactivate, ActiveSoon, EnabledSoon, PropenabledSoon, ObsoleteSoon
  <2>. QED
    BY <2>1 DEF States!Next
<1>7. ASSUME NEW c \in Conss, Enable(c)
      PROVE  States!Next
  <2>1. States!Enable(c)
    BY <1>0, <1>7, EnableSoon
       DEF SoonAre, States!Enable, ActiveSoon, EnabledSoon, PropenabledSoon, ObsoleteSoon
  <2>. QED
    BY <2>1 DEF States!Next
<1>8. ASSUME NEW c \in Conss, Disable(c)
      PROVE  States!Next
  <2>1. States!Disable(c)
    BY <1>0, <1>8, DisableSoon
       DEF SoonAre, States!Disable, ActiveSoon, EnabledSoon, PropenabledSoon, ObsoleteSoon
  <2>. QED
    BY <2>1 DEF States!Next
<1>9. ASSUME NEW c \in Conss, EnablePropagation(c)
      PROVE  States!Next
  <2>1. States!EnablePropagation(c)
    BY <1>0, <1>9, EnablePropagationSoon
       DEF SoonAre, States!EnablePropagation, ActiveSoon, EnabledSoon, PropenabledSoon, ObsoleteSoon
  <2>. QED
    BY <2>1 DEF States!Next
<1>10. ASSUME NEW c \in Conss, DisablePropagation(c)
      PROVE  States!Next
  <2>1. States!DisablePropagation(c)
    BY <1>0, <1>10, DisablePropagationSoon
       DEF SoonAre, States!DisablePropagation, ActiveSoon, EnabledSoon, PropenabledSoon, ObsoleteSoon
  <2>. QED
    BY <2>1 DEF States!Next
<1>11. ASSUME NEW c \in Conss, AddAge(c)
      PROVE  States!Next
  <2>1. States!AddAge(c)
    BY <1>0, <1>11, AddAgeSoon
       DEF SoonAre, States!AddAge, ActiveSoon, EnabledSoon, PropenabledSoon, ObsoleteSoon
  <2>. QED
    BY <2>1 DEF States!Next
<1>12. ASSUME NEW c \in Conss, ResetAge(c)
      PROVE  States!Next
  <2>1. States!ResetAge(c)
    BY <1>0, <1>12, ResetAgeSoon
       DEF SoonAre, States!ResetAge, ActiveSoon, EnabledSoon, PropenabledSoon, ObsoleteSoon
  <2>. QED
    BY <2>1 DEF States!Next
<1>. QED
  BY <1>2, <1>3, <1>4, <1>5, <1>6, <1>7, <1>8, <1>9, <1>10, <1>11, <1>12 DEF Next

\* Nothing but the requests of the queue happens while it is worked off.
LEMMA ProcessingStep ==
  ASSUME Inv, Inv', [Next]_vars, [ServesSettled]_vars, Processing
  PROVE  UNCHANGED States!vars
<1>1. CASE UNCHANGED vars
  BY <1>1 DEF vars, States!vars
<1>2. CASE ProcessUpdate /\ ServesSettled
  BY <1>2, ProcessUpdateSoon, MappedState DEF SoonUnchanged, SoonAre
<1>3. ASSUME NEW c \in Conss, NEW set, NEW cleared, NEW done
      PROVE  ~Request(c, set, cleared, done)
  BY DEF Request
<1>4. ASSUME NEW c \in Conss
      PROVE  /\ ~Activate(c) /\ ~Deactivate(c) /\ ~Enable(c) /\ ~Disable(c)
             /\ ~EnablePropagation(c) /\ ~DisablePropagation(c)
             /\ ~MarkPropagate(c) /\ ~UnmarkPropagate(c) /\ ~AddAge(c) /\ ~ResetAge(c)
  BY <1>3 DEF Activate, Deactivate, Enable, Disable, EnablePropagation,
              DisablePropagation, MarkPropagate, UnmarkPropagate, AddAge, ResetAge
<1>5. (\A s : ~Enforce(s)) /\ ~Call /\ ~Return /\ ~NewSolution
  BY DEF Processing, Enforce, Call, Return, NewSolution
<1>. QED
  BY <1>1, <1>2, <1>4, <1>5 DEF Next

\* SCIPconsActivate, SCIPconsDisable and the other requests behave, delayed by
\* callbacks or not, as if each took effect at once; conshdlrProcessUpdates,
\* which carries out in another order what was asked for, has no effect that
\* was not already promised.
THEOREM HandlerImplementsStates ==
  ASSUME ~Reenables
  PROVE  Spec => ImplementsConsStates
<1>1. Init => States!Init
  BY MappedInit
<1>2. Inv /\ Inv' /\ [Next]_vars /\ [ServesSettled]_vars => [States!Next]_(States!vars)
  BY MappedStep
<1>3. Inv /\ Inv' /\ [Next]_vars /\ [ServesSettled]_vars
        => [Processing => UNCHANGED States!vars]_vars
  BY ProcessingStep
<1>4. Spec => []Inv /\ [][ServesSettled]_vars
  BY AlwaysInv, NothingContradicted, PTL
<1>. QED
  BY <1>1, <1>2, <1>3, <1>4, PTL DEF Spec, ImplementsConsStates, States!Spec
=============================================================================
