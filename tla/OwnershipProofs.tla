--------------------------- MODULE OwnershipProofs ---------------------------
(***************************************************************************)
(* The C++ backends keep a book: from method to method, each knows which   *)
(* of its objects it holds and how often, works on those only, and frees   *)
(* each with the call that goes with its allocation.                       *)
(*                                                                         *)
(* A backend gets an object from one allocator only, so that its book is a *)
(* count of references; most hold an object once or not at all, and OpenCL *)
(* holds its device twice.                                                 *)
(***************************************************************************)
EXTENDS BackendProofs

\* A backend gets each of its objects from one allocator; its book is then how
\* many references to each it has.
Ledger(A, n) ==
  [x \in DOMAIN A |-> [refs |-> n[x], by |-> IF n[x] > 0 THEN A[x] ELSE "nobody"]]

\* References to each object, and one more or one fewer of each of xs.
Counts(A) == [DOMAIN A -> Nat]

Up(n, xs)   == [x \in DOMAIN n |-> IF x \in xs THEN n[x] + 1 ELSE n[x]]
Down(n, xs) == [x \in DOMAIN n |-> IF x \in xs THEN n[x] - 1 ELSE n[x]]

\* One reference to each of L.
Once(A, L) == [x \in DOMAIN A |-> IF x \in L THEN 1 ELSE 0]

\* A careful step, and careful steps, from the references n to n2.
Takes(s, A, n, p, n2, p2) ==
  /\ n \in Counts(A) /\ n2 \in Counts(A)
  /\ Careful(s, Ledger(A, n), p) /\ Ledger(A, n2) = After(Ledger(A, n), s) /\ p2 = Busy(p, s)

Goes(s, A, n, p, n2, p2) ==
  /\ IsSeq(s) /\ n \in Counts(A) /\ n2 \in Counts(A)
  /\ Leads(s, Ledger(A, n), p, Ledger(A, n2), p2)
----------------------------------------------------------------------------
(* Careful steps, one after the other                                      *)

\* Careful steps lead from their first book to their last.
LEMMA LeadsBy ==
  ASSUME NEW s, NEW own, NEW busy,
         \A i \in DOMAIN s : /\ Careful(s[i], own[i], busy[i])
                             /\ own[i + 1] = After(own[i], s[i])
                             /\ busy[i + 1] = Busy(busy[i], s[i])
  PROVE  Leads(s, own[1], busy[1], own[Len(s) + 1], busy[Len(s) + 1])
BY DEF Leads

\* Books of two lists of steps, laid end to end.
LEMMA LeadsJoined ==
  ASSUME NEW s, NEW t, NEW r, NEW n, NEW m, n = Len(s), m = Len(t), Len(r) = n + m,
         n \in Nat, m \in Nat, DOMAIN s = 1 .. n, DOMAIN t = 1 .. m, DOMAIN r = 1 .. n + m,
         \A i \in DOMAIN s : r[i] = s[i],
         \A i \in DOMAIN t : r[i + n] = t[i],
         NEW o, NEW p, NEW o2, NEW p2, NEW o3, NEW p3,
         Leads(s, o, p, o2, p2), Leads(t, o2, p2, o3, p3)
  PROVE  Leads(r, o, p, o3, p3)
<1>3. PICK own, busy :
        /\ own[1] = o /\ busy[1] = p /\ own[n + 1] = o2 /\ busy[n + 1] = p2
        /\ \A i \in DOMAIN s : /\ Careful(s[i], own[i], busy[i])
                               /\ own[i + 1] = After(own[i], s[i])
                               /\ busy[i + 1] = Busy(busy[i], s[i])
  BY DEF Leads
<1>4. PICK own2, busy2 :
        /\ own2[1] = o2 /\ busy2[1] = p2 /\ own2[m + 1] = o3 /\ busy2[m + 1] = p3
        /\ \A i \in DOMAIN t : /\ Careful(t[i], own2[i], busy2[i])
                               /\ own2[i + 1] = After(own2[i], t[i])
                               /\ busy2[i + 1] = Busy(busy2[i], t[i])
  BY DEF Leads
<1> DEFINE own3 == [i \in 1 .. n + m + 1 |-> IF i <= n THEN own[i] ELSE own2[i - n]]
<1> DEFINE busy3 == [i \in 1 .. n + m + 1 |-> IF i <= n THEN busy[i] ELSE busy2[i - n]]
<1>5. /\ own3[1] = o /\ busy3[1] = p /\ own3[n + m + 1] = o3 /\ busy3[n + m + 1] = p3
  <2>1. CASE n = 0
    BY <1>3, <1>4, <2>1
  <2>2. CASE n # 0
    <3>1. 1 \in 1 .. n + m + 1 /\ 1 <= n /\ n + m + 1 \in 1 .. n + m + 1 /\ ~(n + m + 1 <= n)
          /\ (n + m + 1) - n = m + 1
      BY <2>2
    <3>2. QED
      BY <1>3, <1>4, <3>1
  <2>3. QED
    BY <2>1, <2>2
<1>6. \A i \in 1 .. n : /\ own3[i] = own[i] /\ busy3[i] = busy[i]
                        /\ own3[i + 1] = own[i + 1] /\ busy3[i + 1] = busy[i + 1]
  <2>1. SUFFICES ASSUME NEW i \in 1 .. n
                 PROVE  /\ own3[i] = own[i] /\ busy3[i] = busy[i]
                        /\ own3[i + 1] = own[i + 1] /\ busy3[i + 1] = busy[i + 1]
    OBVIOUS
  <2>2. i \in 1 .. n + m + 1 /\ i + 1 \in 1 .. n + m + 1 /\ i <= n
    OBVIOUS
  <2>3. CASE i = n
    <3>1. ~(i + 1 <= n) /\ (i + 1) - n = 1
      BY <2>3
    <3>2. QED
      BY <1>3, <1>4, <2>2, <2>3, <3>1
  <2>4. CASE i # n
    <3>1. i + 1 <= n
      BY <2>4
    <3>2. QED
      BY <2>2, <3>1
  <2>5. QED
    BY <2>3, <2>4
<1>7. \A i \in 1 .. m : /\ own3[i + n] = own2[i] /\ busy3[i + n] = busy2[i]
                        /\ own3[(i + n) + 1] = own2[i + 1] /\ busy3[(i + n) + 1] = busy2[i + 1]
  <2>1. SUFFICES ASSUME NEW i \in 1 .. m
                 PROVE  /\ own3[i + n] = own2[i] /\ busy3[i + n] = busy2[i]
                        /\ own3[(i + n) + 1] = own2[i + 1] /\ busy3[(i + n) + 1] = busy2[i + 1]
    OBVIOUS
  <2>2. /\ i + n \in 1 .. n + m + 1 /\ (i + n) + 1 \in 1 .. n + m + 1
        /\ ~(i + n <= n) /\ ~((i + n) + 1 <= n) /\ (i + n) - n = i /\ ((i + n) + 1) - n = i + 1
    OBVIOUS
  <2>3. QED
    BY <2>2
<1> HIDE DEF own3, busy3
<1>8. ASSUME NEW i \in DOMAIN r
      PROVE  /\ Careful(r[i], own3[i], busy3[i])
             /\ own3[i + 1] = After(own3[i], r[i])
             /\ busy3[i + 1] = Busy(busy3[i], r[i])
  <2>1. CASE i \in 1 .. n
    <3>1. r[i] = s[i] /\ i \in DOMAIN s
      BY <2>1
    <3>2. QED
      BY <1>3, <1>6, <2>1, <3>1
  <2>2. CASE i \notin 1 .. n
    <3>1. PICK j \in 1 .. m : i = j + n
      <4>1. i - n \in 1 .. m /\ i = (i - n) + n
        BY <2>2
      <4>2. QED
        BY <4>1
    <3>2. r[i] = t[j] /\ j \in DOMAIN t
      BY <3>1
    <3>3. /\ own3[i] = own2[j] /\ busy3[i] = busy2[j]
          /\ own3[i + 1] = own2[j + 1] /\ busy3[i + 1] = busy2[j + 1]
      BY <1>7, <3>1
    <3>4. QED
      BY <1>4, <3>2, <3>3
  <2>3. QED
    BY <2>1, <2>2
<1>9. own3[Len(r) + 1] = o3 /\ busy3[Len(r) + 1] = p3
  BY <1>5
<1>10. Leads(r, own3[1], busy3[1], own3[Len(r) + 1], busy3[Len(r) + 1])
  BY <1>8, LeadsBy, Zenon
<1>11. QED
  BY <1>5, <1>9, <1>10, Zenon

\* Concatenation.
LEMMA GoesJoined ==
  ASSUME NEW s, NEW t, NEW A, NEW n, NEW p, NEW n2, NEW p2, NEW n3, NEW p3,
         Goes(s, A, n, p, n2, p2), Goes(t, A, n2, p2, n3, p3)
  PROVE  Goes(s \o t, A, n, p, n3, p3)
<1>1. PICK r : r = s \o t
  OBVIOUS
<1>2. IsSeq(s) /\ IsSeq(t)
  BY DEF Goes
<1>3. IsSeq(r) /\ Len(s) \in Nat /\ Len(t) \in Nat
  BY <1>1, <1>2, Joined
<1>6. DOMAIN s = 1 .. Len(s) /\ DOMAIN t = 1 .. Len(t) /\ DOMAIN r = 1 .. Len(s) + Len(t)
  BY <1>1, <1>2, Joined
<1>7. \A i \in DOMAIN s : r[i] = s[i]
  BY <1>1, <1>2, Joined
<1>8. \A i \in DOMAIN t : r[i + Len(s)] = t[i]
  BY <1>1, <1>2, Joined
<1>4. Len(r) = Len(s) + Len(t)
  BY <1>3, <1>6, LenProperties DEF IsSeq
<1>5. Leads(r, Ledger(A, n), p, Ledger(A, n3), p3)
  BY <1>3, <1>4, <1>6, <1>7, <1>8, LeadsJoined DEF Goes
<1>9. QED
  BY <1>1, <1>3, <1>5 DEF Goes

\* No step, and one.
LEMMA GoesNowhere ==
  ASSUME NEW A, NEW n \in Counts(A), NEW p
  PROVE  Goes(<<>>, A, n, p, n, p)
<1> DEFINE own == [i \in {1} |-> Ledger(A, n)]
<1> DEFINE busy == [i \in {1} |-> p]
<1>1. own[1] = Ledger(A, n) /\ busy[1] = p
  OBVIOUS
<1>2. IsSeq(<<>>) /\ Len(<<>>) = 0 /\ DOMAIN <<>> = {}
  BY Tuples
<1> HIDE DEF own, busy
<1>3. QED
  BY <1>1, <1>2 DEF Goes, Leads

LEMMA GoesOne ==
  ASSUME NEW x, NEW A, NEW n, NEW p, NEW n2, NEW p2, Takes(x, A, n, p, n2, p2)
  PROVE  Goes(<<x>>, A, n, p, n2, p2)
<1> DEFINE own == <<Ledger(A, n), Ledger(A, n2)>>
<1> DEFINE busy == <<p, p2>>
<1>1. own[1] = Ledger(A, n) /\ busy[1] = p /\ own[2] = Ledger(A, n2) /\ busy[2] = p2
  OBVIOUS
<1>2. IsSeq(<<x>>) /\ Len(<<x>>) = 1 /\ DOMAIN <<x>> = {1} /\ <<x>>[1] = x
  BY Tuples
<1> HIDE DEF own, busy
<1>3. QED
  BY <1>1, <1>2 DEF Goes, Leads, Takes

\* One step, and two.
LEMMA GoesSteps ==
  ASSUME NEW A
  PROVE  /\ \A x, n, p, n1, p1 : Takes(x, A, n, p, n1, p1) => Goes(<<x>>, A, n, p, n1, p1)
         /\ \A x, y, n, p, n1, p1, n2, p2 :
              Takes(x, A, n, p, n1, p1) /\ Takes(y, A, n1, p1, n2, p2) => Goes(<<x, y>>, A, n, p, n2, p2)
<1>1. \A x, n, p, n1, p1 : Takes(x, A, n, p, n1, p1) => Goes(<<x>>, A, n, p, n1, p1)
  BY GoesOne
<1>2. ASSUME NEW x, NEW y, NEW n, NEW p, NEW n1, NEW p1, NEW n2, NEW p2,
             Takes(x, A, n, p, n1, p1), Takes(y, A, n1, p1, n2, p2)
      PROVE  Goes(<<x, y>>, A, n, p, n2, p2)
  <2>1. Goes(<<x>>, A, n, p, n1, p1) /\ Goes(<<y>>, A, n1, p1, n2, p2)
    BY <1>2, GoesOne
  <2>2. Goes(<<x>> \o <<y>>, A, n, p, n2, p2)
    BY <2>1, GoesJoined
  <2>3. QED
    BY <2>2, Pairs
<1>3. QED
  BY <1>1, <1>2
----------------------------------------------------------------------------
(* The steps                                                               *)

\* What a ledger says of an object.
LEMMA Ledgers ==
  ASSUME NEW A, NEW n \in Counts(A)
  PROVE  /\ DOMAIN Ledger(A, n) = DOMAIN A
         /\ \A x \in DOMAIN A : Ledger(A, n)[x].refs = n[x] /\ (n[x] > 0 => Ledger(A, n)[x].by = A[x])
BY DEF Ledger

\* What is not held can be allocated, by its allocator.
LEMMA TakesAcquire ==
  ASSUME NEW A, NEW n \in Counts(A), NEW p, NEW xs, xs \subseteq DOMAIN A, NEW by,
         \A x \in xs : n[x] = 0 /\ A[x] = by
  PROVE  /\ Takes(Acquire(xs, by), A, n, p, Up(n, xs), p)
         /\ Takes(AcquireOn(xs, by), A, n, p, Up(n, xs), p)
<1>1. Up(n, xs) \in Counts(A)
  BY DEF Up, Counts
<1>2. ASSUME NEW s, s.do = "acquire", s.what = xs, s.by = by
      PROVE  Takes(s, A, n, p, Up(n, xs), p)
  <2>1. Careful(s, Ledger(A, n), p)
    BY <1>2, Ledgers DEF Careful
  <2>2. Ledger(A, Up(n, xs)) = After(Ledger(A, n), s)
    BY <1>2 DEF Ledger, Up, After, Counts
  <2>3. QED
    BY <1>1, <1>2, <2>1, <2>2 DEF Takes, Busy
<1>3. QED
  BY <1>2 DEF Acquire, AcquireOn

\* What is held can be shared.
LEMMA TakesRetain ==
  ASSUME NEW A, NEW n \in Counts(A), NEW p, NEW xs, xs \subseteq DOMAIN A, \A x \in xs : n[x] > 0
  PROVE  Takes(Retain(xs), A, n, p, Up(n, xs), p)
<1>1. Up(n, xs) \in Counts(A)
  BY DEF Up, Counts
<1>2. PICK s : s = Retain(xs)
  OBVIOUS
<1>3. s.do = "retain" /\ s.what = xs
  BY <1>2 DEF Retain
<1>4. Careful(s, Ledger(A, n), p)
  BY <1>3, Ledgers DEF Careful
<1>5. Ledger(A, Up(n, xs)) = After(Ledger(A, n), s)
  BY <1>3 DEF Ledger, Up, After, Counts
<1>6. QED
  BY <1>1, <1>2, <1>3, <1>4, <1>5 DEF Takes, Busy

\* What is held can be freed by its allocator, unless it is the last
\* reference and pending work touches it.
LEMMA TakesRelease ==
  ASSUME NEW A, NEW n \in Counts(A), NEW p, NEW xs, xs \subseteq DOMAIN A, NEW by,
         \A x \in xs : n[x] > 0 /\ A[x] = by /\ (x \in p => n[x] > 1)
  PROVE  Takes(Release(xs, by), A, n, p, Down(n, xs), p)
<1>1. Down(n, xs) \in Counts(A)
  BY DEF Down, Counts
<1>2. PICK s : s = Release(xs, by)
  OBVIOUS
<1>3. s.do = "release" /\ s.what = xs /\ s.by = by
  BY <1>2 DEF Release
<1>4. Careful(s, Ledger(A, n), p)
  BY <1>3, Ledgers DEF Careful
<1>5. Ledger(A, Down(n, xs)) = After(Ledger(A, n), s)
  <2>1. ASSUME NEW x \in DOMAIN A PROVE Ledger(A, Down(n, xs))[x] = After(Ledger(A, n), s)[x]
    <3>1. CASE x \in xs
      <4>1. Ledger(A, n)[x] = [refs |-> n[x], by |-> A[x]] /\ n[x] \in Nat /\ n[x] > 0
        BY <3>1 DEF Ledger, Counts
      <4>2. After(Ledger(A, n), s)[x] = IF n[x] <= 1 THEN Nobody ELSE [refs |-> n[x] - 1, by |-> A[x]]
        BY <1>3, <3>1, <4>1, Ledgers DEF After
      <4>3. Ledger(A, Down(n, xs))[x] = [refs |-> n[x] - 1, by |-> IF n[x] - 1 > 0 THEN A[x] ELSE "nobody"]
        BY <3>1 DEF Ledger, Down, Counts
      <4>4. QED
        BY <4>1, <4>2, <4>3 DEF Nobody
    <3>2. CASE x \notin xs
      BY <1>3, <3>2 DEF Ledger, Down, After, Counts
    <3>3. QED
      BY <3>1, <3>2
  <2>2. QED
    BY <2>1 DEF Ledger, After
<1>6. QED
  BY <1>1, <1>2, <1>3, <1>4, <1>5 DEF Takes, Busy

\* Work on what is held leaves the references alone; so does the rest.
LEMMA TakesWork ==
  ASSUME NEW A, NEW n \in Counts(A), NEW p
  PROVE  /\ \A op : (\A x \in Touches(op) : x \in DOMAIN A /\ n[x] > 0) =>
               /\ Takes(Submit(op), A, n, p, n, p \cup Touches(op))
               /\ Takes(Run(op), A, n, p, n, p)
         /\ \A x \in DOMAIN A : n[x] > 0 => Takes(ReturnSum(x), A, n, p, n, p)
         /\ Takes(Wait, A, n, p, n, {})
         /\ Takes(Select, A, n, p, n, p)
         /\ \A x : /\ Takes(List(x), A, n, p, n, p) /\ Takes(Check(x), A, n, p, n, p)
                   /\ Takes(Access(x), A, n, p, n, p) /\ Takes(Leave(x), A, n, p, n, p)
                   /\ Takes(HandOut(x), A, n, p, n, p)
<1>1. ASSUME NEW s, s.do \notin {"acquire", "retain", "release", "rename"},
             s.do \in {"submit", "run"} => \A x \in Touches(s.op) : x \in DOMAIN A /\ n[x] > 0,
             s.do = "sum" => s.from \in DOMAIN A /\ n[s.from] > 0
      PROVE  Takes(s, A, n, p, n, Busy(p, s))
  <2>1. Ledger(A, n) = After(Ledger(A, n), s)
    BY <1>1 DEF Ledger, After
  <2>2. Careful(s, Ledger(A, n), p)
    BY <1>1, Ledgers DEF Careful
  <2>3. QED
    BY <2>1, <2>2 DEF Takes
<1>2. ASSUME NEW op, \A x \in Touches(op) : x \in DOMAIN A /\ n[x] > 0
      PROVE  /\ Takes(Submit(op), A, n, p, n, p \cup Touches(op))
             /\ Takes(Run(op), A, n, p, n, p)
  <2>1. /\ Submit(op).do = "submit" /\ Submit(op).op = op
        /\ Run(op).do = "run" /\ Run(op).op = op
    BY DEF Submit, Run
  <2>2. Busy(p, Submit(op)) = p \cup Touches(op) /\ Busy(p, Run(op)) = p
    BY <2>1 DEF Busy
  <2>3. QED
    BY <1>1, <1>2, <2>1, <2>2
<1>3. ASSUME NEW x \in DOMAIN A, n[x] > 0 PROVE Takes(ReturnSum(x), A, n, p, n, p)
  <2>1. ReturnSum(x).do = "sum" /\ ReturnSum(x).from = x /\ Busy(p, ReturnSum(x)) = p
    BY DEF ReturnSum, Busy
  <2>2. QED
    BY <1>1, <1>3, <2>1
<1>4. Takes(Wait, A, n, p, n, {})
  <2>1. Wait.do = "wait" /\ Busy(p, Wait) = {}
    BY DEF Wait, Busy
  <2>2. QED
    BY <1>1, <2>1
<1>5. Takes(Select, A, n, p, n, p)
  <2>1. Select.do = "select" /\ Busy(p, Select) = p
    BY DEF Select, Busy
  <2>2. QED
    BY <1>1, <2>1
<1>6. ASSUME NEW x, NEW s \in {List(x), Check(x), Access(x), Leave(x), HandOut(x)}
      PROVE  Takes(s, A, n, p, n, p)
  <2>1. s.do \in {"list", "check", "access", "leave", "arrays"} /\ Busy(p, s) = p
    BY <1>6 DEF List, Check, Access, Leave, HandOut, Busy
  <2>2. QED
    BY <1>1, <2>1
<1>7. QED
  BY <1>2, <1>3, <1>4, <1>5, <1>6

\* A pointer can move to a place that holds nothing.
LEMMA TakesRename ==
  ASSUME NEW A, NEW n \in Counts(A), NEW p, NEW x \in DOMAIN A, NEW y \in DOMAIN A,
         n[x] > 0, n[y] = 0, A[x] = A[y], NEW n2, n2 = [n EXCEPT ![x] = 0, ![y] = n[x]],
         NEW p2, p2 = {IF z = x THEN y ELSE z : z \in p}
  PROVE  Takes(Rename(x, y), A, n, p, n2, p2)
<1>1. PICK s : s = Rename(x, y)
  OBVIOUS
<1>2. s.do = "rename" /\ s.from = x /\ s.to = y
  BY <1>1 DEF Rename
<1>4. n2 \in Counts(A) /\ \A z \in DOMAIN A : n2[z] = IF z = y THEN n[x] ELSE IF z = x THEN 0 ELSE n[z]
  BY DEF Counts
<1>5. Careful(s, Ledger(A, n), p)
  BY <1>2, Ledgers DEF Careful
<1>6. Ledger(A, n2) = After(Ledger(A, n), s)
  <2>1. ASSUME NEW z \in DOMAIN A PROVE Ledger(A, n2)[z] = After(Ledger(A, n), s)[z]
    BY <1>2, <1>4 DEF Ledger, After, Nobody
  <2>2. QED
    BY <2>1 DEF Ledger, After
<1>7. Busy(p, s) = p2
  BY <1>2 DEF Busy
<1>8. QED
  BY <1>1, <1>4, <1>5, <1>6, <1>7 DEF Takes
----------------------------------------------------------------------------
(* Where nothing is shared: L is held, once                                *)

\* Careful steps from one reference to each of L to one to each of L2.
On(s, A, L, p, L2, p2) ==
  L \subseteq DOMAIN A /\ L2 \subseteq DOMAIN A /\ Goes(s, A, Once(A, L), p, Once(A, L2), p2)

\* What Once counts, and how that changes.
LEMMA OnceCounts ==
  ASSUME NEW A, NEW L
  PROVE  Once(A, L) \in Counts(A) /\ \A x \in DOMAIN A : Once(A, L)[x] = IF x \in L THEN 1 ELSE 0
BY DEF Once, Counts

LEMMA OnceUpDown ==
  ASSUME NEW A, NEW L, NEW xs
  PROVE  /\ L \cap xs = {} => Up(Once(A, L), xs) = Once(A, L \cup xs)
         /\ xs \subseteq L => Down(Once(A, L), xs) = Once(A, L \ xs)
BY DEF Once, Up, Down

\* Concatenation, and tuples of up to three steps.
LEMMA OnJoined ==
  ASSUME NEW s, NEW t, NEW A, NEW L, NEW p, NEW L2, NEW p2, NEW L3, NEW p3,
         On(s, A, L, p, L2, p2), On(t, A, L2, p2, L3, p3)
  PROVE  On(s \o t, A, L, p, L3, p3)
BY GoesJoined DEF On

LEMMA OnTuples ==
  ASSUME NEW A
  PROVE  /\ \A x, y, L, p, L1, p1, L2, p2 :
              On(<<x>>, A, L, p, L1, p1) /\ On(<<y>>, A, L1, p1, L2, p2) => On(<<x, y>>, A, L, p, L2, p2)
         /\ \A x, y, z, L, p, L1, p1, L2, p2, L3, p3 :
              On(<<x>>, A, L, p, L1, p1) /\ On(<<y>>, A, L1, p1, L2, p2) /\ On(<<z>>, A, L2, p2, L3, p3)
              => On(<<x, y, z>>, A, L, p, L3, p3)
<1>1. ASSUME NEW x, NEW y, NEW L, NEW p, NEW L1, NEW p1, NEW L2, NEW p2,
             On(<<x>>, A, L, p, L1, p1), On(<<y>>, A, L1, p1, L2, p2)
      PROVE  On(<<x, y>>, A, L, p, L2, p2)
  <2>1. On(<<x>> \o <<y>>, A, L, p, L2, p2)
    BY <1>1, OnJoined
  <2>2. QED
    BY <2>1, Pairs
<1>2. ASSUME NEW x, NEW y, NEW z, NEW L, NEW p, NEW L1, NEW p1, NEW L2, NEW p2, NEW L3, NEW p3,
             On(<<x>>, A, L, p, L1, p1), On(<<y>>, A, L1, p1, L2, p2), On(<<z>>, A, L2, p2, L3, p3)
      PROVE  On(<<x, y, z>>, A, L, p, L3, p3)
  <2>1. On(<<y, z>>, A, L1, p1, L3, p3)
    BY <1>1, <1>2
  <2>2. On(<<x>> \o <<y, z>>, A, L, p, L3, p3)
    BY <1>2, <2>1, OnJoined
  <2>3. QED
    BY <2>2, Triples
<1>3. QED
  BY <1>1, <1>2

\* No step at all.
LEMMA OnNowhere == ASSUME NEW A, NEW L, L \subseteq DOMAIN A, NEW p PROVE On(<<>>, A, L, p, L, p)
BY OnceCounts, GoesNowhere DEF On

\* Allocation and deallocation of objects of one allocator.
LEMMA OnObjects ==
  ASSUME NEW A, NEW L, L \subseteq DOMAIN A, NEW p, NEW xs, xs \subseteq DOMAIN A, NEW by,
         \A x \in xs : A[x] = by
  PROVE  /\ L \cap xs = {} => /\ On(<<Acquire(xs, by)>>, A, L, p, L \cup xs, p)
                              /\ On(<<AcquireOn(xs, by)>>, A, L, p, L \cup xs, p)
         /\ xs \subseteq L /\ xs \cap p = {} => On(<<Release(xs, by)>>, A, L, p, L \ xs, p)
<1>1. ASSUME L \cap xs = {}
      PROVE  /\ On(<<Acquire(xs, by)>>, A, L, p, L \cup xs, p)
             /\ On(<<AcquireOn(xs, by)>>, A, L, p, L \cup xs, p)
  <2>1. /\ Takes(Acquire(xs, by), A, Once(A, L), p, Up(Once(A, L), xs), p)
        /\ Takes(AcquireOn(xs, by), A, Once(A, L), p, Up(Once(A, L), xs), p)
    BY <1>1, OnceCounts, TakesAcquire
  <2>2. QED
    BY <1>1, <2>1, OnceUpDown, GoesOne DEF On
<1>2. ASSUME xs \subseteq L, xs \cap p = {} PROVE On(<<Release(xs, by)>>, A, L, p, L \ xs, p)
  <2>1. \A x \in xs : Once(A, L)[x] = 1 /\ x \notin p
    BY <1>2, OnceCounts
  <2>2. Takes(Release(xs, by), A, Once(A, L), p, Down(Once(A, L), xs), p)
    BY <2>1, OnceCounts, TakesRelease
  <2>3. QED
    BY <1>2, <2>2, OnceUpDown, GoesOne DEF On
<1>3. QED
  BY <1>1, <1>2

\* Work on what is held, and the steps that touch no memory.
LEMMA OnSteps ==
  ASSUME NEW A, NEW L, L \subseteq DOMAIN A, NEW p
  PROVE  /\ \A op : Touches(op) \subseteq L => /\ On(<<Submit(op)>>, A, L, p, L, p \cup Touches(op))
                                            /\ On(<<Run(op)>>, A, L, p, L, p)
         /\ \A x \in L : On(<<ReturnSum(x)>>, A, L, p, L, p)
         /\ On(<<Wait>>, A, L, p, L, {})
         /\ On(<<Select>>, A, L, p, L, p)
         /\ \A x : /\ On(<<List(x)>>, A, L, p, L, p) /\ On(<<Check(x)>>, A, L, p, L, p)
                   /\ On(<<Access(x)>>, A, L, p, L, p) /\ On(<<Leave(x)>>, A, L, p, L, p)
                   /\ On(<<HandOut(x)>>, A, L, p, L, p)
<1> DEFINE n == Once(A, L)
<1>1. n \in Counts(A) /\ \A x \in L : x \in DOMAIN A /\ n[x] > 0
  BY OnceCounts
<1>2. \A s, p2 : Takes(s, A, n, p, n, p2) => On(<<s>>, A, L, p, L, p2)
  BY GoesOne DEF On
<1> HIDE DEF n
<1>3. \A op : Touches(op) \subseteq L => /\ On(<<Submit(op)>>, A, L, p, L, p \cup Touches(op))
                                      /\ On(<<Run(op)>>, A, L, p, L, p)
  BY <1>1, <1>2, TakesWork
<1>4. \A x \in L : On(<<ReturnSum(x)>>, A, L, p, L, p)
  BY <1>1, <1>2, TakesWork
<1>5. On(<<Wait>>, A, L, p, L, {}) /\ On(<<Select>>, A, L, p, L, p)
  BY <1>1, <1>2, TakesWork
<1>6. \A x : /\ On(<<List(x)>>, A, L, p, L, p) /\ On(<<Check(x)>>, A, L, p, L, p)
             /\ On(<<Access(x)>>, A, L, p, L, p) /\ On(<<Leave(x)>>, A, L, p, L, p)
             /\ On(<<HandOut(x)>>, A, L, p, L, p)
  BY <1>1, <1>2, TakesWork
<1>7. QED
  BY <1>3, <1>4, <1>5, <1>6

\* Work that is awaited leaves nothing pending.
LEMMA OnWork ==
  ASSUME NEW A, NEW L, L \subseteq DOMAIN A, NEW p, NEW op, Touches(op) \subseteq L
  PROVE  On(Blockingly(op), A, L, p, L, {}) /\ On(<<Submit(op), Wait>>, A, L, p, L, {})
<1>1. On(<<Submit(op)>>, A, L, p, L, p \cup Touches(op))
  BY OnSteps
<1>2. On(<<Wait>>, A, L, p \cup Touches(op), L, {})
  BY OnSteps
<1>3. QED
  BY <1>1, <1>2, OnTuples DEF Blockingly

\* A local variable lives as long as its block.
LEMMA OnLocal ==
  ASSUME NEW A, NEW L, L \subseteq DOMAIN A, NEW x \in DOMAIN A, x \notin L, A[x] = "local",
         NEW s, On(s, A, L \cup {x}, {}, L \cup {x}, {})
  PROVE  On(WithLocal(x, s), A, L, {}, L, {})
<1>1. On(<<Acquire({x}, "local")>>, A, L, {}, L \cup {x}, {})
  BY OnObjects
<1>2. On(<<Release({x}, "local")>>, A, L \cup {x}, {}, (L \cup {x}) \ {x}, {})
  <2>1. L \cup {x} \subseteq DOMAIN A
    OBVIOUS
  <2>2. QED
    BY <2>1, OnObjects
<1>3. (L \cup {x}) \ {x} = L
  OBVIOUS
<1>4. On(<<Acquire({x}, "local")>> \o s, A, L, {}, L \cup {x}, {})
  BY <1>1, OnJoined
<1>5. On(<<Acquire({x}, "local")>> \o s \o <<Release({x}, "local")>>, A, L, {}, L, {})
  BY <1>2, <1>3, <1>4, OnJoined
<1>6. QED
  BY <1>5 DEF WithLocal
----------------------------------------------------------------------------
(* What a backend has to be                                                *)

\* A step that hands out pointers only to what is in L.
Gives(x, L) == x.do = "arrays" => \A f \in Field : x.from[f] \in L

\* Steps that do.
Hands(s, L) == \A i \in DOMAIN s : Gives(s[i], L)

\* The methods of a backend that holds L when it is constructed, G when it has
\* handed out its arrays, and E when it is destroyed.
Holds(stream, A, L, G, E) ==
  /\ \E p : On(stream.list, A, {}, {}, {}, p)
  /\ \E p : On(stream.construct, A, {}, {}, L, p)
  /\ \A k \in ArrayKernels : \E p : On(stream.kernel[k], A, L, {}, L, p)
  /\ \E p : On(stream.Dot, A, L, {}, L, p)
  /\ \E p : On(stream.get_arrays, A, L, {}, G, p)
  /\ \E p : On(stream.destroy, A, G, {}, E, p)
  /\ Hands(stream.get_arrays, G)

\* The same, by the number of references to each object.
Keeps(stream, A, listed, ready, left, gone) ==
  LET none == Once(A, {}) IN
    /\ \E p : Goes(stream.list, A, none, {}, listed, p)
    /\ \E p : Goes(stream.construct, A, none, {}, ready, p)
    /\ \A k \in ArrayKernels : \E p : Goes(stream.kernel[k], A, ready, {}, ready, p)
    /\ \E p : Goes(stream.Dot, A, ready, {}, ready, p)
    /\ \E p : Goes(stream.get_arrays, A, ready, {}, left, p)
    /\ \E p : Goes(stream.destroy, A, left, {}, gone, p)
    /\ Hands(stream.get_arrays, {x \in DOMAIN A : left[x] > 0})

\* Some such backend has the objects T, and is gone but for E.
Owns(stream, T, E) ==
  \E A, listed, ready, left, gone :
    /\ DOMAIN A = T /\ \A x \in T : A[x] \in Allocator
    /\ Keeps(stream, A, listed, ready, left, gone)
    /\ \A x \in T : gone[x] > 0 <=> x \in E

\* One that shares nothing is one of these.
LEMMA HoldsOwns ==
  ASSUME NEW stream, NEW T, NEW A, NEW L, NEW G, NEW E,
         DOMAIN A = T, \A x \in T : A[x] \in Allocator, Holds(stream, A, L, G, E)
  PROVE  Owns(stream, T, E)
<1>1. G \subseteq DOMAIN A /\ \A x \in T : Once(A, E)[x] > 0 <=> x \in E
  BY DEF Holds, On, Once
<1>2. Hands(stream.get_arrays, {x \in DOMAIN A : Once(A, G)[x] > 0})
  <2>1. \A x \in G : x \in {y \in DOMAIN A : Once(A, G)[y] > 0}
    BY <1>1 DEF Once
  <2>2. QED
    BY <2>1 DEF Holds, Hands, Gives
<1>3. Keeps(stream, A, Once(A, {}), Once(A, L), Once(A, G), Once(A, E))
  BY <1>2 DEF Holds, Keeps, On
<1>4. QED
  BY <1>1, <1>3 DEF Owns

\* Concatenation, tuples, and the steps that hand out nothing.
LEMMA HandsJoined ==
  ASSUME NEW s, NEW t, IsSeq(s), IsSeq(t), NEW L, Hands(s, L), Hands(t, L)
  PROVE  Hands(s \o t, L)
<1> DEFINE r == s \o t
<1>1. \A i \in DOMAIN r : \/ i \in DOMAIN s /\ r[i] = s[i]
                          \/ i - Len(s) \in DOMAIN t /\ r[i] = t[i - Len(s)]
  BY Place
<1> HIDE DEF r
<1>2. Hands(r, L)
  BY <1>1 DEF Hands
<1>3. QED
  BY <1>2 DEF r

LEMMA HandsTuples ==
  ASSUME NEW L
  PROVE  /\ Hands(<<>>, L)
         /\ \A x : Gives(x, L) => Hands(<<x>>, L)
         /\ \A x, y : Gives(x, L) /\ Gives(y, L) => Hands(<<x, y>>, L)
         /\ \A x, y, z : Gives(x, L) /\ Gives(y, L) /\ Gives(z, L) => Hands(<<x, y, z>>, L)
BY DEF Hands

LEMMA GivesSteps ==
  ASSUME NEW L
  PROVE  /\ \A xs, by : Gives(Acquire(xs, by), L) /\ Gives(AcquireOn(xs, by), L)
         /\ \A x : Gives(Submit(x), L) /\ Gives(Access(x), L) /\ Gives(Leave(x), L) /\ Gives(Run(x), L)
         /\ Gives(Wait, L)
         /\ \A m : (\A f \in Field : m[f] \in L) => Gives(HandOut(m), L)
BY DEF Gives, Acquire, AcquireOn, Submit, Access, Leave, Run, Wait, HandOut

\* The methods most backends share.
LEMMA UsualMethods ==
  ASSUME NEW A, NEW L, L \subseteq DOMAIN A, NEW m \in [Field -> L]
  PROVE  /\ \A k \in ArrayKernels : On(Blockingly(Loop(k, m)), A, L, {}, L, {})
         /\ \A k \in ArrayKernels : On(<<Submit(Loop(k, m)), Wait>>, A, L, {}, L, {})
         /\ On(Blockingly(StartLoop(m)), A, L, {}, L, {})
         /\ On(<<Submit(StartLoop(m)), Wait>>, A, L, {}, L, {})
         /\ \A f \in Field : On(Blockingly(StartArray(f, m)), A, L, {}, L, {})
         /\ "sum" \in DOMAIN A \ L /\ A["sum"] = "local" =>
              On(WithLocal("sum", Blockingly(Products(m, "sum")) \o <<ReturnSum("sum")>>), A, L, {}, L, {})
         /\ \A n \in [Field -> L] : On(Blockingly(MoveArrays(m, n)), A, L, {}, L, {})
         /\ On(<<HandOut(m)>>, A, L, {}, L, {})
<1>1. \A op : Touches(op) \subseteq L => /\ On(Blockingly(op), A, L, {}, L, {})
                                      /\ On(<<Submit(op), Wait>>, A, L, {}, L, {})
  BY OnWork
<1>2. \A k \in ArrayKernels : Touches(Loop(k, m)) \subseteq L
  BY LoopTouches
<1>3. Touches(StartLoop(m)) \subseteq L /\ \A f \in Field : Touches(StartArray(f, m)) \subseteq L
  BY LoopTouches
<1>4. ASSUME "sum" \in DOMAIN A \ L, A["sum"] = "local"
      PROVE  On(WithLocal("sum", Blockingly(Products(m, "sum")) \o <<ReturnSum("sum")>>), A, L, {}, L, {})
  <2>1. PICK M : M = L \cup {"sum"}
    OBVIOUS
  <2>2. M \subseteq DOMAIN A /\ "sum" \in M
    BY <1>4, <2>1
  <2>3. Touches(Products(m, "sum")) \subseteq M
    BY <2>1, LoopTouches
  <2>4. On(Blockingly(Products(m, "sum")), A, M, {}, M, {})
    BY <2>2, <2>3, OnWork
  <2>5. On(<<ReturnSum("sum")>>, A, M, {}, M, {})
    BY <2>2, OnSteps
  <2>6. On(Blockingly(Products(m, "sum")) \o <<ReturnSum("sum")>>, A, M, {}, M, {})
    BY <2>4, <2>5, OnJoined
  <2>7. QED
    BY <1>4, <2>1, <2>6, OnLocal
<1>5. ASSUME NEW n \in [Field -> L] PROVE Touches(MoveArrays(m, n)) \subseteq L
  <2>1. Touches(MoveArrays(m, n)) \subseteq L \cup L
    BY MoveTouches
  <2>2. QED
    BY <2>1
<1>6. On(<<HandOut(m)>>, A, L, {}, L, {})
  BY OnSteps
<1>7. QED
  BY <1>1, <1>2, <1>3, <1>4, <1>5, <1>6
----------------------------------------------------------------------------
(* The backends with loops                                                 *)

\* The OpenMP backend: host arrays, or the arrays mapped from them.
LEMMA OmpOwns ==
  ASSUME NEW T, Objects(Here) \cup Objects(Device) \cup {"sum"} \subseteq T, NEW b
  PROVE  Owns(OmpStream(b), T, {})
<1>1. PICK A : A = [x \in T |-> IF x \in Objects(Here) THEN "malloc"
                                ELSE IF x \in Objects(Device) THEN "map" ELSE "local"]
  OBVIOUS
<1>2. /\ DOMAIN A = T /\ \A x \in T : A[x] \in Allocator
      /\ \A x \in Objects(Here) : A[x] = "malloc"
      /\ \A x \in Objects(Device) : A[x] = "map"
      /\ A["sum"] = "local" /\ "sum" \notin Objects(Here) \cup Objects(Device)
      /\ Objects(Here) \cap Objects(Device) = {}
  BY <1>1, Places3 DEF Allocator
<1>3. PICK L : L = IF OmpMaps(b) THEN Objects(Here) \cup Objects(Device) ELSE Objects(Here)
  OBVIOUS
<1>4. L \subseteq T /\ "sum" \in T \ L /\ OmpArrays(b) \in [Field -> L] /\ Here \in [Field -> L]
  BY <1>2, <1>3, Places3 DEF OmpArrays
<1>5. \A op : Touches(op) \subseteq L => On(OmpLoop(b, op), A, L, {}, L, {})
  <2>1. SUFFICES ASSUME NEW op, Touches(op) \subseteq L PROVE On(OmpLoop(b, op), A, L, {}, L, {})
    OBVIOUS
  <2>2. On(Blockingly(op), A, L, {}, L, {})
    BY <1>2, <1>4, <2>1, OnWork
  <2>3. On(<<Submit(op)>>, A, L, {}, L, {} \cup Touches(op))
    BY <1>2, <1>4, <2>1, OnSteps
  <2>4. On(Blockingly([x \in {} |-> op]), A, L, {} \cup Touches(op), L, {})
    <3>1. Touches([x \in {} |-> op]) \subseteq L
      BY MoveTouches
    <3>2. QED
      BY <1>2, <1>4, <3>1, OnWork
  <2>5. QED
    BY <2>2, <2>3, <2>4, OnJoined DEF OmpLoop, OmpUpdate
<1>6. \A k \in ArrayKernels : On(OmpKernel(b, k), A, L, {}, L, {})
  BY <1>4, <1>5, LoopTouches DEF OmpKernel
<1>7. On(OmpDot(b), A, L, {}, L, {})
  BY <1>2, <1>4, UsualMethods DEF OmpDot
<1>8. On(OmpListDevices, A, {}, {}, {}, {})
  BY OnNowhere DEF OmpListDevices
<1>9. On(OmpConstruct(b), A, {}, {}, L, {})
  <2>1. On(<<Acquire(Objects(Here), "malloc")>>, A, {}, {}, Objects(Here), {})
    <3>1. On(<<Acquire(Objects(Here), "malloc")>>, A, {}, {}, {} \cup Objects(Here), {})
      BY <1>2, OnObjects
    <3>2. QED
      BY <3>1
  <2>2. On(IF b # "OMP" THEN <<Select>> ELSE <<>>, A, Objects(Here), {}, Objects(Here), {})
    BY <1>2, OnSteps, OnNowhere
  <2>3. On(IF OmpMaps(b) THEN <<AcquireOn(Objects(Device), "map")>> ELSE <<>>, A, Objects(Here), {}, L, {})
    BY <1>2, <1>3, OnObjects, OnNowhere
  <2>4. On(OmpInit(b), A, L, {}, L, {})
    BY <1>4, <1>5, LoopTouches DEF OmpInit
  <2>5. QED
    BY <2>1, <2>2, <2>3, <2>4, OnJoined DEF OmpConstruct
<1>10. On(OmpGetArrays(b), A, L, {}, L, {}) /\ Hands(OmpGetArrays(b), L)
  <2>1. On(<<HandOut(Here)>>, A, L, {}, L, {}) /\ Hands(<<HandOut(Here)>>, L) /\ IsSeq(<<HandOut(Here)>>)
    BY <1>2, <1>4, OnSteps, HandsTuples, GivesSteps, Tuples
  <2>2. PICK s : s = IF OmpMaps(b) THEN OmpUpdate(MoveArrays(Device, Here)) ELSE <<>>
    OBVIOUS
  <2>3. On(s, A, L, {}, L, {})
    BY <1>2, <1>3, <1>4, <2>2, UsualMethods, OnNowhere DEF OmpUpdate, OmpArrays
  <2>4. Hands(s, L) /\ IsSeq(s)
    BY <2>2, HandsTuples, GivesSteps, Tuples DEF OmpUpdate, Blockingly
  <2>5. On(s \o <<HandOut(Here)>>, A, L, {}, L, {})
    BY <2>1, <2>3, OnJoined
  <2>6. Hands(s \o <<HandOut(Here)>>, L)
    BY <2>1, <2>4, HandsJoined
  <2>7. QED
    BY <2>2, <2>5, <2>6 DEF OmpGetArrays
<1>11. On(OmpDestroy(b), A, L, {}, {}, {})
  <2>1. On(IF OmpMaps(b) THEN <<Release(Objects(Device), "map")>> ELSE <<>>, A, L, {}, Objects(Here), {})
    <3>1. ASSUME OmpMaps(b)
          PROVE  On(<<Release(Objects(Device), "map")>>, A, L, {}, Objects(Here), {})
      <4>1. L = Objects(Here) \cup Objects(Device) /\ L \ Objects(Device) = Objects(Here)
        BY <1>2, <1>3, <3>1
      <4>2. On(<<Release(Objects(Device), "map")>>, A, L, {}, L \ Objects(Device), {})
        BY <1>2, <1>4, <4>1, OnObjects
      <4>3. QED
        BY <4>1, <4>2
    <3>2. QED
      BY <1>2, <1>3, <1>4, <3>1, OnNowhere
  <2>2. On(<<Release(Objects(Here), "malloc")>>, A, Objects(Here), {}, {}, {})
    <3>1. On(<<Release(Objects(Here), "malloc")>>, A, Objects(Here), {}, Objects(Here) \ Objects(Here), {})
      BY <1>2, OnObjects
    <3>2. Objects(Here) \ Objects(Here) = {}
      OBVIOUS
    <3>3. QED
      BY <3>1, <3>2
  <2>3. QED
    BY <2>1, <2>2, OnJoined DEF OmpDestroy
<1>12. Holds(OmpStream(b), A, L, L, {})
  BY <1>6, <1>7, <1>8, <1>9, <1>10, <1>11 DEF Holds, OmpStream
<1>13. QED
  BY <1>2, <1>12, HoldsOwns

\* Allocation and deallocation, with the set after it named.
LEMMA Gets ==
  ASSUME NEW A, NEW L, NEW p, NEW xs, NEW by, NEW M, M \subseteq DOMAIN A, M = L \cup xs, L \cap xs = {},
         \A x \in xs : A[x] = by
  PROVE  On(<<Acquire(xs, by)>>, A, L, p, M, p) /\ On(<<AcquireOn(xs, by)>>, A, L, p, M, p)
<1>1. L \subseteq DOMAIN A /\ xs \subseteq DOMAIN A
  OBVIOUS
<1>2. QED
  BY <1>1, OnObjects

LEMMA Drops ==
  ASSUME NEW A, NEW L, L \subseteq DOMAIN A, NEW p, NEW xs, NEW by, NEW M, M = L \ xs, xs \subseteq L,
         xs \cap p = {}, \A x \in xs : A[x] = by
  PROVE  On(<<Release(xs, by)>>, A, L, p, M, p)
<1>1. xs \subseteq DOMAIN A
  OBVIOUS
<1>2. QED
  BY <1>1, OnObjects

\* The OpenACC backend: device copies in the data region of host arrays.
LEMMA AccOwns ==
  ASSUME NEW T, Objects(Here) \cup Objects(Device) \cup {"sum"} \subseteq T
  PROVE  Owns(AccStream, T, {})
<1>0. PICK A : A = [x \in T |-> IF x \in Objects(Here) THEN "new"
                               ELSE IF x \in Objects(Device) THEN "data" ELSE "local"]
  OBVIOUS
<1>1. /\ DOMAIN A = T /\ \A x \in T : A[x] \in Allocator
      /\ \A x \in Objects(Here) : A[x] = "new"
      /\ \A x \in Objects(Device) : A[x] = "data"
      /\ A["sum"] = "local"
  BY <1>0, Disjoint DEF Allocator
<1>2. PICK L : L = Objects(Here) \cup Objects(Device)
  OBVIOUS
<1>3. L \subseteq DOMAIN A /\ "sum" \in DOMAIN A \ L /\ Device \in [Field -> L] /\ Here \in [Field -> L]
  BY <1>1, <1>2, Disjoint, Places3
<1>4. /\ \A k \in ArrayKernels : On(AccKernel(k), A, L, {}, L, {})
      /\ On(AccDot, A, L, {}, L, {}) /\ On(AccInit, A, L, {}, L, {})
  BY <1>1, <1>3, UsualMethods DEF AccKernel, AccDot, AccInit
<1>5. On(AccConstruct, A, {}, {}, L, {})
  <2>1. On(<<Select>>, A, {}, {}, {}, {})
    BY OnSteps
  <2>2. On(<<Acquire(Objects(Here), "new")>>, A, {}, {}, Objects(Here), {})
    BY <1>1, <1>2, <1>3, Gets
  <2>3. On(<<AcquireOn(Objects(Device), "data")>>, A, Objects(Here), {}, L, {})
    BY <1>1, <1>2, <1>3, Gets, Disjoint
  <2>4. QED
    BY <1>4, <2>1, <2>2, <2>3, OnTuples, OnJoined DEF AccConstruct
<1>6. On(AccGetArrays, A, L, {}, L, {}) /\ Hands(AccGetArrays, L)
  <2>1. On(Blockingly(MoveArrays(Device, Here)), A, L, {}, L, {}) /\ On(<<HandOut(Here)>>, A, L, {}, L, {})
    BY <1>1, <1>3, UsualMethods
  <2>2. Hands(Blockingly(MoveArrays(Device, Here)), L) /\ Hands(<<HandOut(Here)>>, L)
    BY <1>3, HandsTuples, GivesSteps DEF Blockingly
  <2>3. QED
    BY <2>1, <2>2, OnJoined, HandsJoined, Tuples DEF AccGetArrays, Blockingly
<1>7. On(AccDestroy, A, L, {}, {}, {})
  <2>1. On(<<Release(Objects(Device), "data")>>, A, L, {}, Objects(Here), {})
    BY <1>1, <1>2, <1>3, Drops, Disjoint
  <2>2. On(<<Release(Objects(Here), "new")>>, A, Objects(Here), {}, {}, {})
    BY <1>1, <1>2, <1>3, Drops
  <2>3. QED
    BY <2>1, <2>2, OnTuples DEF AccDestroy
<1>8. On(AccListDevices, A, {}, {}, {}, {})
  BY OnNowhere DEF AccListDevices
<1>9. Holds(AccStream, A, L, L, {})
  BY <1>4, <1>5, <1>6, <1>7, <1>8 DEF Holds, AccStream
<1>10. QED
  BY <1>1, <1>9, HoldsOwns

\* A reduction into a held object.
LEMMA ValueTouches ==
  ASSUME NEW X, NEW m \in [Field -> X], NEW x \in X, NEW k, NEW op, op = [y \in {x} |-> Value(k, m)]
  PROVE  Touches(op) \subseteq X
<1>1. DOMAIN op = {x} /\ op[x].of = m
  BY DEF Value
<1>2. \A f \in Operands(op[x].k) : op[x].of[f] \in X
  BY <1>1 DEF Operands, Field
<1>3. Touches(op) \subseteq X \cup X
  BY <1>1, <1>2, ReadsWithin
<1>4. QED
  BY <1>3

\* Kokkos: the views and their mirrors are never deleted.
LEMMA KokkosOwns ==
  ASSUME NEW T, Objects(Device) \cup Objects(Host) \cup {"sum"} \subseteq T
  PROVE  Owns(KokkosStream, T, Objects(Device) \cup Objects(Host))
<1>1. PICK A : A = [x \in T |-> IF x = "sum" THEN "local" ELSE "new"]
  OBVIOUS
<1>2. PICK L : L = Objects(Device) \cup Objects(Host)
  OBVIOUS
<1>3. /\ DOMAIN A = T /\ \A x \in T : A[x] \in Allocator
      /\ \A x \in L : A[x] = "new"
      /\ A["sum"] = "local" /\ "sum" \in T \ L /\ L \subseteq T
  BY <1>1, <1>2, Disjoint DEF Allocator
<1>4. Device \in [Field -> L] /\ Host \in [Field -> L]
  BY <1>2, Places3
<1>5. /\ \A k \in ArrayKernels : On(KokkosKernel(k), A, L, {}, L, {})
      /\ On(KokkosDot, A, L, {}, L, {}) /\ On(KokkosInit, A, L, {}, L, {})
  BY <1>3, <1>4, UsualMethods DEF KokkosKernel, KokkosDot, KokkosInit, KokkosFenced
<1>6. On(KokkosConstruct, A, {}, {}, L, {})
  <2>1. On(<<Select>>, A, {}, {}, {}, {})
    BY OnSteps
  <2>2. On(<<AcquireOn(Objects(Device), "new")>>, A, {}, {}, Objects(Device), {})
    BY <1>2, <1>3, Gets
  <2>3. On(<<Acquire(Objects(Host), "new")>>, A, Objects(Device), {}, L, {})
    BY <1>2, <1>3, Gets, Disjoint
  <2>4. QED
    BY <1>5, <2>1, <2>2, <2>3, OnTuples, OnJoined DEF KokkosConstruct
<1>7. On(KokkosGetArrays, A, L, {}, L, {}) /\ Hands(KokkosGetArrays, L)
  <2>1. On(Blockingly(MoveArrays(Device, Host)), A, L, {}, L, {}) /\ On(<<HandOut(Host)>>, A, L, {}, L, {})
    BY <1>3, <1>4, UsualMethods
  <2>2. Hands(Blockingly(MoveArrays(Device, Host)), L) /\ Hands(<<HandOut(Host)>>, L)
    BY <1>4, HandsTuples, GivesSteps DEF Blockingly
  <2>3. QED
    BY <2>1, <2>2, OnJoined, HandsJoined, Tuples DEF KokkosGetArrays, Blockingly
<1>8. On(KokkosDestroy, A, L, {}, L, {}) /\ On(<<>>, A, {}, {}, {}, {})
  BY <1>3, OnSteps, OnNowhere DEF KokkosDestroy
<1>9. Holds(KokkosStream, A, L, L, L)
  BY <1>5, <1>6, <1>7, <1>8 DEF Holds, KokkosStream
<1>10. QED
  BY <1>2, <1>3, <1>9, HoldsOwns

\* RAJA: allocate and deallocate are of one pair in both builds.
LEMMA RajaOwns ==
  ASSUME NEW T, Objects(Device) \cup {"sum"} \subseteq T, NEW b
  PROVE  Owns(RajaStream(b), T, {})
<1>1. PICK A : A = [x \in T |-> IF x = "sum" THEN "local" ELSE RajaAllocator(b)]
  OBVIOUS
<1>2. PICK L : L = Objects(Device)
  OBVIOUS
<1>3. /\ DOMAIN A = T /\ \A x \in T : A[x] \in Allocator
      /\ \A x \in L : A[x] = RajaAllocator(b)
      /\ A["sum"] = "local" /\ "sum" \in T \ L /\ L \subseteq T
  BY <1>1, <1>2, Disjoint DEF Allocator, RajaAllocator
<1>4. Device \in [Field -> L]
  BY <1>2, Places3
<1>5. /\ \A k \in ArrayKernels : On(RajaKernel(k), A, L, {}, L, {})
      /\ On(RajaDot, A, L, {}, L, {}) /\ On(RajaInit, A, L, {}, L, {})
  BY <1>3, <1>4, UsualMethods DEF RajaKernel, RajaDot, RajaInit
<1>6. On(RajaConstruct(b), A, {}, {}, L, {})
  <2>1. /\ b = "RAJA" => On(<<Acquire(Objects(Device), "malloc")>>, A, {}, {}, L, {})
        /\ b # "RAJA" => On(<<AcquireOn(Objects(Device), "cuda")>>, A, {}, {}, L, {})
    BY <1>2, <1>3, Gets DEF RajaAllocator
  <2>2. On(<<Wait>>, A, L, {}, L, {})
    BY <1>3, OnSteps
  <2>3. QED
    BY <1>5, <2>1, <2>2, OnTuples, OnJoined DEF RajaConstruct
<1>7. On(RajaGetArrays, A, L, {}, L, {}) /\ Hands(RajaGetArrays, L)
  BY <1>3, <1>4, UsualMethods, HandsTuples, GivesSteps DEF RajaGetArrays
<1>8. On(RajaDestroy(b), A, L, {}, {}, {}) /\ On(<<>>, A, {}, {}, {}, {})
  BY <1>2, <1>3, Drops, OnNowhere DEF RajaDestroy
<1>9. Holds(RajaStream(b), A, L, L, {})
  BY <1>5, <1>6, <1>7, <1>8 DEF Holds, RajaStream
<1>10. QED
  BY <1>3, <1>9, HoldsOwns

\* On plain memory nothing is freed.
LEMMA TbbOwns ==
  ASSUME NEW T, Objects(Here) \cup {"sum"} \subseteq T, NEW b
  PROVE  Owns(TbbStream(b), T, IF b = "TBB" THEN Objects(Here) ELSE {})
<1>1. PICK by : by = IF b = "TBB" THEN "malloc" ELSE "vector"
  OBVIOUS
<1>2. PICK A : A = [x \in T |-> IF x = "sum" THEN "local" ELSE by]
  OBVIOUS
<1>3. PICK L : L = Objects(Here)
  OBVIOUS
<1>4. /\ DOMAIN A = T /\ \A x \in T : A[x] \in Allocator
      /\ \A x \in L : A[x] = by
      /\ A["sum"] = "local" /\ "sum" \in T \ L /\ L \subseteq T
  BY <1>1, <1>2, <1>3, Disjoint DEF Allocator
<1>5. Here \in [Field -> L]
  BY <1>3, Places3
<1>6. /\ \A k \in ArrayKernels : On(TbbKernel(k), A, L, {}, L, {})
      /\ On(TbbDot, A, L, {}, L, {}) /\ On(TbbInit, A, L, {}, L, {})
  BY <1>4, <1>5, UsualMethods DEF TbbKernel, TbbDot, TbbInit
<1>7. On(TbbConstruct(b), A, {}, {}, L, {})
  <2>1. On(<<Acquire(Objects(Here), by)>>, A, {}, {}, L, {})
    BY <1>3, <1>4, Gets
  <2>2. On(<<Check("first")>>, A, L, {}, L, {})
    BY <1>4, OnSteps
  <2>3. On(<<Acquire(Objects(Here), by), Check("first")>>, A, {}, {}, L, {})
    BY <2>1, <2>2, OnTuples
  <2>4. QED
    BY <1>1, <1>6, <2>3, OnJoined DEF TbbConstruct
<1>8. On(TbbGetArrays, A, L, {}, L, {}) /\ Hands(TbbGetArrays, L)
  BY <1>4, <1>5, UsualMethods, HandsTuples, GivesSteps DEF TbbGetArrays
<1>9. PICK E : E = IF b = "TBB" THEN Objects(Here) ELSE {}
  OBVIOUS
<1>10. On(TbbDestroy(b), A, L, {}, E, {}) /\ On(<<>>, A, {}, {}, {}, {})
  BY <1>1, <1>3, <1>4, <1>9, Drops, OnNowhere DEF TbbDestroy
<1>11. Holds(TbbStream(b), A, L, L, E)
  BY <1>6, <1>7, <1>8, <1>10 DEF Holds, TbbStream
<1>12. QED
  BY <1>4, <1>9, <1>11, HoldsOwns

\* The C++ std backend: alloc_raw and dealloc_raw.
LEMMA StdOwns ==
  ASSUME NEW T, Objects(Here) \cup {"sum"} \subseteq T, NEW b
  PROVE  Owns(StdStream(b), T, {})
<1> DEFINE by == IF b = "STD-DPCPP" THEN "usm" ELSE "malloc"
<1>1. PICK A : A = [x \in T |-> IF x = "sum" THEN "local" ELSE by]
  OBVIOUS
<1>2. PICK L : L = Objects(Here)
  OBVIOUS
<1>3. /\ DOMAIN A = T /\ \A x \in T : A[x] \in Allocator
      /\ \A x \in L : A[x] = by
      /\ A["sum"] = "local" /\ "sum" \in T \ L /\ L \subseteq T
  BY <1>1, <1>2, Disjoint DEF Allocator
<1>4. Here \in [Field -> L] /\ "a" \in L /\ Arrays("a", "a", "c") \in [Field -> L]
  BY <1>2, Places3 DEF Arrays, Field
<1>5. /\ \A k \in ArrayKernels : On(StdKernel(k), A, L, {}, L, {})
      /\ On(StdDot, A, L, {}, L, {})
  BY <1>3, <1>4, UsualMethods DEF StdKernel, StdDot
<1>6. On(StdConstruct(b), A, {}, {}, L, {})
  <2>1. On(alloc_raw(b), A, {}, {}, L, {})
    <3>1. /\ On(<<Acquire(Objects(Here), by)>>, A, {}, {}, L, {})
          /\ On(<<AcquireOn(Objects(Here), by)>>, A, {}, {}, L, {})
      BY <1>2, <1>3, Gets
    <3>2. QED
      BY <3>1 DEF alloc_raw
  <2>2. \A f \in {"a", "b", "c"} : On(Blockingly(StartArray(f, Here)), A, L, {}, L, {})
    BY <1>3, <1>4, UsualMethods DEF Field
  <2>3. On(StdInit, A, L, {}, L, {})
    BY <2>2, OnJoined DEF StdInit
  <2>4. QED
    BY <2>1, <2>3, OnJoined DEF StdConstruct
<1>7. On(StdNstream(b), A, L, {}, L, {})
  <2>1. PICK op, op2 : /\ op = [x \in {"a"} |-> Value("Add", Here)]
                       /\ op2 = [x \in {"a"} |-> Value("Triad", Arrays("a", "a", "c"))]
    OBVIOUS
  <2>2. On(StdKernel("Nstream"), A, L, {}, L, {})
    BY <1>5 DEF ArrayKernels
  <2>3. Touches(op) \subseteq L /\ Touches(op2) \subseteq L
    <3>1. PICK m : m = Arrays("a", "a", "c")
      OBVIOUS
    <3>2. Touches(op) \subseteq L
      BY <1>4, <2>1, ValueTouches
    <3>3. "a" \in L /\ m \in [Field -> L] /\ op2 = [x \in {"a"} |-> Value("Triad", m)]
      BY <1>4, <2>1, <3>1
    <3>4. Touches(op2) \subseteq L
      BY <3>3, ValueTouches
    <3>5. QED
      BY <3>2, <3>4
  <2>4. On(Blockingly(op), A, L, {}, L, {}) /\ On(Blockingly(op2), A, L, {}, L, {})
    BY <1>3, <2>3, OnWork
  <2>5. On(Blockingly(op) \o Blockingly(op2), A, L, {}, L, {})
    BY <2>4, OnJoined
  <2>6. QED
    BY <2>1, <2>2, <2>5 DEF StdNstream
<1>8. On(StdGetArrays, A, L, {}, L, {}) /\ Hands(StdGetArrays, L)
  BY <1>3, <1>4, UsualMethods, HandsTuples, GivesSteps DEF StdGetArrays
<1>9. On(StdDestroy(b), A, L, {}, {}, {}) /\ On(<<>>, A, {}, {}, {}, {})
  BY <1>2, <1>3, Drops, OnNowhere DEF StdDestroy, dealloc_raw
<1>10. Holds(StdStream(b), A, L, L, {})
  BY <1>5, <1>6, <1>7, <1>8, <1>9 DEF Holds, StdStream
<1>11. QED
  BY <1>3, <1>10, HoldsOwns
----------------------------------------------------------------------------
(* Futhark                                                                 *)

\* The exchange of a pointer.
LEMMA OnRename ==
  ASSUME NEW A, NEW L, L \subseteq DOMAIN A, NEW p, NEW x \in L, NEW y \in DOMAIN A \ L, A[x] = A[y],
         NEW M, M = (L \ {x}) \cup {y}
  PROVE  \E q : On(<<Rename(x, y)>>, A, L, p, M, q)
<1>1. PICK n : n = Once(A, L)
  OBVIOUS
<1>2. n \in Counts(A) /\ n[x] = 1 /\ n[y] = 0
  BY <1>1, OnceCounts
<1>3. [n EXCEPT ![x] = 0, ![y] = n[x]] = Once(A, M)
  BY <1>1, <1>2 DEF Once
<1>4. PICK q : q = {IF z = x THEN y ELSE z : z \in p}
  OBVIOUS
<1>5. Takes(Rename(x, y), A, n, p, Once(A, M), q)
  BY <1>2, <1>3, <1>4, TakesRename
<1>6. QED
  BY <1>1, <1>5, GoesOne DEF On

\* Tuples of four, five and six steps.
LEMMA OnFour ==
  ASSUME NEW A, NEW x, NEW y, NEW z, NEW u, NEW L, NEW p, NEW L2, NEW p2, NEW L4, NEW p4,
         On(<<x, y>>, A, L, p, L2, p2), On(<<z, u>>, A, L2, p2, L4, p4)
  PROVE  On(<<x, y, z, u>>, A, L, p, L4, p4)
<1>1. On(<<x, y>> \o <<z, u>>, A, L, p, L4, p4)
  BY OnJoined
<1>2. <<x, y, z, u>> = <<x, y>> \o <<z, u>>
  OBVIOUS
<1>3. QED
  BY <1>1, <1>2

LEMMA OnFive ==
  ASSUME NEW A, NEW x, NEW y, NEW z, NEW u, NEW v, NEW L, NEW p, NEW L2, NEW p2, NEW L5, NEW p5,
         On(<<x, y>>, A, L, p, L2, p2), On(<<z, u, v>>, A, L2, p2, L5, p5)
  PROVE  On(<<x, y, z, u, v>>, A, L, p, L5, p5)
<1>1. On(<<x, y>> \o <<z, u, v>>, A, L, p, L5, p5)
  BY OnJoined
<1>2. <<x, y, z, u, v>> = <<x, y>> \o <<z, u, v>>
  OBVIOUS
<1>3. QED
  BY <1>1, <1>2

LEMMA OnSix ==
  ASSUME NEW A, NEW x, NEW y, NEW z, NEW u, NEW v, NEW w,
         NEW L, NEW p, NEW L3, NEW p3, NEW L6, NEW p6,
         On(<<x, y, z>>, A, L, p, L3, p3), On(<<u, v, w>>, A, L3, p3, L6, p6)
  PROVE  On(<<x, y, z, u, v, w>>, A, L, p, L6, p6)
<1>1. On(<<x, y, z>> \o <<u, v, w>>, A, L, p, L6, p6)
  BY OnJoined
<1>2. <<x, y, z, u, v, w>> = <<x, y, z>> \o <<u, v, w>>
  OBVIOUS
<1>3. QED
  BY <1>1, <1>2

\* None of four steps hands out what is not held.
LEMMA HandsFour ==
  ASSUME NEW L, NEW x, NEW y, NEW z, NEW u, Gives(x, L), Gives(y, L), Gives(z, L), Gives(u, L)
  PROVE  Hands(<<x, y, z, u>>, L)
BY DEF Hands

\* Futhark: triad and nstream put a new array in the place of the old one,
\* and get_arrays copies out to the vectors.
LEMMA FutharkOwns ==
  ASSUME NEW T, NEW b,
         Objects(Here) \cup Objects(Device) \cup Objects(Host) \cup {"sum", "cfg", "ctx", "d"} \subseteq T
  PROVE  Owns(FutharkStream(b), T, {})
<1>1. PICK A : A = [x \in T |-> IF x \in Objects(Here) THEN "new"
                                ELSE IF x \in Objects(Host) THEN "vector"
                                ELSE IF x = "sum" THEN "local"
                                ELSE IF x = "cfg" THEN "config"
                                ELSE IF x = "ctx" THEN "context" ELSE "futhark"]
  OBVIOUS
<1>2. PICK C : C = {"cfg", "ctx"}
  OBVIOUS
<1>3. PICK L : L = C \cup Objects(Device)
  OBVIOUS
<1>4. PICK G : G = L \cup Objects(Host)
  OBVIOUS
<1>5. /\ DOMAIN A = T /\ \A x \in T : A[x] \in Allocator
      /\ \A x \in Objects(Here) : A[x] = "new"
      /\ \A x \in Objects(Host) : A[x] = "vector"
      /\ \A x \in Objects(Device) \cup {"d"} : A[x] = "futhark"
  BY <1>1, Disjoint DEF Allocator
<1>6. A["cfg"] = "config" /\ A["ctx"] = "context" /\ A["sum"] = "local"
  BY <1>1, Disjoint
<1>7. /\ C \subseteq T /\ L \subseteq T /\ G \subseteq T /\ "sum" \in T \ L /\ "d" \in T \ L
      /\ Objects(Here) \cap L = {} /\ Objects(Host) \cap L = {} /\ C \cap Objects(Device) = {}
  BY <1>2, <1>3, <1>4, Disjoint
<1>8. /\ Device \in [Field -> L] /\ Device \in [Field -> G] /\ Host \in [Field -> G]
      /\ {"d_a", "d_b", "d_c"} \subseteq L /\ \A x \in {"d_a", "d_b", "d_c"} : A[x] = "futhark"
  BY <1>3, <1>4, <1>5, Places3
<1>9. On(FutharkDot, A, L, {}, L, {})
  BY <1>5, <1>6, <1>7, <1>8, UsualMethods DEF FutharkDot
<1>10. ASSUME NEW x \in {"d_a", "d_b", "d_c"}, NEW k, NEW m \in [Field -> L]
       PROVE  On(FutharkEntry(x, Value(k, m)), A, L, {}, L, {})
  <2>1. PICK op : op = [y \in {x} |-> Value(k, m)]
    OBVIOUS
  <2>0. x \in L
    BY <1>8, <1>10
  <2>2. Touches(op) \subseteq L /\ x \in L
    <3>1. m \in [Field -> L]
      BY <1>10
    <3>3. Touches(op) \subseteq L
      BY <2>0, <2>1, <3>1, ValueTouches
    <3>2. QED
      BY <2>0, <3>3
  <2>3. On(<<Release({x}, "futhark")>>, A, L, {}, L \ {x}, {})
    BY <1>5, <1>7, <1>8, <1>10, <2>2, Drops
  <2>4. On(<<AcquireOn({x}, "futhark")>>, A, L \ {x}, {}, L, {})
    <3>1. /\ L \subseteq DOMAIN A /\ L = (L \ {x}) \cup {x} /\ (L \ {x}) \cap {x} = {}
          /\ \A y \in {x} : A[y] = "futhark"
      BY <1>5, <1>7, <1>8, <1>10, <2>2
    <3>2. QED
      BY <3>1, Gets
  <2>5. On(<<Submit(op), Wait>>, A, L, {}, L, {})
    BY <1>5, <1>7, <2>2, OnWork
  <2>6. On(<<Release({x}, "futhark"), AcquireOn({x}, "futhark"), Submit(op), Wait>>, A, L, {}, L, {})
    BY <2>3, <2>4, <2>5, OnTuples, OnFour
  <2>7. QED
    BY <2>1, <2>6 DEF FutharkEntry
<1>11. \A k \in ArrayKernels : On(FutharkKernel(k), A, L, {}, L, {})
  <2>1. \A k \in ArrayKernels : Device[Target(k)] \in {"d_a", "d_b", "d_c"}
    BY Places3 DEF Target, ArrayKernels
  <2>2. QED
    BY <1>8, <1>10, <2>1 DEF FutharkKernel
<1>12. On(FutharkTriad(b), A, L, {}, L, {})
  <2>1. Arrays("d_c", "d_a", "d_b") \in [Field -> L]
    BY <1>8 DEF Arrays, Field
  <2>2. On(FutharkEntry("d_c", Value("Triad", Arrays("d_c", "d_a", "d_b"))), A, L, {}, L, {})
    BY <1>10, <2>1
  <2>3. On(FutharkKernel("Triad"), A, L, {}, L, {})
    BY <1>11 DEF ArrayKernels
  <2>4. QED
    BY <2>2, <2>3 DEF FutharkTriad
<1>13. \E p : On(FutharkNstream, A, L, {}, L, p)
  <2>1. PICK M : M = L \cup {"d"}
    OBVIOUS
  <2>2. PICK op : op = [x \in {"d"} |-> Value("Triad", Arrays("d", "d_a", "d_b"))]
    OBVIOUS
  <2>3. Touches(op) \subseteq {"d", "d_a", "d_b"}
    <3>1. PICK X, m : X = {"d", "d_a", "d_b"} /\ m = Arrays("d", "d_a", "d_b")
      OBVIOUS
    <3>2. m \in [Field -> X] /\ "d" \in X
      BY <3>1 DEF Arrays, Field
    <3>3. op = [x \in {"d"} |-> Value("Triad", m)]
      BY <2>2, <3>1
    <3>4. Touches(op) \subseteq X
      BY <3>2, <3>3, ValueTouches
    <3>5. QED
      BY <3>1, <3>4
  <2>4. M \subseteq T /\ Touches(op) \subseteq M /\ "d_c" \notin Touches(op) /\ "d_c" \in M
    BY <1>7, <1>8, <2>1, <2>3
  <2>5. On(<<AcquireOn({"d"}, "futhark")>>, A, L, {}, M, {})
    <3>1. /\ M \subseteq DOMAIN A /\ M = L \cup {"d"} /\ L \cap {"d"} = {}
          /\ \A x \in {"d"} : A[x] = "futhark"
      BY <1>5, <1>7, <2>1, <2>4
    <3>2. QED
      BY <3>1, Gets
  <2>6. On(<<Submit(op)>>, A, M, {}, M, {} \cup Touches(op))
    BY <1>5, <2>4, OnSteps
  <2>7. On(<<Release({"d_c"}, "futhark")>>, A, M, {} \cup Touches(op), M \ {"d_c"}, {} \cup Touches(op))
    BY <1>5, <1>8, <2>4, Drops
  <2>8. PICK q : On(<<Rename("d", "d_c")>>, A, M \ {"d_c"}, {} \cup Touches(op), L, q)
    <3>1. /\ M \ {"d_c"} \subseteq DOMAIN A /\ "d" \in M \ {"d_c"} /\ "d_c" \in DOMAIN A \ (M \ {"d_c"})
          /\ A["d"] = A["d_c"] /\ L = ((M \ {"d_c"}) \ {"d"}) \cup {"d_c"}
      BY <1>5, <1>7, <1>8, <2>1, <2>4
    <3>2. QED
      BY <3>1, OnRename
  <2>9. On(<<Wait>>, A, L, q, L, {})
    BY <1>5, <1>7, OnSteps
  <2>10. On(<<AcquireOn({"d"}, "futhark"), Submit(op)>>, A, L, {}, M, {} \cup Touches(op))
    BY <2>5, <2>6, OnTuples
  <2>11. On(<<Release({"d_c"}, "futhark"), Rename("d", "d_c"), Wait>>, A, M, {} \cup Touches(op), L, {})
    BY <2>7, <2>8, <2>9, OnTuples
  <2>12. QED
    BY <2>2, <2>10, <2>11, OnFive DEF FutharkNstream
<1>14. On(FutharkConstruct, A, {}, {}, L, {})
  <2>1. On(<<Acquire({"cfg"}, "config")>>, A, {}, {}, {"cfg"}, {})
    BY <1>2, <1>5, <1>6, <1>7, Gets
  <2>2. On(<<Select>>, A, {"cfg"}, {}, {"cfg"}, {})
    BY <1>2, <1>5, <1>7, OnSteps
  <2>3. On(<<Acquire({"ctx"}, "context")>>, A, {"cfg"}, {}, C, {})
    BY <1>2, <1>5, <1>6, <1>7, Gets
  <2>4. On(<<Acquire({"cfg"}, "config"), Select, Acquire({"ctx"}, "context")>>, A, {}, {}, C, {})
    BY <2>1, <2>2, <2>3, OnTuples
  <2>5. PICK H : H = C \cup Objects(Here)
    OBVIOUS
  <2>6. PICK W : W = L \cup Objects(Here)
    OBVIOUS
  <2>7. H \subseteq T /\ W \subseteq T /\ Here \in [Field -> H] /\ Here \in [Field -> W] /\ Device \in [Field -> W]
    BY <1>7, <1>8, <2>5, <2>6, Places3
  <2>8. On(<<Acquire(Objects(Here), "new")>>, A, C, {}, H, {})
    BY <1>3, <1>5, <1>7, <2>5, <2>7, Gets
  <2>9. On(<<Run(StartLoop(Here))>>, A, H, {}, H, {})
    BY <1>5, <2>7, LoopTouches, OnSteps
  <2>10. On(<<AcquireOn(Objects(Device), "futhark")>>, A, H, {}, W, {})
    BY <1>3, <1>5, <1>7, <2>5, <2>6, <2>7, Gets
  <2>11. Touches(MoveArrays(Here, Device)) \subseteq W \cup W
    BY <2>7, MoveTouches
  <2>12. On(<<Submit(MoveArrays(Here, Device))>>, A, W, {}, W, {} \cup Touches(MoveArrays(Here, Device)))
    BY <1>5, <2>7, <2>11, OnSteps
  <2>13. On(<<Wait>>, A, W, {} \cup Touches(MoveArrays(Here, Device)), W, {})
    BY <1>5, <2>7, OnSteps
  <2>14. On(<<Release(Objects(Here), "new")>>, A, W, {}, L, {})
    BY <1>5, <1>7, <2>6, <2>7, Drops
  <2>15. On(FutharkInit, A, C, {}, L, {})
    BY <2>8, <2>9, <2>10, <2>12, <2>13, <2>14, OnTuples, OnSix DEF FutharkInit
  <2>16. QED
    BY <2>4, <2>15, OnJoined DEF FutharkConstruct
<1>15. On(FutharkGetArrays, A, L, {}, G, {}) /\ Hands(FutharkGetArrays, G)
  <2>1. On(<<Acquire(Objects(Host), "vector")>>, A, L, {}, G, {})
    BY <1>4, <1>5, <1>7, Gets
  <2>2. Touches(MoveArrays(Device, Host)) \subseteq G \cup G
    BY <1>8, MoveTouches
  <2>3. On(<<Submit(MoveArrays(Device, Host))>>, A, G, {}, G, {} \cup Touches(MoveArrays(Device, Host)))
    BY <1>5, <1>7, <2>2, OnSteps
  <2>4. On(<<Wait>>, A, G, {} \cup Touches(MoveArrays(Device, Host)), G, {}) /\ On(<<HandOut(Host)>>, A, G, {}, G, {})
    BY <1>5, <1>7, OnSteps
  <2>5. On(FutharkGetArrays, A, L, {}, G, {})
    BY <2>1, <2>3, <2>4, OnTuples, OnFour DEF FutharkGetArrays
  <2>6. Hands(FutharkGetArrays, G)
    BY <1>8, GivesSteps, HandsFour DEF FutharkGetArrays
  <2>7. QED
    BY <2>5, <2>6
<1>16. On(FutharkDestroy, A, G, {}, {}, {})
  <2>1. On(<<Release(Objects(Device), "futhark")>>, A, G, {}, C \cup Objects(Host), {})
    BY <1>3, <1>4, <1>5, <1>7, Disjoint, Drops
  <2>2. On(<<Release({"ctx"}, "context")>>, A, C \cup Objects(Host), {}, {"cfg"} \cup Objects(Host), {})
    BY <1>2, <1>4, <1>5, <1>6, <1>7, Disjoint, Drops
  <2>3. On(<<Release({"cfg"}, "config")>>, A, {"cfg"} \cup Objects(Host), {}, Objects(Host), {})
    BY <1>2, <1>4, <1>5, <1>6, <1>7, Disjoint, Drops
  <2>4. On(<<Release(Objects(Host), "vector")>>, A, Objects(Host), {}, {}, {})
    <3>1. Objects(Host) \subseteq DOMAIN A /\ \A x \in Objects(Host) : A[x] = "vector"
      BY <1>4, <1>5, <1>7
    <3>2. PICK H : H = Objects(Host)
      OBVIOUS
    <3>3. /\ H \subseteq DOMAIN A /\ {} = H \ H /\ H \cap {} = {}
          /\ \A x \in H : A[x] = "vector"
      BY <3>1, <3>2
    <3>4. On(<<Release(H, "vector")>>, A, H, {}, {}, {})
      BY <3>3, Drops
    <3>5. QED
      BY <3>2, <3>4
  <2>5. On(<<Release(Objects(Device), "futhark"), Release({"ctx"}, "context")>>,
           A, G, {}, {"cfg"} \cup Objects(Host), {})
    BY <2>1, <2>2, OnTuples
  <2>6. On(<<Release({"cfg"}, "config"), Release(Objects(Host), "vector")>>,
           A, {"cfg"} \cup Objects(Host), {}, {}, {})
    BY <2>3, <2>4, OnTuples
  <2>7. QED
    BY <2>5, <2>6, OnFour DEF FutharkDestroy
<1>17. On(<<>>, A, {}, {}, {}, {})
  BY OnNowhere
<1>18. ASSUME NEW k \in ArrayKernels PROVE \E p : On(FutharkStream(b).kernel[k], A, L, {}, L, p)
  BY <1>11, <1>12, <1>13 DEF FutharkStream
<1>19. Holds(FutharkStream(b), A, L, G, {})
  BY <1>9, <1>14, <1>15, <1>16, <1>17, <1>18 DEF Holds, FutharkStream
<1>20. QED
  BY <1>5, <1>19, HoldsOwns
----------------------------------------------------------------------------
(* The backends with a queue                                               *)

\* A reduction into an object that is held, and its result.
LEMMA OnDot ==
  ASSUME NEW A, NEW L, L \subseteq DOMAIN A, NEW op, NEW x \in L, Touches(op) \subseteq L
  PROVE  On(<<Submit(op), Wait, ReturnSum(x)>>, A, L, {}, L, {})
<1>1. On(<<Submit(op)>>, A, L, {}, L, {} \cup Touches(op))
  BY OnSteps
<1>2. On(<<Wait>>, A, L, {} \cup Touches(op), L, {})
  BY OnSteps
<1>3. On(<<ReturnSum(x)>>, A, L, {}, L, {})
  BY OnSteps
<1>4. QED
  BY <1>1, <1>2, <1>3, OnTuples

\* None of five steps hands out what is not held.
LEMMA HandsFive ==
  ASSUME NEW L, NEW x, NEW y, NEW z, NEW u, NEW v,
         Gives(x, L), Gives(y, L), Gives(z, L), Gives(u, L), Gives(v, L)
  PROVE  Hands(<<x, y, z, u, v>>, L)
BY DEF Hands

\* The copies of the three arrays, one by one.
LEMMA CopiesTouch ==
  ASSUME NEW L, Objects(Device) \subseteq L, Objects(Host) \subseteq L
  PROVE  /\ Touches(Move("d_a", "h_a")) \subseteq L
         /\ Touches(Move("d_b", "h_b")) \subseteq L
         /\ Touches(Move("d_c", "h_c")) \subseteq L
<1>1. {"d_a", "d_b", "d_c", "h_a", "h_b", "h_c"} \subseteq L
  BY Places3
<1>2. /\ Touches(Move("d_a", "h_a")) \subseteq {"d_a", "h_a"}
      /\ Touches(Move("d_b", "h_b")) \subseteq {"d_b", "h_b"}
      /\ Touches(Move("d_c", "h_c")) \subseteq {"d_c", "h_c"}
  BY MoveTouches
<1>3. QED
  BY <1>1, <1>2

\* The vectors get_arrays resizes are members, unless memory is unified.
LEMMA OwnVectorsFreed ==
  ASSUME NEW A, NEW b, NEW H, H = IF Unified(b) THEN {} ELSE Objects(Host), H \subseteq DOMAIN A,
         \A x \in H : A[x] = "vector"
  PROVE  On(OwnVectors(b), A, H, {}, {}, {})
<1>1. CASE Unified(b)
  BY <1>1, OnNowhere DEF OwnVectors
<1>2. CASE ~Unified(b)
  BY <1>2, Drops DEF OwnVectors
<1>3. QED
  BY <1>1, <1>2

\* CUDA, in its three memory models.
LEMMA CudaOwns ==
  ASSUME NEW T, NEW b, Objects(Device) \cup Objects(Host) \cup {"sums", "stream"} \subseteq T
  PROVE  Owns(CudaStream(b), T, {})
<1>1. PICK dev, pin : /\ dev = IF b = "CUDA-pagefault" THEN "malloc" ELSE "cuda"
                      /\ pin = IF b = "CUDA-pagefault" THEN "malloc" ELSE "cudaHost"
  OBVIOUS
<1>2. PICK A : A = [x \in T |-> IF x \in Objects(Device) THEN dev ELSE IF x = "sums" THEN pin
                                ELSE IF x = "stream" THEN "stream" ELSE "vector"]
  OBVIOUS
<1>3. PICK D : D = {"stream"} \cup Objects(Device)
  OBVIOUS
<1>4. PICK L : L = D \cup {"sums"}
  OBVIOUS
<1>5. PICK H : H = IF Unified(b) THEN {} ELSE Objects(Host)
  OBVIOUS
<1>6. PICK G : G = L \cup H
  OBVIOUS
<1>7. DOMAIN A = T /\ \A x \in T : A[x] \in Allocator
  BY <1>1, <1>2 DEF Allocator
<1>8. /\ \A x \in Objects(Device) : A[x] = dev
      /\ \A x \in Objects(Host) : A[x] = "vector"
      /\ A["sums"] = pin /\ A["stream"] = "stream"
  BY <1>2, Disjoint
<1>9. /\ "stream" \in T /\ D \subseteq T /\ L \subseteq T /\ H \subseteq T /\ G \subseteq T
      /\ "stream" \notin Objects(Device) /\ "sums" \notin D /\ L \cap H = {} /\ "sums" \in L
  BY <1>3, <1>4, <1>5, <1>6, Disjoint
<1>10. Device \in [Field -> L] /\ Device \in [Field -> G]
  BY <1>3, <1>4, <1>6, Places3
<1>11. \A k \in ArrayKernels : On(CudaKernel(k), A, L, {}, L, {})
  BY <1>7, <1>9, <1>10, UsualMethods DEF CudaKernel, for_each
<1>12. On(CudaInit, A, L, {}, L, {})
  BY <1>7, <1>9, <1>10, UsualMethods DEF CudaInit, for_each
<1>13. On(CudaDot, A, L, {}, L, {})
  <2>1. Touches(Products(Device, "sums")) \subseteq L \cup {"sums"}
    BY <1>10, LoopTouches
  <2>2. Touches(Products(Device, "sums")) \subseteq L
    BY <1>9, <2>1
  <2>3. QED
    BY <1>7, <1>9, <2>2, OnDot DEF CudaDot
<1>14. On(CudaConstruct(b), A, {}, {}, L, {})
  <2>1. On(<<Check("count")>>, A, {}, {}, {}, {}) /\ On(<<Select>>, A, {}, {}, {}, {})
    BY OnSteps
  <2>2. On(<<AcquireOn({"stream"}, "stream")>>, A, {}, {}, {"stream"}, {})
    BY <1>7, <1>8, <1>9, Gets
  <2>3. On(<<Check("count"), Select, AcquireOn({"stream"}, "stream")>>, A, {}, {}, {"stream"}, {})
    BY <2>1, <2>2, OnTuples
  <2>4. On(CudaDeviceDriver, A, {"stream"}, {}, {"stream"}, {})
    BY <1>7, <1>9, OnSteps DEF CudaDeviceDriver
  <2>5. On(<<Check("memory")>>, A, {"stream"}, {}, {"stream"}, {})
    BY <1>7, <1>9, OnSteps
  <2>6. On(alloc_device(b, Objects(Device)), A, {"stream"}, {}, D, {})
    <3>1. /\ On(<<Acquire(Objects(Device), dev)>>, A, {"stream"}, {}, D, {})
          /\ On(<<AcquireOn(Objects(Device), dev)>>, A, {"stream"}, {}, D, {})
      BY <1>3, <1>7, <1>8, <1>9, Gets
    <3>2. QED
      BY <1>1, <3>1 DEF alloc_device
  <2>7. On(alloc_host(b, {"sums"}), A, D, {}, L, {})
    <3>1. On(<<Acquire({"sums"}, pin)>>, A, D, {}, L, {})
      BY <1>4, <1>7, <1>8, <1>9, Gets
    <3>2. QED
      BY <1>1, <3>1 DEF alloc_host
  <2>8. QED
    BY <1>12, <2>3, <2>4, <2>5, <2>6, <2>7, OnJoined DEF CudaConstruct
<1>15. On(CudaGetArrays(b), A, L, {}, G, {}) /\ Hands(CudaGetArrays(b), G)
  <2>1. On(<<Wait>>, A, L, {}, L, {}) /\ Hands(<<Wait>>, G) /\ IsSeq(<<Wait>>)
    BY <1>7, <1>9, OnSteps, HandsTuples, GivesSteps, Tuples
  <2>2. PICK s : s = IF Unified(b) THEN <<HandOut(Device)>>
                     ELSE <<Acquire(Objects(Host), "vector"), HandOut(Host), Run(Move("d_a", "h_a")),
                            Run(Move("d_b", "h_b")), Run(Move("d_c", "h_c"))>>
    OBVIOUS
  <2>3. CASE Unified(b)
    <3>1. G = L /\ s = <<HandOut(Device)>>
      BY <1>5, <1>6, <2>2, <2>3
    <3>2. On(s, A, L, {}, G, {}) /\ Hands(s, G) /\ IsSeq(s)
      BY <1>7, <1>9, <1>10, <3>1, OnSteps, HandsTuples, GivesSteps, Tuples
    <3>3. QED
      BY <2>1, <2>2, <3>2, OnJoined, HandsJoined DEF CudaGetArrays
  <2>4. CASE ~Unified(b)
    <3>1. /\ H = Objects(Host) /\ Objects(Device) \subseteq G /\ Objects(Host) \subseteq G
          /\ Host \in [Field -> G]
      BY <1>3, <1>4, <1>5, <1>6, <2>4, Places3
    <3>2. On(<<Acquire(Objects(Host), "vector")>>, A, L, {}, G, {})
      BY <1>6, <1>7, <1>8, <1>9, <3>1, Gets
    <3>3. On(<<HandOut(Host)>>, A, G, {}, G, {})
      BY <1>7, <1>9, OnSteps
    <3>4. /\ On(<<Run(Move("d_a", "h_a"))>>, A, G, {}, G, {})
          /\ On(<<Run(Move("d_b", "h_b"))>>, A, G, {}, G, {})
          /\ On(<<Run(Move("d_c", "h_c"))>>, A, G, {}, G, {})
      BY <1>7, <1>9, <3>1, CopiesTouch, OnSteps
    <3>5. On(<<Acquire(Objects(Host), "vector"), HandOut(Host)>>, A, L, {}, G, {})
      BY <3>2, <3>3, OnTuples
    <3>6. On(<<Run(Move("d_a", "h_a")), Run(Move("d_b", "h_b")), Run(Move("d_c", "h_c"))>>, A, G, {}, G, {})
      BY <3>4, OnTuples
    <3>7. On(s, A, L, {}, G, {})
      BY <2>2, <2>4, <3>5, <3>6, OnFive
    <3>8. Hands(s, G)
      BY <2>2, <2>4, <3>1, HandsFive, GivesSteps
    <3>9. IsSeq(s)
      BY <2>2, <2>4, Tuples
    <3>10. QED
      BY <2>1, <2>2, <3>7, <3>8, <3>9, OnJoined, HandsJoined DEF CudaGetArrays
  <2>5. QED
    BY <2>3, <2>4
<1>16. On(CudaDestroy(b), A, G, {}, {}, {})
  <2>1. On(<<Release({"stream"}, "stream")>>, A, G, {}, G \ {"stream"}, {})
    BY <1>3, <1>4, <1>6, <1>7, <1>8, <1>9, Drops
  <2>2. On(free_device(b, Objects(Device)), A, G \ {"stream"}, {}, {"sums"} \cup H, {})
    <3>1. /\ {"sums"} \cup H = (G \ {"stream"}) \ Objects(Device) /\ Objects(Device) \subseteq G \ {"stream"}
          /\ G \ {"stream"} \subseteq T
      BY <1>3, <1>4, <1>5, <1>6, <1>9, Disjoint
    <3>2. On(<<Release(Objects(Device), dev)>>, A, G \ {"stream"}, {}, {"sums"} \cup H, {})
      BY <1>7, <1>8, <3>1, Drops
    <3>3. QED
      BY <1>1, <3>2 DEF free_device
  <2>3. On(free_host(b, {"sums"}), A, {"sums"} \cup H, {}, H, {})
    <3>1. H = ({"sums"} \cup H) \ {"sums"} /\ {"sums"} \cup H \subseteq T
      BY <1>4, <1>9
    <3>2. On(<<Release({"sums"}, pin)>>, A, {"sums"} \cup H, {}, H, {})
      BY <1>7, <1>8, <3>1, Drops
    <3>3. QED
      BY <1>1, <3>2 DEF free_host
  <2>4. On(OwnVectors(b), A, H, {}, {}, {})
    BY <1>5, <1>7, <1>8, <1>9, OwnVectorsFreed
  <2>5. QED
    BY <2>1, <2>2, <2>3, <2>4, OnJoined DEF CudaDestroy
<1>17. On(CudaListDevices, A, {}, {}, {}, {})
  BY OnNowhere DEF CudaListDevices
<1>18. Holds(CudaStream(b), A, L, G, {})
  BY <1>11, <1>13, <1>14, <1>15, <1>16, <1>17 DEF Holds, CudaStream
<1>19. QED
  BY <1>7, <1>18, HoldsOwns

\* Its arrays are freed by hipFree, so they have to come from hipMalloc.
LEMMA HipOwns ==
  ASSUME NEW T, NEW b, b # "HIP-pagefault", Objects(Device) \cup Objects(Host) \cup {"sums"} \subseteq T
  PROVE  Owns(HipStream(b), T, {})
<1>1. PICK A : A = [x \in T |-> IF x \in Objects(Device) THEN "hip"
                                ELSE IF x = "sums" THEN "hipHost" ELSE "vector"]
  OBVIOUS
<1>2. PICK L : L = {"sums"} \cup Objects(Device)
  OBVIOUS
<1>3. PICK H : H = IF Unified(b) THEN {} ELSE Objects(Host)
  OBVIOUS
<1>4. PICK G : G = L \cup H
  OBVIOUS
<1>5. DOMAIN A = T /\ \A x \in T : A[x] \in Allocator
  BY <1>1 DEF Allocator
<1>6. /\ \A x \in Objects(Device) : A[x] = "hip"
      /\ \A x \in Objects(Host) : A[x] = "vector"
      /\ A["sums"] = "hipHost"
  BY <1>1, Disjoint
<1>7. /\ L \subseteq T /\ H \subseteq T /\ G \subseteq T /\ "sums" \in L
      /\ "sums" \notin Objects(Device) /\ L \cap H = {}
  BY <1>2, <1>3, <1>4, Disjoint
<1>8. Device \in [Field -> L] /\ Device \in [Field -> G]
  BY <1>2, <1>4, Places3
<1>9. \A k \in ArrayKernels : On(HipKernel(k), A, L, {}, L, {})
  BY <1>5, <1>7, <1>8, UsualMethods DEF HipKernel, HipLaunch
<1>10. On(HipInit, A, L, {}, L, {})
  BY <1>5, <1>7, <1>8, UsualMethods DEF HipInit, HipLaunch
<1>11. On(HipDot, A, L, {}, L, {})
  <2>1. Touches(Products(Device, "sums")) \subseteq L \cup {"sums"}
    BY <1>8, LoopTouches
  <2>2. Touches(Products(Device, "sums")) \subseteq L
    BY <1>7, <2>1
  <2>3. QED
    BY <1>5, <1>7, <2>2, OnDot DEF HipDot
<1>12. On(HipConstruct(b), A, {}, {}, L, {})
  <2>1. On(<<Check("count")>>, A, {}, {}, {}, {}) /\ On(<<Select>>, A, {}, {}, {}, {})
    BY OnSteps
  <2>2. On(<<Check("count"), Select>>, A, {}, {}, {}, {}) /\ On(HipDeviceDriver, A, {}, {}, {}, {})
    BY <2>1, OnTuples DEF HipDeviceDriver
  <2>3. On(<<Acquire({"sums"}, "hipHost")>>, A, {}, {}, {"sums"}, {})
    BY <1>5, <1>6, <1>7, Gets
  <2>4. On(<<Check("memory0")>>, A, {"sums"}, {}, {"sums"}, {})
    BY <1>5, <1>7, OnSteps
  <2>5. On(<<AcquireOn(Objects(Device), "hip")>>, A, {"sums"}, {}, L, {})
    BY <1>2, <1>5, <1>6, <1>7, Gets
  <2>6. On(<<Acquire({"sums"}, "hipHost"), Check("memory0"), AcquireOn(Objects(Device), "hip")>>,
           A, {}, {}, L, {})
    BY <2>3, <2>4, <2>5, OnTuples
  <2>7. On(<<Acquire({"sums"}, "hipHost"), Check("memory0"),
             IF b = "HIP-pagefault" THEN Acquire(Objects(Device), "malloc")
                                    ELSE AcquireOn(Objects(Device), "hip")>>, A, {}, {}, L, {})
    BY <2>6
  <2>8. QED
    BY <1>10, <2>2, <2>7, OnJoined DEF HipConstruct
<1>13. On(HipGetArrays(b), A, L, {}, G, {}) /\ Hands(HipGetArrays(b), G)
  <2>1. On(<<Wait>>, A, L, {}, L, {}) /\ Hands(<<Wait>>, G) /\ IsSeq(<<Wait>>)
    BY <1>5, <1>7, OnSteps, HandsTuples, GivesSteps, Tuples
  <2>2. CASE Unified(b)
    <3>1. G = L
      BY <1>3, <1>4, <2>2
    <3>2. /\ On(<<HandOut(Device)>>, A, L, {}, G, {}) /\ Hands(<<HandOut(Device)>>, G)
          /\ IsSeq(<<HandOut(Device)>>)
      BY <1>5, <1>7, <1>8, <3>1, OnSteps, HandsTuples, GivesSteps, Tuples
    <3>3. QED
      BY <2>1, <2>2, <3>2, OnJoined, HandsJoined DEF HipGetArrays
  <2>3. CASE ~Unified(b)
    <3>1. /\ H = Objects(Host) /\ Objects(Device) \subseteq G /\ Objects(Host) \subseteq G
          /\ Host \in [Field -> G]
      BY <1>2, <1>3, <1>4, <2>3, Places3
    <3>2. On(<<Acquire(Objects(Host), "vector")>>, A, L, {}, G, {})
      BY <1>4, <1>5, <1>6, <1>7, <3>1, Gets
    <3>3. On(<<HandOut(Host)>>, A, G, {}, G, {})
      BY <1>5, <1>7, OnSteps
    <3>4. On(<<Acquire(Objects(Host), "vector"), HandOut(Host)>>, A, L, {}, G, {})
      BY <3>2, <3>3, OnTuples
    <3>5. /\ On(Blockingly(Move("d_a", "h_a")), A, G, {}, G, {})
          /\ On(Blockingly(Move("d_b", "h_b")), A, G, {}, G, {})
          /\ On(Blockingly(Move("d_c", "h_c")), A, G, {}, G, {})
      BY <1>5, <1>7, <3>1, CopiesTouch, OnWork
    <3>6. PICK s : s = <<Acquire(Objects(Host), "vector"), HandOut(Host)>>
                       \o Blockingly(Move("d_a", "h_a")) \o Blockingly(Move("d_b", "h_b"))
                       \o Blockingly(Move("d_c", "h_c"))
      OBVIOUS
    <3>7. On(s, A, L, {}, G, {})
      BY <3>4, <3>5, <3>6, OnJoined
    <3>8. /\ Hands(<<Acquire(Objects(Host), "vector"), HandOut(Host)>>, G)
          /\ IsSeq(<<Acquire(Objects(Host), "vector"), HandOut(Host)>>)
      BY <3>1, HandsTuples, GivesSteps, Tuples
    <3>9. \A op : Hands(Blockingly(op), G) /\ IsSeq(Blockingly(op))
      BY HandsTuples, GivesSteps, Tuples DEF Blockingly
    <3>10. Hands(s, G) /\ IsSeq(s)
      <4>1. PICK s1 : s1 = <<Acquire(Objects(Host), "vector"), HandOut(Host)>>
                           \o Blockingly(Move("d_a", "h_a"))
        OBVIOUS
      <4>2. Hands(s1, G) /\ IsSeq(s1)
        BY <3>8, <3>9, <4>1, HandsJoined, Joined
      <4>3. PICK s2 : s2 = s1 \o Blockingly(Move("d_b", "h_b"))
        OBVIOUS
      <4>4. Hands(s2, G) /\ IsSeq(s2)
        BY <3>9, <4>2, <4>3, HandsJoined, Joined
      <4>5. s = s2 \o Blockingly(Move("d_c", "h_c"))
        BY <3>6, <4>1, <4>3
      <4>6. QED
        BY <3>9, <4>4, <4>5, HandsJoined, Joined
    <3>11. HipGetArrays(b) = <<Wait>> \o s
      BY <2>3, <3>6 DEF HipGetArrays
    <3>12. QED
      BY <2>1, <3>7, <3>10, <3>11, OnJoined, HandsJoined
  <2>4. QED
    BY <2>2, <2>3
<1>14. On(HipDestroy(b), A, G, {}, {}, {})
  <2>1. On(<<Release({"sums"}, "hipHost")>>, A, G, {}, G \ {"sums"}, {})
    BY <1>2, <1>4, <1>5, <1>6, <1>7, Drops
  <2>2. /\ H = (G \ {"sums"}) \ Objects(Device) /\ Objects(Device) \subseteq G \ {"sums"}
        /\ G \ {"sums"} \subseteq T
    BY <1>2, <1>3, <1>4, <1>7, Disjoint
  <2>3. On(<<Release(Objects(Device), "hip")>>, A, G \ {"sums"}, {}, H, {})
    BY <1>5, <1>6, <2>2, Drops
  <2>4. On(OwnVectors(b), A, H, {}, {}, {})
    BY <1>3, <1>5, <1>6, <1>7, OwnVectorsFreed
  <2>5. QED
    BY <2>1, <2>3, <2>4, OnTuples, OnJoined DEF HipDestroy
<1>15. On(HipListDevices, A, {}, {}, {}, {})
  BY OnNowhere DEF HipListDevices
<1>16. Holds(HipStream(b), A, L, G, {})
  BY <1>9, <1>11, <1>12, <1>13, <1>14, <1>15 DEF Holds, HipStream
<1>17. QED
  BY <1>5, <1>16, HoldsOwns

\* Thrust: every device_vector is resized in the constructor, freed with it.
LEMMA ThrustOwns ==
  ASSUME NEW T, NEW b, Objects(Device) \cup Objects(Host) \cup {"sum"} \subseteq T
  PROVE  Owns(ThrustStream(b), T, {})
<1>1. PICK A : A = [x \in T |-> IF x = "sum" THEN "local" ELSE "vector"]
  OBVIOUS
<1>2. PICK L : L = Objects(Device)
  OBVIOUS
<1>3. PICK H : H = IF Unified(b) THEN {} ELSE Objects(Host)
  OBVIOUS
<1>4. PICK G : G = L \cup H
  OBVIOUS
<1>5. DOMAIN A = T /\ \A x \in T : A[x] \in Allocator
  BY <1>1 DEF Allocator
<1>6. /\ \A x \in Objects(Device) : A[x] = "vector"
      /\ \A x \in Objects(Host) : A[x] = "vector"
      /\ A["sum"] = "local"
  BY <1>1, Disjoint
<1>7. L \subseteq T /\ H \subseteq T /\ G \subseteq T /\ "sum" \in T \ L /\ L \cap H = {}
  BY <1>2, <1>3, <1>4, Disjoint
<1>8. Device \in [Field -> L] /\ Device \in [Field -> G]
  BY <1>2, <1>4, Places3
<1>9. \A op, p : Touches(op) \subseteq L => \E q : On(Algorithm(b, op), A, L, p, L, q)
  <2>1. SUFFICES ASSUME NEW op, NEW p, Touches(op) \subseteq L
                 PROVE  \E q : On(Algorithm(b, op), A, L, p, L, q)
    OBVIOUS
  <2>2. On(<<Submit(op)>>, A, L, p, L, p \cup Touches(op))
    BY <1>5, <1>7, <2>1, OnSteps
  <2>3. On(Blockingly(op), A, L, p, L, {})
    BY <1>5, <1>7, <2>1, OnWork
  <2>4. QED
    BY <2>2, <2>3 DEF Algorithm
<1>10. \A p : \E q : On(synchronise(b), A, L, p, L, q)
  BY <1>5, <1>7, OnSteps, OnNowhere DEF synchronise
<1>11. ASSUME NEW k \in ArrayKernels PROVE \E p : On(ThrustKernel(b, k), A, L, {}, L, p)
  <2>1. Touches(Loop(k, Device)) \subseteq L
    BY <1>8, LoopTouches
  <2>2. PICK q : On(Algorithm(b, Loop(k, Device)), A, L, {}, L, q)
    BY <1>9, <2>1
  <2>3. PICK q2 : On(synchronise(b), A, L, q, L, q2)
    BY <1>10
  <2>4. QED
    BY <2>2, <2>3, OnJoined DEF ThrustKernel
<1>12. \E p : On(ThrustInit(b), A, L, {}, L, p)
  <2>1. /\ Touches(StartArray("a", Device)) \subseteq L /\ Touches(StartArray("b", Device)) \subseteq L
        /\ Touches(StartArray("c", Device)) \subseteq L
    BY <1>8, LoopTouches DEF Field
  <2>2. PICK q : On(Algorithm(b, StartArray("a", Device)), A, L, {}, L, q)
    BY <1>9, <2>1
  <2>3. PICK q2 : On(Algorithm(b, StartArray("b", Device)), A, L, q, L, q2)
    BY <1>9, <2>1
  <2>4. PICK q3 : On(Algorithm(b, StartArray("c", Device)), A, L, q2, L, q3)
    BY <1>9, <2>1
  <2>5. PICK q4 : On(synchronise(b), A, L, q3, L, q4)
    BY <1>10
  <2>6. QED
    BY <2>2, <2>3, <2>4, <2>5, OnJoined DEF ThrustInit
<1>13. \E p : On(ThrustConstruct(b), A, {}, {}, L, p)
  <2>1. On(<<AcquireOn(Objects(Device), "vector")>>, A, {}, {}, L, {})
    BY <1>2, <1>5, <1>6, <1>7, Gets
  <2>2. On(ThrustDeviceDriver, A, L, {}, L, {})
    BY <1>5, <1>7, OnSteps DEF ThrustDeviceDriver
  <2>3. PICK p : On(ThrustInit(b), A, L, {}, L, p)
    BY <1>12
  <2>4. QED
    BY <2>1, <2>2, <2>3, OnJoined DEF ThrustConstruct
<1>14. On(ThrustDot, A, L, {}, L, {})
  BY <1>5, <1>6, <1>7, <1>8, UsualMethods DEF ThrustDot
<1>15. On(ThrustGetArrays(b), A, L, {}, G, {}) /\ Hands(ThrustGetArrays(b), G)
  <2>1. CASE Unified(b)
    <3>1. G = L
      BY <1>3, <1>4, <2>1
    <3>2. On(<<HandOut(Device)>>, A, L, {}, G, {}) /\ Hands(<<HandOut(Device)>>, G)
      BY <1>5, <1>7, <1>8, <3>1, OnSteps, HandsTuples, GivesSteps
    <3>3. QED
      BY <2>1, <3>2 DEF ThrustGetArrays
  <2>2. CASE ~Unified(b)
    <3>1. H = Objects(Host) /\ Host \in [Field -> G]
      BY <1>3, <1>4, <2>2, Places3
    <3>2. On(<<Acquire(Objects(Host), "vector")>>, A, L, {}, G, {})
      BY <1>4, <1>5, <1>6, <1>7, <3>1, Gets
    <3>3. On(Blockingly(MoveArrays(Device, Host)), A, G, {}, G, {}) /\ On(<<HandOut(Host)>>, A, G, {}, G, {})
      BY <1>5, <1>7, <1>8, <3>1, UsualMethods
    <3>4. PICK s : s = <<Acquire(Objects(Host), "vector")>> \o Blockingly(MoveArrays(Device, Host))
      OBVIOUS
    <3>5. On(s, A, L, {}, G, {})
      BY <3>2, <3>3, <3>4, OnJoined
    <3>6. Hands(s, G) /\ IsSeq(s)
      <4>1. /\ Hands(<<Acquire(Objects(Host), "vector")>>, G) /\ Hands(Blockingly(MoveArrays(Device, Host)), G)
            /\ IsSeq(<<Acquire(Objects(Host), "vector")>>) /\ IsSeq(Blockingly(MoveArrays(Device, Host)))
        BY HandsTuples, GivesSteps, Tuples DEF Blockingly
      <4>2. QED
        BY <3>4, <4>1, HandsJoined, Joined
    <3>7. Hands(<<HandOut(Host)>>, G) /\ IsSeq(<<HandOut(Host)>>)
      BY <3>1, HandsTuples, GivesSteps, Tuples
    <3>8. ThrustGetArrays(b) = s \o <<HandOut(Host)>>
      BY <2>2, <3>4 DEF ThrustGetArrays
    <3>9. QED
      BY <3>3, <3>5, <3>6, <3>7, <3>8, OnJoined, HandsJoined
  <2>3. QED
    BY <2>1, <2>2
<1>16. On(ThrustDestroy(b), A, G, {}, {}, {})
  <2>1. On(OwnVectors(b), A, G, {}, L, {})
    <3>1. CASE Unified(b)
      <4>1. G = L
        BY <1>3, <1>4, <3>1
      <4>2. QED
        BY <1>5, <1>7, <3>1, <4>1, OnNowhere DEF OwnVectors
    <3>2. CASE ~Unified(b)
      <4>1. L = G \ Objects(Host) /\ Objects(Host) \subseteq G
        BY <1>3, <1>4, <1>7, <3>2
      <4>2. QED
        BY <1>5, <1>6, <1>7, <3>2, <4>1, Drops DEF OwnVectors
    <3>3. QED
      BY <3>1, <3>2
  <2>2. On(<<Release(Objects(Device), "vector")>>, A, L, {}, {}, {})
    BY <1>2, <1>5, <1>6, <1>7, Drops
  <2>3. QED
    BY <2>1, <2>2, OnJoined DEF ThrustDestroy
<1>17. On(ThrustListDevices, A, {}, {}, {}, {})
  BY OnNowhere DEF ThrustListDevices
<1>18. Holds(ThrustStream(b), A, L, G, {})
  BY <1>11, <1>13, <1>14, <1>15, <1>16, <1>17 DEF Holds, ThrustStream
<1>19. QED
  BY <1>5, <1>18, HoldsOwns

\* Listing the devices uses nothing.
LEMMA OnDeviceLists ==
  ASSUME NEW A, NEW L, L \subseteq DOMAIN A, NEW p
  PROVE  /\ \A how : On(getDeviceList(how), A, L, p, L, p)
         /\ On(getDeviceName, A, L, p, L, p)
         /\ On(getDeviceDriver, A, L, p, L, p)
<1>1. \A how : On(getDeviceList(how), A, L, p, L, p)
  BY OnSteps DEF getDeviceList
<1>2. On(<<Check("listed")>>, A, L, p, L, p)
  BY OnSteps
<1>3. On(getDeviceList("once") \o <<Check("listed")>>, A, L, p, L, p)
  BY <1>1, <1>2, OnJoined
<1>4. QED
  BY <1>1, <1>3 DEF getDeviceName, getDeviceDriver

\* Listing them from main.cpp.
LEMMA OnListing == ASSUME NEW A PROVE On(getDeviceList("always") \o getDeviceList("once"), A, {}, {}, {}, {})
<1>1. On(getDeviceList("always"), A, {}, {}, {}, {}) /\ On(getDeviceList("once"), A, {}, {}, {}, {})
  BY OnDeviceLists
<1>2. QED
  BY <1>1, OnJoined

\* SYCL 1.2.1: buffers and a queue.
LEMMA SyclOwns ==
  ASSUME NEW T, SyclBuffers \cup {"queue"} \subseteq T
  PROVE  Owns(SyclStream, T, {})
<1>1. PICK A : A = [x \in T |-> "new"]
  OBVIOUS
<1>2. PICK L : L = {"queue"} \cup SyclBuffers
  OBVIOUS
<1>3. DOMAIN A = T /\ \A x \in T : A[x] = "new"
  BY <1>1
<1>4. L \subseteq T /\ "queue" \notin SyclBuffers /\ "d_sum" \in L
  BY <1>2, Disjoint DEF SyclBuffers
<1>5. Device \in [Field -> L]
  BY <1>2, Places3 DEF SyclBuffers
<1>6. \A k \in ArrayKernels : On(SyclKernel(k), A, L, {}, L, {})
  BY <1>3, <1>4, <1>5, UsualMethods DEF SyclKernel
<1>7. On(SyclInit, A, L, {}, L, {})
  BY <1>3, <1>4, <1>5, UsualMethods DEF SyclInit
<1>8. \E p : On(SyclDot, A, L, {}, L, p)
  <2>1. PICK op : op = Products(Device, "d_sum")
    OBVIOUS
  <2>2. Touches(op) \subseteq L \cup {"d_sum"}
    BY <1>5, <2>1, LoopTouches
  <2>3. Touches(op) \subseteq L
    BY <1>4, <2>2
  <2>4. PICK p : p = {} \cup Touches(op)
    OBVIOUS
  <2>5. On(<<Submit(op)>>, A, L, {}, L, p)
    BY <1>3, <1>4, <2>3, <2>4, OnSteps
  <2>6. /\ On(<<Access({"d_sum"})>>, A, L, p, L, p) /\ On(<<ReturnSum("d_sum")>>, A, L, p, L, p)
        /\ On(<<Leave({"d_sum"})>>, A, L, p, L, p)
    BY <1>3, <1>4, OnSteps
  <2>7. On(<<Submit(op), Access({"d_sum"})>>, A, L, {}, L, p)
    BY <2>5, <2>6, OnTuples
  <2>8. On(<<ReturnSum("d_sum"), Leave({"d_sum"})>>, A, L, p, L, p)
    BY <2>6, OnTuples
  <2>9. QED
    BY <2>1, <2>7, <2>8, OnFour DEF SyclDot, SyclReduce
<1>9. On(SyclConstruct, A, {}, {}, L, {})
  <2>1. /\ On(getDeviceList("once"), A, {}, {}, {}, {}) /\ On(getDeviceName, A, {}, {}, {}, {})
        /\ On(getDeviceDriver, A, {}, {}, {}, {})
    BY OnDeviceLists
  <2>2. /\ On(<<Check("listed")>>, A, {}, {}, {}, {}) /\ On(<<Check("fp64")>>, A, {}, {}, {}, {})
        /\ On(<<Select>>, A, {}, {}, {}, {})
    BY OnSteps
  <2>3. On(<<Check("listed"), Check("fp64"), Select>>, A, {}, {}, {}, {})
    BY <2>2, OnTuples
  <2>4. On(<<Acquire({"queue"}, "new")>>, A, {}, {}, {"queue"}, {})
    BY <1>2, <1>3, <1>4, Gets
  <2>5. On(<<Acquire(SyclBuffers, "new")>>, A, {"queue"}, {}, L, {})
    BY <1>2, <1>3, <1>4, Gets
  <2>6. On(<<Acquire({"queue"}, "new"), Acquire(SyclBuffers, "new")>>, A, {}, {}, L, {})
    BY <2>4, <2>5, OnTuples
  <2>7. QED
    BY <1>7, <2>1, <2>3, <2>6, OnJoined DEF SyclConstruct
<1>10. On(SyclGetArrays, A, L, {}, L, {}) /\ Hands(SyclGetArrays, L)
  <2>1. /\ On(<<Access(Objects(Device))>>, A, L, {}, L, {}) /\ On(<<HandOut(Device)>>, A, L, {}, L, {})
        /\ On(<<Leave(Objects(Device))>>, A, L, {}, L, {})
    BY <1>3, <1>4, OnSteps
  <2>2. On(SyclGetArrays, A, L, {}, L, {})
    BY <2>1, OnTuples DEF SyclGetArrays
  <2>3. Hands(SyclGetArrays, L)
    BY <1>5, HandsTuples, GivesSteps DEF SyclGetArrays
  <2>4. QED
    BY <2>2, <2>3
<1>11. On(SyclDestroy, A, L, {}, {}, {})
  <2>1. On(<<Release(SyclBuffers, "new")>>, A, L, {}, {"queue"}, {})
    BY <1>2, <1>3, <1>4, Drops
  <2>2. On(<<Release({"queue"}, "new")>>, A, {"queue"}, {}, {}, {})
    BY <1>2, <1>3, <1>4, Drops
  <2>3. On(<<List("clear")>>, A, {}, {}, {}, {})
    BY OnSteps
  <2>4. QED
    BY <2>1, <2>2, <2>3, OnTuples DEF SyclDestroy
<1>12. On(SyclListDevices, A, {}, {}, {}, {})
  BY OnListing DEF SyclListDevices
<1>13. Holds(SyclStream, A, L, L, {})
  BY <1>6, <1>8, <1>9, <1>10, <1>11, <1>12 DEF Holds, SyclStream
<1>14. QED
  BY <1>3, <1>13, HoldsOwns DEF Allocator

\* SYCL 2020, in the memory models of which it frees the arrays once.
LEMMA UsmOwns ==
  ASSUME NEW T, NEW b, b # "SYCL2020-pagefault", Usm \cup {"queue"} \subseteq T
  PROVE  Owns(UsmStream(b), T, {})
<1>1. PICK dev : dev = "usm"
  OBVIOUS
<1>2. PICK A : A = [x \in T |-> IF x = "queue" THEN "new" ELSE dev]
  OBVIOUS
<1>3. PICK L : L = {"queue"} \cup Usm
  OBVIOUS
<1>4. /\ DOMAIN A = T /\ \A x \in T : A[x] \in Allocator
      /\ A["queue"] = "new" /\ \A x \in Usm : A[x] = dev
  BY <1>1, <1>2, Disjoint DEF Allocator, Usm
<1>5. L \subseteq T /\ "queue" \in T /\ "queue" \notin Usm /\ "sum" \in L
  BY <1>3, Disjoint DEF Usm
<1>6. Device \in [Field -> L]
  BY <1>3, Places3 DEF Usm
<1>7. \A k \in ArrayKernels : On(UsmKernel(k), A, L, {}, L, {})
  BY <1>4, <1>5, <1>6, UsualMethods DEF UsmKernel
<1>8. On(UsmInit(b), A, L, {}, L, {})
  <2>1. Touches(StartLoop(Device)) \subseteq L
    BY <1>6, LoopTouches
  <2>2. On(<<Run(StartLoop(Device))>>, A, L, {}, L, {})
    BY <1>4, <1>5, <2>1, OnSteps
  <2>3. On(<<Submit(StartLoop(Device)), Wait>>, A, L, {}, L, {})
    BY <1>4, <1>5, <2>1, OnWork
  <2>4. QED
    BY <2>2, <2>3 DEF UsmInit
<1>9. On(UsmDot(b), A, L, {}, L, {})
  <2>1. /\ Touches(Products(Device, "sum")) \subseteq L \cup {"sum"}
        /\ Touches(ProductsOnto(Device, "sum")) \subseteq L \cup {"sum"}
    BY <1>6, LoopTouches
  <2>2. Touches(UsmReduction(b)) \subseteq L
    BY <1>5, <2>1 DEF UsmReduction
  <2>3. QED
    BY <1>4, <1>5, <2>2, OnDot DEF UsmDot
<1>10. On(UsmConstruct(b), A, {}, {}, L, {})
  <2>1. /\ On(getDeviceList("once"), A, {}, {}, {}, {}) /\ On(getDeviceName, A, {}, {}, {}, {})
        /\ On(getDeviceDriver, A, {}, {}, {}, {})
    BY OnDeviceLists
  <2>2. /\ On(<<Check("listed")>>, A, {}, {}, {}, {}) /\ On(<<Check("fp64")>>, A, {}, {}, {}, {})
        /\ On(<<Select>>, A, {}, {}, {}, {})
    BY OnSteps
  <2>3. On(<<Acquire({"queue"}, "new")>>, A, {}, {}, {"queue"}, {})
    BY <1>4, <1>5, Gets
  <2>4. On(<<Check("fp64"), Select, Acquire({"queue"}, "new")>>, A, {}, {}, {"queue"}, {})
    BY <2>2, <2>3, OnTuples
  <2>5. On(UsmAllocate(b), A, {"queue"}, {}, L, {})
    <3>1. On(<<Acquire(Usm, dev)>>, A, {"queue"}, {}, L, {}) /\ On(<<AcquireOn(Usm, dev)>>, A, {"queue"}, {}, L, {})
      BY <1>3, <1>4, <1>5, Gets
    <3>2. QED
      BY <1>1, <3>1 DEF UsmAllocate
  <2>6. On(<<List("clear")>>, A, L, {}, L, {})
    BY <1>4, <1>5, OnSteps
  <2>7. QED
    BY <1>8, <2>1, <2>2, <2>4, <2>5, <2>6, OnJoined DEF UsmConstruct
<1>11. On(UsmGetArrays, A, L, {}, L, {}) /\ Hands(UsmGetArrays, L)
  BY <1>4, <1>5, <1>6, OnSteps, HandsTuples, GivesSteps DEF UsmGetArrays
<1>12. On(UsmDestroy(b), A, L, {}, {}, {})
  <2>1. On(<<Release(Usm, dev)>>, A, L, {}, {"queue"}, {})
    BY <1>3, <1>4, <1>5, Drops
  <2>2. On(<<Release({"queue"}, "new")>>, A, {"queue"}, {}, {}, {})
    BY <1>4, <1>5, Drops
  <2>3. On(<<Release(Usm, dev), Release({"queue"}, "new")>>, A, L, {}, {}, {})
    BY <2>1, <2>2, OnTuples
  <2>4. On(<<>>, A, L, {}, L, {})
    BY <1>4, <1>5, OnNowhere
  <2>5. QED
    BY <1>1, <2>3, <2>4, OnJoined DEF UsmDestroy
<1>13. On(UsmListDevices, A, {}, {}, {}, {})
  BY OnListing DEF UsmListDevices
<1>14. Holds(UsmStream(b), A, L, L, {})
  BY <1>7, <1>9, <1>10, <1>11, <1>12, <1>13 DEF Holds, UsmStream
<1>15. QED
  BY <1>4, <1>14, HoldsOwns

\* None of six steps hands out what is not held.
LEMMA HandsSix ==
  ASSUME NEW L, NEW x, NEW y, NEW z, NEW u, NEW v, NEW w,
         Gives(x, L), Gives(y, L), Gives(z, L), Gives(u, L), Gives(v, L), Gives(w, L)
  PROVE  Hands(<<x, y, z, u, v, w>>, L)
BY DEF Hands

\* sycl-ai, in both builds.
LEMMA AiOwns ==
  ASSUME NEW T, NEW b, AiMemory \cup Objects(Host) \cup {"queue", "h_sum", "sum"} \subseteq T
  PROVE  Owns(AiStream(b), T, {})
<1>1. PICK A : A = [x \in T |-> IF x = "queue" \/ x = "h_sum" THEN "new"
                                ELSE IF x = "sum" THEN "local"
                                ELSE IF x \in Objects(Host) THEN "vector" ELSE "usm"]
  OBVIOUS
<1>2. PICK D : D = {"queue"} \cup AiMemory
  OBVIOUS
<1>3. PICK L : L = D \cup {"h_sum"}
  OBVIOUS
<1>4. PICK G : G = L \cup Objects(Host)
  OBVIOUS
<1>5. DOMAIN A = T /\ \A x \in T : A[x] \in Allocator
  BY <1>1 DEF Allocator
<1>6. /\ A["queue"] = "new" /\ A["h_sum"] = "new" /\ A["sum"] = "local"
      /\ \A x \in Objects(Host) : A[x] = "vector"
      /\ \A x \in AiMemory : A[x] = "usm"
  BY <1>1, Disjoint DEF AiMemory
<1>7. /\ "queue" \in T /\ D \subseteq T /\ L \subseteq T /\ G \subseteq T /\ "sum" \in T \ L
      /\ "queue" \notin AiMemory /\ "h_sum" \notin D /\ L \cap Objects(Host) = {}
      /\ {"d_sum", "d_dot", "h_sum"} \subseteq L
  BY <1>2, <1>3, <1>4, Disjoint DEF AiMemory
<1>8. Device \in [Field -> L] /\ Host \in [Field -> G] /\ Objects(Device) \subseteq G
  BY <1>2, <1>3, <1>4, Places3 DEF AiMemory
<1>9. \A k \in ArrayKernels : On(AiKernel(k), A, L, {}, L, {})
  BY <1>5, <1>7, <1>8, UsualMethods DEF AiKernel
<1>10. On(AiInit, A, L, {}, L, {})
  BY <1>5, <1>7, <1>8, UsualMethods DEF AiInit
<1>11. On(AiDot(b), A, L, {}, L, {})
  <2>1. ASSUME NEW x \in L PROVE Touches(Products(Device, x)) \subseteq L
    <3>1. Touches(Products(Device, x)) \subseteq L \cup {x}
      BY <1>8, LoopTouches
    <3>2. QED
      BY <3>1
  <2>2. /\ On(<<Submit(Products(Device, "d_sum")), Wait>>, A, L, {}, L, {})
        /\ On(<<Submit(Products(Device, "d_dot")), Wait>>, A, L, {}, L, {})
    BY <1>5, <1>7, <2>1, OnWork
  <2>3. On(<<Submit(Move("d_sum", "h_sum")), Wait, ReturnSum("h_sum")>>, A, L, {}, L, {})
    <3>1. Touches(Move("d_sum", "h_sum")) \subseteq {"d_sum", "h_sum"}
      BY MoveTouches
    <3>2. Touches(Move("d_sum", "h_sum")) \subseteq L
      BY <1>7, <3>1
    <3>3. QED
      BY <1>5, <1>7, <3>2, OnDot
  <2>4. On(<<Submit(Zero("d_dot")), Wait>>, A, L, {}, L, {})
    <3>1. Touches(Zero("d_dot")) \subseteq {"d_dot"}
      BY MoveTouches
    <3>2. Touches(Zero("d_dot")) \subseteq L
      BY <1>7, <3>1
    <3>3. QED
      BY <1>5, <1>7, <3>2, OnWork
  <2>5. On(<<Submit(Zero("d_dot")), Wait, Submit(Products(Device, "d_dot")), Wait>>, A, L, {}, L, {})
    BY <2>2, <2>4, OnFour
  <2>6. On(WithLocal("sum", <<Submit(Move("d_dot", "sum")), Wait, ReturnSum("sum")>>), A, L, {}, L, {})
    <3>1. PICK M : M = L \cup {"sum"}
      OBVIOUS
    <3>2. M \subseteq T /\ "sum" \in M /\ "d_dot" \in M
      BY <1>7, <3>1
    <3>3. Touches(Move("d_dot", "sum")) \subseteq {"d_dot", "sum"}
      BY MoveTouches
    <3>4. Touches(Move("d_dot", "sum")) \subseteq M
      BY <3>2, <3>3
    <3>5. On(<<Submit(Move("d_dot", "sum")), Wait, ReturnSum("sum")>>, A, M, {}, M, {})
      BY <1>5, <3>2, <3>4, OnDot
    <3>6. QED
      BY <1>5, <1>6, <1>7, <3>1, <3>5, OnLocal
  <2>7. On(<<Submit(Products(Device, "d_sum")), Wait, Submit(Move("d_sum", "h_sum")), Wait,
             ReturnSum("h_sum")>>, A, L, {}, L, {})
    BY <2>2, <2>3, OnFive
  <2>8. QED
    BY <2>5, <2>6, <2>7, OnJoined DEF AiDot
<1>12. On(AiConstruct, A, {}, {}, L, {})
  <2>1. On(getDeviceList("once"), A, {}, {}, {}, {})
    BY OnDeviceLists
  <2>2. /\ On(<<Check("listed")>>, A, {}, {}, {}, {}) /\ On(<<Check("fp64")>>, A, {}, {}, {}, {})
        /\ On(<<Select>>, A, {}, {}, {}, {})
    BY OnSteps
  <2>3. On(<<Check("listed"), Check("fp64"), Select>>, A, {}, {}, {}, {})
    BY <2>2, OnTuples
  <2>4. On(<<Acquire({"queue"}, "new")>>, A, {}, {}, {"queue"}, {})
    BY <1>5, <1>6, <1>7, Gets
  <2>5. On(<<AcquireOn(AiMemory, "usm")>>, A, {"queue"}, {}, D, {})
    BY <1>2, <1>5, <1>6, <1>7, Gets
  <2>6. On(<<Acquire({"h_sum"}, "new")>>, A, D, {}, L, {})
    BY <1>3, <1>5, <1>6, <1>7, Gets
  <2>7. On(<<Acquire({"queue"}, "new"), AcquireOn(AiMemory, "usm"), Acquire({"h_sum"}, "new")>>,
           A, {}, {}, L, {})
    BY <2>4, <2>5, <2>6, OnTuples
  <2>8. On(<<Check("listed"), Check("fp64"), Select, Acquire({"queue"}, "new"),
             AcquireOn(AiMemory, "usm"), Acquire({"h_sum"}, "new")>>, A, {}, {}, L, {})
    BY <2>3, <2>7, OnSix
  <2>9. On(getDeviceName, A, L, {}, L, {}) /\ On(getDeviceDriver, A, L, {}, L, {})
    BY <1>5, <1>7, OnDeviceLists
  <2>10. QED
    BY <1>10, <2>1, <2>8, <2>9, OnJoined DEF AiConstruct
<1>13. On(AiGetArrays, A, L, {}, G, {}) /\ Hands(AiGetArrays, G)
  <2>1. On(<<Acquire(Objects(Host), "vector")>>, A, L, {}, G, {})
    BY <1>4, <1>5, <1>6, <1>7, Gets
  <2>2. PICK x, y, z : x = Move("d_a", "h_a") /\ y = Move("d_b", "h_b") /\ z = Move("d_c", "h_c")
    OBVIOUS
  <2>3. Touches(x) \subseteq G /\ Touches(y) \subseteq G /\ Touches(z) \subseteq G
    BY <1>4, <1>8, <2>2, CopiesTouch
  <2>4. PICK p, q, r : p = {} \cup Touches(x) /\ q = p \cup Touches(y) /\ r = q \cup Touches(z)
    OBVIOUS
  <2>5. On(<<Submit(x)>>, A, G, {}, G, p)
    BY <1>5, <1>7, <2>3, <2>4, OnSteps
  <2>6. On(<<Submit(y)>>, A, G, p, G, q)
    BY <1>5, <1>7, <2>3, <2>4, OnSteps
  <2>7. On(<<Submit(z)>>, A, G, q, G, r)
    BY <1>5, <1>7, <2>3, <2>4, OnSteps
  <2>8. On(<<Wait>>, A, G, r, G, {}) /\ On(<<HandOut(Host)>>, A, G, {}, G, {})
    BY <1>5, <1>7, OnSteps
  <2>9. On(<<Acquire(Objects(Host), "vector"), Submit(x), Submit(y)>>, A, L, {}, G, q)
    BY <2>1, <2>5, <2>6, OnTuples
  <2>10. On(<<Submit(z), Wait, HandOut(Host)>>, A, G, q, G, {})
    BY <2>7, <2>8, OnTuples
  <2>11. On(<<Acquire(Objects(Host), "vector"), Submit(x), Submit(y), Submit(z), Wait, HandOut(Host)>>,
            A, L, {}, G, {})
    BY <2>9, <2>10, OnSix
  <2>12. Hands(<<Acquire(Objects(Host), "vector"), Submit(x), Submit(y), Submit(z), Wait, HandOut(Host)>>, G)
    BY <1>8, GivesSteps, HandsSix
  <2>13. QED
    BY <2>2, <2>11, <2>12 DEF AiGetArrays
<1>14. On(AiDestroy, A, G, {}, {}, {})
  <2>1. PICK G2, G3 : G2 = {"queue", "h_sum"} \cup Objects(Host) /\ G3 = {"queue"} \cup Objects(Host)
    OBVIOUS
  <2>2. /\ G2 = G \ AiMemory /\ AiMemory \subseteq G /\ G3 = G2 \ {"h_sum"} /\ "h_sum" \in G2
        /\ {"queue"} = G3 \ Objects(Host) /\ Objects(Host) \subseteq G3 /\ G2 \subseteq T /\ G3 \subseteq T
    BY <1>2, <1>3, <1>4, <1>7, <2>1, Disjoint DEF AiMemory
  <2>3. On(<<Release(AiMemory, "usm")>>, A, G, {}, G2, {})
    BY <1>5, <1>6, <1>7, <2>2, Drops
  <2>4. On(<<Release({"h_sum"}, "new")>>, A, G2, {}, G3, {})
    BY <1>5, <1>6, <2>2, Drops
  <2>5. On(<<List("clear")>>, A, G3, {}, G3, {})
    BY <1>5, <2>2, OnSteps
  <2>6. On(<<Release(Objects(Host), "vector")>>, A, G3, {}, {"queue"}, {})
    BY <1>5, <1>6, <2>2, Drops
  <2>7. On(<<Release({"queue"}, "new")>>, A, {"queue"}, {}, {}, {})
    BY <1>5, <1>6, <1>7, Drops
  <2>8. On(<<Release(AiMemory, "usm"), Release({"h_sum"}, "new")>>, A, G, {}, G3, {})
    BY <2>3, <2>4, OnTuples
  <2>9. On(<<List("clear"), Release(Objects(Host), "vector"), Release({"queue"}, "new")>>, A, G3, {}, {}, {})
    BY <2>5, <2>6, <2>7, OnTuples
  <2>10. QED
    BY <2>8, <2>9, OnFive DEF AiDestroy
<1>15. On(AiListDevices, A, {}, {}, {}, {})
  BY OnListing DEF AiListDevices
<1>16. Holds(AiStream(b), A, L, G, {})
  BY <1>9, <1>11, <1>12, <1>13, <1>14, <1>15 DEF Holds, AiStream
<1>17. QED
  BY <1>5, <1>16, HoldsOwns

\* HC: three arrays, and the vectors of the host.
LEMMA HcOwns ==
  ASSUME NEW T, Objects(Device) \cup Objects(Host) \cup {"partial", "h_partial"} \subseteq T
  PROVE  Owns(HcStream, T, {})
<1>1. PICK A : A = [x \in T |-> IF x \in Objects(Host) THEN "vector"
                                ELSE IF x = "h_partial" THEN "local" ELSE "array"]
  OBVIOUS
<1>2. PICK L : L = Objects(Device)
  OBVIOUS
<1>3. PICK G : G = L \cup Objects(Host)
  OBVIOUS
<1>4. DOMAIN A = T /\ \A x \in T : A[x] \in Allocator
  BY <1>1 DEF Allocator
<1>5. /\ A["partial"] = "array" /\ A["h_partial"] = "local"
      /\ \A x \in Objects(Host) : A[x] = "vector"
      /\ \A x \in Objects(Device) : A[x] = "array"
  BY <1>1, Disjoint
<1>6. /\ L \subseteq T /\ G \subseteq T /\ L \cap Objects(Host) = {}
      /\ "partial" \in T \ L /\ "h_partial" \in T \ L
  BY <1>2, <1>3, Disjoint
<1>7. Device \in [Field -> L] /\ Host \in [Field -> G] /\ Objects(Device) \subseteq G
  BY <1>2, <1>3, Places3
<1>8. \A k \in ArrayKernels : On(HcKernel(k), A, L, {}, L, {})
  BY <1>4, <1>6, <1>7, UsualMethods DEF HcKernel
<1>9. On(HcInit, A, L, {}, L, {})
  <2>1. PICK x, y, z : /\ x = StartArray("a", Device) /\ y = StartArray("b", Device)
                       /\ z = StartArray("c", Device)
    OBVIOUS
  <2>2. Touches(x) \subseteq L /\ Touches(y) \subseteq L /\ Touches(z) \subseteq L
    BY <1>7, <2>1, LoopTouches DEF Field
  <2>3. PICK p, q, r : p = {} \cup Touches(x) /\ q = p \cup Touches(y) /\ r = q \cup Touches(z)
    OBVIOUS
  <2>4. On(<<Submit(x)>>, A, L, {}, L, p)
    BY <1>4, <1>6, <2>2, <2>3, OnSteps
  <2>5. On(<<Submit(y)>>, A, L, p, L, q)
    BY <1>4, <1>6, <2>2, <2>3, OnSteps
  <2>6. On(<<Submit(z)>>, A, L, q, L, r)
    BY <1>4, <1>6, <2>2, <2>3, OnSteps
  <2>7. On(<<Wait>>, A, L, r, L, {})
    BY <1>4, <1>6, OnSteps
  <2>8. On(<<Submit(x), Submit(y)>>, A, L, {}, L, q) /\ On(<<Submit(z), Wait>>, A, L, q, L, {})
    BY <2>4, <2>5, <2>6, <2>7, OnTuples
  <2>9. QED
    BY <2>1, <2>8, OnFour DEF HcInit
<1>10. On(HcConstruct, A, {}, {}, L, {})
  <2>1. On(<<AcquireOn(Objects(Device), "array")>>, A, {}, {}, L, {})
    BY <1>2, <1>4, <1>5, <1>6, Gets
  <2>2. /\ On(<<Check("size")>>, A, L, {}, L, {}) /\ On(<<Check("count")>>, A, L, {}, L, {})
        /\ On(<<Select>>, A, L, {}, L, {})
    BY <1>4, <1>6, OnSteps
  <2>3. /\ On(<<AcquireOn(Objects(Device), "array"), Check("size")>>, A, {}, {}, L, {})
        /\ On(<<Check("count"), Select>>, A, L, {}, L, {})
    BY <2>1, <2>2, OnTuples
  <2>4. On(<<AcquireOn(Objects(Device), "array"), Check("size"), Check("count"), Select>>, A, {}, {}, L, {})
    BY <2>3, OnFour
  <2>5. QED
    BY <1>9, <2>4, OnJoined DEF HcConstruct
<1>11. On(HcDot, A, L, {}, L, {})
  <2>1. PICK M : M = L \cup {"partial"}
    OBVIOUS
  <2>2. PICK N : N = M \cup {"h_partial"}
    OBVIOUS
  <2>3. /\ M \subseteq T /\ N \subseteq T /\ "h_partial" \in T \ M
        /\ "partial" \in M /\ {"partial", "h_partial"} \subseteq N
    BY <1>6, <2>1, <2>2
  <2>4. On(<<AcquireOn({"partial"}, "array")>>, A, L, {}, M, {})
    BY <1>4, <1>5, <1>6, <2>1, <2>3, Gets
  <2>5. PICK op, p : op = Products(Device, "partial") /\ p = {} \cup Touches(op)
    OBVIOUS
  <2>6. Touches(op) \subseteq M
    BY <1>7, <2>1, <2>5, LoopTouches
  <2>7. On(<<Submit(op)>>, A, M, {}, M, p) /\ On(<<Wait>>, A, M, p, M, {})
    BY <1>4, <2>3, <2>5, <2>6, OnSteps
  <2>8. On(<<AcquireOn({"partial"}, "array"), Submit(op), Wait>>, A, L, {}, M, {})
    BY <2>4, <2>7, OnTuples
  <2>9. Touches(Move("partial", "h_partial")) \subseteq {"partial", "h_partial"}
    BY MoveTouches
  <2>10. Touches(Move("partial", "h_partial")) \subseteq N
    BY <2>3, <2>9
  <2>11. /\ On(Blockingly(Move("partial", "h_partial")), A, N, {}, N, {})
         /\ On(<<ReturnSum("h_partial")>>, A, N, {}, N, {})
    BY <1>4, <2>3, <2>10, OnWork, OnSteps
  <2>12. On(Blockingly(Move("partial", "h_partial")) \o <<ReturnSum("h_partial")>>, A, N, {}, N, {})
    BY <2>11, OnJoined
  <2>13. On(WithLocal("h_partial", Blockingly(Move("partial", "h_partial")) \o <<ReturnSum("h_partial")>>),
            A, M, {}, M, {})
    BY <1>4, <1>5, <2>2, <2>3, <2>12, OnLocal
  <2>14. On(<<Release({"partial"}, "array")>>, A, M, {}, L, {})
    BY <1>4, <1>5, <1>6, <2>1, <2>3, Drops
  <2>15. QED
    BY <2>5, <2>8, <2>13, <2>14, OnJoined DEF HcDot
<1>12. On(HcReadArrays, A, L, {}, G, {}) /\ Hands(HcReadArrays, G)
  <2>1. On(<<Acquire(Objects(Host), "vector")>>, A, L, {}, G, {})
    BY <1>3, <1>4, <1>5, <1>6, Gets
  <2>2. PICK x, y, z : /\ x = Blockingly(Move("d_a", "h_a")) /\ y = Blockingly(Move("d_b", "h_b"))
                       /\ z = Blockingly(Move("d_c", "h_c"))
    OBVIOUS
  <2>3. On(x, A, G, {}, G, {}) /\ On(y, A, G, {}, G, {}) /\ On(z, A, G, {}, G, {})
    BY <1>3, <1>4, <1>6, <1>7, <2>2, CopiesTouch, OnWork
  <2>4. On(<<HandOut(Host)>>, A, G, {}, G, {})
    BY <1>4, <1>6, OnSteps
  <2>5. PICK s1 : s1 = <<Acquire(Objects(Host), "vector")>> \o x
    OBVIOUS
  <2>6. PICK s2 : s2 = s1 \o y
    OBVIOUS
  <2>7. PICK s3 : s3 = s2 \o z
    OBVIOUS
  <2>8. HcReadArrays = s3 \o <<HandOut(Host)>>
    BY <2>2, <2>5, <2>6, <2>7 DEF HcReadArrays
  <2>9. On(s1, A, L, {}, G, {})
    BY <2>1, <2>3, <2>5, OnJoined
  <2>10. On(s2, A, L, {}, G, {})
    BY <2>3, <2>6, <2>9, OnJoined
  <2>11. On(s3, A, L, {}, G, {})
    BY <2>3, <2>7, <2>10, OnJoined
  <2>12. /\ Hands(x, G) /\ Hands(y, G) /\ Hands(z, G) /\ IsSeq(x) /\ IsSeq(y) /\ IsSeq(z)
         /\ Hands(<<Acquire(Objects(Host), "vector")>>, G) /\ IsSeq(<<Acquire(Objects(Host), "vector")>>)
    BY <2>2, HandsTuples, GivesSteps, Tuples DEF Blockingly
  <2>13. Hands(s1, G) /\ IsSeq(s1)
    BY <2>5, <2>12, HandsJoined, Joined
  <2>14. Hands(s2, G) /\ IsSeq(s2)
    BY <2>6, <2>12, <2>13, HandsJoined, Joined
  <2>15. Hands(s3, G) /\ IsSeq(s3)
    BY <2>7, <2>12, <2>14, HandsJoined, Joined
  <2>16. Hands(<<HandOut(Host)>>, G) /\ IsSeq(<<HandOut(Host)>>)
    BY <1>7, HandsTuples, GivesSteps, Tuples
  <2>17. QED
    BY <2>4, <2>8, <2>11, <2>15, <2>16, OnJoined, HandsJoined
<1>13. On(HcDestroy, A, G, {}, {}, {})
  <2>1. On(<<Release(Objects(Device), "array")>>, A, G, {}, Objects(Host), {})
    BY <1>2, <1>3, <1>4, <1>5, <1>6, Drops
  <2>2. On(<<Release(Objects(Host), "vector")>>, A, Objects(Host), {}, {}, {})
    BY <1>3, <1>4, <1>5, <1>6, Drops
  <2>3. QED
    BY <2>1, <2>2, OnTuples DEF HcDestroy
<1>14. On(HcListDevices, A, {}, {}, {}, {})
  BY OnNowhere DEF HcListDevices
<1>15. Holds(HcStream, A, L, G, {})
  BY <1>8, <1>10, <1>11, <1>12, <1>13, <1>14 DEF Holds, HcStream
<1>16. QED
  BY <1>4, <1>15, HoldsOwns
----------------------------------------------------------------------------
(* OpenCL: references are shared, and counted                              *)

\* Adding references, and removing them again.
LEMMA UpCounts ==
  ASSUME NEW A, NEW n \in Counts(A), NEW xs
  PROVE  /\ Up(n, xs) \in Counts(A) /\ Down(Up(n, xs), xs) = n
         /\ \A x \in DOMAIN A : Up(n, xs)[x] = IF x \in xs THEN n[x] + 1 ELSE n[x]
<1>1. n \in [DOMAIN A -> Nat] /\ DOMAIN n = DOMAIN A
  BY DEF Counts
<1>2. PICK m : m = Up(n, xs)
  OBVIOUS
<1>3. m \in [DOMAIN A -> Nat] /\ \A x \in DOMAIN A : m[x] = IF x \in xs THEN n[x] + 1 ELSE n[x]
  BY <1>1, <1>2 DEF Up
<1>4. Down(m, xs) = n
  <2>1. \A x \in DOMAIN A : Down(m, xs)[x] = n[x]
    BY <1>1, <1>3 DEF Down
  <2>2. DOMAIN Down(m, xs) = DOMAIN A
    BY <1>3 DEF Down
  <2>3. Down(m, xs) = [x \in DOMAIN A |-> Down(m, xs)[x]]
    BY <2>2 DEF Down
  <2>4. QED
    BY <1>1, <2>1, <2>3
<1>5. QED
  BY <1>2, <1>3, <1>4 DEF Counts

\* In either order.
LEMMA UpUp ==
  ASSUME NEW A, NEW n \in Counts(A), NEW xs, NEW ys
  PROVE  Up(Up(n, xs), ys) = Up(Up(n, ys), xs)
<1>1. PICK m, k : m = Up(Up(n, xs), ys) /\ k = Up(Up(n, ys), xs)
  OBVIOUS
<1>2. m \in Counts(A) /\ k \in Counts(A)
  BY <1>1, UpCounts
<1>3. \A x \in DOMAIN A : m[x] = k[x]
  BY <1>1, UpCounts DEF Counts
<1>4. m = [x \in DOMAIN A |-> m[x]] /\ k = [x \in DOMAIN A |-> k[x]]
  BY <1>2 DEF Counts
<1>5. QED
  BY <1>1, <1>3, <1>4

\* A reference that is taken, and dropped again.
LEMMA GoesShared ==
  ASSUME NEW A, NEW n \in Counts(A), NEW m \in Counts(A), NEW p, NEW p2, NEW xs, xs \subseteq DOMAIN A,
         \A x \in xs : n[x] > 0 /\ m[x] > 0 /\ A[x] = "cl",
         NEW s, Goes(s, A, Up(n, xs), p, Up(m, xs), p2)
  PROVE  Goes(Copied(xs) \o s \o Dropped(xs), A, n, p, m, p2)
<1>1. PICK m2 : m2 = Up(m, xs)
  OBVIOUS
<1>2. /\ m2 \in Counts(A) /\ Down(m2, xs) = m
      /\ \A x \in DOMAIN A : m2[x] = IF x \in xs THEN m[x] + 1 ELSE m[x]
  BY <1>1, UpCounts
<1>3. Goes(Copied(xs), A, n, p, Up(n, xs), p)
  BY TakesRetain, GoesOne DEF Copied
<1>4. \A x \in xs : m2[x] > 0 /\ m2[x] > 1 /\ A[x] = "cl"
  BY <1>2 DEF Counts
<1>5. Takes(Release(xs, "cl"), A, m2, p2, Down(m2, xs), p2)
  BY <1>2, <1>4, TakesRelease
<1>6. Goes(Dropped(xs), A, Up(m, xs), p2, m, p2)
  BY <1>1, <1>2, <1>5, GoesOne DEF Dropped
<1>7. Goes(Copied(xs) \o s, A, n, p, Up(m, xs), p2)
  BY <1>3, GoesJoined
<1>8. QED
  BY <1>6, <1>7, GoesJoined

\* The call of a functor leaves the references as they were.
LEMMA GoesFunctor ==
  ASSUME NEW A, NEW n \in Counts(A), NEW op, NEW xs, xs \subseteq DOMAIN A,
         {"queue", "event"} \subseteq DOMAIN A, A["queue"] = "cl", A["event"] = "cl",
         n["queue"] > 0, n["event"] = 0, \A x \in xs : n[x] > 0 /\ A[x] = "cl",
         \A x \in Touches(op) : x \in DOMAIN A /\ n[x] > 0
  PROVE  Goes(Functor(op, xs), A, n, {}, n, {} \cup Touches(op))
<1>1. PICK n1 : n1 = Up(n, {"queue"})
  OBVIOUS
<1>2. /\ n1 \in Counts(A) /\ Down(n1, {"queue"}) = n
      /\ \A x \in DOMAIN A : n1[x] = IF x \in {"queue"} THEN n[x] + 1 ELSE n[x]
  BY <1>1, UpCounts
<1>3. \A x \in DOMAIN A : n[x] > 0 => n1[x] > 0
  BY <1>2 DEF Counts
<1>4. PICK n2 : n2 = Up(n1, xs)
  OBVIOUS
<1>5. /\ n2 \in Counts(A) /\ Down(n2, xs) = n1
      /\ \A x \in DOMAIN A : n2[x] = IF x \in xs THEN n1[x] + 1 ELSE n1[x]
  BY <1>2, <1>4, UpCounts
<1>6. \A x \in DOMAIN A : n1[x] > 0 => n2[x] > 0
  BY <1>2, <1>5 DEF Counts
<1>7. "event" \notin xs /\ "event" \notin Touches(op) /\ n2["event"] = 0
  BY <1>2, <1>5
<1>8. PICK p : p = {} \cup Touches(op)
  OBVIOUS
<1>9. Takes(Submit(op), A, n2, {}, n2, p)
  <2>1. \A x \in Touches(op) : x \in DOMAIN A /\ n2[x] > 0
    BY <1>3, <1>6
  <2>2. QED
    BY <1>5, <1>8, <2>1, TakesWork
<1>10. PICK n3 : n3 = Up(n2, {"event"})
  OBVIOUS
<1>11. n3 \in Counts(A) /\ Down(n3, {"event"}) = n2 /\ n3["event"] > 0
  BY <1>5, <1>7, <1>10, UpCounts
<1>12. Takes(Acquire({"event"}, "cl"), A, n2, p, n3, p)
  BY <1>5, <1>7, <1>10, TakesAcquire
<1>13. Goes(enqueueNDRangeKernel(op), A, n2, {}, n3, p)
  BY <1>9, <1>12, GoesSteps DEF enqueueNDRangeKernel
<1>14. Goes(Dropped({"event"}), A, n3, p, n2, p)
  <2>1. Takes(Release({"event"}, "cl"), A, n3, p, Down(n3, {"event"}), p)
    BY <1>7, <1>8, <1>11, TakesRelease
  <2>2. QED
    BY <1>11, <2>1, GoesOne DEF Dropped
<1>15. Goes(Copied(xs), A, n1, {}, n2, {})
  <2>1. \A x \in xs : n1[x] > 0
    BY <1>3
  <2>2. QED
    BY <1>2, <1>4, <2>1, TakesRetain, GoesOne DEF Copied
<1>16. Goes(Dropped(xs), A, n2, p, n1, p)
  <2>1. \A x \in xs : n2[x] > 0 /\ n2[x] > 1 /\ A[x] = "cl"
    BY <1>2, <1>3, <1>5 DEF Counts
  <2>2. Takes(Release(xs, "cl"), A, n2, p, Down(n2, xs), p)
    BY <1>5, <2>1, TakesRelease
  <2>3. QED
    BY <1>5, <2>2, GoesOne DEF Dropped
<1>17. Goes(EnqueueArgs, A, n, {}, n1, {})
  BY <1>1, TakesRetain, GoesOne DEF EnqueueArgs, Copied
<1>18. Goes(Dropped({"queue"}), A, n1, p, n, p)
  <2>1. n1["queue"] > 0 /\ n1["queue"] > 1
    BY <1>2 DEF Counts
  <2>2. Takes(Release({"queue"}, "cl"), A, n1, p, Down(n1, {"queue"}), p)
    BY <1>2, <2>1, TakesRelease
  <2>3. QED
    BY <1>2, <2>2, GoesOne DEF Dropped
<1>19. QED
  BY <1>8, <1>13, <1>14, <1>15, <1>16, <1>17, <1>18, GoesJoined DEF Functor

\* So do a launch and a copy, and they wait.
LEMMA GoesLaunch ==
  ASSUME NEW A, NEW n \in Counts(A), NEW op, NEW xs, xs \subseteq DOMAIN A,
         {"queue", "event"} \subseteq DOMAIN A, A["queue"] = "cl", A["event"] = "cl",
         n["queue"] > 0, n["event"] = 0, \A x \in xs : n[x] > 0 /\ A[x] = "cl",
         \A x \in Touches(op) : x \in DOMAIN A /\ n[x] > 0
  PROVE  Goes(ClLaunch(op, xs), A, n, {}, n, {})
<1>1. Goes(Functor(op, xs), A, n, {}, n, {} \cup Touches(op))
  BY GoesFunctor
<1>2. Goes(<<Wait>>, A, n, {} \cup Touches(op), n, {})
  BY TakesWork, GoesOne
<1>3. QED
  BY <1>1, <1>2, GoesJoined DEF ClLaunch

\* So does a copy between the host and a buffer.
LEMMA GoesCopy ==
  ASSUME NEW A, NEW n \in Counts(A), NEW p, NEW x \in DOMAIN A, NEW y \in DOMAIN A, n[x] > 0, n[y] > 0,
         "event" \in DOMAIN A, A["event"] = "cl", n["event"] = 0
  PROVE  Goes(cl_copy(x, y), A, n, p, n, {})
<1>1. Goes(enqueueMapBuffer, A, n, p, n, {})
  BY TakesWork, GoesOne DEF enqueueMapBuffer
<1>2. Goes(<<Run(Move(x, y))>>, A, n, {}, n, {})
  <2>1. Touches(Move(x, y)) \subseteq {x, y}
    BY MoveTouches
  <2>2. \A z \in Touches(Move(x, y)) : z \in DOMAIN A /\ n[z] > 0
    BY <2>1
  <2>3. QED
    BY <2>2, TakesWork, GoesOne
<1>3. PICK op : op = [z \in {} |-> <<>>]
  OBVIOUS
<1>4. Touches(op) = {}
  BY <1>3, MoveTouches
<1>5. PICK n3 : n3 = Up(n, {"event"})
  OBVIOUS
<1>6. n3 \in Counts(A) /\ Down(n3, {"event"}) = n /\ n3["event"] > 0
  BY <1>5, UpCounts
<1>7. Takes(Submit(op), A, n, {}, n, {})
  <2>1. Takes(Submit(op), A, n, {}, n, {} \cup Touches(op))
    BY <1>4, TakesWork
  <2>2. QED
    BY <1>4, <2>1
<1>8. Takes(Acquire({"event"}, "cl"), A, n, {}, n3, {})
  BY <1>5, TakesAcquire
<1>9. Goes(enqueueUnmapMemObject, A, n, {}, n3, {})
  BY <1>3, <1>7, <1>8, GoesSteps DEF enqueueUnmapMemObject
<1>10. Goes(<<Wait>>, A, n3, {}, n3, {})
  BY <1>6, TakesWork, GoesOne
<1>11. Goes(Dropped({"event"}), A, n3, {}, n, {})
  <2>1. Takes(Release({"event"}, "cl"), A, n3, {}, Down(n3, {"event"}), {})
    BY <1>6, TakesRelease
  <2>2. QED
    BY <1>6, <2>1, GoesOne DEF Dropped
<1>12. QED
  BY <1>1, <1>2, <1>9, <1>10, <1>11, GoesJoined DEF cl_copy

\* An assignment from a temporary.
LEMMA GoesAssigned ==
  ASSUME NEW A, NEW n \in Counts(A), NEW x \in DOMAIN A, "temporary" \in DOMAIN A, x # "temporary",
         n[x] = 0, n["temporary"] = 0, A[x] = A["temporary"],
         NEW s, Goes(s, A, n, {}, Up(n, {"temporary"}), {})
  PROVE  Goes(Assigned(x, s), A, n, {}, Up(n, {x}), {})
<1>1. PICK m : m = Up(n, {"temporary"})
  OBVIOUS
<1>2. m \in Counts(A) /\ \A y \in DOMAIN A : m[y] = IF y = "temporary" THEN n[y] + 1 ELSE n[y]
  BY <1>1, UpCounts
<1>3. m["temporary"] = 1 /\ m[x] = 0
  BY <1>2
<1>4. PICK m2 : m2 = [m EXCEPT !["temporary"] = 0, ![x] = m["temporary"]]
  OBVIOUS
<1>5. m2 = Up(n, {x})
  <2>1. \A y \in DOMAIN A : m2[y] = Up(n, {x})[y]
    BY <1>2, <1>3, <1>4 DEF Up, Counts
  <2>2. DOMAIN m2 = DOMAIN A /\ m2 = [y \in DOMAIN A |-> m2[y]]
    BY <1>2, <1>4 DEF Counts
  <2>3. DOMAIN Up(n, {x}) = DOMAIN A /\ Up(n, {x}) = [y \in DOMAIN A |-> Up(n, {x})[y]]
    BY DEF Up, Counts
  <2>4. QED
    BY <2>1, <2>2, <2>3
<1>6. Goes(Moved("temporary", x), A, m, {}, m2, {})
  <2>1. PICK t : t = "temporary"
    OBVIOUS
  <2>2. /\ t \in DOMAIN A /\ m[t] > 0 /\ A[t] = A[x]
        /\ m2 = [m EXCEPT ![t] = 0, ![x] = m[t]]
    <3>1. m2 = [m EXCEPT ![t] = 0, ![x] = m[t]]
      BY <1>4, <2>1, Zenon
    <3>2. m[t] > 0
      BY <1>3, <2>1
    <3>3. t \in DOMAIN A /\ A[t] = A[x]
      BY <2>1
    <3>4. QED
      BY <3>1, <3>2, <3>3
  <2>3. PICK e : e = {IF z = t THEN x ELSE z : z \in {}}
    OBVIOUS
  <2>4. Takes(Rename(t, x), A, m, {}, m2, e)
    BY <1>2, <1>3, <2>2, <2>3, TakesRename
  <2>5. e = {}
    BY <2>3
  <2>6. QED
    BY <2>1, <2>4, <2>5, GoesOne DEF Moved
<1>7. QED
  BY <1>1, <1>5, <1>6, GoesJoined DEF Assigned

\* L is held, and the device twice.
Twice(A, L) == Up(Once(A, L), {"device"})

\* Careful steps that leave nothing pending, or p, and keep the device twice.
Cl(s, A, L, p, L2, p2) ==
  /\ L \subseteq DOMAIN A /\ L2 \subseteq DOMAIN A /\ "device" \in L /\ "device" \in L2
  /\ Goes(s, A, Twice(A, L), p, Twice(A, L2), p2)

\* What Twice counts, and how that changes.
LEMMA TwiceCounts ==
  ASSUME NEW A, NEW L, L \subseteq DOMAIN A, "device" \in L
  PROVE  /\ Twice(A, L) \in Counts(A)
         /\ \A x \in DOMAIN A : Twice(A, L)[x] = IF x = "device" THEN 2 ELSE IF x \in L THEN 1 ELSE 0
         /\ \A x \in L : Twice(A, L)[x] > 0
         /\ Down(Twice(A, L), {"device"}) = Once(A, L)
<1>1. /\ Once(A, L) \in Counts(A)
      /\ \A x \in DOMAIN A : Once(A, L)[x] = IF x \in L THEN 1 ELSE 0
  BY OnceCounts
<1>2. PICK m : m = Twice(A, L)
  OBVIOUS
<1>3. /\ m \in Counts(A) /\ Down(m, {"device"}) = Once(A, L)
      /\ \A x \in DOMAIN A : m[x] = IF x \in {"device"} THEN Once(A, L)[x] + 1 ELSE Once(A, L)[x]
  BY <1>1, <1>2, UpCounts DEF Twice
<1>4. \A x \in DOMAIN A : m[x] = IF x = "device" THEN 2 ELSE IF x \in L THEN 1 ELSE 0
  BY <1>1, <1>3
<1>5. QED
  BY <1>2, <1>3, <1>4

LEMMA TwiceUpDown ==
  ASSUME NEW A, NEW L, NEW xs, "device" \notin xs
  PROVE  /\ L \cap xs = {} => Up(Twice(A, L), xs) = Twice(A, L \cup xs)
         /\ xs \subseteq L => Down(Twice(A, L), xs) = Twice(A, L \ xs)
<1>1. PICK n : n = Once(A, L)
  OBVIOUS
<1>2. DOMAIN n = DOMAIN A /\ \A x \in DOMAIN A : n[x] = IF x \in L THEN 1 ELSE 0
  BY <1>1 DEF Once
<1>3. PICK m : m = Twice(A, L)
  OBVIOUS
<1>4. DOMAIN m = DOMAIN A /\ \A x \in DOMAIN A : m[x] = IF x = "device" THEN n[x] + 1 ELSE n[x]
  BY <1>1, <1>2, <1>3 DEF Twice, Up
<1>5. \A M : Twice(A, M) = [x \in DOMAIN A |-> IF x = "device" THEN Once(A, M)[x] + 1 ELSE Once(A, M)[x]]
  BY DEF Twice, Up, Once
<1>6. ASSUME L \cap xs = {} PROVE Up(m, xs) = Twice(A, L \cup xs)
  <2>1. Up(m, xs) = [x \in DOMAIN A |-> IF x \in xs THEN m[x] + 1 ELSE m[x]]
    BY <1>4 DEF Up
  <2>2. \A x \in DOMAIN A : Once(A, L \cup xs)[x] = IF x \in L \cup xs THEN 1 ELSE 0
    BY DEF Once
  <2>3. QED
    BY <1>2, <1>4, <1>5, <1>6, <2>1, <2>2
<1>7. ASSUME xs \subseteq L PROVE Down(m, xs) = Twice(A, L \ xs)
  <2>1. Down(m, xs) = [x \in DOMAIN A |-> IF x \in xs THEN m[x] - 1 ELSE m[x]]
    BY <1>4 DEF Down
  <2>2. \A x \in DOMAIN A : Once(A, L \ xs)[x] = IF x \in L \ xs THEN 1 ELSE 0
    BY DEF Once
  <2>3. QED
    BY <1>2, <1>4, <1>5, <1>7, <2>1, <2>2
<1>8. QED
  BY <1>3, <1>6, <1>7

\* Concatenation.
LEMMA ClJoined ==
  ASSUME NEW s, NEW t, NEW A, NEW L, NEW p, NEW L2, NEW p2, NEW L3, NEW p3,
         Cl(s, A, L, p, L2, p2), Cl(t, A, L2, p2, L3, p3)
  PROVE  Cl(s \o t, A, L, p, L3, p3)
BY GoesJoined DEF Cl

\* The steps that change no reference.
LEMMA ClSteps ==
  ASSUME NEW A, NEW L, L \subseteq DOMAIN A, "device" \in L
  PROVE  /\ \A x \in L : Cl(<<ReturnSum(x)>>, A, L, {}, L, {})
         /\ Cl(<<Select>>, A, L, {}, L, {})
         /\ \A x : /\ Cl(<<List(x)>>, A, L, {}, L, {}) /\ Cl(<<Check(x)>>, A, L, {}, L, {})
                   /\ Cl(<<HandOut(x)>>, A, L, {}, L, {})
<1>1. PICK n : n = Twice(A, L)
  OBVIOUS
<1>2. n \in Counts(A) /\ \A x \in L : x \in DOMAIN A /\ n[x] > 0
  BY <1>1, TwiceCounts
<1>3. \A s : Takes(s, A, n, {}, n, {}) => Cl(<<s>>, A, L, {}, L, {})
  BY <1>1, GoesOne DEF Cl
<1>4. \A x \in L : Cl(<<ReturnSum(x)>>, A, L, {}, L, {})
  BY <1>2, <1>3, TakesWork
<1>5. Cl(<<Select>>, A, L, {}, L, {})
  BY <1>2, <1>3, TakesWork
<1>6. \A x : /\ Cl(<<List(x)>>, A, L, {}, L, {}) /\ Cl(<<Check(x)>>, A, L, {}, L, {})
             /\ Cl(<<HandOut(x)>>, A, L, {}, L, {})
  BY <1>2, <1>3, TakesWork
<1>7. QED
  BY <1>4, <1>5, <1>6

\* Allocation and deallocation.
LEMMA ClGets ==
  ASSUME NEW A, NEW L, NEW xs, NEW by, NEW M, M \subseteq DOMAIN A, M = L \cup xs, L \cap xs = {},
         "device" \in L, \A x \in xs : A[x] = by
  PROVE  Cl(<<Acquire(xs, by)>>, A, L, {}, M, {}) /\ Cl(<<AcquireOn(xs, by)>>, A, L, {}, M, {})
<1>1. PICK n : n = Twice(A, L)
  OBVIOUS
<1>2. L \subseteq DOMAIN A /\ xs \subseteq DOMAIN A /\ "device" \notin xs
  OBVIOUS
<1>3. /\ n \in Counts(A)
      /\ \A x \in DOMAIN A : n[x] = IF x = "device" THEN 2 ELSE IF x \in L THEN 1 ELSE 0
  BY <1>1, <1>2, TwiceCounts
<1>4. \A x \in xs : n[x] = 0 /\ A[x] = by
  BY <1>2, <1>3
<1>5. Up(n, xs) = Twice(A, M)
  BY <1>1, <1>2, TwiceUpDown
<1>6. /\ Takes(Acquire(xs, by), A, n, {}, Up(n, xs), {})
      /\ Takes(AcquireOn(xs, by), A, n, {}, Up(n, xs), {})
  BY <1>2, <1>3, <1>4, TakesAcquire
<1>7. QED
  BY <1>1, <1>2, <1>5, <1>6, GoesOne DEF Cl

LEMMA ClDrops ==
  ASSUME NEW A, NEW L, L \subseteq DOMAIN A, NEW xs, NEW by, NEW M, M = L \ xs, xs \subseteq L,
         "device" \in M, \A x \in xs : A[x] = by
  PROVE  Cl(<<Release(xs, by)>>, A, L, {}, M, {})
<1>1. PICK n : n = Twice(A, L)
  OBVIOUS
<1>2. xs \subseteq DOMAIN A /\ "device" \notin xs /\ "device" \in L
  OBVIOUS
<1>3. n \in Counts(A) /\ \A x \in L : n[x] > 0
  BY <1>1, <1>2, TwiceCounts
<1>4. \A x \in xs : n[x] > 0 /\ A[x] = by
  BY <1>3
<1>5. Down(n, xs) = Twice(A, M)
  BY <1>1, <1>2, TwiceUpDown
<1>6. Takes(Release(xs, by), A, n, {}, Down(n, xs), {})
  BY <1>2, <1>3, <1>4, TakesRelease
<1>7. QED
  BY <1>1, <1>2, <1>5, <1>6, GoesOne DEF Cl

\* A member gets its object by assignment from a temporary.
LEMMA ClAssigned ==
  ASSUME NEW A, NEW L, NEW M, M \subseteq DOMAIN A, NEW x, M = L \cup {x}, x \notin L, "device" \in L,
         "temporary" \in DOMAIN A \ M, A[x] = A["temporary"],
         NEW s, Cl(s, A, L, {}, L \cup {"temporary"}, {})
  PROVE  Cl(Assigned(x, s), A, L, {}, M, {})
<1>1. PICK n : n = Twice(A, L)
  OBVIOUS
<1>2. L \subseteq DOMAIN A /\ x \in DOMAIN A /\ x # "device" /\ x # "temporary" /\ "temporary" \notin L
  OBVIOUS
<1>3. /\ n \in Counts(A)
      /\ \A y \in DOMAIN A : n[y] = IF y = "device" THEN 2 ELSE IF y \in L THEN 1 ELSE 0
  BY <1>1, <1>2, TwiceCounts
<1>4. n[x] = 0 /\ n["temporary"] = 0
  BY <1>2, <1>3
<1>5. Up(n, {"temporary"}) = Twice(A, L \cup {"temporary"}) /\ Up(n, {x}) = Twice(A, M)
  BY <1>1, <1>2, TwiceUpDown
<1>6. Goes(s, A, n, {}, Up(n, {"temporary"}), {})
  BY <1>1, <1>5 DEF Cl
<1>7. Goes(Assigned(x, s), A, n, {}, Up(n, {x}), {})
  BY <1>2, <1>3, <1>4, <1>6, GoesAssigned
<1>8. QED
  BY <1>1, <1>2, <1>5, <1>7 DEF Cl

\* Launches, functors and copies.
LEMMA ClWork ==
  ASSUME NEW A, NEW L, L \subseteq DOMAIN A, {"device", "queue"} \subseteq L, "event" \in DOMAIN A \ L,
         A["queue"] = "cl", A["event"] = "cl"
  PROVE  /\ \A op, xs : Touches(op) \subseteq L /\ xs \subseteq L /\ (\A x \in xs : A[x] = "cl") =>
              /\ Cl(ClLaunch(op, xs), A, L, {}, L, {})
              /\ Cl(Functor(op, xs), A, L, {}, L, {} \cup Touches(op))
         /\ \A x, y, p : x \in L /\ y \in L => Cl(cl_copy(x, y), A, L, p, L, {})
<1>1. PICK n : n = Twice(A, L)
  OBVIOUS
<1>2. /\ n \in Counts(A)
      /\ \A y \in DOMAIN A : n[y] = IF y = "device" THEN 2 ELSE IF y \in L THEN 1 ELSE 0
  BY <1>1, TwiceCounts
<1>3. n["queue"] > 0 /\ n["event"] = 0 /\ \A x \in L : x \in DOMAIN A /\ n[x] > 0
  BY <1>2
<1>4. ASSUME NEW op, NEW xs, Touches(op) \subseteq L, xs \subseteq L, \A x \in xs : A[x] = "cl"
      PROVE  /\ Cl(ClLaunch(op, xs), A, L, {}, L, {})
             /\ Cl(Functor(op, xs), A, L, {}, L, {} \cup Touches(op))
  <2>1. /\ xs \subseteq DOMAIN A /\ \A x \in xs : n[x] > 0 /\ A[x] = "cl"
        /\ \A x \in Touches(op) : x \in DOMAIN A /\ n[x] > 0
    BY <1>3, <1>4
  <2>2. Goes(ClLaunch(op, xs), A, n, {}, n, {})
    BY <1>2, <1>3, <2>1, GoesLaunch
  <2>3. Goes(Functor(op, xs), A, n, {}, n, {} \cup Touches(op))
    BY <1>2, <1>3, <2>1, GoesFunctor
  <2>4. QED
    BY <1>1, <2>2, <2>3 DEF Cl
<1>5. ASSUME NEW x \in L, NEW y \in L, NEW p PROVE Cl(cl_copy(x, y), A, L, p, L, {})
  <2>1. Goes(cl_copy(x, y), A, n, p, n, {})
    BY <1>2, <1>3, GoesCopy
  <2>2. QED
    BY <1>1, <2>1 DEF Cl
<1>6. QED
  BY <1>4, <1>5

\* The list of devices keeps the one it found.
LEMMA ClListed ==
  ASSUME NEW A, {"device", "temporary"} \subseteq DOMAIN A, A["device"] = "cl", A["temporary"] = "cl", NEW how
  PROVE  Goes(ClDeviceList(how), A, Once(A, {}), {}, Once(A, {"device"}), {})
<1>1. PICK n, m : n = Once(A, {}) /\ m = Once(A, {"device"})
  OBVIOUS
<1>2. n \in Counts(A) /\ m \in Counts(A) /\ (\A x \in DOMAIN A : n[x] = 0) /\ m["device"] = 1
  BY <1>1, OnceCounts
<1>3. Up(n, {"device"}) = m
  <2>1. Up(Once(A, {}), {"device"}) = Once(A, {} \cup {"device"})
    BY OnceUpDown
  <2>2. {} \cup {"device"} = {"device"}
    OBVIOUS
  <2>3. QED
    BY <1>1, <2>1, <2>2
<1>4. Goes(<<List(how)>>, A, n, {}, n, {})
  BY <1>2, TakesWork, GoesOne
<1>5. Goes(getDevices("device"), A, n, {}, m, {})
  <2>1. Takes(Acquire({"temporary"}, "cl"), A, n, {}, Up(n, {"temporary"}), {})
    BY <1>2, TakesAcquire
  <2>2. Goes(<<Acquire({"temporary"}, "cl")>>, A, n, {}, Up(n, {"temporary"}), {})
    BY <2>1, GoesOne
  <2>3. PICK x : x = "device"
    OBVIOUS
  <2>4. x \in DOMAIN A /\ x # "temporary" /\ n[x] = 0 /\ n["temporary"] = 0 /\ A[x] = A["temporary"]
    BY <1>2, <2>3
  <2>5. Goes(Assigned(x, <<Acquire({"temporary"}, "cl")>>), A, n, {}, Up(n, {x}), {})
    BY <1>2, <2>2, <2>4, GoesAssigned
  <2>6. QED
    BY <1>3, <2>3, <2>5 DEF getDevices
<1>6. PICK m2 : m2 = Up(m, {"device"})
  OBVIOUS
<1>7. m2 \in Counts(A) /\ Down(m2, {"device"}) = m /\ m2["device"] > 0 /\ m2["device"] > 1
  BY <1>2, <1>6, UpCounts
<1>8. Goes(Copied({"device"}), A, m, {}, m2, {})
  BY <1>2, <1>6, TakesRetain, GoesOne DEF Copied
<1>9. Goes(Dropped({"device"}), A, m2, {}, m, {})
  <2>1. Takes(Release({"device"}, "cl"), A, m2, {}, Down(m2, {"device"}), {})
    BY <1>7, TakesRelease
  <2>2. QED
    BY <1>7, <2>1, GoesOne DEF Dropped
<1>10. QED
  BY <1>1, <1>4, <1>5, <1>8, <1>9, GoesJoined DEF ClDeviceList

\* The queue, for which the context hands out its device.
LEMMA ClQueue ==
  ASSUME NEW A, NEW L, L \subseteq DOMAIN A, "device" \in L, "temporary" \in DOMAIN A \ L,
         A["device"] = "cl", A["temporary"] = "cl"
  PROVE  Cl(CommandQueue, A, L, {}, L \cup {"temporary"}, {})
<1>1. PICK n, m, M : n = Twice(A, L) /\ M = L \cup {"temporary"} /\ m = Twice(A, M)
  OBVIOUS
<1>2. /\ n \in Counts(A) /\ n["device"] > 0
      /\ \A y \in DOMAIN A : n[y] = IF y = "device" THEN 2 ELSE IF y \in L THEN 1 ELSE 0
  BY <1>1, TwiceCounts
<1>3. M \subseteq DOMAIN A /\ "device" \in M
  BY <1>1
<1>4. m \in Counts(A) /\ m["device"] > 0
  BY <1>1, <1>3, TwiceCounts
<1>5. m = Up(n, {"temporary"})
  BY <1>1, TwiceUpDown
<1>6. PICK n1 : n1 = Up(n, {"device"})
  OBVIOUS
<1>7. n1 \in Counts(A) /\ n1["temporary"] = 0
  BY <1>2, <1>6, UpCounts
<1>8. Goes(<<Acquire({"temporary"}, "cl")>>, A, n1, {}, Up(n1, {"temporary"}), {})
  BY <1>7, TakesAcquire, GoesOne
<1>9. Up(n1, {"temporary"}) = Up(m, {"device"})
  BY <1>2, <1>5, <1>6, UpUp
<1>10. Goes(<<Acquire({"temporary"}, "cl")>>, A, Up(n, {"device"}), {}, Up(m, {"device"}), {})
  BY <1>6, <1>8, <1>9
<1>11. Goes(Copied({"device"}) \o <<Acquire({"temporary"}, "cl")>> \o Dropped({"device"}), A, n, {}, m, {})
  <2>1. PICK xs : xs = {"device"}
    OBVIOUS
  <2>2. xs \subseteq DOMAIN A /\ \A x \in xs : n[x] > 0 /\ m[x] > 0 /\ A[x] = "cl"
    BY <1>2, <1>4, <2>1
  <2>3. Goes(<<Acquire({"temporary"}, "cl")>>, A, Up(n, xs), {}, Up(m, xs), {})
    BY <1>10, <2>1
  <2>4. Goes(Copied(xs) \o <<Acquire({"temporary"}, "cl")>> \o Dropped(xs), A, n, {}, m, {})
    BY <1>2, <1>4, <2>2, <2>3, GoesShared
  <2>5. QED
    BY <2>1, <2>4
<1>12. QED
  BY <1>1, <1>3, <1>11 DEF Cl, CommandQueue, ContextDevices

\* A copy hands out nothing.
LEMMA ClCopyHands ==
  ASSUME NEW x, NEW y, NEW L
  PROVE  Hands(cl_copy(x, y), L) /\ IsSeq(cl_copy(x, y))
<1>1. PICK s1 : s1 = enqueueMapBuffer \o <<Run(Move(x, y))>>
  OBVIOUS
<1>2. PICK s2 : s2 = s1 \o enqueueUnmapMemObject
  OBVIOUS
<1>3. PICK s3 : s3 = s2 \o <<Wait>>
  OBVIOUS
<1>4. cl_copy(x, y) = s3 \o Dropped({"event"})
  BY <1>1, <1>2, <1>3 DEF cl_copy
<1>5. /\ Hands(enqueueMapBuffer, L) /\ IsSeq(enqueueMapBuffer)
      /\ Hands(<<Run(Move(x, y))>>, L) /\ IsSeq(<<Run(Move(x, y))>>)
      /\ Hands(<<Wait>>, L) /\ IsSeq(<<Wait>>)
  BY HandsTuples, GivesSteps, Tuples DEF enqueueMapBuffer
<1>6. Hands(enqueueUnmapMemObject, L) /\ IsSeq(enqueueUnmapMemObject)
  BY HandsTuples, GivesSteps, Tuples DEF enqueueUnmapMemObject
<1>7. Hands(Dropped({"event"}), L) /\ IsSeq(Dropped({"event"}))
  <2>1. Gives(Release({"event"}, "cl"), L)
    BY DEF Gives, Release
  <2>2. QED
    BY <2>1, HandsTuples, Tuples DEF Dropped
<1>8. Hands(s1, L) /\ IsSeq(s1)
  BY <1>1, <1>5, HandsJoined, Joined
<1>9. Hands(s2, L) /\ IsSeq(s2)
  BY <1>2, <1>6, <1>8, HandsJoined, Joined
<1>10. Hands(s3, L) /\ IsSeq(s3)
  BY <1>3, <1>5, <1>9, HandsJoined, Joined
<1>11. QED
  BY <1>4, <1>7, <1>10, HandsJoined, Joined

\* OpenCL, in both builds: every wrapper drops each reference it takes.
LEMMA ClOwns ==
  ASSUME NEW T, NEW b, ClThing \subseteq T
  PROVE  Owns(ClStream(b), T, {})
<1>1. PICK A : A = [x \in T |-> IF x \in Objects(Host) \cup {"sums"} THEN "vector" ELSE "cl"]
  OBVIOUS
<1>2. PICK C : C = {"device", "context", "queue"}
  OBVIOUS
<1>3. PICK P : P = C \cup {"program"} \cup Functors
  OBVIOUS
<1>4. PICK Q : Q = P \cup ClBuffers \cup {"sums"}
  OBVIOUS
<1>5. PICK L : L = Q \ {"program"}
  OBVIOUS
<1>6. PICK G : G = L \cup Objects(Host)
  OBVIOUS
<1>7. /\ DOMAIN A = T /\ \A x \in T : A[x] \in Allocator
      /\ \A x \in Objects(Host) \cup {"sums"} : A[x] = "vector"
  BY <1>1 DEF Allocator, ClThing
<1>8. /\ \A x \in {"temporary", "device", "context", "queue", "program", "event"} : A[x] = "cl"
      /\ \A x \in Functors \cup ClBuffers : A[x] = "cl"
  BY <1>1, Places3 DEF ClThing, Functors, ClBuffers
<1>9. /\ C \subseteq T /\ P \subseteq T /\ Q \subseteq T /\ L \subseteq T /\ G \subseteq T
      /\ {"temporary", "device", "context", "queue", "program", "event"} \subseteq T
  BY <1>2, <1>3, <1>4, <1>5, <1>6 DEF ClThing
<1>10. /\ "temporary" \notin Q /\ "event" \notin Q /\ "sums" \notin P \cup ClBuffers
       /\ "program" \notin C /\ Functors \cap (C \cup {"program"}) = {}
       /\ P \cap ClBuffers = {} /\ L \cap Objects(Host) = {}
       /\ Functors \cap (C \cup ClBuffers \cup {"sums"} \cup Objects(Host)) = {}
  BY <1>2, <1>3, <1>4, <1>5, Places3 DEF Functors, ClBuffers
<1>11. /\ "device" \in C /\ "queue" \in C /\ C \subseteq P /\ P \subseteq Q /\ C \subseteq L /\ L \subseteq G
       /\ Objects(Device) \subseteq L /\ {"d_sum", "sums"} \subseteq L /\ {"d_a", "d_b", "d_c"} \subseteq L
       /\ L \subseteq Q
  BY <1>2, <1>3, <1>4, <1>5, <1>6, <1>10, Places3 DEF ClBuffers
<1>12. Device \in [Field -> L] /\ Host \in [Field -> G]
  BY <1>6, <1>11, Places3
<1>13. /\ \A op, xs : Touches(op) \subseteq L /\ xs \subseteq L /\ (\A x \in xs : A[x] = "cl") =>
            /\ Cl(ClLaunch(op, xs), A, L, {}, L, {})
            /\ Cl(Functor(op, xs), A, L, {}, L, {} \cup Touches(op))
       /\ \A x, y, p : x \in L /\ y \in L => Cl(cl_copy(x, y), A, L, p, L, {})
  <2>1. /\ L \subseteq DOMAIN A /\ {"device", "queue"} \subseteq L /\ "event" \in DOMAIN A \ L
        /\ A["queue"] = "cl" /\ A["event"] = "cl"
    BY <1>7, <1>8, <1>9, <1>10, <1>11
  <2>2. QED
    BY <2>1, ClWork
<1>14. \A k \in ArrayKernels : Cl(ClKernel(k), A, L, {}, L, {})
  <2>1. ASSUME NEW k \in ArrayKernels PROVE Cl(ClKernel(k), A, L, {}, L, {})
    <3>1. Arguments(k) \subseteq L /\ \A x \in Arguments(k) : A[x] = "cl"
      BY <1>8, <1>11, Places3 DEF Arguments, ClBuffers
    <3>2. Touches(Loop(k, Device)) \subseteq L
      BY <1>12, LoopTouches
    <3>3. QED
      BY <1>13, <3>1, <3>2 DEF ClKernel
  <2>2. QED
    BY <2>1
<1>15. Cl(ClDot, A, L, {}, L, {})
  <2>1. PICK op : op = Products(Device, "d_sum")
    OBVIOUS
  <2>2. Touches(op) \subseteq L \cup {"d_sum"}
    BY <1>12, <2>1, LoopTouches
  <2>3. Touches(op) \subseteq L
    BY <1>11, <2>2
  <2>4. PICK xs : xs = {"d_a", "d_b", "d_sum"}
    OBVIOUS
  <2>5. xs \subseteq L /\ \A x \in xs : A[x] = "cl"
    BY <1>8, <1>11, <2>4, Places3 DEF ClBuffers
  <2>6. Cl(Functor(op, xs), A, L, {}, L, {} \cup Touches(op))
    BY <1>13, <2>3, <2>5
  <2>7. Cl(cl_copy("d_sum", "sums"), A, L, {} \cup Touches(op), L, {})
    BY <1>11, <1>13
  <2>8. Cl(<<ReturnSum("sums")>>, A, L, {}, L, {})
    BY <1>7, <1>9, <1>11, ClSteps
  <2>9. QED
    BY <2>1, <2>4, <2>6, <2>7, <2>8, ClJoined DEF ClDot
<1>17. Goes(ClDeviceList("once"), A, Once(A, {}), {}, Once(A, {"device"}), {})
  BY <1>7, <1>8, <1>9, ClListed
<1>18. Goes(ClConstruct(b), A, Once(A, {}), {}, Twice(A, L), {})
  <2>1. PICK D : D = {"device"}
    OBVIOUS
  <2>2. /\ D \subseteq DOMAIN A /\ "device" \in D /\ "context" \notin D
        /\ Once(A, D) \in Counts(A) /\ Once(A, D)["device"] = 1
    BY <1>7, <1>9, <2>1, OnceCounts
  <2>3. Goes(<<Check("listed")>>, A, Once(A, D), {}, Once(A, D), {})
    BY <2>2, TakesWork, GoesOne
  <2>4. Goes(Copied({"device"}), A, Once(A, D), {}, Twice(A, D), {})
    <3>1. Takes(Retain({"device"}), A, Once(A, D), {}, Up(Once(A, D), {"device"}), {})
      BY <2>2, TakesRetain
    <3>2. QED
      BY <3>1, GoesOne DEF Copied, Twice
  <2>5. PICK s1 : s1 = ClDeviceList("once") \o <<Check("listed")>> \o Copied({"device"})
    OBVIOUS
  <2>6. Goes(s1, A, Once(A, {}), {}, Twice(A, D), {})
    BY <1>17, <2>1, <2>3, <2>4, <2>5, GoesJoined
  <2>7. /\ Cl(<<List("once")>>, A, D, {}, D, {}) /\ Cl(<<Check("listed")>>, A, D, {}, D, {})
        /\ Cl(<<Select>>, A, D, {}, D, {})
    BY <2>2, ClSteps
  <2>8. Cl(ClDeviceName, A, D, {}, D, {}) /\ Cl(ClDeviceDriver, A, D, {}, D, {})
    BY <2>7, ClJoined, Pairs DEF ClDeviceName, ClDeviceDriver
  <2>9. PICK D2 : D2 = {"device", "context"}
    OBVIOUS
  <2>10. Cl(Assigned("context", Context), A, D, {}, D2, {})
    <3>1. /\ D2 \subseteq DOMAIN A /\ D2 = D \cup {"context"} /\ "context" \notin D
          /\ "temporary" \in DOMAIN A \ D2 /\ A["context"] = A["temporary"]
          /\ D \cup {"temporary"} \subseteq DOMAIN A /\ D \cap {"temporary"} = {}
      BY <1>7, <1>8, <1>9, <2>1, <2>9
    <3>2. \A x \in {"temporary"} : A[x] = "cl"
      BY <1>8
    <3>3. Cl(Context, A, D, {}, D \cup {"temporary"}, {})
      BY <2>2, <3>1, <3>2, ClGets DEF Context
    <3>4. QED
      BY <2>2, <3>1, <3>3, ClAssigned
  <2>11. Cl(Assigned("queue", CommandQueue), A, D2, {}, C, {})
    <3>1. /\ C = D2 \cup {"queue"} /\ "queue" \notin D2 /\ "device" \in D2 /\ D2 \subseteq DOMAIN A
          /\ "temporary" \in DOMAIN A \ C /\ "temporary" \in DOMAIN A \ D2
          /\ A["queue"] = A["temporary"] /\ C \subseteq DOMAIN A
      BY <1>2, <1>7, <1>8, <1>9, <2>9
    <3>2. Cl(CommandQueue, A, D2, {}, D2 \cup {"temporary"}, {})
      BY <1>8, <3>1, ClQueue
    <3>3. QED
      BY <3>1, <3>2, ClAssigned
  <2>12. PICK s2 : s2 = s1 \o ClDeviceName \o ClDeviceDriver \o <<Select>>
                        \o Assigned("context", Context) \o Assigned("queue", CommandQueue)
    OBVIOUS
  <2>13. Goes(s2, A, Once(A, {}), {}, Twice(A, C), {})
    BY <2>6, <2>7, <2>8, <2>10, <2>11, <2>12, GoesJoined DEF Cl
  <2>14. PICK P1 : P1 = C \cup {"program"}
    OBVIOUS
  <2>15. Cl(ClProgram("program"), A, C, {}, P1, {})
    <3>1. /\ P1 \subseteq DOMAIN A /\ C \cap {"program"} = {} /\ "device" \in C
          /\ \A x \in {"program"} : A[x] = "cl"
      BY <1>7, <1>8, <1>9, <1>10, <1>11, <2>14
    <3>2. QED
      BY <2>14, <3>1, ClGets DEF ClProgram
  <2>16. P1 \subseteq DOMAIN A /\ "device" \in P1 /\ P \subseteq DOMAIN A /\ "device" \in P
    BY <1>7, <1>9, <1>11, <2>14
  <2>17. Cl(ClBuild(b), A, P1, {}, P1, {})
    <3>1. /\ Cl(<<Check("fp64")>>, A, P1, {}, P1, {}) /\ Cl(<<Check("build")>>, A, P1, {}, P1, {})
          /\ Cl(<<Check("kernel")>>, A, P1, {}, P1, {})
      BY <2>16, ClSteps
    <3>2. Cl(<<Check("fp64"), Check("build")>>, A, P1, {}, P1, {})
      BY <3>1, ClJoined, Pairs
    <3>3. QED
      BY <3>1, <3>2 DEF ClBuild
  <2>18. Cl(KernelFunctor, A, P1, {}, P, {})
    <3>1. Cl(<<Check("kernel")>>, A, P1, {}, P1, {})
      BY <2>16, ClSteps
    <3>2. /\ P \subseteq DOMAIN A /\ P = P1 \cup Functors /\ P1 \cap Functors = {} /\ "device" \in P1
          /\ \A x \in Functors : A[x] = "cl"
      BY <1>3, <1>8, <1>10, <2>14, <2>16
    <3>3. Cl(<<Acquire(Functors, "cl")>>, A, P1, {}, P, {})
      BY <3>2, ClGets
    <3>4. QED
      BY <3>1, <3>3, ClJoined, Pairs DEF KernelFunctor
  <2>19. Cl(<<Check("memory")>>, A, P, {}, P, {})
    BY <2>16, ClSteps
  <2>20. PICK s3 : s3 = s2 \o ClProgram("program") \o ClBuild(b) \o KernelFunctor \o <<Check("memory")>>
    OBVIOUS
  <2>21. Goes(s3, A, Once(A, {}), {}, Twice(A, P), {})
    BY <2>13, <2>15, <2>17, <2>18, <2>19, <2>20, GoesJoined DEF Cl
  <2>22. ASSUME NEW x \in ClBuffers, NEW M, P \subseteq M, M \subseteq P \cup ClBuffers, x \notin M
         PROVE  Cl(Assigned(x, Buffer), A, M, {}, M \cup {x}, {})
    <3>1. PICK M2 : M2 = M \cup {x}
      OBVIOUS
    <3>2. /\ M2 \subseteq DOMAIN A /\ M2 = M \cup {x} /\ "device" \in M
          /\ "temporary" \in DOMAIN A \ M2 /\ A[x] = A["temporary"]
          /\ M \cup {"temporary"} \subseteq DOMAIN A /\ M \cap {"temporary"} = {}
          /\ \A y \in {"temporary"} : A[y] = "cl"
      BY <1>4, <1>7, <1>8, <1>9, <1>10, <1>11, <2>22, <3>1
    <3>3. Cl(Buffer, A, M, {}, M \cup {"temporary"}, {})
      BY <3>2, ClGets DEF Buffer
    <3>4. Cl(Assigned(x, Buffer), A, M, {}, M2, {})
      BY <2>22, <3>2, <3>3, ClAssigned
    <3>5. QED
      BY <3>1, <3>4
  <2>23. PICK Ma, Mb, Mc, Md : /\ Ma = P \cup {"d_a"} /\ Mb = Ma \cup {"d_b"}
                               /\ Mc = Mb \cup {"d_c"} /\ Md = Mc \cup {"d_sum"}
    OBVIOUS
  <2>24. /\ {"d_a", "d_b", "d_c", "d_sum"} = ClBuffers
         /\ "d_a" \notin P /\ "d_b" \notin Ma /\ "d_c" \notin Mb /\ "d_sum" \notin Mc
         /\ Ma \subseteq P \cup ClBuffers /\ Mb \subseteq P \cup ClBuffers /\ Mc \subseteq P \cup ClBuffers
         /\ P \subseteq Ma /\ P \subseteq Mb /\ P \subseteq Mc /\ Md = P \cup ClBuffers
    BY <1>10, <2>23, Places3 DEF ClBuffers
  <2>25. /\ Cl(Assigned("d_a", Buffer), A, P, {}, Ma, {}) /\ Cl(Assigned("d_b", Buffer), A, Ma, {}, Mb, {})
         /\ Cl(Assigned("d_c", Buffer), A, Mb, {}, Mc, {}) /\ Cl(Assigned("d_sum", Buffer), A, Mc, {}, Md, {})
    BY <2>22, <2>23, <2>24
  <2>26. PICK s4 : s4 = s3 \o Assigned("d_a", Buffer) \o Assigned("d_b", Buffer)
                        \o Assigned("d_c", Buffer) \o Assigned("d_sum", Buffer)
    OBVIOUS
  <2>27. Goes(s4, A, Once(A, {}), {}, Twice(A, Md), {})
    BY <2>21, <2>25, <2>26, GoesJoined DEF Cl
  <2>28. Cl(<<Acquire({"sums"}, "vector")>>, A, Md, {}, Q, {})
    <3>1. /\ Q \subseteq DOMAIN A /\ Q = Md \cup {"sums"} /\ Md \cap {"sums"} = {} /\ "device" \in Md
          /\ \A x \in {"sums"} : A[x] = "vector"
      BY <1>4, <1>7, <1>9, <1>10, <1>11, <2>24
    <3>2. QED
      BY <3>1, ClGets
  <2>29. Cl(ClInit, A, Q, {}, Q, {})
    <3>1. /\ Q \subseteq DOMAIN A /\ {"device", "queue"} \subseteq Q /\ "event" \in DOMAIN A \ Q
          /\ A["queue"] = "cl" /\ A["event"] = "cl"
      BY <1>7, <1>8, <1>9, <1>10, <1>11
    <3>2. Touches(StartLoop(Device)) \subseteq L
      BY <1>12, LoopTouches
    <3>3. PICK xs : xs = Objects(Device)
      OBVIOUS
    <3>4. Touches(StartLoop(Device)) \subseteq Q /\ xs \subseteq Q /\ \A x \in xs : A[x] = "cl"
      BY <1>8, <1>11, <3>2, <3>3 DEF ClBuffers
    <3>5. Cl(ClLaunch(StartLoop(Device), xs), A, Q, {}, Q, {})
      BY <3>1, <3>4, ClWork
    <3>6. QED
      BY <3>3, <3>5 DEF ClInit
  <2>30. Cl(Dropped({"program"}), A, Q, {}, L, {})
    <3>1. /\ Q \subseteq DOMAIN A /\ {"program"} \subseteq Q /\ "device" \in L
          /\ \A x \in {"program"} : A[x] = "cl"
      BY <1>3, <1>4, <1>7, <1>8, <1>9, <1>11
    <3>2. QED
      BY <1>5, <3>1, ClDrops DEF Dropped
  <2>31. ClConstruct(b) = s4 \o <<Acquire({"sums"}, "vector")>> \o ClInit \o Dropped({"program"})
    BY <2>5, <2>12, <2>20, <2>26 DEF ClConstruct
  <2>32. QED
    BY <2>27, <2>28, <2>29, <2>30, <2>31, GoesJoined DEF Cl
<1>19. Cl(ClGetArrays, A, L, {}, G, {}) /\ Hands(ClGetArrays, G) /\ IsSeq(ClGetArrays)
  <2>1. Cl(<<Acquire(Objects(Host), "vector")>>, A, L, {}, G, {})
    <3>1. G \subseteq DOMAIN A /\ L \cap Objects(Host) = {} /\ "device" \in L /\ \A x \in Objects(Host) : A[x] = "vector"
      BY <1>7, <1>9, <1>10, <1>11
    <3>2. QED
      BY <1>6, <3>1, ClGets
  <2>2. G \subseteq DOMAIN A /\ {"device", "queue"} \subseteq G /\ "event" \in DOMAIN A \ G
    BY <1>6, <1>7, <1>9, <1>10, <1>11, Places3
  <2>3. Cl(<<HandOut(Host)>>, A, G, {}, G, {})
    BY <2>2, ClSteps
  <2>4. /\ {"d_a", "d_b", "d_c"} \subseteq G /\ {"h_a", "h_b", "h_c"} \subseteq G
        /\ A["queue"] = "cl" /\ A["event"] = "cl"
    BY <1>6, <1>8, <1>11, Places3
  <2>5. \A x, y, p : x \in G /\ y \in G => Cl(cl_copy(x, y), A, G, p, G, {})
    BY <2>2, <2>4, ClWork
  <2>6. /\ Cl(cl_copy("d_a", "h_a"), A, G, {}, G, {}) /\ Cl(cl_copy("d_b", "h_b"), A, G, {}, G, {})
        /\ Cl(cl_copy("d_c", "h_c"), A, G, {}, G, {})
    BY <2>4, <2>5
  <2>7. PICK s1 : s1 = <<Acquire(Objects(Host), "vector"), HandOut(Host)>>
    OBVIOUS
  <2>8. Cl(s1, A, L, {}, G, {})
    BY <2>1, <2>3, <2>7, ClJoined, Pairs
  <2>9. Hands(s1, G) /\ IsSeq(s1)
    BY <1>12, <2>7, HandsTuples, GivesSteps, Tuples
  <2>10. PICK s2 : s2 = s1 \o cl_copy("d_a", "h_a")
    OBVIOUS
  <2>11. PICK s3 : s3 = s2 \o cl_copy("d_b", "h_b")
    OBVIOUS
  <2>12. ClGetArrays = s3 \o cl_copy("d_c", "h_c")
    BY <2>7, <2>10, <2>11 DEF ClGetArrays
  <2>13. Cl(s2, A, L, {}, G, {})
    BY <2>6, <2>8, <2>10, ClJoined
  <2>14. Cl(s3, A, L, {}, G, {})
    BY <2>6, <2>11, <2>13, ClJoined
  <2>15. Hands(s2, G) /\ IsSeq(s2)
    BY <2>9, <2>10, ClCopyHands, HandsJoined, Joined
  <2>16. Hands(s3, G) /\ IsSeq(s3)
    BY <2>11, <2>15, ClCopyHands, HandsJoined, Joined
  <2>17. Hands(ClGetArrays, G) /\ IsSeq(ClGetArrays)
    BY <2>12, <2>16, ClCopyHands, HandsJoined, Joined
  <2>18. Cl(ClGetArrays, A, L, {}, G, {})
    BY <2>6, <2>12, <2>14, ClJoined
  <2>19. QED
    BY <2>17, <2>18
<1>20. Goes(ClDestroy, A, Twice(A, G), {}, Once(A, {}), {})
  <2>1. PICK G1 : G1 = G \ Functors
    OBVIOUS
  <2>2. /\ Functors \subseteq G /\ "device" \in G1 /\ G1 \subseteq T
        /\ G1 = C \cup ClBuffers \cup {"sums"} \cup Objects(Host)
    BY <1>3, <1>4, <1>5, <1>6, <1>9, <1>10, <1>11, <2>1, Places3 DEF Functors
  <2>3. Cl(Dropped(Functors), A, G, {}, G1, {})
    BY <1>7, <1>8, <1>9, <2>1, <2>2, ClDrops DEF Dropped
  <2>4. Cl(<<List("clear")>>, A, G1, {}, G1, {})
    BY <1>7, <2>2, ClSteps
  <2>5. Goes(Dropped({"device"}), A, Twice(A, G1), {}, Once(A, G1), {})
    <3>1. PICK n : n = Twice(A, G1)
      OBVIOUS
    <3>2. n \in Counts(A) /\ Down(n, {"device"}) = Once(A, G1) /\ n["device"] > 0 /\ n["device"] > 1
      BY <1>7, <2>2, <3>1, TwiceCounts
    <3>3. Takes(Release({"device"}, "cl"), A, n, {}, Down(n, {"device"}), {})
      BY <1>7, <1>8, <1>9, <3>2, TakesRelease
    <3>4. QED
      BY <3>1, <3>2, <3>3, GoesOne DEF Dropped
  <2>6. PICK G2, G3 : G2 = C \cup ClBuffers /\ G3 = {"device", "context"}
    OBVIOUS
  <2>7. /\ G2 \subseteq T /\ G3 \subseteq T /\ G2 = G1 \ (Objects(Host) \cup {"sums"})
        /\ Objects(Host) \cup {"sums"} \subseteq G1
        /\ C = G2 \ ClBuffers /\ ClBuffers \subseteq G2 /\ G3 = C \ {"queue"} /\ {"queue"} \subseteq C
    BY <1>2, <1>9, <2>2, <2>6, Places3 DEF ClBuffers
  <2>8. On(<<Release(Objects(Host) \cup {"sums"}, "vector")>>, A, G1, {}, G2, {})
    BY <1>7, <2>2, <2>7, Drops
  <2>9. On(Dropped(ClBuffers), A, G2, {}, C, {})
    BY <1>7, <1>8, <2>7, Drops DEF Dropped
  <2>10. On(Dropped({"queue"}), A, C, {}, G3, {})
    BY <1>7, <1>8, <1>9, <2>7, Drops DEF Dropped
  <2>11. On(Dropped({"context"}), A, G3, {}, {"device"}, {})
    BY <1>7, <1>8, <2>6, <2>7, Drops DEF Dropped
  <2>12. On(Dropped({"device"}), A, {"device"}, {}, {}, {})
    BY <1>7, <1>8, <1>9, Drops DEF Dropped
  <2>13. PICK s1 : s1 = Dropped(Functors) \o <<List("clear")>> \o Dropped({"device"})
                        \o <<Release(Objects(Host) \cup {"sums"}, "vector")>>
    OBVIOUS
  <2>14. Goes(s1, A, Twice(A, G), {}, Once(A, G2), {})
    BY <2>3, <2>4, <2>5, <2>8, <2>13, GoesJoined DEF Cl, On
  <2>15. ClDestroy = s1 \o Dropped(ClBuffers) \o Dropped({"queue"}) \o Dropped({"context"}) \o Dropped({"device"})
    BY <2>13 DEF ClDestroy
  <2>16. QED
    BY <2>9, <2>10, <2>11, <2>12, <2>14, <2>15, GoesJoined DEF On
<1>21. Goes(ClListDevices, A, Once(A, {}), {}, Once(A, {"device"}), {})
  <2>1. Goes(ClDeviceList("append"), A, Once(A, {}), {}, Once(A, {"device"}), {})
    BY <1>7, <1>8, <1>9, ClListed
  <2>2. Goes(<<List("once")>>, A, Once(A, {"device"}), {}, Once(A, {"device"}), {})
    BY OnceCounts, TakesWork, GoesOne
  <2>3. QED
    BY <2>1, <2>2, GoesJoined DEF ClListDevices
<1>22. Hands(ClGetArrays, {x \in DOMAIN A : Twice(A, G)[x] > 0})
  <2>1. \A x \in G : x \in {y \in DOMAIN A : Twice(A, G)[y] > 0}
    BY <1>7, <1>9, <1>11, TwiceCounts
  <2>2. QED
    BY <1>19, <2>1 DEF Hands, Gives
<1>23. \A x \in T : ~(Once(A, {})[x] > 0)
  BY <1>7, OnceCounts
<1>24. Keeps(ClStream(b), A, Once(A, {"device"}), Twice(A, L), Twice(A, G), Once(A, {}))
  BY <1>14, <1>15, <1>18, <1>19, <1>20, <1>21, <1>22 DEF Keeps, ClStream, Cl
<1>25. QED
  BY <1>7, <1>23, <1>24 DEF Owns
----------------------------------------------------------------------------
(* All of them                                                             *)

\* The objects the methods of a build name.
ObjectsOf(b) ==
  IF b \in ClBuilds THEN ClThing
  ELSE Objects(Here) \cup Objects(Device) \cup Objects(Host)
       \cup {"sum", "sums", "d_sum", "d_dot", "h_sum", "partial", "h_partial",
             "stream", "queue", "cfg", "ctx", "d"}

\* What no destructor frees: TBB's arrays and Kokkos's views.
LeftBehind(b) == CASE b = "TBB"    -> Objects(Here)
                   [] b = "Kokkos" -> Objects(Device) \cup Objects(Host)
                   [] OTHER        -> {}

\* The objects of a session are those of its backends, and it expects what
\* they leave behind. Two builds free what is not theirs to free: the page-fault
\* build of HIP frees with hipFree what it got from malloc, and that of SYCL
\* 2020 frees its arrays and then frees them again as memory of the queue.
CppObjects ==
  \A b \in Backends :
    b \notin {"HIP-pagefault", "SYCL2020-pagefault"} /\ ObjectsOf(b) \subseteq Thing(b) /\ Kept(b) = LeftBehind(b)

\* The loop backends have one allocator for each object.
LEMMA NeedsOfLoops ==
  ASSUME NEW b \in LoopBuilds, NEW T, ObjectsOf(b) \subseteq T
  PROVE  Owns(StreamOf(b), T, LeftBehind(b))
<1>1. b \notin ClBuilds
  BY DEF LoopBuilds, ClBuilds, OmpBuilds, RajaBuilds, TbbBuilds, StdBuilds, FutharkBuilds
<1>2. /\ Objects(Here) \cup Objects(Device) \cup {"sum"} \subseteq T
      /\ Objects(Device) \cup Objects(Host) \cup {"sum"} \subseteq T
      /\ Objects(Device) \cup {"sum"} \subseteq T
      /\ Objects(Here) \cup {"sum"} \subseteq T
      /\ Objects(Here) \cup Objects(Device) \cup Objects(Host) \cup {"sum", "cfg", "ctx", "d"} \subseteq T
  BY <1>1 DEF ObjectsOf
<1>3. CASE b \in OmpBuilds
  <2>1. LeftBehind(b) = {} /\ StreamOf(b) = OmpStream(b)
    BY <1>3, Streams DEF LeftBehind, OmpBuilds
  <2>2. QED
    BY <1>2, <2>1, OmpOwns
<1>4. CASE b \in RajaBuilds
  <2>1. LeftBehind(b) = {} /\ StreamOf(b) = RajaStream(b)
    BY <1>4, Streams DEF LeftBehind, RajaBuilds
  <2>2. QED
    BY <1>2, <2>1, RajaOwns
<1>5. CASE b \in TbbBuilds
  <2>1. LeftBehind(b) = (IF b = "TBB" THEN Objects(Here) ELSE {}) /\ StreamOf(b) = TbbStream(b)
    BY <1>5, Streams DEF LeftBehind, TbbBuilds
  <2>2. QED
    BY <1>2, <2>1, TbbOwns
<1>6. CASE b \in StdBuilds
  <2>1. LeftBehind(b) = {} /\ StreamOf(b) = StdStream(b)
    BY <1>6, Streams DEF LeftBehind, StdBuilds
  <2>2. QED
    BY <1>2, <2>1, StdOwns
<1>7. CASE b \in FutharkBuilds
  <2>1. LeftBehind(b) = {} /\ StreamOf(b) = FutharkStream(b)
    BY <1>7, Streams DEF LeftBehind, FutharkBuilds
  <2>2. QED
    BY <1>2, <2>1, FutharkOwns
<1>8. CASE b = "ACC"
  <2>1. LeftBehind(b) = {} /\ StreamOf(b) = AccStream
    BY <1>8, Streams DEF LeftBehind
  <2>2. QED
    BY <1>2, <2>1, AccOwns
<1>9. CASE b = "Kokkos"
  <2>1. LeftBehind(b) = Objects(Device) \cup Objects(Host) /\ StreamOf(b) = KokkosStream
    BY <1>9, Streams DEF LeftBehind
  <2>2. QED
    BY <1>2, <2>1, KokkosOwns
<1>10. QED
  BY <1>3, <1>4, <1>5, <1>6, <1>7, <1>8, <1>9 DEF LoopBuilds

\* So have those with a queue.
LEMMA NeedsOfQueues ==
  ASSUME NEW b \in QueueBuilds \cup ClBuilds,
         b \notin {"HIP-pagefault", "SYCL2020-pagefault"}, NEW T, ObjectsOf(b) \subseteq T
  PROVE  Owns(StreamOf(b), T, LeftBehind(b))
<1>1. LeftBehind(b) = {}
  BY DEF LeftBehind, QueueBuilds, ClBuilds, CudaBuilds, HipBuilds, ThrustBuilds, SyclBuilds,
         UsmBuilds, AiBuilds
<1>2. CASE b \in ClBuilds
  <2>1. ClThing \subseteq T /\ StreamOf(b) = ClStream(b)
    BY <1>2, Streams DEF ObjectsOf
  <2>2. QED
    BY <1>1, <2>1, ClOwns
<1>3. ASSUME b \notin ClBuilds
      PROVE  /\ Objects(Device) \cup Objects(Host) \cup {"sums", "stream"} \subseteq T
             /\ Objects(Device) \cup Objects(Host) \cup {"sums"} \subseteq T
             /\ Objects(Device) \cup Objects(Host) \cup {"sum"} \subseteq T
             /\ SyclBuffers \cup {"queue"} \subseteq T
             /\ Usm \cup {"queue"} \subseteq T
             /\ AiMemory \cup Objects(Host) \cup {"queue", "h_sum", "sum"} \subseteq T
             /\ Objects(Device) \cup Objects(Host) \cup {"partial", "h_partial"} \subseteq T
  BY <1>3 DEF ObjectsOf, SyclBuffers, Usm, AiMemory
<1>4. CASE b \in CudaBuilds
  <2>1. b \notin ClBuilds /\ StreamOf(b) = CudaStream(b)
    BY <1>4, Streams DEF CudaBuilds, ClBuilds
  <2>2. QED
    BY <1>1, <1>3, <2>1, CudaOwns
<1>5. CASE b \in HipBuilds
  <2>1. b \notin ClBuilds /\ StreamOf(b) = HipStream(b)
    BY <1>5, Streams DEF HipBuilds, ClBuilds
  <2>2. QED
    BY <1>1, <1>3, <2>1, HipOwns
<1>6. CASE b \in ThrustBuilds
  <2>1. b \notin ClBuilds /\ StreamOf(b) = ThrustStream(b)
    BY <1>6, Streams DEF ThrustBuilds, ClBuilds
  <2>2. QED
    BY <1>1, <1>3, <2>1, ThrustOwns
<1>7. CASE b = "SYCL"
  <2>1. b \notin ClBuilds /\ StreamOf(b) = SyclStream
    BY <1>7, Streams DEF ClBuilds
  <2>2. QED
    BY <1>1, <1>3, <2>1, SyclOwns
<1>8. CASE b \in UsmBuilds
  <2>1. b \notin ClBuilds /\ StreamOf(b) = UsmStream(b)
    BY <1>8, Streams DEF UsmBuilds, ClBuilds
  <2>2. QED
    BY <1>1, <1>3, <2>1, UsmOwns
<1>9. CASE b \in AiBuilds
  <2>1. b \notin ClBuilds /\ StreamOf(b) = AiStream(b)
    BY <1>9, Streams DEF AiBuilds, ClBuilds
  <2>2. QED
    BY <1>1, <1>3, <2>1, AiOwns
<1>10. CASE b = "HC"
  <2>1. b \notin ClBuilds /\ StreamOf(b) = HcStream
    BY <1>10, Streams DEF ClBuilds
  <2>2. QED
    BY <1>1, <1>3, <2>1, HcOwns
<1>11. QED
  BY <1>2, <1>4, <1>5, <1>6, <1>7, <1>8, <1>9, <1>10 DEF QueueBuilds, SyclBuilds

\* A ledger is a book, empty where there are no references.
LEMMA LedgerBook ==
  ASSUME NEW A, NEW T, DOMAIN A = T, \A x \in T : A[x] \in Allocator, NEW n \in Counts(A)
  PROVE  /\ Ledger(A, n) \in Book(T)
         /\ \A x \in T : Ledger(A, n)[x].refs = n[x]
BY DEF Ledger, Book, Counts

LEMMA LedgerEmpty ==
  ASSUME NEW A, NEW x \in DOMAIN A
  PROVE  Ledger(A, Once(A, {}))[x] = Nobody
BY DEF Ledger, Once, Nobody

\* What Accounts asks for, by phase.
LEMMA OwnsAccounts ==
  ASSUME NEW b \in Backends, NEW stream, Owns(stream, Thing(b), Kept(b)),
         \A c \in Call : Program(b, c) = Method(stream, c)
  PROVE  \E st : Accounts(b, st)
<1>1. PICK A, listed, ready, left, gone :
        /\ DOMAIN A = Thing(b) /\ \A x \in Thing(b) : A[x] \in Allocator
        /\ Keeps(stream, A, listed, ready, left, gone)
        /\ \A x \in Thing(b) : gone[x] > 0 <=> x \in Kept(b)
  BY DEF Owns
<1>2. PICK none : none = Once(A, {})
  OBVIOUS
<1>3. /\ \E p : Goes(stream.list, A, none, {}, listed, p)
      /\ \E p : Goes(stream.construct, A, none, {}, ready, p)
      /\ \A k \in ArrayKernels : \E p : Goes(stream.kernel[k], A, ready, {}, ready, p)
      /\ \E p : Goes(stream.Dot, A, ready, {}, ready, p)
      /\ \E p : Goes(stream.get_arrays, A, ready, {}, left, p)
      /\ \E p : Goes(stream.destroy, A, left, {}, gone, p)
      /\ Hands(stream.get_arrays, {x \in DOMAIN A : left[x] > 0})
  BY <1>1, <1>2 DEF Keeps
<1>4. none \in Counts(A) /\ listed \in Counts(A) /\ ready \in Counts(A) /\ left \in Counts(A)
      /\ gone \in Counts(A)
  BY <1>3 DEF Goes
<1>5. PICK st : st = [h \in {"start", "listed", "ready", "given", "gone"} |->
                       CASE h = "start"  -> Ledger(A, none)
                         [] h = "listed" -> Ledger(A, listed)
                         [] h = "ready"  -> Ledger(A, ready)
                         [] h = "given"  -> Ledger(A, left)
                         [] h = "gone"   -> Ledger(A, gone)]
  OBVIOUS
<1>6. /\ st["start"] = Ledger(A, none) /\ st["listed"] = Ledger(A, listed)
      /\ st["ready"] = Ledger(A, ready) /\ st["given"] = Ledger(A, left)
      /\ st["gone"] = Ledger(A, gone)
  BY <1>5
<1>7. \A x \in Thing(b) : st["start"][x] = Nobody
  BY <1>1, <1>2, <1>6, LedgerEmpty
<1>8. \A h \in {"start", "listed", "ready", "given", "gone"} : st[h] \in Book(Thing(b))
  BY <1>1, <1>4, <1>6, LedgerBook
<1>9. ASSUME NEW c \in Callable(b) \cup {"list", "construct", "get_arrays", "destroy"}
      PROVE  \E p : Leads(Program(b, c), st[PhaseBefore(c)], {}, st[PhaseAfter(c)], p)
  <2>1. c \in Call /\ (c \in ArrayKernels \/ c \in {"Dot", "list", "construct", "get_arrays", "destroy"})
    BY <1>9, ProgramsTyped DEF Call, Kernel
  <2>2. Program(b, c) = Method(stream, c)
    BY <2>1
  <2>3. CASE c \in ArrayKernels
    <3>1. Method(stream, c) = stream.kernel[c] /\ PhaseBefore(c) = "ready" /\ PhaseAfter(c) = "ready"
      BY <2>3 DEF Method, PhaseBefore, PhaseAfter, ArrayKernels
    <3>2. QED
      BY <1>3, <1>6, <2>2, <2>3, <3>1 DEF Goes
  <2>4. CASE c = "Dot"
    <3>1. Method(stream, c) = stream.Dot /\ PhaseBefore(c) = "ready" /\ PhaseAfter(c) = "ready"
      BY <2>4 DEF Method, PhaseBefore, PhaseAfter, ArrayKernels
    <3>2. QED
      BY <1>3, <1>6, <2>2, <3>1 DEF Goes
  <2>5. CASE c = "list"
    <3>1. Method(stream, c) = stream.list /\ PhaseBefore(c) = "start" /\ PhaseAfter(c) = "listed"
      BY <2>5 DEF Method, PhaseBefore, PhaseAfter, ArrayKernels
    <3>2. QED
      BY <1>3, <1>6, <2>2, <3>1 DEF Goes
  <2>6. CASE c = "construct"
    <3>1. Method(stream, c) = stream.construct /\ PhaseBefore(c) = "start" /\ PhaseAfter(c) = "ready"
      BY <2>6 DEF Method, PhaseBefore, PhaseAfter, ArrayKernels
    <3>2. QED
      BY <1>3, <1>6, <2>2, <3>1 DEF Goes
  <2>7. CASE c = "get_arrays"
    <3>1. Method(stream, c) = stream.get_arrays /\ PhaseBefore(c) = "ready" /\ PhaseAfter(c) = "given"
      BY <2>7 DEF Method, PhaseBefore, PhaseAfter, ArrayKernels
    <3>2. QED
      BY <1>3, <1>6, <2>2, <3>1 DEF Goes
  <2>8. CASE c = "destroy"
    <3>1. Method(stream, c) = stream.destroy /\ PhaseBefore(c) = "given" /\ PhaseAfter(c) = "gone"
      BY <2>8 DEF Method, PhaseBefore, PhaseAfter, ArrayKernels
    <3>2. QED
      BY <1>3, <1>6, <2>2, <3>1 DEF Goes
  <2>9. QED
    BY <2>1, <2>3, <2>4, <2>5, <2>6, <2>7, <2>8
<1>10. ASSUME NEW i \in DOMAIN Program(b, "get_arrays"), Program(b, "get_arrays")[i].do = "arrays",
              NEW f \in Field
       PROVE  st["given"][Program(b, "get_arrays")[i].from[f]].refs > 0
  <2>1. Program(b, "get_arrays") = stream.get_arrays
    BY DEF Method, Call, ArrayKernels
  <2>2. Gives(stream.get_arrays[i], {x \in DOMAIN A : left[x] > 0})
    BY <1>3, <1>10, <2>1 DEF Hands
  <2>3. PICK x : x = Program(b, "get_arrays")[i].from[f]
    OBVIOUS
  <2>4. x \in Thing(b) /\ left[x] > 0
    BY <1>1, <1>10, <2>1, <2>2, <2>3 DEF Gives
  <2>5. Ledger(A, left)[x].refs = left[x]
    BY <1>1, <1>4, <2>4, LedgerBook
  <2>6. QED
    BY <1>6, <2>3, <2>4, <2>5
<1>11. \A x \in Thing(b) : st["gone"][x].refs > 0 <=> x \in Kept(b)
  BY <1>1, <1>4, <1>6, LedgerBook
<1>12. QED
  BY <1>7, <1>8, <1>9, <1>10, <1>11 DEF Accounts

\* Every C++ backend keeps a book.
LEMMA CppOwns == ASSUME CppPrograms, CppObjects PROVE ProgramsOwn
<1>1. SUFFICES ASSUME NEW b \in Backends PROVE \E st : Accounts(b, st)
  BY DEF ProgramsOwn
<1>2. b \in AllBuilds /\ b \notin {"HIP-pagefault", "SYCL2020-pagefault"} /\ ObjectsOf(b) \subseteq Thing(b)
      /\ Kept(b) = LeftBehind(b)
  BY DEF CppPrograms, CppObjects
<1>3. Owns(StreamOf(b), Thing(b), Kept(b))
  BY <1>2, NeedsOfLoops, NeedsOfQueues DEF AllBuilds
<1>4. \A c \in Call : Program(b, c) = Method(StreamOf(b), c)
  BY DEF CppPrograms, ProgramOf
<1>5. QED
  BY <1>3, <1>4, OwnsAccounts

\* No C++ backend but the page-fault builds of HIP and of SYCL 2020 reads,
\* writes or hands out memory that it does not hold, in any order in which the
\* driver can call it.
THEOREM CppBackendsUseLive ==
  ASSUME CppPrograms, CppObjects
  PROVE  Spec => []UsesOnlyLive
BY CppDrains, CppOwns, SessionsUseLive

\* No C++ backend but the page-fault builds of HIP and of SYCL 2020, which do,
\* frees memory twice, under pending work, or with another call than the one
\* that goes with its allocation, and only TBB and Kokkos leave memory to the
\* end of the process.
THEOREM CppBackendsFreeOwn ==
  ASSUME CppPrograms, CppObjects
  PROVE  Spec => []FreesItsOwn
BY CppDrains, CppOwns, SessionsFreeOwn

\* What the drivers see of a C++ backend is what Stream.h promises: init and
\* the kernels have done their work, on the arrays the driver asked for, when
\* they return, dot returns the sum, and get_arrays hands out the arrays as
\* they are. On any machine and in any order of calls, with every build but
\* HIP's and SYCL 2020's for page faults, Futhark's for float and SYCL 2020's
\* with AdaptiveCpp, and with DATA17 where addition is associative.
THEOREM CppBackendsImplement ==
  ASSUME CppPrograms, CppObjects, CppArrays
  PROVE  Spec => Implements
BY CppDrains, CppOwns, CppComputes, SessionsImplement
=============================================================================
