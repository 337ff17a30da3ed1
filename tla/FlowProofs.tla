----------------------------- MODULE FlowProofs ------------------------------
(***************************************************************************)
(* Proofs about FlowRunner, for every flow: any steps, nested to any       *)
(* depth, with any retries and limits of loops; and about the page that    *)
(* edits and runs flows, for any drafts, runs and modals.                  *)
(***************************************************************************)
EXTENDS FlowRunner, FlowPage, FiniteSetTheorems, TLAPS

-----------------------------------------------------------------------------
(* The parts of the invariant, as operators of a stack and of results, so  *)
(* that an action that does two things can be taken apart.                 *)

\* Frames are numbered in the order of the calls, from 1 for the flow's own
\* steps.  A loop has the number of the frame it is a step of, which is right
\* below it.
Numbered(st, n) ==
  /\ st # <<>> /\ st[1].id = 1 /\ st[1].loop = NoStep
  /\ \A k \in 1..Len(st) : /\ st[k].id \in 1..n
                           /\ st[k].loop # NoStep => st[k].steps = <<>>
  /\ \A j, k \in 1..Len(st) :
       j < k => IF k = j + 1 /\ st[k].loop # NoStep THEN st[j].id = st[k].id
                ELSE st[j].id < st[k].id

\* A failure that is not tolerated ended the frame it is in, for good.
Ended(st, rs, n) ==
  /\ \A i \in 1..Len(rs) : rs[i].frame \in 1..n
  /\ \A i \in 1..Len(rs) : \A k \in 1..Len(st) :
       Fatal(rs[i]) /\ st[k].id = rs[i].frame => st[k].steps = <<>> /\ st[k].loop = NoStep
  /\ \A i, j \in 1..Len(rs) : i < j /\ Fatal(rs[i]) => rs[j].frame # rs[i].frame

\* How many of the first i results are of the flow's own steps.
Count(rs, i) == Cardinality({j \in 1..i : rs[j].frame = 1})

\* A loop among the flow's own steps is under way, and its result is owed.
Owed(st) == IF Len(st) > 1 /\ st[2].loop # NoStep THEN 1 ELSE 0

\* The last of the flow's own steps that was reported is the last to run.
CutShort(rs) ==
  \E i \in 1..Len(rs) :
    rs[i].frame = 1 /\ Count(rs, i) = Count(rs, Len(rs)) /\ Fatal(rs[i])

\* What is reported of the flow's own steps, what is owed and what is left to
\* do make up the flow, unless it was cut short.
Accounted(st, rs) ==
  LET at == Count(rs, Len(rs)) + Owed(st)
  IN  /\ at + Len(st[1].steps) <= Len(Main)
      /\ at + Len(st[1].steps) = Len(Main) \/ CutShort(rs)
      /\ \A i \in 1..Len(st[1].steps) : st[1].steps[i] = Main[at + i]
      /\ Owed(st) = 1 => st[2].loop = Main[at]
      /\ \A i \in 1..Len(rs) : rs[i].frame = 1 => rs[i].step = Main[Count(rs, i)]

Report(st, rs, n) == Numbered(st, n) /\ Ended(st, rs, n) /\ Accounted(st, rs)

-----------------------------------------------------------------------------
(* Sequences and counting.                                                 *)

\* The stack with its last frame replaced or dropped.
LEMMA StackFacts ==
  ASSUME NEW st \in Seq(Frame), st # <<>>, NEW f \in Frame
  PROVE  LET n == Len(st)
             below == SubSeq(st, 1, n - 1)
             st2 == Append(below, f)
         IN  /\ n \in Nat /\ n >= 1 /\ \A i \in 1..n : st[i] \in Frame
             /\ below \in Seq(Frame) /\ Len(below) = n - 1
             /\ \A i \in 1..(n - 1) : below[i] = st[i]
             /\ st2 \in Seq(Frame) /\ Len(st2) = n /\ st2[n] = f
             /\ \A i \in 1..(n - 1) : st2[i] = st[i]
<1> DEFINE n == Len(st)
           below == SubSeq(st, 1, n - 1)
<1>1. n \in Nat /\ n >= 1 /\ \A i \in 1..n : st[i] \in Frame
  OBVIOUS
<1>2. below = [i \in 1..(n - 1) |-> st[i]]
  BY <1>1
<1>3. \A i \in 1..(n - 1) : st[i] \in Frame
  BY <1>1
<1> HIDE DEF below, n
<1>4. /\ below \in Seq(Frame) /\ Len(below) = n - 1
      /\ \A i \in 1..(n - 1) : below[i] = st[i]
  <2>1. PICK k \in Nat : k = n - 1
    BY <1>1
  <2>2. below = [i \in 1..k |-> st[i]]
    BY <1>2, <2>1
  <2>3. below \in Seq(Frame) /\ Len(below) = k
    BY <1>3, <2>1, <2>2
  <2> QED
    BY <2>1, <2>2, <2>3
<1>5. n - 1 + 1 = n /\ n - 1 \in Nat
  BY <1>1
<1>6. /\ Append(below, f) \in Seq(Frame) /\ Len(Append(below, f)) = n /\ Append(below, f)[n] = f
      /\ \A i \in 1..(n - 1) : Append(below, f)[i] = below[i]
  BY <1>4, <1>5
<1> QED
  BY <1>1, <1>4, <1>6 DEF below, n

\* The first step of a frame and the others.
LEMMA StepsFacts ==
  ASSUME NEW s \in Seq(StepIds), s # <<>>
  PROVE  /\ Head(s) \in StepIds /\ Head(s) = s[1]
         /\ Tail(s) \in Seq(StepIds) /\ Len(s) \in Nat /\ Len(s) >= 1
         /\ Len(Tail(s)) = Len(s) - 1
         /\ \A i \in 1..(Len(s) - 1) : Tail(s)[i] = s[i + 1]
OBVIOUS

LEMMA CountType ==
  ASSUME NEW rs \in Seq(Result), NEW i \in Nat
  PROVE  Count(rs, i) \in Nat
<1>1. IsFiniteSet(1..i)
  BY FS_Interval
<1>2. IsFiniteSet({j \in 1..i : rs[j].frame = 1})
  BY <1>1, FS_Subset
<1> QED
  BY <1>2, FS_CardinalityType DEF Count

\* One result more counts one more if it is of the flow's own steps.
LEMMA CountFacts ==
  ASSUME NEW rs \in Seq(Result), NEW r \in Result
  PROVE  LET n == Len(rs)
             rs2 == Append(rs, r)
         IN  /\ \A i \in 0..n : Count(rs, i) \in Nat /\ Count(rs2, i) = Count(rs, i)
             /\ Count(rs2, n + 1) = Count(rs, n) + (IF r.frame = 1 THEN 1 ELSE 0)
<1> DEFINE n == Len(rs)
           rs2 == Append(rs, r)
           Own(q, i) == {j \in 1..i : q[j].frame = 1}
<1>1. n \in Nat /\ Len(rs2) = n + 1 /\ rs2[n + 1] = r /\ \A i \in 1..n : rs2[i] = rs[i]
  OBVIOUS
<1> HIDE DEF n, rs2
<1>2. ASSUME NEW i \in 0..n
      PROVE  Count(rs, i) \in Nat /\ Count(rs2, i) = Count(rs, i) /\ IsFiniteSet(Own(rs, i))
  <2>1. IsFiniteSet(1..i)
    BY <1>1, FS_Interval
  <2>2. IsFiniteSet(Own(rs, i))
    BY <2>1, FS_Subset
  <2>3. Own(rs2, i) = Own(rs, i)
    BY <1>1
  <2>4. Cardinality(Own(rs, i)) \in Nat
    BY <2>2, FS_CardinalityType
  <2> QED
    BY <2>2, <2>3, <2>4 DEF Count
<1>3. Count(rs2, n + 1) = Count(rs, n) + (IF r.frame = 1 THEN 1 ELSE 0)
  <2>1. CASE r.frame = 1
    <3>1. Own(rs2, n + 1) = Own(rs, n) \union {n + 1} /\ n + 1 \notin Own(rs, n)
      BY <1>1, <2>1
    <3>2. IsFiniteSet(Own(rs, n))
      BY <1>1, <1>2
    <3>3. Cardinality(Own(rs2, n + 1)) = Cardinality(Own(rs, n)) + 1
      BY <3>1, <3>2, FS_AddElement
    <3> QED
      BY <2>1, <3>3 DEF Count
  <2>2. CASE r.frame # 1
    <3>1. Own(rs2, n + 1) = Own(rs, n)
      BY <1>1, <2>2
    <3>2. Count(rs2, n + 1) = Count(rs, n)
      BY <3>1 DEF Count
    <3>3. n \in 0..n
      BY <1>1
    <3>4. Count(rs, n) \in Nat
      BY <1>2, <3>3
    <3> QED
      BY <2>2, <3>2, <3>4
  <2> QED
    BY <2>1, <2>2
<1> QED
  BY <1>2, <1>3 DEF n, rs2

-----------------------------------------------------------------------------
(* What happens to a stack and to the results keeps Report.                *)

\* Results of other frames do not change what is accounted for.
LEMMA OtherFrame ==
  ASSUME NEW st \in Seq(Frame), NEW st2 \in Seq(Frame), NEW rs \in Seq(Result),
         NEW r \in Result, r.frame # 1, Accounted(st, rs),
         st2[1].steps = st[1].steps, Owed(st2) = Owed(st),
         Owed(st) = 1 => st2[2].loop = st[2].loop
  PROVE  Accounted(st2, Append(rs, r))
<1> DEFINE m == Len(rs)
           rs2 == Append(rs, r)
<1>1. m \in Nat /\ Len(rs2) = m + 1 /\ rs2[m + 1] = r /\ \A i \in 1..m : rs2[i] = rs[i]
  OBVIOUS
<1>2. /\ \A i \in 0..m : Count(rs, i) \in Nat /\ Count(rs2, i) = Count(rs, i)
      /\ Count(rs2, m + 1) = Count(rs, m) + 0
  BY CountFacts
<1> HIDE DEF m, rs2
<1>3. Count(rs, m) \in Nat /\ Count(rs2, m + 1) = Count(rs, m)
  <2>1. m \in 0..m
    BY <1>1
  <2> QED
    BY <1>2, <2>1
<1>4. CutShort(rs) => CutShort(rs2)
  <2> SUFFICES ASSUME NEW i \in 1..m, rs[i].frame = 1, Count(rs, i) = Count(rs, m), Fatal(rs[i])
               PROVE  CutShort(rs2)
    BY DEF CutShort, m
  <2>1. i \in 1..Len(rs2) /\ i \in 0..m /\ rs2[i] = rs[i]
    BY <1>1
  <2>2. Count(rs2, i) = Count(rs2, Len(rs2))
    BY <1>1, <1>2, <1>3, <2>1
  <2> QED
    BY <2>1, <2>2 DEF CutShort
<1>5. \A i \in 1..Len(rs2) : rs2[i].frame = 1 => rs2[i].step = Main[Count(rs2, i)]
  <2> SUFFICES ASSUME NEW i \in 1..Len(rs2), rs2[i].frame = 1
               PROVE  rs2[i].step = Main[Count(rs2, i)]
    OBVIOUS
  <2>1. i \in 1..m /\ i \in 0..m
    BY <1>1
  <2>2. rs[i].step = Main[Count(rs, i)]
    BY <1>1, <2>1 DEF Accounted, m
  <2> QED
    BY <1>1, <1>2, <2>1, <2>2
<1> QED
  BY <1>1, <1>3, <1>4, <1>5 DEF Accounted, m, rs2

\* The result of the next of the flow's own steps, or of the loop that owes it.
LEMMA OwnFrame ==
  ASSUME NEW st \in Seq(Frame), NEW st2 \in Seq(Frame), NEW rs \in Seq(Result),
         NEW r \in Result, r.frame = 1, Accounted(st, rs), ~CutShort(rs),
         Owed(st) \in {0, 1}, Owed(st2) = 0,
         st[1].steps \in Seq(StepIds), st2[1].steps \in Seq(StepIds),
         \/ /\ Owed(st) = 1 /\ r.step = st[2].loop /\ st2[1].steps = st[1].steps
         \/ /\ Owed(st) = 0 /\ st[1].steps # <<>> /\ r.step = Head(st[1].steps)
            /\ \/ st2[1].steps = Tail(st[1].steps)
               \/ st2[1].steps = <<>> /\ Fatal(r)
  PROVE  Accounted(st2, Append(rs, r))
<1> DEFINE m == Len(rs)
           rs2 == Append(rs, r)
           c == Count(rs, m)
           todo == st[1].steps
           todo2 == st2[1].steps
<1>1. m \in Nat /\ Len(rs2) = m + 1 /\ rs2[m + 1] = r /\ \A i \in 1..m : rs2[i] = rs[i]
  OBVIOUS
<1>2. /\ \A i \in 0..m : Count(rs, i) \in Nat /\ Count(rs2, i) = Count(rs, i)
      /\ Count(rs2, m + 1) = c + 1
  BY CountFacts
<1>3. c \in Nat
  <2>1. m \in 0..m
    BY <1>1
  <2> QED
    BY <1>2, <2>1
<1>4. Len(todo) \in Nat /\ Len(Main) \in Nat
  BY FlowAssumption
<1>5. /\ c + Owed(st) + Len(todo) = Len(Main)
      /\ \A i \in 1..Len(todo) : todo[i] = Main[c + Owed(st) + i]
      /\ Owed(st) = 1 => st[2].loop = Main[c + Owed(st)]
      /\ \A i \in 1..m : rs[i].frame = 1 => rs[i].step = Main[Count(rs, i)]
  BY DEF Accounted
<1> HIDE DEF m, rs2, c, todo, todo2
<1>6. r.step = Main[c + 1]
  <2>1. CASE Owed(st) = 1
    BY <1>5, <2>1
  <2>2. CASE Owed(st) = 0
    <3>1. todo # <<>> /\ todo \in Seq(StepIds) /\ r.step = Head(todo)
      BY <2>2 DEF todo
    <3>2. 1 \in 1..Len(todo) /\ Head(todo) = todo[1]
      BY <1>4, <3>1, StepsFacts
    <3>3. c + Owed(st) + 1 = c + 1
      BY <1>3, <2>2
    <3> QED
      BY <1>5, <3>1, <3>2, <3>3
  <2> QED
    BY <2>1, <2>2
<1>7. \A i \in 1..Len(rs2) : rs2[i].frame = 1 => rs2[i].step = Main[Count(rs2, i)]
  <2> SUFFICES ASSUME NEW i \in 1..Len(rs2), rs2[i].frame = 1
               PROVE  rs2[i].step = Main[Count(rs2, i)]
    OBVIOUS
  <2>1. CASE i = m + 1
    BY <1>1, <1>2, <1>6, <2>1
  <2>2. CASE i # m + 1
    <3>1. i \in 1..m /\ i \in 0..m
      BY <1>1, <2>2
    <3> QED
      BY <1>1, <1>2, <1>5, <3>1
  <2> QED
    BY <2>1, <2>2
<1> DEFINE MadeUp == /\ c + 1 + Len(todo2) <= Len(Main)
                     /\ c + 1 + Len(todo2) = Len(Main) \/ CutShort(rs2)
                     /\ \A i \in 1..Len(todo2) : todo2[i] = Main[c + 1 + i]
<1>8. MadeUp
  <2>1. CASE Owed(st) = 1
    <3>1. todo2 = todo
      BY <2>1 DEF todo, todo2
    <3>2. c + Owed(st) = c + 1
      BY <2>1
    <3> QED
      BY <1>3, <1>4, <1>5, <3>1, <3>2, SMTT(30)
  <2>2. ASSUME Owed(st) = 0, todo # <<>>, todo2 = Tail(todo)
        PROVE  MadeUp
    <3>1. todo \in Seq(StepIds)
      BY DEF todo
    <3>2. /\ Len(todo) >= 1 /\ Len(todo2) = Len(todo) - 1
          /\ \A i \in 1..(Len(todo) - 1) : todo2[i] = todo[i + 1]
      BY <2>2, <3>1, StepsFacts
    <3>3. c + 1 + Len(todo2) = Len(Main)
      BY <1>3, <1>4, <1>5, <2>2, <3>2
    <3>4. ASSUME NEW i \in 1..Len(todo2)
          PROVE  todo2[i] = Main[c + 1 + i]
      <4>1. i + 1 \in 1..Len(todo) /\ i \in 1..(Len(todo) - 1) /\ c + Owed(st) + (i + 1) = c + 1 + i
        BY <1>3, <1>4, <2>2, <3>2
      <4>2. todo[i + 1] = Main[c + Owed(st) + (i + 1)]
        BY <1>5, <4>1
      <4> QED
        BY <3>2, <4>1, <4>2
    <3> QED
      BY <1>3, <1>4, <3>2, <3>3, <3>4
  <2>3. ASSUME Owed(st) = 0, todo # <<>>, todo2 = <<>>, Fatal(r)
        PROVE  MadeUp
    <3>1. Len(todo) >= 1
      BY <2>3 DEF todo
    <3>2. m + 1 \in 1..Len(rs2) /\ Count(rs2, m + 1) = Count(rs2, Len(rs2))
      BY <1>1
    <3>3. CutShort(rs2)
      BY <1>1, <2>3, <3>2 DEF CutShort
    <3> QED
      BY <1>3, <1>4, <1>5, <2>3, <3>1, <3>3
  <2> QED
    BY <2>1, <2>2, <2>3 DEF todo, todo2
<1>9. Count(rs2, Len(rs2)) + Owed(st2) = c + 1
  BY <1>1, <1>2, <1>3
<1> QED
  BY <1>7, <1>8, <1>9, SMTT(30) DEF Accounted, rs2, todo2

\* The last frame is replaced, a frame is pushed, the last one is dropped.
Replaced(st, st2) == Len(st2) = Len(st) /\ \A i \in 1..(Len(st) - 1) : st2[i] = st[i]
Pushed(st, st2)   == Len(st2) = Len(st) + 1 /\ \A i \in 1..Len(st) : st2[i] = st[i]
Dropped(st, st2)  == Len(st2) = Len(st) - 1 /\ \A i \in 1..(Len(st) - 1) : st2[i] = st[i]

\* Only the frame at the bottom, and a loop on it, have the number 1.
LEMMA BottomFrame ==
  ASSUME NEW st \in Seq(Frame), NEW n, Numbered(st, n), NEW k \in 1..Len(st), st[k].id = 1
  PROVE  k # 1 => k = 2 /\ st[2].loop # NoStep
<1>1. Len(st) \in Nat /\ 1 \in 1..Len(st) /\ st[1].id = 1
  BY DEF Numbered
<1>2. ASSUME k # 1, ~(k = 1 + 1 /\ st[k].loop # NoStep)
      PROVE  FALSE
  <2>1. 1 < k
    BY <1>1, <1>2
  <2>2. st[1].id < st[k].id
    BY <1>1, <1>2, <2>1 DEF Numbered
  <2> QED
    BY <1>1, <2>2
<1> QED
  BY <1>2

\* A frame of which a failure is not tolerated was not the last to run.
LEMMA NotCutShort ==
  ASSUME NEW st \in Seq(Frame), NEW rs \in Seq(Result), NEW n, Numbered(st, n),
         Ended(st, rs, n), NEW k \in 1..Len(st), st[k].id = 1,
         st[k].steps # <<>> \/ st[k].loop # NoStep
  PROVE  ~CutShort(rs)
BY DEF Ended, CutShort

\* A step is done: its result is recorded with the number of its frame, and
\* the frame goes on or, after a failure that is not tolerated, ends.
LEMMA StepRecorded ==
  ASSUME NEW n \in Nat, NEW st \in Seq(Frame), NEW st2 \in Seq(Frame), NEW rs \in Seq(Result),
         NEW r \in Result, Report(st, rs, n), Replaced(st, st2),
         st[Len(st)].steps # <<>>,
         r.frame = st[Len(st)].id, r.step = Head(st[Len(st)].steps),
         st2[Len(st)].id = st[Len(st)].id, st2[Len(st)].loop = st[Len(st)].loop,
         st2[Len(st)].steps = IF Fatal(r) THEN <<>> ELSE Tail(st[Len(st)].steps)
  PROVE  Report(st2, Append(rs, r), n)
<1> DEFINE h == Len(st)
           m == Len(rs)
           rs2 == Append(rs, r)
<1>1. m \in Nat /\ Len(rs2) = m + 1 /\ rs2[m + 1] = r /\ \A i \in 1..m : rs2[i] = rs[i]
  OBVIOUS
<1>2. /\ h \in Nat /\ h >= 1 /\ h \in 1..h /\ 1 \in 1..h /\ st2 # <<>> /\ Len(st2) = h
      /\ \A i \in 1..h : st2[i].id = st[i].id /\ st2[i].loop = st[i].loop
      /\ \A i \in 1..h : i # h => st2[i] = st[i]
  <2>1. h \in Nat /\ h >= 1 /\ Len(st2) = h
    BY DEF Report, Numbered, Replaced
  <2>2. \A i \in 1..h : i # h => st2[i] = st[i]
    BY <2>1 DEF Replaced
  <2> QED
    BY <2>1, <2>2
<1>3. st[h].loop = NoStep /\ \A i \in 1..m : Fatal(rs[i]) => rs[i].frame # st[h].id
  BY <1>2 DEF Report, Numbered, Ended
<1> HIDE DEF h, m, rs2
<1>4. Numbered(st2, n)
  <2>1. \A k \in 1..h : /\ st2[k].id \in 1..n
                        /\ st2[k].loop # NoStep => st2[k].steps = <<>>
    BY <1>2, <1>3 DEF Report, Numbered, h
  <2>2. \A j, k \in 1..h :
          j < k => IF k = j + 1 /\ st2[k].loop # NoStep THEN st2[j].id = st2[k].id
                   ELSE st2[j].id < st2[k].id
    BY <1>2 DEF Report, Numbered, h
  <2> QED
    BY <1>2, <2>1, <2>2 DEF Report, Numbered
<1>5. Ended(st2, rs2, n)
  <2>1. \A i \in 1..m : rs[i].frame \in 1..n
    BY DEF Report, Ended, m
  <2>2. r.frame = st[h].id /\ r.frame \in 1..n
    BY <1>2 DEF Report, Numbered, h
  <2>3. \A i \in 1..Len(rs2) : rs2[i].frame \in 1..n
    BY <1>1, <2>1, <2>2, SMTT(30)
  <2>4. ASSUME NEW i \in 1..Len(rs2), NEW k \in 1..Len(st2), Fatal(rs2[i]), st2[k].id = rs2[i].frame
        PROVE  st2[k].steps = <<>> /\ st2[k].loop = NoStep
    <3>1. CASE i \in 1..m
      <4>1. st[k].steps = <<>> /\ st[k].loop = NoStep
        BY <1>1, <1>2, <2>4, <3>1 DEF Report, Ended, m, h
      <4>2. k # h
        BY <1>1, <1>2, <1>3, <2>4, <3>1, SMTT(30)
      <4> QED
        BY <1>2, <4>1, <4>2
    <3>2. CASE i = m + 1
      <4>1. Fatal(r) /\ st[k].id = st[h].id
        BY <1>1, <1>2, <2>2, <2>4, <3>2
      <4>2. k = h
        <5>1. ASSUME k # h PROVE FALSE
          <6>1. k < h /\ k \in 1..h
            BY <1>2, <5>1
          <6>2. st[k].id < st[h].id
            BY <1>2, <1>3, <6>1 DEF Report, Numbered, h
          <6>3. st[h].id \in 1..n
            BY <1>2 DEF Report, Numbered, h
          <6> QED
            BY <4>1, <6>2, <6>3
        <5> QED
          BY <5>1
      <4> QED
        BY <1>2, <1>3, <4>1, <4>2 DEF h
    <3> QED
      BY <1>1, <3>1, <3>2
  <2>5. ASSUME NEW i \in 1..Len(rs2), NEW j \in 1..Len(rs2), i < j, Fatal(rs2[i])
        PROVE  rs2[j].frame # rs2[i].frame
    <3>1. i \in 1..m
      BY <1>1, <2>5
    <3>2. CASE j \in 1..m
      BY <1>1, <2>5, <3>1, <3>2 DEF Report, Ended, m
    <3>3. CASE j = m + 1
      BY <1>1, <1>3, <2>2, <2>5, <3>1, <3>3
    <3> QED
      BY <1>1, <3>2, <3>3
  <2> QED
    BY <2>3, <2>4, <2>5 DEF Ended
<1>6. Accounted(st2, rs2)
  <2>1. CASE h = 1
    <3>1. r.frame = 1 /\ Owed(st) = 0 /\ Owed(st2) = 0
      BY <1>2, <2>1 DEF Report, Numbered, Owed, h
    <3>2. ~CutShort(rs)
      BY <1>2, <2>1, NotCutShort DEF Report, Numbered, h
    <3>3. st[1].steps \in Seq(StepIds) /\ st2[1].steps \in Seq(StepIds)
      <4>1. st[1] \in Frame /\ st2[1] \in Frame
        BY <1>2 DEF h
      <4> QED
        BY <4>1 DEF Frame
    <3>4. /\ st[1].steps # <<>> /\ r.step = Head(st[1].steps)
          /\ \/ st2[1].steps = Tail(st[1].steps)
             \/ st2[1].steps = <<>> /\ Fatal(r)
      BY <2>1 DEF h
    <3> QED
      BY <3>1, <3>2, <3>3, <3>4, OwnFrame DEF Report, rs2
  <2>2. CASE h # 1
    <3>1. r.frame # 1
      BY <1>2, <1>3, <2>2, BottomFrame DEF Report, h
    <3>2. st2[1] = st[1] /\ Owed(st2) = Owed(st) /\ st2[2].loop = st[2].loop
      <4>1. 2 \in 1..h
        BY <1>2, <2>2
      <4> QED
        BY <1>2, <2>2, <4>1 DEF Owed, h
    <3> QED
      BY <3>1, <3>2, OtherFrame DEF Report, rs2
  <2> QED
    BY <2>1, <2>2
<1> QED
  BY <1>4, <1>5, <1>6 DEF Report, rs2

\* A branch or an iteration is called, with a number of its own.
LEMMA CallPushed ==
  ASSUME NEW n \in Nat, NEW st \in Seq(Frame), NEW st2 \in Seq(Frame), NEW rs \in Seq(Result),
         Report(st, rs, n), Pushed(st, st2),
         st2[Len(st) + 1].id = n + 1, st2[Len(st) + 1].loop = NoStep
  PROVE  Report(st2, rs, n + 1)
<1> DEFINE h == Len(st)
<1>1. /\ h \in Nat /\ h >= 1 /\ 1 \in 1..h /\ st2 # <<>> /\ Len(st2) = h + 1
      /\ \A i \in 1..h : st2[i] = st[i]
  BY DEF Report, Numbered, Pushed
<1>2. st2[h + 1].id = n + 1 /\ st2[h + 1].loop = NoStep
  OBVIOUS
<1> HIDE DEF h
<1>3. Numbered(st2, n + 1)
  <2>1. \A k \in 1..(h + 1) : /\ st2[k].id \in 1..(n + 1)
                              /\ st2[k].loop # NoStep => st2[k].steps = <<>>
    BY <1>1, <1>2 DEF Report, Numbered, h
  <2>2. ASSUME NEW j \in 1..(h + 1), NEW k \in 1..(h + 1), j < k
        PROVE  IF k = j + 1 /\ st2[k].loop # NoStep THEN st2[j].id = st2[k].id
               ELSE st2[j].id < st2[k].id
    <3>1. j \in 1..h /\ st[j].id \in 1..n
      BY <1>1, <2>2 DEF Report, Numbered, h
    <3>2. CASE k = h + 1
      BY <1>1, <1>2, <3>1, <3>2
    <3>3. CASE k \in 1..h
      BY <1>1, <2>2, <3>1, <3>3 DEF Report, Numbered, h
    <3> QED
      BY <1>1, <3>2, <3>3
  <2> QED
    BY <1>1, <2>1, <2>2 DEF Report, Numbered
<1>4. Ended(st2, rs, n + 1)
  <2>1. \A i \in 1..Len(rs) : rs[i].frame \in 1..n
    BY DEF Report, Ended
  <2>2. ASSUME NEW i \in 1..Len(rs), NEW k \in 1..(h + 1), Fatal(rs[i]), st2[k].id = rs[i].frame
        PROVE  st2[k].steps = <<>> /\ st2[k].loop = NoStep
    <3>1. k # h + 1
      BY <1>2, <2>1, <2>2
    <3>2. k \in 1..h
      BY <1>1, <3>1
    <3> QED
      BY <1>1, <2>2, <3>2 DEF Report, Ended, h
  <2>3. \A i \in 1..Len(rs) : rs[i].frame \in 1..(n + 1)
    BY <2>1
  <2> QED
    BY <1>1, <2>2, <2>3 DEF Report, Ended
<1>5. Accounted(st2, rs)
  <2>1. st2[1] = st[1] /\ Owed(st2) = Owed(st) /\ (Owed(st) = 1 => st2[2] = st[2])
    <3>1. CASE h = 1
      BY <1>1, <1>2, <3>1 DEF Owed, h
    <3>2. CASE h # 1
      <4>1. 2 \in 1..h /\ h > 1 /\ h + 1 > 1
        BY <1>1, <3>2
      <4> QED
        BY <1>1, <4>1 DEF Owed, h
    <3> QED
      BY <3>1, <3>2
  <2> QED
    BY <2>1 DEF Report, Accounted
<1> QED
  BY <1>3, <1>4, <1>5 DEF Report

\* A loop starts: its frame goes on to the steps after it, and the loop is on
\* top of the frame.
LEMMA LoopPushed ==
  ASSUME NEW n \in Nat, NEW st \in Seq(Frame), NEW st2 \in Seq(Frame), NEW rs \in Seq(Result),
         Report(st, rs, n), Len(st2) = Len(st) + 1,
         \A i \in 1..(Len(st) - 1) : st2[i] = st[i],
         st[Len(st)].steps # <<>>,
         st2[Len(st)].id = st[Len(st)].id, st2[Len(st)].loop = st[Len(st)].loop,
         st2[Len(st)].steps = Tail(st[Len(st)].steps),
         st2[Len(st) + 1].id = st[Len(st)].id,
         st2[Len(st) + 1].loop = Head(st[Len(st)].steps), st2[Len(st) + 1].steps = <<>>
  PROVE  Report(st2, rs, n)
<1> DEFINE h == Len(st)
           s == Head(st[h].steps)
<1>1. /\ h \in Nat /\ h >= 1 /\ h \in 1..h /\ 1 \in 1..h /\ st2 # <<>> /\ Len(st2) = h + 1
      /\ \A i \in 1..h : i # h => st2[i] = st[i]
      /\ \A i \in 1..h : st2[i].id = st[i].id /\ st2[i].loop = st[i].loop
  <2>1. h \in Nat /\ h >= 1 /\ Len(st2) = h + 1
    BY DEF Report, Numbered
  <2>2. \A i \in 1..h : i # h => st2[i] = st[i]
    BY <2>1
  <2> QED
    BY <2>1, <2>2
<1>2. /\ st[h].loop = NoStep
      /\ \A i \in 1..Len(rs) : Fatal(rs[i]) => rs[i].frame # st[h].id
  BY <1>1 DEF Report, Numbered, Ended
<1>3. st[h].steps \in Seq(StepIds) /\ st[h].steps # <<>>
  <2>1. st[h] \in Frame
    BY <1>1
  <2> QED
    BY <2>1 DEF Frame
<1>4. s \in StepIds /\ s # NoStep
  BY <1>3, StepsFacts, FlowAssumption
<1>5. /\ st2[h + 1].id = st[h].id /\ st2[h + 1].loop = s /\ st2[h + 1].steps = <<>>
      /\ st2[h].steps = Tail(st[h].steps)
  OBVIOUS
<1> HIDE DEF h, s
<1>6. Numbered(st2, n)
  <2>1. \A k \in 1..h : st[k].id \in 1..n /\ (st[k].loop # NoStep => st[k].steps = <<>>)
    BY DEF Report, Numbered, h
  <2>2. \A k \in 1..(h + 1) : /\ st2[k].id \in 1..n
                              /\ st2[k].loop # NoStep => st2[k].steps = <<>>
    BY <1>1, <1>2, <1>5, <2>1
  <2>3. ASSUME NEW j \in 1..(h + 1), NEW k \in 1..(h + 1), j < k
        PROVE  IF k = j + 1 /\ st2[k].loop # NoStep THEN st2[j].id = st2[k].id
               ELSE st2[j].id < st2[k].id
    <3>1. j \in 1..h
      BY <1>1, <2>3
    <3>2. CASE k \in 1..h
      BY <1>1, <2>3, <3>1, <3>2 DEF Report, Numbered, h
    <3>3. CASE k = h + 1 /\ j = h
      BY <1>1, <1>4, <1>5, <3>3
    <3>4. CASE k = h + 1 /\ j # h
      <4>1. j < h /\ k # j + 1
        BY <1>1, <3>1, <3>4
      <4>2. st[j].id < st[h].id
        BY <1>1, <1>2, <3>1, <4>1 DEF Report, Numbered, h
      <4> QED
        BY <1>1, <1>5, <3>1, <3>4, <4>1, <4>2
    <3> QED
      BY <1>1, <3>2, <3>3, <3>4
  <2> QED
    BY <1>1, <2>2, <2>3 DEF Report, Numbered
<1>7. Ended(st2, rs, n)
  <2>1. ASSUME NEW i \in 1..Len(rs), NEW k \in 1..(h + 1), Fatal(rs[i]), st2[k].id = rs[i].frame
        PROVE  st2[k].steps = <<>> /\ st2[k].loop = NoStep
    <3>1. k # h + 1 /\ k # h
      BY <1>1, <1>2, <1>5, <2>1
    <3>2. k \in 1..h
      BY <1>1, <3>1
    <3> QED
      BY <1>1, <2>1, <3>1, <3>2 DEF Report, Ended, h
  <2> QED
    BY <1>1, <2>1 DEF Report, Ended
<1>8. Accounted(st2, rs)
  <2> DEFINE c == Count(rs, Len(rs))
             todo == st[1].steps
  <2>1. c \in Nat
    BY CountType
  <2>2. CASE h = 1
    <3>1. Owed(st) = 0 /\ Owed(st2) = 1 /\ st2[2].loop = s
      BY <1>1, <1>4, <1>5, <2>2 DEF Owed, h
    <3>2. /\ Len(todo) \in Nat /\ Len(todo) >= 1 /\ s = todo[1]
          /\ Len(st2[1].steps) = Len(todo) - 1
          /\ \A i \in 1..(Len(todo) - 1) : st2[1].steps[i] = todo[i + 1]
      <4>1. todo \in Seq(StepIds) /\ todo # <<>> /\ s = Head(todo) /\ st2[1].steps = Tail(todo)
        BY <1>3, <1>5, <2>2 DEF s
      <4> HIDE DEF todo
      <4> QED
        BY <4>1, StepsFacts
    <3>3. /\ c + 0 + Len(todo) <= Len(Main)
          /\ c + 0 + Len(todo) = Len(Main) \/ CutShort(rs)
          /\ \A i \in 1..Len(todo) : todo[i] = Main[c + 0 + i]
      BY <3>1 DEF Report, Accounted
    <3> HIDE DEF c, todo
    <3>4. /\ c + 1 + Len(st2[1].steps) <= Len(Main)
          /\ c + 1 + Len(st2[1].steps) = Len(Main) \/ CutShort(rs)
      <4>1. c + 1 + Len(st2[1].steps) = c + 0 + Len(todo)
        BY <2>1, <3>2
      <4> QED
        BY <3>3, <4>1
    <3>5. ASSUME NEW i \in 1..Len(st2[1].steps)
          PROVE  st2[1].steps[i] = Main[c + 1 + i]
      <4>1. i + 1 \in 1..Len(todo) /\ i \in 1..(Len(todo) - 1) /\ c + 0 + (i + 1) = c + 1 + i
        BY <2>1, <3>2
      <4> QED
        BY <3>2, <3>3, <4>1
    <3>6. s = Main[c + 1]
      <4>1. 1 \in 1..Len(todo) /\ c + 0 + 1 = c + 1
        BY <2>1, <3>2
      <4> QED
        BY <3>2, <3>3, <4>1
    <3> QED
      BY <3>1, <3>4, <3>5, <3>6 DEF Report, Accounted, c
  <2>3. CASE h # 1
    <3>1. 1 # h /\ h > 1 /\ h + 1 > 1 /\ 2 \in 1..h
      BY <1>1, <2>3
    <3>2. st2[1] = st[1] /\ Owed(st2) = Owed(st) /\ st2[2].loop = st[2].loop
      BY <1>1, <3>1 DEF Owed, h
    <3> QED
      BY <3>2 DEF Report, Accounted
  <2> QED
    BY <2>2, <2>3
<1> QED
  BY <1>6, <1>7, <1>8 DEF Report

\* An iteration is counted: nothing else of the loop's frame changes.
LEMMA LeftChanged ==
  ASSUME NEW n \in Nat, NEW st \in Seq(Frame), NEW st2 \in Seq(Frame), NEW rs \in Seq(Result),
         Report(st, rs, n), Replaced(st, st2),
         st2[Len(st)].id = st[Len(st)].id, st2[Len(st)].loop = st[Len(st)].loop,
         st2[Len(st)].steps = st[Len(st)].steps
  PROVE  Report(st2, rs, n)
<1> DEFINE h == Len(st)
<1>1. h \in Nat /\ h >= 1 /\ 1 \in 1..h /\ Len(st2) = h /\ st2 # <<>>
  BY DEF Report, Numbered, Replaced
<1>2. \A i \in 1..h : /\ st2[i].id = st[i].id /\ st2[i].loop = st[i].loop
                      /\ st2[i].steps = st[i].steps
  BY <1>1 DEF Replaced
<1> HIDE DEF h
<1>3. Numbered(st2, n)
  BY <1>1, <1>2, SMTT(30) DEF Report, Numbered, h
<1>4. Ended(st2, rs, n)
  BY <1>1, <1>2 DEF Report, Ended, h
<1>5. Accounted(st2, rs)
  <2>1. h > 1 => 2 \in 1..h
    BY <1>1
  <2>2. st2[1].steps = st[1].steps /\ Owed(st2) = Owed(st) /\ (Owed(st) = 1 => st2[2].loop = st[2].loop)
    BY <1>1, <1>2, <2>1 DEF Owed, h
  <2> QED
    BY <2>2 DEF Report, Accounted
<1> QED
  BY <1>3, <1>4, <1>5 DEF Report

\* What a stack keeps when its last frame is dropped.
LEMMA DroppedFacts ==
  ASSUME NEW n \in Nat, NEW st \in Seq(Frame), NEW st2 \in Seq(Frame), NEW rs \in Seq(Result),
         Numbered(st, n), Ended(st, rs, n), Len(st) > 1, Dropped(st, st2)
  PROVE  Numbered(st2, n) /\ Ended(st2, rs, n)
<1> DEFINE h == Len(st)
<1>1. /\ h \in Nat /\ h > 1 /\ 1 \in 1..(h - 1) /\ Len(st2) = h - 1 /\ st2 # <<>>
      /\ \A i \in 1..(h - 1) : i \in 1..h /\ st2[i] = st[i]
  BY DEF Dropped
<1> HIDE DEF h
<1>2. Numbered(st2, n)
  BY <1>1 DEF Numbered, h
<1>3. Ended(st2, rs, n)
  BY <1>1 DEF Ended, h
<1> QED
  BY <1>2, <1>3

\* A branch or an iteration returns.
LEMMA CallDropped ==
  ASSUME NEW n \in Nat, NEW st \in Seq(Frame), NEW st2 \in Seq(Frame), NEW rs \in Seq(Result),
         Report(st, rs, n), Len(st) > 1, st[Len(st)].loop = NoStep, Dropped(st, st2)
  PROVE  Report(st2, rs, n)
<1> DEFINE h == Len(st)
<1>1. /\ h \in Nat /\ h > 1 /\ 1 \in 1..(h - 1) /\ Len(st2) = h - 1
      /\ \A i \in 1..(h - 1) : st2[i] = st[i]
  BY DEF Dropped
<1>2. Numbered(st2, n) /\ Ended(st2, rs, n)
  BY DroppedFacts DEF Report
<1>3. st2[1] = st[1] /\ Owed(st2) = Owed(st) /\ (Owed(st) = 1 => st2[2].loop = st[2].loop)
  <2>1. CASE h = 2
    BY <1>1, <2>1 DEF Owed
  <2>2. CASE h # 2
    <3>1. h - 1 > 1 /\ 2 \in 1..(h - 1)
      BY <1>1, <2>2
    <3> QED
      BY <1>1, <3>1 DEF Owed
  <2> QED
    BY <2>1, <2>2
<1>4. Accounted(st2, rs)
  BY <1>3 DEF Report, Accounted
<1> QED
  BY <1>2, <1>4 DEF Report

\* A loop ends: its result is recorded with the number of the frame it is in.
LEMMA LoopDropped ==
  ASSUME NEW n \in Nat, NEW st \in Seq(Frame), NEW st2 \in Seq(Frame), NEW rs \in Seq(Result),
         NEW r \in Result, Report(st, rs, n), st[Len(st)].loop # NoStep, Dropped(st, st2),
         r.frame = st[Len(st)].id, r.step = st[Len(st)].loop, ~Fatal(r)
  PROVE  Report(st2, Append(rs, r), n)
<1> DEFINE h == Len(st)
           m == Len(rs)
           rs2 == Append(rs, r)
<1>1. m \in Nat /\ Len(rs2) = m + 1 /\ rs2[m + 1] = r /\ \A i \in 1..m : rs2[i] = rs[i]
  OBVIOUS
<1>2. /\ h \in Nat /\ h > 1 /\ h \in 1..h /\ 1 \in 1..h /\ 1 \in 1..(h - 1) /\ Len(st2) = h - 1
      /\ \A i \in 1..(h - 1) : st2[i] = st[i]
  BY DEF Dropped, Report, Numbered
<1>3. \A i \in 1..m : Fatal(rs[i]) => rs[i].frame # st[h].id
  BY <1>2 DEF Report, Ended
<1>4. Numbered(st2, n) /\ Ended(st2, rs, n)
  BY <1>2, DroppedFacts DEF Report
<1>5. r.frame = st[h].id /\ r.step = st[h].loop /\ st[h].loop # NoStep /\ r.frame \in 1..n
  BY <1>2 DEF Report, Numbered
<1> HIDE DEF h, m, rs2
<1>6. Ended(st2, rs2, n)
  <2>1. \A i \in 1..Len(rs2) : rs2[i].frame \in 1..n
    BY <1>1, <1>4, <1>5, SMTT(30) DEF Ended, m
  <2>2. \A i \in 1..Len(rs2) : Fatal(rs2[i]) => i \in 1..m
    BY <1>1
  <2>3. \A i \in 1..Len(rs2) : \A k \in 1..Len(st2) :
          Fatal(rs2[i]) /\ st2[k].id = rs2[i].frame => st2[k].steps = <<>> /\ st2[k].loop = NoStep
    BY <1>1, <1>4, <2>2 DEF Ended, m
  <2>4. ASSUME NEW i \in 1..Len(rs2), NEW j \in 1..Len(rs2), i < j, Fatal(rs2[i])
        PROVE  rs2[j].frame # rs2[i].frame
    <3>1. i \in 1..m
      BY <2>2, <2>4
    <3>2. CASE j \in 1..m
      BY <1>1, <1>4, <2>4, <3>1, <3>2 DEF Ended, m
    <3>3. CASE j = m + 1
      BY <1>1, <1>3, <1>5, <2>4, <3>1, <3>3
    <3> QED
      BY <1>1, <3>2, <3>3
  <2> QED
    BY <2>1, <2>3, <2>4 DEF Ended
<1>7. Accounted(st2, rs2)
  <2>1. CASE h = 2
    <3>1. r.frame = 1 /\ st[2].id = 1
      BY <1>2, <1>5, <2>1 DEF Report, Numbered, h
    <3>2. Owed(st) = 1 /\ Owed(st2) = 0
      BY <1>2, <1>5, <2>1 DEF Owed, h
    <3>3. ~CutShort(rs)
      BY <1>2, <1>5, <2>1, <3>1, NotCutShort DEF Report, h
    <3>4. st2[1].steps = st[1].steps /\ st[1].steps \in Seq(StepIds) /\ r.step = st[2].loop
      <4>1. st[1] \in Frame /\ st2[1] = st[1]
        BY <1>2 DEF h
      <4> QED
        BY <1>5, <2>1, <4>1 DEF Frame
    <3> QED
      BY <3>1, <3>2, <3>3, <3>4, OwnFrame DEF Report, rs2
  <2>2. CASE h # 2
    <3>1. r.frame # 1
      BY <1>2, <1>5, <2>2, BottomFrame DEF Report, h
    <3>2. st2[1] = st[1] /\ Owed(st2) = Owed(st) /\ st2[2].loop = st[2].loop
      <4>1. h - 1 > 1 /\ 2 \in 1..(h - 1)
        BY <1>2, <2>2
      <4> QED
        BY <1>2, <4>1 DEF Owed, h
    <3> QED
      BY <3>1, <3>2, OtherFrame DEF Report, rs2
  <2> QED
    BY <2>1, <2>2
<1> QED
  BY <1>4, <1>6, <1>7 DEF Report, rs2

-----------------------------------------------------------------------------
(* The fiber.                                                              *)

\* Where the fiber waits it is in a call that has a step to do, and a request
\* it makes has not had more retries than the flow gives it.
FiberInv ==
  /\ pc \in {"attempt", "awaiting"} =>
       /\ Top.steps # <<>>
       /\ Step[Current].type = "request" /\ attempts <= Step[Current].retryCount
  /\ pc = "sleeping" => Top.steps # <<>> /\ Step[Current].type = "delay"
  /\ pc \in {"reporting", "passed", "failed"} => Len(stack) = 1 /\ Top.steps = <<>>
  /\ pc = "awaiting" => running[Current] > 0

\* As long as nothing failed, the only execution of a step that is not retried
\* is the one the fiber awaits: it is a timeout that leaves one behind, and
\* the step then fails.
RunningInv ==
  /\ pc = "passed" => Passed
  /\ Passed /\ pc \notin {"cancelled", "thrown"} =>
       \A s \in StepIds : Step[s].retryCount = 0 =>
         running[s] = IF pc = "awaiting" /\ Current = s THEN 1 ELSE 0

FlowInv == TypeOK /\ Report(stack, results, frames) /\ FiberInv /\ RunningInv

\* The frame on top.
LEMMA TopFacts ==
  ASSUME TypeOK
  PROVE  /\ Len(stack) \in Nat /\ Len(stack) >= 1
         /\ Top \in Frame /\ Top = stack[Len(stack)]
         /\ Top.id \in Nat /\ Top.left \in Nat
         /\ Top.loop \in StepIds \union {NoStep} /\ Top.steps \in Seq(StepIds)
         /\ Top.steps # <<>> => /\ Current \in StepIds /\ Tail(Top.steps) \in Seq(StepIds)
         /\ Below \in Seq(Frame) /\ Dropped(stack, Below)
<1>1. stack \in Seq(Frame) /\ stack # <<>>
  BY DEF TypeOK
<1>2. Len(stack) \in Nat /\ Len(stack) >= 1 /\ stack[Len(stack)] \in Frame
  BY <1>1
<1>3. Top \in Frame /\ Top = stack[Len(stack)]
  BY <1>2 DEF Top
<1>4. /\ Top.id \in Nat /\ Top.left \in Nat
      /\ Top.loop \in StepIds \union {NoStep} /\ Top.steps \in Seq(StepIds)
  BY <1>3 DEF Frame
<1>5. Top.steps # <<>> => Current \in StepIds /\ Tail(Top.steps) \in Seq(StepIds)
  BY <1>4, StepsFacts DEF Current
<1>6. Below \in Seq(Frame) /\ Dropped(stack, Below)
  BY <1>1, <1>3, StackFacts DEF Below, Dropped
<1> QED
  BY <1>2, <1>3, <1>4, <1>5, <1>6

\* A frame with other steps.
LEMMA WithSteps ==
  ASSUME NEW f \in Frame, NEW q \in Seq(StepIds)
  PROVE  LET g == [f EXCEPT !.steps = q]
         IN  g \in Frame /\ g.id = f.id /\ g.loop = f.loop /\ g.steps = q
BY DEF Frame

\* The stack with another frame on top.
LEMMA WithTopFacts ==
  ASSUME TypeOK, NEW f \in Frame
  PROVE  /\ WithTop(f) \in Seq(Frame) /\ WithTop(f) # <<>>
         /\ Replaced(stack, WithTop(f))
         /\ Len(WithTop(f)) = Len(stack) /\ WithTop(f)[Len(stack)] = f
<1>1. stack \in Seq(Frame) /\ stack # <<>>
  BY DEF TypeOK
<1>2. /\ Len(stack) >= 1 /\ Len(stack) \in Nat
      /\ WithTop(f) \in Seq(Frame) /\ Len(WithTop(f)) = Len(stack) /\ WithTop(f)[Len(stack)] = f
      /\ \A i \in 1..(Len(stack) - 1) : WithTop(f)[i] = stack[i]
  BY <1>1, StackFacts DEF WithTop, Below
<1> QED
  BY <1>2 DEF Replaced

\* A step that was done is recorded, and the frame on top goes on or ends: what
\* Complete and DelayEnd do.
LEMMA Recorded ==
  ASSUME TypeOK, Report(stack, results, frames), Top.steps # <<>>,
         NEW status \in {"passed", "failed"}, NEW f \in Frame,
         f.id = Top.id, f.loop = Top.loop,
         f.steps = IF Fatal([step |-> Current, status |-> status, frame |-> Top.id])
                   THEN <<>> ELSE Tail(Top.steps),
         Push(Current, status, Top.id), stack' = WithTop(f)
  PROVE  /\ stack' \in Seq(Frame) /\ stack' # <<>> /\ results' \in Seq(Result)
         /\ Len(stack') = Len(stack) /\ stack'[Len(stack)] = f
         /\ Report(stack', results', frames)
<1> DEFINE r == [step |-> Current, status |-> status, frame |-> Top.id]
<1>1. /\ Len(stack) \in Nat /\ Top = stack[Len(stack)] /\ Top.id \in Nat
      /\ Current \in StepIds /\ Current = Head(Top.steps)
  BY TopFacts DEF Current
<1>2. r \in Result /\ r.frame = Top.id /\ r.step = Current
  BY <1>1 DEF Result
<1>3. results' = Append(results, r)
  BY DEF Push
<1>4. /\ stack' \in Seq(Frame) /\ stack' # <<>> /\ Replaced(stack, stack')
      /\ Len(stack') = Len(stack) /\ stack'[Len(stack)] = f
  BY WithTopFacts
<1>5. stack \in Seq(Frame) /\ results \in Seq(Result) /\ frames \in Nat
  BY DEF TypeOK
<1>6. f.steps = IF Fatal(r) THEN <<>> ELSE Tail(Top.steps)
  OBVIOUS
<1> HIDE DEF r
<1>7. Report(stack', Append(results, r), frames)
  BY <1>1, <1>2, <1>4, <1>5, <1>6, StepRecorded
<1> QED
  BY <1>2, <1>3, <1>4, <1>5, <1>7

\* A result more: a flow that has failed does not pass, nor does one that
\* fails now.
LEMMA PassedFacts ==
  ASSUME TypeOK, NEW s, NEW status, NEW frame, Push(s, status, frame)
  PROVE  Passed' => Passed /\ status # "failed"
<1> DEFINE r == [step |-> s, status |-> status, frame |-> frame]
<1>1. results' = Append(results, r) /\ r.status = status
  BY DEF Push
<1>2. Len(results) \in Nat
  BY DEF TypeOK
<1> HIDE DEF r
<1>3. /\ Len(results') = Len(results) + 1 /\ results'[Len(results) + 1] = r
      /\ \A i \in 1..Len(results) : results'[i] = results[i]
  BY <1>1 DEF TypeOK
<1>4. \A i \in 1..Len(results) : i \in 1..Len(results')
  BY <1>2, <1>3
<1>5. Len(results) + 1 \in 1..Len(results')
  BY <1>2, <1>3
<1> QED
  BY <1>1, <1>3, <1>4, <1>5 DEF Passed

\* Where the fiber is between two steps, nothing is awaited.
LEMMA BetweenSteps ==
  ASSUME pc' = "next",
         Passed' => \A s \in StepIds : Step[s].retryCount = 0 => running'[s] = 0
  PROVE  FiberInv' /\ RunningInv'
BY DEF FiberInv, RunningInv

\* A request that is done.
LEMMA CompleteStep ==
  ASSUME FlowInv, pc = "awaiting", NEW status \in {"passed", "failed"}, Complete(status),
         UNCHANGED attempts,
         \/ Settle
         \/ status = "failed" /\ UNCHANGED running
  PROVE  FlowInv'
<1> DEFINE s == Current
           r == [step |-> s, status |-> status, frame |-> Top.id]
           f == IF status = "failed" /\ ~Step[s].continueOnFailure
                THEN [Top EXCEPT !.steps = <<>>] ELSE After(Top)
<1>1. TypeOK /\ Report(stack, results, frames) /\ FiberInv /\ RunningInv
  BY DEF FlowInv
<1>2. Top.steps # <<>> /\ Step[s].type = "request" /\ running[s] > 0
  BY <1>1 DEF FiberInv
<1>3. s \in StepIds /\ Top \in Frame /\ Tail(Top.steps) \in Seq(StepIds)
  BY <1>1, <1>2, TopFacts
<1>4. /\ Push(s, status, Top.id) /\ pc' = "next" /\ stack' = WithTop(f) /\ UNCHANGED frames
  BY DEF Complete
<1>5. Fatal(r) <=> status = "failed" /\ ~Step[s].continueOnFailure
  BY <1>2 DEF Fatal
<1>6. /\ f \in Frame /\ f.id = Top.id /\ f.loop = Top.loop
      /\ f.steps = IF Fatal(r) THEN <<>> ELSE Tail(Top.steps)
  <2>1. <<>> \in Seq(StepIds)
    OBVIOUS
  <2>2. ASSUME Fatal(r) PROVE f = [Top EXCEPT !.steps = <<>>]
    BY <1>5, <2>2
  <2>3. ASSUME ~Fatal(r) PROVE f = [Top EXCEPT !.steps = Tail(Top.steps)]
    BY <1>5, <2>3 DEF After
  <2> HIDE DEF f, r
  <2>4. PICK q \in Seq(StepIds) : /\ q = IF Fatal(r) THEN <<>> ELSE Tail(Top.steps)
                                  /\ f = [Top EXCEPT !.steps = q]
    BY <1>3, <2>1, <2>2, <2>3
  <2> QED
    BY <1>3, <2>4, WithSteps
<1> HIDE DEF f
<1>7. stack' \in Seq(Frame) /\ stack' # <<>> /\ results' \in Seq(Result) /\ Report(stack', results', frames)
  BY <1>1, <1>2, <1>4, <1>6, Recorded
<1>8. running' \in [StepIds -> Nat]
  <2>1. running \in [StepIds -> Nat] /\ running[s] - 1 \in Nat
    BY <1>1, <1>2, <1>3 DEF TypeOK
  <2> QED
    BY <2>1 DEF Settle
<1>9. TypeOK'
  BY <1>1, <1>4, <1>7, <1>8 DEF TypeOK, Waits
<1>10. ASSUME Passed', NEW x \in StepIds, Step[x].retryCount = 0
       PROVE  running'[x] = 0
  <2>1. Passed /\ Settle
    BY <1>1, <1>4, <1>10, PassedFacts
  <2>2. running[x] = IF s = x THEN 1 ELSE 0
    BY <1>1, <1>10, <2>1 DEF RunningInv
  <2> QED
    BY <1>1, <2>1, <2>2 DEF Settle, TypeOK
<1>11. FiberInv' /\ RunningInv'
  BY <1>4, <1>10, BetweenSteps
<1> QED
  BY <1>4, <1>7, <1>9, <1>11 DEF FlowInv

\* An attempt that fails is repeated or is the last.
LEMMA RetryStep ==
  ASSUME FlowInv, pc = "awaiting", Retry \/ GiveUp, Settle \/ UNCHANGED running
  PROVE  FlowInv'
<1>1. TypeOK /\ Report(stack, results, frames) /\ FiberInv /\ RunningInv
  BY DEF FlowInv
<1>2. CASE GiveUp
  BY <1>2, CompleteStep DEF GiveUp
<1>3. CASE Retry
  <2>1. /\ pc' = "attempt" /\ attempts > 0 /\ attempts' = attempts - 1
        /\ UNCHANGED <<stack, results, frames>>
    BY <1>3 DEF Retry
  <2>2. /\ Top.steps # <<>> /\ Step[Current].type = "request"
        /\ attempts <= Step[Current].retryCount /\ running[Current] > 0
    BY <1>1 DEF FiberInv
  <2>3. Current \in StepIds /\ attempts \in Nat /\ running \in [StepIds -> Nat] /\ running[Current] \in Nat
    BY <1>1, <2>2, TopFacts DEF TypeOK
  <2>4. Top' = Top /\ Current' = Current /\ (Passed' <=> Passed)
    BY <2>1 DEF Top, Current, Passed
  <2>5. Step[Current].retryCount \in Nat /\ Step[Current].retryCount # 0 /\ attempts - 1 \in Nat
        /\ attempts - 1 <= Step[Current].retryCount
    <3>1. Step[Current].retryCount \in Nat
      BY <2>3, FlowAssumption
    <3> HIDE DEF Current
    <3> QED
      BY <2>1, <2>2, <2>3, <3>1
  <2>6. running' \in [StepIds -> Nat]
    <3>1. running[Current] - 1 \in Nat
      BY <2>2, <2>3
    <3> QED
      BY <2>3, <3>1 DEF Settle
  <2>7. TypeOK'
    BY <1>1, <2>1, <2>5, <2>6 DEF TypeOK, Waits
  <2>8. FiberInv'
    BY <2>1, <2>2, <2>4, <2>5 DEF FiberInv
  <2>9. ASSUME Passed, NEW x \in StepIds, Step[x].retryCount = 0
        PROVE  running'[x] = 0
    <3>1. x # Current
      BY <2>5, <2>9
    <3>2. running[x] = 0
      BY <1>1, <2>9, <3>1 DEF RunningInv
    <3> QED
      BY <2>3, <3>1, <3>2 DEF Settle
  <2>10. RunningInv'
    BY <2>1, <2>4, <2>9 DEF RunningInv
  <2> QED
    BY <1>1, <2>1, <2>7, <2>8, <2>10 DEF FlowInv
<1> QED
  BY <1>2, <1>3

\* The delay of a step is over.
LEMMA DelayEndStep ==
  ASSUME FlowInv, DelayEnd
  PROVE  FlowInv'
<1> DEFINE r == [step |-> Current, status |-> "passed", frame |-> Top.id]
<1>1. TypeOK /\ Report(stack, results, frames) /\ FiberInv /\ RunningInv
  BY DEF FlowInv
<1>2. Top.steps # <<>> /\ pc = "sleeping"
  BY <1>1 DEF DelayEnd, FiberInv
<1>3. /\ Push(Current, "passed", Top.id) /\ pc' = "next" /\ stack' = WithTop(After(Top))
      /\ UNCHANGED <<attempts, running, frames>>
  BY DEF DelayEnd
<1>4. Top \in Frame /\ Tail(Top.steps) \in Seq(StepIds)
  BY <1>1, <1>2, TopFacts
<1>5. ~Fatal(r)
  BY DEF Fatal
<1>6. /\ After(Top) \in Frame /\ After(Top).id = Top.id /\ After(Top).loop = Top.loop
      /\ After(Top).steps = Tail(Top.steps)
  BY <1>4, WithSteps DEF After
<1> HIDE DEF After
<1>7. stack' \in Seq(Frame) /\ stack' # <<>> /\ results' \in Seq(Result) /\ Report(stack', results', frames)
  BY <1>1, <1>2, <1>3, <1>5, <1>6, Recorded
<1>8. TypeOK'
  BY <1>1, <1>3, <1>7 DEF TypeOK, Waits
<1>9. FiberInv' /\ RunningInv'
  <2>1. Passed' => \A x \in StepIds : Step[x].retryCount = 0 => running'[x] = 0
    BY <1>1, <1>2, <1>3, PassedFacts DEF RunningInv
  <2> QED
    BY <1>3, <2>1, BetweenSteps
<1> QED
  BY <1>3, <1>7, <1>8, <1>9 DEF FlowInv

\* The condition's result is recorded, and one of its branches is called.
LEMMA ConditionStep ==
  ASSUME FlowInv, NEW s \in StepIds, Condition(s)
  PROVE  FlowInv'
<1> DEFINE r == [step |-> s, status |-> "passed", frame |-> Top.id]
           mid == WithTop(After(Top))
<1>1. TypeOK /\ Report(stack, results, frames) /\ FiberInv /\ RunningInv
  BY DEF FlowInv
<1>2. pc = "next" /\ Top.steps # <<>> /\ Current = s
  BY DEF Condition, AtStep
<1>3. /\ Push(s, "passed", Top.id) /\ frames' = frames + 1 /\ pc' = pc
      /\ UNCHANGED <<attempts, running>>
  BY DEF Condition
<1>4. PICK branch \in {Step[s].steps, Step[s].elseSteps} : stack' = Append(mid, Call(frames + 1, branch))
  BY DEF Condition
<1>5. branch \in Seq(StepIds) /\ frames \in Nat /\ stack \in Seq(Frame) /\ results \in Seq(Result)
  BY <1>1, <1>4, FlowAssumption DEF TypeOK
<1>6. Call(frames + 1, branch) \in Frame /\ Call(frames + 1, branch).id = frames + 1
      /\ Call(frames + 1, branch).loop = NoStep
  BY <1>5 DEF Call, Frame
<1>7. /\ Len(stack) \in Nat /\ Len(stack) >= 1 /\ Top = stack[Len(stack)]
      /\ Top \in Frame /\ Tail(Top.steps) \in Seq(StepIds) /\ Top.id \in Nat
  BY <1>1, <1>2, TopFacts
<1>8. /\ After(Top) \in Frame /\ After(Top).id = Top.id /\ After(Top).loop = Top.loop
      /\ After(Top).steps = Tail(Top.steps)
  BY <1>7, WithSteps DEF After
<1>9. /\ mid \in Seq(Frame) /\ Replaced(stack, mid) /\ mid[Len(stack)] = After(Top) /\ mid # <<>>
  BY <1>1, <1>8, WithTopFacts
<1>10. r \in Result /\ r.frame = Top.id /\ r.step = Head(Top.steps) /\ ~Fatal(r) /\ results' = Append(results, r)
  BY <1>2, <1>3, <1>7 DEF Result, Fatal, Push, Current
<1> HIDE DEF r, mid
<1>11. Report(mid, results', frames)
  BY <1>1, <1>2, <1>5, <1>7, <1>8, <1>9, <1>10, StepRecorded
<1>12. results' \in Seq(Result)
  BY <1>5, <1>10
<1> DEFINE c == Call(frames + 1, branch)
<1> HIDE DEF c
<1>13. c \in Frame /\ c.id = frames + 1 /\ c.loop = NoStep /\ stack' = Append(mid, c)
  BY <1>4, <1>6 DEF c
<1>14. /\ stack' \in Seq(Frame) /\ stack' # <<>> /\ Pushed(mid, stack') /\ stack'[Len(mid) + 1] = c
  BY <1>9, <1>13 DEF Pushed
<1>15. Report(stack', results', frames + 1)
  BY <1>5, <1>9, <1>11, <1>12, <1>13, <1>14, CallPushed
<1>16. TypeOK'
  BY <1>1, <1>3, <1>5, <1>12, <1>14 DEF TypeOK
<1>17. FiberInv' /\ RunningInv'
  <2>1. Passed' => \A x \in StepIds : Step[x].retryCount = 0 => running'[x] = 0
    BY <1>1, <1>2, <1>3, PassedFacts DEF RunningInv
  <2> QED
    BY <1>2, <1>3, <2>1, BetweenSteps
<1> QED
  BY <1>3, <1>15, <1>16, <1>17 DEF FlowInv

\* The number of iterations a loop is given.
LEMMA LoopLimit ==
  ASSUME NEW s \in StepIds
  PROVE  loopMaxIterations(Step[s].count, Step[s].maxIterations) \in Nat
<1>1. /\ Step[s].count # NoNumber => Step[s].count \in Int
      /\ Step[s].maxIterations # NoNumber => Step[s].maxIterations \in Int
      /\ DefaultMax \in Nat
  BY FlowAssumption
<1>2. \A n \in Int : AtLeast0(n) \in Nat
  BY DEF AtLeast0
<1> QED
  BY <1>1, <1>2 DEF loopMaxIterations

\* A loop starts.
LEMMA LoopStartStep ==
  ASSUME FlowInv, NEW s \in StepIds, LoopStart(s)
  PROVE  FlowInv'
<1> DEFINE mid == WithTop(After(Top))
           f == [id |-> Top.id, steps |-> <<>>, loop |-> s,
                 left |-> loopMaxIterations(Step[s].count, Step[s].maxIterations)]
<1>1. TypeOK /\ Report(stack, results, frames) /\ FiberInv /\ RunningInv
  BY DEF FlowInv
<1>2. pc = "next" /\ Top.steps # <<>> /\ Current = s
  BY DEF LoopStart, AtStep
<1>3. stack' = Append(mid, f) /\ UNCHANGED <<pc, attempts, results, running, frames>>
  BY DEF LoopStart
<1>4. stack \in Seq(Frame) /\ results \in Seq(Result) /\ frames \in Nat
  BY <1>1 DEF TypeOK
<1>5. /\ Len(stack) \in Nat /\ Len(stack) >= 1 /\ Top = stack[Len(stack)]
      /\ Top \in Frame /\ Tail(Top.steps) \in Seq(StepIds) /\ Top.id \in Nat
  BY <1>1, <1>2, TopFacts
<1>6. /\ After(Top) \in Frame /\ After(Top).id = Top.id /\ After(Top).loop = Top.loop
      /\ After(Top).steps = Tail(Top.steps)
  BY <1>5, WithSteps DEF After
<1>7. /\ mid \in Seq(Frame) /\ Replaced(stack, mid) /\ mid[Len(stack)] = After(Top)
      /\ Len(mid) = Len(stack)
  BY <1>1, <1>6, WithTopFacts
<1>8. f \in Frame /\ f.id = Top.id /\ f.loop = Head(Top.steps) /\ f.steps = <<>>
  BY <1>2, <1>5, LoopLimit DEF Frame, Current
<1> HIDE DEF mid, f
<1>9. /\ stack' \in Seq(Frame) /\ stack' # <<>> /\ Len(stack') = Len(stack) + 1
      /\ stack'[Len(stack) + 1] = f /\ \A i \in 1..Len(stack) : stack'[i] = mid[i]
  BY <1>3, <1>7, <1>8
<1>10. /\ stack'[Len(stack)] = After(Top)
       /\ \A i \in 1..(Len(stack) - 1) : stack'[i] = stack[i]
  BY <1>5, <1>7, <1>9 DEF Replaced
<1>11. Report(stack', results, frames)
  BY <1>1, <1>2, <1>4, <1>5, <1>6, <1>8, <1>9, <1>10, LoopPushed
<1>12. TypeOK'
  BY <1>1, <1>3, <1>9 DEF TypeOK
<1>13. FiberInv' /\ RunningInv'
  <2>1. Passed' => \A x \in StepIds : Step[x].retryCount = 0 => running'[x] = 0
    BY <1>1, <1>2, <1>3 DEF RunningInv, Passed
  <2> QED
    BY <1>2, <1>3, <2>1, BetweenSteps
<1> QED
  BY <1>3, <1>11, <1>12, <1>13 DEF FlowInv

\* A loop goes on with another iteration.
LEMMA LoopIterateStep ==
  ASSUME FlowInv, LoopIterate
  PROVE  FlowInv'
<1> DEFINE g == [Top EXCEPT !.left = @ - 1]
           mid == WithTop(g)
           c == Call(frames + 1, Step[Top.loop].steps)
<1>1. TypeOK /\ Report(stack, results, frames) /\ FiberInv /\ RunningInv
  BY DEF FlowInv
<1>2. pc = "next" /\ Top.loop # NoStep /\ Top.left > 0
  BY DEF LoopIterate, AtLoop
<1>3. stack' = Append(mid, c) /\ frames' = frames + 1 /\ UNCHANGED <<pc, attempts, results, running>>
  BY DEF LoopIterate
<1>4. stack \in Seq(Frame) /\ results \in Seq(Result) /\ frames \in Nat
  BY <1>1 DEF TypeOK
<1>5. /\ Len(stack) \in Nat /\ Len(stack) >= 1 /\ Top = stack[Len(stack)]
      /\ Top \in Frame /\ Top.left \in Nat /\ Top.loop \in StepIds
  BY <1>1, <1>2, TopFacts
<1>6. g \in Frame /\ g.id = Top.id /\ g.loop = Top.loop /\ g.steps = Top.steps
  BY <1>2, <1>5 DEF Frame
<1>7. c \in Frame /\ c.id = frames + 1 /\ c.loop = NoStep
  BY <1>4, <1>5, FlowAssumption DEF Frame, Call
<1> HIDE DEF g, c
<1>8. mid \in Seq(Frame) /\ mid # <<>> /\ Replaced(stack, mid) /\ mid[Len(stack)] = g
  BY <1>1, <1>6, WithTopFacts
<1> HIDE DEF mid
<1>9. Report(mid, results, frames)
  BY <1>1, <1>4, <1>5, <1>6, <1>8, LeftChanged
<1>10. stack' \in Seq(Frame) /\ stack' # <<>> /\ Pushed(mid, stack') /\ stack'[Len(mid) + 1] = c
  BY <1>3, <1>7, <1>8 DEF Pushed
<1>11. Report(stack', results, frames + 1)
  BY <1>4, <1>7, <1>8, <1>9, <1>10, CallPushed
<1>12. TypeOK'
  BY <1>1, <1>3, <1>4, <1>10 DEF TypeOK
<1>13. FiberInv' /\ RunningInv'
  <2>1. Passed' => \A x \in StepIds : Step[x].retryCount = 0 => running'[x] = 0
    BY <1>1, <1>2, <1>3 DEF RunningInv, Passed
  <2> QED
    BY <1>2, <1>3, <2>1, BetweenSteps
<1> QED
  BY <1>3, <1>11, <1>12, <1>13 DEF FlowInv

\* A loop is over.
LEMMA LoopEndStep ==
  ASSUME FlowInv, LoopEnd
  PROVE  FlowInv'
<1> DEFINE r == [step |-> Top.loop, status |-> "passed", frame |-> Top.id]
<1>1. TypeOK /\ Report(stack, results, frames) /\ FiberInv /\ RunningInv
  BY DEF FlowInv
<1>2. pc = "next" /\ Top.loop # NoStep
  BY DEF LoopEnd, AtLoop
<1>3. /\ Push(Top.loop, "passed", Top.id) /\ stack' = Below
      /\ UNCHANGED <<pc, attempts, running, frames>>
  BY DEF LoopEnd
<1>4. stack \in Seq(Frame) /\ results \in Seq(Result) /\ frames \in Nat
  BY <1>1 DEF TypeOK
<1>5. /\ Len(stack) \in Nat /\ Len(stack) >= 1 /\ Top = stack[Len(stack)]
      /\ Top.id \in Nat /\ Top.loop \in StepIds
      /\ stack' \in Seq(Frame) /\ Dropped(stack, stack')
  BY <1>1, <1>2, <1>3, TopFacts
<1>6. r \in Result /\ r.frame = Top.id /\ r.step = Top.loop /\ ~Fatal(r) /\ results' = Append(results, r)
  BY <1>3, <1>5 DEF Result, Fatal, Push
<1> HIDE DEF r
<1>7. Report(stack', results', frames) /\ results' \in Seq(Result)
  BY <1>1, <1>2, <1>4, <1>5, <1>6, LoopDropped
<1>8. TypeOK'
  BY <1>1, <1>3, <1>5, <1>7 DEF TypeOK, Report, Numbered
<1>9. FiberInv' /\ RunningInv'
  <2>1. Passed' => \A x \in StepIds : Step[x].retryCount = 0 => running'[x] = 0
    BY <1>1, <1>2, <1>3, PassedFacts DEF RunningInv
  <2> QED
    BY <1>2, <1>3, <2>1, BetweenSteps
<1> QED
  BY <1>3, <1>7, <1>8, <1>9 DEF FlowInv

\* A branch or an iteration returns.
LEMMA ReturnStep ==
  ASSUME FlowInv, Return
  PROVE  FlowInv'
<1>1. TypeOK /\ Report(stack, results, frames) /\ FiberInv /\ RunningInv
  BY DEF FlowInv
<1>2. /\ pc = "next" /\ Len(stack) > 1 /\ Top.loop = NoStep /\ stack' = Below
      /\ UNCHANGED <<pc, attempts, results, running, frames>>
  BY DEF Return
<1>3. stack \in Seq(Frame) /\ results \in Seq(Result) /\ frames \in Nat
  BY <1>1 DEF TypeOK
<1>4. Top = stack[Len(stack)] /\ stack' \in Seq(Frame) /\ Dropped(stack, stack')
  BY <1>1, <1>2, TopFacts
<1>5. Report(stack', results, frames)
  BY <1>1, <1>2, <1>3, <1>4, CallDropped
<1>6. TypeOK'
  BY <1>1, <1>2, <1>4, <1>5 DEF TypeOK, Report, Numbered
<1>7. FiberInv' /\ RunningInv'
  <2>1. Passed' => \A x \in StepIds : Step[x].retryCount = 0 => running'[x] = 0
    BY <1>1, <1>2 DEF RunningInv, Passed
  <2> QED
    BY <1>2, <2>1, BetweenSteps
<1> QED
  BY <1>2, <1>5, <1>6, <1>7 DEF FlowInv

\* A step that leaves the calls and the results as they are.
LEMMA CallsStay ==
  ASSUME UNCHANGED <<stack, results, frames>>
  PROVE  /\ Report(stack, results, frames) => Report(stack', results', frames')
         /\ Top' = Top /\ Current' = Current /\ (Passed' <=> Passed)
<1>1. Top' = Top /\ Current' = Current /\ (Passed' <=> Passed)
  BY DEF Top, Current, Passed
<1> QED
  BY <1>1

LEMMA WaitStep ==
  ASSUME FlowInv,
         \/ \E s \in StepIds : RequestStart(s) \/ DelayStart(s)
         \/ Execute \/ StepsDone \/ Finish \/ Cancel \/ Throw
  PROVE  FlowInv'
<1>1. TypeOK /\ Report(stack, results, frames) /\ FiberInv /\ RunningInv
  BY DEF FlowInv
<1>2. UNCHANGED <<stack, results, frames>>
  BY DEF RequestStart, DelayStart, Execute, StepsDone, Finish, Cancel, Throw
<1>3. /\ Report(stack', results', frames')
      /\ Top' = Top /\ Current' = Current /\ (Passed' <=> Passed)
      /\ Len(stack') = Len(stack)
  BY <1>1, <1>2, CallsStay
<1>4. running \in [StepIds -> Nat] /\ (Top.steps # <<>> => Current \in StepIds)
  BY <1>1, TopFacts DEF TypeOK
<1>5. CASE \E s \in StepIds : RequestStart(s)
  <2>1. PICK s \in StepIds : RequestStart(s)
    BY <1>5
  <2>2. /\ pc = "next" /\ pc' = "attempt" /\ Top.steps # <<>> /\ Current = s
        /\ Step[s].type = "request" /\ attempts' = Step[s].retryCount /\ running' = running
        /\ Step[s].retryCount \in Nat
    BY <2>1, FlowAssumption DEF RequestStart, AtStep
  <2>3. attempts' <= Step[Current].retryCount
    BY <2>2
  <2>4. TypeOK' /\ FiberInv' /\ RunningInv'
    BY <1>1, <1>2, <1>3, <2>2, <2>3 DEF TypeOK, Waits, FiberInv, RunningInv
  <2> QED
    BY <1>3, <2>4 DEF FlowInv
<1>6. CASE \E s \in StepIds : DelayStart(s)
  <2>1. /\ pc = "next" /\ pc' = "sleeping" /\ Top.steps # <<>> /\ Step[Current].type = "delay"
        /\ UNCHANGED <<attempts, running>>
    BY <1>6 DEF DelayStart, AtStep
  <2>2. TypeOK' /\ FiberInv' /\ RunningInv'
    BY <1>1, <1>2, <1>3, <2>1 DEF TypeOK, Waits, FiberInv, RunningInv
  <2> QED
    BY <1>3, <2>2 DEF FlowInv
<1>7. CASE Execute
  <2>1. /\ pc = "attempt" /\ pc' = "awaiting" /\ attempts' = attempts
        /\ running' = [running EXCEPT ![Current] = @ + 1]
    BY <1>7 DEF Execute
  <2>2. Current \in StepIds /\ running[Current] \in Nat
    BY <1>1, <1>4, <2>1 DEF FiberInv
  <2>3. /\ running' \in [StepIds -> Nat] /\ running'[Current] = running[Current] + 1
        /\ \A x \in StepIds : x # Current => running'[x] = running[x]
    BY <1>4, <2>1, <2>2
  <2>4. TypeOK' /\ FiberInv'
    BY <1>1, <1>2, <1>3, <2>1, <2>2, <2>3 DEF TypeOK, Waits, FiberInv
  <2>5. ASSUME Passed, NEW x \in StepIds, Step[x].retryCount = 0
        PROVE  running'[x] = IF Current = x THEN 1 ELSE 0
    BY <1>1, <2>1, <2>3, <2>5 DEF RunningInv
  <2>6. RunningInv'
    BY <1>3, <2>1, <2>5 DEF RunningInv
  <2> QED
    BY <1>3, <2>4, <2>6 DEF FlowInv
<1>8. CASE StepsDone \/ Finish \/ Cancel \/ Throw
  <2>1. /\ UNCHANGED <<attempts, running>> /\ pc # "passed"
        /\ \/ pc = "next" /\ Len(stack) = 1 /\ Top.steps = <<>> /\ pc' = "reporting"
           \/ pc = "reporting" /\ pc' = IF Passed THEN "passed" ELSE "failed"
           \/ pc' \in {"cancelled", "thrown"}
    BY <1>8 DEF StepsDone, Finish, Cancel, Throw, Waits
  <2>2. TypeOK'
    BY <1>1, <1>2, <2>1 DEF TypeOK, Waits, Ends
  <2>3. FiberInv'
    BY <1>1, <1>3, <2>1 DEF FiberInv
  <2>4. RunningInv'
    BY <1>1, <1>3, <2>1 DEF RunningInv
  <2> QED
    BY <1>3, <2>2, <2>3, <2>4 DEF FlowInv
<1> QED
  BY <1>5, <1>6, <1>7, <1>8

\* An execution that nobody awaits settles.
LEMMA StrayStep ==
  ASSUME FlowInv, NEW s \in StepIds, StrayEnds(s)
  PROVE  FlowInv'
<1>1. TypeOK /\ Report(stack, results, frames) /\ FiberInv /\ RunningInv
  BY DEF FlowInv
<1>2. /\ running' = [running EXCEPT ![s] = @ - 1] /\ UNCHANGED <<pc, stack, attempts, results, frames>>
  BY DEF StrayEnds
<1>3. running \in [StepIds -> Nat] /\ running[s] \in Nat
  BY <1>1 DEF TypeOK
<1>4. running[s] > 0 /\ (pc = "awaiting" /\ Current = s => running[s] > 1)
  BY <1>3 DEF StrayEnds
<1>5. /\ running' \in [StepIds -> Nat] /\ running'[s] = running[s] - 1
      /\ \A x \in StepIds : x # s => running'[x] = running[x]
  BY <1>2, <1>3, <1>4
<1>6. /\ Report(stack', results', frames')
      /\ Top' = Top /\ Current' = Current /\ (Passed' <=> Passed) /\ Len(stack') = Len(stack)
  BY <1>1, <1>2, CallsStay
<1>7. TypeOK'
  BY <1>1, <1>2, <1>5 DEF TypeOK
<1>8. FiberInv'
  <2>1. ASSUME pc = "awaiting" PROVE running'[Current] > 0
    <3>1. running[Current] > 0 /\ Current \in StepIds
      BY <1>1, <2>1, TopFacts DEF FiberInv
    <3>2. CASE Current = s
      BY <1>3, <1>4, <1>5, <2>1, <3>2
    <3>3. CASE Current # s
      BY <1>5, <3>1, <3>3
    <3> QED
      BY <3>2, <3>3
  <2> QED
    BY <1>1, <1>2, <1>6, <2>1 DEF FiberInv
<1>9. RunningInv'
  <2>1. ASSUME Passed, pc \notin {"cancelled", "thrown"}, NEW x \in StepIds, Step[x].retryCount = 0
        PROVE  running'[x] = IF pc = "awaiting" /\ Current = x THEN 1 ELSE 0
    <3>1. running[x] = IF pc = "awaiting" /\ Current = x THEN 1 ELSE 0
      BY <1>1, <2>1 DEF RunningInv
    <3>2. x # s
      BY <1>3, <1>4, <3>1
    <3> QED
      BY <1>5, <3>1, <3>2
  <2> QED
    BY <1>1, <1>2, <1>6, <2>1 DEF RunningInv
<1> QED
  BY <1>6, <1>7, <1>8, <1>9 DEF FlowInv

LEMMA FlowInit ==
  ASSUME Init PROVE FlowInv
<1> DEFINE f == Call(1, Main)
<1>1. f \in Frame /\ f.id = 1 /\ f.loop = NoStep /\ f.steps = Main
  BY FlowAssumption DEF Call, Frame
<1> HIDE DEF f
<1>2. stack = <<f>> /\ results = <<>> /\ frames = 1 /\ pc = "next"
  BY DEF Init, f
<1>3. Len(stack) = 1 /\ stack[1] = f /\ stack # <<>> /\ Len(results) = 0 /\ stack \in Seq(Frame)
  BY <1>1, <1>2
<1>4. TypeOK
  BY <1>2, <1>3 DEF Init, TypeOK, Waits
<1>5. Numbered(stack, frames) /\ Ended(stack, results, frames)
  BY <1>1, <1>2, <1>3 DEF Numbered, Ended
<1>6. Count(results, Len(results)) = 0
  <2>1. {j \in 1..Len(results) : results[j].frame = 1} = {}
    BY <1>3
  <2>2. Count(results, Len(results)) = Cardinality({})
    BY <2>1 DEF Count
  <2> QED
    BY <2>2, FS_EmptySet
<1>7. Accounted(stack, results)
  <2>1. Owed(stack) = 0
    BY <1>3 DEF Owed
  <2>2. Len(Main) \in Nat /\ \A i \in 1..Len(Main) : 0 + 0 + i = i
    BY FlowAssumption
  <2> QED
    BY <1>1, <1>3, <1>6, <2>1, <2>2 DEF Accounted
<1>8. FiberInv /\ RunningInv
  BY <1>2 DEF Init, FiberInv, RunningInv
<1> QED
  BY <1>4, <1>5, <1>7, <1>8 DEF FlowInv, Report

LEMMA FlowNext ==
  ASSUME FlowInv, [Next]_vars PROVE FlowInv'
<1>1. CASE Fiber
  <2>1. ASSUME NEW s \in StepIds, RequestStart(s) \/ DelayStart(s) \/ Condition(s) \/ LoopStart(s)
        PROVE  FlowInv'
    BY <2>1, WaitStep, ConditionStep, LoopStartStep
  <2>2. CASE Execute \/ StepsDone \/ Finish
    BY <2>2, WaitStep
  <2>3. CASE Timeout
    BY <2>3, RetryStep DEF Timeout
  <2>4. CASE DelayEnd
    BY <2>4, DelayEndStep
  <2>5. CASE LoopIterate
    BY <2>5, LoopIterateStep
  <2>6. CASE LoopEnd
    BY <2>6, LoopEndStep
  <2>7. CASE Return
    BY <2>7, ReturnStep
  <2> QED
    BY <1>1, <2>1, <2>2, <2>3, <2>4, <2>5, <2>6, <2>7 DEF Fiber
<1>2. CASE Answer("passed")
  BY <1>2, CompleteStep DEF Answer
<1>3. CASE Answer("failed")
  BY <1>3, CompleteStep DEF Answer
<1>4. CASE Reject
  BY <1>4, RetryStep DEF Reject
<1>5. CASE Cancel \/ Throw
  BY <1>5, WaitStep
<1>6. CASE \E s \in StepIds : StrayEnds(s)
  BY <1>6, StrayStep
<1>7. CASE UNCHANGED vars
  <2>1. UNCHANGED <<pc, stack, attempts, results, running, frames>>
    BY <1>7 DEF vars
  <2> QED
    BY <2>1, CallsStay DEF FlowInv, TypeOK, FiberInv, RunningInv
<1> QED
  BY <1>1, <1>2, <1>3, <1>4, <1>5, <1>6, <1>7 DEF Next

\* What the invariant says of the report.
LEMMA FlowInvReports ==
  ASSUME FlowInv PROVE RunIsReported
<1>1. TypeOK /\ Report(stack, results, frames) /\ FiberInv /\ RunningInv
  BY DEF FlowInv
<1>2. FailureEndsItsSteps
  BY <1>1 DEF Report, Ended, FailureEndsItsSteps
<1>3. CleanWhenPassed
  BY <1>1 DEF RunningInv, CleanWhenPassed
<1>4. \A i \in 1..Len(results) : Nth(i) = Count(results, i)
  BY DEF Nth, OfMain, Count
<1>5. Reported = Count(results, Len(results)) /\ Reported \in Nat
  <2>1. Len(results) \in Nat /\ results \in Seq(Result)
    BY <1>1 DEF TypeOK
  <2>2. Count(results, Len(results)) \in Nat
    BY <2>1, CountType
  <2>3. Reported = Count(results, Len(results))
    BY DEF Reported, Nth, OfMain, Count
  <2> QED
    BY <2>2, <2>3
<1>6. MainStepsReported
  <2> DEFINE todo == stack[1].steps
  <2>1. Owed(stack) \in {0, 1} /\ Len(Main) \in Nat /\ Len(todo) \in Nat
    <3>1. 1 \in 1..Len(stack) /\ stack \in Seq(Frame)
      BY <1>1 DEF TypeOK
    <3>2. stack[1] \in Frame
      BY <3>1
    <3>3. stack[1].steps \in Seq(StepIds)
      BY <3>2 DEF Frame
    <3> QED
      BY <3>3, FlowAssumption DEF Owed
  <2>2. /\ Reported + Owed(stack) + Len(todo) <= Len(Main)
        /\ Reported + Owed(stack) + Len(todo) = Len(Main) \/ CutShort(results)
        /\ \A i \in 1..Len(results) : results[i].frame = 1 => results[i].step = Main[Count(results, i)]
    BY <1>1, <1>5 DEF Report, Accounted
  <2>3. Reported <= Len(Main)
    BY <1>5, <2>1, <2>2
  <2>4. \A i \in 1..Len(results) : OfMain(i) => results[i].step = Main[Nth(i)]
    BY <1>4, <2>2 DEF OfMain
  <2>5. CutShort(results) => \E i \in 1..Len(results) : OfMain(i) /\ Nth(i) = Reported /\ Fatal(results[i])
    BY <1>4, <1>5 DEF CutShort, OfMain
  <2>6. ASSUME pc \in {"passed", "failed"} PROVE Owed(stack) = 0 /\ Len(todo) = 0
    BY <1>1, <2>6 DEF FiberInv, Owed, Top
  <2> HIDE DEF todo
  <2>7. pc \in {"passed", "failed"} => Reported = Len(Main) \/ CutShort(results)
    BY <1>5, <2>1, <2>2, <2>6
  <2> QED
    BY <2>3, <2>4, <2>5, <2>7 DEF MainStepsReported
<1> QED
  BY <1>1, <1>2, <1>3, <1>6 DEF RunIsReported

\* The report of a run is true to it, for every flow: a failure that is not
\* tolerated ends the steps it is one of, the flow's own steps are reported in
\* order, once each and up to such a failure, and a flow that passed left no
\* execution behind of a step that is not retried (stepsEffect, requestEffect,
\* conditionEffect, loopEffect).
THEOREM ReportsAreTrue == Spec => []RunIsReported
<1>1. Init => FlowInv
  BY FlowInit
<1>2. FlowInv /\ [Next]_vars => FlowInv'
  BY FlowNext
<1>3. FlowInv => RunIsReported
  BY FlowInvReports
<1> QED
  BY <1>1, <1>2, <1>3, PTL DEF Spec

-----------------------------------------------------------------------------
(* The page: drafts.                                                       *)

\* A part of a draft.
LEMMA PartFacts ==
  ASSUME NEW s \in Seq(FlowSteps), NEW i \in 1..(Len(s) + 1), NEW j \in 0..Len(s), i <= j + 1
  PROVE  /\ SubSeq(s, i, j) \in Seq(FlowSteps) /\ Len(SubSeq(s, i, j)) = j - i + 1
         /\ \A k \in 1..(j - i + 1) : SubSeq(s, i, j)[k] = s[k + i - 1]
<1>1. Len(s) \in Nat /\ i \in Nat /\ j \in Nat
  OBVIOUS
<1>2. PICK d \in Nat : d = j - i + 1
  BY <1>1
<1>3. SubSeq(s, i, j) = [k \in 1..d |-> s[k + i - 1]]
  <2>1. SubSeq(s, i, j) = [k \in 1..(1 + j - i) |-> s[i + k - 1]]
    BY <1>1
  <2>2. 1 + j - i = d /\ \A k \in 1..d : i + k - 1 = k + i - 1
    BY <1>1, <1>2
  <2> QED
    BY <2>1, <2>2
<1>4. \A k \in 1..d : k + i - 1 \in 1..Len(s) /\ s[k + i - 1] \in FlowSteps
  <2>1. \A k \in 1..d : k + i - 1 \in 1..Len(s)
    BY <1>1, <1>2
  <2> QED
    BY <2>1
<1> DEFINE q == SubSeq(s, i, j)
<1>5. q = [k \in 1..d |-> s[k + i - 1]]
  BY <1>3
<1> HIDE DEF q
<1>6. q \in Seq(FlowSteps) /\ Len(q) = d /\ \A k \in 1..d : q[k] = s[k + i - 1]
  BY <1>4, <1>5
<1> QED
  BY <1>2, <1>6 DEF q

\* A draft without one of its steps.
LEMMA RemovedFacts ==
  ASSUME NEW s \in Seq(FlowSteps), NEW i \in 1..Len(s)
  PROVE  /\ RemoveAt(s, i) \in Seq(FlowSteps) /\ Len(RemoveAt(s, i)) = Len(s) - 1
         /\ \A k \in 1..(Len(s) - 1) : RemoveAt(s, i)[k] = IF k < i THEN s[k] ELSE s[k + 1]
<1> DEFINE a == SubSeq(s, 1, i - 1)
           b == SubSeq(s, i + 1, Len(s))
<1>1. Len(s) \in Nat /\ i \in Nat /\ i >= 1 /\ i <= Len(s)
  OBVIOUS
<1>2. /\ a \in Seq(FlowSteps) /\ Len(a) = i - 1
      /\ \A k \in 1..(i - 1) : a[k] = s[k]
  <2>1. 1 \in 1..(Len(s) + 1) /\ i - 1 \in 0..Len(s) /\ 1 <= i - 1 + 1 /\ i - 1 - 1 + 1 = i - 1
        /\ \A k \in 1..(i - 1) : k + 1 - 1 = k
    BY <1>1
  <2> QED
    BY <2>1, PartFacts
<1>3. /\ b \in Seq(FlowSteps) /\ Len(b) = Len(s) - i
      /\ \A k \in 1..(Len(s) - i) : b[k] = s[k + i]
  <2>1. PICK m \in 1..(Len(s) + 1) : m = i + 1
    BY <1>1
  <2>2. Len(s) \in 0..Len(s) /\ m <= Len(s) + 1
    BY <1>1, <2>1
  <2>3. /\ SubSeq(s, m, Len(s)) \in Seq(FlowSteps) /\ Len(SubSeq(s, m, Len(s))) = Len(s) - m + 1
        /\ \A k \in 1..(Len(s) - m + 1) : SubSeq(s, m, Len(s))[k] = s[k + m - 1]
    BY <2>2, PartFacts
  <2>4. Len(s) - m + 1 = Len(s) - i /\ \A k \in 1..(Len(s) - i) : k + m - 1 = k + i
    BY <1>1, <2>1
  <2> QED
    BY <2>1, <2>3, <2>4
<1>4. RemoveAt(s, i) = a \o b
  BY DEF RemoveAt
<1> HIDE DEF a, b
<1>5. /\ a \o b \in Seq(FlowSteps) /\ Len(a \o b) = Len(a) + Len(b)
      /\ \A k \in 1..(Len(a) + Len(b)) : (a \o b)[k] = IF k <= Len(a) THEN a[k] ELSE b[k - Len(a)]
  <2>1. a \in Seq(FlowSteps) /\ b \in Seq(FlowSteps)
    BY <1>2, <1>3
  <2> QED
    BY <2>1
<1>6. ASSUME NEW k \in 1..(Len(s) - 1)
      PROVE  (a \o b)[k] = IF k < i THEN s[k] ELSE s[k + 1]
  <2>1. (a \o b)[k] = IF k <= i - 1 THEN a[k] ELSE b[k - (i - 1)]
    BY <1>1, <1>2, <1>3, <1>5
  <2>2. CASE k < i
    BY <1>1, <1>2, <2>1, <2>2
  <2>3. CASE ~(k < i)
    <3>1. k - (i - 1) \in 1..(Len(s) - i) /\ k - (i - 1) + i = k + 1 /\ ~(k <= i - 1)
      BY <1>1, <2>3
    <3> QED
      BY <1>3, <2>1, <2>3, <3>1
  <2> QED
    BY <2>2, <2>3
<1>7. Len(a) + Len(b) = Len(s) - 1
  BY <1>1, <1>2, <1>3
<1> QED
  BY <1>4, <1>5, <1>6, <1>7

\* A draft with a step more.
LEMMA InsertedFacts ==
  ASSUME NEW s \in Seq(FlowSteps), NEW i \in 1..(Len(s) + 1), NEW e \in FlowSteps
  PROVE  InsertAt(s, i, e) \in Seq(FlowSteps) /\ Len(InsertAt(s, i, e)) = Len(s) + 1
<1> DEFINE a == SubSeq(s, 1, i - 1)
           b == SubSeq(s, i, Len(s))
<1>1. Len(s) \in Nat /\ i \in Nat /\ i >= 1 /\ i <= Len(s) + 1
  OBVIOUS
<1>2. a \in Seq(FlowSteps) /\ Len(a) = i - 1
  <2>1. 1 \in 1..(Len(s) + 1) /\ i - 1 \in 0..Len(s) /\ 1 <= i - 1 + 1 /\ i - 1 - 1 + 1 = i - 1
    BY <1>1
  <2> QED
    BY <2>1, PartFacts
<1>3. b \in Seq(FlowSteps) /\ Len(b) = Len(s) - i + 1
  <2>1. Len(s) \in 0..Len(s) /\ i <= Len(s) + 1
    BY <1>1
  <2> QED
    BY <2>1, PartFacts
<1>4. InsertAt(s, i, e) = a \o <<e>> \o b
  BY DEF InsertAt
<1> HIDE DEF a, b
<1>5. a \o <<e>> \in Seq(FlowSteps) /\ Len(a \o <<e>>) = i - 1 + 1
  BY <1>2
<1>6. a \o <<e>> \o b \in Seq(FlowSteps) /\ Len(a \o <<e>> \o b) = i - 1 + 1 + (Len(s) - i + 1)
  BY <1>3, <1>5
<1> QED
  BY <1>1, <1>4, <1>6

-----------------------------------------------------------------------------
(* The page: its modal and its runs.                                       *)

PageTypes ==
  /\ modal \in [no : 0..MaxModals, id : FlowRows \union {Unnamed}, steps : Seq(FlowSteps), selected : Nat]
  /\ modal.selected <= Len(modal.steps)
  /\ opened \in 0..MaxModals
  /\ fiber \in [1..MaxModals -> FlowRuns \union {NoRun}]
  /\ flowRuns \in [FlowRuns -> [pc : {"idle", "running", "interrupting", "exited", "returned"},
                                modal : 0..MaxModals]]
  /\ flowRunning \in BOOLEAN /\ flowResult \in FlowRuns \union {NoRun} /\ flowLog \subseteq FlowRuns
  /\ DOMAIN flows \subseteq FlowRows /\ \A k \in DOMAIN flows : flows[k] \in Seq(FlowSteps)
  /\ late \subseteq FlowRuns /\ left \subseteq FlowRuns

\* A run belongs to a modal, and as long as runs do not overlap there is one at
\* a time that has not returned.
OneAtATime ==
  /\ \A r \in FlowRuns : flowRuns[r].pc # "idle" => flowRuns[r].modal # 0
  /\ apart => \A q, r \in Pending : q = r

\* A run that can still show something, or is shown, is of the open modal or is
\* known to be late or left: when no modal is open every such run is.
KnownAsLate ==
  \A r \in FlowRuns :
    r \in Pending \/ r \in flowLog \/ r = flowResult =>
      (flowRuns[r].modal = modal.no /\ Open) \/ r \in late \union left

PageInv ==
  /\ PageTypes /\ OneAtATime /\ KnownAsLate
  /\ FlowCanBeStopped

LEMMA PageInitially ==
  ASSUME FlowPageInit PROVE PageInv
<1>1. /\ modal = NoModal /\ opened = 0 /\ fiber = [m \in 1..MaxModals |-> NoRun]
      /\ flowRuns = [r \in FlowRuns |-> NotRun] /\ flowRunning = FALSE /\ flowResult = NoRun
      /\ flowLog = {} /\ flows = <<>> /\ apart = TRUE /\ late = {} /\ left = {}
  BY DEF FlowPageInit
<1>2. /\ NoModal \in [no : 0..MaxModals, id : FlowRows \union {Unnamed}, steps : Seq(FlowSteps), selected : Nat]
      /\ NoModal.selected <= Len(NoModal.steps) /\ NoModal.no = 0
  BY FlowPageAssumption DEF NoModal
<1>3. /\ NotRun \in [pc : {"idle", "running", "interrupting", "exited", "returned"}, modal : 0..MaxModals]
      /\ NotRun.pc = "idle"
  BY FlowPageAssumption DEF NotRun
<1>4. Pending = {}
  BY <1>1, <1>3 DEF Pending
<1>5. DOMAIN flows = {}
  BY <1>1
<1>6. opened \in 0..MaxModals
  BY <1>1, FlowPageAssumption
<1>7. PageTypes
  BY <1>1, <1>2, <1>3, <1>5, <1>6 DEF PageTypes
<1>8. OneAtATime /\ KnownAsLate
  BY <1>1, <1>3, <1>4, FlowPageAssumption DEF OneAtATime, KnownAsLate
<1>9. FlowCanBeStopped
  BY <1>1, <1>3 DEF FlowCanBeStopped
<1> QED
  BY <1>7, <1>8, <1>9 DEF PageInv

\* What the user does to a draft does not concern the runs.
LEMMA DraftStep ==
  ASSUME PageInv, UNCHANGED runVars, modal'.no = modal.no, PageTypes'
  PROVE  PageInv'
<1>1. /\ fiber' = fiber /\ flowRuns' = flowRuns /\ flowRunning' = flowRunning
      /\ flowResult' = flowResult /\ flowLog' = flowLog /\ apart' = apart /\ late' = late /\ left' = left
  BY DEF runVars
<1>2. Pending' = Pending /\ Open' = Open
  BY <1>1 DEF Pending, Open
<1> QED
  BY <1>1, <1>2 DEF PageInv, OneAtATime, KnownAsLate, FlowCanBeStopped

\* The panel opens a modal.
LEMMA OpensStep ==
  ASSUME PageInv, NEW id \in FlowRows \union {Unnamed}, NEW steps \in Seq(FlowSteps), Opens(id, steps)
  PROVE  PageInv'
<1>1. /\ ~Open /\ opened < MaxModals /\ opened' = opened + 1 /\ flows' = flows
      /\ modal' = [NoModal EXCEPT !.no = opened + 1, !.id = id, !.steps = steps]
      /\ fiber' = fiber /\ flowRuns' = flowRuns /\ flowRunning' = flowRunning
      /\ flowResult' = flowResult /\ flowLog' = flowLog /\ apart' = apart /\ late' = late /\ left' = left
  BY DEF Opens, runVars
<1>2. opened \in 0..MaxModals /\ opened + 1 \in 0..MaxModals /\ opened + 1 # 0
  BY <1>1, FlowPageAssumption DEF PageInv, PageTypes
<1>3. modal' = [no |-> opened + 1, id |-> id, steps |-> steps, selected |-> 0]
  BY <1>1 DEF NoModal
<1>4. /\ modal' \in [no : 0..MaxModals, id : FlowRows \union {Unnamed}, steps : Seq(FlowSteps), selected : Nat]
      /\ modal'.selected <= Len(modal'.steps) /\ modal'.no # 0
  <2>1. Len(steps) \in Nat
    OBVIOUS
  <2> QED
    BY <1>2, <1>3, <2>1
<1>5. PageTypes'
  BY <1>1, <1>2, <1>4 DEF PageInv, PageTypes
<1>6. Pending' = Pending
  BY <1>1 DEF Pending
<1>7. \A r \in FlowRuns : r \in Pending \/ r \in flowLog \/ r = flowResult => r \in late \union left
  BY <1>1 DEF PageInv, KnownAsLate
<1>8. OneAtATime' /\ KnownAsLate'
  BY <1>1, <1>6, <1>7 DEF PageInv, OneAtATime, KnownAsLate
<1>9. FlowCanBeStopped'
  <2>1. ASSUME apart, flowRunning
        PROVE  \E r \in Pending : r \in left
    <3>1. modal.no = 0 /\ \A r \in Pending : r \in FlowRuns /\ flowRuns[r].modal # 0
      BY <1>1 DEF Open, Pending, PageInv, OneAtATime
    <3> QED
      BY <2>1, <3>1 DEF PageInv, FlowCanBeStopped
  <2>2. ASSUME apart, NEW r \in FlowRuns, flowRuns[r].pc = "running"
        PROVE  r \in left
    BY <1>1, <2>2 DEF PageInv, FlowCanBeStopped
  <2> QED
    BY <1>1, <1>6, <2>1, <2>2 DEF FlowCanBeStopped
<1> QED
  BY <1>5, <1>8, <1>9 DEF PageInv

\* The editors of a draft keep its type.
LEMMA EditStep ==
  ASSUME PageInv, NEW steps \in Seq(FlowSteps), NEW selected \in 0..Len(steps),
         Draft([modal EXCEPT !.steps = steps, !.selected = selected])
  PROVE  PageInv'
<1> DEFINE m == [modal EXCEPT !.steps = steps, !.selected = selected]
<1>1. Len(steps) \in Nat /\ selected \in Nat /\ selected <= Len(steps)
  OBVIOUS
<1>2. modal \in [no : 0..MaxModals, id : FlowRows \union {Unnamed}, steps : Seq(FlowSteps), selected : Nat]
  BY DEF PageInv, PageTypes
<1>3. /\ m \in [no : 0..MaxModals, id : FlowRows \union {Unnamed}, steps : Seq(FlowSteps), selected : Nat]
      /\ m.selected <= Len(m.steps) /\ m.no = modal.no
  BY <1>1, <1>2
<1> HIDE DEF m
<1>4. modal' = m /\ opened' = opened /\ flows' = flows /\ UNCHANGED runVars
  BY DEF Draft, m
<1>5. PageTypes'
  BY <1>3, <1>4 DEF PageInv, PageTypes, runVars
<1> QED
  BY <1>3, <1>4, <1>5, DraftStep

LEMMA EditorsStep ==
  ASSUME PageInv,
         \/ \E i \in 1..Cardinality(FlowSteps) :
              \/ Select(i) \/ removeStep(i)
              \/ \E j \in 1..Cardinality(FlowSteps) : onDrop(i, j)
         \/ \E s \in FlowSteps : addStep(s)
  PROVE  PageInv'
<1> DEFINE q == modal.steps
           sel == modal.selected
<1>1. /\ modal \in [no : 0..MaxModals, id : FlowRows \union {Unnamed}, steps : Seq(FlowSteps), selected : Nat]
      /\ sel <= Len(q)
  BY DEF PageInv, PageTypes
<1>2. q \in Seq(FlowSteps) /\ Len(q) \in Nat /\ sel \in Nat /\ DOMAIN q = 1..Len(q)
  BY <1>1
<1>3. ASSUME NEW i, Select(i)
      PROVE  PageInv'
  <2>1. i \in 1..Len(q) /\ Draft([modal EXCEPT !.selected = i])
    BY <1>2, <1>3 DEF Select
  <2>2. [modal EXCEPT !.selected = i] = [modal EXCEPT !.steps = q, !.selected = i]
    BY <1>1
  <2>3. i \in 0..Len(q)
    BY <1>2, <2>1
  <2> HIDE DEF q
  <2> QED
    BY <1>2, <2>1, <2>2, <2>3, EditStep
<1>4. ASSUME NEW i, removeStep(i)
      PROVE  PageInv'
  <2> DEFINE fewer == RemoveAt(q, i)
             at == CASE sel = i -> 0 [] sel > i -> sel - 1 [] OTHER -> sel
  <2>1. i \in 1..Len(q) /\ Draft([modal EXCEPT !.steps = fewer, !.selected = at])
    BY <1>2, <1>4 DEF removeStep
  <2>2. fewer \in Seq(FlowSteps) /\ Len(fewer) = Len(q) - 1
    BY <1>2, <2>1, RemovedFacts
  <2>3. at \in 0..(Len(q) - 1)
    BY <1>1, <1>2, <2>1
  <2> HIDE DEF fewer, at, q
  <2> QED
    BY <2>1, <2>2, <2>3, EditStep
<1>5. ASSUME NEW i, NEW j, onDrop(i, j)
      PROVE  PageInv'
  <2> DEFINE moved == InsertAt(RemoveAt(q, i), j, q[i])
  <2>1. i \in 1..Len(q) /\ j \in 1..Len(q) /\ Draft([modal EXCEPT !.steps = moved, !.selected = j])
    BY <1>2, <1>5 DEF onDrop, reorderStep
  <2>2. RemoveAt(q, i) \in Seq(FlowSteps) /\ Len(RemoveAt(q, i)) = Len(q) - 1 /\ q[i] \in FlowSteps
    BY <1>2, <2>1, RemovedFacts
  <2>3. j \in 1..(Len(RemoveAt(q, i)) + 1) /\ Len(RemoveAt(q, i)) + 1 = Len(q)
    BY <1>2, <2>1, <2>2
  <2>4. moved \in Seq(FlowSteps) /\ Len(moved) = Len(q)
    BY <2>2, <2>3, InsertedFacts
  <2>5. j \in 0..Len(moved)
    BY <2>1, <2>4
  <2> HIDE DEF moved
  <2> QED
    BY <2>1, <2>4, <2>5, EditStep
<1>6. ASSUME NEW s \in FlowSteps, addStep(s)
      PROVE  PageInv'
  <2>1. Draft([modal EXCEPT !.steps = Append(q, s), !.selected = Len(q) + 1])
    BY <1>6 DEF addStep
  <2>2. Append(q, s) \in Seq(FlowSteps) /\ Len(Append(q, s)) = Len(q) + 1
    BY <1>2
  <2>3. Len(q) + 1 \in 0..Len(Append(q, s))
    BY <1>2, <2>2
  <2> HIDE DEF q
  <2> QED
    BY <2>1, <2>2, <2>3, EditStep
<1> QED
  BY <1>3, <1>4, <1>5, <1>6

\* The table of flows.
LEMMA FlowsStep ==
  ASSUME PageInv, NEW id \in FlowRows, deleteFlow(id) \/ saveFlow(id)
  PROVE  PageInv'
<1>1. modal' = modal /\ opened' = opened /\ UNCHANGED runVars
  BY DEF deleteFlow, saveFlow
<1>2. modal.steps \in Seq(FlowSteps)
  BY DEF PageInv, PageTypes
<1>3. /\ DOMAIN flows \subseteq FlowRows
      /\ \A k \in DOMAIN flows : flows[k] \in Seq(FlowSteps)
  BY DEF PageInv, PageTypes
<1>4. DOMAIN flows' \subseteq FlowRows /\ \A k \in DOMAIN flows' : flows'[k] \in Seq(FlowSteps)
  <2>1. CASE deleteFlow(id)
    BY <1>3, <2>1 DEF deleteFlow
  <2>2. CASE saveFlow(id)
    BY <1>2, <1>3, <2>2 DEF saveFlow
  <2> QED
    BY <2>1, <2>2
<1>5. PageTypes'
  BY <1>1, <1>4 DEF PageInv, PageTypes, runVars
<1> QED
  BY <1>1, <1>5, DraftStep

\* A run starts in the open modal.
LEMMA RunFlowStep ==
  ASSUME PageInv, NEW r \in FlowRuns, runFlow(r)
  PROVE  PageInv'
<1>1. /\ Open /\ ~flowRunning /\ flowRuns[r] = NotRun
      /\ flowRunning' = TRUE /\ flowResult' = NoRun /\ flowLog' = {}
      /\ flowRuns' = [flowRuns EXCEPT ![r] = [pc |-> "running", modal |-> modal.no]]
      /\ fiber' = [fiber EXCEPT ![modal.no] = r]
      /\ apart' = (apart /\ Pending = {})
      /\ UNCHANGED <<modal, opened, flows, late, left>>
  BY DEF runFlow
<1>2. /\ modal.no \in 0..MaxModals /\ modal.no # 0
      /\ fiber \in [1..MaxModals -> FlowRuns \union {NoRun}]
      /\ flowRuns \in [FlowRuns -> [pc : {"idle", "running", "interrupting", "exited", "returned"},
                                    modal : 0..MaxModals]]
  BY <1>1 DEF PageInv, PageTypes, Open
<1>3. modal.no \in 1..MaxModals
  BY <1>2, FlowPageAssumption
<1>4. /\ flowRuns'[r].pc = "running" /\ flowRuns'[r].modal = modal.no /\ fiber'[modal.no] = r
      /\ \A q \in FlowRuns : q # r => flowRuns'[q] = flowRuns[q]
  BY <1>1, <1>2, <1>3
<1>5. PageTypes'
  <2>1. fiber' \in [1..MaxModals -> FlowRuns \union {NoRun}]
    BY <1>1, <1>2
  <2>2. flowRuns' \in [FlowRuns -> [pc : {"idle", "running", "interrupting", "exited", "returned"},
                                   modal : 0..MaxModals]]
    BY <1>1, <1>2
  <2> QED
    BY <1>1, <2>1, <2>2 DEF PageInv, PageTypes
<1>6. \A q \in FlowRuns : q \in Pending' => q = r \/ q \in Pending
  BY <1>4 DEF Pending
<1>7. OneAtATime'
  BY <1>1, <1>2, <1>4, <1>6 DEF PageInv, OneAtATime, Pending
<1>8. KnownAsLate'
  BY <1>1, <1>4, <1>6, FlowPageAssumption DEF PageInv, KnownAsLate, Open
<1>9. FlowCanBeStopped'
  <2>1. r \in Pending'
    BY <1>4 DEF Pending
  <2>2. ASSUME apart', NEW q \in FlowRuns, flowRuns'[q].pc = "running" PROVE q = r
    BY <1>1, <1>4, <2>2 DEF Pending
  <2> QED
    BY <1>1, <1>4, <2>1, <2>2 DEF FlowCanBeStopped, Open
<1> QED
  BY <1>1, <1>5, <1>7, <1>8, <1>9 DEF PageInv, Open

\* A step of a run, and the end of its fiber.
LEMMA FiberStep ==
  ASSUME PageInv, NEW r \in FlowRuns, StepLogged(r) \/ FiberExits(r)
  PROVE  PageInv'
<1>1. /\ flowRuns[r].pc \in {"running", "interrupting"}
      /\ UNCHANGED <<modal, opened, fiber, flowRunning, flowResult, flows, apart, late, left>>
      /\ \/ flowLog' = flowLog \union {r} /\ flowRuns' = flowRuns
         \/ flowLog' = flowLog /\ flowRuns' = [flowRuns EXCEPT ![r].pc = "exited"]
  BY DEF StepLogged, FiberExits
<1>2. flowRuns \in [FlowRuns -> [pc : {"idle", "running", "interrupting", "exited", "returned"},
                                 modal : 0..MaxModals]]
  BY DEF PageInv, PageTypes
<1>3. /\ \A q \in FlowRuns : q # r => flowRuns'[q] = flowRuns[q]
      /\ flowRuns'[r].modal = flowRuns[r].modal /\ flowRuns'[r].pc \in {flowRuns[r].pc, "exited"}
      /\ flowRuns' \in [FlowRuns -> [pc : {"idle", "running", "interrupting", "exited", "returned"},
                                     modal : 0..MaxModals]]
  BY <1>1, <1>2
<1>4. Pending' = Pending /\ r \in Pending
  BY <1>1, <1>3 DEF Pending
<1>5. PageTypes'
  BY <1>1, <1>3 DEF PageInv, PageTypes
<1>6. \A q \in FlowRuns : flowRuns'[q].modal = flowRuns[q].modal
  BY <1>3
<1>7. OneAtATime'
  BY <1>1, <1>3, <1>4 DEF PageInv, OneAtATime
<1>8. KnownAsLate'
  BY <1>1, <1>4, <1>6 DEF PageInv, KnownAsLate, Open
<1>9. FlowCanBeStopped'
  BY <1>1, <1>3, <1>4, <1>6 DEF PageInv, FlowCanBeStopped, Open, Pending
<1> QED
  BY <1>1, <1>5, <1>7, <1>8, <1>9 DEF PageInv, Open

\* A run returns or throws.
LEMMA ReturnedStep ==
  ASSUME PageInv, NEW r \in FlowRuns, RunReturns(r) \/ RunThrows(r)
  PROVE  PageInv'
<1>1. /\ flowRuns[r].pc = "exited"
      /\ flowRuns' = [flowRuns EXCEPT ![r].pc = "returned"]
      /\ fiber' = [fiber EXCEPT ![flowRuns[r].modal] = NoRun]
      /\ flowResult' \in {r, flowResult} /\ flowRunning' = FALSE
      /\ UNCHANGED <<modal, opened, flowLog, flows, apart, late, left>>
  BY DEF RunReturns, RunThrows, Returned
<1>2. /\ flowRuns \in [FlowRuns -> [pc : {"idle", "running", "interrupting", "exited", "returned"},
                                    modal : 0..MaxModals]]
      /\ fiber \in [1..MaxModals -> FlowRuns \union {NoRun}]
  BY DEF PageInv, PageTypes
<1>3. /\ \A q \in FlowRuns : q # r => flowRuns'[q] = flowRuns[q]
      /\ flowRuns'[r].modal = flowRuns[r].modal /\ flowRuns'[r].pc = "returned"
      /\ flowRuns' \in [FlowRuns -> [pc : {"idle", "running", "interrupting", "exited", "returned"},
                                     modal : 0..MaxModals]]
  BY <1>1, <1>2
<1>4. r \in Pending /\ Pending' \subseteq Pending /\ r \notin Pending'
  BY <1>1, <1>3 DEF Pending
<1>5. fiber' \in [1..MaxModals -> FlowRuns \union {NoRun}]
  BY <1>1, <1>2
<1>6. PageTypes'
  BY <1>1, <1>3, <1>5 DEF PageInv, PageTypes
<1>7. OneAtATime'
  BY <1>1, <1>3, <1>4 DEF PageInv, OneAtATime
<1>8. KnownAsLate'
  <2>1. \A q \in FlowRuns : flowRuns'[q].modal = flowRuns[q].modal
    BY <1>3
  <2>2. \A q \in FlowRuns : q \in Pending' \/ q \in flowLog' \/ q = flowResult' =>
                           q \in Pending \/ q \in flowLog \/ q = flowResult
    BY <1>1, <1>4
  <2> QED
    BY <1>1, <2>1, <2>2 DEF PageInv, KnownAsLate, Open
<1>9. FlowCanBeStopped'
  <2>1. ASSUME apart, NEW q \in FlowRuns, flowRuns'[q].pc = "running" PROVE FALSE
    <3>1. q # r /\ q \in Pending
      BY <1>3, <2>1 DEF Pending
    <3> QED
      BY <1>4, <2>1, <3>1 DEF PageInv, OneAtATime
  <2> QED
    BY <1>1, <2>1 DEF FlowCanBeStopped
<1> QED
  BY <1>1, <1>6, <1>7, <1>8, <1>9 DEF PageInv

\* Stop and the end of a modal ask the run to stop.
LEMMA CancelStep ==
  ASSUME PageInv, stopFlow \/ handleClose
  PROVE  PageInv'
<1>1. /\ Open /\ flowRuns' = cancel /\ flowRunning' = FALSE
      /\ UNCHANGED <<opened, fiber, flows, apart, left>>
      /\ \/ UNCHANGED <<modal, flowResult, flowLog, late>>
         \/ /\ modal' = NoModal /\ flowResult' = NoRun /\ flowLog' = {}
            /\ late' = late \union {r \in Pending : flowRuns[r].modal = modal.no}
  BY DEF stopFlow, handleClose, Leaves
<1>2. flowRuns \in [FlowRuns -> [pc : {"idle", "running", "interrupting", "exited", "returned"},
                                 modal : 0..MaxModals]]
  BY DEF PageInv, PageTypes
<1>3. \A r \in FlowRuns :
        /\ flowRuns'[r].modal = flowRuns[r].modal
        /\ flowRuns'[r].pc = IF r = fiber[modal.no] /\ flowRuns[r].pc = "running"
                             THEN "interrupting" ELSE flowRuns[r].pc
        /\ flowRuns'[r] \in [pc : {"idle", "running", "interrupting", "exited", "returned"},
                             modal : 0..MaxModals]
  BY <1>1, <1>2 DEF cancel
<1>4. flowRuns' \in [FlowRuns -> [pc : {"idle", "running", "interrupting", "exited", "returned"},
                                  modal : 0..MaxModals]]
  BY <1>1, <1>3 DEF cancel
<1>5. Pending' = Pending /\ Pending \subseteq FlowRuns
  BY <1>3 DEF Pending
<1>6. /\ NoModal \in [no : 0..MaxModals, id : FlowRows \union {Unnamed}, steps : Seq(FlowSteps), selected : Nat]
      /\ NoModal.selected <= Len(NoModal.steps) /\ NoModal.no = 0
  BY FlowPageAssumption DEF NoModal
<1>7. PageTypes'
  BY <1>1, <1>4, <1>5, <1>6 DEF PageInv, PageTypes
<1>8. OneAtATime'
  BY <1>1, <1>3, <1>5 DEF PageInv, OneAtATime
<1>9. KnownAsLate'
  <2>1. CASE UNCHANGED <<modal, flowResult, flowLog, late>>
    BY <1>1, <1>3, <1>5, <2>1 DEF PageInv, KnownAsLate, Open
  <2>2. CASE /\ modal' = NoModal /\ flowResult' = NoRun /\ flowLog' = {}
             /\ late' = late \union {r \in Pending : flowRuns[r].modal = modal.no}
    <3>1. \A r \in FlowRuns : r \in Pending => r \in late' \union left
      BY <1>5, <2>2 DEF PageInv, KnownAsLate
    <3>2. \A r \in FlowRuns : r \notin flowLog' /\ r # flowResult'
      BY <2>2, FlowPageAssumption
    <3>3. left' = left
      BY <1>1
    <3> QED
      BY <1>5, <3>1, <3>2, <3>3 DEF KnownAsLate
  <2> QED
    BY <1>1, <2>1, <2>2
<1>10. FlowCanBeStopped'
  <2>1. ASSUME apart, NEW r \in FlowRuns, flowRuns'[r].pc = "running" PROVE r \in left
    BY <1>3, <2>1 DEF PageInv, FlowCanBeStopped
  <2> QED
    BY <1>1, <2>1 DEF FlowCanBeStopped
<1> QED
  BY <1>1, <1>7, <1>8, <1>9, <1>10 DEF PageInv

\* Another panel takes the place of the modal: its runs are left.
LEMMA SwitchStep ==
  ASSUME PageInv, switchPanel
  PROVE  PageInv'
<1>1. /\ Open /\ modal' = NoModal
      /\ left' = left \union {r \in FlowRuns : flowRuns[r] # NotRun /\ flowRuns[r].modal = modal.no}
      /\ UNCHANGED <<opened, fiber, flowRuns, flowRunning, flowResult, flowLog, flows, apart, late>>
  BY DEF switchPanel
<1>2. /\ NoModal \in [no : 0..MaxModals, id : FlowRows \union {Unnamed}, steps : Seq(FlowSteps), selected : Nat]
      /\ NoModal.selected <= Len(NoModal.steps) /\ NoModal.no = 0
  BY FlowPageAssumption DEF NoModal
<1>3. PageTypes'
  BY <1>1, <1>2 DEF PageInv, PageTypes
<1>4. Pending' = Pending /\ Pending \subseteq FlowRuns
  BY <1>1 DEF Pending
<1>5. OneAtATime'
  BY <1>1, <1>4 DEF PageInv, OneAtATime
<1>6. \A r \in FlowRuns : flowRuns[r].modal = modal.no => r \in left'
  <2>1. NotRun.modal = 0
    BY DEF NotRun
  <2> QED
    BY <1>1, <2>1 DEF Open
<1>7. left \subseteq left'
  BY <1>1
<1>8. KnownAsLate'
  BY <1>1, <1>4, <1>6, <1>7 DEF PageInv, KnownAsLate
<1>9. FlowCanBeStopped'
  <2>1. ASSUME apart, flowRunning
        PROVE  \E r \in Pending : r \in left'
    BY <1>4, <1>6, <1>7, <2>1 DEF PageInv, FlowCanBeStopped
  <2>2. ASSUME apart, NEW r \in FlowRuns, flowRuns[r].pc = "running"
        PROVE  r \in left'
    <3>1. CASE r \in left
      BY <1>7, <3>1
    <3>2. CASE r \notin left
      <4>1. PICK q \in Pending : flowRuns[q].modal = modal.no \/ q \in left
        BY <2>2, <3>2 DEF PageInv, FlowCanBeStopped
      <4>2. q = r
        BY <2>2 DEF PageInv, OneAtATime, Pending
      <4> QED
        BY <1>6, <3>2, <4>1, <4>2
    <3> QED
      BY <3>1, <3>2
  <2> QED
    BY <1>1, <1>4, <2>1, <2>2 DEF FlowCanBeStopped
<1> QED
  BY <1>3, <1>5, <1>8, <1>9 DEF PageInv

\* What the invariant says of the modal.
LEMMA PageInvHolds ==
  ASSUME PageInv PROVE ModalIsOfItsRun
<1>1. FlowPageTypeOK
  <2>1. Len(modal.steps) \in Nat
    BY DEF PageInv, PageTypes
  <2> QED
    BY <2>1 DEF PageInv, PageTypes, FlowPageTypeOK
<1>2. ShownIsOfItsModal
  BY DEF PageInv, PageTypes, KnownAsLate, ShownIsOfItsModal
<1> QED
  BY <1>1, <1>2 DEF PageInv, ModalIsOfItsRun

\* The modal of a flow belongs to the run behind it, for any drafts and runs:
\* as long as runs do not overlap, a run that goes on is one that Stop reaches,
\* and what a modal shows is of its own run (runFlow, stopFlow, handleClose);
\* the only exceptions are a run that had not returned when its modal was
\* closed, which may still be shown, and the runs of a modal that the palette
\* switched panels under, which may still be shown and go on.
THEOREM ModalsAreOfTheirRuns == FlowPageSpec => []ModalIsOfItsRun
<1>1. FlowPageInit => PageInv
  BY PageInitially
<1>2. PageInv /\ [FlowPageNext]_pageVars => PageInv'
  <2> SUFFICES ASSUME PageInv, [FlowPageNext]_pageVars PROVE PageInv'
    OBVIOUS
  <2>1. CASE openNew
    <3>1. <<>> \in Seq(FlowSteps)
      OBVIOUS
    <3> QED
      BY <2>1, <3>1, OpensStep DEF openNew
  <2>2. CASE stopFlow \/ handleClose \/ switchPanel
    BY <2>2, CancelStep, SwitchStep
  <2>3. ASSUME NEW id \in FlowRows, editFlow(id) PROVE PageInv'
    <3>1. id \in DOMAIN flows /\ flows[id] \in Seq(FlowSteps) /\ Opens(id, flows[id])
      BY <2>3 DEF editFlow, PageInv, PageTypes
    <3> QED
      BY <3>1, OpensStep
  <2>4. ASSUME NEW id \in FlowRows, deleteFlow(id) \/ saveFlow(id) PROVE PageInv'
    BY <2>4, FlowsStep
  <2>5. CASE \/ \E i \in 1..Cardinality(FlowSteps) :
                  \/ Select(i) \/ removeStep(i)
                  \/ \E j \in 1..Cardinality(FlowSteps) : onDrop(i, j)
             \/ \E s \in FlowSteps : addStep(s)
    BY <2>5, EditorsStep
  <2>6. ASSUME NEW r \in FlowRuns,
               runFlow(r) \/ StepLogged(r) \/ FiberExits(r) \/ RunReturns(r) \/ RunThrows(r)
        PROVE  PageInv'
    BY <2>6, RunFlowStep, FiberStep, ReturnedStep
  <2>7. CASE UNCHANGED pageVars
    <3>1. UNCHANGED runVars /\ modal' = modal /\ opened' = opened /\ flows' = flows
      BY <2>7 DEF pageVars, runVars
    <3>2. PageTypes'
      BY <3>1 DEF PageInv, PageTypes, runVars
    <3> QED
      BY <3>1, <3>2, DraftStep
  <2> QED
    BY <2>1, <2>2, <2>3, <2>4, <2>5, <2>6, <2>7 DEF FlowPageNext
<1>3. PageInv => ModalIsOfItsRun
  BY PageInvHolds
<1> QED
  BY <1>1, <1>2, <1>3, PTL DEF FlowPageSpec
=============================================================================
