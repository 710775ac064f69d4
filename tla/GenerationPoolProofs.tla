-------------------------- MODULE GenerationPoolProofs --------------------------
(***************************************************************************)
(* The cap of the generation pool and the callbacks of its tasks, for any  *)
(* number of workers, tasks and batches: a task is in exactly one of the   *)
(* places between its submission and its callback, so that the ids in      *)
(* flight count what the workers were given.                               *)
(***************************************************************************)
EXTENDS GenerationPool, FiniteSetTheorems, TLAPS

Pcs == {"check", "get", "lock", "call", "ended", "dead"}

TypeOK ==
  /\ flow \in 0 .. Submits
  /\ caller.batch \in 1 .. Batches + 1 /\ caller.sent \in 0 .. BatchSize /\ caller.got \in Nat
  /\ caller = [batch |-> caller.batch, sent |-> caller.sent, got |-> caller.got]
  /\ caller.batch > Batches => caller.sent = 0
  /\ callbacks \subseteq Tasks
  /\ pending \in Seq(Tasks) /\ input \in Seq(Tasks \cup {Stop}) /\ results \in Seq(Tasks)
  /\ worker \in [Workers -> [pc : {"poll", "wait", "gone"}, queue : Seq(Tasks), tasks : SUBSET Tasks]]
  /\ cb \in [pc : Pcs, task : Tasks \cup {NoTask}, callback : Tasks \cup {NoTask}]
  /\ cb.pc \in {"lock", "call", "dead"} => cb.task \in Tasks
  /\ called \in Seq([task : Tasks, owner : Int])
  /\ alive \in BOOLEAN /\ late \in Nat

\* What is in a queue, each task once; only Stop may be there several times.
Els(s) == {s[i] : i \in 1 .. Len(s)} \ {Stop}
Once(s) == \A i, j \in 1 .. Len(s) : s[i] = s[j] /\ s[i] # Stop => i = j

-----------------------------------------------------------------------------
(* Queues.                                                                 *)

\* A task is added behind the others.
LEMMA AppendEls ==
  ASSUME NEW T, NEW s \in Seq(T), NEW x \in T, x # Stop, x \notin Els(s), Once(s)
  PROVE  Append(s, x) \in Seq(T) /\ Once(Append(s, x)) /\ Els(Append(s, x)) = Els(s) \cup {x}
<1>1. /\ Append(s, x) \in Seq(T) /\ Len(Append(s, x)) = Len(s) + 1
      /\ \A i \in 1 .. Len(s) : Append(s, x)[i] = s[i]
      /\ Append(s, x)[Len(s) + 1] = x
  OBVIOUS
<1>2. \A i \in 1 .. Len(s) : s[i] # x
  BY DEF Els
<1>3. Len(s) \in Nat
  OBVIOUS
<1>4. Once(Append(s, x))
  <2> SUFFICES ASSUME NEW i \in 1 .. Len(s) + 1, NEW j \in 1 .. Len(s) + 1,
                      Append(s, x)[i] = Append(s, x)[j], Append(s, x)[i] # Stop
               PROVE  i = j
    BY <1>1 DEF Once
  <2>1. CASE i = Len(s) + 1
    BY <1>1, <1>2, <1>3, <2>1
  <2>2. CASE j = Len(s) + 1
    BY <1>1, <1>2, <1>3, <2>2
  <2>3. CASE i \in 1 .. Len(s) /\ j \in 1 .. Len(s)
    BY <1>1, <2>3 DEF Once
  <2> QED BY <1>3, <2>1, <2>2, <2>3
<1>5. {Append(s, x)[i] : i \in 1 .. Len(s) + 1} = {s[i] : i \in 1 .. Len(s)} \cup {x}
  <2>1. 1 .. Len(s) + 1 = (1 .. Len(s)) \cup {Len(s) + 1}
    BY <1>3
  <2> QED BY <1>1, <2>1
<1>6. Els(Append(s, x)) = Els(s) \cup {x}
  BY <1>1, <1>5 DEF Els
<1> QED BY <1>1, <1>4, <1>6

\* The first one is taken out.
LEMMA TailEls ==
  ASSUME NEW T, NEW s \in Seq(T), s # <<>>, Once(s)
  PROVE  /\ Tail(s) \in Seq(T) /\ Head(s) \in T /\ Once(Tail(s))
         /\ Head(s) # Stop => Head(s) \in Els(s) /\ Els(Tail(s)) = Els(s) \ {Head(s)}
         /\ Head(s) = Stop => Els(Tail(s)) = Els(s)
<1>1. /\ Len(s) \in Nat /\ Len(s) # 0 /\ Tail(s) \in Seq(T) /\ Head(s) = s[1] /\ s[1] \in T
      /\ Len(Tail(s)) = Len(s) - 1
      /\ \A i \in 1 .. Len(s) - 1 : Tail(s)[i] = s[i + 1]
  OBVIOUS
<1>2. Once(Tail(s))
  <2> SUFFICES ASSUME NEW i \in 1 .. Len(s) - 1, NEW j \in 1 .. Len(s) - 1,
                      s[i + 1] = s[j + 1], s[i + 1] # Stop
               PROVE  i = j
    BY <1>1 DEF Once
  <2>1. i + 1 \in 1 .. Len(s) /\ j + 1 \in 1 .. Len(s)
    BY <1>1
  <2> QED BY <1>1, <2>1 DEF Once
<1>3. Els(Tail(s)) = {s[i] : i \in 2 .. Len(s)} \ {Stop}
  <2>1. \A i \in 1 .. Len(s) - 1 : i + 1 \in 2 .. Len(s)
    BY <1>1
  <2>2. \A i \in 2 .. Len(s) : i - 1 \in 1 .. Len(s) - 1 /\ (i - 1) + 1 = i
    BY <1>1
  <2> QED BY <1>1, <2>1, <2>2 DEF Els
<1>4. 1 .. Len(s) = {1} \cup 2 .. Len(s) /\ 1 \notin 2 .. Len(s)
  BY <1>1
<1>5. s[1] # Stop => \A i \in 2 .. Len(s) : s[i] # s[1]
  BY <1>1, <1>4 DEF Once
<1>6. Els(s) = ({s[1]} \cup {s[i] : i \in 2 .. Len(s)}) \ {Stop}
  BY <1>4 DEF Els
<1>7. CASE s[1] = Stop
  BY <1>1, <1>2, <1>3, <1>6, <1>7
<1>8. CASE s[1] # Stop
  BY <1>1, <1>2, <1>3, <1>5, <1>6, <1>8
<1> QED BY <1>7, <1>8

\* One queue is put behind another.
LEMMA ConcatEls ==
  ASSUME NEW T, NEW s \in Seq(T), NEW t \in Seq(T), Once(s), Once(t), Els(s) \cap Els(t) = {}
  PROVE  s \o t \in Seq(T) /\ Once(s \o t) /\ Els(s \o t) = Els(s) \cup Els(t)
<1>1. /\ s \o t \in Seq(T) /\ Len(s \o t) = Len(s) + Len(t) /\ Len(s) \in Nat /\ Len(t) \in Nat
      /\ \A i \in 1 .. Len(s) : (s \o t)[i] = s[i]
      /\ \A i \in Len(s) + 1 .. Len(s) + Len(t) : (s \o t)[i] = t[i - Len(s)]
  OBVIOUS
<1>2. \A i \in Len(s) + 1 .. Len(s) + Len(t) : i - Len(s) \in 1 .. Len(t)
  BY <1>1
<1>3. \A i \in 1 .. Len(t) : i + Len(s) \in Len(s) + 1 .. Len(s) + Len(t) /\ (i + Len(s)) - Len(s) = i
  BY <1>1
<1>4. 1 .. Len(s) + Len(t) = (1 .. Len(s)) \cup (Len(s) + 1 .. Len(s) + Len(t))
  BY <1>1
<1>5. \A i \in 1 .. Len(s), j \in 1 .. Len(t) : s[i] # Stop => s[i] # t[j]
  BY DEF Els
<1>6. Once(s \o t)
  <2> SUFFICES ASSUME NEW i \in 1 .. Len(s) + Len(t), NEW j \in 1 .. Len(s) + Len(t),
                      (s \o t)[i] = (s \o t)[j], (s \o t)[i] # Stop
               PROVE  i = j
    BY <1>1 DEF Once
  <2>1. CASE i \in 1 .. Len(s) /\ j \in 1 .. Len(s)
    BY <1>1, <2>1 DEF Once
  <2>2. CASE i \in 1 .. Len(s) /\ j \in Len(s) + 1 .. Len(s) + Len(t)
    BY <1>1, <1>2, <1>5, <2>2
  <2>3. CASE j \in 1 .. Len(s) /\ i \in Len(s) + 1 .. Len(s) + Len(t)
    BY <1>1, <1>2, <1>5, <2>3
  <2>4. CASE i \in Len(s) + 1 .. Len(s) + Len(t) /\ j \in Len(s) + 1 .. Len(s) + Len(t)
    <3>1. i - Len(s) = j - Len(s)
      BY <1>1, <1>2, <2>4 DEF Once
    <3> QED BY <1>1, <3>1
  <2> QED BY <1>4, <2>1, <2>2, <2>3, <2>4
<1>7. {(s \o t)[i] : i \in 1 .. Len(s) + Len(t)} = {s[i] : i \in 1 .. Len(s)} \cup {t[i] : i \in 1 .. Len(t)}
  <2>1. \A i \in 1 .. Len(t) :
          i + Len(s) \in 1 .. Len(s) + Len(t) /\ t[i] = (s \o t)[i + Len(s)]
    BY <1>1, <1>3, <1>4
  <2>2. \A i \in 1 .. Len(s) : i \in 1 .. Len(s) + Len(t) /\ s[i] = (s \o t)[i]
    BY <1>1, <1>4
  <2>3. \A i \in 1 .. Len(s) + Len(t) :
          \/ \E j \in 1 .. Len(s) : (s \o t)[i] = s[j]
          \/ \E j \in 1 .. Len(t) : (s \o t)[i] = t[j]
    BY <1>1, <1>2, <1>4
  <2> DEFINE c == s \o t
             n == Len(s) + Len(t)
  <2> HIDE DEF c, n
  <2>4. {c[i] : i \in 1 .. n} \subseteq {s[i] : i \in 1 .. Len(s)} \cup {t[i] : i \in 1 .. Len(t)}
    BY <2>3 DEF c, n
  <2>5. {s[i] : i \in 1 .. Len(s)} \subseteq {c[i] : i \in 1 .. n}
    BY <2>2 DEF c, n
  <2>6. {t[i] : i \in 1 .. Len(t)} \subseteq {c[i] : i \in 1 .. n}
    BY <2>1 DEF c, n
  <2> QED BY <2>4, <2>5, <2>6 DEF c, n
<1>8. Els(s \o t) = Els(s) \cup Els(t)
  BY <1>1, <1>7 DEF Els
<1> QED BY <1>1, <1>6, <1>8

\* A queue is cut in two.
LEMMA CutEls ==
  ASSUME NEW T, NEW s \in Seq(T), NEW n \in 0 .. Len(s), Once(s)
  PROVE  /\ SubSeq(s, 1, n) \in Seq(T) /\ SubSeq(s, n + 1, Len(s)) \in Seq(T)
         /\ Len(SubSeq(s, 1, n)) = n /\ Len(SubSeq(s, n + 1, Len(s))) = Len(s) - n
         /\ \A i \in 1 .. n : SubSeq(s, 1, n)[i] = s[i]
         /\ Once(SubSeq(s, 1, n)) /\ Once(SubSeq(s, n + 1, Len(s)))
         /\ Els(SubSeq(s, 1, n)) \cap Els(SubSeq(s, n + 1, Len(s))) = {}
         /\ Els(s) = Els(SubSeq(s, 1, n)) \cup Els(SubSeq(s, n + 1, Len(s)))
<1> DEFINE a == SubSeq(s, 1, n)
           b == SubSeq(s, n + 1, Len(s))
<1>1. /\ a \in Seq(T) /\ Len(s) \in Nat /\ n \in Nat /\ n <= Len(s) /\ Len(a) = n
      /\ \A i \in 1 .. n : a[i] = s[i]
  OBVIOUS
<1>2. /\ b \in Seq(T) /\ Len(b) = Len(s) - n
      /\ \A i \in 1 .. Len(s) - n : b[i] = s[n + i]
  OBVIOUS
<1>3. \A i \in 1 .. n : i \in 1 .. Len(s)
  BY <1>1
<1>4. \A i \in 1 .. Len(s) - n : n + i \in 1 .. Len(s) /\ n + i > n
  BY <1>1
<1>5. \A i \in 1 .. Len(s) : i \in 1 .. n \/ (i - n \in 1 .. Len(s) - n /\ n + (i - n) = i)
  BY <1>1
<1>6. Once(a)
  BY <1>1, <1>3 DEF Once
<1>7. Once(b)
  <2> SUFFICES ASSUME NEW i \in 1 .. Len(s) - n, NEW j \in 1 .. Len(s) - n, b[i] = b[j], b[i] # Stop
               PROVE  i = j
    BY <1>2 DEF Once
  <2>1. n + i = n + j
    BY <1>2, <1>4 DEF Once
  <2> QED BY <1>1, <2>1
<1>8. Els(a) = {s[i] : i \in 1 .. n} \ {Stop}
  BY <1>1 DEF Els
<1>9. Els(b) = {s[n + i] : i \in 1 .. Len(s) - n} \ {Stop}
  BY <1>2 DEF Els
<1> HIDE DEF a, b
<1>10. Els(a) \cap Els(b) = {}
  <2> SUFFICES ASSUME NEW i \in 1 .. n, NEW j \in 1 .. Len(s) - n, s[i] = s[n + j], s[i] # Stop
               PROVE  FALSE
    BY <1>8, <1>9
  <2>1. i = n + j
    BY <1>3, <1>4 DEF Once
  <2> QED BY <1>1, <2>1
<1>11. {s[i] : i \in 1 .. Len(s)} = {s[i] : i \in 1 .. n} \cup {s[n + i] : i \in 1 .. Len(s) - n}
  BY <1>3, <1>4, <1>5
<1>12. Els(s) = Els(a) \cup Els(b)
  BY <1>8, <1>9, <1>11 DEF Els
<1> QED BY <1>1, <1>2, <1>6, <1>7, <1>10, <1>12 DEF a, b

-----------------------------------------------------------------------------
(* Tasks and their places.                                                 *)

\* The tasks that were submitted, and those whose batch has not returned.
Open ==
  {FlowTask(n) : n \in 1 .. flow} \cup {BatchTask(caller.batch, i) : i \in 0 .. caller.sent - 1}

Sent ==
  Open \cup {BatchTask(b, i) : b \in 1 .. caller.batch - 1, i \in 0 .. BatchSize - 1}

\* What a worker has, and the callback thread.
Load == [w \in Workers |-> Els(worker[w].queue) \cup worker[w].tasks]
InHand == IF cb.pc = "lock" THEN {cb.task} ELSE {}

\* A task is in one place: P waits, I and R are in the two queues of the
\* workers, A with each worker, C with the callback thread; K have a callback.
Placed(P, I, A, R, C) ==
  /\ P \cap I = {} /\ P \cap R = {} /\ P \cap C = {}
  /\ I \cap R = {} /\ I \cap C = {} /\ R \cap C = {}
  /\ \A w \in Workers : A[w] \cap (P \cup I \cup R \cup C) = {}
  /\ \A v, w \in Workers : v # w => A[v] \cap A[w] = {}

Within(K, P, I, A, R, C) == P \cup I \cup R \cup C \subseteq K /\ \A w \in Workers : A[w] \subseteq K

Covers(K, P, I, A, R, C) == \A t \in K : t \in P \cup I \cup R \cup C \/ \E w \in Workers : t \in A[w]

Places ==
  /\ Once(pending) /\ Once(input) /\ Once(results)
  /\ \A w \in Workers : Once(worker[w].queue) /\ Els(worker[w].queue) \cap worker[w].tasks = {}
  /\ Placed(Els(pending), Els(input), Load, Els(results), InHand)
  /\ Within(callbacks, Els(pending), Els(input), Load, Els(results), InHand)
  /\ alive => Covers(callbacks, Els(pending), Els(input), Load, Els(results), InHand)

\* What has a callback and does not wait is in flight.
Ids(K) == {t.id : t \in K}

UniqueIds(K) == \A t, u \in K : t.id = u.id => t = u

\* No more than the cap.
Fits(F) == IsFiniteSet(F) /\ (Cap # 0 => Cardinality(F) <= Cap)

Flying == IsFiniteSet(inflight) /\ inflight = Ids(callbacks \ Els(pending))

Full ==
  /\ Cap # 0 => Cardinality(inflight) <= Cap
  /\ pending # <<>> => Cap # 0 /\ Cardinality(inflight) >= Cap

Calls ==
  /\ callbacks \subseteq Open
  /\ cb.pc = "call" =>
       /\ cb.callback = cb.task /\ cb.task \in Open \ callbacks
       /\ \A i \in DOMAIN called : called[i].task # cb.task
  /\ \A i \in DOMAIN called :
       called[i].task \in Sent \ callbacks /\ called[i].owner = called[i].task.owner
  /\ \A i, j \in DOMAIN called : called[i].task = called[j].task => i = j
  /\ caller.got <= Cardinality(OutQueue(caller.batch))
  /\ alive => late = 0
  /\ late <= 1
  /\ late = 1 => cb.pc \in {"check", "ended"}

IInv == TypeOK /\ Places /\ Flying /\ Full /\ Calls

\* Among the tasks that were submitted and not returned, ids are unique.
LEMMA OpenIds == UniqueIds(Open)
BY DEF UniqueIds, Open, FlowTask, BatchTask

\* What was submitted is a task, and owned by whom it says.
LEMMA OpenTasks ==
  ASSUME PoolAssumption, TypeOK
  PROVE  /\ Open \subseteq Sent /\ Sent \subseteq Tasks
         /\ \A t \in Tasks : t # Stop /\ t # NoTask /\ t.owner \in Nat
         /\ flow < Submits => FlowTask(flow + 1) \in Tasks \ Sent
         /\ caller.batch <= Batches /\ caller.sent < BatchSize =>
              BatchTask(caller.batch, caller.sent) \in Tasks \ Sent
<1>1. Open \subseteq Sent
  BY DEF Sent
<1>n. /\ flow \in Nat /\ Submits \in Nat /\ flow <= Submits /\ caller.batch \in Nat /\ Batches \in Nat
      /\ caller.sent \in Nat /\ BatchSize \in Nat /\ caller.sent <= BatchSize
      /\ caller.batch >= 1 /\ caller.batch <= Batches + 1
  BY DEF TypeOK, PoolAssumption
<1>2. \A n \in 1 .. flow : FlowTask(n) \in Tasks
  BY <1>n DEF Tasks
<1>3. \A b \in 1 .. Batches, i \in 0 .. BatchSize - 1 : BatchTask(b, i) \in Tasks
  BY DEF Tasks
<1>a. \A i \in 0 .. caller.sent - 1 : BatchTask(caller.batch, i) \in Tasks
  <2> TAKE i \in 0 .. caller.sent - 1
  <2>1. caller.batch \in 1 .. Batches
    BY <1>n DEF TypeOK
  <2>2. i \in 0 .. BatchSize - 1
    BY <1>n
  <2> QED BY <1>3, <2>1, <2>2
<1>b. \A b \in 1 .. caller.batch - 1 : b \in 1 .. Batches
  BY <1>n
<1>c. Sent \subseteq Tasks
  <2>1. \A t \in Open : t \in Tasks
    BY <1>2, <1>a DEF Open
  <2>2. \A b \in 1 .. caller.batch - 1, i \in 0 .. BatchSize - 1 : BatchTask(b, i) \in Tasks
    BY <1>3, <1>b
  <2> QED BY <2>1, <2>2 DEF Sent
<1>4. \A t \in Tasks : t # Stop /\ t # NoTask /\ t.owner \in Nat
  BY DEF Tasks, FlowTask, BatchTask, Stop, NoTask, PoolAssumption
<1>5. flow < Submits => FlowTask(flow + 1) \in Tasks
  <2>1. flow < Submits => flow + 1 \in 1 .. Submits
    BY <1>n
  <2> QED BY <2>1 DEF Tasks
<1>6. FlowTask(flow + 1) \notin Sent
  <2>1. \A n \in 1 .. flow : FlowTask(n).id # FlowTask(flow + 1).id
    BY <1>n DEF FlowTask
  <2>2. \A b, i : BatchTask(b, i).id # FlowTask(flow + 1).id
    BY DEF BatchTask, FlowTask
  <2> QED BY <2>1, <2>2 DEF Sent, Open
<1>7. caller.batch <= Batches /\ caller.sent < BatchSize =>
        BatchTask(caller.batch, caller.sent) \in Tasks
  <2>1. caller.batch <= Batches /\ caller.sent < BatchSize =>
          caller.batch \in 1 .. Batches /\ caller.sent \in 0 .. BatchSize - 1
    BY <1>n
  <2> QED BY <1>3, <2>1
<1>8. BatchTask(caller.batch, caller.sent) \notin Sent
  <2>1. \A n : FlowTask(n).id # BatchTask(caller.batch, caller.sent).id
    BY DEF BatchTask, FlowTask
  <2>2. \A i \in 0 .. caller.sent - 1 :
          BatchTask(caller.batch, i).id # BatchTask(caller.batch, caller.sent).id
    <3>1. \A i \in 0 .. caller.sent - 1 : i # caller.sent
      BY <1>n
    <3> QED BY <3>1 DEF BatchTask
  <2>3. \A b \in 1 .. caller.batch - 1, i \in 0 .. BatchSize - 1 :
          BatchTask(b, i).owner # BatchTask(caller.batch, caller.sent).owner
    <3>1. \A b \in 1 .. caller.batch - 1 : b # caller.batch
      BY <1>n
    <3> QED BY <3>1 DEF BatchTask
  <2> QED BY <2>1, <2>2, <2>3 DEF Sent, Open
<1> QED BY <1>1, <1>c, <1>4, <1>5, <1>6, <1>7, <1>8

\* How many of the waiting tasks are handed out.
LEMMA DispatchableBounds ==
  ASSUME PoolAssumption, NEW n \in Nat, NEW k \in Nat
  PROVE  /\ Dispatchable(n, k) \in 0 .. k
         /\ Cap # 0 /\ n <= Cap => n + Dispatchable(n, k) <= Cap
         /\ Dispatchable(n, k) < k => Cap # 0 /\ n + Dispatchable(n, k) >= Cap
<1>1. Cap \in Nat
  BY DEF PoolAssumption
<1>2. CASE Cap = 0
  BY <1>2 DEF Dispatchable
<1>3. CASE Cap # 0
  <2> DEFINE m == Max({0, Cap - n})
  <2>1. m \in Nat /\ m = IF n <= Cap THEN Cap - n ELSE 0
    <3>1. CASE n <= Cap
      <4>1. Cap - n \in {0, Cap - n} /\ \A y \in {0, Cap - n} : Cap - n >= y
        BY <1>1, <3>1
      <4>2. \A x \in {0, Cap - n} : (\A y \in {0, Cap - n} : x >= y) => x = Cap - n
        BY <1>1, <3>1
      <4> QED BY <1>1, <3>1, <4>1, <4>2 DEF Max
    <3>2. CASE ~(n <= Cap)
      <4>1. 0 \in {0, Cap - n} /\ \A y \in {0, Cap - n} : 0 >= y
        BY <1>1, <3>2
      <4>2. \A x \in {0, Cap - n} : (\A y \in {0, Cap - n} : x >= y) => x = 0
        BY <1>1, <3>2
      <4> QED BY <1>1, <3>2, <4>1, <4>2 DEF Max
    <3> QED BY <3>1, <3>2
  <2> HIDE DEF m
  <2>2. Min({k, m}) = IF k <= m THEN k ELSE m
    <3>1. \A x \in {k, m} : (\A y \in {k, m} : x <= y) => x = IF k <= m THEN k ELSE m
      BY <2>1
    <3>2. \E x \in {k, m} : \A y \in {k, m} : x <= y
      BY <2>1
    <3> QED BY <3>1, <3>2 DEF Min
  <2>3. Dispatchable(n, k) = IF k <= m THEN k ELSE m
    BY <1>3, <2>2 DEF Dispatchable, m
  <2> QED BY <1>1, <1>3, <2>1, <2>3
<1> QED BY <1>2, <1>3

\* There is room for n of the waiting tasks w beside F, and no more.
Room(F, w, n) ==
  /\ Cap # 0 => Cardinality(F) + n <= Cap
  /\ n < Len(w) => Cap # 0 /\ Cardinality(F) + n >= Cap

\* The first n of the waiting tasks w join those in flight F.
Filled(w, K, F, n) ==
  LET G == F \cup {SubSeq(w, 1, n)[i].id : i \in 1 .. n}
      b == SubSeq(w, n + 1, Len(w))
  IN  /\ Fits(G) /\ G = Ids(K \ Els(b))
      /\ b # <<>> => Cap # 0 /\ Cardinality(G) >= Cap

\* Handing out the first of the waiting tasks fills the cap and no more.
LEMMA DispatchCounts ==
  ASSUME PoolAssumption, NEW w \in Seq(Tasks), Once(w), Stop \notin Tasks,
         NEW K, Els(w) \subseteq K, UniqueIds(K),
         NEW F, Fits(F), F = Ids(K \ Els(w)),
         NEW n \in 0 .. Len(w), Room(F, w, n)
  PROVE  Filled(w, K, F, n)
<1> DEFINE a == SubSeq(w, 1, n)
           b == SubSeq(w, n + 1, Len(w))
           G == F \cup {a[i].id : i \in 1 .. n}
<1>1. /\ n \in Nat /\ n <= Len(w) /\ Cardinality(F) \in Nat /\ Cap \in Nat /\ Len(w) \in Nat
      /\ Cap # 0 => Cardinality(F) + n <= Cap
      /\ n < Len(w) => Cap # 0 /\ Cardinality(F) + n >= Cap
  <2>1. Cardinality(F) \in Nat /\ Len(w) \in Nat /\ Cap \in Nat
    BY FS_CardinalityType DEF PoolAssumption, Fits
  <2> QED BY <2>1 DEF Room
<1>2. /\ a \in Seq(Tasks) /\ Len(a) = n /\ Len(b) = Len(w) - n
      /\ \A i \in 1 .. n : a[i] = w[i]
      /\ Els(a) \cap Els(b) = {} /\ Els(w) = Els(a) \cup Els(b) /\ b \in Seq(Tasks)
  BY CutEls
<1> HIDE DEF a, b, G
<1>3. \A i \in 1 .. n : i \in 1 .. Len(w) /\ w[i] \in Tasks
  BY <1>1
<1>4. Els(a) = {w[i] : i \in 1 .. n}
  <2>1. {a[i] : i \in 1 .. n} = {w[i] : i \in 1 .. n}
    BY <1>2
  <2>2. Stop \notin {w[i] : i \in 1 .. n}
    BY <1>3
  <2> QED BY <1>2, <2>1, <2>2 DEF Els
<1> DEFINE S == {w[i].id : i \in 1 .. n}
<1>5. {a[i].id : i \in 1 .. n} = S
  BY <1>2
<1>6. \A i, j \in 1 .. n : w[i].id = w[j].id => i = j
  <2> TAKE i, j \in 1 .. n
  <2>1. w[i] \in K /\ w[j] \in K
    BY <1>2, <1>4
  <2> QED BY <1>3, <2>1 DEF Once, UniqueIds
<1>7. IsFiniteSet(S) /\ Cardinality(S) = n
  <2> DEFINE f == [i \in 1 .. n |-> w[i].id]
  <2>1. f \in Bijection(1 .. n, S)
    <3>1. f \in [1 .. n -> S]
      OBVIOUS
    <3>2. f \in Injection(1 .. n, S)
      BY <1>6, <3>1 DEF Injection, IsInjective
    <3>3. f \in Surjection(1 .. n, S)
      BY <3>1 DEF Surjection
    <3> QED BY <3>2, <3>3 DEF Bijection
  <2>2. n \in Nat /\ 1 \in Int /\ n \in Int
    BY <1>1
  <2>3. IsFiniteSet(1 .. n) /\ Cardinality(1 .. n) = n
    BY <2>2, FS_Interval
  <2> HIDE DEF f, S
  <2> QED BY <2>1, <2>3, FS_Bijection DEF ExistsBijection
<1>8. F \cap S = {}
  <2> SUFFICES ASSUME NEW t \in K \ Els(w), NEW i \in 1 .. n, t.id = w[i].id
               PROVE  FALSE
    BY DEF Ids
  <2>1. w[i] \in K /\ w[i] \in Els(w)
    BY <1>2, <1>4
  <2> QED BY <2>1 DEF UniqueIds
<1>9. G = F \cup S
  BY <1>5 DEF G
<1> HIDE DEF S
<1>10. IsFiniteSet(G) /\ Cardinality(G) = Cardinality(F) + n
  <2>1. /\ IsFiniteSet(F \cup S)
        /\ Cardinality(F \cup S) = Cardinality(F) + Cardinality(S) - Cardinality(F \cap S)
    BY <1>7, FS_Union DEF Fits
  <2>2. Cardinality(F \cap S) = 0
    BY <1>8, FS_EmptySet
  <2> QED BY <1>1, <1>7, <1>9, <2>1, <2>2
<1>11. G = Ids(K \ Els(b))
  <2>1. K \ Els(b) = (K \ Els(w)) \cup Els(a)
    BY <1>2
  <2>2. Ids(Els(a)) = S
    <3>1. Ids({w[i] : i \in 1 .. n}) = S
      BY DEF Ids, S
    <3> QED BY <1>4, <3>1
  <2>3. \A X, Y : Ids(X \cup Y) = Ids(X) \cup Ids(Y)
    BY DEF Ids
  <2> QED BY <1>9, <2>1, <2>2, <2>3
<1>12. b # <<>> => n < Len(w)
  <2>1. n = Len(w) => Len(b) = 0
    BY <1>1, <1>2
  <2> QED BY <1>1, <1>2, <2>1
<1> QED BY <1>1, <1>10, <1>11, <1>12 DEF G, a, b, Fits, Filled

\* Dispatch keeps every task in one place and the cap full.
LEMMA DispatchStep ==
  ASSUME PoolAssumption, Stop \notin Tasks, input \in Seq(Tasks \cup {Stop}), Once(input),
         NEW w \in Seq(Tasks), Once(w), NEW K, UniqueIds(K),
         NEW F, Fits(F), F = Ids(K \ Els(w)),
         NEW A, NEW R, NEW C, Placed(Els(w), Els(input), A, R, C),
         Within(K, Els(w), Els(input), A, R, C), Dispatch(w, F)
  PROVE  /\ pending' \in Seq(Tasks) /\ Once(pending')
         /\ input' \in Seq(Tasks \cup {Stop}) /\ Once(input')
         /\ Placed(Els(pending'), Els(input'), A, R, C)
         /\ Within(K, Els(pending'), Els(input'), A, R, C)
         /\ Covers(K, Els(w), Els(input), A, R, C) =>
              Covers(K, Els(pending'), Els(input'), A, R, C)
         /\ IsFiniteSet(inflight') /\ inflight' = Ids(K \ Els(pending')) /\ Full'
<1> DEFINE n == Dispatchable(Cardinality(F), Len(w))
           a == SubSeq(w, 1, n)
           b == SubSeq(w, n + 1, Len(w))
           G == F \cup {a[i].id : i \in 1 .. n}
<1>1. pending' = b /\ inflight' = G /\ input' = input \o a
  BY DEF Dispatch
<1>2. Els(w) \subseteq K
  BY DEF Within
<1> HIDE DEF n
<1>n. n \in 0 .. Len(w) /\ Room(F, w, n)
  <2>1. Cardinality(F) \in Nat /\ Len(w) \in Nat
    BY FS_CardinalityType DEF Fits
  <2>2. \A x, y \in Nat :
          /\ Dispatchable(x, y) \in 0 .. y
          /\ Cap # 0 /\ x <= Cap => x + Dispatchable(x, y) <= Cap
          /\ Dispatchable(x, y) < y => Cap # 0 /\ x + Dispatchable(x, y) >= Cap
    BY DispatchableBounds
  <2> QED BY <2>1, <2>2 DEF n, Room, Fits
<1>3. /\ Fits(G) /\ G = Ids(K \ Els(b))
      /\ b # <<>> => Cap # 0 /\ Cardinality(G) >= Cap
  <2>1. Filled(w, K, F, n)
    BY <1>2, <1>n, DispatchCounts
  <2> QED BY <2>1 DEF Filled
<1>4. /\ a \in Seq(Tasks) /\ b \in Seq(Tasks) /\ Once(a) /\ Once(b)
      /\ Els(a) \cap Els(b) = {} /\ Els(w) = Els(a) \cup Els(b)
  BY <1>n, CutEls
<1> HIDE DEF a, b, G
<1>5. a \in Seq(Tasks \cup {Stop})
  BY <1>4
<1>6. Els(input) \cap Els(a) = {}
  BY <1>4 DEF Placed
<1>7. /\ input' \in Seq(Tasks \cup {Stop}) /\ Once(input')
      /\ Els(input') = Els(input) \cup Els(a)
  BY <1>1, <1>5, <1>6, <1>4, ConcatEls
<1>8. Placed(Els(b), Els(input) \cup Els(a), A, R, C)
  BY <1>4 DEF Placed
<1>9. Within(K, Els(b), Els(input) \cup Els(a), A, R, C)
  BY <1>4 DEF Within
<1>10. Covers(K, Els(w), Els(input), A, R, C) => Covers(K, Els(b), Els(input) \cup Els(a), A, R, C)
  BY <1>4 DEF Covers
<1>11. Full'
  BY <1>1, <1>3 DEF Full, Fits
<1> QED BY <1>1, <1>3, <1>4, <1>7, <1>8, <1>9, <1>10, <1>11 DEF Fits

-----------------------------------------------------------------------------
(* A step moves a task from one place to the next.                         *)

\* What IInv says of the queues and of the ids.
LEMMA PoolFacts ==
  ASSUME PoolAssumption, IInv
  PROVE  /\ Stop \notin Tasks /\ NoTask \notin Tasks
         /\ pending \in Seq(Tasks) /\ input \in Seq(Tasks \cup {Stop}) /\ results \in Seq(Tasks)
         /\ Once(pending) /\ Once(input) /\ Once(results)
         /\ callbacks \subseteq Tasks /\ callbacks \subseteq Open /\ UniqueIds(callbacks)
         /\ Placed(Els(pending), Els(input), Load, Els(results), InHand)
         /\ Within(callbacks, Els(pending), Els(input), Load, Els(results), InHand)
         /\ Fits(inflight) /\ inflight = Ids(callbacks \ Els(pending))
         /\ \A w \in Workers :
              /\ worker[w].queue \in Seq(Tasks) /\ worker[w].tasks \in SUBSET Tasks
              /\ worker[w].pc \in {"poll", "wait", "gone"}
              /\ Once(worker[w].queue) /\ Els(worker[w].queue) \cap worker[w].tasks = {}
              /\ Load[w] = Els(worker[w].queue) \cup worker[w].tasks
<1>1. Stop \notin Tasks /\ NoTask \notin Tasks
  BY OpenTasks DEF IInv
<1>2. callbacks \subseteq Open /\ UniqueIds(callbacks)
  BY OpenIds DEF IInv, Calls, UniqueIds
<1>3. Fits(inflight) /\ inflight = Ids(callbacks \ Els(pending))
  BY DEF IInv, Flying, Full, Fits
<1>4. /\ pending \in Seq(Tasks) /\ input \in Seq(Tasks \cup {Stop}) /\ results \in Seq(Tasks)
      /\ callbacks \subseteq Tasks
  BY DEF IInv, TypeOK
<1>5. /\ Once(pending) /\ Once(input) /\ Once(results)
      /\ Placed(Els(pending), Els(input), Load, Els(results), InHand)
      /\ Within(callbacks, Els(pending), Els(input), Load, Els(results), InHand)
      /\ \A w \in Workers : Once(worker[w].queue) /\ Els(worker[w].queue) \cap worker[w].tasks = {}
  BY DEF IInv, Places
<1>6. \A w \in Workers :
        /\ worker[w].queue \in Seq(Tasks) /\ worker[w].tasks \in SUBSET Tasks
        /\ worker[w].pc \in {"poll", "wait", "gone"}
  BY DEF IInv, TypeOK
<1>7. \A w \in Workers : Load[w] = Els(worker[w].queue) \cup worker[w].tasks
  BY DEF Load
<1> QED BY <1>1, <1>2, <1>3, <1>4, <1>5, <1>6, <1>7

\* submit_with_callback(): a new task waits, and as many as there is room for
\* are handed out.
LEMMA Submitting ==
  ASSUME PoolAssumption, IInv, NEW t \in Tasks, t \notin callbacks, UniqueIds(callbacks \cup {t}),
         SubmitTask(t), UNCHANGED <<worker, results, cb, alive>>
  PROVE  /\ callbacks' = callbacks \cup {t}
         /\ pending' \in Seq(Tasks) /\ input' \in Seq(Tasks \cup {Stop})
         /\ Places' /\ Flying' /\ Full'
<1> DEFINE w == Append(pending, t)
<1>1. callbacks' = callbacks \cup {t}
  <2>1. Registered(t) = {}
    BY DEF Registered, UniqueIds
  <2> QED BY <2>1 DEF SubmitTask
<1>2. Dispatch(w, inflight)
  BY DEF SubmitTask
<1>3. w \in Seq(Tasks) /\ Once(w) /\ Els(w) = Els(pending) \cup {t}
  <2>1. t # Stop /\ t \notin Els(pending)
    BY PoolFacts DEF Within
  <2> QED BY <2>1, PoolFacts, AppendEls
<1>4. PICK K, F, A, R, C, v : /\ K = callbacks \cup {t} /\ F = inflight /\ A = Load
                              /\ R = Els(results) /\ C = InHand /\ v = w
  OBVIOUS
<1>5. F = Ids(K \ Els(v)) /\ Fits(F)
  <2>1. K \ Els(v) = callbacks \ Els(pending)
    BY <1>3, <1>4
  <2> QED BY <1>4, <2>1, PoolFacts
<1>6. Placed(Els(v), Els(input), A, R, C)
  BY <1>3, <1>4, PoolFacts DEF Placed, Within
<1>7. Within(K, Els(v), Els(input), A, R, C)
  BY <1>3, <1>4, PoolFacts DEF Within
<1>8. /\ pending' \in Seq(Tasks) /\ Once(pending')
      /\ input' \in Seq(Tasks \cup {Stop}) /\ Once(input')
      /\ Placed(Els(pending'), Els(input'), A, R, C)
      /\ Within(K, Els(pending'), Els(input'), A, R, C)
      /\ Covers(K, Els(v), Els(input), A, R, C) => Covers(K, Els(pending'), Els(input'), A, R, C)
      /\ IsFiniteSet(inflight') /\ inflight' = Ids(K \ Els(pending')) /\ Full'
  <2>1. UniqueIds(K) /\ v \in Seq(Tasks) /\ Once(v) /\ Dispatch(v, F)
    BY <1>2, <1>3, <1>4
  <2> QED BY <1>5, <1>6, <1>7, <2>1, PoolFacts, DispatchStep
<1>9. K = callbacks' /\ A = Load' /\ R = Els(results') /\ C = InHand'
  BY <1>1, <1>4 DEF Load, InHand
<1>10. alive => Covers(K, Els(v), Els(input), A, R, C)
  BY <1>3, <1>4 DEF IInv, Places, Covers
<1>11. Places'
  BY <1>8, <1>9, <1>10 DEF IInv, Places
<1> QED BY <1>1, <1>8, <1>9, <1>11 DEF Flying

\* The callback thread takes the callback of a result and frees its place.
LEMMA Taking ==
  ASSUME PoolAssumption, IInv, CbTake
  PROVE  /\ cb.task \in callbacks /\ callbacks' = callbacks \ {cb.task}
         /\ cb' = [cb EXCEPT !.pc = "call", !.callback = cb.task]
         /\ pending' \in Seq(Tasks) /\ input' \in Seq(Tasks \cup {Stop})
         /\ Places' /\ Flying' /\ Full'
<1>1. PICK t : t = cb.task
  OBVIOUS
<1>2. InHand = {t} /\ t \in callbacks
  BY <1>1, PoolFacts DEF CbTake, InHand, Within
<1>3. Registered(t) = {t}
  BY <1>2, PoolFacts DEF Registered, UniqueIds
<1>4. callbacks' = callbacks \ {t} /\ cb' = [cb EXCEPT !.pc = "call", !.callback = t]
  BY <1>1, <1>3 DEF CbTake
<1>5. Dispatch(pending, inflight \ {t.id})
  BY <1>1 DEF CbTake, Refill
<1>6. UNCHANGED <<worker, results, alive>>
  BY DEF CbTake
<1>7. PICK K, F, A, R, C, v : /\ K = callbacks \ {t} /\ F = inflight \ {t.id} /\ A = Load
                              /\ R = Els(results) /\ C = {} /\ v = pending
  OBVIOUS
<1>8. t \notin Els(pending) /\ t \notin Els(input) /\ t \notin R /\ \A w \in Workers : t \notin A[w]
  BY <1>2, <1>7, PoolFacts DEF Placed
<1>9. F = Ids(K \ Els(v)) /\ Fits(F)
  <2>1. Ids(callbacks \ Els(pending)) \ {t.id} = Ids((callbacks \ {t}) \ Els(pending))
    BY <1>2, PoolFacts DEF Ids, UniqueIds
  <2>2. /\ IsFiniteSet(inflight) /\ IsFiniteSet(inflight \ {t.id})
        /\ Cardinality(inflight \ {t.id}) <= Cardinality(inflight)
        /\ Cardinality(inflight) \in Nat /\ Cardinality(inflight \ {t.id}) \in Nat /\ Cap \in Nat
    BY PoolFacts, FS_Subset, FS_CardinalityType DEF Fits, PoolAssumption
  <2>3. Cap # 0 => Cardinality(inflight) <= Cap
    BY PoolFacts DEF Fits
  <2>4. Fits(inflight \ {t.id})
    BY <2>2, <2>3 DEF Fits
  <2> QED BY <1>7, <2>1, <2>4, PoolFacts
<1>10. Placed(Els(v), Els(input), A, R, C)
  BY <1>7, PoolFacts DEF Placed
<1>11. Within(K, Els(v), Els(input), A, R, C)
  BY <1>7, <1>8, PoolFacts DEF Within
<1>12. /\ pending' \in Seq(Tasks) /\ Once(pending')
       /\ input' \in Seq(Tasks \cup {Stop}) /\ Once(input')
       /\ Placed(Els(pending'), Els(input'), A, R, C)
       /\ Within(K, Els(pending'), Els(input'), A, R, C)
       /\ Covers(K, Els(v), Els(input), A, R, C) => Covers(K, Els(pending'), Els(input'), A, R, C)
       /\ IsFiniteSet(inflight') /\ inflight' = Ids(K \ Els(pending')) /\ Full'
  <2>1. UniqueIds(K) /\ v \in Seq(Tasks) /\ Once(v) /\ Dispatch(v, F)
    BY <1>5, <1>7, PoolFacts DEF UniqueIds
  <2> QED BY <1>9, <1>10, <1>11, <2>1, PoolFacts, DispatchStep
<1>13. cb'.pc = "call"
  BY <1>4 DEF IInv, TypeOK
<1>14. K = callbacks' /\ A = Load' /\ R = Els(results') /\ C = InHand'
  BY <1>4, <1>6, <1>7, <1>13 DEF Load, InHand
<1>15. alive => Covers(K, Els(v), Els(input), A, R, C)
  BY <1>2, <1>7 DEF IInv, Places, Covers
<1>16. Places'
  BY <1>6, <1>12, <1>14, <1>15 DEF IInv, Places
<1> QED BY <1>1, <1>2, <1>4, <1>12, <1>14, <1>16 DEF Flying

\* input_queue.get() by a worker: the task goes to its local queue.
LEMMA Getting ==
  ASSUME PoolAssumption, IInv, NEW w \in Workers, WorkerGet(w)
  PROVE  TypeOK' /\ Places'
<1>1. PICK h, q : h = Head(input) /\ q = worker[w].queue
  OBVIOUS
<1>2. /\ input # <<>> /\ h # Stop /\ input' = Tail(input)
      /\ worker' = [worker EXCEPT ![w].queue = Append(q, h)]
      /\ UNCHANGED <<flow, caller, callbacks, pending, inflight, results, cb, called, alive, late>>
  BY <1>1 DEF WorkerGet
<1>3. /\ input' \in Seq(Tasks \cup {Stop}) /\ Once(input') /\ h \in Tasks
      /\ h \in Els(input) /\ Els(input') = Els(input) \ {h}
  BY <1>1, <1>2, PoolFacts, TailEls
<1>4. /\ q \in Seq(Tasks) /\ Once(q) /\ h \notin Els(q) /\ h \notin worker[w].tasks
      /\ Els(q) \cap worker[w].tasks = {}
  BY <1>1, <1>3, PoolFacts DEF Placed
<1>5. Append(q, h) \in Seq(Tasks) /\ Once(Append(q, h)) /\ Els(Append(q, h)) = Els(q) \cup {h}
  BY <1>2, <1>3, <1>4, AppendEls
<1>6. worker \in [Workers -> [pc : {"poll", "wait", "gone"}, queue : Seq(Tasks), tasks : SUBSET Tasks]]
  BY DEF IInv, TypeOK
<1>7. /\ worker' \in [Workers -> [pc : {"poll", "wait", "gone"}, queue : Seq(Tasks), tasks : SUBSET Tasks]]
      /\ worker'[w].queue = Append(q, h) /\ worker'[w].tasks = worker[w].tasks
      /\ \A v \in Workers : v # w => worker'[v] = worker[v]
  BY <1>2, <1>5, <1>6
<1>8. \A v \in Workers : Once(worker'[v].queue) /\ Els(worker'[v].queue) \cap worker'[v].tasks = {}
  BY <1>4, <1>5, <1>7, PoolFacts
<1>9. \A v \in Workers : Load'[v] = IF v = w THEN Load[v] \cup {h} ELSE Load[v]
  <2>1. \A v \in Workers : Load'[v] = Els(worker'[v].queue) \cup worker'[v].tasks
    BY DEF Load
  <2>2. Load'[w] = Load[w] \cup {h}
    <3>1. Load[w] = Els(q) \cup worker[w].tasks
      BY <1>1 DEF Load
    <3>2. Load'[w] = Els(Append(q, h)) \cup worker[w].tasks
      BY <1>7, <2>1
    <3> QED BY <1>5, <3>1, <3>2
  <2>3. \A v \in Workers : v # w => Load'[v] = Load[v]
    BY <1>7, <2>1 DEF Load
  <2> QED BY <2>2, <2>3
<1>10. PICK B, D, I, P, R, C : /\ B = Load /\ D = Load' /\ I = Els(input)
                               /\ P = Els(pending) /\ R = Els(results) /\ C = InHand
  OBVIOUS
<1>11. InHand' = InHand
  BY <1>2 DEF InHand
<1>12. Placed(Els(pending), I \ {h}, D, Els(results), InHand)
  <2>1. Placed(P, I, B, R, C) /\ h \in I /\ \A v \in Workers : D[v] = IF v = w THEN B[v] \cup {h} ELSE B[v]
    BY <1>3, <1>9, <1>10, PoolFacts
  <2>2. Placed(P, I \ {h}, D, R, C)
    BY <2>1 DEF Placed
  <2> QED BY <1>10, <2>2
<1>13. Within(callbacks, Els(pending), I \ {h}, D, Els(results), InHand)
  BY <1>3, <1>9, <1>10, PoolFacts DEF Within
<1>14. alive => Covers(callbacks, Els(pending), I \ {h}, D, Els(results), InHand)
  BY <1>3, <1>9, <1>10 DEF IInv, Places, Covers
<1>15. Places'
  BY <1>2, <1>3, <1>8, <1>10, <1>11, <1>12, <1>13, <1>14, PoolFacts DEF Places
<1>16. TypeOK'
  BY <1>2, <1>3, <1>7 DEF IInv, TypeOK
<1> QED BY <1>15, <1>16

\* _generate_loop() starts what is in the local queue.
LEMMA Polling ==
  ASSUME PoolAssumption, IInv, NEW w \in Workers, LoopPoll(w)
  PROVE  TypeOK' /\ Places'
<1>1. PICK q : q = worker[w].queue
  OBVIOUS
<1>2. /\ worker' = [worker EXCEPT ![w] =
           [pc |-> "wait", queue |-> <<>>, tasks |-> worker[w].tasks \cup ToSet(q)]]
      /\ UNCHANGED <<flow, caller, callbacks, pending, inflight, input, results, cb, called, alive, late>>
  BY <1>1 DEF LoopPoll, poolVars
<1>3. q \in Seq(Tasks) /\ Stop \notin Tasks
  BY <1>1, PoolFacts
<1>4. ToSet(q) = Els(q) /\ ToSet(q) \subseteq Tasks
  <2>1. Len(q) \in Nat /\ DOMAIN q = 1 .. Len(q) /\ \A i \in 1 .. Len(q) : q[i] \in Tasks
    BY <1>3
  <2> QED BY <1>3, <2>1 DEF ToSet, Els
<1>5. <<>> \in Seq(Tasks) /\ Once(<<>>) /\ Els(<<>>) = {}
  BY DEF Once, Els
<1>6. worker \in [Workers -> [pc : {"poll", "wait", "gone"}, queue : Seq(Tasks), tasks : SUBSET Tasks]]
  BY DEF IInv, TypeOK
<1>7. /\ worker' \in [Workers -> [pc : {"poll", "wait", "gone"}, queue : Seq(Tasks), tasks : SUBSET Tasks]]
      /\ worker'[w].queue = <<>> /\ worker'[w].tasks = worker[w].tasks \cup Els(q)
      /\ \A v \in Workers : v # w => worker'[v] = worker[v]
  <2>1. worker[w].tasks \cup ToSet(q) \in SUBSET Tasks
    BY <1>4, PoolFacts
  <2> QED BY <1>2, <1>4, <1>5, <1>6, <2>1
<1>8. \A v \in Workers : Once(worker'[v].queue) /\ Els(worker'[v].queue) \cap worker'[v].tasks = {}
  BY <1>5, <1>7, PoolFacts
<1>9. Load' = Load
  <2>1. \A v \in Workers :
          Els(worker'[v].queue) \cup worker'[v].tasks = Els(worker[v].queue) \cup worker[v].tasks
    BY <1>1, <1>5, <1>7
  <2> QED BY <2>1 DEF Load
<1>10. InHand' = InHand
  BY <1>2 DEF InHand
<1>11. Places'
  BY <1>2, <1>8, <1>9, <1>10 DEF IInv, Places
<1>12. TypeOK'
  BY <1>2, <1>7 DEF IInv, TypeOK
<1> QED BY <1>11, <1>12

\* A generation ends: its task is put in the queue of the results.
LEMMA Finishing ==
  ASSUME PoolAssumption, IInv, NEW w \in Workers, GenFinish(w)
  PROVE  TypeOK' /\ Places'
<1>1. PICK t \in worker[w].tasks :
         /\ worker' = [worker EXCEPT ![w].tasks = @ \ {t}, ![w].pc = "poll"]
         /\ results' = Append(results, t)
  BY DEF GenFinish
<1>2. UNCHANGED <<flow, caller, callbacks, pending, inflight, input, cb, called, alive, late>>
  BY DEF GenFinish, poolVars
<1>3. t \in Tasks /\ t # Stop /\ t \in Load[w] /\ t \notin Els(worker[w].queue)
  BY <1>1, PoolFacts
<1>4. t \notin Els(results)
  BY <1>3, PoolFacts DEF Placed
<1>5. results' \in Seq(Tasks) /\ Once(results') /\ Els(results') = Els(results) \cup {t}
  BY <1>1, <1>3, <1>4, PoolFacts, AppendEls
<1>6. worker \in [Workers -> [pc : {"poll", "wait", "gone"}, queue : Seq(Tasks), tasks : SUBSET Tasks]]
  BY DEF IInv, TypeOK
<1>7. /\ worker' \in [Workers -> [pc : {"poll", "wait", "gone"}, queue : Seq(Tasks), tasks : SUBSET Tasks]]
      /\ worker'[w].queue = worker[w].queue /\ worker'[w].tasks = worker[w].tasks \ {t}
      /\ \A v \in Workers : v # w => worker'[v] = worker[v]
  BY <1>1, <1>6
<1>8. \A v \in Workers : Once(worker'[v].queue) /\ Els(worker'[v].queue) \cap worker'[v].tasks = {}
  BY <1>7, PoolFacts
<1>9. \A v \in Workers : Load'[v] = IF v = w THEN Load[v] \ {t} ELSE Load[v]
  <2>1. \A v \in Workers : Load'[v] = Els(worker'[v].queue) \cup worker'[v].tasks
    BY DEF Load
  <2>2. Load'[w] = Load[w] \ {t}
    <3>1. Load[w] = Els(worker[w].queue) \cup worker[w].tasks
      BY DEF Load
    <3>2. Load'[w] = Els(worker[w].queue) \cup (worker[w].tasks \ {t})
      BY <1>7, <2>1
    <3> QED BY <1>3, <3>1, <3>2
  <2>3. \A v \in Workers : v # w => Load'[v] = Load[v]
    BY <1>7, <2>1 DEF Load
  <2> QED BY <2>2, <2>3
<1>10. PICK B, D, R, P, I, C : /\ B = Load /\ D = Load' /\ R = Els(results)
                               /\ P = Els(pending) /\ I = Els(input) /\ C = InHand
  OBVIOUS
<1>11. InHand' = InHand
  BY <1>2 DEF InHand
<1>12. Placed(Els(pending), Els(input), D, R \cup {t}, InHand)
  <2>1. Placed(P, I, B, R, C) /\ t \in B[w] /\ \A v \in Workers : D[v] = IF v = w THEN B[v] \ {t} ELSE B[v]
    BY <1>3, <1>9, <1>10, PoolFacts
  <2>2. Placed(P, I, D, R \cup {t}, C)
    BY <2>1 DEF Placed
  <2> QED BY <1>10, <2>2
<1>13. Within(callbacks, Els(pending), Els(input), D, R \cup {t}, InHand)
  BY <1>3, <1>9, <1>10, PoolFacts DEF Within
<1>14. alive => Covers(callbacks, Els(pending), Els(input), D, R \cup {t}, InHand)
  BY <1>3, <1>9, <1>10 DEF IInv, Places, Covers
<1>15. Places'
  BY <1>2, <1>5, <1>8, <1>10, <1>11, <1>12, <1>13, <1>14, PoolFacts DEF Places
<1>16. TypeOK'
  BY <1>2, <1>5, <1>7 DEF IInv, TypeOK
<1> QED BY <1>15, <1>16

\* A worker ends: what it had is lost, and shutdown() was called.
LEMMA Stopping ==
  ASSUME PoolAssumption, IInv, NEW w \in Workers, WorkerStop(w)
  PROVE  TypeOK' /\ Places'
<1>1. /\ ~alive
      /\ worker' = [worker EXCEPT ![w] = [pc |-> "gone", queue |-> <<>>, tasks |-> {}]]
      /\ UNCHANGED <<flow, caller, callbacks, pending, inflight, results, cb, called, alive, late>>
  BY DEF WorkerStop
<1>2. input' \in Seq(Tasks \cup {Stop}) /\ Once(input') /\ Els(input') = Els(input)
  <2>1. CASE input # <<>> /\ Head(input) = Stop /\ input' = Tail(input)
    BY <2>1, PoolFacts, TailEls
  <2>2. CASE UNCHANGED input
    BY <2>2, PoolFacts
  <2> QED BY <2>1, <2>2 DEF WorkerStop
<1>3. <<>> \in Seq(Tasks) /\ Once(<<>>) /\ Els(<<>>) = {}
  BY DEF Once, Els
<1>4. worker \in [Workers -> [pc : {"poll", "wait", "gone"}, queue : Seq(Tasks), tasks : SUBSET Tasks]]
  BY DEF IInv, TypeOK
<1>5. /\ worker' \in [Workers -> [pc : {"poll", "wait", "gone"}, queue : Seq(Tasks), tasks : SUBSET Tasks]]
      /\ worker'[w].queue = <<>> /\ worker'[w].tasks = {}
      /\ \A v \in Workers : v # w => worker'[v] = worker[v]
  BY <1>1, <1>3, <1>4
<1>6. \A v \in Workers : Once(worker'[v].queue) /\ Els(worker'[v].queue) \cap worker'[v].tasks = {}
  BY <1>3, <1>5, PoolFacts
<1>7. \A v \in Workers : Load'[v] = IF v = w THEN {} ELSE Load[v]
  <2>1. \A v \in Workers : Load'[v] = Els(worker'[v].queue) \cup worker'[v].tasks
    BY DEF Load
  <2> QED BY <1>3, <1>5, <2>1, PoolFacts
<1>8. PICK B, D : B = Load /\ D = Load'
  OBVIOUS
<1>9. InHand' = InHand
  BY <1>1 DEF InHand
<1>10. Placed(Els(pending), Els(input), D, Els(results), InHand)
  BY <1>7, <1>8, PoolFacts DEF Placed
<1>11. Within(callbacks, Els(pending), Els(input), D, Els(results), InHand)
  BY <1>7, <1>8, PoolFacts DEF Within
<1>12. Places'
  BY <1>1, <1>2, <1>6, <1>8, <1>9, <1>10, <1>11, PoolFacts DEF Places
<1>13. TypeOK'
  BY <1>1, <1>2, <1>5 DEF IInv, TypeOK
<1> QED BY <1>12, <1>13

\* result_queue.get(): the callback thread has the task in hand.
LEMMA Fetching ==
  ASSUME PoolAssumption, IInv, CbGet
  PROVE  TypeOK' /\ Places'
<1>1. PICK h : h = Head(results)
  OBVIOUS
<1>2. /\ cb.pc = "get" /\ results # <<>> /\ results' = Tail(results)
      /\ cb' = [cb EXCEPT !.pc = "lock", !.task = h]
      /\ UNCHANGED <<flow, caller, callbacks, pending, inflight, input, worker, called, alive, late>>
  BY <1>1 DEF CbGet, poolVars
<1>3. /\ results' \in Seq(Tasks) /\ Once(results') /\ h \in Tasks
      /\ h \in Els(results) /\ Els(results') = Els(results) \ {h}
  BY <1>1, <1>2, PoolFacts, TailEls
<1>4. cb \in [pc : Pcs, task : Tasks \cup {NoTask}, callback : Tasks \cup {NoTask}]
  BY DEF IInv, TypeOK
<1>5. /\ cb' \in [pc : Pcs, task : Tasks \cup {NoTask}, callback : Tasks \cup {NoTask}]
      /\ cb'.pc = "lock" /\ cb'.task = h
  BY <1>2, <1>3, <1>4 DEF Pcs
<1>6. InHand = {} /\ InHand' = {h}
  BY <1>2, <1>5 DEF InHand
<1>7. PICK R : R = Els(results)
  OBVIOUS
<1>8. Placed(Els(pending), Els(input), Load, R \ {h}, {h})
  BY <1>3, <1>7, PoolFacts DEF Placed
<1>9. Within(callbacks, Els(pending), Els(input), Load, R \ {h}, {h})
  BY <1>3, <1>7, PoolFacts DEF Within
<1>10. alive => Covers(callbacks, Els(pending), Els(input), Load, R \ {h}, {h})
  BY <1>3, <1>6, <1>7 DEF IInv, Places, Covers
<1>11. Load' = Load
  BY <1>2 DEF Load
<1>12. Places'
  BY <1>2, <1>3, <1>6, <1>7, <1>8, <1>9, <1>10, <1>11, PoolFacts DEF Places
<1>13. TypeOK'
  BY <1>2, <1>3, <1>5 DEF IInv, TypeOK
<1> QED BY <1>12, <1>13

\* shutdown() puts a None for every worker behind the tasks.
LEMMA Shutting ==
  ASSUME PoolAssumption, IInv, Shutdown
  PROVE  TypeOK' /\ Places'
<1>1. PICK n, s : n = Cardinality(Workers) /\ s = [i \in 1 .. n |-> Stop]
  OBVIOUS
<1>2. /\ alive' = FALSE /\ input' = input \o s
      /\ UNCHANGED <<flow, caller, callbacks, pending, inflight, worker, results, cb, called, late>>
  BY <1>1 DEF Shutdown
<1>3. n \in Nat
  BY <1>1, FS_CardinalityType DEF PoolAssumption
<1>4. s \in Seq(Tasks \cup {Stop}) /\ Len(s) = n /\ \A i \in 1 .. n : s[i] = Stop
  <2>1. s \in [1 .. n -> Tasks \cup {Stop}]
    BY <1>1
  <2> QED BY <1>1, <1>3, <2>1
<1>5. Once(s) /\ Els(s) = {}
  BY <1>4 DEF Once, Els
<1>6. input' \in Seq(Tasks \cup {Stop}) /\ Once(input') /\ Els(input') = Els(input)
  <2>1. Els(input) \cap Els(s) = {} /\ Els(input) \cup Els(s) = Els(input)
    BY <1>5
  <2>2. PICK u : u = input /\ u \in Seq(Tasks \cup {Stop}) /\ Once(u)
    BY PoolFacts
  <2>3. u \o s \in Seq(Tasks \cup {Stop}) /\ Once(u \o s) /\ Els(u \o s) = Els(u) \cup Els(s)
    <3>1. Els(u) \cap Els(s) = {}
      BY <1>5
    <3>2. PICK x : x = s /\ x \in Seq(Tasks \cup {Stop}) /\ Once(x) /\ Els(u) \cap Els(x) = {}
      BY <1>4, <1>5, <3>1
    <3> QED BY <2>2, <3>2, ConcatEls
  <2> QED BY <1>2, <2>1, <2>2, <2>3
<1>7. Load' = Load /\ InHand' = InHand
  BY <1>2 DEF Load, InHand
<1>8. Places'
  BY <1>2, <1>6, <1>7, PoolFacts DEF Places
<1>9. TypeOK'
  BY <1>2, <1>6 DEF IInv, TypeOK
<1> QED BY <1>8, <1>9

-----------------------------------------------------------------------------
(* Whose turn it is to be called back.                                     *)

\* Calls after a submission: t is new.
LEMMA CallsSubmit ==
  ASSUME PoolAssumption, IInv, NEW t \in Tasks, t \notin Sent, Open \subseteq Open', Sent \subseteq Sent',
         t \in Open', callbacks' = callbacks \cup {t}, caller'.batch = caller.batch, caller'.got = caller.got,
         UNCHANGED <<cb, called, alive, late>>
  PROVE  Calls'
<1>1. Open \subseteq Sent
  BY OpenTasks DEF IInv
<1>2. OutQueue(caller.batch)' = OutQueue(caller.batch)
  BY DEF OutQueue
<1>3. callbacks' \subseteq Open'
  BY DEF IInv, Calls
<1>4. (cb.pc = "call" =>
        /\ cb.callback = cb.task /\ cb.task \in Open \ callbacks
        /\ \A i \in DOMAIN called : called[i].task # cb.task)'
  BY <1>1 DEF IInv, Calls
<1>5. (\A i \in DOMAIN called :
         called[i].task \in Sent \ callbacks /\ called[i].owner = called[i].task.owner)'
  BY DEF IInv, Calls
<1>6. (\A i, j \in DOMAIN called : called[i].task = called[j].task => i = j)'
  BY DEF IInv, Calls
<1>7. (caller.got <= Cardinality(OutQueue(caller.batch)))'
  BY <1>2 DEF IInv, Calls
<1>8. ((alive => late = 0) /\ late <= 1 /\ (late = 1 => cb.pc \in {"check", "ended"}))'
  BY DEF IInv, Calls
<1> QED BY <1>3, <1>4, <1>5, <1>6, <1>7, <1>8 DEF Calls

\* The flow submits an item.
LEMMA FlowSubmits ==
  ASSUME PoolAssumption, IInv, FlowSubmit
  PROVE  IInv'
<1>1. PICK t : t = FlowTask(flow + 1)
  OBVIOUS
<1>2. /\ flow < Submits /\ flow' = flow + 1 /\ SubmitTask(t)
      /\ UNCHANGED <<caller, worker, results, cb, called, alive, late>>
  BY <1>1 DEF FlowSubmit
<1>3. t \in Tasks /\ t \notin Sent /\ Open \subseteq Sent
  BY <1>1, <1>2, OpenTasks DEF IInv
<1>4. flow \in Nat /\ Submits \in Nat
  BY DEF IInv, TypeOK, PoolAssumption
<1>5. 1 .. flow' = (1 .. flow) \cup {flow + 1}
  BY <1>2, <1>4
<1>6. Open' = Open \cup {t}
  BY <1>1, <1>2, <1>5 DEF Open
<1>7. Sent \subseteq Sent'
  BY <1>2, <1>6 DEF Sent
<1>8. t \notin callbacks
  BY <1>3 DEF IInv, Calls
<1>9. UniqueIds(callbacks \cup {t})
  <2>1. UniqueIds(Open')
    BY DEF UniqueIds, Open, FlowTask, BatchTask
  <2>2. callbacks \cup {t} \subseteq Open'
    BY <1>6 DEF IInv, Calls
  <2> QED BY <2>1, <2>2 DEF UniqueIds
<1>10. /\ callbacks' = callbacks \cup {t}
       /\ pending' \in Seq(Tasks) /\ input' \in Seq(Tasks \cup {Stop})
       /\ Places' /\ Flying' /\ Full'
  BY <1>2, <1>3, <1>8, <1>9, Submitting
<1>11. TypeOK'
  <2>1. flow' \in 0 .. Submits
    BY <1>2, <1>4
  <2> QED BY <1>2, <1>3, <1>10, <2>1 DEF IInv, TypeOK
<1>12. Calls'
  BY <1>2, <1>3, <1>6, <1>7, <1>10, CallsSubmit
<1> QED BY <1>10, <1>11, <1>12 DEF IInv

\* generate() submits an item of its batch.
LEMMA BatchSubmits ==
  ASSUME PoolAssumption, IInv, BatchSubmit
  PROVE  IInv'
<1>1. PICK t : t = BatchTask(caller.batch, caller.sent)
  OBVIOUS
<1>2. /\ caller.batch <= Batches /\ caller.sent < BatchSize /\ SubmitTask(t)
      /\ caller' = [caller EXCEPT !.sent = @ + 1]
      /\ UNCHANGED <<flow, worker, results, cb, called, alive, late>>
  BY <1>1 DEF BatchSubmit
<1>3. t \in Tasks /\ t \notin Sent /\ Open \subseteq Sent
  BY <1>1, <1>2, OpenTasks DEF IInv
<1>4. /\ caller = [batch |-> caller.batch, sent |-> caller.sent, got |-> caller.got]
      /\ caller.sent \in Nat /\ BatchSize \in Nat /\ Batches \in Nat /\ caller.batch \in Nat
  BY DEF IInv, TypeOK, PoolAssumption
<1>5. /\ caller' = [batch |-> caller.batch, sent |-> caller.sent + 1, got |-> caller.got]
      /\ caller'.batch = caller.batch /\ caller'.sent = caller.sent + 1 /\ caller'.got = caller.got
  BY <1>2, <1>4
<1>6. Open' = Open \cup {t}
  <2>1. 0 .. caller'.sent - 1 = (0 .. caller.sent - 1) \cup {caller.sent}
    BY <1>4, <1>5
  <2> QED BY <1>1, <1>2, <1>5, <2>1 DEF Open
<1>7. Sent \subseteq Sent'
  BY <1>5, <1>6 DEF Sent
<1>8. t \notin callbacks
  BY <1>3 DEF IInv, Calls
<1>9. UniqueIds(callbacks \cup {t})
  <2>1. UniqueIds(Open')
    BY DEF UniqueIds, Open, FlowTask, BatchTask
  <2>2. callbacks \cup {t} \subseteq Open'
    BY <1>6 DEF IInv, Calls
  <2> QED BY <2>1, <2>2 DEF UniqueIds
<1>10. /\ callbacks' = callbacks \cup {t}
       /\ pending' \in Seq(Tasks) /\ input' \in Seq(Tasks \cup {Stop})
       /\ Places' /\ Flying' /\ Full'
  BY <1>2, <1>3, <1>8, <1>9, Submitting
<1>11. TypeOK'
  <2>1. /\ caller'.batch \in 1 .. Batches + 1 /\ caller'.sent \in 0 .. BatchSize /\ caller'.got \in Nat
        /\ caller' = [batch |-> caller'.batch, sent |-> caller'.sent, got |-> caller'.got]
        /\ ~(caller'.batch > Batches)
    <3>1. caller.batch \in 1 .. Batches + 1 /\ caller.got \in Nat
      BY DEF IInv, TypeOK
    <3>2. PICK r, b, n, g : r = caller' /\ b = caller.batch /\ n = caller.sent /\ g = caller.got
      OBVIOUS
    <3>3. r = [batch |-> b, sent |-> n + 1, got |-> g] /\ n + 1 \in 0 .. BatchSize /\ ~(b > Batches)
      BY <1>2, <1>4, <1>5, <3>2
    <3> QED BY <3>1, <3>2, <3>3
  <2> QED BY <1>2, <1>3, <1>10, <2>1 DEF IInv, TypeOK
<1>12. Calls'
  BY <1>2, <1>3, <1>5, <1>6, <1>7, <1>10, CallsSubmit
<1> QED BY <1>10, <1>11, <1>12 DEF IInv

\* What the callbacks of a batch have put is finite, and no more than they were
\* called.
LEMMA OutQueueFinite ==
  ASSUME IInv, NEW b
  PROVE  IsFiniteSet(OutQueue(b)) /\ Cardinality(OutQueue(b)) \in Nat
<1>1. DOMAIN called = 1 .. Len(called) /\ Len(called) \in Nat
  BY DEF IInv, TypeOK
<1>2. IsFiniteSet(1 .. Len(called))
  BY <1>1, FS_Interval
<1>3. OutQueue(b) \subseteq 1 .. Len(called)
  BY <1>1 DEF OutQueue
<1> QED BY <1>2, <1>3, FS_Subset, FS_CardinalityType

\* A batch that has all its answers has called back each of its tasks: the
\* answers are as many as the tasks, and no task is called back twice.
LEMMA AllCalled ==
  ASSUME PoolAssumption, IInv, Cardinality(OutQueue(caller.batch)) >= BatchSize
  PROVE  \A k \in 0 .. BatchSize - 1 :
           \E i \in DOMAIN called : called[i].task = BatchTask(caller.batch, k)
<1>1. PICK b : b = caller.batch
  OBVIOUS
<1> DEFINE Q == OutQueue(b)
           S == {BatchTask(b, k) : k \in 0 .. BatchSize - 1}
           f == [i \in Q |-> called[i].task]
           T == {called[i].task : i \in Q}
<1>2. IsFiniteSet(Q) /\ Cardinality(Q) \in Nat
  BY OutQueueFinite
<1>3. BatchSize \in Nat /\ BatchSize >= 1 /\ b \in Nat /\ b >= 1 /\ caller.sent \in Nat /\ caller.sent <= BatchSize
  BY <1>1 DEF PoolAssumption, IInv, TypeOK
<1>4. T \subseteq S
  <2> SUFFICES ASSUME NEW i \in Q PROVE called[i].task \in S
    OBVIOUS
  <2>1. called[i].task \in Sent /\ called[i].task.owner = b
    BY DEF IInv, Calls, OutQueue
  <2>2. \A n : FlowTask(n).owner = 0
    BY DEF FlowTask
  <2>3. \A c, k : BatchTask(c, k).owner = c
    BY DEF BatchTask
  <2>4. \A c \in 1 .. b - 1 : c # b
    BY <1>3
  <2>5. \A k \in 0 .. caller.sent - 1 : k \in 0 .. BatchSize - 1
    BY <1>3
  <2> QED BY <1>1, <1>3, <2>1, <2>2, <2>3, <2>4, <2>5 DEF Sent, Open
<1>5. f \in Bijection(Q, T)
  <2>1. f \in [Q -> T]
    OBVIOUS
  <2>2. \A i, j \in Q : called[i].task = called[j].task => i = j
    BY DEF IInv, Calls, OutQueue
  <2>3. f \in Injection(Q, T)
    BY <2>1, <2>2 DEF Injection, IsInjective
  <2>4. f \in Surjection(Q, T)
    BY <2>1 DEF Surjection
  <2> QED BY <2>3, <2>4 DEF Bijection
<1> HIDE DEF f, T, Q
<1>6. IsFiniteSet(T) /\ Cardinality(T) = Cardinality(Q)
  BY <1>2, <1>5, FS_Bijection DEF ExistsBijection
<1>7. IsFiniteSet(S) /\ Cardinality(S) = BatchSize
  <2> DEFINE g == [k \in 0 .. BatchSize - 1 |-> BatchTask(b, k)]
  <2>1. g \in [0 .. BatchSize - 1 -> S]
    OBVIOUS
  <2>2. \A k, l : BatchTask(b, k) = BatchTask(b, l) => k = l
    BY DEF BatchTask
  <2>3. g \in Injection(0 .. BatchSize - 1, S)
    BY <2>1, <2>2 DEF Injection, IsInjective
  <2>4. g \in Surjection(0 .. BatchSize - 1, S)
    BY <2>1 DEF Surjection
  <2>5. g \in Bijection(0 .. BatchSize - 1, S)
    BY <2>3, <2>4 DEF Bijection
  <2>6. 0 \in Int /\ BatchSize - 1 \in Int /\ BatchSize \in Nat /\ BatchSize >= 1
    BY <1>3
  <2>7. IsFiniteSet(0 .. BatchSize - 1) /\ Cardinality(0 .. BatchSize - 1) = BatchSize
    BY <2>6, FS_Interval
  <2> HIDE DEF g, S
  <2> QED BY <2>5, <2>7, FS_Bijection DEF ExistsBijection
<1> HIDE DEF S
<1>8. T = S
  BY <1>1, <1>2, <1>3, <1>4, <1>6, <1>7, FS_Subset DEF Q
<1> QED BY <1>1, <1>8 DEF S, T, Q, OutQueue

\* Nothing but the places of the tasks, or of the callback thread, changes.
Frame == UNCHANGED <<flow, caller, callbacks, pending, inflight>>

\* The ids in flight are those of the tasks with a callback that do not wait.
LEMMA FrameFlies ==
  ASSUME IInv, UNCHANGED <<callbacks, pending, inflight>>
  PROVE  Flying' /\ Full'
BY DEF IInv, Flying, Full

\* A step of a worker, or the fetch of a result, calls nobody back.
LEMMA CallsFrame ==
  ASSUME IInv, Frame, UNCHANGED called, late' = late,
         alive' => alive,
         cb' = cb \/ (cb.pc = "get" /\ cb'.pc = "lock")
  PROVE  Calls'
<1>1. Open' = Open /\ Sent' = Sent /\ OutQueue(caller.batch)' = OutQueue(caller.batch)
  BY DEF Frame, Open, Sent, OutQueue
<1>2. cb'.pc = "call" => cb' = cb
  OBVIOUS
<1>3. (late = 1 => cb.pc \in {"check", "ended"})'
  BY DEF IInv, Calls
<1>4. (cb.pc = "call" =>
        /\ cb.callback = cb.task /\ cb.task \in Open \ callbacks
        /\ \A i \in DOMAIN called : called[i].task # cb.task)'
  BY <1>1, <1>2 DEF IInv, Calls, Frame
<1>5. (\A i \in DOMAIN called :
         called[i].task \in Sent \ callbacks /\ called[i].owner = called[i].task.owner)'
  BY <1>1 DEF IInv, Calls, Frame
<1>6. ((callbacks \subseteq Open) /\ (caller.got <= Cardinality(OutQueue(caller.batch))))'
  BY <1>1 DEF IInv, Calls, Frame
<1>7. (\A i, j \in DOMAIN called : called[i].task = called[j].task => i = j)'
  BY DEF IInv, Calls
<1>8. ((alive => late = 0) /\ late <= 1)'
  BY DEF IInv, Calls
<1> QED BY <1>3, <1>4, <1>5, <1>6, <1>7, <1>8 DEF Calls

\* The workers, the fetch of a result and shutdown().
LEMMA Moves ==
  ASSUME PoolAssumption, IInv,
         (\E w \in Workers : WorkerGet(w) \/ LoopPoll(w) \/ GenFinish(w) \/ WorkerStop(w))
           \/ CbGet \/ Shutdown
  PROVE  IInv'
<1>1. Frame /\ UNCHANGED called /\ late' = late /\ (alive' => alive)
  BY DEF Frame, WorkerGet, LoopPoll, GenFinish, WorkerStop, CbGet, Shutdown, poolVars
<1>2. cb' = cb \/ (cb.pc = "get" /\ cb'.pc = "lock")
  <2>1. CASE CbGet
    <3>1. cb \in [pc : Pcs, task : Tasks \cup {NoTask}, callback : Tasks \cup {NoTask}]
      BY DEF IInv, TypeOK
    <3> QED BY <2>1, <3>1 DEF CbGet
  <2>2. CASE ~CbGet
    BY <2>2 DEF WorkerGet, LoopPoll, GenFinish, WorkerStop, Shutdown
  <2> QED BY <2>1, <2>2
<1>3. Calls'
  BY <1>1, <1>2, CallsFrame
<1>4. Flying' /\ Full'
  BY <1>1, FrameFlies DEF Frame
<1>5. TypeOK' /\ Places'
  BY Getting, Polling, Finishing, Stopping, Fetching, Shutting
<1> QED BY <1>3, <1>4, <1>5 DEF IInv

\* Where the tasks are does not change.
LEMMA Stays ==
  ASSUME IInv, UNCHANGED <<callbacks, pending, input, worker, results, alive>>,
         cb.pc # "lock", cb'.pc # "lock"
  PROVE  Places'
<1>1. InHand' = InHand
  BY DEF InHand
<1>2. Load' = Load
  BY DEF Load
<1> QED BY <1>1, <1>2 DEF IInv, Places

\* generate() hands an answer to its caller.
LEMMA BatchYields ==
  ASSUME PoolAssumption, IInv, BatchYield
  PROVE  IInv'
<1>1. /\ caller.got < Cardinality(OutQueue(caller.batch))
      /\ caller' = [caller EXCEPT !.got = @ + 1]
      /\ UNCHANGED <<flow, callbacks, pending, inflight, input, worker, results, cb, called, alive, late>>
  BY DEF BatchYield, poolVars
<1>2. /\ caller = [batch |-> caller.batch, sent |-> caller.sent, got |-> caller.got]
      /\ caller.got \in Nat
  BY DEF IInv, TypeOK
<1>3. /\ caller' = [batch |-> caller.batch, sent |-> caller.sent, got |-> caller.got + 1]
      /\ caller'.batch = caller.batch /\ caller'.sent = caller.sent /\ caller'.got = caller.got + 1
      /\ caller'.got \in Nat
  BY <1>1, <1>2
<1>4. TypeOK'
  BY <1>1, <1>3 DEF IInv, TypeOK
<1>5. Places'
  <2>1. Load' = Load /\ InHand' = InHand
    BY <1>1 DEF Load, InHand
  <2> QED BY <1>1, <2>1 DEF IInv, Places
<1>6. Open' = Open /\ Sent' = Sent /\ OutQueue(caller.batch)' = OutQueue(caller.batch)
  BY <1>1, <1>3 DEF Open, Sent, OutQueue
<1>7. (caller.got <= Cardinality(OutQueue(caller.batch)))'
  BY <1>1, <1>2, <1>3, <1>6, OutQueueFinite
<1>8. Calls'
  BY <1>1, <1>6, <1>7 DEF IInv, Calls
<1> QED BY <1>1, <1>4, <1>5, <1>8, FrameFlies DEF IInv

\* generate() returns: its tasks were all called back, so that the next batch
\* may use their ids over again.
LEMMA BatchReturns ==
  ASSUME PoolAssumption, IInv, BatchReturn
  PROVE  IInv'
<1>1. /\ caller.batch <= Batches /\ caller.sent = BatchSize /\ caller.got = BatchSize
      /\ caller' = [batch |-> caller.batch + 1, sent |-> 0, got |-> 0]
      /\ UNCHANGED <<flow, callbacks, pending, inflight, input, worker, results, cb, called, alive, late>>
  BY DEF BatchReturn, AllYielded, poolVars
<1>2. PICK b : b = caller.batch
  OBVIOUS
<1>3. b \in Nat /\ b >= 1 /\ b <= Batches /\ Batches \in Nat /\ BatchSize \in Nat
  BY <1>1, <1>2 DEF IInv, TypeOK, PoolAssumption
<1>4. caller'.batch = b + 1 /\ caller'.sent = 0 /\ caller'.got = 0
  BY <1>1, <1>2
<1>5. \A k \in 0 .. BatchSize - 1 :
        \E i \in DOMAIN called : called[i].task = BatchTask(b, k)
  <2>1. Cardinality(OutQueue(caller.batch)) >= BatchSize
    BY <1>1 DEF IInv, Calls, PoolAssumption
  <2> QED BY <1>2, <2>1, AllCalled
<1>6. TypeOK'
  <2>1. /\ caller'.batch \in 1 .. Batches + 1 /\ caller'.sent \in 0 .. BatchSize /\ caller'.got \in Nat
        /\ caller' = [batch |-> caller'.batch, sent |-> caller'.sent, got |-> caller'.got]
    BY <1>1, <1>2, <1>3
  <2> QED BY <1>1, <1>4, <2>1 DEF IInv, TypeOK
<1>7. Places'
  <2>1. Load' = Load /\ InHand' = InHand
    BY <1>1 DEF Load, InHand
  <2> QED BY <1>1, <2>1 DEF IInv, Places
<1>8. Open' = {FlowTask(n) : n \in 1 .. flow}
  <2>1. 0 .. caller'.sent - 1 = {}
    BY <1>4
  <2> QED BY <1>1, <2>1 DEF Open
<1>9. Open = {FlowTask(n) : n \in 1 .. flow} \cup {BatchTask(b, k) : k \in 0 .. BatchSize - 1}
  BY <1>1, <1>2 DEF Open
<1>10. \A k \in 0 .. BatchSize - 1 : BatchTask(b, k) \notin callbacks
  BY <1>5 DEF IInv, Calls
<1>11. callbacks' \subseteq Open'
  BY <1>1, <1>8, <1>9, <1>10 DEF IInv, Calls
<1>12. (cb.pc = "call" =>
          /\ cb.callback = cb.task /\ cb.task \in Open \ callbacks
          /\ \A i \in DOMAIN called : called[i].task # cb.task)'
  <2> SUFFICES ASSUME cb.pc = "call"
               PROVE  /\ cb.callback = cb.task /\ cb.task \in Open' \ callbacks
                      /\ \A i \in DOMAIN called : called[i].task # cb.task
    BY <1>1
  <2>1. /\ cb.callback = cb.task /\ cb.task \in Open \ callbacks
        /\ \A i \in DOMAIN called : called[i].task # cb.task
    BY DEF IInv, Calls
  <2> QED BY <1>5, <1>8, <1>9, <2>1
<1>13. Sent' = Sent
  <2>1. 1 .. caller'.batch - 1 = (1 .. b - 1) \cup {b}
    BY <1>3, <1>4
  <2>2. {BatchTask(c, k) : c \in 1 .. caller'.batch - 1, k \in 0 .. BatchSize - 1}
          = {BatchTask(c, k) : c \in 1 .. b - 1, k \in 0 .. BatchSize - 1}
              \cup {BatchTask(b, k) : k \in 0 .. BatchSize - 1}
    BY <2>1
  <2>3. Sent = Open \cup {BatchTask(c, k) : c \in 1 .. b - 1, k \in 0 .. BatchSize - 1}
    BY <1>2 DEF Sent
  <2>4. Sent' = Open' \cup {BatchTask(c, k) : c \in 1 .. caller'.batch - 1, k \in 0 .. BatchSize - 1}
    BY DEF Sent
  <2> DEFINE F == {FlowTask(n) : n \in 1 .. flow}
             B == {BatchTask(b, k) : k \in 0 .. BatchSize - 1}
             W == {BatchTask(c, k) : c \in 1 .. b - 1, k \in 0 .. BatchSize - 1}
             W1 == {BatchTask(c, k) : c \in 1 .. caller'.batch - 1, k \in 0 .. BatchSize - 1}
  <2>5. Sent = (F \cup B) \cup W
    BY <1>9, <2>3
  <2>6. Sent' = F \cup W1
    BY <1>8, <2>4
  <2>7. W1 = W \cup B
    BY <2>2
  <2> HIDE DEF F, B, W, W1
  <2> QED BY <2>5, <2>6, <2>7
<1>14. (caller.got <= Cardinality(OutQueue(caller.batch)))'
  <2>1. OutQueue(caller.batch)' = OutQueue(b + 1)
    BY <1>1, <1>4 DEF OutQueue
  <2> QED BY <1>4, <2>1, OutQueueFinite
<1>15. Calls'
  BY <1>1, <1>11, <1>12, <1>13, <1>14 DEF IInv, Calls
<1> QED BY <1>1, <1>6, <1>7, <1>15, FrameFlies DEF IInv

\* The callback thread looks at _alive, or dies of what a callback raised.
LEMMA CbTurns ==
  ASSUME PoolAssumption, IInv, CbCheck \/ CbRaise
  PROVE  IInv'
<1>1. UNCHANGED <<flow, caller, callbacks, pending, inflight, input, worker, results, called, alive, late>>
  BY DEF CbCheck, CbRaise, poolVars
<1>2. cb \in [pc : Pcs, task : Tasks \cup {NoTask}, callback : Tasks \cup {NoTask}]
  BY DEF IInv, TypeOK
<1>3. /\ cb' \in [pc : Pcs, task : Tasks \cup {NoTask}, callback : Tasks \cup {NoTask}]
      /\ cb'.task = cb.task
      /\ \/ cb.pc = "check" /\ cb'.pc = (IF alive THEN "get" ELSE "ended")
         \/ cb.pc = "call" /\ cb'.pc = "dead"
  BY <1>2 DEF CbCheck, CbRaise, Pcs
<1>4. TypeOK'
  BY <1>1, <1>3 DEF IInv, TypeOK
<1>5. Places'
  BY <1>1, <1>3, Stays
<1>6. Open' = Open /\ Sent' = Sent /\ OutQueue(caller.batch)' = OutQueue(caller.batch)
  BY <1>1 DEF Open, Sent, OutQueue
<1>7. (late = 1 => cb.pc \in {"check", "ended"})'
  BY <1>1, <1>3 DEF IInv, Calls
<1>8. Calls'
  BY <1>1, <1>3, <1>6, <1>7 DEF IInv, Calls
<1> QED BY <1>1, <1>4, <1>5, <1>8, FrameFlies DEF IInv

\* The callback is taken under the lock.
LEMMA CbTakes ==
  ASSUME PoolAssumption, IInv, CbTake
  PROVE  IInv'
<1>1. PICK t : t = cb.task
  OBVIOUS
<1>2. /\ t \in callbacks /\ callbacks' = callbacks \ {t}
      /\ cb' = [cb EXCEPT !.pc = "call", !.callback = t]
      /\ pending' \in Seq(Tasks) /\ input' \in Seq(Tasks \cup {Stop})
      /\ Places' /\ Flying' /\ Full'
  BY <1>1, Taking
<1>3. cb.pc = "lock" /\ UNCHANGED <<flow, caller, worker, results, called, alive, late>>
  BY DEF CbTake
<1>4. t \in Tasks /\ t \in Open
  BY <1>2, PoolFacts
<1>5. cb \in [pc : Pcs, task : Tasks \cup {NoTask}, callback : Tasks \cup {NoTask}]
  BY DEF IInv, TypeOK
<1>6. /\ cb' \in [pc : Pcs, task : Tasks \cup {NoTask}, callback : Tasks \cup {NoTask}]
      /\ cb'.pc = "call" /\ cb'.task = t /\ cb'.callback = t
  BY <1>1, <1>2, <1>4, <1>5 DEF Pcs
<1>7. TypeOK'
  <2>1. callbacks' \subseteq Tasks
    BY <1>2, PoolFacts
  <2> QED BY <1>2, <1>3, <1>4, <1>6, <2>1 DEF IInv, TypeOK
<1>8. Open' = Open /\ Sent' = Sent /\ OutQueue(caller.batch)' = OutQueue(caller.batch)
  BY <1>3 DEF Open, Sent, OutQueue
<1>9. \A i \in DOMAIN called : called[i].task # t
  BY <1>2 DEF IInv, Calls
<1>10. (cb.pc = "call" =>
          /\ cb.callback = cb.task /\ cb.task \in Open \ callbacks
          /\ \A i \in DOMAIN called : called[i].task # cb.task)'
  BY <1>2, <1>3, <1>4, <1>6, <1>8, <1>9
<1>11. (\A i \in DOMAIN called :
          called[i].task \in Sent \ callbacks /\ called[i].owner = called[i].task.owner)'
  BY <1>2, <1>3, <1>8 DEF IInv, Calls
<1>12. (late = 1 => cb.pc \in {"check", "ended"})'
  BY <1>3 DEF IInv, Calls
<1>13. Calls'
  BY <1>2, <1>3, <1>8, <1>10, <1>11, <1>12 DEF IInv, Calls
<1> QED BY <1>2, <1>7, <1>13 DEF IInv

\* The callback is called, without the lock.
LEMMA CbCalls ==
  ASSUME PoolAssumption, IInv, CbCall
  PROVE  IInv'
<1>1. PICK t, o, n : t = cb.task /\ o = cb.callback.owner /\ n = Len(called)
  OBVIOUS
<1>2. /\ cb.pc = "call" /\ called' = Append(called, [task |-> t, owner |-> o])
      /\ late' = (IF alive THEN late ELSE late + 1)
      /\ cb' = [pc |-> "check", task |-> NoTask, callback |-> NoTask]
      /\ UNCHANGED <<flow, caller, callbacks, pending, inflight, input, worker, results, alive>>
  BY <1>1 DEF CbCall, poolVars
<1>3. /\ t \in Open /\ t \notin callbacks /\ o = t.owner
      /\ \A i \in DOMAIN called : called[i].task # t
  BY <1>1, <1>2 DEF IInv, Calls
<1>4. t \in Sent /\ t \in Tasks /\ t.owner \in Int
  BY <1>3, OpenTasks DEF IInv
<1>5. called \in Seq([task : Tasks, owner : Int])
  BY DEF IInv, TypeOK
<1>6. /\ n \in Nat /\ DOMAIN called = 1 .. n /\ DOMAIN called' = 1 .. n + 1
      /\ called' \in Seq([task : Tasks, owner : Int])
      /\ called'[n + 1].task = t /\ called'[n + 1].owner = o
      /\ \A i \in 1 .. n : called'[i] = called[i]
  <2>1. [task |-> t, owner |-> o] \in [task : Tasks, owner : Int]
    BY <1>3, <1>4
  <2>2. PICK r : r = [task |-> t, owner |-> o]
    OBVIOUS
  <2>3. r \in [task : Tasks, owner : Int] /\ r.task = t /\ r.owner = o /\ called' = Append(called, r)
    BY <1>2, <2>1, <2>2
  <2>4. /\ n \in Nat /\ DOMAIN called = 1 .. n /\ DOMAIN called' = 1 .. n + 1
        /\ called' \in Seq([task : Tasks, owner : Int]) /\ called'[n + 1] = r
        /\ \A i \in 1 .. n : called'[i] = called[i]
    BY <1>1, <1>5, <2>3
  <2> QED BY <2>3, <2>4
<1>7. 1 .. n + 1 = (1 .. n) \cup {n + 1} /\ n + 1 \notin 1 .. n
  BY <1>6
<1>8. late \in Nat /\ late' \in Nat /\ late' <= 1 /\ (alive' => late' = 0)
  <2>1. late \in Nat /\ late <= 1 /\ late # 1 /\ (alive => late = 0)
    BY <1>2 DEF IInv, TypeOK, Calls
  <2> QED BY <1>2, <2>1
<1>9. TypeOK'
  BY <1>2, <1>6, <1>8 DEF IInv, TypeOK, Pcs
<1>10. Places'
  BY <1>2, Stays
<1>11. Open' = Open /\ Sent' = Sent
  BY <1>2 DEF Open, Sent
<1>12. (\A i \in DOMAIN called :
          called[i].task \in Sent \ callbacks /\ called[i].owner = called[i].task.owner)'
  BY <1>2, <1>3, <1>4, <1>6, <1>7, <1>11 DEF IInv, Calls
<1>13. (\A i, j \in DOMAIN called : called[i].task = called[j].task => i = j)'
  BY <1>3, <1>6, <1>7 DEF IInv, Calls
<1>14. (caller.got <= Cardinality(OutQueue(caller.batch)))'
  <2>1. PICK b : b = caller.batch
    OBVIOUS
  <2> DEFINE Q == {i \in 1 .. n : called'[i].owner = b}
             R == {i \in 1 .. n + 1 : called'[i].owner = b}
  <2>2. OutQueue(b) = Q /\ OutQueue(caller.batch)' = R /\ caller'.got = caller.got
    BY <1>2, <1>6, <2>1 DEF OutQueue
  <2>3. Q \subseteq R
    BY <1>7
  <2>4. IsFiniteSet(R)
    <3>1. IsFiniteSet(1 .. n + 1)
      BY <1>6, FS_Interval
    <3> QED BY <3>1, FS_Subset
  <2> HIDE DEF Q, R
  <2>5. Cardinality(Q) <= Cardinality(R) /\ Cardinality(Q) \in Nat /\ Cardinality(R) \in Nat
    BY <2>3, <2>4, FS_Subset, FS_CardinalityType
  <2>6. caller.got <= Cardinality(Q) /\ caller.got \in Nat
    BY <2>1, <2>2 DEF IInv, Calls, TypeOK
  <2> QED BY <2>2, <2>5, <2>6
<1>15. Calls'
  BY <1>2, <1>8, <1>11, <1>12, <1>13, <1>14 DEF IInv, Calls
<1> QED BY <1>2, <1>9, <1>10, <1>15, FrameFlies DEF IInv

-----------------------------------------------------------------------------
(* The invariant.                                                          *)

\* The controller is idle when it is made.
LEMMA InitInv ==
  ASSUME PoolAssumption, Init
  PROVE  IInv
<1>1. <<>> \in Seq(Tasks) /\ <<>> \in Seq(Tasks \cup {Stop}) /\ Len(<<>>) = 0 /\ 1 .. 0 = {}
  OBVIOUS
<1>2. Once(<<>>) /\ Els(<<>>) = {}
  BY <1>1 DEF Once, Els
<1>3. TypeOK
  <2>1. 0 \in 0 .. Submits /\ 1 \in 1 .. Batches + 1 /\ 0 \in 0 .. BatchSize
    BY DEF PoolAssumption
  <2>2. called \in Seq([task : Tasks, owner : Int])
    BY DEF Init
  <2>3. worker \in [Workers -> [pc : {"poll", "wait", "gone"}, queue : Seq(Tasks), tasks : SUBSET Tasks]]
    BY <1>1 DEF Init
  <2>4. cb \in [pc : Pcs, task : Tasks \cup {NoTask}, callback : Tasks \cup {NoTask}] /\ cb.pc = "check"
    BY DEF Init, Pcs
  <2> QED BY <1>1, <2>1, <2>2, <2>3, <2>4 DEF Init, TypeOK
<1>4. Load = [w \in Workers |-> {}] /\ InHand = {}
  BY <1>2 DEF Init, Load, InHand
<1>5. Places
  <2>1. \A w \in Workers : Once(worker[w].queue) /\ Els(worker[w].queue) \cap worker[w].tasks = {}
    BY <1>2 DEF Init
  <2>2. Once(pending) /\ Once(input) /\ Once(results)
    BY <1>2 DEF Init
  <2>3. Placed(Els(pending), Els(input), Load, Els(results), InHand)
    BY <1>2, <1>4 DEF Init, Placed
  <2>4. /\ Within(callbacks, Els(pending), Els(input), Load, Els(results), InHand)
        /\ Covers(callbacks, Els(pending), Els(input), Load, Els(results), InHand)
    BY <1>2, <1>4 DEF Init, Within, Covers
  <2> QED BY <2>1, <2>2, <2>3, <2>4 DEF Places
<1>6. IsFiniteSet(inflight) /\ Cardinality(inflight) = 0
  BY FS_EmptySet DEF Init
<1>7. Flying /\ Full
  <2>1. inflight = Ids(callbacks \ Els(pending))
    BY DEF Init, Ids
  <2> QED BY <1>6, <2>1 DEF Flying, Full, Init, PoolAssumption
<1>8. Calls
  <2>1. DOMAIN called = {}
    BY DEF Init
  <2>2. OutQueue(caller.batch) = {} /\ Cardinality(OutQueue(caller.batch)) = 0
    BY <2>1, FS_EmptySet DEF OutQueue
  <2> QED BY <2>1, <2>2 DEF Init, Calls
<1> QED BY <1>3, <1>5, <1>7, <1>8 DEF IInv

\* Every step of the controller, of its callers and of its workers keeps it.
LEMMA StepInv ==
  ASSUME PoolAssumption, IInv, [Next]_vars
  PROVE  IInv'
<1>1. CASE UNCHANGED vars
  <2>1. UNCHANGED <<flow, caller, callbacks, pending, inflight, input, worker, results, cb, called, alive, late>>
    BY <1>1 DEF vars, poolVars
  <2>2. Load' = Load /\ InHand' = InHand
    BY <2>1 DEF Load, InHand
  <2>3. Open' = Open /\ Sent' = Sent /\ OutQueue(caller.batch)' = OutQueue(caller.batch)
    BY <2>1 DEF Open, Sent, OutQueue
  <2>4. TypeOK'
    BY <2>1 DEF IInv, TypeOK
  <2>5. Places'
    BY <2>1, <2>2 DEF IInv, Places
  <2>6. Calls'
    BY <2>1, <2>3 DEF IInv, Calls
  <2> QED BY <2>1, <2>4, <2>5, <2>6, FrameFlies DEF IInv
<1>2. CASE FlowSubmit
  BY <1>2, FlowSubmits
<1>3. CASE BatchSubmit
  BY <1>3, BatchSubmits
<1>4. CASE BatchYield
  BY <1>4, BatchYields
<1>5. CASE BatchReturn
  BY <1>5, BatchReturns
<1>6. CASE \/ \E w \in Workers : WorkerGet(w) \/ LoopPoll(w) \/ GenFinish(w) \/ WorkerStop(w)
           \/ CbGet \/ Shutdown
  BY <1>6, Moves
<1>7. CASE CbCheck \/ CbRaise
  BY <1>7, CbTurns
<1>8. CASE CbTake
  BY <1>8, CbTakes
<1>9. CASE CbCall
  BY <1>9, CbCalls
<1> QED BY <1>1, <1>2, <1>3, <1>4, <1>5, <1>6, <1>7, <1>8, <1>9 DEF Next, Submitter, CallbackLoop, Idle

-----------------------------------------------------------------------------
(* What was handed to the workers.                                         *)

\* The five places of a task that was handed out.
AtInput(h) == \E i \in 1 .. Len(input) : input[i] # Stop /\ h = <<"input", i, input[i]>>
AtQueue(h, w) == \E i \in 1 .. Len(worker[w].queue) : h = <<w, i, worker[w].queue[i]>>
AtWork(h, w) == \E t \in worker[w].tasks : h = <<w, 0, t>>
AtResult(h) == \E i \in 1 .. Len(results) : h = <<"result", i, results[i]>>
AtCallback(h) == cb.pc = "lock" /\ h = <<"callback", 0, cb.task>>

\* There is no other.
LEMMA HandedForms ==
  ASSUME PoolAssumption, IInv
  PROVE  \A h : h \in Handed <=>
           \/ AtInput(h) \/ AtResult(h) \/ AtCallback(h)
           \/ \E w \in Workers : AtQueue(h, w) \/ AtWork(h, w)
<1>1. DOMAIN input = 1 .. Len(input) /\ DOMAIN results = 1 .. Len(results)
  BY PoolFacts
<1>2. \A w \in Workers : DOMAIN worker[w].queue = 1 .. Len(worker[w].queue)
  BY PoolFacts
<1> TAKE h
<1> DEFINE I == {<<"input", i, input[i]>> : i \in {j \in DOMAIN input : input[j] # Stop}}
           W == UNION {HeldBy(w) : w \in Workers}
           R == {<<"result", i, results[i]>> : i \in DOMAIN results}
           C == IF cb.pc = "lock" THEN {<<"callback", 0, cb.task>>} ELSE {}
<1>3. h \in I <=> AtInput(h)
  BY <1>1 DEF AtInput
<1>4. \A w \in Workers : h \in HeldBy(w) <=> AtQueue(h, w) \/ AtWork(h, w)
  BY <1>2 DEF HeldBy, AtQueue, AtWork
<1>5. h \in W <=> \E w \in Workers : AtQueue(h, w) \/ AtWork(h, w)
  BY <1>4
<1>6. h \in R <=> AtResult(h)
  BY <1>1 DEF AtResult
<1>7. h \in C <=> AtCallback(h)
  BY DEF AtCallback
<1>8. Handed = I \cup R \cup C \cup W
  BY DEF Handed
<1> HIDE DEF I, W, R, C
<1> QED BY <1>3, <1>5, <1>6, <1>7, <1>8

\* The tasks of each place.
LEMMA HandedTasks ==
  ASSUME PoolAssumption, IInv
  PROVE  /\ \A h : AtInput(h) => h[3] \in Els(input)
         /\ \A h : AtResult(h) => h[3] \in Els(results)
         /\ \A h : AtCallback(h) => h[3] \in InHand
         /\ \A w \in Workers : \A h : AtQueue(h, w) => h[3] \in Els(worker[w].queue)
         /\ \A w \in Workers : \A h : AtWork(h, w) => h[3] \in worker[w].tasks
         /\ \A t \in Els(input) : \E h : AtInput(h) /\ h[3] = t
         /\ \A t \in Els(results) : \E h : AtResult(h) /\ h[3] = t
         /\ \A t \in InHand : \E h : AtCallback(h) /\ h[3] = t
         /\ \A w \in Workers : \A t \in Els(worker[w].queue) : \E h : AtQueue(h, w) /\ h[3] = t
         /\ \A w \in Workers : \A t \in worker[w].tasks : \E h : AtWork(h, w) /\ h[3] = t
<1>1. \A h : AtInput(h) => h[3] \in Els(input)
  BY DEF AtInput, Els
<1>2. \A h : AtResult(h) => h[3] \in Els(results)
  <2>1. Len(results) \in Nat /\ \A i \in 1 .. Len(results) : results[i] \in Tasks /\ results[i] # Stop
    BY PoolFacts
  <2> QED BY <2>1 DEF AtResult, Els
<1>3. \A h : AtCallback(h) => h[3] \in InHand
  BY DEF AtCallback, InHand
<1>4. \A w \in Workers : \A h : AtQueue(h, w) => h[3] \in Els(worker[w].queue)
  <2> TAKE w \in Workers
  <2>1. \A i \in 1 .. Len(worker[w].queue) : worker[w].queue[i] \in Tasks /\ worker[w].queue[i] # Stop
    BY PoolFacts
  <2> QED BY <2>1 DEF AtQueue, Els
<1>5. \A w \in Workers : \A h : AtWork(h, w) => h[3] \in worker[w].tasks
  BY DEF AtWork
<1>6. \A t \in Els(input) : \E h : AtInput(h) /\ h[3] = t
  <2> TAKE t \in Els(input)
  <2>1. PICK i \in 1 .. Len(input) : input[i] = t /\ t # Stop
    BY DEF Els
  <2>2. AtInput(<<"input", i, t>>) /\ <<"input", i, t>>[3] = t
    BY <2>1 DEF AtInput
  <2> QED BY <2>2
<1>7. \A t \in Els(results) : \E h : AtResult(h) /\ h[3] = t
  <2> TAKE t \in Els(results)
  <2>1. PICK i \in 1 .. Len(results) : results[i] = t
    BY DEF Els
  <2>2. AtResult(<<"result", i, t>>) /\ <<"result", i, t>>[3] = t
    BY <2>1 DEF AtResult
  <2> QED BY <2>2
<1>8. \A t \in InHand : \E h : AtCallback(h) /\ h[3] = t
  <2> TAKE t \in InHand
  <2>1. AtCallback(<<"callback", 0, t>>) /\ <<"callback", 0, t>>[3] = t
    BY DEF AtCallback, InHand
  <2> QED BY <2>1
<1>9. \A w \in Workers : \A t \in Els(worker[w].queue) : \E h : AtQueue(h, w) /\ h[3] = t
  <2> TAKE w \in Workers
  <2> TAKE t \in Els(worker[w].queue)
  <2>1. PICK i \in 1 .. Len(worker[w].queue) : worker[w].queue[i] = t
    BY DEF Els
  <2>2. AtQueue(<<w, i, t>>, w) /\ <<w, i, t>>[3] = t
    BY <2>1 DEF AtQueue
  <2> QED BY <2>2
<1>10. \A w \in Workers : \A t \in worker[w].tasks : \E h : AtWork(h, w) /\ h[3] = t
  <2> TAKE w \in Workers
  <2> TAKE t \in worker[w].tasks
  <2>1. AtWork(<<w, 0, t>>, w) /\ <<w, 0, t>>[3] = t
    BY DEF AtWork
  <2> QED BY <2>1
<1> QED BY <1>1, <1>2, <1>3, <1>4, <1>5, <1>6, <1>7, <1>8, <1>9, <1>10

\* The ids of what was handed out are the ids in flight.
LEMMA HandedIds ==
  ASSUME PoolAssumption, IInv, alive
  PROVE  {h[3].id : h \in Handed} = inflight
<1>1. \A w \in Workers : Load[w] = Els(worker[w].queue) \cup worker[w].tasks
  BY PoolFacts
<1>2. \A h \in Handed : h[3] \in callbacks \ Els(pending)
  <2> TAKE h \in Handed
  <2>1. h[3] \in Els(input) \cup Els(results) \cup InHand \/ \E w \in Workers : h[3] \in Load[w]
    BY <1>1, HandedForms, HandedTasks
  <2> QED BY <2>1, PoolFacts DEF Placed, Within
<1>3. \A t \in callbacks \ Els(pending) : \E h \in Handed : h[3] = t
  <2> TAKE t \in callbacks \ Els(pending)
  <2>1. \/ t \in Els(input) \cup Els(results) \cup InHand
        \/ \E w \in Workers : t \in Els(worker[w].queue) \/ t \in worker[w].tasks
    BY <1>1 DEF IInv, Places, Covers
  <2> QED BY <2>1, HandedForms, HandedTasks
<1>4. inflight = Ids(callbacks \ Els(pending))
  BY PoolFacts
<1> QED BY <1>2, <1>3, <1>4 DEF Ids

\* A task is in one of the places, and there once.
LEMMA HandedOnce ==
  ASSUME PoolAssumption, IInv, NEW g \in Handed, NEW h \in Handed, g[3].id = h[3].id
  PROVE  g = h
<1>1. \A w \in Workers : Load[w] = Els(worker[w].queue) \cup worker[w].tasks
  BY PoolFacts
<1>2. \A k \in Handed : k[3] \in callbacks
  <2> TAKE k \in Handed
  <2>1. k[3] \in Els(input) \cup Els(results) \cup InHand \/ \E w \in Workers : k[3] \in Load[w]
    BY <1>1, HandedForms, HandedTasks
  <2> QED BY <2>1, PoolFacts DEF Placed, Within
<1>3. PICK t : g[3] = t /\ h[3] = t
  BY <1>2, PoolFacts DEF UniqueIds
<1> DEFINE P == Els(pending)
           I == Els(input)
           R == Els(results)
<1>4. /\ I \cap R = {} /\ I \cap InHand = {} /\ R \cap InHand = {}
      /\ \A w \in Workers :
           /\ (Els(worker[w].queue) \cup worker[w].tasks) \cap (I \cup R \cup InHand) = {}
           /\ Els(worker[w].queue) \cap worker[w].tasks = {}
      /\ \A v, w \in Workers : v # w =>
           (Els(worker[v].queue) \cup worker[v].tasks) \cap (Els(worker[w].queue) \cup worker[w].tasks) = {}
  BY <1>1, PoolFacts DEF Placed
<1> HIDE DEF P, I, R
<1>5. /\ AtInput(g) => t \in I
      /\ AtInput(h) => t \in I
      /\ AtResult(g) => t \in R
      /\ AtResult(h) => t \in R
      /\ AtCallback(g) => t \in InHand
      /\ AtCallback(h) => t \in InHand
      /\ \A w \in Workers : /\ AtQueue(g, w) => t \in Els(worker[w].queue)
                            /\ AtQueue(h, w) => t \in Els(worker[w].queue)
                            /\ AtWork(g, w) => t \in worker[w].tasks
                            /\ AtWork(h, w) => t \in worker[w].tasks
  BY <1>3, HandedTasks DEF I, R
<1>6. /\ AtInput(g) \/ AtResult(g) \/ AtCallback(g) \/ \E w \in Workers : AtQueue(g, w) \/ AtWork(g, w)
      /\ AtInput(h) \/ AtResult(h) \/ AtCallback(h) \/ \E w \in Workers : AtQueue(h, w) \/ AtWork(h, w)
  BY HandedForms
<1>7. CASE t \in I
  <2>1. AtInput(g) /\ AtInput(h)
    BY <1>4, <1>5, <1>6, <1>7
  <2>2. \A i, j \in 1 .. Len(input) : input[i] = input[j] /\ input[i] # Stop => i = j
    BY PoolFacts DEF Once
  <2> QED BY <1>3, <2>1, <2>2 DEF AtInput
<1>8. CASE t \in R
  <2>1. AtResult(g) /\ AtResult(h)
    BY <1>4, <1>5, <1>6, <1>8
  <2>2. \A i, j \in 1 .. Len(results) : results[i] = results[j] => i = j
    BY PoolFacts DEF Once
  <2> QED BY <1>3, <2>1, <2>2 DEF AtResult
<1>9. CASE t \in InHand
  <2>1. AtCallback(g) /\ AtCallback(h)
    BY <1>4, <1>5, <1>6, <1>9
  <2> QED BY <2>1 DEF AtCallback
<1>10. ASSUME NEW w \in Workers, t \in Els(worker[w].queue) PROVE g = h
  <2>1. AtQueue(g, w) /\ AtQueue(h, w)
    BY <1>4, <1>5, <1>6, <1>10
  <2>2. \A i, j \in 1 .. Len(worker[w].queue) : worker[w].queue[i] = worker[w].queue[j] => i = j
    BY PoolFacts DEF Once
  <2> QED BY <1>3, <2>1, <2>2 DEF AtQueue
<1>11. ASSUME NEW w \in Workers, t \in worker[w].tasks PROVE g = h
  <2>1. AtWork(g, w) /\ AtWork(h, w)
    BY <1>4, <1>5, <1>6, <1>11
  <2> QED BY <1>3, <2>1 DEF AtWork
<1> QED BY <1>5, <1>6, <1>7, <1>8, <1>9, <1>10, <1>11

-----------------------------------------------------------------------------
(* Theorems.                                                               *)

\* The invariant holds of every state of the pool.
LEMMA Invariant == PoolAssumption /\ Spec => []IInv
<1> SUFFICES ASSUME PoolAssumption PROVE Spec => []IInv
  OBVIOUS
<1>1. Init => IInv
  BY InitInv
<1>2. IInv /\ [Next]_vars => IInv'
  BY StepInv
<1> QED BY <1>1, <1>2, PTL DEF Spec

\* The cap, the ids in flight and what was handed out agree: at most
\* max_concurrent_genables tasks are with the workers, none is lost or handed
\* out twice, and none waits while there is room (_dispatch_pending_locked()).
THEOREM PoolCap == PoolAssumption /\ Spec => []ExactCap
<1> SUFFICES ASSUME PoolAssumption PROVE Spec => []ExactCap
  OBVIOUS
<1>1. IInv => ExactCap
  <2> SUFFICES ASSUME IInv PROVE ExactCap
    OBVIOUS
  <2>1. Full
    BY DEF IInv
  <2> QED BY <2>1, HandedIds, HandedOnce DEF ExactCap, Full
<1> QED BY <1>1, Invariant, PTL

\* Every callback gets the result of its own task, once, although the batches of
\* generate() use the same ids over again (_callback_loop()).
THEOREM PoolCallbacks == PoolAssumption /\ Spec => []OwnCallback
<1> SUFFICES ASSUME PoolAssumption PROVE Spec => []OwnCallback
  OBVIOUS
<1>1. IInv => OwnCallback
  <2> SUFFICES ASSUME IInv PROVE OwnCallback
    OBVIOUS
  <2>1. cb.pc = "lock" => cb.task \in callbacks
    BY PoolFacts DEF Within, InHand
  <2> QED BY <2>1 DEF IInv, Calls, OwnCallback
<1> QED BY <1>1, Invariant, PTL
=============================================================================
